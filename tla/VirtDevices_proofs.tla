-------------------------- MODULE VirtDevices_proofs --------------------------
(***************************************************************************)
(* Proofs about shared devices, for any number of CPUs, VMs, pins and      *)
(* interrupts.  VirtDevices only restricts CoreIntc, so what CoreIntc_     *)
(* proofs shows of the interrupt controller holds beside the devices too.  *)
(***************************************************************************)
EXTENDS VirtDevices, CoreIntc_proofs

USE IntcAssumption, DeviceAssumption

-----------------------------------------------------------------------------
(* The interrupt controller beside the devices. *)

CreatedInv == created \subseteq Vcpus

LEMMA CreatedStep == CreatedInv /\ [DeviceNext]_deviceVars => CreatedInv'
<1> SUFFICES ASSUME CreatedInv, [DeviceNext]_deviceVars PROVE CreatedInv'
  OBVIOUS
<1>1. ASSUME NEW v \in Vcpus, vm_create(v) PROVE CreatedInv'
  BY <1>1 DEF vm_create, CreatedInv
<1>2. CASE UNCHANGED created
  BY <1>2 DEF CreatedInv
<1>. QED
  BY <1>1, <1>2 DEF DeviceNext, cpu_hlt, gpio_reg_write, WriteSelector, ReadSelector, ShiftSelector,
     bcm2835_ic_reg_write, OtherStep, Signal, claimVars, deviceVars

LEMMA IntcStep == CreatedInv /\ [DeviceNext]_deviceVars => [Next]_vars
<1> SUFFICES ASSUME CreatedInv, DeviceNext PROVE [Next]_vars
  BY DEF deviceVars
<1>1. ASSUME NEW c \in Cpus,
             \/ gpio_reg_write(c) \/ WriteSelector(c) \/ ReadSelector(c)
             \/ bcm2835_ic_reg_write(c)
      PROVE  Next
  BY <1>1 DEF gpio_reg_write, WriteSelector, ReadSelector, bcm2835_ic_reg_write, Next, CpuStep
<1>2. ASSUME NEW c \in Cpus, OtherStep(c) PROVE Next
  BY <1>2 DEF OtherStep, Next, CreatedInv
<1>3. ASSUME NEW p \in Pins, Signal(p) PROVE UNCHANGED vars
  BY <1>3 DEF Signal
<1>4. ASSUME NEW c \in Cpus, ShiftSelector(c) PROVE UNCHANGED vars
  BY <1>4 DEF ShiftSelector
<1>. QED
  BY <1>1, <1>2, <1>3, <1>4 DEF DeviceNext, vm_create, cpu_hlt, deviceVars

(* The interrupt controller under the devices is the one of CoreIntc. *)
THEOREM ImplementsIntc == DeviceSpec => Spec
<1>1. DeviceInit => Init /\ CreatedInv
  BY DEF DeviceInit, CreatedInv
<1>. QED
  BY <1>1, CreatedStep, IntcStep, PTL DEF DeviceSpec, Spec

(* So guests that share devices take nothing from the hypervisor's timer   *)
(* and leave no interrupt enabled behind them.                             *)
THEOREM DevicesAreQuiet ==
  DeviceSpec => [](TypeOK /\ HypTimerStaysEnabled /\ IdleIsQuiet)
BY ImplementsIntc, TypeCorrect, HypTimerKept, IdleStaysQuiet, PTL

-----------------------------------------------------------------------------
(* Claims. *)

(* A CPU has a vcpu only of a VM that was created, and has one in a guest. *)
RunnersWereCreated ==
  \A c \in Cpus : /\ current[c] \in created \cup {None}
                  /\ pc[c] = "guest" => current[c] # None

ClaimInv ==
  /\ assigned \in [Vcpus -> SUBSET Pins]
  /\ irq_vec_table \in [Irqs -> Vcpus \cup {None, 0}]
  /\ enabled \subseteq Irqs
  /\ CreatedInv
  /\ RunnersWereCreated
  /\ PinsBelongToOne
  /\ ClaimsAreWhole

(* The first VM gets every interrupt but number 0, a later one none. *)
LEMMA ClaimsStayWhole ==
  ASSUME ClaimInv, NEW v \in Vcpus, virt_device_intr_set(v), created' = created \cup {v},
         UNCHANGED enabled
  PROVE  irq_vec_table' \in [Irqs -> Vcpus \cup {None, 0}] /\ ClaimsAreWhole'
<1> USE DEF ClaimInv, ClaimsAreWhole, virt_device_intr_set, assigned_gpu_irq, Irqs, Claimable
<1>1. CASE created = {}
  <2>1. \A i \in Claimable : \A j \in 1..i : j \in 0..(IrqNum - 1) /\ irq_vec_table[j] = None
    BY <1>1
  <2>2. irq_vec_table' = [i \in Irqs |-> IF i \in Claimable THEN v ELSE irq_vec_table[i]]
    BY <2>1
  <2>3. irq_vec_table' \in [Irqs -> Vcpus \cup {None, 0}]
    BY <2>2
  <2>4. \A i \in Claimable : irq_vec_table'[i] = v
    BY <2>2
  <2>. QED
    BY <2>3, <2>4
<1>2. CASE created # {}
  <2>1. \A i \in Claimable : irq_vec_table[i] # None /\ i \in 1..i
    BY <1>2 DEF CreatedInv
  <2>2. irq_vec_table' = [i \in Irqs |-> irq_vec_table[i]]
    BY <2>1
  <2>. QED
    BY <1>2, <2>2
<1>. QED
  BY <1>1, <1>2

LEMMA CreateKeepsClaims ==
  ASSUME ClaimInv, NEW v \in Vcpus, vm_create(v)
  PROVE  ClaimInv'
<1>1. PICK want \in SUBSET Pins :
        /\ assigned' = [assigned EXCEPT ![v] = want]
        /\ IF Assignable(want)
             THEN /\ gpio_used' = gpio_used \cup want
                  /\ virt_device_intr_set(v)
                  /\ created' = created \cup {v}
             ELSE UNCHANGED <<created, gpio_used, irq_vec_table>>
  BY DEF vm_create
<1>. v \notin created /\ UNCHANGED <<pc, current, enabled>>
  BY DEF vm_create, vars
<1>2. assigned' \in [Vcpus -> SUBSET Pins] /\ CreatedInv' /\ RunnersWereCreated'
  BY <1>1 DEF ClaimInv, CreatedInv, RunnersWereCreated
<1>3. \A u \in created : assigned'[u] = assigned[u]
  BY <1>1 DEF ClaimInv, CreatedInv
<1>4. CASE Assignable(want)
  <2>1. assigned'[v] = want /\ gpio_used \cap want = {}
    BY <1>1, <1>4 DEF ClaimInv, Assignable
  <2>2. gpio_used' = UNION {assigned'[u] : u \in created'}
    BY <1>1, <1>3, <1>4, <2>1 DEF ClaimInv, PinsBelongToOne
  <2>3. \A u \in created : assigned'[u] \cap assigned'[v] = {}
    BY <1>3, <2>1 DEF ClaimInv, PinsBelongToOne
  <2>4. PinsBelongToOne'
    BY <1>1, <1>3, <1>4, <2>2, <2>3 DEF ClaimInv, PinsBelongToOne
  <2>. QED
    BY <1>1, <1>2, <1>4, <2>4, ClaimsStayWhole DEF ClaimInv
<1>5. CASE ~Assignable(want)
  <2>1. PinsBelongToOne'
    BY <1>1, <1>3, <1>5 DEF ClaimInv, PinsBelongToOne
  <2>. QED
    BY <1>1, <1>2, <1>5, <2>1 DEF ClaimInv, ClaimsAreWhole
<1>. QED
  BY <1>4, <1>5

(* No step of a CPU brings a vcpu of a VM that was not created. *)
LEMMA RunnersStay ==
  ASSUME TypeOK, ClaimInv, NEW c \in Cpus, UNCHANGED created,
         CpuStep(c) \/ WriteTimerControl(c) \/ \E v \in created : Pick(c, v)
  PROVE  RunnersWereCreated'
<1>1. CASE \/ Trap(c) \/ Boot(c) \/ WriteTimerControl(c) \/ WriteMailboxControl(c)
           \/ Return(c) \/ Wake(c) \/ IdleFromStart(c) \/ Idle(c)
  <2>1. UNCHANGED current /\ (pc'[c] = "guest" => current[c] # None)
    BY <1>1 DEF Trap, Boot, WriteTimerControl, WriteMailboxControl, Return, Wake,
       IdleFromStart, Idle, Goto, TypeOK
  <2>2. \A d \in Cpus \ {c} : pc'[d] = pc[d]
    BY <1>1 DEF Trap, Boot, WriteTimerControl, WriteMailboxControl, Return, Wake,
       IdleFromStart, Idle, Goto, TypeOK
  <2>. QED
    BY <2>1, <2>2 DEF ClaimInv, RunnersWereCreated
<1>2. CASE Sleep(c) \/ bcm2836_ic_reg_read(c)
  BY <1>2 DEF Sleep, bcm2836_ic_reg_read, Goto, ClaimInv, RunnersWereCreated, TypeOK
<1>3. ASSUME NEW v \in created, Pick(c, v) PROVE RunnersWereCreated'
  BY <1>3 DEF Pick, Goto, ClaimInv, RunnersWereCreated, CreatedInv, TypeOK
<1>. QED
  BY <1>1, <1>2, <1>3 DEF CpuStep

(* A guest runs, so its VM was created and each interrupt that can be      *)
(* claimed has an owner.                                                   *)
LEMMA EnableKeepsClaims ==
  ASSUME TypeOK, ClaimInv, NEW c \in Cpus, bcm2835_ic_reg_write(c)
  PROVE  ClaimInv'
<1>1. Trap(c) /\ UNCHANGED claimVars
  BY DEF bcm2835_ic_reg_write
<1>2. RunnersWereCreated'
  BY <1>1, RunnersStay DEF CpuStep, claimVars
<1>3. current[c] \in created
  BY <1>1 DEF Trap, ClaimInv, RunnersWereCreated
<1>4. \A i \in Claimable : irq_vec_table[i] \in created
  BY <1>3 DEF ClaimInv, ClaimsAreWhole
<1>5. enabled' \subseteq Irqs
  BY DEF bcm2835_ic_reg_write, ClaimInv
<1>. QED
  BY <1>1, <1>2, <1>4, <1>5 DEF ClaimInv, CreatedInv, PinsBelongToOne, ClaimsAreWhole,
     claimVars, Claimable

LEMMA ClaimStep ==
  ASSUME TypeOK, ClaimInv, [DeviceNext]_deviceVars
  PROVE  ClaimInv'
<1>1. ASSUME UNCHANGED <<claimVars, enabled>>, RunnersWereCreated' PROVE ClaimInv'
  BY <1>1 DEF claimVars, ClaimInv, CreatedInv, PinsBelongToOne, ClaimsAreWhole
<1>2. CASE UNCHANGED <<claimVars, enabled, vars>>
  BY <1>1, <1>2 DEF ClaimInv, RunnersWereCreated, claimVars, vars
<1>3. ASSUME NEW c \in Cpus,
             gpio_reg_write(c) \/ WriteSelector(c) \/ ReadSelector(c) \/ OtherStep(c)
      PROVE  ClaimInv'
  <2>1. /\ UNCHANGED <<claimVars, enabled>>
        /\ CpuStep(c) \/ WriteTimerControl(c) \/ \E v \in created : Pick(c, v)
    BY <1>3 DEF gpio_reg_write, WriteSelector, ReadSelector, OtherStep, CpuStep
  <2>. QED
    BY <1>1, <2>1, RunnersStay DEF claimVars
<1>4. ASSUME NEW p \in Pins, Signal(p) PROVE ClaimInv'
  BY <1>2, <1>4 DEF Signal
<1>5. ASSUME NEW c \in Cpus, ShiftSelector(c) PROVE ClaimInv'
  BY <1>2, <1>5 DEF ShiftSelector
<1>. QED
  BY <1>2, <1>3, <1>4, <1>5, CreateKeepsClaims, EnableKeepsClaims DEF DeviceNext, cpu_hlt,
     deviceVars

(* The claims of vm_create and the pins' hardware bits fit together  *)
(* after every step, also where a claim stopped half-way.                  *)
THEOREM ClaimInvariance == DeviceSpec => []ClaimInv
<1>1. DeviceInit => ClaimInv
  BY DEF DeviceInit, Init, NoVcpu, ClaimInv, CreatedInv, RunnersWereCreated,
     PinsBelongToOne, ClaimsAreWhole, Claimable
<1>2. TypeOK /\ ClaimInv /\ [DeviceNext]_deviceVars => ClaimInv'
  BY ClaimStep
<1>. QED
  BY <1>1, <1>2, DevicesAreQuiet, PTL DEF DeviceSpec

(* No pin has two owners, whatever pins the VMs ask for.                   *)
THEOREM PinsExclude == DeviceSpec => []PinsBelongToOne
<1>1. ClaimInv => PinsBelongToOne
  BY DEF ClaimInv
<1>. QED
  BY <1>1, ClaimInvariance, PTL

(* virt_device_intr_set leaves no claim of a VM in parts, and a guest      *)
(* enables no interrupt without an owner except number 0, which nobody can *)
(* claim.                                                                  *)
THEOREM ClaimsWhole == DeviceSpec => []ClaimsAreWhole
<1>1. ClaimInv => ClaimsAreWhole
  BY DEF ClaimInv
<1>. QED
  BY <1>1, ClaimInvariance, PTL

-----------------------------------------------------------------------------
(* Pins change by their owners alone. *)

LEMMA DriveStep ==
  ASSUME TypeOK, ClaimInv, DeviceNext, NEW p \in Pins,
         (p \in high) # (p \in high') \/ p \in event \ event'
  PROVE  OwnersTrap(p)
<1>1. PICK c \in Cpus : gpio_reg_write(c)
  BY DEF DeviceNext, vm_create, cpu_hlt, WriteSelector, ReadSelector, ShiftSelector,
     bcm2835_ic_reg_write, OtherStep, Signal, deviceVars, gpioVars
<1>2. PICK value : p \in Filtered(c, value)
  BY <1>1 DEF gpio_reg_write
<1>3. pc[c] = "guest" /\ pc'[c] = "hyp"
  BY <1>1 DEF gpio_reg_write, Trap, Goto, TypeOK
<1>4. current[c] \in created /\ p \in assigned[current[c]]
  BY <1>2, <1>3 DEF Filtered, ClaimInv, RunnersWereCreated
<1>. QED
  BY <1>3, <1>4 DEF OwnersTrap

LEMMA SelectStep ==
  ASSUME TypeOK, ClaimInv, DeviceNext, NEW p \in Pins, p \in driven' \ driven
  PROVE  OwnersTrap(p) \/ \E c \in Cpus : ShiftSelector(c)
<1>1. PICK c \in Cpus : WriteSelector(c) \/ ShiftSelector(c)
  BY DEF DeviceNext, vm_create, cpu_hlt, gpio_reg_write, ReadSelector,
     bcm2835_ic_reg_write, OtherStep, Signal, deviceVars, gpioVars
<1>2. CASE WriteSelector(c)
  <2>1. PICK value : p \in Filtered(c, value)
    BY <1>2 DEF WriteSelector
  <2>2. pc[c] = "guest" /\ pc'[c] = "hyp"
    BY <1>2 DEF WriteSelector, Trap, Goto, TypeOK
  <2>3. current[c] \in created /\ p \in assigned[current[c]]
    BY <2>1, <2>2 DEF Filtered, ClaimInv, RunnersWereCreated
  <2>. QED
    BY <2>2, <2>3 DEF OwnersTrap
<1>3. CASE ShiftSelector(c)
  BY <1>3 DEF ShiftSelector
<1>. QED
  BY <1>1, <1>2, <1>3

(* A pin changes its level, has its events acknowledged and starts to be   *)
(* driven only by the guest that the pin is assigned to, except while a    *)
(* read of the selectors shifts the functions of its neighbours past it.   *)
THEOREM OwnersDrive == DeviceSpec => OnlyTheOwnerDrives
<1>1. TypeOK /\ ClaimInv /\ [DeviceNext]_deviceVars =>
        [\A p \in Pins :
           /\ ((p \in high) # (p \in high') \/ p \in event \ event') => OwnersTrap(p)
           /\ p \in driven' \ driven =>
                OwnersTrap(p) \/ \E c \in Cpus : ShiftSelector(c)]_deviceVars
  BY DriveStep, SelectStep
<1>. QED
  BY <1>1, DevicesAreQuiet, ClaimInvariance, PTL DEF DeviceSpec, OnlyTheOwnerDrives
=============================================================================
