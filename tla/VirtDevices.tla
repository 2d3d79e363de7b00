----------------------------- MODULE VirtDevices -----------------------------
(***************************************************************************)
(* The devices that VMs share under the hypervisor's control, on top of    *)
(* CoreIntc: the claims that vm_create makes for a VM (virt_mmio.c,        *)
(* virt_gpio.c, virq.c), and the registers of the GPIO and of the BCM2835  *)
(* interrupt controller, whose writes are filtered by those claims while   *)
(* several guests run.                                                     *)
(*                                                                         *)
(* A register with one bit for each pin is the set of pins whose bit is    *)
(* set, and the function selectors are the set of pins whose function is   *)
(* not input.  A read of a selector shifts the hardware's register while   *)
(* it goes through the pins; other reads return the owned part of a        *)
(* register and change nothing.  fiq_index has no model: only the search   *)
(* of virt_intr_handler reads it, which is not reached while an interrupt  *)
(* is pending.                                                             *)
(***************************************************************************)
EXTENDS CoreIntc, Sequences

CONSTANTS
  Pins,      \* the GPIO pins
  Banks,     \* those that guests write bits of, as the sets that share a register
  Selectors, \* the pins that share a GPFSELn, in the order of their fields
  IrqNum     \* GPU_INTERRUPT_NUM

Fields(sel) == {sel[i] : i \in DOMAIN sel}

ASSUME DeviceAssumption ==
  /\ IrqNum \in Nat \ {0}
  /\ UNION Banks \subseteq Pins /\ Selectors \subseteq Seq(Pins)
  /\ 0 \notin Vcpus \cup {None}

Irqs == 0..(IrqNum - 1)

(* virt_device_intr_init and virt_device_intr_set start at 1. *)
Claimable == Irqs \ {0}

VARIABLES
  created,    \* the VMs that vm_create has finished
  assigned,   \* vm->assigned_gpio
  gpio_used,
  irq_vec_table,
  enabled,    \* the interrupts enabled in the BCM2835's registers
  halted,     \* the primary CPU is in hyp_panic
  high,       \* the pins that are driven high (GPSETn, GPCLRn)
  detect,     \* GPRENn and the other registers that hold what is written
  event,      \* GPEDSn
  driven,     \* the pins that are not inputs (GPFSELn)
  reading     \* of each CPU: the pins its read of a selector has still to visit

claimVars  == <<created, assigned, gpio_used, irq_vec_table, halted>>
gpioVars   == <<high, detect, event, driven, reading>>
deviceVars == <<vars, claimVars, enabled, gpioVars>>

-----------------------------------------------------------------------------
(* vm_create, on the primary CPU before anything runs. *)

OverlapIsFine(want) == TRUE

(* gpio_assign refuses a VM that wants a pin twice. *)
Assignable(want) == gpio_used \cap want = {}

JustTheLast(v) == {IrqNum - 1}

(* vm_create assigns all interrupts, whatever its caller asked for. *)
assigned_gpu_irq(v) == 0..(IrqNum - 1)

(* virt_device_intr_set goes on until it meets an interrupt that is not    *)
(* assigned or has an owner.                                               *)
virt_device_intr_set(v) ==
  LET Free(i)   == i \in assigned_gpu_irq(v) /\ irq_vec_table[i] = None
      Claims(i) == \A j \in 1..i : Free(j)
  IN  irq_vec_table' = [i \in Irqs |-> IF i \in Claimable /\ Claims(i)
                                         THEN v ELSE irq_vec_table[i]]

vm_create(v) ==
  /\ pc[Primary] = "boot" /\ ~halted
  /\ v \notin created
  /\ \E want \in SUBSET Pins :
       /\ assigned' = [assigned EXCEPT ![v] = want]
       /\ IF Assignable(want)
            THEN /\ gpio_used' = gpio_used \cup want
                 /\ virt_device_intr_set(v)
                 /\ created' = created \cup {v}
                 /\ UNCHANGED halted
            ELSE halted' = TRUE /\ UNCHANGED <<created, gpio_used, irq_vec_table>>
  /\ UNCHANGED <<vars, enabled, gpioVars>>

(* hyp_panic does not return; the secondary CPUs wait for ever. *)
cpu_hlt == halted /\ UNCHANGED deviceVars

-----------------------------------------------------------------------------
(* Accesses of the guests. *)

Unfiltered(c, value) == value

(* value & vcpu->vm->assigned_gpio *)
Filtered(c, value) == value \cap assigned[current[c]]

gpio_reg_write(c) ==
  /\ Trap(c)
  /\ \E bank \in Banks : \E value \in SUBSET bank :
       LET own == Filtered(c, value) IN
       \/ high'   = high \cup own             /\ UNCHANGED <<detect, event>>
       \/ high'   = high \ own                /\ UNCHANGED <<detect, event>>
       \/ detect' = (detect \ bank) \cup own  /\ UNCHANGED <<high, event>>
       \/ event'  = event \ own               /\ UNCHANGED <<high, detect>>
  /\ UNCHANGED <<claimVars, enabled, driven, reading>>

(* gpio_reg_write of GPFSELn: the fields of the writer's own pins, and     *)
(* zeros, replace the whole register.  So a pin that the write leaves out, *)
(* for want of a value or of its owner, is an input afterwards.            *)
WriteSelector(c) ==
  /\ Trap(c)
  /\ \E sel \in Selectors : \E value \in SUBSET Fields(sel) :
       driven' = (driven \ Fields(sel)) \cup Filtered(c, value)
  /\ UNCHANGED <<claimVars, enabled, high, detect, event, reading>>

(* gpio_reg_read of GPFSELn. *)
ReadSelector(c) ==
  /\ Trap(c)
  /\ \E sel \in Selectors : reading' = [reading EXCEPT ![c] = sel]
  /\ UNCHANGED <<claimVars, enabled, high, detect, event, driven>>

(* The register is shifted by three bits: each pin gets the function of    *)
(* the next one, and the last becomes an input.                            *)
Shifted(sel) == {sel[i] : i \in {j \in DOMAIN sel : j + 1 \in DOMAIN sel /\ sel[j + 1] \in driven}}

ShiftSelector(c) ==
  /\ reading[c] # <<>>
  /\ \E sel \in Selectors :
       /\ Head(reading[c]) \in Fields(sel)
       /\ driven' = (driven \ Fields(sel)) \cup Shifted(sel)
  /\ reading' = [reading EXCEPT ![c] = Tail(@)]
  /\ UNCHANGED <<vars, claimVars, enabled, high, detect, event>>

(* ENABLE_IRQ_n and DISABLE_IRQ_n: a bit that is written as one enables or *)
(* disables its interrupt, number 0 like the others.  Each register has    *)
(* one half of the numbers.                                                *)
bcm2835_ic_reg_write(c) ==
  /\ Trap(c)
  /\ \E half \in {0..31, 32..63} : \E value \in SUBSET (half \cap Irqs) :
       LET own == value \cap assigned_gpu_irq(current[c]) IN
       enabled' = enabled \cup own \/ enabled' = enabled \ own
  /\ UNCHANGED <<claimVars, gpioVars>>

(* A signal at a pin, which may be an input of the machine. *)
Signal(p) ==
  /\ p \in detect
  /\ event' = event \cup {p}
  /\ UNCHANGED <<vars, claimVars, enabled, high, detect, driven, reading>>

(* What CPUs do besides, reads and refused accesses among it. *)
OtherStep(c) ==
  /\ ~halted /\ reading[c] = <<>>
  /\ CpuStep(c) \/ WriteTimerControl(c) \/ \E v \in created : Pick(c, v)
  /\ UNCHANGED <<claimVars, enabled, gpioVars>>

DeviceInit ==
  /\ Init
  /\ created       = {}
  /\ assigned      = [v \in Vcpus |-> {}]
  /\ gpio_used     = {}
  /\ irq_vec_table = [i \in Irqs |-> IF i \in Claimable THEN None ELSE 0]
  /\ enabled       = {}
  /\ halted        = FALSE
  /\ high = {} /\ detect = {} /\ event = {} /\ driven = {}
  /\ reading       = [c \in Cpus |-> <<>>]

DeviceNext ==
  \/ \E v \in Vcpus : vm_create(v)
  \/ cpu_hlt
  \/ \E c \in Cpus : \/ gpio_reg_write(c) \/ WriteSelector(c)
                     \/ ReadSelector(c) \/ ShiftSelector(c)
                     \/ bcm2835_ic_reg_write(c) \/ OtherStep(c)
  \/ \E p \in Pins : Signal(p)

DeviceSpec == DeviceInit /\ [][DeviceNext]_deviceVars
-----------------------------------------------------------------------------
(* Properties. *)

(* "exclusive manege each gpio pin": a pin is assigned to at most one of   *)
(* the VMs that run, and gpio_used knows of all of them.                   *)
PinsBelongToOne ==
  /\ \A v, w \in created : v # w => assigned[v] \cap assigned[w] = {}
  /\ gpio_used = UNION {assigned[v] : v \in created}

OwnersTrap(p) ==
  \E c \in Cpus : /\ pc[c] = "guest" /\ pc'[c] = "hyp"
                  /\ current[c] \in created /\ p \in assigned[current[c]]

(* The level of a pin changes, an event of it is acknowledged and it       *)
(* starts to be driven only in a trap of the guest it is assigned to.      *)
(* What others can do to it is make it an input; and while a selector is   *)
(* read, a pin may take the function of the pin next to it.                *)
OnlyTheOwnerDrives ==
  [][\A p \in Pins :
       /\ ((p \in high) # (p \in high') \/ p \in event \ event') => OwnersTrap(p)
       /\ p \in driven' \ driven =>
            OwnersTrap(p) \/ \E c \in Cpus : ShiftSelector(c)]_deviceVars

(* The claims of GPU interrupts are never left half made: the VM created   *)
(* first has all that can be claimed, although virt_device_intr_set may    *)
(* stop halfway.  So each interrupt that a guest enables has an owner, but *)
(* for number 0: guests enable that as well, and no VM ever gets it.       *)
ClaimsAreWhole ==
  /\ \A i, j \in Claimable : irq_vec_table[i] = irq_vec_table[j]
  /\ \A i \in Claimable : IF created = {} THEN irq_vec_table[i] = None
                                          ELSE irq_vec_table[i] \in created
  /\ \A i \in enabled \ {0} : irq_vec_table[i] \in created
=============================================================================
