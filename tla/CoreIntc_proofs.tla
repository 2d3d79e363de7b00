--------------------------- MODULE CoreIntc_proofs ---------------------------
(* Proofs about the shared interrupt controller, for any number of CPUs and *)
(* vcpus.                                                                   *)
EXTENDS CoreIntc, TLAPS

(* IdleIsQuiet is not inductive: the idle loops of init.c are entered       *)
(* without a reset.  What holds in every step is that only a CPU that has   *)
(* run a guest since the last reset, and is awake, can have left an enabled *)
(* interrupt behind.                                                        *)
NobodyRan == \A c \in Cpus : pc[c] \notin {"guest", "hyp"}

Quiet ==
  NobodyRan => \A c \in Cpus : "guest" \notin control[c] /\ ~mbox[c]

IInv == TypeOK /\ HypTimerStaysEnabled /\ Quiet

(* A CPU that enters a guest or the hypervisor makes Quiet vacuous. *)
LEMMA AwakeIsQuiet ==
  ASSUME NEW c \in Cpus, NEW place \in {"guest", "hyp"}, TypeOK,
         Goto(c, place)
  PROVE  Quiet'
<1>1. pc'[c] = place
  BY DEF Goto, TypeOK
<1> QED
  BY <1>1 DEF Quiet, NobodyRan

(* timer_event_add sets core 0's bit and no other one. *)
LEMMA TimerStart ==
  ASSUME NEW c \in Cpus, IInv, timer_event_add(c)
  PROVE  /\ control' \in [Cpus -> SUBSET Bits]
         /\ running' \in [Cpus -> BOOLEAN]
         /\ HypTimerStaysEnabled'
         /\ \A d \in Cpus : "guest" \in control'[d] => "guest" \in control[d]
<1> USE IntcAssumption DEF IInv, TypeOK
<1>1. CASE running[c]
  BY <1>1 DEF timer_event_add, HypTimerStaysEnabled
<1>2. CASE ~running[c]
  <2>1. /\ control' = [control EXCEPT ![Primary] = {"hyp"}]
        /\ running' = [running EXCEPT ![c] = TRUE]
    BY <1>2 DEF timer_event_add, hyp_timer_start, Started
  <2>2. {"hyp"} \in SUBSET Bits
    BY DEF Bits
  <2>3. control' \in [Cpus -> SUBSET Bits] /\ control'[Primary] = {"hyp"}
    BY <2>1, <2>2
  <2>5. \A d \in Cpus : "guest" \in control'[d] => "guest" \in control[d]
    BY <2>1
  <2>4. running' \in [Cpus -> BOOLEAN]
    BY <2>1
  <2> QED
    BY <2>3, <2>4, <2>5 DEF HypTimerStaysEnabled
<1> QED
  BY <1>1, <1>2

(* bcm2836_ic_reg_save keeps the types of the contexts. *)
LEMMA ContextTypes ==
  ASSUME NEW c \in Cpus, NEW v \in Vcpus, TypeOK, vcpu_context_switch(c, v)
  PROVE  /\ saved' \in [Vcpus -> SUBSET Bits]
         /\ savedMbox' \in [Vcpus -> BOOLEAN]
<1>1. CASE last[c] = v
  BY <1>1 DEF TypeOK, vcpu_context_switch, contexts
<1>2. CASE last[c] # v
  <2>1. /\ saved'     = [saved EXCEPT ![v] = control[c] \cap {"hyp"}]
        /\ savedMbox' = [savedMbox EXCEPT ![v] = mbox[c]]
    BY <1>2 DEF vcpu_context_switch, bcm2836_ic_reg_save
  <2>2. control[c] \cap {"hyp"} \in SUBSET Bits /\ mbox[c] \in BOOLEAN
    BY DEF TypeOK
  <2> QED
    BY <2>1, <2>2 DEF TypeOK
<1> QED
  BY <1>1, <1>2

LEMMA InitIInv == Init => IInv
<1> SUFFICES ASSUME Init PROVE IInv
  OBVIOUS
<1> USE IntcAssumption DEF Init
<1>1. TypeOK
  BY DEF TypeOK, NoVcpu
<1>2. HypTimerStaysEnabled
  BY DEF HypTimerStaysEnabled
<1>3. Quiet
  BY DEF Quiet
<1> QED
  BY <1>1, <1>2, <1>3 DEF IInv

(* A guest's write adds bits to core 0's register and takes none away. *)
LEMMA WriteIInv ==
  ASSUME NEW c \in Cpus, IInv, WriteTimerControl(c)
  PROVE  IInv'
<1> USE IntcAssumption
<1>1. PICK value \in SUBSET Bits :
        /\ control' = ControlWith(value)
        /\ saved'   = [saved EXCEPT ![current[c]] = GuestBits(value)]
  BY DEF WriteTimerControl
<1>2. GuestBits(value) \in SUBSET Bits
  BY DEF GuestBits, Bits
<1>3. control' \in [Cpus -> SUBSET Bits]
  BY <1>1, <1>2 DEF ControlWith, IInv, TypeOK
<1>4. saved' \in [Vcpus -> SUBSET Bits]
  BY <1>1, <1>2 DEF IInv, TypeOK
<1>5. TypeOK'
  BY <1>3, <1>4 DEF WriteTimerControl, Enter, Goto, IInv, TypeOK
<1>6. HypTimerStaysEnabled'
  BY <1>1 DEF WriteTimerControl, ControlWith, IInv, TypeOK,
              HypTimerStaysEnabled
<1>7. Quiet'
  BY AwakeIsQuiet DEF WriteTimerControl, IInv
<1> QED
  BY <1>5, <1>6, <1>7 DEF IInv

(* Starting at boot or in emulate_vtimer. *)
LEMMA StartIInv ==
  ASSUME NEW c \in Cpus, IInv, Boot(c) \/ Sleep(c)
  PROVE  IInv'
<1>1. TypeOK'
  BY TimerStart DEF Boot, Sleep, Enter, Goto, contexts, IInv, TypeOK
<1>2. HypTimerStaysEnabled'
  BY TimerStart DEF Boot, Sleep, IInv, HypTimerStaysEnabled
<1>3. CASE Sleep(c)
  <2>1. Quiet'
    BY <1>3, AwakeIsQuiet DEF Sleep, IInv
  <2> QED
    BY <1>1, <1>2, <2>1 DEF IInv
<1>4. CASE Boot(c)
  <2>1. NobodyRan' => NobodyRan
    BY <1>4 DEF Boot, Goto, NobodyRan, IInv, TypeOK
  <2>2. \A d \in Cpus : "guest" \in control'[d] => "guest" \in control[d]
    BY <1>4, TimerStart DEF Boot
  <2>3. Quiet'
    BY <1>4, <2>1, <2>2 DEF Boot, Quiet, IInv
  <2> QED
    BY <1>1, <1>2, <2>3 DEF IInv
<1> QED
  BY <1>3, <1>4

(* A switch saves registers and writes none. *)
LEMMA SwitchIInv ==
  ASSUME NEW c \in Cpus, IInv,
         Return(c) \/ \E v \in Vcpus : Pick(c, v)
  PROVE  IInv'
<1>1. CASE Return(c)
  <2>1. current[c] \in Vcpus
    BY <1>1 DEF Return, IInv, TypeOK
  <2>2. TypeOK'
    BY <1>1, <2>1, ContextTypes DEF Return, Goto, registers, IInv, TypeOK
  <2>3. HypTimerStaysEnabled'
    BY <1>1 DEF Return, registers, IInv, HypTimerStaysEnabled
  <2> QED
    BY <1>1, <2>2, <2>3, AwakeIsQuiet DEF Return, IInv
<1>2. ASSUME NEW v \in Vcpus, Pick(c, v)
      PROVE  IInv'
  <2>1. TypeOK'
    BY <1>2, ContextTypes DEF Pick, Goto, registers, IInv, TypeOK
  <2>2. HypTimerStaysEnabled'
    BY <1>2 DEF Pick, registers, IInv, HypTimerStaysEnabled
  <2> QED
    BY <1>2, <2>1, <2>2, AwakeIsQuiet DEF Pick, IInv
<1> QED
  BY <1>1, <1>2

(* The reset keeps the hypervisor's bits of every core and nothing else. *)
LEMMA IdleIInv ==
  ASSUME NEW c \in Cpus, IInv, Idle(c)
  PROVE  IInv'
<1> USE IntcAssumption
<1>1. /\ control' = [d \in Cpus |-> control[d] \cap {"hyp"}]
      /\ mbox' = [d \in Cpus |-> FALSE]
  BY DEF Idle, bcm2836_ic_reg_reset, ResetControl
<1>2. TypeOK'
  BY <1>1 DEF Idle, Goto, contexts, IInv, TypeOK
<1>3. HypTimerStaysEnabled'
  BY <1>1 DEF Idle, IInv, HypTimerStaysEnabled
<1>4. Quiet'
  BY <1>1 DEF Quiet
<1> QED
  BY <1>2, <1>3, <1>4 DEF IInv

(* The CPU comes from the start-up code, so it has run no guest. *)
LEMMA IdleFromStartIInv ==
  ASSUME NEW c \in Cpus, IInv, IdleFromStart(c)
  PROVE  IInv'
<1>1. TypeOK'
  BY DEF IdleFromStart, Goto, registers, contexts, IInv, TypeOK
<1>2. HypTimerStaysEnabled'
  BY DEF IdleFromStart, registers, IInv, HypTimerStaysEnabled
<1>3. NobodyRan' => NobodyRan
  BY DEF IdleFromStart, Goto, NobodyRan, IInv, TypeOK
<1>4. Quiet'
  BY <1>3 DEF IdleFromStart, registers, Quiet, IInv
<1> QED
  BY <1>1, <1>2, <1>4 DEF IInv

LEMMA NextIInv == IInv /\ [Next]_vars => IInv'
<1> SUFFICES ASSUME IInv, [Next]_vars
             PROVE  IInv'
  OBVIOUS
<1>1. CASE UNCHANGED vars
  BY <1>1 DEF vars, registers, contexts, IInv, TypeOK, HypTimerStaysEnabled,
              Quiet, NobodyRan
<1>2. ASSUME NEW c \in Cpus, WriteMailboxControl(c)
      PROVE  IInv'
  <2>1. TypeOK'
    BY <1>2 DEF WriteMailboxControl, Enter, Goto, IInv, TypeOK
  <2>2. HypTimerStaysEnabled'
    BY <1>2 DEF WriteMailboxControl, IInv, HypTimerStaysEnabled
  <2> QED
    BY <1>2, <2>1, <2>2, AwakeIsQuiet DEF WriteMailboxControl, IInv
<1>3. ASSUME NEW c \in Cpus, Trap(c) \/ Wake(c) \/ bcm2836_ic_reg_read(c)
      PROVE  IInv'
  <2>1. TypeOK'
    BY <1>3 DEF Trap, Wake, bcm2836_ic_reg_read, Enter, Goto, registers, contexts, IInv, TypeOK
  <2>2. HypTimerStaysEnabled'
    BY <1>3 DEF Trap, Wake, bcm2836_ic_reg_read, registers, IInv, HypTimerStaysEnabled
  <2> QED
    BY <1>3, <2>1, <2>2, AwakeIsQuiet DEF Trap, Wake, bcm2836_ic_reg_read, IInv
<1> QED
  BY <1>1, <1>2, <1>3, WriteIInv, StartIInv, SwitchIInv, IdleIInv,
     IdleFromStartIInv DEF Next, CpuStep

(* The inductive invariant holds in every state of every behaviour. *)
THEOREM Invariance == Spec => []IInv
BY InitIInv, NextIInv, PTL DEF Spec

(* Every register and context keeps a value of its C type. *)
THEOREM TypeCorrect == Spec => []TypeOK
<1>1. IInv => TypeOK
  BY DEF IInv
<1> QED
  BY Invariance, <1>1, PTL

(* Guests share core 0's register with the hypervisor's timer, and never    *)
(* take its interrupt away.                                                 *)
THEOREM HypTimerKept == Spec => []HypTimerStaysEnabled
<1>1. IInv => HypTimerStaysEnabled
  BY DEF IInv
<1> QED
  BY Invariance, <1>1, PTL

(* No interrupt of a guest's is enabled once all CPUs are idle, so none     *)
(* hits the idle loop through these registers.                              *)
THEOREM IdleStaysQuiet == Spec => []IdleIsQuiet
<1>1. IInv => IdleIsQuiet
  BY DEF IInv, Quiet, NobodyRan, IdleIsQuiet
<1> QED
  BY Invariance, <1>1, PTL
=============================================================================
