---------------------------- MODULE GuestMachine ----------------------------
(***************************************************************************)
(* What the hypervisor promises each guest about its registers: they       *)
(* change when the guest executes an instruction, by what that instruction *)
(* does, and in no other way, with three exceptions.  The timer status     *)
(* turns to "fired" when the emulated timer expires.  PAR_EL1 may turn to  *)
(* the hypervisor's own walk of an address of that guest.  And a checked   *)
(* call from EL1 links to the word after the next.  No other guest, no     *)
(* move to another CPU and no interrupt can be seen in them.               *)
(***************************************************************************)
EXTENDS Naturals

CONSTANTS
  Vcpus,     \* the guests, one vcpu each
  maxWord,   \* the last address of each guest: the instruction after it is 0
  El1Callers \* the guests whose kernels make checked calls in EL1

Words(v) == 0..maxWord[v]

VARIABLES
  regs,   \* x, pc, fp, timer and par of each guest
  serror  \* the guests that are due a virtual SError

NextWord(v, p) == IF p = maxWord[v] THEN 0 ELSE p + 1

(* fp and par have one value for each guest: the latest that the guest     *)
(* gave them.  Walk(v) is what the hypervisor's address translations for v *)
(* leave in PAR_EL1.                                                       *)
Walk(v) == <<v, "walk">>

Registers(v) ==
  [x : Words(v), pc : Words(v), fp : {v}, timer : {"idle", "fired"}, par : {v, Walk(v)}]

Become(v, x, pc, timer, par) ==
  regs' = [regs EXCEPT ![v] = [@ EXCEPT !.x = x, !.pc = pc, !.timer = timer, !.par = par]]

Traps(v) == {regs[v].par, Walk(v)}

Init == \A v \in Vcpus : regs[v] \in Registers(v)

(* An ordinary instruction, or one that the hypervisor emulates: a load,   *)
(* a store, a hypervisor call, WFI.                                        *)
Execute(v) ==
  \E x \in Words(v), timer \in {regs[v].timer, "idle"}, par \in Traps(v) \cup {v} :
    Become(v, x, NextWord(v, regs[v].pc), timer, par)

(* The instructions that stand for ret and blr, with x as the register.    *)
Return(v) ==
  \E par \in Traps(v) : Become(v, regs[v].x, regs[v].x, regs[v].timer, par)

CallTo(v, link) ==
  \E par \in Traps(v) : Become(v, link, regs[v].x, regs[v].timer, par)

Call(v) == CallTo(v, NextWord(v, regs[v].pc))

(* What hyp_security_fast.S makes of an HVC in EL1: four is added to an    *)
(* address that is past the instruction already.                           *)
CallFromEl1(v) ==
  v \in El1Callers /\ CallTo(v, NextWord(v, NextWord(v, regs[v].pc)))

(* A load that the hypervisor refuses may have reached its register: the   *)
(* instruction is not stepped over, and the guest gets an SError.          *)
Refused(v) ==
  /\ v \in serror'
  /\ \E x \in Words(v), par \in Traps(v) : Become(v, x, regs[v].pc, regs[v].timer, par)

TimerFires(v) == Become(v, regs[v].x, regs[v].pc, "fired", regs[v].par)

(* The one register that the hypervisor works with and does not put back.  *)
ParOverwritten(v) ==
  Become(v, regs[v].x, regs[v].pc, regs[v].timer, Walk(v))

Step(v) ==
  \/ Execute(v) \/ Return(v) \/ Call(v) \/ CallFromEl1(v) \/ Refused(v)
  \/ TimerFires(v) \/ ParOverwritten(v)

(* A step that leaves the registers as they were is a stutter.             *)
Next == \E v \in Vcpus : regs'[v] # regs[v] /\ Step(v)

Spec == Init /\ [][Next]_regs
=============================================================================
