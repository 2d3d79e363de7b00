---------------------------- MODULE GuestContext ----------------------------
(***************************************************************************)
(* The registers of the guests, on top of VcpuSched: where an exception    *)
(* saves them (vector.S), what its handler changes in them (interrupt.c,   *)
(* hyp_call.c, hyp_security_fast.S), when they are loaded again (vcpu.c,   *)
(* asm_func.S), and the virtual interrupts that go with them.              *)
(*                                                                         *)
(* A guest has five groups of registers, which the code treats in five     *)
(* ways: x, the general registers, saved and restored by every exception;  *)
(* pc (ELR_EL2), fp (V0 to V31) and the system registers, of which the     *)
(* timer status stands for all but one, restored only when the CPU changes *)
(* from one vcpu to another; and par, PAR_EL1, which is saved and restored *)
(* with them, but which the hypervisor overwrites with walks of its own.   *)
(* FPCR and FPSR belong to no group: nothing saves them.                   *)
(*                                                                         *)
(* An entry by FIQ is left out: FIQs stay disabled as long as no guest     *)
(* enables one for its core timer.                                         *)
(***************************************************************************)
EXTENDS VcpuSched

CONSTANTS
  maxWord, \* the last address of each guest, also a bound of register contents
  Kinds,   \* the virtual interrupts told apart: "vserror", "vfiq", "virq"
  Old,     \* a copy of a register that its guest has changed elsewhere since
  Stack,   \* the address of a CPU's own hypervisor stack
  El1Callers \* the guests whose kernels make checked calls in EL1

Words(v) == 0..maxWord[v]

ASSUME ContextAssumption ==
  /\ maxWord \in [Vcpus -> Nat]
  /\ "vserror" \in Kinds /\ Kinds \subseteq {"vserror", "vfiq", "virq"}
  /\ Old \notin Nat \cup Vcpus /\ Stack \notin Vcpus

VARIABLES
  reg,    \* the registers of each CPU
  saved,  \* vcpu->reg and vcpu->sysreg
  sp,     \* sp_el2: the frame (vcpu->reg.x) that the next exception fills
  pend,   \* vcpu->vic: the pending flags that are set
  line    \* HCR_EL2: the virtual interrupt a CPU raises, and for whom

contextVars == <<reg, saved, sp, pend, line>>
allVars     == <<vars, contextVars>>

NextWord(v, p) == IF p = Old THEN Old ELSE IF p = maxWord[v] THEN 0 ELSE p + 1

Outdated == [x |-> Old, pc |-> Old, fp |-> Old, timer |-> Old, par |-> Old]

(* The result that the hypervisor's address translations for a guest leave *)
(* in PAR_EL1 (el1va2ipa, el1va2pa, the at instructions of the fast path). *)
Walk(v) == <<v, "walk">>

-----------------------------------------------------------------------------
(* Virtual interrupts (vcpu.c). *)

vcpu_do(v, kinds) == pend' = [pend EXCEPT ![v] = @ \cup (kinds \cap Kinds)]

(* The most urgent pending kind, as set_vintr tests them. *)
Chosen(v) == IF "vserror" \in pend[v] THEN {"vserror"}
             ELSE IF "vfiq" \in pend[v] THEN {"vfiq"}
             ELSE pend[v]

RaiseWithoutReset(c, v) ==
  /\ line' = [line EXCEPT ![c] = @ \cup {<<v, k>> : k \in Chosen(v)}]
  /\ pend' = [pend EXCEPT ![v] = @ \ Chosen(v)]

(* The lines are reset first, so a line never outlives the guest's stay.   *)
set_vintr(c, v) ==
  /\ line' = [line EXCEPT ![c] = {<<v, k>> : k \in Chosen(v)}]
  /\ pend' = [pend EXCEPT ![v] = @ \ Chosen(v)]

-----------------------------------------------------------------------------
(* Entry and exit (vector.S, asm_func.S, vcpu.c). *)

(* The general registers go to the frame that sp_el2 points to. *)
vm_entry_general_reg_save(c) == [saved EXCEPT ![sp[c]].x = reg[c].x]

vcpu_freg_save(s, c) == [s EXCEPT ![current[c]].fp = reg[c].fp]

vcpu_save_all_sysregs(s, c, elr, par) ==
  [s EXCEPT ![current[c]].pc = elr, ![current[c]].timer = reg[c].timer,
            ![current[c]].par = par]

(* hyp_security_check on the slow path.  The calls it looks for have been  *)
(* handled or refused by hyp_security_check_fast, so it always ends in its *)
(* refusal, and takes back what it did to the pc.                          *)
hyp_security_check(s, c, elr) == [s EXCEPT ![current[c]].pc = elr]

Entered(c, elr, par) ==
  LET s == vcpu_freg_save(vm_entry_general_reg_save(c), c)
  IN  hyp_security_check(vcpu_save_all_sysregs(s, c, elr, par), c, elr)

vm_entry_stackpointer_set(c) == sp' = [sp EXCEPT ![c] = Stack]

KeepFloats(r, v) == r

vcpu_freg_restore(r, v) == [r EXCEPT !.fp = saved[v].fp]

vcpu_restore_all_sysregs(r, v) ==
  [r EXCEPT !.pc = saved[v].pc, !.timer = saved[v].timer, !.par = saved[v].par]

DispatchInOldFrame(c, r, v) ==
  /\ reg' = [reg EXCEPT ![c] = [r EXCEPT !.x = saved[v].x]]
  /\ sp'  = [sp EXCEPT ![c] = IF last[c] = None THEN v ELSE last[c]]

(* dispatch: the general registers, and sp_el2 for the next exception. *)
dispatch(c, r, v) ==
  /\ reg' = [reg EXCEPT ![c] = [r EXCEPT !.x = saved[v].x]]
  /\ sp'  = [sp EXCEPT ![c] = v]

SwitchTo(c, v) ==
  /\ dispatch(c, IF last[physCpu'[v]] = v THEN reg[c]
                 ELSE vcpu_restore_all_sysregs(vcpu_freg_restore(reg[c], v), v), v)
  /\ set_vintr(c, v)
  /\ UNCHANGED saved

-----------------------------------------------------------------------------
(* The guest, and the handlers of its exceptions. *)

After(c) == NextWord(current[c], reg[c].pc)

(* An instruction that does not trap; it stands for one that also stops    *)
(* the timer and translates an address.  What is saved of the guest, and   *)
(* what other CPUs still hold of it, is out of date from now on.           *)
Execute(c) ==
  LET v == current[c] IN
  /\ pc[c] = "guest"
  /\ \E n \in Words(v) :
       reg' = [d \in Cpus |->
                 IF d = c THEN [reg[c] EXCEPT !.x = n, !.pc = After(c), !.timer = "idle",
                                              !.par = v]
                 ELSE IF reg[d].fp = v THEN Outdated ELSE reg[d]]
  /\ saved' = [saved EXCEPT ![v] = Outdated]
  /\ UNCHANGED <<vars, sp, pend, line>>

(* A slow entry with elr as the reported address and par as PAR_EL1, after *)
(* which the saved pc and ELR_EL2 are next, the saved x is load and kinds  *)
(* are pending.  vm_interrupt_handler translates the guest's pc, but after *)
(* the registers have been saved.                                          *)
Handle(c, elr, par, next, load, kinds) ==
  LET v == current[c] IN
  /\ saved' = [Entered(c, elr, par) EXCEPT ![v].pc = next, ![v].x = load]
  /\ reg'   = [reg EXCEPT ![c].pc = next, ![c].x = Old, ![c].par = Walk(v)]
  /\ vcpu_do(v, kinds)
  /\ vm_entry_stackpointer_set(c)
  /\ UNCHANGED line

Fault(c, par, kinds) == Handle(c, reg[c].pc, par, reg[c].pc, reg[c].x, kinds)

(* For an instruction unknown to the processor the fast path translates    *)
(* the pc before the registers are saved.                                  *)
Skip(c, kinds) ==
  Handle(c, reg[c].pc, Walk(current[c]), After(c), reg[c].x, kinds)

AlreadyPast(c, kinds) ==
  Handle(c, After(c), reg[c].par, After(c), reg[c].x, kinds)

(* vm_irq_interrupt_entry translates nothing. *)
HandleIrq(c, kinds) ==
  /\ saved' = Entered(c, reg[c].pc, reg[c].par)
  /\ reg'   = [reg EXCEPT ![c].x = Old]
  /\ vcpu_do(current[c], kinds)
  /\ vm_entry_stackpointer_set(c)
  /\ UNCHANGED line

(* hyp_call.  From EL0 the instruction is unknown to the processor and the *)
(* handler steps over it; after an HVC in EL1 the pc is past it already.   *)
HypCall(c) ==
  /\ Trap(c) /\ UNCHANGED clock
  /\ \E kinds \in {{}, {"vserror"}} : Skip(c, kinds) \/ AlreadyPast(c, kinds)

(* A data abort that virt_mmio_reg_access emulates, a write to the core    *)
(* timer among them.                                                       *)
MmioAccess(c) ==
  /\ Trap(c)
  /\ \E load \in Words(current[c]) \cup {reg[c].x} :
       Handle(c, reg[c].pc, reg[c].par, After(c), load, {})

(* Reads that are refused after the destination register was written:      *)
(* bcm2835_ic_reg_read falls through to its refusal, and bcm2836_ic_reg_   *)
(* read ends without a return value, so its caller may find a negative one.*)
LateRefusal(c) ==
  /\ Trap(c) /\ UNCHANGED clock
  /\ \E load \in Words(current[c]) :
       Handle(c, reg[c].pc, reg[c].par, reg[c].pc, load, {"vserror"})

(* Exceptions that leave the guest where it is: a refused access, a cause  *)
(* that is answered with a virtual SError or not at all, a security error  *)
(* in EL0, and the interrupts of devices.                                  *)
OtherTrap(c) ==
  /\ Trap(c) /\ UNCHANGED clock
  /\ \/ \E kinds \in {{}, {"vserror"}}, par \in {reg[c].par, Walk(current[c])} :
          Fault(c, par, kinds)
     \/ \E kinds \in {{}, {"virq"}, {"vfiq"}} : HandleIrq(c, kinds)

WfiInGuest(c) ==
  LET v == current[c] IN
  /\ Wfi(c)
  /\ saved' = [Entered(c, reg[c].pc, reg[c].par) EXCEPT ![v].pc = After(c)]
  /\ reg'   = [reg EXCEPT ![c].x = Old, ![c].par = Walk(v)]
  /\ vm_entry_stackpointer_set(c)
  /\ UNCHANGED <<pend, line>>

(* An SError for a guest that is switched off is left out: it runs no more. *)
ShutdownByGuest(c) ==
  /\ Shutdown(c)
  /\ Skip(c, {}) \/ AlreadyPast(c, {}) \/ Fault(c, Walk(current[c]), {})

PanicInGuest(c) ==
  /\ GuestPanic(c)
  /\ saved' = Entered(c, reg[c].pc, reg[c].par)
  /\ reg'   = [reg EXCEPT ![c] = Outdated]
  /\ vm_entry_stackpointer_set(c)
  /\ UNCHANGED <<pend, line>>

(* hyp_security_check_fast works on the frame alone.  It leaves last_vcpu  *)
(* and the virtual interrupts as they are.                                 *)
FastExit(c, x, next) ==
  LET v == sp[c] IN
  /\ saved' = [vm_entry_general_reg_save(c) EXCEPT ![v].pc = next, ![v].x = x]
  /\ reg'   = [reg EXCEPT ![c].pc = next, ![c].x = x, ![c].par = Walk(v)]
  /\ UNCHANGED <<sp, pend, line>>

sec_ret(c) == SecurityTrap(c) /\ FastExit(c, reg[c].x, reg[c].x)

(* x is the register that holds the target and the link register at once.  *)
(* The link is the reported address plus four.  An HVC from EL0 is unknown *)
(* to the processor, which reports its address; after one in EL1 the       *)
(* address is past it already.                                             *)
sec_blr(c) ==
  /\ SecurityTrap(c)
  /\ \E elr \in {reg[c].pc, After(c)} :
       /\ elr = reg[c].pc \/ current[c] \in El1Callers
       /\ FastExit(c, NextWord(current[c], elr), reg[c].x)

-----------------------------------------------------------------------------
(* Interrupts, scheduling and start-up. *)

TickInGuest(c) == Tick(c) /\ pc[c] = "guest" /\ HandleIrq(c, {})

(* What the registers hold of a guest stays there in the idle loop and     *)
(* after a panic.  To count it as out of date only makes the promise       *)
(* harder to keep.  HCR_EL2 has no effect there, so its lines are dropped. *)
LeaveGuest(c) ==
  /\ GoIdle(c) \/ LogPanic(c) \/ PanicInSwitch(c)
  /\ reg'  = [reg EXCEPT ![c] = Outdated]
  /\ line' = [line EXCEPT ![c] = {}]
  /\ UNCHANGED <<saved, sp, pend>>

(* hyp_ventry: an exception in the idle loop saves nothing. *)
hyp_ventry(c) ==
  /\ (Tick(c) /\ pc[c] = "idle") \/ IdleDeviceIrq(c)
  /\ vm_entry_stackpointer_set(c)
  /\ UNCHANGED <<reg, saved, pend, line>>

TimerWakesUp(c, v) ==
  /\ TimerEvent(c, v)
  /\ saved' = [saved EXCEPT ![v].timer = "fired"]
  /\ vcpu_do(v, {"virq"})
  /\ UNCHANGED <<reg, sp, line>>

Schedule(c) ==
  /\ ScheduleNext(c) \/ Resume(c)
  /\ SwitchTo(c, current'[c])

NewContext(v) == [x |-> 0, pc |-> 0, fp |-> v, timer |-> "idle", par |-> v]

vcpu_create(v) ==
  /\ CreateVm(v)
  /\ saved' = [saved EXCEPT ![v] = NewContext(v)]
  /\ UNCHANGED <<reg, sp, pend, line>>

ContextInit ==
  /\ Init
  /\ reg   = [c \in Cpus |-> Outdated]
  /\ saved = [v \in Vcpus |-> NewContext(v)]
  /\ sp    = [c \in Cpus |-> Stack]
  /\ pend  = [v \in Vcpus |-> {}]
  /\ line  = [c \in Cpus |-> {}]

InGuest(c) ==
  \/ Execute(c) \/ HypCall(c) \/ MmioAccess(c) \/ LateRefusal(c) \/ OtherTrap(c)
  \/ WfiInGuest(c) \/ ShutdownByGuest(c) \/ PanicInGuest(c) \/ TickInGuest(c)
  \/ sec_ret(c) \/ sec_blr(c)

NoRegisters ==
  \/ StartPrimary
  \/ \E c \in Cpus : \/ StartSecondary(c) \/ Add(c) \/ TimerDone(c)
                     \/ StartScan(c) \/ NextLevel(c)

ContextNext ==
  \/ NoRegisters /\ UNCHANGED contextVars
  \/ \E v \in Vcpus : vcpu_create(v)
  \/ \E c \in Cpus : \/ InGuest(c)
                     \/ hyp_ventry(c) \/ LeaveGuest(c)
                     \/ \E v \in Vcpus : TimerWakesUp(c, v)
                     \/ Schedule(c)

ContextSpec == ContextInit /\ [][ContextNext]_allVars
-----------------------------------------------------------------------------
(* Properties. *)

(* While a guest runs, sp_el2 points to the frame of that very guest, so   *)
(* the next exception saves its registers where they belong; while the     *)
(* hypervisor runs it is on its own stack, never in a guest's frame.       *)
FrameMatchesGuest ==
  \A c \in Cpus : sp[c] = IF pc[c] = "guest" THEN current[c] ELSE Stack

(* A virtual interrupt raised on a CPU was meant for the guest that runs   *)
(* there, nothing stays pending for a guest that runs, and no guest sleeps *)
(* with an interrupt pending: vcpu_sleep does not look at the flags.       *)
InterruptsFollowGuests ==
  /\ \A c \in Cpus : pc[c] = "guest" =>
       /\ \A raised \in line[c] : raised[1] = current[c]
       /\ pend[current[c]] = {}
  /\ \A v \in Vcpus : state[v] = "SLEEP" => pend[v] = {}

(* The registers a guest would find if it went on now. *)
View(v) ==
  IF \E c \in Cpus : pc[c] = "guest" /\ current[c] = v
    THEN reg[CHOOSE c \in Cpus : pc[c] = "guest" /\ current[c] = v]
    ELSE saved[v]

Machine == INSTANCE GuestMachine WITH
  regs   <- [v \in Vcpus |-> View(v)],
  serror <- {v \in Vcpus : "vserror" \in pend[v]}

(* Through traps, lazy switches, moves between CPUs and the fast path, a   *)
(* guest's registers change by its own instructions only, each of them     *)
(* done exactly once, and in the ways that GuestMachine names besides.     *)
ImplementsMachine == Machine!Spec
=============================================================================
