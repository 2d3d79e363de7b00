------------------------- MODULE GuestContext_proofs -------------------------
(***************************************************************************)
(* Proofs about the guests' contexts: GuestContext only adds to VcpuSched, *)
(* whose invariant therefore holds in it, and with that invariant frames   *)
(* and virtual interrupts always belong to the guest that runs.            *)
(***************************************************************************)
EXTENDS GuestContext, VcpuSched_proofs

USE CpuAssumption, VcpuAssumption, ContextAssumption

-----------------------------------------------------------------------------
(* Every step is one of VcpuSched's, or a guest's instruction. *)

LEMMA SchedStep == [ContextNext]_allVars => [Next]_vars
<1> SUFFICES ASSUME ContextNext PROVE [Next]_vars
  BY DEF allVars
<1>1. CASE NoRegisters
  BY <1>1 DEF NoRegisters, Next, Timer, Add, do_schedule
<1>2. ASSUME NEW v \in Vcpus, vcpu_create(v) PROVE Next
  BY <1>2 DEF vcpu_create, Next
<1>3. ASSUME NEW c \in Cpus, InGuest(c) PROVE [Next]_vars
  BY <1>3 DEF InGuest, Execute, HypCall, MmioAccess, LateRefusal, OtherTrap, WfiInGuest,
     ShutdownByGuest, PanicInGuest, sec_ret, sec_blr, TickInGuest, Next, Guest,
     Interrupt
<1>4. ASSUME NEW c \in Cpus, hyp_ventry(c) PROVE Next
  BY <1>4 DEF hyp_ventry, Next, Interrupt
<1>5. ASSUME NEW c \in Cpus, NEW v \in Vcpus, TimerWakesUp(c, v) PROVE Next
  BY <1>5 DEF TimerWakesUp, Next, Timer
<1>6. ASSUME NEW c \in Cpus, Schedule(c) PROVE Next
  BY <1>6 DEF Schedule, Next, do_schedule
<1>7. ASSUME NEW c \in Cpus, LeaveGuest(c) PROVE Next
  BY <1>7 DEF LeaveGuest, Next, do_schedule
<1>. QED
  BY <1>1, <1>2, <1>3, <1>4, <1>5, <1>6, <1>7 DEF ContextNext

(* The scheduler under the contexts is the scheduler of VcpuSched. *)
THEOREM ImplementsSched == ContextSpec => Spec
<1>1. ContextInit => Init
  BY DEF ContextInit
<1>. QED
  BY <1>1, SchedStep, PTL DEF ContextSpec, Spec

(* So the invariant of the scheduler holds while frames and pending        *)
(* interrupts are watched too.                                             *)
THEOREM SchedInvariance == ContextSpec => []IInv
BY ImplementsSched, Invariance, PTL

-----------------------------------------------------------------------------
(* What a step leaves alone on the other CPUs. *)

LEMMA GuestRuns ==
  ASSUME IInv, NEW c \in Cpus, pc[c] = "guest"
  PROVE  /\ current[c] \in Vcpus /\ state[current[c]] = "RUN"
         /\ \A d \in Cpus \ {c} : current[d] # current[c]
BY DEF IInv, TypeOK, RunnerIsUnique

LEMMA LeavingDisturbsNobody ==
  ASSUME IInv, NEW c \in Cpus, pc[c] = "guest", LeaveCpu(current[c])
  PROVE  \A d \in Cpus \ {c} : current'[d] = current[d]
BY GuestRuns DEF LeaveCpu

(* The handlers of a guest's exceptions: where they go, and what becomes   *)
(* of current_vcpu and of the states of the other vcpus.                   *)
LEMMA GuestStep ==
  ASSUME IInv, NEW c \in Cpus,
         \/ Trap(c) \/ GuestPanic(c) \/ Shutdown(c) \/ Wfi(c)
         \/ Tick(c) /\ pc[c] = "guest"
  PROVE  /\ pc[c] = "guest"
         /\ \E place \in Places \ {"guest"} : Move(c, place)
         /\ \A d \in Cpus \ {c} : current'[d] = current[d]
         /\ \A v \in Vcpus \ {current[c]} : state'[v] = state[v]
<1> USE DEF Places
<1>0. pc[c] = "guest"
  BY DEF Trap, GuestPanic, Shutdown, Wfi
<1>. current[c] \in Vcpus /\ state[current[c]] = "RUN" /\ state \in [Vcpus -> States]
  BY <1>0, GuestRuns DEF IInv, TypeOK
<1>1. CASE Trap(c) \/ GuestPanic(c) \/ Tick(c)
  BY <1>0, <1>1 DEF Trap, GuestPanic, Tick, vcpuVars
<1>2. CASE Shutdown(c)
  <2>1. /\ LeaveCpu(current[c]) /\ Move(c, "sched")
        /\ state' = [state EXCEPT ![current[c]] = "INIT"]
    BY <1>2 DEF Shutdown, vcpu_off
  <2>. QED
    BY <1>0, <2>1, LeavingDisturbsNobody
<1>3. CASE Wfi(c)
  <2>1. /\ LeaveCpu(current[c]) /\ Move(c, "sched")
        /\ state' = [state EXCEPT ![current[c]] = "SLEEP"]
    BY <1>3 DEF Wfi, vcpu_sleep
  <2>. QED
    BY <1>0, <2>1, LeavingDisturbsNobody
<1>. QED
  BY <1>1, <1>2, <1>3

(* Only WFI puts the vcpu to sleep. *)
LEMMA StaysAwake ==
  ASSUME IInv, NEW c \in Cpus,
         \/ Trap(c) \/ GuestPanic(c) \/ Shutdown(c)
         \/ Tick(c) /\ pc[c] = "guest"
  PROVE  state'[current[c]] # "SLEEP"
<1>. /\ current[c] \in Vcpus /\ state[current[c]] = "RUN"
     /\ state \in [Vcpus -> States]
  BY GuestRuns DEF Trap, GuestPanic, Shutdown, IInv, TypeOK
<1>1. CASE Trap(c) \/ GuestPanic(c) \/ Tick(c)
  BY <1>1 DEF Trap, GuestPanic, Tick, vcpuVars
<1>2. CASE Shutdown(c)
  BY <1>2 DEF Shutdown, vcpu_off
<1>. QED
  BY <1>1, <1>2

(* A wake-up event makes a sleeping vcpu ready, and nothing else moves. *)
LEMMA WakeUpStep ==
  ASSUME IInv, NEW c \in Cpus, NEW v \in Vcpus, TimerEvent(c, v)
  PROVE  /\ state[v] = "SLEEP" /\ state' = [state EXCEPT ![v] = "READY"]
         /\ pc' = pc /\ current' = current
<1>1. state[v] = "SLEEP"
  BY DEF IInv, TypeOK, TimerMatchesSleep, TimerEvent
<1>. QED
  BY <1>1 DEF TimerEvent, vcpu_ready

LEMMA CreateStep ==
  ASSUME NEW v \in Vcpus, CreateVm(v)
  PROVE  state' = [state EXCEPT ![v] = "READY"] /\ pc' = pc /\ current' = current
BY DEF CreateVm, vcpu_ready

(* do_schedule enters the vcpu it leaves in current_vcpu, which then runs. *)
LEMMA ScheduleStep ==
  ASSUME IInv, IInv', NEW c \in Cpus, ScheduleNext(c) \/ Resume(c)
  PROVE  /\ pc[c] \in {"sched", "scan"} /\ Move(c, "guest")
         /\ current'[c] \in Vcpus /\ state'[current'[c]] = "RUN"
         /\ \A d \in Cpus \ {c} : current'[d] = current[d]
         /\ \A v \in Vcpus \ {current'[c]} : state'[v] = state[v]
<1>. pc[c] \in {"sched", "scan"} /\ Move(c, "guest")
  BY DEF ScheduleNext, Take, Resume, NoNewVcpu, NothingFound, NotAsked
<1>1. current'[c] \in Vcpus /\ state'[current'[c]] = "RUN"
  <2>1. pc'[c] = "guest"
    BY DEF Move, IInv, TypeOK
  <2>. QED
    BY <2>1 DEF IInv, TypeOK, RunnerIsUnique
<1>2. CASE ScheduleNext(c)
  <2>1. PICK v \in Vcpus : /\ current' = [current EXCEPT ![c] = v]
                           /\ state' = [state EXCEPT ![v] = "RUN"]
    BY <1>2, TakeFacts DEF ScheduleNext
  <2>. QED
    BY <1>1, <2>1 DEF IInv, TypeOK
<1>3. CASE Resume(c)
  BY <1>1, <1>3, NoTransition
<1>. QED
  BY <1>1, <1>2, <1>3

(* Nobody goes to a guest when a CPU goes idle or stops in a panic. *)
LEMMA LeaveStep ==
  ASSUME IInv, NEW c \in Cpus, GoIdle(c) \/ LogPanic(c) \/ PanicInSwitch(c)
  PROVE  /\ pc[c] \in {"timer", "sched", "scan"}
         /\ \E place \in {"idle", "panic"} : Move(c, place)
         /\ \A d \in Cpus \ {c} : current'[d] = current[d]
         /\ \A v \in Vcpus : state'[v] = "SLEEP" => state[v] = "SLEEP"
         /\ pc'[c] = "panic" \/ current'[c] = None
<1>. pc \in [Cpus -> Places] /\ state \in [Vcpus -> States]
  BY DEF IInv, TypeOK
<1>1. /\ pc[c] \in {"timer", "sched", "scan"}
      /\ \E place \in {"idle", "panic"} : Move(c, place)
  BY DEF GoIdle, LogPanic, PanicInSwitch, Take, NoNewVcpu, NothingFound, NotAsked
<1>2. CASE Take(c)
  <2>1. PICK v \in Vcpus : /\ current' = [current EXCEPT ![c] = v]
                           /\ state' = [state EXCEPT ![v] = "RUN"]
    BY <1>2, TakeFacts
  <2>2. PanicInSwitch(c)
    <3>1. ready[level] # <<>> /\ pc[c] = "scan"
      BY <1>2 DEF Take
    <3>. QED
      BY <3>1 DEF GoIdle, LogPanic, NoNewVcpu, NothingFound, NotAsked
  <2>3. pc'[c] = "panic"
    BY <2>2 DEF PanicInSwitch, Move
  <2>. QED
    BY <1>1, <2>1, <2>3 DEF IInv, TypeOK
<1>3. CASE ~Take(c)
  <2>1. UNCHANGED <<state, current>>
    BY <1>3, NoTransition
  <2>2. pc'[c] = "panic" \/ current[c] = None
    BY DEF GoIdle, LogPanic, PanicInSwitch, Move
  <2>. QED
    BY <1>1, <2>1, <2>2
<1>. QED
  BY <1>2, <1>3

(* The steps that touch no register keep every guest where it is. *)
LEMMA NoRegistersStep ==
  ASSUME IInv, NoRegisters
  PROVE  /\ current' = current /\ state' = state
         /\ \A c \in Cpus : pc'[c] = "guest" <=> pc[c] = "guest"
         /\ pc'[Primary] = "boot" => pc[Primary] = "boot"
         /\ \A c \in Cpus : pc'[c] = pc[c]
              \/ (pc[c] # "panic" /\ pc'[c] # "panic")
<1>. pc \in [Cpus -> Places]
  BY DEF IInv, TypeOK
<1>1. PICK c \in Cpus : \/ StartPrimary \/ StartSecondary(c) \/ RaiseFlag(c) \/ Link(c)
                        \/ TimerDone(c) \/ StartScan(c) \/ NextLevel(c)
  BY DEF NoRegisters, Add
<1>2. UNCHANGED <<state, current>>
  BY <1>1, NoTransition
<1>3. \/ pc' = pc
      \/ \E d \in Cpus : /\ pc[d] \notin {"guest", "panic"}
                         /\ \E place \in {"sched", "scan"} : pc' = [pc EXCEPT ![d] = place]
  BY <1>1 DEF StartPrimary, StartSecondary, RaiseFlag, Link, TimerDone, StartScan, NextLevel,
     Move, cpuVars
<1>. QED
  BY <1>2, <1>3

-----------------------------------------------------------------------------
(* Frames. *)

FrameInv == sp \in [Cpus -> Vcpus \cup {Stack}] /\ FrameMatchesGuest

(* An entry takes the CPU to its own stack and out of the guest. *)
LEMMA EntryKeepsFrames ==
  ASSUME IInv, FrameInv, NEW c \in Cpus, NEW place \in Places \ {"guest"},
         Move(c, place), vm_entry_stackpointer_set(c),
         \A d \in Cpus \ {c} : current'[d] = current[d]
  PROVE  FrameInv'
<1>1. sp' \in [Cpus -> Vcpus \cup {Stack}]
  BY DEF FrameInv, vm_entry_stackpointer_set
<1>2. ASSUME NEW d \in Cpus
      PROVE  sp'[d] = IF pc'[d] = "guest" THEN current'[d] ELSE Stack
  BY DEF FrameInv, FrameMatchesGuest, vm_entry_stackpointer_set, Move, IInv, TypeOK
<1>. QED
  BY <1>1, <1>2 DEF FrameInv, FrameMatchesGuest

LEMMA FrameStep ==
  ASSUME IInv, IInv', FrameInv, [ContextNext]_allVars
  PROVE  FrameInv'
<1> USE DEF FrameInv, FrameMatchesGuest
<1>. pc \in [Cpus -> Places]
  BY DEF IInv, TypeOK
<1>1. CASE UNCHANGED <<sp, pc, current>>
  BY <1>1
<1>2. ASSUME NEW c \in Cpus, InGuest(c) PROVE FrameInv'
  <2>1. CASE Execute(c) \/ sec_ret(c) \/ sec_blr(c)
    BY <1>1, <2>1 DEF Execute, sec_ret, sec_blr, FastExit, SecurityTrap, vars, cpuVars
  <2>2. CASE HypCall(c) \/ MmioAccess(c) \/ LateRefusal(c) \/ OtherTrap(c) \/ WfiInGuest(c)
             \/ ShutdownByGuest(c) \/ PanicInGuest(c) \/ TickInGuest(c)
    <3>1. \/ Trap(c) \/ GuestPanic(c) \/ Shutdown(c) \/ Wfi(c)
          \/ Tick(c) /\ pc[c] = "guest"
      BY <2>2 DEF HypCall, MmioAccess, LateRefusal, OtherTrap, WfiInGuest, ShutdownByGuest,
         PanicInGuest, TickInGuest
    <3>2. vm_entry_stackpointer_set(c)
      BY <2>2 DEF HypCall, MmioAccess, LateRefusal, OtherTrap, WfiInGuest, ShutdownByGuest,
         PanicInGuest, TickInGuest, Fault, Skip, AlreadyPast, Handle, HandleIrq
    <3>. QED
      BY <3>1, <3>2, GuestStep, EntryKeepsFrames
  <2>. QED
    BY <1>2, <2>1, <2>2 DEF InGuest
<1>3. ASSUME NEW c \in Cpus, hyp_ventry(c) PROVE FrameInv'
  <2>1. /\ vm_entry_stackpointer_set(c) /\ current' = current
        /\ \E place \in Places \ {"guest"} : Move(c, place)
    BY <1>3 DEF hyp_ventry, Tick, IdleDeviceIrq, HypFault, Places
  <2>. QED
    BY <2>1, EntryKeepsFrames
<1>4. ASSUME NEW c \in Cpus, Schedule(c) PROVE FrameInv'
  <2>1. ScheduleNext(c) \/ Resume(c)
    BY <1>4 DEF Schedule
  <2>2. sp' = [sp EXCEPT ![c] = current'[c]]
    BY <1>4 DEF Schedule, SwitchTo, dispatch
  <2>. QED
    BY <2>1, <2>2, ScheduleStep DEF Move
<1>5. CASE NoRegisters /\ UNCHANGED contextVars
  BY <1>5, NoRegistersStep DEF contextVars
<1>6. ASSUME NEW v \in Vcpus, vcpu_create(v) PROVE FrameInv'
  BY <1>1, <1>6, CreateStep DEF vcpu_create
<1>7. ASSUME NEW c \in Cpus, NEW v \in Vcpus, TimerWakesUp(c, v) PROVE FrameInv'
  BY <1>1, <1>7, WakeUpStep DEF TimerWakesUp
<1>8. CASE UNCHANGED allVars
  BY <1>1, <1>8 DEF allVars, vars, cpuVars, contextVars
<1>9. ASSUME NEW c \in Cpus, LeaveGuest(c) PROVE FrameInv'
  <2>1. sp' = sp
    BY <1>9 DEF LeaveGuest
  <2>2. /\ pc[c] # "guest" /\ pc'[c] # "guest"
        /\ \A d \in Cpus \ {c} : current'[d] = current[d] /\ pc'[d] = pc[d]
    BY <1>9, LeaveStep DEF LeaveGuest, Move
  <2>. QED
    BY <2>1, <2>2
<1>. QED
  BY <1>2, <1>3, <1>4, <1>5, <1>6, <1>7, <1>8, <1>9 DEF ContextNext

(* While a guest runs the next exception saves its registers in its own    *)
(* frame, and the hypervisor never runs on a guest's frame: for any        *)
(* number of CPUs and vcpus, any priorities.                               *)
THEOREM FramesRight == ContextSpec => []FrameMatchesGuest
<1>1. ContextInit => FrameInv
  BY DEF ContextInit, Init, FrameInv, FrameMatchesGuest
<1>2. IInv /\ IInv' /\ FrameInv /\ [ContextNext]_allVars => FrameInv'
  BY FrameStep
<1>3. FrameInv => FrameMatchesGuest
  BY DEF FrameInv
<1>. QED
  BY <1>1, <1>2, <1>3, SchedInvariance, PTL DEF ContextSpec
-----------------------------------------------------------------------------
(* Virtual interrupts. *)

(* At most one kind of interrupt is pending for a vcpu, because an entry   *)
(* delivers it before the next one can be recorded.                        *)
OnePending == \A v \in Vcpus : \A j, k \in pend[v] : j = k

LineInv ==
  /\ pend \in [Vcpus -> SUBSET Kinds]
  /\ line \in [Cpus -> SUBSET (Vcpus \X Kinds)]
  /\ OnePending
  /\ InterruptsFollowGuests

(* A handler records at most one kind for the vcpu that trapped, which had *)
(* none pending and does not go to sleep unless nothing is recorded.       *)
LEMMA RecordOne ==
  ASSUME IInv, LineInv, NEW c \in Cpus, NEW kinds, \A j, k \in kinds : j = k,
         \/ Trap(c) \/ GuestPanic(c) \/ Shutdown(c)
         \/ Tick(c) /\ pc[c] = "guest"
         \/ Wfi(c) /\ kinds = {},
         vcpu_do(current[c], kinds), UNCHANGED line
  PROVE  LineInv'
<1> DEFINE v == current[c]
<1>. /\ pc \in [Cpus -> Places] /\ pend \in [Vcpus -> SUBSET Kinds]
     /\ \E place \in Places \ {"guest"} : Move(c, place)
     /\ \A d \in Cpus \ {c} : current'[d] = current[d] /\ current[d] # v
     /\ \A u \in Vcpus \ {v} : state'[u] = state[u]
     /\ kinds = {} \/ state'[v] # "SLEEP"
     /\ pc[c] = "guest" /\ v \in Vcpus /\ pend[v] = {}
  <2>1. pc[c] = "guest"
    BY GuestStep
  <2>2. kinds = {} \/ state'[v] # "SLEEP"
    BY StaysAwake
  <2>. QED
    BY <2>1, <2>2, GuestStep, GuestRuns DEF LineInv, InterruptsFollowGuests, IInv, TypeOK
<1>1. pend' = [pend EXCEPT ![v] = kinds \cap Kinds]
  BY DEF vcpu_do
<1>. HIDE DEF v
<1>2. pend' \in [Vcpus -> SUBSET Kinds] /\ OnePending'
  BY <1>1 DEF LineInv, OnePending
<1>3. InterruptsFollowGuests'
  <2>1. ASSUME NEW d \in Cpus, pc'[d] = "guest"
        PROVE  (\A raised \in line'[d] : raised[1] = current'[d]) /\ pend'[current'[d]] = {}
    <3>1. d # c /\ pc[d] = "guest" /\ current'[d] = current[d] /\ current[d] # v
      BY <2>1 DEF Move
    <3>. QED
      BY <1>1, <3>1 DEF LineInv, InterruptsFollowGuests
  <2>2. ASSUME NEW u \in Vcpus, state'[u] = "SLEEP" PROVE pend'[u] = {}
    BY <1>1, <2>2 DEF LineInv, InterruptsFollowGuests
  <2>. QED
    BY <2>1, <2>2 DEF InterruptsFollowGuests
<1>. QED
  BY <1>2, <1>3 DEF LineInv

LEMMA LineStep ==
  ASSUME IInv, IInv', LineInv, [ContextNext]_allVars
  PROVE  LineInv'
<1>. /\ pc \in [Cpus -> Places] /\ state \in [Vcpus -> States]
     /\ pend \in [Vcpus -> SUBSET Kinds]
  BY DEF IInv, TypeOK, LineInv
<1>1. ASSUME UNCHANGED pend,
             line' = line \/ \E c \in Cpus : line' = [line EXCEPT ![c] = {}],
             \A c \in Cpus : pc'[c] = "guest" => pc[c] = "guest" /\ current'[c] = current[c],
             \A v \in Vcpus : state'[v] = "SLEEP" => pend[v] = {}
      PROVE  LineInv'
  BY <1>1 DEF LineInv, OnePending, InterruptsFollowGuests
<1>2. ASSUME UNCHANGED <<pend, line>>, UNCHANGED <<pc, current, state>>
      PROVE  LineInv'
  BY <1>2 DEF LineInv, OnePending, InterruptsFollowGuests
<1>3. ASSUME NEW c \in Cpus, InGuest(c) PROVE LineInv'
  <2>1. CASE Execute(c) \/ sec_ret(c) \/ sec_blr(c)
    BY <1>2, <2>1 DEF Execute, sec_ret, sec_blr, FastExit, SecurityTrap, vars, cpuVars,
       vcpuVars
  <2>2. CASE HypCall(c) \/ MmioAccess(c) \/ LateRefusal(c) \/ OtherTrap(c)
    <3>1. /\ Trap(c) /\ UNCHANGED line
          /\ \E kinds \in {{}, {"vserror"}, {"virq"}, {"vfiq"}} : vcpu_do(current[c], kinds)
      BY <2>2 DEF HypCall, MmioAccess, LateRefusal, OtherTrap, Fault, Skip, AlreadyPast,
         Handle, HandleIrq
    <3>2. PICK kinds \in {{}, {"vserror"}, {"virq"}, {"vfiq"}} : vcpu_do(current[c], kinds)
      BY <3>1
    <3>3. \A j, k \in kinds : j = k
      OBVIOUS
    <3>. QED
      BY <3>1, <3>2, <3>3, RecordOne
  <2>3. CASE ShutdownByGuest(c) \/ TickInGuest(c)
    <3>1. /\ Shutdown(c) \/ (Tick(c) /\ pc[c] = "guest")
          /\ vcpu_do(current[c], {}) /\ UNCHANGED line
      BY <2>3 DEF ShutdownByGuest, TickInGuest, Fault, Skip, AlreadyPast, Handle, HandleIrq
    <3>. QED
      BY <3>1, RecordOne
  <2>4. CASE WfiInGuest(c) \/ PanicInGuest(c)
    <3>1. (Wfi(c) \/ GuestPanic(c)) /\ UNCHANGED line /\ UNCHANGED pend
      BY <2>4 DEF WfiInGuest, PanicInGuest
    <3>2. current[c] \in Vcpus
      BY <3>1, GuestRuns DEF Wfi, GuestPanic
    <3>3. vcpu_do(current[c], {})
      BY <3>1, <3>2 DEF vcpu_do
    <3>. QED
      BY <3>1, <3>3, RecordOne
  <2>. QED
    BY <1>3, <2>1, <2>2, <2>3, <2>4 DEF InGuest
<1>4. ASSUME NEW c \in Cpus, hyp_ventry(c) PROVE LineInv'
  BY <1>1, <1>4 DEF hyp_ventry, Tick, IdleDeviceIrq, HypFault, Move, vcpuVars, LineInv,
     InterruptsFollowGuests
<1>5. ASSUME NEW c \in Cpus, Schedule(c) PROVE LineInv'
  <2>1. ScheduleNext(c) \/ Resume(c)
    BY <1>5 DEF Schedule
  <2>2. PICK v \in Vcpus : v = current'[c]
    BY <2>1, ScheduleStep
  <2>3. set_vintr(c, v)
    BY <1>5, <2>2 DEF Schedule, SwitchTo
  <2>4. Chosen(v) = pend[v]
    <3>1. ASSUME NEW k \in pend[v] PROVE pend[v] = {k}
      <4>1. \A j \in pend[v] : j = k
        BY DEF LineInv, OnePending
      <4>. QED
        BY <4>1
    <3>. QED
      BY <3>1 DEF Chosen
  <2>5. /\ line' = [line EXCEPT ![c] = {<<v, k>> : k \in pend[v]}]
        /\ pend' = [pend EXCEPT ![v] = {}]
    BY <2>3, <2>4 DEF set_vintr
  <2>6. /\ line' \in [Cpus -> SUBSET (Vcpus \X Kinds)]
        /\ pend' \in [Vcpus -> SUBSET Kinds] /\ OnePending'
    BY <2>5 DEF LineInv, OnePending
  <2>7. ASSUME NEW d \in Cpus, pc'[d] = "guest"
        PROVE  (\A raised \in line'[d] : raised[1] = current'[d]) /\ pend'[current'[d]] = {}
    <3>1. CASE d = c
      BY <2>2, <2>5, <3>1 DEF LineInv
    <3>2. CASE d # c
      <4>1. pc[d] = "guest" /\ current'[d] = current[d]
        BY <2>1, <2>7, <3>2, ScheduleStep DEF Move
      <4>2. current[d] \in Vcpus
        BY <4>1, GuestRuns
      <4>. QED
        BY <2>5, <3>2, <4>1, <4>2 DEF LineInv, InterruptsFollowGuests
    <3>. QED
      BY <3>1, <3>2
  <2>8. ASSUME NEW u \in Vcpus, state'[u] = "SLEEP" PROVE pend'[u] = {}
    <3>1. u # v /\ state[u] = "SLEEP"
      BY <2>1, <2>2, <2>8, ScheduleStep
    <3>. QED
      BY <2>5, <3>1 DEF LineInv, InterruptsFollowGuests
  <2>. QED
    BY <2>6, <2>7, <2>8 DEF LineInv, InterruptsFollowGuests
<1>6. CASE NoRegisters /\ UNCHANGED contextVars
  BY <1>1, <1>6, NoRegistersStep DEF contextVars, LineInv, InterruptsFollowGuests
<1>7. ASSUME NEW v \in Vcpus, vcpu_create(v) PROVE LineInv'
  BY <1>1, <1>7, CreateStep DEF vcpu_create, LineInv, InterruptsFollowGuests
<1>8. ASSUME NEW c \in Cpus, NEW v \in Vcpus, TimerWakesUp(c, v) PROVE LineInv'
  <2>1. /\ state[v] = "SLEEP" /\ state' = [state EXCEPT ![v] = "READY"]
        /\ pc' = pc /\ current' = current
    BY <1>8, WakeUpStep DEF TimerWakesUp
  <2>2. pend[v] = {} /\ line' = line /\ pend' = [pend EXCEPT ![v] = {"virq"} \cap Kinds]
    BY <1>8, <2>1 DEF TimerWakesUp, vcpu_do, LineInv, InterruptsFollowGuests
  <2>3. \A c1 \in Cpus : pc[c1] = "guest" => current[c1] \in Vcpus /\ current[c1] # v
    BY <2>1, GuestRuns
  <2>4. pend' \in [Vcpus -> SUBSET Kinds] /\ OnePending'
    BY <2>2 DEF LineInv, OnePending
  <2>5. InterruptsFollowGuests'
    BY <2>1, <2>2, <2>3 DEF LineInv, InterruptsFollowGuests
  <2>. QED
    BY <2>2, <2>4, <2>5 DEF LineInv
<1>9. CASE UNCHANGED allVars
  BY <1>2, <1>9 DEF allVars, vars, cpuVars, vcpuVars, contextVars
<1>10. ASSUME NEW c \in Cpus, LeaveGuest(c) PROVE LineInv'
  <2>1. UNCHANGED pend /\ line' = [line EXCEPT ![c] = {}]
    BY <1>10 DEF LeaveGuest
  <2>2. /\ \A d \in Cpus : pc'[d] = "guest" => pc[d] = "guest" /\ current'[d] = current[d]
        /\ \A v \in Vcpus : state'[v] = "SLEEP" => state[v] = "SLEEP"
    BY <1>10, LeaveStep DEF LeaveGuest, Move
  <2>. QED
    BY <1>1, <2>1, <2>2 DEF LineInv, InterruptsFollowGuests
<1>. QED
  BY <1>3, <1>4, <1>5, <1>6, <1>7, <1>8, <1>9, <1>10 DEF ContextNext

(* What InterruptsRight rests on: besides, every flag and line has its     *)
(* type and at most one kind is pending for a vcpu.                        *)
THEOREM LineInvariance == ContextSpec => []LineInv
<1>1. ContextInit => LineInv
  BY DEF ContextInit, Init, LineInv, OnePending, InterruptsFollowGuests
<1>2. IInv /\ IInv' /\ LineInv /\ [ContextNext]_allVars => LineInv'
  BY LineStep
<1>. QED
  BY <1>1, <1>2, SchedInvariance, PTL DEF ContextSpec

(* A virtual interrupt is raised for the guest that runs, none is left     *)
(* pending for it, and no guest sleeps with one pending.                   *)
THEOREM InterruptsRight == ContextSpec => []InterruptsFollowGuests
<1>1. LineInv => InterruptsFollowGuests
  BY DEF LineInv
<1>. QED
  BY <1>1, LineInvariance, PTL
-----------------------------------------------------------------------------
(* The machine that a guest sees. *)

Contents ==
  Nat \cup Vcpus \cup {Old, "idle", "fired"} \cup {Walk(v) : v \in Vcpus}

RegisterFile ==
  [x : Contents, pc : Contents, fp : Contents, timer : Contents, par : Contents]

Executes(v) == \E c \in Cpus : pc[c] = "guest" /\ current[c] = v

(* The parts of v's context that its CPU holds up to date while it handles *)
(* an exception.  Of PAR_EL1 it may hold a walk instead.                   *)
SameContext(r, s, v) ==
  r.pc = s.pc /\ r.fp = s.fp /\ r.timer = s.timer /\ r.par \in {s.par, Walk(v)}

(* A guest's registers are complete in its CPU while it executes, and in   *)
(* its saved context otherwise.  In the second case the CPU it has not     *)
(* left yet holds all but the general registers and PAR_EL1 too, which is  *)
(* what the lazy switch relies on.                                         *)
MachineInv ==
  /\ reg \in [Cpus -> RegisterFile] /\ saved \in [Vcpus -> RegisterFile]
  /\ \A c \in Cpus : pc[c] = "guest" => reg[c] \in Machine!Registers(current[c])
  /\ \A v \in Vcpus : ~Executes(v) => saved[v] \in Machine!Registers(v)
  /\ \A c \in Cpus : current[c] # None /\ pc[c] \notin {"guest", "panic"} =>
       SameContext(reg[c], saved[current[c]], current[c])
  /\ pc[Primary] = "boot" => \A v \in Vcpus : saved[v] = NewContext(v)

LEMMA ViewOfRunner ==
  ASSUME RunnerIsUnique, NEW c \in Cpus, pc[c] = "guest"
  PROVE  View(current[c]) = reg[c]
<1>1. \A d \in Cpus : pc[d] = "guest" /\ current[d] = current[c] => d = c
  BY DEF RunnerIsUnique
<1>. QED
  BY <1>1 DEF View

LEMMA ViewOfOthers ==
  ASSUME NEW v \in Vcpus, ~Executes(v)
  PROVE  View(v) = saved[v]
BY DEF View, Executes

LEMMA NextViewOfRunner ==
  ASSUME RunnerIsUnique', NEW c \in Cpus, pc'[c] = "guest"
  PROVE  View(current[c])' = reg'[c]
<1>1. \A d \in Cpus : pc'[d] = "guest" /\ current'[d] = current'[c] => d = c
  BY DEF RunnerIsUnique
<1>. QED
  BY <1>1 DEF View

LEMMA NextViewOfOthers ==
  ASSUME NEW v \in Vcpus, ~Executes(v)'
  PROVE  View(v)' = saved'[v]
BY DEF View, Executes

(* Steps of the hypervisor that touch no context. *)
LEMMA ContextsStay ==
  ASSUME MachineInv, UNCHANGED <<reg, saved, current>>,
         \A c \in Cpus : pc'[c] = "guest" <=> pc[c] = "guest",
         \A c \in Cpus : pc[c] = "panic" => pc'[c] = "panic",
         pc'[Primary] = "boot" => pc[Primary] = "boot"
  PROVE  MachineInv' /\ \A v \in Vcpus : View(v)' = View(v)
<1>1. MachineInv'
  BY DEF MachineInv, Executes
<1>2. ASSUME NEW v \in Vcpus PROVE View(v)' = View(v)
  BY DEF View
<1>. QED
  BY <1>1, <1>2

(* On the way to the idle loop or to a panic the contexts stay what they   *)
(* are; what the CPU still holds does not count any more.                  *)
LEMMA ContextsLeft ==
  ASSUME IInv, IInv', MachineInv, NEW c \in Cpus, LeaveGuest(c)
  PROVE  MachineInv' /\ \A v \in Vcpus : View(v)' = View(v)
<1>0. /\ pc \in [Cpus -> Places] /\ current \in [Cpus -> Vcpus \cup {None}]
      /\ reg \in [Cpus -> RegisterFile]
  BY DEF IInv, TypeOK, MachineInv
<1>1. /\ saved' = saved /\ reg' = [reg EXCEPT ![c] = Outdated]
      /\ pc[c] \in {"timer", "sched", "scan"} /\ pc'[c] \in {"idle", "panic"}
      /\ pc'[c] = "panic" \/ current'[c] = None
      /\ \A d \in Cpus \ {c} :
           pc'[d] = pc[d] /\ current'[d] = current[d] /\ reg'[d] = reg[d]
  BY <1>0, LeaveStep DEF LeaveGuest, Move
<1>2. \A v \in Vcpus : Executes(v)' <=> Executes(v)
  BY <1>1 DEF Executes
<1>3. Outdated \in RegisterFile
  BY DEF Outdated, RegisterFile, Contents
<1>4. reg' \in [Cpus -> RegisterFile]
  BY <1>0, <1>1, <1>3
<1>5. MachineInv'
  BY <1>1, <1>2, <1>4 DEF MachineInv
<1>6. ASSUME NEW v \in Vcpus PROVE View(v)' = View(v)
  <2>1. CASE ~Executes(v)
    BY <1>1, <1>2, <2>1, ViewOfOthers, NextViewOfOthers
  <2>2. CASE Executes(v)
    <3>1. PICK d \in Cpus : pc[d] = "guest" /\ current[d] = v /\ d # c
      BY <1>1, <2>2 DEF Executes
    <3>2. reg'[d] = reg[d] /\ pc'[d] = "guest" /\ current'[d] = v
      BY <1>1, <3>1
    <3>. QED
      BY <3>1, <3>2, ViewOfRunner, NextViewOfRunner DEF IInv
  <2>. QED
    BY <2>1, <2>2
<1>. QED
  BY <1>5, <1>6

LEMMA SameWalk ==
  ASSUME NEW v \in Vcpus
  PROVE  Machine!Walk(v) = Walk(v) /\ Walk(v) \in Contents
BY DEF Walk, Machine!Walk, Contents

LEMMA Shapes ==
  ASSUME IInv, FrameInv, MachineInv, NEW c \in Cpus, pc[c] = "guest"
  PROVE  /\ current[c] \in Vcpus /\ sp[c] = current[c] /\ started
         /\ reg[c] \in Machine!Registers(current[c])
         /\ reg[c] = [x |-> reg[c].x, pc |-> reg[c].pc, fp |-> current[c],
                      timer |-> reg[c].timer, par |-> reg[c].par]
         /\ reg[c].x \in Machine!Words(current[c]) /\ reg[c].pc \in Machine!Words(current[c])
         /\ reg[c].timer \in {"idle", "fired"} /\ reg[c].fp = current[c]
         /\ reg[c].par \in {current[c], Walk(current[c])}
         /\ After(c) = Machine!NextWord(current[c], reg[c].pc)
         /\ After(c) \in Machine!Words(current[c])
<1>1. current[c] \in Vcpus /\ reg[c] \in Machine!Registers(current[c])
  BY GuestRuns DEF MachineInv
<1>2. /\ reg[c] = [x |-> reg[c].x, pc |-> reg[c].pc, fp |-> current[c],
                   timer |-> reg[c].timer, par |-> reg[c].par]
      /\ reg[c].x \in Machine!Words(current[c]) /\ reg[c].pc \in Machine!Words(current[c])
      /\ reg[c].timer \in {"idle", "fired"} /\ reg[c].fp = current[c]
      /\ reg[c].par \in {current[c], Walk(current[c])}
  BY <1>1, SameWalk DEF Machine!Registers
<1>3. sp[c] = current[c] /\ started
  BY DEF FrameInv, FrameMatchesGuest, IInv, BootOrder
<1>4. /\ After(c) = Machine!NextWord(current[c], reg[c].pc)
      /\ After(c) \in Machine!Words(current[c])
  BY <1>1, <1>2 DEF After, NextWord, Machine!NextWord, Machine!Words
<1>. QED
  BY <1>1, <1>2, <1>3, <1>4

(* Assignments to the fields of a register file. *)
LEMMA SetOne ==
  ASSUME NEW r \in RegisterFile, NEW e
  PROVE  /\ [r EXCEPT !.x = e] =
              [x |-> e, pc |-> r.pc, fp |-> r.fp, timer |-> r.timer, par |-> r.par]
         /\ [r EXCEPT !.pc = e] =
              [x |-> r.x, pc |-> e, fp |-> r.fp, timer |-> r.timer, par |-> r.par]
         /\ [r EXCEPT !.fp = e] =
              [x |-> r.x, pc |-> r.pc, fp |-> e, timer |-> r.timer, par |-> r.par]
         /\ [r EXCEPT !.timer = e] =
              [x |-> r.x, pc |-> r.pc, fp |-> r.fp, timer |-> e, par |-> r.par]
         /\ [r EXCEPT !.par = e] =
              [x |-> r.x, pc |-> r.pc, fp |-> r.fp, timer |-> r.timer, par |-> e]
BY DEF RegisterFile

LEMMA FileShape ==
  ASSUME NEW r \in RegisterFile
  PROVE  /\ r = [x |-> r.x, pc |-> r.pc, fp |-> r.fp, timer |-> r.timer, par |-> r.par]
         /\ r.x \in Contents /\ r.pc \in Contents /\ r.fp \in Contents
         /\ r.timer \in Contents /\ r.par \in Contents
BY DEF RegisterFile

LEMMA SetPcAndX ==
  ASSUME NEW r \in RegisterFile, NEW p, NEW x
  PROVE  [r EXCEPT !.pc = p, !.x = x] =
           [x |-> x, pc |-> p, fp |-> r.fp, timer |-> r.timer, par |-> r.par]
<1> DEFINE q == [r EXCEPT !.pc = p]
<1>1. q = [x |-> r.x, pc |-> p, fp |-> r.fp, timer |-> r.timer, par |-> r.par]
  BY SetOne
<1>2. [r EXCEPT !.pc = p, !.x = x] = [q EXCEPT !.x = x]
  OBVIOUS
<1>. HIDE DEF q
<1>3. [q EXCEPT !.x = x] = [x |-> x, pc |-> p, fp |-> r.fp, timer |-> r.timer, par |-> r.par]
  BY <1>1
<1>. QED
  BY <1>2, <1>3

LEMMA SetPcXAndPar ==
  ASSUME NEW r \in RegisterFile, NEW p, NEW x, NEW a
  PROVE  [r EXCEPT !.pc = p, !.x = x, !.par = a] =
           [x |-> x, pc |-> p, fp |-> r.fp, timer |-> r.timer, par |-> a]
<1> DEFINE q == [r EXCEPT !.pc = p, !.x = x]
<1>1. q = [x |-> x, pc |-> p, fp |-> r.fp, timer |-> r.timer, par |-> r.par]
  BY SetPcAndX
<1>2. [r EXCEPT !.pc = p, !.x = x, !.par = a] = [q EXCEPT !.par = a]
  OBVIOUS
<1>. HIDE DEF q
<1>3. [q EXCEPT !.par = a] = [x |-> x, pc |-> p, fp |-> r.fp, timer |-> r.timer, par |-> a]
  BY <1>1
<1>. QED
  BY <1>2, <1>3

LEMMA SetXAndPar ==
  ASSUME NEW r \in RegisterFile, NEW x, NEW a
  PROVE  [r EXCEPT !.x = x, !.par = a] =
           [x |-> x, pc |-> r.pc, fp |-> r.fp, timer |-> r.timer, par |-> a]
<1> DEFINE q == [r EXCEPT !.x = x]
<1>1. q = [x |-> x, pc |-> r.pc, fp |-> r.fp, timer |-> r.timer, par |-> r.par]
  BY SetOne
<1>2. [r EXCEPT !.x = x, !.par = a] = [q EXCEPT !.par = a]
  OBVIOUS
<1>. HIDE DEF q
<1>3. [q EXCEPT !.par = a] = [x |-> x, pc |-> r.pc, fp |-> r.fp, timer |-> r.timer, par |-> a]
  BY <1>1
<1>. QED
  BY <1>2, <1>3

LEMMA SetSysregs ==
  ASSUME NEW r \in RegisterFile, NEW p, NEW t, NEW a
  PROVE  [r EXCEPT !.pc = p, !.timer = t, !.par = a] =
           [x |-> r.x, pc |-> p, fp |-> r.fp, timer |-> t, par |-> a]
<1> DEFINE q == [r EXCEPT !.pc = p]
           y == [q EXCEPT !.timer = t]
<1>1. q = [x |-> r.x, pc |-> p, fp |-> r.fp, timer |-> r.timer, par |-> r.par]
  BY SetOne
<1>2. [r EXCEPT !.pc = p, !.timer = t, !.par = a] = [y EXCEPT !.par = a]
  OBVIOUS
<1>3. y = [x |-> r.x, pc |-> p, fp |-> r.fp, timer |-> t, par |-> r.par]
  <2>. HIDE DEF q
  <2>. QED
    BY <1>1
<1>. HIDE DEF y
<1>4. [y EXCEPT !.par = a] = [x |-> r.x, pc |-> p, fp |-> r.fp, timer |-> t, par |-> a]
  BY <1>3
<1>. QED
  BY <1>2, <1>4

(* A guest's register file is one, whatever the copies may hold. *)
LEMMA WordsAreContents ==
  ASSUME NEW v \in Vcpus
  PROVE  /\ Machine!Words(v) \subseteq Contents
         /\ Machine!Registers(v) \subseteq RegisterFile
<1>1. Machine!Words(v) \subseteq Contents
  BY DEF Machine!Words, Contents
<1>2. {v} \subseteq Contents /\ {"idle", "fired"} \subseteq Contents
  BY DEF Contents
<1>3. {v, Machine!Walk(v)} \subseteq Contents
  BY <1>2, SameWalk
<1>. QED
  BY <1>1, <1>2, <1>3 DEF Machine!Registers, RegisterFile

LEMMA RegistersOf ==
  ASSUME NEW v \in Vcpus, NEW x \in Machine!Words(v), NEW p \in Machine!Words(v),
         NEW t \in {"idle", "fired"}, NEW a \in {v, Walk(v)}
  PROVE  [x |-> x, pc |-> p, fp |-> v, timer |-> t, par |-> a] \in Machine!Registers(v)
BY SameWalk DEF Machine!Registers

(* What an entry and its handler leave in the saved context and in the CPU. *)
LEMMA EnteredIs ==
  ASSUME IInv, FrameInv, MachineInv, NEW c \in Cpus, pc[c] = "guest",
         NEW elr \in Contents, NEW a \in Contents
  PROVE  /\ Entered(c, elr, a) =
              [saved EXCEPT ![current[c]] =
                [x |-> reg[c].x, pc |-> elr, fp |-> current[c], timer |-> reg[c].timer, par |-> a]]
         /\ Entered(c, elr, a) \in [Vcpus -> RegisterFile]
<1> DEFINE s == vm_entry_general_reg_save(c)
           t == vcpu_freg_save(s, c)
           u == vcpu_save_all_sysregs(t, c, elr, a)
<1>0. current[c] \in Vcpus /\ sp[c] = current[c] /\ reg[c].fp = current[c]
  BY Shapes
<1>1. PICK v \in Vcpus : v = current[c]
  BY <1>0
<1>2. saved \in [Vcpus -> RegisterFile] /\ saved[v] \in RegisterFile /\ reg[c] \in RegisterFile
  BY DEF MachineInv
<1>3. /\ reg[c].x \in Contents /\ reg[c].fp \in Contents /\ reg[c].timer \in Contents
      /\ reg[c].pc \in Contents
  BY <1>2, FileShape
<1>4. s = [saved EXCEPT ![v] = [saved[v] EXCEPT !.x = reg[c].x]]
  BY <1>0, <1>1 DEF vm_entry_general_reg_save
<1>5. [saved[v] EXCEPT !.x = reg[c].x] =
        [x |-> reg[c].x, pc |-> saved[v].pc, fp |-> saved[v].fp, timer |-> saved[v].timer,
         par |-> saved[v].par]
  BY <1>2 DEF RegisterFile
<1>. HIDE DEF s
<1>6. /\ s \in [Vcpus -> RegisterFile] /\ s[v].x = reg[c].x
      /\ \A w \in Vcpus \ {v} : s[w] = saved[w]
  BY <1>2, <1>3, <1>4, <1>5 DEF RegisterFile
<1>7. t = [s EXCEPT ![v] = [s[v] EXCEPT !.fp = reg[c].fp]]
  BY <1>1, <1>6 DEF vcpu_freg_save
<1>8. [s[v] EXCEPT !.fp = reg[c].fp] =
        [x |-> s[v].x, pc |-> s[v].pc, fp |-> reg[c].fp, timer |-> s[v].timer, par |-> s[v].par]
  BY <1>6, SetOne
<1>. HIDE DEF t
<1>9. /\ t \in [Vcpus -> RegisterFile] /\ t[v].x = reg[c].x /\ t[v].fp = reg[c].fp
      /\ \A w \in Vcpus \ {v} : t[w] = saved[w]
  BY <1>3, <1>6, <1>7, <1>8 DEF RegisterFile
<1>10. u = [t EXCEPT ![v] = [t[v] EXCEPT !.pc = elr, !.timer = reg[c].timer, !.par = a]]
  BY <1>1, <1>9 DEF vcpu_save_all_sysregs
<1>11. [t[v] EXCEPT !.pc = elr, !.timer = reg[c].timer, !.par = a] =
        [x |-> t[v].x, pc |-> elr, fp |-> t[v].fp, timer |-> reg[c].timer, par |-> a]
  <2>1. t[v] \in RegisterFile
    BY <1>9
  <2>. QED
    BY <2>1, SetSysregs
<1>12. Entered(c, elr, a) = hyp_security_check(u, c, elr)
  BY DEF Entered, s, t
<1>. HIDE DEF u
<1>13. u \in [Vcpus -> RegisterFile] /\ u[v].pc = elr
  BY <1>3, <1>9, <1>10, <1>11 DEF RegisterFile
<1>14. u = [saved EXCEPT ![v] =
              [x |-> reg[c].x, pc |-> elr, fp |-> v, timer |-> reg[c].timer, par |-> a]]
  <2>1. u[v] = [x |-> reg[c].x, pc |-> elr, fp |-> v, timer |-> reg[c].timer, par |-> a]
    BY <1>0, <1>1, <1>9, <1>10, <1>11
  <2>2. \A w \in Vcpus \ {v} : u[w] = saved[w]
    BY <1>9, <1>10
  <2>. QED
    BY <1>2, <1>13, <2>1, <2>2
<1>15. hyp_security_check(u, c, elr) = u
  <2>1. [u[v] EXCEPT !.pc = elr] = u[v]
    BY <1>13 DEF RegisterFile
  <2>2. hyp_security_check(u, c, elr) = [u EXCEPT ![v] = [u[v] EXCEPT !.pc = elr]]
    BY <1>1, <1>13 DEF hyp_security_check
  <2>. QED
    BY <1>13, <2>1, <2>2
<1>16. Entered(c, elr, a) = u
  BY <1>12, <1>15
<1>. QED
  BY <1>1, <1>13, <1>14, <1>16

LEMMA HandledIs ==
  ASSUME IInv, FrameInv, MachineInv, NEW c \in Cpus, pc[c] = "guest",
         NEW elr \in Contents, NEW a \in Contents, NEW next, NEW load, NEW kinds,
         Handle(c, elr, a, next, load, kinds)
  PROVE  /\ saved' = [saved EXCEPT ![current[c]] =
              [x |-> load, pc |-> next, fp |-> current[c], timer |-> reg[c].timer, par |-> a]]
         /\ reg' = [reg EXCEPT ![c] =
              [x |-> Old, pc |-> next, fp |-> current[c], timer |-> reg[c].timer,
               par |-> Walk(current[c])]]
<1> DEFINE e == Entered(c, elr, a)
<1>0. current[c] \in Vcpus /\ reg[c].fp = current[c]
  BY Shapes
<1>1. PICK v \in Vcpus : v = current[c]
  BY <1>0
<1>2. saved \in [Vcpus -> RegisterFile] /\ reg \in [Cpus -> RegisterFile]
  BY DEF MachineInv
<1>3. /\ e = [saved EXCEPT ![v] =
               [x |-> reg[c].x, pc |-> elr, fp |-> v, timer |-> reg[c].timer, par |-> a]]
      /\ e \in [Vcpus -> RegisterFile]
  BY <1>1, EnteredIs
<1>4. /\ saved' = [e EXCEPT ![v].pc = next, ![v].x = load]
      /\ reg' = [reg EXCEPT ![c].pc = next, ![c].x = Old, ![c].par = Walk(v)]
  BY <1>1 DEF Handle
<1>. HIDE DEF e
<1>5. reg' = [reg EXCEPT ![c] =
                [x |-> Old, pc |-> next, fp |-> v, timer |-> reg[c].timer, par |-> Walk(v)]]
  <2>1. reg' = [reg EXCEPT ![c] = [reg[c] EXCEPT !.pc = next, !.x = Old, !.par = Walk(v)]]
    BY <1>2, <1>4
  <2>2. [reg[c] EXCEPT !.pc = next, !.x = Old, !.par = Walk(v)] =
          [x |-> Old, pc |-> next, fp |-> reg[c].fp, timer |-> reg[c].timer, par |-> Walk(v)]
    <3>1. PICK r \in RegisterFile : r = reg[c]
      BY <1>2
    <3>2. PICK w : w = Walk(v)
      OBVIOUS
    <3>3. [r EXCEPT !.pc = next, !.x = Old, !.par = w] =
            [x |-> Old, pc |-> next, fp |-> r.fp, timer |-> r.timer, par |-> w]
      BY SetPcXAndPar
    <3>. QED
      BY <3>1, <3>2, <3>3
  <2>. QED
    BY <1>0, <1>1, <2>1, <2>2
<1>6. e[v].fp = v /\ e[v].timer = reg[c].timer /\ e[v].par = a
  BY <1>2, <1>3
<1>7. saved' = [e EXCEPT ![v] =
                  [x |-> load, pc |-> next, fp |-> v, timer |-> reg[c].timer, par |-> a]]
  <2>1. saved' = [e EXCEPT ![v] = [e[v] EXCEPT !.pc = next, !.x = load]]
    BY <1>3, <1>4
  <2>2. [e[v] EXCEPT !.pc = next, !.x = load] =
          [x |-> load, pc |-> next, fp |-> e[v].fp, timer |-> e[v].timer, par |-> e[v].par]
    <3>1. e[v] \in RegisterFile
      BY <1>3
    <3>. QED
      BY <3>1, SetPcAndX
  <2>. QED
    BY <1>6, <2>1, <2>2
<1>8. saved' = [saved EXCEPT ![v] =
                  [x |-> load, pc |-> next, fp |-> v, timer |-> reg[c].timer, par |-> a]]
  BY <1>2, <1>3, <1>7
<1>. QED
  BY <1>1, <1>5, <1>8
-----------------------------------------------------------------------------
(* The steps, one by one. *)

MachineStep ==
  \/ \E v \in Vcpus : Machine!Step(v)
  \/ \A v \in Vcpus : View(v)' = View(v)

LEMMA StepsAreMachineSteps ==
  ASSUME MachineStep PROVE [Machine!Next]_([v \in Vcpus |-> View(v)])
<1>1. CASE \A v \in Vcpus : View(v)' = View(v)
  BY <1>1
<1>2. ASSUME NEW v \in Vcpus, Machine!Step(v)
      PROVE  [Machine!Next]_([u \in Vcpus |-> View(u)])
  <2>1. \E x, p, t, a : Machine!Become(v, x, p, t, a)
    BY <1>2 DEF Machine!Step, Machine!Execute, Machine!Return, Machine!Call, Machine!CallTo,
       Machine!CallFromEl1, Machine!Refused, Machine!TimerFires, Machine!ParOverwritten
  <2>2. \A u \in Vcpus \ {v} : View(u)' = View(u)
    BY <2>1 DEF Machine!Become
  <2>3. CASE View(v)' = View(v)
    BY <1>1, <2>2, <2>3
  <2>4. CASE View(v)' # View(v)
    BY <1>2, <2>4 DEF Machine!Next
  <2>. QED
    BY <2>3, <2>4
<1>. QED
  BY <1>1, <1>2 DEF MachineStep

(* A guest's context goes to another value and no other context moves. *)
LEMMA BecomeStep ==
  ASSUME NEW v \in Vcpus, NEW x, NEW p, NEW t, NEW a, View(v) \in Machine!Registers(v),
         View(v)' = [x |-> x, pc |-> p, fp |-> v, timer |-> t, par |-> a],
         \A u \in Vcpus \ {v} : View(u)' = View(u)
  PROVE  Machine!Become(v, x, p, t, a)
<1>1. View(v) \in RegisterFile /\ View(v).fp = v
  BY WordsAreContents DEF Machine!Registers
<1>2. [View(v) EXCEPT !.x = x, !.pc = p, !.timer = t, !.par = a] =
        [x |-> x, pc |-> p, fp |-> v, timer |-> t, par |-> a]
  <2>1. PICK r \in RegisterFile : r = View(v) /\ r.fp = v
    BY <1>1
  <2>2. [r EXCEPT !.x = x, !.pc = p, !.timer = t, !.par = a] =
          [x |-> x, pc |-> p, fp |-> r.fp, timer |-> t, par |-> a]
    <3> DEFINE q == [r EXCEPT !.x = x, !.pc = p, !.timer = t]
    <3>1. q = [x |-> x, pc |-> p, fp |-> r.fp, timer |-> t, par |-> r.par]
      <4> DEFINE y == [r EXCEPT !.x = x]
      <4>1. y = [x |-> x, pc |-> r.pc, fp |-> r.fp, timer |-> r.timer, par |-> r.par]
        BY DEF RegisterFile
      <4>2. q = [y EXCEPT !.pc = p, !.timer = t]
        OBVIOUS
      <4>. HIDE DEF y
      <4> DEFINE z == [y EXCEPT !.pc = p]
      <4>3. z = [x |-> x, pc |-> p, fp |-> r.fp, timer |-> r.timer, par |-> r.par]
        BY <4>1
      <4>4. q = [z EXCEPT !.timer = t]
        BY <4>2
      <4>. HIDE DEF z
      <4>. QED
        BY <4>3, <4>4
    <3>2. [r EXCEPT !.x = x, !.pc = p, !.timer = t, !.par = a] = [q EXCEPT !.par = a]
      OBVIOUS
    <3>. HIDE DEF q
    <3>. QED
      BY <3>1, <3>2
  <2>. QED
    BY <2>1, <2>2
<1>. QED
  BY <1>2 DEF Machine!Become

LEMMA GuestKeeps ==
  ASSUME IInv, NEW c \in Cpus,
         \/ Trap(c) \/ GuestPanic(c) \/ Shutdown(c) \/ Wfi(c)
         \/ Tick(c) /\ pc[c] = "guest"
  PROVE  started' = started /\ current'[c] \in {current[c], None}
<1>. current \in [Cpus -> Vcpus \cup {None}]
  BY DEF IInv, TypeOK
<1>1. CASE Trap(c) \/ GuestPanic(c) \/ Tick(c)
  BY <1>1 DEF Trap, GuestPanic, Tick
<1>2. CASE Shutdown(c)
  BY <1>2 DEF Shutdown, vcpu_off, LeaveCpu
<1>3. CASE Wfi(c)
  BY <1>3 DEF Wfi, vcpu_sleep, LeaveCpu
<1>. QED
  BY <1>1, <1>2, <1>3

LEMMA TrapStep ==
  ASSUME IInv, IInv', FrameInv, MachineInv, NEW c \in Cpus, NEW v \in Vcpus, v = current[c],
         \/ Trap(c) \/ GuestPanic(c) \/ Shutdown(c) \/ Wfi(c)
         \/ Tick(c) /\ pc[c] = "guest",
         NEW s \in Machine!Registers(v), saved' = [saved EXCEPT ![v] = s],
         NEW r \in RegisterFile, reg' = [reg EXCEPT ![c] = r],
         current'[c] = None \/ GuestPanic(c) \/ SameContext(r, s, v)
  PROVE  /\ MachineInv'
         /\ View(v) = reg[c] /\ View(v)' = s
         /\ \A u \in Vcpus \ {v} : View(u)' = View(u)
<1>. /\ pc \in [Cpus -> Places] /\ pc[c] = "guest" /\ pc'[c] # "guest"
     /\ current'[c] \in {v, None} /\ None \notin Vcpus
     /\ reg \in [Cpus -> RegisterFile] /\ saved \in [Vcpus -> RegisterFile]
     /\ \A d \in Cpus \ {c} :
          pc'[d] = pc[d] /\ current'[d] = current[d] /\ current[d] # v
     /\ GuestPanic(c) => pc'[c] = "panic"
  <2>1. PICK place \in Places \ {"guest"} : Move(c, place)
    BY GuestStep
  <2>2. pc \in [Cpus -> Places] /\ pc[c] = "guest"
    BY GuestStep DEF IInv, TypeOK
  <2>3. GuestPanic(c) => pc'[c] = "panic"
    BY <2>2 DEF GuestPanic, Move
  <2>. QED
    BY <2>1, <2>2, <2>3, GuestStep, GuestKeeps, GuestRuns DEF Move, MachineInv
<1>1. ~Executes(v)' /\ \A u \in Vcpus \ {v} : Executes(u)' <=> Executes(u)
  BY DEF Executes
<1>2. View(v) = reg[c] /\ View(v)' = s
  BY <1>1, ViewOfRunner, NextViewOfOthers DEF IInv
<1>3. ASSUME NEW u \in Vcpus, u # v PROVE View(u)' = View(u)
  <2>1. CASE ~Executes(u)
    BY <1>1, <1>3, <2>1, ViewOfOthers, NextViewOfOthers
  <2>2. CASE Executes(u)
    <3>1. PICK d \in Cpus : pc[d] = "guest" /\ current[d] = u /\ d # c
      BY <1>3, <2>2 DEF Executes
    <3>2. reg'[d] = reg[d] /\ pc'[d] = "guest" /\ current'[d] = u
      BY <3>1
    <3>. QED
      BY <3>1, <3>2, ViewOfRunner, NextViewOfRunner DEF IInv
  <2>. QED
    BY <2>1, <2>2
<1>4. MachineInv'
  <2>1. reg' \in [Cpus -> RegisterFile] /\ saved' \in [Vcpus -> RegisterFile]
    BY WordsAreContents
  <2>2. \A d \in Cpus : pc'[d] = "guest" => reg'[d] \in Machine!Registers(current'[d])
    BY DEF MachineInv
  <2>3. \A u \in Vcpus : ~Executes(u)' => saved'[u] \in Machine!Registers(u)
    BY <1>1 DEF MachineInv
  <2>4. ASSUME NEW d \in Cpus, current'[d] # None, pc'[d] \notin {"guest", "panic"}
        PROVE  SameContext(reg'[d], saved'[current'[d]], current'[d])
    <3>1. CASE d = c
      BY <2>4, <3>1
    <3>2. CASE d # c
      <4>1. /\ current[d] \in Vcpus \ {v} /\ pc[d] \notin {"guest", "panic"}
            /\ current'[d] = current[d]
        BY <2>4, <3>2 DEF IInv, TypeOK
      <4>2. reg'[d] = reg[d] /\ saved'[current[d]] = saved[current[d]]
        BY <3>2, <4>1
      <4>. QED
        BY <4>1, <4>2 DEF MachineInv
    <3>. QED
      BY <3>1, <3>2
  <2>5. pc'[Primary] # "boot"
    BY Shapes, GuestKeeps DEF IInv, BootOrder
  <2>. QED
    BY <2>1, <2>2, <2>3, <2>4, <2>5 DEF MachineInv, Executes
<1>. QED
  BY <1>2, <1>3, <1>4

(* An instruction of the guest, seen from the machine. *)
LEMMA ExecuteStep ==
  ASSUME NEW v \in Vcpus, View(v) \in Machine!Registers(v), NEW x \in Machine!Words(v),
         NEW t \in {View(v).timer, "idle"}, NEW a \in {View(v).par, Walk(v), v},
         View(v)' = [x |-> x, pc |-> Machine!NextWord(v, View(v).pc), fp |-> v,
                     timer |-> t, par |-> a],
         \A u \in Vcpus \ {v} : View(u)' = View(u)
  PROVE  MachineStep
<1>1. Machine!Become(v, x, Machine!NextWord(v, View(v).pc), t, a)
  BY BecomeStep
<1>2. a \in Machine!Traps(v) \cup {v}
  BY SameWalk DEF Machine!Traps
<1>3. Machine!Execute(v)
  BY <1>1, <1>2 DEF Machine!Execute
<1>. QED
  BY <1>3 DEF MachineStep, Machine!Step

(* Nothing but PAR_EL1 changes, if anything does. *)
LEMMA ParStep ==
  ASSUME NEW v \in Vcpus, View(v) \in Machine!Registers(v),
         NEW a \in {View(v).par, Walk(v)},
         View(v)' = [x |-> View(v).x, pc |-> View(v).pc, fp |-> v,
                     timer |-> View(v).timer, par |-> a],
         \A u \in Vcpus \ {v} : View(u)' = View(u)
  PROVE  MachineStep
<1>1. CASE a = View(v).par
  <2>1. View(v) = [x |-> View(v).x, pc |-> View(v).pc, fp |-> v,
                   timer |-> View(v).timer, par |-> View(v).par]
    BY DEF Machine!Registers
  <2>. QED
    BY <1>1, <2>1 DEF MachineStep
<1>2. CASE a = Walk(v)
  <2>1. Machine!Become(v, View(v).x, View(v).pc, View(v).timer, a)
    BY BecomeStep
  <2>2. Machine!ParOverwritten(v)
    BY <1>2, <2>1, SameWalk DEF Machine!ParOverwritten
  <2>. QED
    BY <2>2 DEF MachineStep, Machine!Step
<1>. QED
  BY <1>1, <1>2

LEMMA HandledStep ==
  ASSUME IInv, IInv', FrameInv, MachineInv, NEW c \in Cpus, NEW v \in Vcpus, v = current[c],
         Trap(c) \/ Shutdown(c),
         NEW elr \in Contents, NEW a, a = reg[c].par \/ a = Walk(v),
         NEW next \in Machine!Words(v), NEW load \in Machine!Words(v),
         NEW kinds, Handle(c, elr, a, next, load, kinds)
  PROVE  /\ MachineInv'
         /\ View(v) = reg[c]
         /\ View(v)' = [x |-> load, pc |-> next, fp |-> v, timer |-> reg[c].timer, par |-> a]
         /\ \A u \in Vcpus \ {v} : View(u)' = View(u)
<1> DEFINE s == [x |-> load, pc |-> next, fp |-> v, timer |-> reg[c].timer, par |-> a]
           r == [x |-> Old, pc |-> next, fp |-> v, timer |-> reg[c].timer, par |-> Walk(v)]
<1>1. pc[c] = "guest"
  BY GuestStep
<1>2. a \in {v, Walk(v)} /\ a \in Contents /\ reg[c].timer \in {"idle", "fired"}
  <2>1. reg[c].par \in {v, Walk(v)} /\ reg[c].timer \in {"idle", "fired"}
    BY <1>1, Shapes
  <2>2. v \in Contents /\ Walk(v) \in Contents
    BY SameWalk DEF Contents
  <2>. QED
    BY <2>1, <2>2
<1>3. saved' = [saved EXCEPT ![v] = s] /\ reg' = [reg EXCEPT ![c] = r]
  BY <1>1, <1>2, HandledIs
<1>4. s \in Machine!Registers(v)
  BY <1>2, RegistersOf
<1>5. r \in RegisterFile
  <2>1. next \in Contents /\ v \in Contents /\ Old \in Contents /\ reg[c].timer \in Contents
        /\ Walk(v) \in Contents
    BY <1>2, WordsAreContents, SameWalk DEF Contents
  <2>. QED
    BY <2>1 DEF RegisterFile
<1>6. SameContext(r, s, v)
  BY DEF SameContext
<1>. HIDE DEF r, s
<1>7. /\ MachineInv' /\ View(v) = reg[c] /\ View(v)' = s
      /\ \A u \in Vcpus \ {v} : View(u)' = View(u)
  BY <1>3, <1>4, <1>5, <1>6, TrapStep
<1>. QED
  BY <1>7 DEF s

(* The handler leaves the guest at its instruction. *)
LEMMA FaultStep ==
  ASSUME IInv, IInv', FrameInv, MachineInv, NEW c \in Cpus, Trap(c) \/ Shutdown(c),
         NEW a \in {reg[c].par, Walk(current[c])}, NEW kinds, Fault(c, a, kinds)
  PROVE  MachineInv' /\ MachineStep
<1>1. PICK v \in Vcpus : v = current[c]
  BY GuestStep, GuestRuns
<1>2. /\ reg[c] \in Machine!Registers(v)
      /\ reg[c].x \in Machine!Words(v) /\ reg[c].pc \in Machine!Words(v)
  BY <1>1, GuestStep, Shapes
<1>3. reg[c].pc \in Contents
  BY <1>2, WordsAreContents
<1>4. Handle(c, reg[c].pc, a, reg[c].pc, reg[c].x, kinds) /\ (a = reg[c].par \/ a = Walk(v))
  BY <1>1 DEF Fault
<1>5. /\ MachineInv' /\ View(v) = reg[c]
      /\ View(v)' = [x |-> reg[c].x, pc |-> reg[c].pc, fp |-> v, timer |-> reg[c].timer,
                     par |-> a]
      /\ \A u \in Vcpus \ {v} : View(u)' = View(u)
  BY <1>1, <1>2, <1>3, <1>4, HandledStep
<1>. QED
  BY <1>1, <1>2, <1>5, ParStep

(* An entry that only saves: an interrupt, or a panic on the way. *)
LEMMA SavedStep ==
  ASSUME IInv, IInv', FrameInv, MachineInv, NEW c \in Cpus,
         \/ Trap(c) \/ GuestPanic(c)
         \/ Tick(c) /\ pc[c] = "guest",
         saved' = Entered(c, reg[c].pc, reg[c].par),
         \/ reg' = [reg EXCEPT ![c].x = Old]
         \/ GuestPanic(c) /\ reg' = [reg EXCEPT ![c] = Outdated]
  PROVE  MachineInv' /\ MachineStep
<1>0. pc[c] = "guest"
  BY GuestStep
<1>1. PICK v \in Vcpus : v = current[c]
  BY <1>0, GuestRuns
<1>2. /\ reg[c] \in Machine!Registers(v) /\ reg[c] \in RegisterFile
      /\ reg \in [Cpus -> RegisterFile]
      /\ reg[c] = [x |-> reg[c].x, pc |-> reg[c].pc, fp |-> v, timer |-> reg[c].timer,
                   par |-> reg[c].par]
  BY <1>0, <1>1, Shapes, WordsAreContents DEF MachineInv
<1>3. reg[c].pc \in Contents /\ reg[c].par \in Contents
  BY <1>2, FileShape
<1>4. saved' = [saved EXCEPT ![v] = reg[c]]
  BY <1>0, <1>1, <1>2, <1>3, EnteredIs
<1>5. \E r \in RegisterFile : /\ reg' = [reg EXCEPT ![c] = r]
                              /\ GuestPanic(c) \/ SameContext(r, reg[c], v)
  <2>1. CASE reg' = [reg EXCEPT ![c].x = Old]
    <3> DEFINE r == [x |-> Old, pc |-> reg[c].pc, fp |-> reg[c].fp, timer |-> reg[c].timer,
                     par |-> reg[c].par]
    <3>1. [reg[c] EXCEPT !.x = Old] = r
      BY <1>2 DEF RegisterFile
    <3>2. reg' = [reg EXCEPT ![c] = r]
      BY <1>2, <2>1, <3>1
    <3>3. Old \in Contents
      BY DEF Contents
    <3>4. r \in RegisterFile
      BY <1>2, <3>3, FileShape DEF RegisterFile
    <3>. QED
      BY <3>2, <3>4 DEF SameContext
  <2>2. CASE GuestPanic(c) /\ reg' = [reg EXCEPT ![c] = Outdated]
    BY <2>2 DEF Outdated, RegisterFile, Contents
  <2>. QED
    BY <2>1, <2>2
<1>6. PICK r \in RegisterFile : /\ reg' = [reg EXCEPT ![c] = r]
                                /\ GuestPanic(c) \/ SameContext(r, reg[c], v)
  BY <1>5
<1>7. /\ MachineInv' /\ View(v) = reg[c] /\ View(v)' = reg[c]
      /\ \A u \in Vcpus \ {v} : View(u)' = View(u)
  BY <1>1, <1>2, <1>4, <1>6, TrapStep
<1>. QED
  BY <1>7 DEF MachineStep

(* The handler steps over the instruction, or finds it stepped over. *)
LEMMA SkipStep ==
  ASSUME IInv, IInv', FrameInv, MachineInv, NEW c \in Cpus,
         Trap(c) \/ Shutdown(c),
         NEW elr \in {reg[c].pc, After(c)}, NEW a \in {reg[c].par, Walk(current[c])},
         NEW load \in Words(current[c]) \cup {reg[c].x},
         NEW kinds, Handle(c, elr, a, After(c), load, kinds)
  PROVE  MachineInv' /\ MachineStep
<1>1. PICK v \in Vcpus : v = current[c]
  BY GuestStep, GuestRuns
<1>2. /\ reg[c] \in Machine!Registers(v) /\ elr \in Contents /\ load \in Machine!Words(v)
      /\ After(c) = Machine!NextWord(v, reg[c].pc) /\ After(c) \in Machine!Words(v)
  <2>1. pc[c] = "guest"
    BY GuestStep
  <2>2. Words(v) = Machine!Words(v)
    BY DEF Words, Machine!Words
  <2>. QED
    BY <1>1, <2>1, <2>2, Shapes, WordsAreContents
<1>3. /\ MachineInv' /\ View(v) = reg[c]
      /\ View(v)' = [x |-> load, pc |-> After(c), fp |-> v, timer |-> reg[c].timer, par |-> a]
      /\ \A u \in Vcpus \ {v} : View(u)' = View(u)
  <2>1. a = reg[c].par \/ a = Walk(v)
    BY <1>1
  <2>. QED
    BY <1>1, <1>2, <2>1, HandledStep
<1>4. MachineStep
  BY <1>1, <1>2, <1>3, ExecuteStep
<1>. QED
  BY <1>3, <1>4

(* The refusal comes after the load, and with an SError.                   *)
LEMMA RefusalStep ==
  ASSUME IInv, IInv', LineInv, FrameInv, MachineInv, NEW c \in Cpus, LateRefusal(c)
  PROVE  MachineInv' /\ MachineStep
<1>0. Trap(c) /\ pc[c] = "guest"
  BY GuestStep DEF LateRefusal
<1>1. PICK v \in Vcpus : v = current[c]
  BY <1>0, GuestRuns
<1>2. PICK load \in Words(current[c]) :
        Handle(c, reg[c].pc, reg[c].par, reg[c].pc, load, {"vserror"})
  BY DEF LateRefusal
<1>3. /\ load \in Machine!Words(v)
      /\ reg[c] \in Machine!Registers(v) /\ reg[c].pc \in Machine!Words(v)
  BY <1>0, <1>1, <1>2, Shapes DEF Words, Machine!Words
<1>4. reg[c].pc \in Contents
  BY <1>3, WordsAreContents
<1>5. /\ MachineInv' /\ View(v) = reg[c]
      /\ View(v)' = [x |-> load, pc |-> reg[c].pc, fp |-> v, timer |-> reg[c].timer,
                     par |-> reg[c].par]
      /\ \A u \in Vcpus \ {v} : View(u)' = View(u)
  BY <1>0, <1>1, <1>2, <1>3, <1>4, HandledStep
<1>6. "vserror" \in pend'[v]
  <2>1. pend' = [pend EXCEPT ![v] = @ \cup ({"vserror"} \cap Kinds)]
    BY <1>1, <1>2 DEF Handle, vcpu_do
  <2>2. pend \in [Vcpus -> SUBSET Kinds] /\ "vserror" \in Kinds
    BY ContextAssumption DEF LineInv
  <2>. QED
    BY <2>1, <2>2
<1>7. Machine!Become(v, load, View(v).pc, View(v).timer, View(v).par)
  BY <1>3, <1>5, BecomeStep
<1>8. View(v).par \in Machine!Traps(v)
  BY DEF Machine!Traps
<1>9. Machine!Refused(v)
  BY <1>3, <1>6, <1>7, <1>8 DEF Machine!Refused
<1>. QED
  BY <1>5, <1>9 DEF MachineStep, Machine!Step

(* WFI saves the CPU's registers as they are and steps over itself in the  *)
(* saved context only.                                                     *)
LEMMA WfiStep ==
  ASSUME IInv, IInv', FrameInv, MachineInv, NEW c \in Cpus, WfiInGuest(c)
  PROVE  MachineInv' /\ MachineStep
<1>0. Wfi(c) /\ pc[c] = "guest"
  BY DEF WfiInGuest, Wfi
<1>1. PICK v \in Vcpus : v = current[c]
  BY <1>0, GuestRuns
<1> DEFINE e == Entered(c, reg[c].pc, reg[c].par)
           s == [x |-> reg[c].x, pc |-> After(c), fp |-> v, timer |-> reg[c].timer,
                 par |-> reg[c].par]
           r == [x |-> Old, pc |-> reg[c].pc, fp |-> reg[c].fp, timer |-> reg[c].timer,
                 par |-> Walk(v)]
<1>2. /\ reg[c] \in Machine!Registers(v) /\ reg[c].fp = v
      /\ After(c) = Machine!NextWord(v, reg[c].pc) /\ After(c) \in Machine!Words(v)
      /\ reg[c].x \in Machine!Words(v) /\ reg[c].timer \in {"idle", "fired"}
      /\ reg[c].par \in {v, Walk(v)}
      /\ reg[c] \in RegisterFile /\ saved \in [Vcpus -> RegisterFile]
      /\ reg \in [Cpus -> RegisterFile]
  BY <1>0, <1>1, Shapes, WordsAreContents DEF MachineInv
<1>3. /\ reg[c].x \in Contents /\ reg[c].pc \in Contents /\ reg[c].fp \in Contents
      /\ reg[c].timer \in Contents /\ reg[c].par \in Contents
  BY <1>2, FileShape
<1>4. /\ e = [saved EXCEPT ![v] =
               [x |-> reg[c].x, pc |-> reg[c].pc, fp |-> v, timer |-> reg[c].timer,
                par |-> reg[c].par]]
      /\ e \in [Vcpus -> RegisterFile]
  BY <1>0, <1>1, <1>3, EnteredIs
<1>5. saved' = [e EXCEPT ![v].pc = After(c)] /\ reg' = [reg EXCEPT ![c].x = Old, ![c].par = Walk(v)]
  BY <1>1 DEF WfiInGuest
<1>. HIDE DEF e
<1>6. saved' = [saved EXCEPT ![v] = s]
  <2>1. e[v] = [x |-> reg[c].x, pc |-> reg[c].pc, fp |-> v, timer |-> reg[c].timer,
                par |-> reg[c].par]
    BY <1>2, <1>4
  <2>2. [e[v] EXCEPT !.pc = After(c)] = s
    BY <2>1
  <2>3. saved' = [e EXCEPT ![v] = [e[v] EXCEPT !.pc = After(c)]]
    BY <1>4, <1>5
  <2>4. saved' = [e EXCEPT ![v] = s]
    BY <2>2, <2>3
  <2>. QED
    BY <1>2, <1>4, <2>4
<1>7. reg' = [reg EXCEPT ![c] = r]
  <2>1. [reg[c] EXCEPT !.x = Old, !.par = Walk(v)] = r
    <3>1. PICK q \in RegisterFile : q = reg[c]
      BY <1>2
    <3>2. PICK w : w = Walk(v)
      OBVIOUS
    <3>3. [q EXCEPT !.x = Old, !.par = w] =
            [x |-> Old, pc |-> q.pc, fp |-> q.fp, timer |-> q.timer, par |-> w]
      BY SetXAndPar
    <3>. QED
      BY <3>1, <3>2, <3>3
  <2>2. reg' = [reg EXCEPT ![c] = [reg[c] EXCEPT !.x = Old, !.par = Walk(v)]]
    BY <1>2, <1>5
  <2>. QED
    BY <2>1, <2>2
<1>8. s \in Machine!Registers(v)
  BY <1>2, RegistersOf
<1>9. r \in RegisterFile
  <2>1. Old \in Contents /\ Walk(v) \in Contents
    BY SameWalk DEF Contents
  <2>. QED
    BY <1>3, <2>1 DEF RegisterFile
<1>10. current'[c] = None
  <2>1. state[v] = "RUN" /\ physCpu[v] = c /\ current \in [Cpus -> Vcpus \cup {None}]
    BY <1>0, <1>1 DEF IInv, TypeOK, RunnerIsUnique
  <2>2. LeaveCpu(v)
    BY <1>0, <1>1, <2>1 DEF Wfi, vcpu_sleep
  <2>. QED
    BY <1>1, <2>1, <2>2 DEF LeaveCpu
<1>. HIDE DEF r, s
<1>11. /\ MachineInv' /\ View(v) = reg[c] /\ View(v)' = s
       /\ \A u \in Vcpus \ {v} : View(u)' = View(u)
  BY <1>0, <1>1, <1>6, <1>7, <1>8, <1>9, <1>10, TrapStep
<1>12. MachineStep
  BY <1>2, <1>11, ExecuteStep DEF s
<1>. QED
  BY <1>11, <1>12

(* Steps that keep the guest running: only its own registers move. *)
LEMMA StaySteps ==
  ASSUME IInv, IInv', MachineInv, NEW c \in Cpus, NEW v \in Vcpus, v = current[c],
         pc[c] = "guest", UNCHANGED <<pc, current>>,
         NEW r \in Machine!Registers(v), NEW s \in RegisterFile,
         saved' = [saved EXCEPT ![v] = s],
         reg' \in [Cpus -> RegisterFile], reg'[c] = r,
         \A d \in Cpus \ {c} : reg'[d] = reg[d] \/ reg[d].fp = v
  PROVE  /\ MachineInv'
         /\ View(v) = reg[c] /\ View(v)' = r
         /\ \A u \in Vcpus \ {v} : View(u)' = View(u)
<1>1. \A u \in Vcpus : Executes(u)' <=> Executes(u)
  BY DEF Executes
<1>2. View(v) = reg[c] /\ View(v)' = r
  BY ViewOfRunner, NextViewOfRunner DEF IInv
<1>3. ASSUME NEW d \in Cpus \ {c}, current[d] # None, pc[d] # "panic"
      PROVE  reg'[d] = reg[d] /\ current[d] # v /\ saved'[current[d]] = saved[current[d]]
  <2>1. current[d] \in Vcpus /\ current[d] # v
    BY <1>3, GuestRuns DEF IInv, TypeOK
  <2>2. reg[d].fp = current[d]
    <3>1. CASE pc[d] = "guest"
      BY <3>1 DEF MachineInv, Machine!Registers
    <3>2. CASE pc[d] # "guest"
      <4>1. ~Executes(current[d])
        BY <1>3, <3>2 DEF Executes, IInv, RunnerIsUnique
      <4>2. saved[current[d]].fp = current[d]
        BY <2>1, <4>1 DEF MachineInv, Machine!Registers
      <4>. QED
        BY <1>3, <3>2, <4>2 DEF MachineInv, SameContext
    <3>. QED
      BY <3>1, <3>2
  <2>. QED
    BY <2>1, <2>2 DEF MachineInv
<1>4. ASSUME NEW u \in Vcpus, u # v PROVE View(u)' = View(u)
  <2>1. CASE ~Executes(u)
    BY <1>1, <1>4, <2>1, ViewOfOthers, NextViewOfOthers DEF MachineInv
  <2>2. CASE Executes(u)
    <3>1. PICK d \in Cpus : pc[d] = "guest" /\ current[d] = u /\ d # c
      BY <1>4, <2>2 DEF Executes
    <3>2. reg'[d] = reg[d] /\ pc'[d] = "guest" /\ current'[d] = u
      BY <1>3, <3>1 DEF IInv, RunnerIsUnique
    <3>. QED
      BY <3>1, <3>2, ViewOfRunner, NextViewOfRunner DEF IInv
  <2>. QED
    BY <2>1, <2>2
<1>5. MachineInv'
  <2>1. saved' \in [Vcpus -> RegisterFile]
    BY DEF MachineInv
  <2>2. ASSUME NEW d \in Cpus, pc'[d] = "guest"
        PROVE  reg'[d] \in Machine!Registers(current'[d])
    <3>1. d # c => current[d] # None /\ pc[d] # "panic"
      BY <2>2 DEF IInv, RunnerIsUnique
    <3>. QED
      BY <1>3, <2>2, <3>1 DEF MachineInv
  <2>3. ASSUME NEW u \in Vcpus, ~Executes(u)' PROVE saved'[u] \in Machine!Registers(u)
    <3>1. u # v /\ ~Executes(u)
      BY <1>1, <2>3 DEF Executes
    <3>. QED
      BY <3>1 DEF MachineInv
  <2>4. ASSUME NEW d \in Cpus, current'[d] # None, pc'[d] \notin {"guest", "panic"}
        PROVE  SameContext(reg'[d], saved'[current'[d]], current'[d])
    <3>1. d # c
      BY <2>4
    <3>. QED
      BY <1>3, <2>4, <3>1 DEF MachineInv
  <2>5. pc'[Primary] # "boot"
    BY DEF IInv, BootOrder
  <2>. QED
    BY <2>1, <2>2, <2>3, <2>4, <2>5 DEF MachineInv, Executes
<1>. QED
  BY <1>2, <1>4, <1>5

(* An instruction makes every copy elsewhere worthless. *)
LEMMA InstructionStep ==
  ASSUME IInv, IInv', FrameInv, MachineInv, NEW c \in Cpus, Execute(c)
  PROVE  MachineInv' /\ MachineStep
<1>0. pc[c] = "guest" /\ UNCHANGED <<pc, current>>
  BY DEF Execute, vars, cpuVars
<1>1. PICK v \in Vcpus : v = current[c]
  BY <1>0, GuestRuns
<1>2. PICK n \in Words(current[c]) :
        reg' = [d \in Cpus |->
                  IF d = c THEN [reg[c] EXCEPT !.x = n, !.pc = After(c), !.timer = "idle",
                                               !.par = current[c]]
                  ELSE IF reg[d].fp = current[c] THEN Outdated ELSE reg[d]]
  BY Zenon DEF Execute
<1>3. saved' = [saved EXCEPT ![v] = Outdated]
  BY <1>1 DEF Execute
<1>4. /\ reg[c] \in Machine!Registers(v) /\ reg[c].fp = v /\ reg[c] \in RegisterFile
      /\ After(c) = Machine!NextWord(v, reg[c].pc) /\ After(c) \in Machine!Words(v)
      /\ n \in Machine!Words(v)
      /\ reg \in [Cpus -> RegisterFile] /\ saved \in [Vcpus -> RegisterFile]
  BY <1>0, <1>1, Shapes, WordsAreContents DEF MachineInv, Words, Machine!Words
<1> DEFINE r == [x |-> n, pc |-> After(c), fp |-> v, timer |-> "idle", par |-> v]
           z == [reg[c] EXCEPT !.x = n, !.pc = After(c), !.timer = "idle", !.par = current[c]]
<1>5. z = r
  <2> DEFINE q == [reg[c] EXCEPT !.x = n]
             y == [q EXCEPT !.pc = After(c)]
             w == [y EXCEPT !.timer = "idle"]
  <2>1. q = [x |-> n, pc |-> reg[c].pc, fp |-> v, timer |-> reg[c].timer, par |-> reg[c].par]
    BY <1>4 DEF RegisterFile
  <2>2. y = [x |-> n, pc |-> After(c), fp |-> v, timer |-> reg[c].timer, par |-> reg[c].par]
    <3>. HIDE DEF q
    <3>. QED
      BY <2>1
  <2>3. w = [x |-> n, pc |-> After(c), fp |-> v, timer |-> "idle", par |-> reg[c].par]
    <3>. HIDE DEF y
    <3>. QED
      BY <2>2
  <2>4. z = [w EXCEPT !.par = v]
    BY <1>1
  <2>. HIDE DEF w, z
  <2>. QED
    BY <2>3, <2>4
<1>6. Outdated \in RegisterFile
  BY DEF Outdated, RegisterFile, Contents
<1>7. r \in Machine!Registers(v) /\ r \in RegisterFile
  <2>1. r \in Machine!Registers(v)
    BY <1>4 DEF Machine!Registers
  <2>. QED
    BY <2>1, WordsAreContents
<1>. HIDE DEF r, z
<1>8. reg' = [d \in Cpus |-> IF d = c THEN r ELSE IF reg[d].fp = current[c] THEN Outdated ELSE reg[d]]
  BY <1>2, <1>5 DEF z
<1>9. /\ reg' \in [Cpus -> RegisterFile] /\ reg'[c] = r
      /\ \A d \in Cpus \ {c} : reg'[d] = reg[d] \/ reg[d].fp = v
  BY <1>1, <1>4, <1>6, <1>7, <1>8
<1>10. /\ MachineInv' /\ View(v) = reg[c] /\ View(v)' = r
       /\ \A u \in Vcpus \ {v} : View(u)' = View(u)
  BY <1>0, <1>1, <1>3, <1>6, <1>7, <1>9, StaySteps
<1>11. MachineStep
  BY <1>4, <1>10, ExecuteStep DEF r
<1>. QED
  BY <1>10, <1>11

(* The fast path: saved in the frame, changed there, and loaded again. *)
LEMMA FastStep ==
  ASSUME IInv, IInv', FrameInv, MachineInv, NEW c \in Cpus, NEW v \in Vcpus, v = current[c],
         SecurityTrap(c), NEW x \in Machine!Words(v), NEW next \in Machine!Words(v),
         FastExit(c, x, next)
  PROVE  /\ MachineInv' /\ View(v) = reg[c]
         /\ View(v)' = [x |-> x, pc |-> next, fp |-> v, timer |-> reg[c].timer, par |-> Walk(v)]
         /\ \A u \in Vcpus \ {v} : View(u)' = View(u)
<1>0. pc[c] = "guest" /\ UNCHANGED <<pc, current>>
  BY DEF SecurityTrap, vars, cpuVars
<1>1. /\ sp[c] = v /\ reg[c] \in Machine!Registers(v) /\ reg[c].fp = v
      /\ reg[c].timer \in {"idle", "fired"}
      /\ x \in Contents /\ next \in Contents
      /\ reg \in [Cpus -> RegisterFile] /\ saved \in [Vcpus -> RegisterFile]
      /\ reg[c] \in RegisterFile /\ saved[v] \in RegisterFile
  BY <1>0, Shapes, WordsAreContents DEF MachineInv
<1> DEFINE r == [x |-> x, pc |-> next, fp |-> v, timer |-> reg[c].timer, par |-> Walk(v)]
           e == vm_entry_general_reg_save(c)
           s == [x |-> x, pc |-> next, fp |-> e[v].fp, timer |-> e[v].timer, par |-> e[v].par]
<1>2. r \in Machine!Registers(v)
  BY <1>1, RegistersOf
<1>3. r \in RegisterFile
  BY <1>2, WordsAreContents
<1>4. reg' = [reg EXCEPT ![c] = r]
  <2>1. reg' = [reg EXCEPT ![c] = [reg[c] EXCEPT !.pc = next, !.x = x, !.par = Walk(v)]]
    BY <1>1 DEF FastExit
  <2>2. [reg[c] EXCEPT !.pc = next, !.x = x, !.par = Walk(v)] = r
    <3>1. PICK q \in RegisterFile : q = reg[c]
      BY <1>1
    <3>2. PICK w : w = Walk(v)
      OBVIOUS
    <3>3. [q EXCEPT !.pc = next, !.x = x, !.par = w] =
            [x |-> x, pc |-> next, fp |-> q.fp, timer |-> q.timer, par |-> w]
      BY SetPcXAndPar
    <3>. QED
      BY <1>1, <3>1, <3>2, <3>3
  <2>. QED
    BY <2>1, <2>2
<1>5. e = [saved EXCEPT ![v] = [saved[v] EXCEPT !.x = reg[c].x]]
  BY <1>1 DEF vm_entry_general_reg_save
<1>6. [saved[v] EXCEPT !.x = reg[c].x] \in RegisterFile
  BY <1>1 DEF RegisterFile
<1>7. saved' = [e EXCEPT ![v].pc = next, ![v].x = x]
  BY <1>1 DEF FastExit
<1>. HIDE DEF e
<1>8. e \in [Vcpus -> RegisterFile] /\ e[v] \in RegisterFile
  BY <1>1, <1>5, <1>6
<1>9. [e[v] EXCEPT !.pc = next, !.x = x] = s
  <2>1. PICK q \in RegisterFile : q = e[v]
    BY <1>8
  <2>2. [q EXCEPT !.pc = next, !.x = x] =
          [x |-> x, pc |-> next, fp |-> q.fp, timer |-> q.timer, par |-> q.par]
    BY SetPcAndX
  <2>. QED
    BY <2>1, <2>2
<1>10. s \in RegisterFile
  BY <1>1, <1>8, FileShape DEF RegisterFile
<1>11. saved' = [saved EXCEPT ![v] = s]
  <2>1. saved' = [e EXCEPT ![v] = [e[v] EXCEPT !.pc = next, !.x = x]]
    BY <1>7, <1>8
  <2>. HIDE DEF s
  <2>. QED
    BY <1>1, <1>5, <1>8, <1>9, <2>1
<1>. HIDE DEF r, s
<1>12. /\ reg' \in [Cpus -> RegisterFile] /\ reg'[c] = r
       /\ \A d \in Cpus \ {c} : reg'[d] = reg[d] \/ reg[d].fp = v
  BY <1>1, <1>3, <1>4
<1>13. /\ MachineInv' /\ View(v) = reg[c] /\ View(v)' = r
       /\ \A u \in Vcpus \ {v} : View(u)' = View(u)
  BY <1>0, <1>2, <1>10, <1>11, <1>12, StaySteps
<1>. QED
  BY <1>13 DEF r

(* ret and blr through the fast path. *)
LEMMA SecurityStep ==
  ASSUME IInv, IInv', FrameInv, MachineInv, NEW c \in Cpus, sec_ret(c) \/ sec_blr(c)
  PROVE  MachineInv' /\ MachineStep
<1>0. SecurityTrap(c) /\ pc[c] = "guest"
  BY DEF sec_ret, sec_blr, SecurityTrap
<1>1. PICK v \in Vcpus : v = current[c]
  BY <1>0, GuestRuns
<1>2. /\ reg[c] \in Machine!Registers(v)
      /\ reg[c].x \in Machine!Words(v) /\ reg[c].pc \in Machine!Words(v)
      /\ After(c) = Machine!NextWord(v, reg[c].pc) /\ After(c) \in Machine!Words(v)
      /\ Walk(v) \in Machine!Traps(v)
  BY <1>0, <1>1, Shapes, SameWalk DEF Machine!Traps
<1>3. CASE sec_ret(c)
  <2>1. FastExit(c, reg[c].x, reg[c].x)
    BY <1>3 DEF sec_ret
  <2>2. /\ MachineInv' /\ View(v) = reg[c]
        /\ View(v)' = [x |-> reg[c].x, pc |-> reg[c].x, fp |-> v, timer |-> reg[c].timer,
                       par |-> Walk(v)]
        /\ \A u \in Vcpus \ {v} : View(u)' = View(u)
    BY <1>0, <1>1, <1>2, <2>1, FastStep
  <2>3. Machine!Become(v, View(v).x, View(v).x, View(v).timer, Walk(v))
    BY <1>2, <2>2, BecomeStep
  <2>4. Machine!Return(v)
    BY <1>2, <2>3 DEF Machine!Return
  <2>. QED
    BY <2>2, <2>4 DEF MachineStep, Machine!Step
<1>4. CASE sec_blr(c)
  <2>1. PICK elr \in {reg[c].pc, After(c)} :
          /\ elr = reg[c].pc \/ current[c] \in El1Callers
          /\ FastExit(c, NextWord(current[c], elr), reg[c].x)
    BY <1>4 DEF sec_blr
  <2>2. /\ elr \in Machine!Words(v)
        /\ NextWord(v, elr) = Machine!NextWord(v, elr)
        /\ NextWord(v, elr) \in Machine!Words(v)
    BY <1>2 DEF NextWord, Machine!NextWord, Machine!Words
  <2>3. FastExit(c, NextWord(v, elr), reg[c].x)
    BY <1>1, <2>1
  <2>4. /\ MachineInv' /\ View(v) = reg[c]
        /\ View(v)' = [x |-> NextWord(v, elr), pc |-> reg[c].x, fp |-> v,
                       timer |-> reg[c].timer, par |-> Walk(v)]
        /\ \A u \in Vcpus \ {v} : View(u)' = View(u)
    BY <1>0, <1>1, <1>2, <2>2, <2>3, FastStep
  <2>5. Machine!Become(v, Machine!NextWord(v, elr), View(v).x, View(v).timer, Walk(v))
    BY <1>2, <2>2, <2>4, BecomeStep
  <2>6. Machine!CallTo(v, Machine!NextWord(v, elr))
    BY <1>2, <2>5 DEF Machine!CallTo
  <2>7. \/ elr = View(v).pc
        \/ elr = Machine!NextWord(v, View(v).pc) /\ v \in El1Callers
    BY <1>1, <1>2, <2>1, <2>4
  <2>8. Machine!Call(v) \/ Machine!CallFromEl1(v)
    BY <2>6, <2>7 DEF Machine!Call, Machine!CallFromEl1
  <2>. QED
    BY <2>4, <2>8 DEF MachineStep, Machine!Step
<1>. QED
  BY <1>3, <1>4

(* A wake-up writes into the saved context of a vcpu that no CPU holds. *)
LEMMA FireStep ==
  ASSUME IInv, IInv', MachineInv, NEW c \in Cpus, NEW v \in Vcpus, TimerWakesUp(c, v)
  PROVE  MachineInv' /\ MachineStep
<1>1. /\ TimerEvent(c, v) /\ pc[c] = "timer" /\ state[v] = "SLEEP"
      /\ pc' = pc /\ current' = current /\ reg' = reg
      /\ saved' = [saved EXCEPT ![v].timer = "fired"]
  BY WakeUpStep DEF TimerWakesUp, TimerEvent
<1>2. \A d \in Cpus : current[d] # v
  BY <1>1 DEF IInv, RunnerIsUnique, TypeOK, VcpuAssumption
<1>3. ~Executes(v) /\ \A u \in Vcpus : Executes(u)' <=> Executes(u)
  BY <1>1, <1>2 DEF Executes
<1> DEFINE s == [x |-> saved[v].x, pc |-> saved[v].pc, fp |-> v, timer |-> "fired",
                 par |-> saved[v].par]
<1>4. saved[v] \in Machine!Registers(v) /\ saved \in [Vcpus -> RegisterFile]
  BY <1>3 DEF MachineInv
<1>5. s \in Machine!Registers(v) /\ saved[v].fp = v
  BY <1>4 DEF Machine!Registers
<1>6. saved' = [saved EXCEPT ![v] = s]
  <2>1. [saved[v] EXCEPT !.timer = "fired"] = s
    BY <1>4, <1>5 DEF Machine!Registers
  <2>2. saved' = [saved EXCEPT ![v] = [saved[v] EXCEPT !.timer = "fired"]]
    BY <1>1, <1>4
  <2>. QED
    BY <2>1, <2>2
<1>. HIDE DEF s
<1>7. saved' \in [Vcpus -> RegisterFile] /\ saved'[v] = s
      /\ \A u \in Vcpus \ {v} : saved'[u] = saved[u]
  BY <1>4, <1>5, <1>6, WordsAreContents
<1>8. View(v) = saved[v] /\ View(v)' = s
  BY <1>3, <1>7, ViewOfOthers, NextViewOfOthers
<1>9. ASSUME NEW u \in Vcpus, u # v PROVE View(u)' = View(u)
  BY <1>1, <1>7, <1>9 DEF View
<1>10. MachineInv'
  <2>1. \A d \in Cpus : current'[d] # None => saved'[current'[d]] = saved[current[d]]
    BY <1>1, <1>2, <1>7 DEF IInv, TypeOK
  <2>2. \A u \in Vcpus : ~Executes(u)' => saved'[u] \in Machine!Registers(u)
    BY <1>3, <1>5, <1>7 DEF MachineInv
  <2>3. pc'[Primary] # "boot"
    <3>1. pc[Primary] # "boot"
      BY <1>1 DEF IInv, BootOrder
    <3>. QED
      BY <1>1, <3>1
  <2>. QED
    BY <1>1, <1>7, <2>1, <2>2, <2>3 DEF MachineInv
<1>11. Machine!TimerFires(v)
  <2>1. Machine!Become(v, View(v).x, View(v).pc, "fired", View(v).par)
    BY <1>4, <1>8, <1>9, BecomeStep DEF s
  <2>. QED
    BY <2>1 DEF Machine!TimerFires
<1>. QED
  BY <1>10, <1>11 DEF MachineStep, Machine!Step

(* What do_schedule loads is the context that was saved, PAR_EL1 perhaps   *)
(* excepted.                                                               *)
LEMMA LoadedIs ==
  ASSUME IInv, IInv', MachineInv, NEW c \in Cpus, NEW v \in Vcpus, v = current'[c],
         Schedule(c)
  PROVE  /\ ~Executes(v) /\ saved[v] \in Machine!Registers(v)
         /\ \E a \in {saved[v].par, Walk(v)} :
              reg' = [reg EXCEPT ![c] =
                [x |-> saved[v].x, pc |-> saved[v].pc, fp |-> saved[v].fp,
                 timer |-> saved[v].timer, par |-> a]]
         /\ saved' = saved
<1>0. ScheduleNext(c) \/ Resume(c)
  BY DEF Schedule
<1>1. /\ pc[c] \in {"sched", "scan"} /\ pc'[c] = "guest"
      /\ state'[v] = "RUN" /\ physCpu'[v] = c
      /\ \A d \in Cpus \ {c} : pc'[d] = pc[d] /\ current'[d] = current[d]
  BY <1>0, ScheduleStep DEF Move, IInv, TypeOK, RunnerIsUnique
<1>2. ~Executes(v)
  <2>1. ASSUME NEW d \in Cpus, pc[d] = "guest", current[d] = v PROVE FALSE
    <3>1. d # c /\ current'[d] = v
      BY <1>1, <2>1
    <3>2. physCpu'[v] = d
      BY <3>1 DEF IInv, RunnerIsUnique
    <3>. QED
      BY <1>1, <3>1, <3>2
  <2>. QED
    BY <2>1 DEF Executes
<1>3. /\ saved[v] \in Machine!Registers(v) /\ saved[v] \in RegisterFile
      /\ reg[c] \in RegisterFile /\ reg \in [Cpus -> RegisterFile]
  BY <1>2, WordsAreContents DEF MachineInv
<1>4. ASSUME last[c] = v PROVE SameContext(reg[c], saved[v], v)
  <2>1. CASE Resume(c)
    <3>1. current[c] = v /\ current[c] # None
      BY <2>1 DEF Resume, NoNewVcpu
    <3>. QED
      BY <1>1, <3>1 DEF MachineInv
  <2>2. CASE ScheduleNext(c)
    <3>1. state[v] = "READY"
      <4>1. /\ current' = [current EXCEPT ![c] = Head(ready[level])]
            /\ state[Head(ready[level])] = "READY"
        BY <2>2, TakeFacts DEF ScheduleNext
      <4>. QED
        BY <4>1 DEF IInv, TypeOK
    <3>. QED
      BY <1>1, <1>4, <3>1 DEF IInv, InterruptedStaysPut
  <2>. QED
    BY <1>0, <2>1, <2>2
<1> DEFINE r == IF last[physCpu'[v]] = v THEN reg[c]
                ELSE vcpu_restore_all_sysregs(vcpu_freg_restore(reg[c], v), v)
<1>5. reg' = [reg EXCEPT ![c] = [r EXCEPT !.x = saved[v].x]] /\ saved' = saved
  BY Zenon DEF Schedule, SwitchTo, dispatch
<1>6. r \in RegisterFile /\ SameContext(r, saved[v], v)
  <2>1. CASE last[c] = v
    BY <1>1, <1>3, <1>4, <2>1
  <2>2. CASE last[c] # v
    <3> DEFINE f == [reg[c] EXCEPT !.fp = saved[v].fp]
    <3>1. r = [f EXCEPT !.pc = saved[v].pc, !.timer = saved[v].timer, !.par = saved[v].par]
      BY <1>1, <2>2 DEF vcpu_restore_all_sysregs, vcpu_freg_restore
    <3>2. f = [x |-> reg[c].x, pc |-> reg[c].pc, fp |-> saved[v].fp, timer |-> reg[c].timer,
               par |-> reg[c].par]
      BY <1>3 DEF RegisterFile
    <3>. HIDE DEF f, r
    <3>3. f \in RegisterFile /\ f.fp = saved[v].fp /\ f.x = reg[c].x
      BY <1>3, <3>2 DEF RegisterFile
    <3>4. [f EXCEPT !.pc = saved[v].pc, !.timer = saved[v].timer, !.par = saved[v].par] =
            [x |-> f.x, pc |-> saved[v].pc, fp |-> f.fp, timer |-> saved[v].timer,
             par |-> saved[v].par]
      <4>1. PICK p, t, a : p = saved[v].pc /\ t = saved[v].timer /\ a = saved[v].par
        OBVIOUS
      <4>2. [f EXCEPT !.pc = p, !.timer = t, !.par = a] =
              [x |-> f.x, pc |-> p, fp |-> f.fp, timer |-> t, par |-> a]
        BY <3>3, SetSysregs
      <4>. QED
        BY <4>1, <4>2
    <3>5. r = [x |-> reg[c].x, pc |-> saved[v].pc, fp |-> saved[v].fp,
               timer |-> saved[v].timer, par |-> saved[v].par]
      BY <3>1, <3>3, <3>4
    <3>. QED
      BY <1>3, <3>5, FileShape DEF RegisterFile, SameContext
  <2>. QED
    BY <2>1, <2>2
<1>. HIDE DEF r
<1>7. [r EXCEPT !.x = saved[v].x] =
        [x |-> saved[v].x, pc |-> saved[v].pc, fp |-> saved[v].fp, timer |-> saved[v].timer,
         par |-> r.par]
  <2>1. [r EXCEPT !.x = saved[v].x] =
          [x |-> saved[v].x, pc |-> r.pc, fp |-> r.fp, timer |-> r.timer, par |-> r.par]
    BY <1>6 DEF RegisterFile
  <2>. QED
    BY <1>6, <2>1 DEF SameContext
<1>8. r.par \in {saved[v].par, Walk(v)}
  BY <1>6 DEF SameContext
<1>. QED
  BY <1>2, <1>3, <1>5, <1>7, <1>8

LEMMA EnterStep ==
  ASSUME IInv, IInv', MachineInv, NEW c \in Cpus, Schedule(c)
  PROVE  MachineInv' /\ MachineStep
<1>0. ScheduleNext(c) \/ Resume(c)
  BY DEF Schedule
<1>1. PICK v \in Vcpus : v = current'[c]
  BY <1>0, ScheduleStep
<1>2. /\ pc[c] \in {"sched", "scan"} /\ pc'[c] = "guest"
      /\ \A d \in Cpus \ {c} : pc'[d] = pc[d] /\ current'[d] = current[d]
      /\ \A d \in Cpus \ {c} : current'[d] # v
  BY <1>0, <1>1, ScheduleStep DEF Move, IInv, TypeOK, RunnerIsUnique
<1>3. ~Executes(v) /\ saved[v] \in Machine!Registers(v) /\ saved' = saved
  BY <1>1, LoadedIs
<1>4. PICK a \in {saved[v].par, Walk(v)} :
        reg' = [reg EXCEPT ![c] =
          [x |-> saved[v].x, pc |-> saved[v].pc, fp |-> saved[v].fp,
           timer |-> saved[v].timer, par |-> a]]
  BY <1>1, LoadedIs
<1> DEFINE r == [x |-> saved[v].x, pc |-> saved[v].pc, fp |-> v,
                 timer |-> saved[v].timer, par |-> a]
<1>5. saved[v].fp = v /\ r \in Machine!Registers(v)
  <2>1. /\ saved[v].x \in Machine!Words(v) /\ saved[v].pc \in Machine!Words(v)
        /\ saved[v].timer \in {"idle", "fired"} /\ saved[v].par \in {v, Walk(v)}
        /\ saved[v].fp = v
    BY <1>3, SameWalk DEF Machine!Registers
  <2>2. a \in {v, Walk(v)}
    BY <1>4, <2>1
  <2>. QED
    BY <2>1, <2>2, RegistersOf
<1>6. reg \in [Cpus -> RegisterFile] /\ r \in RegisterFile
  BY <1>5, WordsAreContents DEF MachineInv
<1>7. reg' = [reg EXCEPT ![c] = r]
  BY <1>4, <1>5
<1>. HIDE DEF r
<1>8. reg'[c] = r /\ \A d \in Cpus \ {c} : reg'[d] = reg[d]
  BY <1>6, <1>7
<1>9. \A u \in Vcpus \ {v} : Executes(u)' <=> Executes(u)
  BY <1>1, <1>2 DEF Executes
<1>10. View(v) = saved[v] /\ View(v)' = r
  BY <1>1, <1>2, <1>3, <1>8, ViewOfOthers, NextViewOfRunner DEF IInv
<1>11. ASSUME NEW u \in Vcpus, u # v PROVE View(u)' = View(u)
  <2>1. CASE ~Executes(u)
    BY <1>3, <1>9, <1>11, <2>1, ViewOfOthers, NextViewOfOthers
  <2>2. CASE Executes(u)
    <3>1. PICK d \in Cpus \ {c} : pc[d] = "guest" /\ current[d] = u
      BY <1>2, <2>2 DEF Executes
    <3>2. reg'[d] = reg[d] /\ pc'[d] = "guest" /\ current'[d] = u
      BY <1>2, <1>8, <3>1
    <3>. QED
      BY <3>1, <3>2, ViewOfRunner, NextViewOfRunner DEF IInv
  <2>. QED
    BY <2>1, <2>2
<1>12. MachineStep
  BY <1>3, <1>4, <1>10, <1>11, ParStep DEF r
<1>13. MachineInv'
  <2>1. reg' \in [Cpus -> RegisterFile] /\ saved' \in [Vcpus -> RegisterFile]
    BY <1>3, <1>6, <1>7 DEF MachineInv
  <2>2. \A d \in Cpus : pc'[d] = "guest" => reg'[d] \in Machine!Registers(current'[d])
    BY <1>1, <1>2, <1>5, <1>8 DEF MachineInv
  <2>3. \A u \in Vcpus : ~Executes(u)' => saved'[u] \in Machine!Registers(u)
    BY <1>1, <1>2, <1>3, <1>9 DEF MachineInv, Executes
  <2>4. \A d \in Cpus : current'[d] # None /\ pc'[d] \notin {"guest", "panic"} =>
          SameContext(reg'[d], saved'[current'[d]], current'[d])
    BY <1>2, <1>3, <1>8 DEF MachineInv
  <2>5. pc'[Primary] = "boot" => pc[Primary] = "boot"
    BY <1>2
  <2>. QED
    BY <1>3, <2>1, <2>2, <2>3, <2>4, <2>5 DEF MachineInv
<1>. QED
  BY <1>12, <1>13

LEMMA GuestContextStep ==
  ASSUME IInv, IInv', LineInv, FrameInv, MachineInv, NEW c \in Cpus, InGuest(c)
  PROVE  MachineInv' /\ MachineStep
<1>1. CASE HypCall(c) \/ MmioAccess(c)
  <2>1. /\ Trap(c)
        /\ \E elr \in {reg[c].pc, After(c)}, a \in {reg[c].par, Walk(current[c])},
              load \in Words(current[c]) \cup {reg[c].x}, kinds \in {{}, {"vserror"}} :
                Handle(c, elr, a, After(c), load, kinds)
    BY <1>1 DEF HypCall, MmioAccess, Skip, AlreadyPast
  <2>. QED
    BY <2>1, SkipStep
<1>2. CASE OtherTrap(c)
  <2>1. CASE \E kinds \in {{}, {"vserror"}}, a \in {reg[c].par, Walk(current[c])} :
               Trap(c) /\ Fault(c, a, kinds)
    BY <2>1, FaultStep
  <2>2. CASE Trap(c) /\ \E kinds \in {{}, {"virq"}, {"vfiq"}} : HandleIrq(c, kinds)
    BY <2>2, SavedStep DEF HandleIrq
  <2>. QED
    BY <1>2, <2>1, <2>2 DEF OtherTrap
<1>3. CASE PanicInGuest(c) \/ TickInGuest(c)
  BY <1>3, SavedStep DEF PanicInGuest, TickInGuest, HandleIrq
<1>4. CASE ShutdownByGuest(c)
  <2>1. Shutdown(c) /\ (Fault(c, Walk(current[c]), {}) \/ Skip(c, {}) \/ AlreadyPast(c, {}))
    BY <1>4 DEF ShutdownByGuest
  <2>2. CASE Fault(c, Walk(current[c]), {})
    BY <2>1, <2>2, FaultStep
  <2>3. CASE Skip(c, {}) \/ AlreadyPast(c, {})
    BY <2>1, <2>3, SkipStep DEF Skip, AlreadyPast
  <2>. QED
    BY <2>1, <2>2, <2>3
<1>. QED
  BY <1>1, <1>2, <1>3, <1>4, InstructionStep, WfiStep, SecurityStep, RefusalStep DEF InGuest

LEMMA ContextStep ==
  ASSUME IInv, IInv', LineInv, FrameInv, MachineInv, [ContextNext]_allVars
  PROVE  MachineInv' /\ MachineStep
<1>1. ASSUME UNCHANGED <<reg, saved, current>>,
             \A c \in Cpus : pc'[c] = "guest" <=> pc[c] = "guest",
             \A c \in Cpus : pc[c] = "panic" => pc'[c] = "panic",
             pc'[Primary] = "boot" => pc[Primary] = "boot"
      PROVE  MachineInv' /\ MachineStep
  BY <1>1, ContextsStay DEF MachineStep
<1>2. ASSUME NEW c \in Cpus, hyp_ventry(c) PROVE MachineInv' /\ MachineStep
  BY <1>1, <1>2 DEF hyp_ventry, Tick, IdleDeviceIrq, HypFault, Move, IInv, TypeOK
<1>3. CASE NoRegisters /\ UNCHANGED contextVars
  BY <1>1, <1>3, NoRegistersStep DEF contextVars
<1>4. ASSUME NEW v \in Vcpus, vcpu_create(v) PROVE MachineInv' /\ MachineStep
  <2>1. pc[Primary] = "boot" /\ pc' = pc /\ current' = current /\ reg' = reg
    BY <1>4, CreateStep DEF vcpu_create, CreateVm
  <2>2. saved' = [saved EXCEPT ![v] = saved[v]]
    BY <1>4, <2>1 DEF vcpu_create, MachineInv
  <2>3. saved' = saved
    BY <2>2 DEF MachineInv
  <2>. QED
    BY <1>1, <2>1, <2>3
<1>5. CASE UNCHANGED allVars
  BY <1>1, <1>5 DEF allVars, vars, cpuVars, contextVars
<1>6. ASSUME NEW c \in Cpus, LeaveGuest(c) PROVE MachineInv' /\ MachineStep
  BY <1>6, ContextsLeft DEF MachineStep
<1>. QED
  BY <1>2, <1>3, <1>4, <1>5, <1>6, FireStep, EnterStep, GuestContextStep DEF ContextNext

LEMMA MachineStart == ContextInit => MachineInv /\ Machine!Init
<1> SUFFICES ASSUME ContextInit PROVE MachineInv /\ Machine!Init
  OBVIOUS
<1>1. \A c \in Cpus : pc[c] # "guest" /\ current[c] = None
  BY DEF ContextInit, Init
<1>2. ASSUME NEW v \in Vcpus PROVE ~Executes(v) /\ saved[v] = NewContext(v)
  BY <1>1 DEF ContextInit, Executes
<1>3. ASSUME NEW v \in Vcpus PROVE saved[v] \in Machine!Registers(v)
  <2>1. 0 \in Machine!Words(v)
    BY DEF Machine!Words
  <2>2. NewContext(v) \in Machine!Registers(v)
    BY <2>1, RegistersOf DEF NewContext
  <2>. QED
    BY <1>2, <2>2
<1>4. Outdated \in RegisterFile
  BY DEF Outdated, RegisterFile, Contents
<1>5. reg \in [Cpus -> RegisterFile] /\ saved \in [Vcpus -> RegisterFile]
  <2>1. \A v \in Vcpus : saved[v] \in RegisterFile
    BY <1>3, WordsAreContents
  <2>. QED
    BY <1>4, <2>1 DEF ContextInit
<1>6. Machine!Init
  BY <1>2, <1>3, ViewOfOthers DEF Machine!Init
<1>. QED
  BY <1>1, <1>2, <1>3, <1>5, <1>6 DEF MachineInv

(* Every guest sees a machine of its own: through traps, lazy switches,    *)
(* moves between CPUs and the fast path its registers change by its own    *)
(* instructions, each done once, for any number of guests and CPUs.  The   *)
(* exceptions are those that GuestMachine names: the timer status that a   *)
(* wake-up sets, PAR_EL1, which the hypervisor's own translations for this *)
(* guest overwrite, and the link of a checked call from EL1.  FPCR and     *)
(* FPSR, which nothing saves, are not among these registers.               *)
THEOREM GuestsAreIsolated == ContextSpec => ImplementsMachine
<1>1. ContextInit => FrameInv
  BY DEF ContextInit, Init, FrameInv, FrameMatchesGuest
<1>2. IInv /\ IInv' /\ FrameInv /\ [ContextNext]_allVars => FrameInv'
  BY FrameStep
<1>3. IInv /\ IInv' /\ LineInv /\ FrameInv /\ MachineInv /\ [ContextNext]_allVars =>
        MachineInv' /\ [Machine!Next]_([v \in Vcpus |-> View(v)])
  BY ContextStep, StepsAreMachineSteps
<1>. QED
  BY <1>1, <1>2, <1>3, MachineStart, SchedInvariance, LineInvariance, PTL
     DEF ContextSpec, ImplementsMachine, Machine!Spec
=============================================================================
