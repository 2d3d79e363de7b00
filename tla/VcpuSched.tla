------------------------------ MODULE VcpuSched ------------------------------
(***************************************************************************)
(* The life of virtual CPUs on the physical CPUs that share the fcfs       *)
(* scheduler: vcpu.c, fcfs_schedule.c, schedule.c, the handlers of         *)
(* interrupt.c and the start-up of init.c.                                 *)
(*                                                                         *)
(* A physical CPU is always in one of these places (pc):                   *)
(*   "boot"   the primary CPU, before it releases the secondary ones       *)
(*   "wait"   a secondary CPU, in the wfe loop of start_secondary          *)
(*   "guest"  a vcpu executes                                              *)
(*   "timer"  in the loop of timer_event_intr, between two callbacks       *)
(*   "sched"  the cause of the exception is handled, do_schedule is next   *)
(*   "scan"   in fcfs_schedule, with scheduler_locked                      *)
(*   "idle"   the wfe loop that follows do_schedule, interrupts enabled    *)
(*   "panic"  in cpu_hlt                                                   *)
(* An exception handler runs with interrupts masked and never returns, so  *)
(* a CPU leaves "timer", "sched" and "scan" by its own steps only.  Steps  *)
(* of the other CPUs interleave between them, and between the flags that   *)
(* fcfs_scheduler_add raises and the link it makes.                        *)
(***************************************************************************)
EXTENDS Naturals, Sequences

CONSTANTS
  Cpus,         \* physical CPUs whose scheduler is fcfs (phys_cpu_setting.c)
  Primary,      \* the CPU that runs start_primary
  Vcpus,        \* the vcpus that init_vm_create makes, one for each VM
  MaxPriority,  \* MAX_PRIORITY: 0 is the most urgent level
  priority,     \* vm->priority of each vcpu
  ClockWriters, \* the guests that write to the core timer's registers
  LogEnds,      \* whether LOG_NUM_MAX, the limit of the log, is ever reached
  None          \* the pointer NULL

Priorities == 0..MaxPriority

ASSUME CpuAssumption == Primary \in Cpus /\ None \notin Cpus
ASSUME VcpuAssumption == None \notin Vcpus
ASSUME PriorityAssumption ==
  MaxPriority \in Nat /\ priority \in [Vcpus -> Priorities]

(***************************************************************************)
(* A link and an unlink are one step each in this module.  Adds take no    *)
(* lock, so this is true of the code only where no two vcpus share a list  *)
(* or one CPU does everything: module FcfsQueue looks inside the list      *)
(* operations, proves it for these two cases and refutes it for others.    *)
(***************************************************************************)
OnePerPriority == \A v, w \in Vcpus : priority[v] = priority[w] => v = w

ASSUME ListAssumption == OnePerPriority \/ Cpus = {Primary}

VARIABLES
  state,    \* vcpu->state
  physCpu,  \* vcpu->phys_cpu
  armed,    \* the CPU whose timer table holds the vcpu's wake-up event
  ready,    \* ready_vcpu[]: the list of each priority level, in order
  current,  \* phys_cpu->current_vcpu
  last,     \* phys_cpu->last_vcpu
  needed,   \* phys_cpu->schedule_is_needed
  loaded,   \* the vcpu whose newest context is in the CPU's registers
  pc,       \* where each CPU is
  started,  \* primary_start_finished
  adding,   \* the vcpu that a CPU is adding to a list: flags first, then the link
  flagging, \* the CPUs whose flags it has not raised yet
  holder,   \* the CPU that holds scheduler_locked
  level,    \* i in the scan of fcfs_schedule, which one CPU makes at a time
  clock     \* the core timer counts, so that timer interrupts come

vcpuVars == <<state, physCpu, armed, ready>>
cpuVars  == <<current, last, needed, loaded, pc>>
addVars  == <<adding, flagging>>
lockVars == <<holder, level>>
vars     == <<vcpuVars, cpuVars, started, addVars, lockVars, clock>>

States == {"INIT", "RUN", "READY", "SLEEP"}
Places == {"boot", "wait", "guest", "timer", "sched", "scan", "idle", "panic"}

(***************************************************************************)
(* The CPUs an interrupt reaches.  _hyp_timer_core_start enables the       *)
(* hypervisor timer interrupt in the register of core 0 whichever CPU runs *)
(* it, a guest's write to any core's register lands in core 0's too, and   *)
(* GPU interrupts are routed to core 0.                                    *)
(***************************************************************************)
OtherCores == Cpus \ {Primary}

IrqCpus == {Primary}

Move(c, place) == pc' = [pc EXCEPT ![c] = place]

(***************************************************************************)
(* Registers.  loaded[c] = v says that the EL1 system and floating-point   *)
(* registers of c hold the newest context of v.  A change that the         *)
(* hypervisor makes in v's saved context alone leaves every copy in a CPU  *)
(* out of date.                                                            *)
(***************************************************************************)
SavedContextChanges(v) ==
  loaded' = [d \in Cpus |-> IF loaded[d] = v THEN None ELSE loaded[d]]

RestoreContext(c, v) ==
  loaded' = [d \in Cpus |-> IF d = c THEN v
                            ELSE IF loaded[d] = v THEN None ELSE loaded[d]]

-----------------------------------------------------------------------------
(* Scheduler lists (fcfs_schedule.c). *)

(* fcfs_scheduler_add, executed by c: a loop over schedule_is_needed of    *)
(* all CPUs, and the link after it.  No lock is held.                      *)
fcfs_scheduler_add(c, v) ==
  /\ adding'   = [adding EXCEPT ![c] = v]
  /\ flagging' = [flagging EXCEPT ![c] = Cpus]

RaiseFlag(c) ==
  /\ \E d \in flagging[c] :
       /\ needed'   = [needed EXCEPT ![d] = TRUE]
       /\ flagging' = [flagging EXCEPT ![c] = @ \ {d}]
  /\ UNCHANGED <<vcpuVars, current, last, loaded, pc, started, adding, lockVars, clock>>

Link(c) ==
  LET v == adding[c] IN
  /\ v # None
  /\ flagging[c] = {}
  /\ ready'  = [ready EXCEPT ![priority[v]] = Append(@, v)]
  /\ adding' = [adding EXCEPT ![c] = None]
  /\ UNCHANGED <<state, physCpu, armed, cpuVars, started, flagging, lockVars, clock>>

IsListed(v) == \E i \in DOMAIN ready[priority[v]] : ready[priority[v]][i] = v

Others(v) == LET Other(u) == u # v IN SelectSeq(ready[priority[v]], Other)

fcfs_scheduler_remove(v) ==
  IF IsListed(v)
    THEN /\ ready'  = [ready EXCEPT ![priority[v]] = Others(v)]
         /\ needed' = [c \in Cpus |-> TRUE]
    ELSE UNCHANGED <<ready, needed>>

ForgetToUnlink(p) == ready[p]

(* What fcfs_schedule leaves in the list when it takes the head. *)
TakeFrom(p) == Tail(ready[p])

NothingReady == \A p \in Priorities : ready[p] = <<>>

-----------------------------------------------------------------------------
(* Vcpu transitions (vcpu.c). *)

(* vcpu_ready on c, for a vcpu that is not ready yet: its callers see to   *)
(* that.                                                                   *)
vcpu_ready(c, v) ==
  /\ state'   = [state EXCEPT ![v] = "READY"]
  /\ current' = IF state[v] = "RUN" THEN [current EXCEPT ![physCpu[v]] = None]
                ELSE current
  /\ fcfs_scheduler_add(c, v)

(* vcpu_active after current_vcpu has been set: a running vcpu is left alone. *)
vcpu_active(v, c) ==
  IF state[v] = "RUN"
    THEN UNCHANGED <<state, physCpu>>
    ELSE /\ state'   = [state EXCEPT ![v] = "RUN"]
         /\ physCpu' = [physCpu EXCEPT ![v] = c]

(* vcpu_context_switch restores only when another vcpu ran before. *)
vcpu_context_switch(c, v) ==
  IF last[physCpu'[v]] = v THEN UNCHANGED loaded ELSE RestoreContext(c, v)

LeaveCpu(v) ==
  current' = [d \in Cpus |-> IF d = physCpu[v] /\ current[d] = v
                             THEN None ELSE current[d]]

OffWithoutLeaving(v) ==
  /\ state' = [state EXCEPT ![v] = "INIT"]
  /\ UNCHANGED <<current, ready, needed>>

(* vcpu_off does not ask for a new scheduling decision by itself. *)
vcpu_off(v) ==
  /\ LeaveCpu(v)
  /\ state' = [state EXCEPT ![v] = "INIT"]
  /\ IF state[v] = "READY" THEN fcfs_scheduler_remove(v)
                           ELSE UNCHANGED <<ready, needed>>

ArmSwapped(v, c) == armed' = [armed EXCEPT ![v] = v]

(* emulate_vtimer with the guest's timer enabled: one event in c's table. *)
ArmWakeUp(v, c) == armed' = [armed EXCEPT ![v] = c]

SleepWithoutState(v) ==
  /\ needed' = [needed EXCEPT ![physCpu[v]] = TRUE]
  /\ LeaveCpu(v)
  /\ UNCHANGED state

SleepWithoutLeaving(v) ==
  /\ needed' = [needed EXCEPT ![physCpu[v]] = TRUE]
  /\ state'  = [state EXCEPT ![v] = "SLEEP"]
  /\ UNCHANGED current

(* The rest of vcpu_sleep, for a running vcpu. *)
vcpu_sleep(v) ==
  /\ needed' = [needed EXCEPT ![physCpu[v]] = TRUE]
  /\ LeaveCpu(v)
  /\ state'  = [state EXCEPT ![v] = "SLEEP"]

-----------------------------------------------------------------------------
(* Start-up (init.c, vm.c). *)

(* schedulers_init: nobody needs a decision before a vcpu is added. *)
NoneNeeded == [c \in Cpus |-> FALSE]

Init ==
  /\ state   = [v \in Vcpus |-> "INIT"]
  /\ physCpu = [v \in Vcpus |-> None]
  /\ armed   = [v \in Vcpus |-> None]
  /\ ready   = [p \in Priorities |-> <<>>]
  /\ current = [c \in Cpus |-> None]
  /\ last    = [c \in Cpus |-> None]
  /\ needed  = NoneNeeded
  /\ loaded  = [c \in Cpus |-> None]
  /\ pc      = [c \in Cpus |-> IF c = Primary THEN "boot" ELSE "wait"]
  /\ started = FALSE
  /\ adding   = [c \in Cpus |-> None]
  /\ flagging = [c \in Cpus |-> {}]
  /\ holder   = None
  /\ level    = 0
  /\ clock    = TRUE

(* vm_create, called by init_vm_create on the primary CPU. *)
CreateVm(v) ==
  /\ pc[Primary] = "boot" /\ adding[Primary] = None
  /\ state[v] = "INIT"
  /\ vcpu_ready(Primary, v)
  /\ UNCHANGED <<physCpu, armed, ready, last, needed, loaded, pc, started, lockVars, clock>>

(* start_primary lets the secondary CPUs go and heads for do_schedule. *)
StartPrimary ==
  /\ pc[Primary] = "boot" /\ adding[Primary] = None
  /\ \A v \in Vcpus : state[v] = "READY"
  /\ started' = TRUE
  /\ Move(Primary, "sched")
  /\ UNCHANGED <<vcpuVars, current, last, needed, loaded, addVars, lockVars, clock>>

StartSecondary(c) ==
  /\ pc[c] = "wait"
  /\ started
  /\ Move(c, "sched")
  /\ UNCHANGED <<vcpuVars, current, last, needed, loaded, started, addVars, lockVars, clock>>

-----------------------------------------------------------------------------
(* Exceptions taken from a guest (interrupt.c).  Every entry saves the     *)
(* guest's registers and remembers the interrupted vcpu.                   *)

Enter(c) == last' = [last EXCEPT ![c] = current[c]]

(* A trap or an interrupt of the running guest's own: an emulated device   *)
(* access, a hypervisor call, a virtual SError, an irq passed on to it.    *)
(* A write to the control register or the prescaler of the core timer      *)
(* reaches the hardware as it is, and may stop the counter of all CPUs or  *)
(* let it go on.                                                           *)
Trap(c) ==
  /\ pc[c] = "guest"
  /\ Enter(c)
  /\ Move(c, "sched")
  /\ clock' \in IF current[c] \in ClockWriters THEN BOOLEAN ELSE {clock}
  /\ UNCHANGED <<vcpuVars, current, needed, loaded, started, addVars, lockVars>>

(* A security call that passes hyp_security_check_fast: the guest goes on  *)
(* from the vector, and not even last_vcpu is written.                     *)
SecurityTrap(c) ==
  /\ pc[c] = "guest"
  /\ UNCHANGED vars

(* An instruction abort, an irq that is gone when it is looked up, or the  *)
(* limit of the log at the first message of a handler.                     *)
GuestPanic(c) ==
  /\ pc[c] = "guest"
  /\ Enter(c)
  /\ Move(c, "panic")
  /\ UNCHANGED <<vcpuVars, current, needed, loaded, started, addVars, lockVars, clock>>

(* WFI or WFE: the saved pc alone is advanced, then vcpu_sleep runs.       *)
(* Without a running virtual timer no event will wake the vcpu.            *)
Wfi(c) ==
  LET v == current[c] IN
  /\ pc[c] = "guest"
  /\ Enter(c)
  /\ SavedContextChanges(v)
  /\ IF state[v] # "RUN"
       THEN /\ Move(c, "panic")
            /\ UNCHANGED <<vcpuVars, current, needed>>
       ELSE /\ \E timerOn \in BOOLEAN :
                 IF timerOn THEN ArmWakeUp(v, c) ELSE UNCHANGED armed
            /\ vcpu_sleep(v)
            /\ Move(c, "sched")
            /\ UNCHANGED <<physCpu, ready>>
  /\ UNCHANGED <<started, addVars, lockVars, clock>>

(* HYP_CALL_FORCE_SHUTDOWN, or a security error found in EL1. *)
Shutdown(c) ==
  /\ pc[c] = "guest"
  /\ Enter(c)
  /\ vcpu_off(current[c])
  /\ Move(c, "sched")
  /\ UNCHANGED <<physCpu, armed, loaded, started, addVars, lockVars, clock>>

-----------------------------------------------------------------------------
(* Interrupts. *)

EnterGuestOnly(c) ==
  last' = IF pc[c] = "guest" THEN [last EXCEPT ![c] = current[c]] ELSE last

EnterIrq(c) == Enter(c)

(* The hypervisor timer, from a guest or from the idle loop. *)
Tick(c) ==
  /\ c \in IrqCpus
  /\ clock
  /\ pc[c] \in {"guest", "idle"}
  /\ EnterIrq(c)
  /\ Move(c, "timer")
  /\ UNCHANGED <<vcpuVars, current, needed, loaded, started, addVars, lockVars, clock>>

(* hyp_error_interrupt_handler: whatever the fault of the hypervisor was,  *)
(* its CPU stops in hyp_panic or in cpu_hlt.                               *)
HypFault(c) == Move(c, "panic")

(* A device interrupt in the idle loop: virt_intr_handler dereferences the *)
(* NULL last_vcpu.                                                         *)
IdleDeviceIrq(c) ==
  /\ c \in IrqCpus
  /\ pc[c] = "idle"
  /\ EnterIrq(c)
  /\ HypFault(c)
  /\ UNCHANGED <<vcpuVars, current, needed, loaded, started, addVars, lockVars, clock>>

EventStays(v) == UNCHANGED armed

EventDone(v) == armed' = [armed EXCEPT ![v] = None]

(* One due event: emulate_vtimer_handler writes to the saved context, then *)
(* vcpu_do_virq makes a sleeping vcpu ready.                               *)
TimerEvent(c, v) ==
  /\ pc[c] = "timer" /\ adding[c] = None
  /\ armed[v] = c
  /\ EventDone(v)
  /\ SavedContextChanges(v)
  /\ IF state[v] = "SLEEP" THEN vcpu_ready(c, v)
                           ELSE UNCHANGED <<state, current, addVars>>
  /\ UNCHANGED <<physCpu, ready, last, needed, pc, started, lockVars, clock>>

TimerDone(c) ==
  /\ pc[c] = "timer" /\ adding[c] = None
  /\ Move(c, "sched")
  /\ UNCHANGED <<vcpuVars, current, last, needed, loaded, started, addVars, lockVars, clock>>

(* Every handler and every callback logs, and the log panics at its        *)
(* LOG_NUM_MAX-th message.  No message comes inside fcfs_scheduler_add.    *)
LogPanic(c) ==
  /\ LogEnds
  /\ pc[c] \in {"timer", "sched"} /\ adding[c] = None
  /\ Move(c, "panic")
  /\ UNCHANGED <<vcpuVars, current, last, needed, loaded, started, addVars, lockVars, clock>>

-----------------------------------------------------------------------------
(* do_schedule under scheduler_locked, and the way out of the hypervisor. *)

ClearEveryFlag(c) == NoneNeeded

ClearFlag(c) == [needed EXCEPT ![c] = FALSE]

(* The lock, the test of do_schedule, and the flag that fcfs_schedule      *)
(* clears before it looks at a list.                                       *)
StartScan(c) ==
  /\ pc[c] = "sched" /\ holder = None
  /\ needed[c]
  /\ needed' = ClearFlag(c)
  /\ holder' = c
  /\ level'  = 0
  /\ Move(c, "scan")
  /\ UNCHANGED <<vcpuVars, current, last, loaded, started, addVars, clock>>

NextLevel(c) ==
  /\ pc[c] = "scan"
  /\ ready[level] = <<>>
  /\ level < MaxPriority
  /\ level' = level + 1
  /\ UNCHANGED <<vcpuVars, cpuVars, started, addVars, holder, clock>>

(* fcfs_schedule replaces current_vcpu, whatever it was.                   *)
Take(c) ==
  LET v == Head(ready[level]) IN
  /\ pc[c] = "scan"
  /\ ready[level] # <<>>
  /\ ready'   = [ready EXCEPT ![level] = TakeFrom(level)]
  /\ current' = [current EXCEPT ![c] = v]
  /\ vcpu_active(v, c)
  /\ UNCHANGED <<armed, last, needed, started, addVars, clock>>

(* spin_unlock; the loop variable is gone. *)
Unlock == holder' = None /\ level' = 0

(* From the take to the guest nobody else can touch the vcpu or read what  *)
(* changes, so this is one step.                                           *)
ScheduleNext(c) ==
  /\ Take(c)
  /\ Unlock
  /\ vcpu_context_switch(c, Head(ready[level]))
  /\ Move(c, "guest")

(* No level had a vcpu, or do_schedule was not asked for a decision. *)
NothingFound(c) == pc[c] = "scan" /\ level = MaxPriority /\ ready[level] = <<>>

NotAsked(c) == pc[c] = "sched" /\ holder = None /\ ~needed[c]

NoNewVcpu(c) ==
  /\ NothingFound(c) \/ NotAsked(c)
  /\ UNCHANGED <<armed, ready, current, last, needed, started, addVars, clock>>

Resume(c) ==
  /\ NoNewVcpu(c)
  /\ current[c] # None
  /\ IF pc[c] = "scan" THEN vcpu_active(current[c], c)
                       ELSE UNCHANGED <<state, physCpu>>
  /\ Unlock
  /\ vcpu_context_switch(c, current[c])
  /\ Move(c, "guest")

GoIdle(c) ==
  /\ NoNewVcpu(c)
  /\ current[c] = None
  /\ Unlock
  /\ Move(c, "idle")
  /\ UNCHANGED <<state, physCpu, loaded>>

(* vcpu_active logs with scheduler_locked held, and vcpu_context_switch    *)
(* without it.  A panic with the lock leaves it taken: the other CPUs wait *)
(* for it for ever.                                                        *)
PanicInSwitch(c) ==
  /\ LogEnds
  /\ \/ Take(c)
     \/ /\ NothingFound(c) /\ current[c] # None
        /\ vcpu_active(current[c], c)
        /\ UNCHANGED <<armed, ready, current, last, needed, started, addVars, clock>>
  /\ UNCHANGED lockVars \/ Unlock
  /\ Move(c, "panic")
  /\ UNCHANGED loaded

do_schedule(c) ==
  StartScan(c) \/ NextLevel(c) \/ ScheduleNext(c) \/ Resume(c) \/ GoIdle(c)

-----------------------------------------------------------------------------
Guest(c) ==
  Trap(c) \/ SecurityTrap(c) \/ GuestPanic(c) \/ Wfi(c) \/ Shutdown(c)

Interrupt(c) == Tick(c) \/ IdleDeviceIrq(c)

Timer(c) == TimerDone(c) \/ \E v \in Vcpus : TimerEvent(c, v)

Add(c) == RaiseFlag(c) \/ Link(c)

Next ==
  \/ \E v \in Vcpus : CreateVm(v)
  \/ StartPrimary
  \/ \E c \in Cpus : \/ StartSecondary(c)
                     \/ Guest(c)
                     \/ Interrupt(c)
                     \/ Timer(c)
                     \/ Add(c)
                     \/ do_schedule(c)
                     \/ LogPanic(c) \/ PanicInSwitch(c)

Spec == Init /\ [][Next]_vars

(***************************************************************************)
(* Fairness.  Hypervisor code runs on while its CPU does, except that it   *)
(* may wait for the lock: the spin lock owes nothing to a CPU that finds   *)
(* it taken again and again.  While the clock counts, a pending timer      *)
(* interrupt is taken as soon as the CPU leaves the hypervisor, and the    *)
(* CPU-usage event that start_primary arms keeps the primary's timer       *)
(* running; every tick brings each event closer to being due (HypTimer),   *)
(* so an event cannot be passed over for ever.  Guests owe nothing, and    *)
(* nothing keeps them from stopping the clock.                             *)
(***************************************************************************)
Fairness ==
  /\ \A v \in Vcpus : WF_vars(CreateVm(v))
  /\ WF_vars(StartPrimary)
  /\ \A c \in Cpus : /\ WF_vars(StartSecondary(c))
                     /\ WF_vars(Add(c))
                     /\ WF_vars(TimerDone(c))
                     /\ WF_vars(do_schedule(c))
                     /\ SF_vars(Tick(c))
                     /\ \A v \in Vcpus : SF_vars(TimerEvent(c, v))

FairSpec == Spec /\ Fairness
-----------------------------------------------------------------------------
(* Properties. *)

(* Every variable holds a value of its C type. *)
TypeOK ==
  /\ state   \in [Vcpus -> States]
  /\ physCpu \in [Vcpus -> Cpus \cup {None}]
  /\ armed   \in [Vcpus -> Cpus \cup {None}]
  /\ ready   \in [Priorities -> Seq(Vcpus)]
  /\ current \in [Cpus -> Vcpus \cup {None}]
  /\ last    \in [Cpus -> Vcpus \cup {None}]
  /\ needed  \in [Cpus -> BOOLEAN]
  /\ loaded  \in [Cpus -> Vcpus \cup {None}]
  /\ pc      \in [Cpus -> Places]
  /\ started \in BOOLEAN
  /\ adding   \in [Cpus -> Vcpus \cup {None}]
  /\ flagging \in [Cpus -> SUBSET Cpus]
  /\ holder   \in Cpus \cup {None}
  /\ level    \in Priorities
  /\ clock    \in BOOLEAN

(* The lists of fcfs_schedule.c and vcpu->state tell the same story: what  *)
(* is listed is READY and at its own priority, nothing is listed twice,    *)
(* and every READY vcpu is listed or on its way into its list by one CPU.  *)
ListedAreReady ==
  \A p \in Priorities : \A i \in 1..Len(ready[p]) :
    state[ready[p][i]] = "READY" /\ priority[ready[p][i]] = p
ListedOnce ==
  \A p \in Priorities : \A i, j \in 1..Len(ready[p]) :
    ready[p][i] = ready[p][j] => i = j
ReadyAreListed ==
  \A v \in Vcpus : state[v] = "READY" =>
    \/ \E i \in 1..Len(ready[priority[v]]) : ready[priority[v]][i] = v
    \/ \E c \in Cpus : adding[c] = v
AddedOnce ==
  \A c \in Cpus : adding[c] # None =>
    /\ state[adding[c]] = "READY"
    /\ \A d \in Cpus : adding[d] = adding[c] => d = c
    /\ \A p \in Priorities : \A i \in 1..Len(ready[p]) : ready[p][i] # adding[c]
QueueMatchesState == ListedAreReady /\ ListedOnce /\ ReadyAreListed /\ AddedOnce

(* No two CPUs execute one vcpu: current_vcpu of a CPU is a running vcpu   *)
(* whose phys_cpu points back.  A CPU in a guest has such a vcpu, so none  *)
(* of the assertions of vcpu_sleep and vcpu_active can fire.               *)
RunnerIsUnique ==
  /\ \A c \in Cpus : current[c] # None =>
       state[current[c]] = "RUN" /\ physCpu[current[c]] = c
  /\ \A c \in Cpus : pc[c] = "guest" => current[c] # None

(* vcpu_context_switch skips the restore when last_vcpu is the vcpu to     *)
(* run.  The guest still always resumes from its newest context, the pc    *)
(* that WFI advanced and the timer status its wake-up set included.        *)
FreshResume == \A c \in Cpus : pc[c] = "guest" => loaded[c] = current[c]

(* A wake-up event never outlives the sleep that armed it, and it sits in  *)
(* the table of the CPU the vcpu went to sleep on (emulate_vtimer).        *)
TimerMatchesSleep ==
  \A v \in Vcpus : armed[v] # None =>
    state[v] = "SLEEP" /\ physCpu[v] = armed[v]

(* Once the machine runs, a vcpu that vm_force_shutdown switched off never *)
(* becomes ready or runs again, whatever events were on their way to it.   *)
ShutdownIsFinal ==
  [][\A v \in Vcpus : started /\ state[v] = "INIT" => state'[v] = "INIT"]_vars

(* A CPU that is on its way to a decision of its own: its flag is raised,  *)
(* or it is the one that raises the flags.                                 *)
WillDecide(d) ==
  /\ pc[d] \in {"boot", "timer", "sched"}
  /\ needed[d] \/ d \in flagging[d]

(* "Fixed-priority": a CPU turns to a vcpu past a more urgent one only if  *)
(* another CPU added that one during the scan, and then that CPU decides   *)
(* next, unless it has stopped in a panic.                                 *)
MostUrgentFirst ==
  [][\A c \in Cpus : \A v, u \in Vcpus :
       /\ current[c] # v
       /\ current'[c] = v
       /\ state[u] = "READY"
       /\ priority[u] < priority[v]
       => \E d \in Cpus \ {c} : WillDecide(d) \/ pc[d] = "panic"]_vars

(* A vcpu that runs is the current_vcpu of its CPU: nobody took the CPU    *)
(* from it without putting it back into a list.                            *)
NoVcpuLost ==
  \A v \in Vcpus : state[v] = "RUN" => current[physCpu[v]] = v

(* A vcpu that went to sleep on the primary CPU with its virtual timer     *)
(* enabled runs again, unless a CPU has stopped in a panic, perhaps with   *)
(* scheduler_locked, or a guest has stopped the clock.                     *)
SleeperRunsAgain ==
  \A v \in Vcpus :
    (state[v] = "SLEEP" /\ armed[v] = Primary)
      ~> (state[v] = "RUN" \/ ~clock \/ \E c \in Cpus : pc[c] = "panic")

(* The flags are raised before the link, so a CPU may clear its flag, find *)
(* nothing and idle past the vcpu.  This never leaves a READY vcpu without *)
(* a CPU that will come to its list, unless one has stopped in a panic.    *)
WorkIsAwaited ==
  \A v \in Vcpus : state[v] = "READY" =>
    \E c \in Cpus : \/ WillDecide(c)
                    \/ (pc[c] = "scan" /\ level <= priority[v])
                    \/ pc[c] = "panic"

(* A CPU goes idle only "if there is not a vcpu to do in this cpu"         *)
(* (init.c): no READY vcpu waits in a list at that moment.                 *)
IdleOnlyWithoutWork ==
  [][\A c \in Cpus : pc[c] # "idle" /\ pc'[c] = "idle" => NothingReady]_vars

(* What a virtual timer promises, wherever the vcpu went to sleep. *)
EverySleeperRunsAgain ==
  \A v \in Vcpus :
    (state[v] = "SLEEP" /\ armed[v] # None)
      ~> (state[v] = "RUN" \/ \E c \in Cpus : pc[c] = "panic")
-----------------------------------------------------------------------------
(* The inductive invariant behind the safety properties. *)

(* Secondary CPUs wait until the primary releases them; a CPU that has not *)
(* scheduled yet has no vcpu and has interrupted none.                     *)
BootOrder ==
  /\ started <=> pc[Primary] # "boot"
  /\ \A c \in Cpus : adding[c] # None => pc[c] \in {"boot", "timer"}
  /\ \A c \in Cpus : /\ pc[c] = "boot" => c = Primary
                     /\ c # Primary /\ ~started => pc[c] = "wait"
                     /\ pc[c] \in {"boot", "wait", "idle"} => current[c] = None
                     /\ pc[c] \in {"boot", "wait"} => last[c] = None

(* The registers of a CPU hold the newest context of its current_vcpu,     *)
(* during the handling of an exception too.                                *)
LoadedIsCurrent ==
  \A c \in Cpus : current[c] # None /\ pc[c] # "panic" => loaded[c] = current[c]

(* While an exception is handled, the interrupted vcpu is not READY: it    *)
(* still belongs to this CPU, or it was switched off, or it has gone to    *)
(* sleep and only this CPU can wake it.  So do_schedule cannot pick it up  *)
(* and take its stale registers for current.                               *)
InterruptedStaysPut ==
  \A c \in Cpus : pc[c] \in {"timer", "sched", "scan"} /\ last[c] # None =>
    \/ state[last[c]] = "INIT"
    \/ state[last[c]] = "RUN" /\ physCpu[last[c]] = c
    \/ /\ state[last[c]] = "SLEEP"
       /\ pc[c] \in {"sched", "scan"}
       /\ armed[last[c]] \in {None, c}

(* One CPU scans at a time, the one that holds the lock; it keeps the lock *)
(* for ever if it panics there.                                            *)
OneScan ==
  /\ \A c \in Cpus : pc[c] = "scan" => holder = c
  /\ holder # None => pc[holder] \in {"scan", "panic"}

IInv ==
  /\ TypeOK
  /\ QueueMatchesState
  /\ RunnerIsUnique
  /\ TimerMatchesSleep
  /\ BootOrder
  /\ LoadedIsCurrent
  /\ InterruptedStaysPut
  /\ OneScan

(* Who adds a vcpu is going to decide; so is whoever let the scan miss it. *)
AddersDecide ==
  \A c \in Cpus : /\ adding[c] # None => WillDecide(c)
                  /\ adding[c] = None => flagging[c] = {}
PassedIsAwaited ==
  \A c \in Cpus : \A u \in Vcpus :
    pc[c] = "scan" /\ state[u] = "READY" /\ priority[u] < level =>
      \E d \in Cpus \ {c} : WillDecide(d) \/ pc[d] = "panic"
DecisionInv == AddersDecide /\ PassedIsAwaited
==============================================================================
