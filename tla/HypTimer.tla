------------------------------ MODULE HypTimer ------------------------------
(***************************************************************************)
(* The timer events of one physical CPU: its row of timer_event_table and  *)
(* timer_event_intr in hyp_timer.c, the CPU-usage event of pmu.c that arms *)
(* itself again from its own callback, and the wake-up events that         *)
(* emulate_vtimer arms for sleeping vcpus.                                 *)
(*                                                                         *)
(* A CPU adds to its own row only (get_current_phys_cpu, or the CPU that   *)
(* the callback was given), and timer_event_intr runs with interrupts      *)
(* masked; hyp_timer_spinlock orders CPUs that work on different rows.  So *)
(* one row and one CPU tell the whole story, and the lock is left out,     *)
(* except that it is not held during a callback: a callback may add.       *)
(*                                                                         *)
(* Time is what the core timer counts, and no time passes in the handler.  *)
(* The counter is shared by all CPUs, and core_ic_reg_write lets a guest   *)
(* stop it, scale it or set it.                                            *)
(***************************************************************************)
EXTENDS Integers, FiniteSets

CONSTANTS
  TimerEvents,  \* TIMER_EVENT_NUM: slots 0..TimerEvents-1
  Quantum,      \* DEFAULT_TIMER_MSEC, the time between two interrupts
  Period,       \* the msec of the CPU-usage event
  Sleeps,       \* msec values a sleeping guest's virtual timer may be away
  Vcpus,        \* vcpus that may go to sleep on this CPU
  Usage,        \* dump_cpu_usage_timer_event
  None          \* the pointer NULL

Slots  == 0..TimerEvents - 1
Events == Vcpus \cup {Usage}

ASSUME TimerAssumption ==
  /\ TimerEvents \in Nat \ {0} /\ Quantum \in Nat \ {0} /\ Period \in Nat \ {0}
  /\ Sleeps \subseteq Int /\ IsFiniteSet(Vcpus)
  /\ Usage \notin Vcpus /\ None \notin Events

VARIABLES
  used, msec, func,  \* the row of timer_event_table; func tells the event
  running,           \* hyp_tiemr_is_running, and the timer's enable bits
  tval,              \* CNTHP_TVAL_EL2: the msec left of the running quantum
  clean,             \* no guest has written to the core timer
  pc,                \* a place of the handler, "boot", or "out" of the handler,
                     \* or where hyp_panic has left the CPU: "panic", "halted"
  slot,              \* i in timer_event_intr
  asked, age, waited \* of each event: the msec it was added with, and the
                     \* interrupts and, while clean, the msec since (for the
                     \* properties only)

table   == <<used, msec, func>>
timer   == <<running, tval, clean>>
history == <<asked, age, waited>>
vars    == <<table, timer, pc, slot, history>>

Places == {"boot", "out", "visit", "call", "clear", "panic", "halted"}

Holds(e, i) == used[i] /\ func[i] = e

IsArmed(e) == \E i \in Slots : Holds(e, i)

-----------------------------------------------------------------------------
(* timer_event_add takes the first free slot. *)
FreeSlot(i) ==
  /\ i \in Slots
  /\ ~used[i]
  /\ \A j \in Slots : j < i => used[j]

(* _hyp_timer_core_start, for a timer that does not run yet. *)
StartTimer ==
  /\ running' = TRUE
  /\ tval' = IF running THEN tval ELSE Quantum
  /\ UNCHANGED clean

timer_event_add(e, m) ==
  /\ \E i \in Slots :
       /\ FreeSlot(i)
       /\ used' = [used EXCEPT ![i] = TRUE]
       /\ msec' = [msec EXCEPT ![i] = m]
       /\ func' = [func EXCEPT ![i] = e]
  /\ asked'  = [asked EXCEPT ![e] = m]
  /\ age'    = [age EXCEPT ![e] = 0]
  /\ waited' = [waited EXCEPT ![e] = 0]

Full == \A i \in Slots : used[i]

(* "Not found a free timer_event_t block" *)
AddOrPanic(e, m, place) ==
  /\ StartTimer
  /\ IF Full THEN /\ pc' = "panic"
                  /\ UNCHANGED <<table, history>>
             ELSE /\ timer_event_add(e, m)
                  /\ pc' = place

-----------------------------------------------------------------------------
(* timer_event_init *)
Init ==
  /\ used    = [i \in Slots |-> FALSE]
  /\ msec    = [i \in Slots |-> 0]
  /\ func    = [i \in Slots |-> None]
  /\ running = FALSE
  /\ tval    = Quantum
  /\ clean   = TRUE
  /\ pc      = "boot"
  /\ slot    = 0
  /\ asked   = [e \in Events |-> 0]
  /\ age     = [e \in Events |-> 0]
  /\ waited  = [e \in Events |-> 0]

(* start_primary calls dump_cpu_usage_start before any guest runs. *)
StartUsage ==
  /\ pc = "boot"
  /\ AddOrPanic(Usage, Period, "out")
  /\ UNCHANGED slot

(* A guest waits: vcpu_sleep, emulate_vtimer.  A vcpu that sleeps with an  *)
(* event armed cannot go to sleep again before the event (VcpuSched).      *)
Sleep(v) ==
  /\ pc = "out"
  /\ ~IsArmed(v)
  /\ \E m \in Sleeps : AddOrPanic(v, m, "out")
  /\ UNCHANGED slot

Older(f) == [e \in Events |-> IF IsArmed(e) THEN f[e] + 1 ELSE f[e]]

(* The core timer counts a millisecond. *)
TimePasses ==
  /\ pc = "out"
  /\ running /\ tval > 0
  /\ tval'   = tval - 1
  /\ waited' = IF clean THEN Older(waited) ELSE waited
  /\ UNCHANGED <<table, running, clean, pc, slot, asked, age>>

(* A guest, of this CPU or another, writes to CORE_TIMER_CONTROL,          *)
(* PRESCALER, LS or MS.  From then on the timer expires when the guest     *)
(* likes, if ever: nothing makes TimePasses happen.  (The handler does not *)
(* read the clock: a write during it is one right after it.)               *)
WriteClock ==
  /\ pc = "out"
  /\ clean'  = FALSE
  /\ tval'   \in 0..Quantum
  /\ waited' = [e \in Events |-> 0]
  /\ UNCHANGED <<table, running, pc, slot, asked, age>>

(* The hypervisor timer interrupt: hyp_timer_intr, timer_event_intr. *)
Interrupt ==
  /\ pc = "out"
  /\ running /\ tval = 0
  /\ pc'   = "visit"
  /\ slot' = 0
  /\ tval' = Quantum
  /\ age'  = Older(age)
  /\ UNCHANGED <<table, running, clean, asked, waited>>

(* The log is full: a message of hyp_timer_intr, timer_event_intr, a       *)
(* callback or code outside ends in hyp_panic, and the CPU in cpu_hlt.     *)
LogPanic ==
  /\ pc \in {"boot", "out", "visit", "call"}
  /\ pc' = "halted"
  /\ UNCHANGED <<table, timer, slot, history>>

DueTooSoon(m) == m <= Quantum

Due(m) == m <= 0

(* One slot of the first loop. *)
Visit ==
  /\ pc = "visit"
  /\ slot \in Slots
  /\ IF used[slot]
       THEN /\ msec' = [msec EXCEPT ![slot] = @ - Quantum]
            /\ IF Due(msec[slot] - Quantum)
                 THEN pc' = "call"  /\ UNCHANGED slot
                 ELSE pc' = "visit" /\ slot' = slot + 1
       ELSE /\ slot' = slot + 1
            /\ UNCHANGED <<msec, pc>>
  /\ UNCHANGED <<used, func, timer, history>>

(* tp.func, called without the lock.  dump_cpu_usage_timer_event adds its  *)
(* next event; emulate_vtimer_handler adds none.                           *)
Callback ==
  /\ pc = "call"
  /\ IF func[slot] = Usage
       THEN AddOrPanic(Usage, Period, "clear")
       ELSE /\ pc' = "clear"
            /\ UNCHANGED <<table, timer, history>>
  /\ UNCHANGED slot

ClearEvents(e) ==
  /\ used' = [i \in Slots |-> used[i] /\ func[i] # e]
  /\ msec' = [i \in Slots |-> IF func[i] = e THEN 0 ELSE msec[i]]
  /\ func' = [i \in Slots |-> IF func[i] = e THEN None ELSE func[i]]

ClearNothing(e) == UNCHANGED table

ClearToZero(e) ==
  /\ used' = [used EXCEPT ![slot] = FALSE]
  /\ msec' = [msec EXCEPT ![slot] = 0]
  /\ func' = [func EXCEPT ![slot] = 0]

ClearSlot(e) ==
  /\ used' = [used EXCEPT ![slot] = FALSE]
  /\ msec' = [msec EXCEPT ![slot] = 0]
  /\ func' = [func EXCEPT ![slot] = None]

Clear ==
  /\ pc = "clear"
  /\ ClearSlot(func[slot])
  /\ pc'   = "visit"
  /\ slot' = slot + 1
  /\ UNCHANGED <<timer, history>>

StopIfSlotFree == \E i \in Slots : ~used[i]

NoEventLeft == \A i \in Slots : ~used[i]

(* The second loop stops the timer when no event is left. *)
LeaveHandler ==
  /\ pc = "visit"
  /\ slot = TimerEvents
  /\ running' = IF NoEventLeft THEN FALSE ELSE running
  /\ pc'   = "out"
  /\ slot' = 0
  /\ UNCHANGED <<table, tval, clean, history>>

Handler == Visit \/ Callback \/ Clear \/ LeaveHandler

Next == \/ StartUsage \/ Interrupt \/ Handler \/ \E v \in Vcpus : Sleep(v)
        \/ TimePasses \/ WriteClock \/ LogPanic

Spec == Init /\ [][Next]_vars

(* The core timer counts until a guest has written to it, a timer that has *)
(* expired interrupts, and the handler goes on to its end, unless the log  *)
(* is full.  Guests need not sleep.                                        *)
FairSpec == /\ Spec
            /\ WF_vars(StartUsage) /\ WF_vars(Interrupt) /\ WF_vars(Handler)
            /\ WF_vars(clean /\ TimePasses)
-----------------------------------------------------------------------------
(* Properties. *)

(* Every variable holds a value of its C type. *)
TypeOK ==
  /\ used    \in [Slots -> BOOLEAN]
  /\ msec    \in [Slots -> Int]
  /\ func    \in [Slots -> Events \cup {None}]
  /\ running \in BOOLEAN
  /\ tval    \in 0..Quantum
  /\ clean   \in BOOLEAN
  /\ pc      \in Places
  /\ slot    \in 0..TimerEvents
  /\ asked   \in [Events -> Int]
  /\ age     \in [Events -> Nat]
  /\ waited  \in [Events -> Nat]

(* No event sits in two slots, except a periodic one between the callback  *)
(* that added it again and the moment its old slot is cleared.             *)
OneSlotEach ==
  \A e \in Events : \A i, j \in Slots :
    Holds(e, i) /\ Holds(e, j) /\ i # j =>
      e = Usage /\ pc = "clear" /\ slot \in {i, j}

(* timer_event_add never runs out of blocks: a slot for each vcpu and two  *)
(* for the event that adds itself again are enough.                        *)
NeverFull == Cardinality(Vcpus) + 2 <= TimerEvents => pc # "panic"

(* Whatever is added, removed or stopped, the timer runs while an event    *)
(* waits in the table.                                                     *)
TickingWhileArmed == (\E i \in Slots : used[i]) => running

(* A wake-up fires within one quantum of the time it was asked for, sooner *)
(* or later, and one whose time is up when it is added at the next         *)
(* interrupt.  (An event added inside a quantum loses the whole of it.)    *)
WakesInTime ==
  [][\A v \in Vcpus : clean /\ Callback /\ func[slot] = v =>
       /\ waited[v] + Quantum >= asked[v]
       /\ waited[v] < asked[v] + Quantum \/ waited[v] <= Quantum]_vars

(* The periodic event may be decremented in the pass that added it, so it  *)
(* may fire one interrupt early, but never more than one, and never late.  *)
UsageWithinOneTick ==
  [][Callback /\ func[slot] = Usage =>
       /\ (age[Usage] + 1) * Quantum >= asked[Usage]
       /\ (age[Usage] - 1) * Quantum < asked[Usage]]_vars

(* What the code cannot recover from: this CPU has met the limit of the    *)
(* log, or a guest has written to the core timer.                          *)
OutOfService == pc = "halted" \/ ~clean

(* A wake-up that was added fires, and its slot is free again, as long as  *)
(* the log has room and no guest writes to the core timer.                 *)
EveryWakeUpFires == \A v \in Vcpus : IsArmed(v) ~> ~IsArmed(v) \/ OutOfService

(* The CPU-usage report (pmu.c) comes again and again: it ends only when   *)
(* the log is full, as it will be in time, or with the clock.              *)
UsageGoesOn == []<>(OutOfService \/ (pc = "call" /\ func[slot] = Usage))
=============================================================================
