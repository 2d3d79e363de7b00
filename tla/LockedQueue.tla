---------------------------- MODULE LockedQueue ----------------------------
(***************************************************************************)
(* FcfsQueue under the spin lock of spinlock.c, instruction by             *)
(* instruction: the exclusive accesses to the lock word, and the interrupt *)
(* mask, which each lock of a CPU saves in the one field intr_state.  The  *)
(* locks are taken inside each other as the handlers, the timer, the log   *)
(* and the start-up code take them.                                        *)
(*                                                                         *)
(* todo[c] is what CPU c will do until it is back in a guest or in the     *)
(* idle loop.  Which guest runs on which CPU is left open, so a CPU may    *)
(* run any handler.                                                        *)
(***************************************************************************)
EXTENDS FcfsQueue

CONSTANT Primary

Locks == {"scheduler_locked", "hyp_timer_spinlock", "ser_locked"}

ASSUME LockedAssumption == Primary \in Cpus /\ None \notin Locks

VARIABLES
  word,        \* the lock words
  monitor,     \* the exclusive monitor: the word a CPU has reserved
  masked,      \* DAIF: interrupts are disabled
  intr_state,  \* phys_cpu->intr_state
  todo,
  primary_start_finished

lockVars   == <<word, monitor, masked, intr_state>>
lockedVars == <<vars, lockVars, todo, primary_start_finished>>

-----------------------------------------------------------------------------
(* What the functions do, as sequences of the steps below. *)

SpinLock(l)   == << <<"save">>, <<"load", l>>, <<"store", l>> >>
SpinUnlock(l) == << <<"unlock", l>> >>

puts == SpinLock("ser_locked") \o SpinUnlock("ser_locked")

(* printf and vprintf, which are one here, and the test of count. *)
log_vprintf == puts \o << <<"count">> >>

hyp_panic == puts \o << <<"halt">> >>

(* fcfs_schedule goes on with the log of vcpu_active. *)
do_schedule ==
  SpinLock("scheduler_locked") \o << <<"schedule">> >> \o SpinUnlock("scheduler_locked")

timer_event_add == SpinLock("hyp_timer_spinlock") \o SpinUnlock("hyp_timer_spinlock")

CallsWithLock(callback) ==
  SpinLock("hyp_timer_spinlock") \o log_vprintf \o callback
    \o SpinUnlock("hyp_timer_spinlock")

(* The callback of an event may add an event itself. *)
timer_event_intr(callback) ==
  SpinLock("hyp_timer_spinlock") \o log_vprintf \o SpinUnlock("hyp_timer_spinlock")
    \o callback \o timer_event_add

Callbacks == { << <<"add">> >>, timer_event_add }

vcpu_sleep == log_vprintf \o timer_event_add

Handlers ==
  {h \o do_schedule \o << <<"exit">> >> :
     h \in {timer_event_intr(cb) : cb \in Callbacks} \cup {vcpu_sleep, <<>>}}

start_primary ==
  log_vprintf \o << <<"add">> >> \o timer_event_add
    \o << <<"release">> >> \o do_schedule \o << <<"exit">> >>

start_secondary ==
  << <<"wait">> >> \o log_vprintf \o do_schedule \o << <<"exit">> >>

-----------------------------------------------------------------------------
Now(c, step) == todo[c] # <<>> /\ Head(todo[c]) = step

Done(c, more) == todo' = [todo EXCEPT ![c] = more \o Tail(@)]

LockedInit ==
  /\ Init
  /\ word       = [l \in Locks |-> FALSE]
  /\ monitor    = [c \in Cpus |-> None]
  /\ masked     = [c \in Cpus |-> c = Primary]
  /\ intr_state = [c \in Cpus |-> FALSE]
  /\ todo       = [c \in Cpus |-> IF c = Primary THEN start_primary ELSE start_secondary]
  /\ primary_start_finished = FALSE

SetMask(c, value) == masked' = [masked EXCEPT ![c] = value]

Save(c) ==
  /\ Now(c, <<"save">>)
  /\ intr_state' = [intr_state EXCEPT ![c] = masked[c]]
  /\ SetMask(c, TRUE)
  /\ Done(c, <<>>)
  /\ UNCHANGED <<vars, word, monitor, primary_start_finished>>

(* ldaxr, again while the word is set *)
Load(c, l) ==
  /\ Now(c, <<"load", l>>)
  /\ monitor' = [monitor EXCEPT ![c] = l]
  /\ IF word[l] THEN UNCHANGED todo ELSE Done(c, <<>>)
  /\ UNCHANGED <<vars, word, masked, intr_state, primary_start_finished>>

AlwaysStores(c, l) == TRUE

Reserved(c, l) == monitor[c] = l

(* A write to the word takes all reservations of it away. *)
Write(l, value) ==
  /\ word'    = [word EXCEPT ![l] = value]
  /\ monitor' = [d \in Cpus |-> IF monitor[d] = l THEN None ELSE monitor[d]]

(* stxr, which the processor may also let fail for reasons of its own *)
Store(c, l) ==
  /\ Now(c, <<"store", l>>)
  /\ \/ /\ Reserved(c, l)
        /\ Write(l, TRUE)
        /\ Done(c, <<>>)
     \/ /\ monitor' = [monitor EXCEPT ![c] = None]
        /\ Done(c, << <<"load", l>>, <<"store", l>> >>)
        /\ UNCHANGED word
  /\ UNCHANGED <<vars, masked, intr_state, primary_start_finished>>

EnablesInterrupts(c) == FALSE

RestoredMask(c) == intr_state[c]

Unlock(c, l) ==
  /\ Now(c, <<"unlock", l>>)
  /\ Write(l, FALSE)
  /\ SetMask(c, RestoredMask(c))
  /\ Done(c, <<>>)
  /\ UNCHANGED <<vars, intr_state, primary_start_finished>>

(* There are LOG_NUM_MAX logs; any may be the one too many. *)
Count(c) ==
  /\ Now(c, <<"count">>)
  /\ Done(c, <<>>) \/ Done(c, hyp_panic)
  /\ UNCHANGED <<vars, lockVars, primary_start_finished>>

(* cpu_hlt, with whatever the CPU holds *)
Halt(c) == Now(c, <<"halt">>) /\ UNCHANGED lockedVars

-----------------------------------------------------------------------------
(* vcpu_ready, or a wake-up for a vcpu that does not sleep. *)
Add(c) ==
  /\ Now(c, <<"add">>)
  /\ \/ \E v \in Vcpus : AddStart(c, v) /\ UNCHANGED todo
     \/ (AddTest(c) \/ AddFirst(c) \/ AddAppend(c) \/ AddTail(c)) /\ UNCHANGED todo
     \/ AddEnd(c) /\ Done(c, <<>>)
     \/ pc[c] = "out" /\ UNCHANGED vars /\ Done(c, <<>>)
  /\ UNCHANGED <<lockVars, primary_start_finished>>

Schedule(c) ==
  /\ Now(c, <<"schedule">>)
  /\ \/ pc[c] = "out" /\ ~needed[c] /\ UNCHANGED vars /\ Done(c, <<>>)
     \/ EnterSchedule(c) /\ UNCHANGED todo
     \/ (ScanLevel(c) \/ TakeHead(c) \/ TakeUnlink(c)) /\ UNCHANGED todo
     \/ ScanFails(c) /\ Done(c, <<>>)
     \/ TakeEnd(c) /\ Done(c, log_vprintf)
  /\ UNCHANGED <<lockVars, primary_start_finished>>

Release(c) ==
  /\ Now(c, <<"release">>)
  /\ primary_start_finished' = TRUE
  /\ Done(c, <<>>)
  /\ UNCHANGED <<vars, lockVars>>

(* The wait of start_secondary, with interrupts enabled, ends. *)
WaitEnds(c) ==
  /\ Now(c, <<"wait">>)
  /\ primary_start_finished
  /\ SetMask(c, TRUE)
  /\ Done(c, <<>>)
  /\ UNCHANGED <<vars, word, monitor, intr_state, primary_start_finished>>

(* eret to a guest, or INTR_ENABLE and the idle loop *)
Exit(c) ==
  /\ Now(c, <<"exit">>)
  /\ SetMask(c, FALSE)
  /\ Done(c, <<>>)
  /\ UNCHANGED <<vars, word, monitor, intr_state, primary_start_finished>>

(* An exception in a guest, or one that interrupts the hypervisor.  CPUs   *)
(* do not come back to what was interrupted there.                         *)
Exception(c) ==
  /\ primary_start_finished
  /\ ~masked[c]
  /\ \E handler \in Handlers : todo' = [todo EXCEPT ![c] = handler]
  /\ SetMask(c, TRUE)
  /\ UNCHANGED <<vars, word, monitor, intr_state, primary_start_finished>>

LockedNext ==
  \/ \E c \in Cpus :
       \/ Save(c) \/ Count(c) \/ Halt(c)
       \/ \E l \in Locks : Load(c, l) \/ Store(c, l) \/ Unlock(c, l)
       \/ Add(c) \/ Schedule(c)
       \/ Release(c) \/ WaitEnds(c) \/ Exit(c) \/ Exception(c)
  \/ \E v \in Vcpus : Leave(v) /\ UNCHANGED <<lockVars, todo, primary_start_finished>>

LockedSpec == LockedInit /\ [][LockedNext]_lockedVars
-----------------------------------------------------------------------------
(* Properties. *)

(* The exclusive accesses of spin_lock give do_schedule the lock that      *)
(* FcfsQueue assumes.                                                      *)
ImplementsFcfsQueue == Spec

(* A CPU is never interrupted between a handler's first and last step: no  *)
(* unlock enables interrupts, although a nested lock overwrites the mask   *)
(* that the outer one saved.                                               *)
HandlersRunMasked ==
  \A c \in Cpus : todo[c] # <<>> /\ ~Now(c, <<"wait">>) => masked[c]

(* c is to unlock l once more than it is to take it: each store of l       *)
(* before the unlock has an unlock of its own.                             *)
Holds(c, l) ==
  \E i \in DOMAIN todo[c] :
    /\ todo[c][i] = <<"unlock", l>>
    /\ \A j \in 1..(i - 1) : todo[c][j] = <<"store", l>> =>
         \E k \in (j + 1)..(i - 1) : todo[c][k] = <<"unlock", l>>

(* CPUs do not wait for each other or for themselves in a circle, even in  *)
(* a callback of the timer and in a panic: whoever holds a lock asks for   *)
(* ser_locked only, and its holder for none.                               *)
LocksAreOrdered ==
  \A c \in Cpus : \A held, wanted \in Locks :
    Holds(c, held) /\ Now(c, <<"load", wanted>>)
      => held # "ser_locked" /\ wanted = "ser_locked"
=============================================================================
