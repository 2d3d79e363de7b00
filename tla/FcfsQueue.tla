----------------------------- MODULE FcfsQueue -----------------------------
(***************************************************************************)
(* The ready lists of fcfs_schedule.c at the level of their pointers.      *)
(* do_schedule holds scheduler_locked while it takes a vcpu; the functions *)
(* that add and remove one do not.  Every step is one access to memory     *)
(* that another CPU shares, in program order, under sequential             *)
(* consistency.                                                            *)
(***************************************************************************)
EXTENDS Naturals, Sequences, FiniteSets

CONSTANTS
  Cpus,         \* the CPUs of fcfs_scheduler.phys_cpu[]
  Adders,       \* those that reach vcpu_ready (they take interrupts)
  Removers,     \* those that reach vcpu_off with a READY vcpu
  Vcpus,
  MaxPriority,  \* MAX_PRIORITY
  priority,     \* vm->priority of each vcpu
  None          \* the pointer NULL

Priorities == 0..MaxPriority

ASSUME QueueAssumption ==
  /\ Adders \subseteq Cpus /\ Removers \subseteq Cpus
  /\ None \notin Cpus \cup Vcpus
  /\ IsFiniteSet(Vcpus)
  /\ MaxPriority \in Nat /\ priority \in [Vcpus -> Priorities]

VARIABLES
  head, tail,  \* ready_vcpu[]
  next,        \* vcpu->next
  status,      \* vcpu->state, as far as the lists are concerned
  needed,      \* phys_cpu->schedule_is_needed
  holder,      \* the CPU that holds scheduler_locked
  pc,          \* where each CPU is in the functions of the scheduler
  who,         \* the vcpu it adds or takes
  level,       \* i, the priority that fcfs_schedule looks at
  succ         \* head->next as fcfs_schedule read it

listVars == <<head, tail, next>>
cpuVars  == <<pc, who, level, succ>>
vars     == <<listVars, status, needed, holder, cpuVars>>

Places == {"out", "test", "first", "append", "tail", "end", "scan", "take", "unlink", "clear"}

Goto(c, place) == pc' = [pc EXCEPT ![c] = place]

-----------------------------------------------------------------------------
(* The list of a priority, as a reader of the pointers sees it. *)

Pointer(p) ==
  LET at[n \in 0..Cardinality(Vcpus)] ==
        IF n = 0 THEN head[p]
        ELSE IF at[n - 1] = None THEN None ELSE next[at[n - 1]]
  IN  at

Length(p) == Cardinality({n \in 0..(Cardinality(Vcpus) - 1) : Pointer(p)[n] # None})

List(p) == [n \in 1..Length(p) |-> Pointer(p)[n - 1]]

IsListed(v) == \E i \in DOMAIN List(priority[v]) : List(priority[v])[i] = v

-----------------------------------------------------------------------------
ZeroedList == 0

(* fcfs_scheduler_init.  NULL is not zero in this code (typedef.h), so it  *)
(* is not what the linker script leaves in ready_vcpu[].                   *)
EmptyList == None

Init ==
  /\ head   = [p \in Priorities |-> EmptyList]
  /\ tail   = [p \in Priorities |-> EmptyList]
  /\ next   = [v \in Vcpus |-> None]
  /\ status = [v \in Vcpus |-> "out"]
  /\ needed = [c \in Cpus |-> FALSE]
  /\ holder = None
  /\ pc     = [c \in Cpus |-> "out"]
  /\ who    = [c \in Cpus |-> None]
  /\ level  = [c \in Cpus |-> 0]
  /\ succ   = [c \in Cpus |-> None]

(* vcpu_ready, up to the flags that fcfs_scheduler_add sets first. *)
AddStart(c, v) ==
  /\ c \in Adders
  /\ pc[c] = "out"
  /\ status[v] = "out"
  /\ status' = [status EXCEPT ![v] = "ready"]
  /\ needed' = [d \in Cpus |-> TRUE]
  /\ who'    = [who EXCEPT ![c] = v]
  /\ Goto(c, "test")
  /\ UNCHANGED <<listVars, holder, level, succ>>

TestsTail(p) == tail[p] = None

LooksEmpty(p) == head[p] = None

AddTest(c) ==
  /\ pc[c] = "test"
  /\ Goto(c, IF LooksEmpty(priority[who[c]]) THEN "first" ELSE "append")
  /\ UNCHANGED <<listVars, status, needed, holder, who, level, succ>>

AddFirst(c) ==
  /\ pc[c] = "first"
  /\ head' = [head EXCEPT ![priority[who[c]]] = who[c]]
  /\ Goto(c, "tail")
  /\ UNCHANGED <<tail, next, status, needed, holder, who, level, succ>>

AddAppend(c) ==
  /\ pc[c] = "append"
  /\ next' = [next EXCEPT ![tail[priority[who[c]]]] = who[c]]
  /\ Goto(c, "tail")
  /\ UNCHANGED <<head, tail, status, needed, holder, who, level, succ>>

AddTail(c) ==
  /\ pc[c] = "tail"
  /\ tail' = [tail EXCEPT ![priority[who[c]]] = who[c]]
  /\ Goto(c, "end")
  /\ UNCHANGED <<head, next, status, needed, holder, who, level, succ>>

AddEnd(c) ==
  /\ pc[c] = "end"
  /\ next' = [next EXCEPT ![who[c]] = None]
  /\ who'  = [who EXCEPT ![c] = None]
  /\ Goto(c, "out")
  /\ UNCHANGED <<head, tail, status, needed, holder, level, succ>>

-----------------------------------------------------------------------------
LockFree == holder = None

(* fcfs_schedule clears its flag. *)
EnterSchedule(c) ==
  /\ pc[c] = "out"
  /\ needed[c]
  /\ holder' = c
  /\ needed' = [needed EXCEPT ![c] = FALSE]
  /\ level'  = [level EXCEPT ![c] = 0]
  /\ Goto(c, "scan")
  /\ UNCHANGED <<listVars, status, who, succ>>

(* do_schedule takes the lock first; LockedQueue shows how. *)
TakeLock(c) == LockFree /\ EnterSchedule(c)

ScanLevel(c) ==
  /\ pc[c] = "scan"
  /\ level[c] <= MaxPriority
  /\ IF head[level[c]] # None
       THEN /\ Goto(c, "take")
            /\ UNCHANGED level
       ELSE /\ level' = [level EXCEPT ![c] = @ + 1]
            /\ UNCHANGED pc
  /\ UNCHANGED <<listVars, status, needed, holder, who, succ>>

ScanFails(c) ==
  /\ pc[c] = "scan"
  /\ level[c] > MaxPriority
  /\ holder' = None
  /\ Goto(c, "out")
  /\ UNCHANGED <<listVars, status, needed, who, level, succ>>

(* current_vcpu = head, and head->next is read. *)
TakeHead(c) ==
  /\ pc[c] = "take"
  /\ who'  = [who EXCEPT ![c] = head[level[c]]]
  /\ succ' = [succ EXCEPT ![c] = next[head[level[c]]]]
  /\ Goto(c, "unlink")
  /\ UNCHANGED <<listVars, status, needed, holder, level>>

DropsTheRest(c) == None

NewHead(c) == succ[c]

TakeUnlink(c) ==
  /\ pc[c] = "unlink"
  /\ head' = [head EXCEPT ![level[c]] = NewHead(c)]
  /\ Goto(c, "clear")
  /\ UNCHANGED <<tail, next, status, needed, holder, who, level, succ>>

(* current_vcpu->next = NULL, vcpu_active, and the lock is dropped. *)
TakeEnd(c) ==
  /\ pc[c] = "clear"
  /\ next'   = [next EXCEPT ![who[c]] = None]
  /\ status' = [status EXCEPT ![who[c]] = "run"]
  /\ holder' = None
  /\ who'    = [who EXCEPT ![c] = None]
  /\ succ'   = [succ EXCEPT ![c] = None]
  /\ Goto(c, "out")
  /\ UNCHANGED <<head, tail, needed, level>>

(* The vcpu that was taken runs until it goes to sleep or is switched off. *)
Leave(v) ==
  /\ status[v] = "run"
  /\ status' = [status EXCEPT ![v] = "out"]
  /\ UNCHANGED <<listVars, needed, holder, cpuVars>>

-----------------------------------------------------------------------------
(* fcfs_scheduler_remove, as one step: vcpu_off calls it for a READY vcpu. *)

Before(v) == CHOOSE u \in Vcpus : IsListed(u) /\ next[u] = v

RemoveHead(v) ==
  /\ head[priority[v]] = v
  /\ head' = [head EXCEPT ![priority[v]] = next[v]]
  /\ tail' = IF tail[priority[v]] = v THEN [tail EXCEPT ![priority[v]] = None] ELSE tail
  /\ next' = [next EXCEPT ![v] = None]

TailStays(v) == tail[priority[v]]

TailWithout(v) ==
  IF tail[priority[v]] = v THEN Before(v) ELSE tail[priority[v]]

RemoveInside(v) ==
  /\ head[priority[v]] # v
  /\ next' = [next EXCEPT ![Before(v)] = next[v], ![v] = None]
  /\ tail' = [tail EXCEPT ![priority[v]] = TailWithout(v)]
  /\ UNCHANGED head

Remove(c, v) ==
  /\ c \in Removers
  /\ pc[c] = "out"
  /\ status[v] = "ready"
  /\ IsListed(v)
  /\ RemoveHead(v) \/ RemoveInside(v)
  /\ needed' = [d \in Cpus |-> TRUE]
  /\ status' = [status EXCEPT ![v] = "out"]
  /\ UNCHANGED <<holder, cpuVars>>

-----------------------------------------------------------------------------
Adding(c) == AddTest(c) \/ AddFirst(c) \/ AddAppend(c) \/ AddTail(c) \/ AddEnd(c)

Taking(c) ==
  \/ TakeLock(c) \/ ScanLevel(c) \/ ScanFails(c)
  \/ TakeHead(c) \/ TakeUnlink(c) \/ TakeEnd(c)

Next ==
  \/ \E c \in Cpus : \/ Adding(c)
                     \/ Taking(c)
                     \/ \E v \in Vcpus : AddStart(c, v) \/ Remove(c, v)
  \/ \E v \in Vcpus : Leave(v)

Spec == Init /\ [][Next]_vars
-----------------------------------------------------------------------------
(* Properties. *)

(* Every variable holds a value of its C type. *)
TypeOK ==
  /\ head   \in [Priorities -> Vcpus \cup {None}]
  /\ tail   \in [Priorities -> Vcpus \cup {None}]
  /\ next   \in [Vcpus -> Vcpus \cup {None}]
  /\ status \in [Vcpus -> {"out", "ready", "run"}]
  /\ needed \in [Cpus -> BOOLEAN]
  /\ holder \in Cpus \cup {None}
  /\ pc     \in [Cpus -> Places]
  /\ who    \in [Cpus -> Vcpus \cup {None}]
  /\ level  \in [Cpus -> 0..MaxPriority + 1]
  /\ succ   \in [Cpus -> Vcpus \cup {None}]

(* "Add vcpu to the tail of ready que": a READY vcpu that no CPU is busy   *)
(* adding or taking is in the list of its priority, so it will be found.   *)
ReadyIsReachable ==
  \A v \in Vcpus :
    status[v] = "ready" /\ (\A c \in Cpus : who[c] # v) => IsListed(v)

(* The vcpu that fcfs_schedule is about to make active is READY, and no    *)
(* other CPU takes the same one.                                           *)
TakenOnce ==
  \A c \in Cpus : pc[c] \in {"unlink", "clear"} =>
    /\ status[who[c]] = "ready"
    /\ \A d \in Cpus \ {c} : pc[d] \in {"unlink", "clear"} => who[d] # who[c]

(* Between operations, the tail of a list that is not empty is its last    *)
(* vcpu: the next one is added behind everyone.                            *)
TailIsLast ==
  \A p \in Priorities :
    head[p] # None /\ (\A c \in Cpus : pc[c] \in {"out", "scan", "take"})
      => tail[p] = List(p)[Len(List(p))]

(* The pointers implement the queues of ReadyQueue: a vcpu is added when   *)
(* it is linked, and taken when head moves on.                             *)
Queue == INSTANCE ReadyQueue WITH queue <- [p \in Priorities |-> List(p)]
ImplementsQueue == Queue!Spec
=============================================================================
