----------------------------- MODULE ReadyQueue -----------------------------
(***************************************************************************)
(* What the ready lists of the fcfs scheduler promise: one first-in        *)
(* first-out queue for each priority, emptied from the most urgent one.    *)
(***************************************************************************)
EXTENDS Naturals, Sequences

CONSTANTS Vcpus, MaxPriority, priority

Priorities == 0..MaxPriority

VARIABLE queue

IsQueued(v) == \E p \in Priorities : \E i \in DOMAIN queue[p] : queue[p][i] = v

Init == queue = [p \in Priorities |-> <<>>]

Add(v) ==
  /\ ~IsQueued(v)
  /\ queue' = [queue EXCEPT ![priority[v]] = Append(@, v)]

Take(p) ==
  /\ queue[p] # <<>>
  /\ \A q \in Priorities : q < p => queue[q] = <<>>
  /\ queue' = [queue EXCEPT ![p] = Tail(@)]

Without(s, i) == [j \in 1..(Len(s) - 1) |-> IF j < i THEN s[j] ELSE s[j + 1]]

Remove(p, i) ==
  /\ i \in DOMAIN queue[p]
  /\ queue' = [queue EXCEPT ![p] = Without(@, i)]

Next ==
  \/ \E v \in Vcpus : Add(v)
  \/ \E p \in Priorities : Take(p) \/ \E i \in DOMAIN queue[p] : Remove(p, i)

Spec == Init /\ [][Next]_queue
=============================================================================
