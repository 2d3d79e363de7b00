-------------------------- MODULE VcpuSched_proofs --------------------------
(***************************************************************************)
(* The safety properties of VcpuSched, proved for any number of physical   *)
(* and virtual CPUs and any priorities that meet its assumptions (of those *)
(* ListAssumption is what makes a link and an unlink one step each).  They *)
(* follow from the inductive invariant IInv: one lemma per operation of    *)
(* the scheduler's lists, one per action, then the theorems.               *)
(***************************************************************************)
EXTENDS VcpuSched, SequenceTheorems, TLAPS

USE CpuAssumption, VcpuAssumption, PriorityAssumption

-----------------------------------------------------------------------------
(* The lists. *)

(* Any step that leaves the lists alone and makes no vcpu READY or un-READY. *)
LEMMA QueueKeep ==
  ASSUME TypeOK, QueueMatchesState, ready' = ready, adding' = adding,
         \A v \in Vcpus : state'[v] = "READY" <=> state[v] = "READY"
  PROVE  QueueMatchesState'
<1>1. \A p \in Priorities : \A i \in 1..Len(ready[p]) : ready[p][i] \in Vcpus
  BY ElementOfSeq DEF TypeOK
<1>2. ListedAreReady' /\ ListedOnce' /\ ReadyAreListed'
  BY <1>1 DEF QueueMatchesState, ListedAreReady, ListedOnce, ReadyAreListed
<1>3. AddedOnce'
  BY DEF TypeOK, QueueMatchesState, AddedOnce
<1>. QED
  BY <1>2, <1>3 DEF QueueMatchesState

(* fcfs_scheduler_add begins for a vcpu that becomes READY. *)
LEMMA QueueAdd ==
  ASSUME TypeOK, QueueMatchesState, NEW c \in Cpus, NEW v \in Vcpus,
         state[v] # "READY", adding[c] = None,
         state' = [state EXCEPT ![v] = "READY"], ready' = ready,
         fcfs_scheduler_add(c, v)
  PROVE  QueueMatchesState'
<1> USE DEF QueueMatchesState
<1>1. \A p \in Priorities : \A i \in 1..Len(ready[p]) :
        ready[p][i] \in Vcpus /\ ready[p][i] # v
  BY ElementOfSeq DEF TypeOK, ListedAreReady
<1>2. \A d \in Cpus : adding[d] # v
  BY DEF AddedOnce
<1>3. \A d \in Cpus : adding'[d] = IF d = c THEN v ELSE adding[d]
  BY DEF TypeOK, fcfs_scheduler_add
<1>4. \A u \in Vcpus : state'[u] = IF u = v THEN "READY" ELSE state[u]
  BY DEF TypeOK
<1>5. ListedAreReady' /\ ListedOnce'
  BY <1>1, <1>4 DEF ListedAreReady, ListedOnce
<1>6. ReadyAreListed'
  <2> SUFFICES ASSUME NEW u \in Vcpus, state'[u] = "READY"
               PROVE  \/ \E i \in 1..Len(ready[priority[u]]) : ready[priority[u]][i] = u
                      \/ \E d \in Cpus : adding'[d] = u
    BY DEF ReadyAreListed
  <2>1. CASE u = v
    BY <2>1, <1>3
  <2>2. CASE u # v
    <3>1. state[u] = "READY"
      BY <2>2, <1>4
    <3>2. \A d \in Cpus : adding[d] = u => adding'[d] = u
      BY <1>3
    <3>. QED
      BY <3>1, <3>2 DEF ReadyAreListed
  <2>. QED
    BY <2>1, <2>2
<1>7. AddedOnce'
  <2> SUFFICES ASSUME NEW d \in Cpus, adding'[d] # None
               PROVE  /\ state'[adding'[d]] = "READY"
                      /\ \A e \in Cpus : adding'[e] = adding'[d] => e = d
                      /\ \A p \in Priorities : \A i \in 1..Len(ready[p]) :
                           ready[p][i] # adding'[d]
    BY DEF AddedOnce
  <2>1. CASE d = c
    BY <2>1, <1>1, <1>2, <1>3, <1>4
  <2>2. CASE d # c
    <3>1. adding'[d] = adding[d] /\ adding[d] \in Vcpus /\ adding[d] # v
      BY <2>2, <1>2, <1>3 DEF TypeOK
    <3>. QED
      BY <3>1, <1>3, <1>4 DEF AddedOnce
  <2>. QED
    BY <2>1, <2>2
<1>. QED
  BY <1>5, <1>6, <1>7

(* The end of fcfs_scheduler_add links the vcpu. *)
LEMMA QueueLink ==
  ASSUME TypeOK, QueueMatchesState, NEW c \in Cpus, Link(c)
  PROVE  QueueMatchesState' /\ ready' \in [Priorities -> Seq(Vcpus)]
<1> DEFINE v == adding[c]
           q == ready[priority[v]]
<1>1. /\ v \in Vcpus
      /\ priority[v] \in Priorities
      /\ q \in Seq(Vcpus)
      /\ ready' = [ready EXCEPT ![priority[v]] = Append(q, v)]
      /\ adding' = [adding EXCEPT ![c] = None]
      /\ state' = state
      /\ state[v] = "READY"
  BY DEF TypeOK, Link, QueueMatchesState, AddedOnce
<1>2. /\ Append(q, v) \in Seq(Vcpus)
      /\ Len(Append(q, v)) = Len(q) + 1
      /\ \A i \in 1..Len(q) : Append(q, v)[i] = q[i]
      /\ Append(q, v)[Len(q) + 1] = v
      /\ Len(q) \in Nat
  BY <1>1, AppendProperties, LenProperties
<1>3. \A p \in Priorities : \A i \in 1..Len(ready[p]) :
        ready[p][i] \in Vcpus /\ ready[p][i] # v
  BY <1>1, ElementOfSeq DEF TypeOK, QueueMatchesState, AddedOnce
<1>4. /\ ready'[priority[v]] = Append(q, v)
      /\ \A p \in Priorities : p # priority[v] => ready'[p] = ready[p]
  BY <1>1 DEF TypeOK
<1>9. /\ \A d \in Cpus : adding'[d] = IF d = c THEN None ELSE adding[d]
      /\ \A d \in Cpus : adding[d] = v => d = c
  BY <1>1 DEF TypeOK, QueueMatchesState, AddedOnce
<1> HIDE DEF q, v
<1>5. ListedAreReady'
  BY <1>1, <1>2, <1>3, <1>4 DEF ListedAreReady, QueueMatchesState, TypeOK, q
<1>6. ListedOnce'
  <2> SUFFICES ASSUME NEW p \in Priorities, NEW i \in 1..Len(ready'[p]),
                      NEW j \in 1..Len(ready'[p]), ready'[p][i] = ready'[p][j]
               PROVE  i = j
    BY DEF ListedOnce
  <2>1. CASE p # priority[v]
    BY <2>1, <1>4 DEF ListedOnce, QueueMatchesState
  <2>2. CASE p = priority[v]
    <3>1. /\ i \in 1..Len(q) \/ i = Len(q) + 1
          /\ j \in 1..Len(q) \/ j = Len(q) + 1
      BY <2>2, <1>2, <1>4
    <3>2. \A k \in 1..Len(q) : ready'[p][k] = q[k] /\ q[k] # v
      BY <2>2, <1>1, <1>2, <1>3, <1>4 DEF q
    <3>3. ready'[p][Len(q) + 1] = v
      BY <2>2, <1>2, <1>4
    <3>4. \A k, m \in 1..Len(q) : q[k] = q[m] => k = m
      BY <1>1 DEF ListedOnce, QueueMatchesState, q
    <3>. QED
      BY <3>1, <3>2, <3>3, <3>4
  <2>. QED
    BY <2>1, <2>2
<1>7. ReadyAreListed'
  <2> SUFFICES ASSUME NEW u \in Vcpus, state[u] = "READY"
               PROVE  \/ \E i \in 1..Len(ready'[priority[u]]) : ready'[priority[u]][i] = u
                      \/ \E d \in Cpus : adding'[d] = u
    BY <1>1 DEF ReadyAreListed
  <2>1. CASE u = v
    <3>1. Len(q) + 1 \in 1..Len(ready'[priority[u]]) /\ ready'[priority[u]][Len(q) + 1] = u
      BY <2>1, <1>2, <1>4
    <3>. QED
      BY <3>1
  <2>2. CASE u # v /\ \E d \in Cpus : adding[d] = u
    BY <2>2, <1>9 DEF v
  <2>3. CASE u # v /\ ~\E d \in Cpus : adding[d] = u
    <3>1. priority[u] \in Priorities
      OBVIOUS
    <3>2. PICK i \in 1..Len(ready[priority[u]]) : ready[priority[u]][i] = u
      BY <2>3 DEF ReadyAreListed, QueueMatchesState
    <3>3. i \in 1..Len(ready'[priority[u]]) /\ ready'[priority[u]][i] = u
      <4>1. CASE priority[u] = priority[v]
        BY <4>1, <3>2, <1>2, <1>4 DEF q
      <4>2. CASE priority[u] # priority[v]
        BY <4>2, <3>1, <3>2, <1>4
      <4>. QED
        BY <4>1, <4>2
    <3>. QED
      BY <3>3
  <2>. QED
    BY <2>1, <2>2, <2>3
<1>8. ready' \in [Priorities -> Seq(Vcpus)]
  BY <1>1, <1>2 DEF TypeOK
<1>10. AddedOnce'
  <2> SUFFICES ASSUME NEW d \in Cpus, adding'[d] # None
               PROVE  /\ state'[adding'[d]] = "READY"
                      /\ \A e \in Cpus : adding'[e] = adding'[d] => e = d
                      /\ \A p \in Priorities : \A i \in 1..Len(ready'[p]) :
                           ready'[p][i] # adding'[d]
    BY DEF AddedOnce
  <2>1. d # c /\ adding'[d] = adding[d] /\ adding[d] # v /\ adding[d] \in Vcpus
    BY <1>9 DEF TypeOK
  <2>2. state'[adding'[d]] = "READY" /\ \A e \in Cpus : adding'[e] = adding'[d] => e = d
    BY <2>1, <1>1, <1>9 DEF AddedOnce, QueueMatchesState
  <2>3. ASSUME NEW p \in Priorities, NEW i \in 1..Len(ready'[p])
        PROVE  ready'[p][i] # adding[d]
    <3>1. \A j \in 1..Len(ready[p]) : ready[p][j] # adding[d]
      BY <2>1 DEF AddedOnce, QueueMatchesState
    <3>2. CASE p # priority[v]
      BY <3>1, <3>2, <2>3, <1>4
    <3>3. CASE p = priority[v]
      <4>1. i \in 1..Len(q) \/ i = Len(q) + 1
        BY <3>3, <2>3, <1>2, <1>4
      <4>2. \A k \in 1..Len(q) : ready'[p][k] = q[k] /\ q[k] # adding[d]
        BY <3>1, <3>3, <1>2, <1>4 DEF q
      <4>3. ready'[p][Len(q) + 1] = v
        BY <3>3, <1>2, <1>4
      <4>. QED
        BY <4>1, <4>2, <4>3, <2>1
    <3>. QED
      BY <3>2, <3>3
  <2>. QED
    BY <2>1, <2>2, <2>3
<1>. QED
  BY <1>5, <1>6, <1>7, <1>8, <1>10 DEF QueueMatchesState

(* fcfs_schedule takes the head of a list, which then runs. *)
LEMMA QueueTake ==
  ASSUME TypeOK, QueueMatchesState, NEW p \in Priorities, ready[p] # <<>>,
         state' = [state EXCEPT ![Head(ready[p])] = "RUN"],
         ready' = [ready EXCEPT ![p] = TakeFrom(p)], adding' = adding
  PROVE  /\ QueueMatchesState'
         /\ ready' \in [Priorities -> Seq(Vcpus)]
         /\ Head(ready[p]) \in Vcpus
         /\ state[Head(ready[p])] = "READY"
         /\ priority[Head(ready[p])] = p
<1> DEFINE q == ready[p]
           v == Head(q)
<1>1. /\ q \in Seq(Vcpus)
      /\ q # <<>>
      /\ ready' = [ready EXCEPT ![p] = Tail(q)]
  BY DEF TypeOK, TakeFrom
<1>2. /\ v \in Vcpus
      /\ v = q[1]
      /\ Tail(q) \in Seq(Vcpus)
      /\ Len(q) \in Nat \ {0}
      /\ Len(Tail(q)) = Len(q) - 1
      /\ \A i \in 1..Len(Tail(q)) : Tail(q)[i] = q[i + 1]
  BY <1>1, HeadTailProperties, LenProperties, EmptySeq
<1>3. /\ state[v] = "READY"
      /\ priority[v] = p
  BY <1>2 DEF QueueMatchesState, ListedAreReady
<1>4. /\ ready'[p] = Tail(q)
      /\ \A r \in Priorities : r # p => ready'[r] = ready[r]
      /\ \A u \in Vcpus : u # v => state'[u] = state[u]
      /\ state'[v] = "RUN"
  BY <1>1, <1>2 DEF TypeOK
<1>5. \A r \in Priorities : \A i \in 1..Len(ready[r]) :
        /\ ready[r][i] \in Vcpus
        /\ ready[r][i] = v => r = p /\ i = 1
  <2> SUFFICES ASSUME NEW r \in Priorities, NEW i \in 1..Len(ready[r])
               PROVE  /\ ready[r][i] \in Vcpus
                      /\ ready[r][i] = v => r = p /\ i = 1
    OBVIOUS
  <2>1. ready[r] \in Seq(Vcpus)
    BY DEF TypeOK
  <2>2. ready[r][i] \in Vcpus
    BY <2>1, ElementOfSeq
  <2>3. ready[r][i] = v => r = p
    BY <1>3 DEF QueueMatchesState, ListedAreReady
  <2>4. ready[p][i] = v /\ r = p => i = 1
    BY <1>2 DEF QueueMatchesState, ListedOnce
  <2>. QED
    BY <2>2, <2>3, <2>4
<1>9. \A i \in 1..Len(ready'[p]) :
        i \in Int /\ i + 1 \in 1..Len(ready[p]) /\ i + 1 # 1 /\ ready'[p][i] = ready[p][i + 1]
  <2> SUFFICES ASSUME NEW i \in 1..Len(ready'[p])
               PROVE  /\ i \in Int /\ i + 1 \in 1..Len(q) /\ i + 1 # 1
                      /\ ready'[p][i] = q[i + 1]
    OBVIOUS
  <2>1. ready'[p] = Tail(q)
    BY <1>4
  <2>2. i \in 1..Len(Tail(q))
    BY <2>1
  <2>3. i \in Int /\ i + 1 \in 1..Len(q) /\ i + 1 # 1
    BY <2>2, <1>2
  <2>4. Tail(q)[i] = q[i + 1]
    BY <2>2, <1>2
  <2>. QED
    BY <2>1, <2>3, <2>4
<1> HIDE DEF q, v
<1>6. ListedAreReady'
  <2> SUFFICES ASSUME NEW r \in Priorities, NEW i \in 1..Len(ready'[r])
               PROVE  state'[ready'[r][i]] = "READY" /\ priority[ready'[r][i]] = r
    BY DEF ListedAreReady
  <2>1. CASE r = p
    <3>1. i + 1 \in 1..Len(ready[p]) /\ ready'[p][i] = ready[p][i + 1] /\ i + 1 # 1
      BY <1>9, <2>1
    <3>. QED
      BY <3>1, <2>1, <1>4, <1>5 DEF ListedAreReady, QueueMatchesState
  <2>2. CASE r # p
    BY <2>2, <1>4, <1>5 DEF ListedAreReady, QueueMatchesState
  <2>. QED
    BY <2>1, <2>2
<1>7. ListedOnce'
  <2> SUFFICES ASSUME NEW r \in Priorities, NEW i \in 1..Len(ready'[r]),
                      NEW j \in 1..Len(ready'[r]), ready'[r][i] = ready'[r][j]
               PROVE  i = j
    BY DEF ListedOnce
  <2>1. CASE r = p
    <3>1. /\ i \in Int /\ i + 1 \in 1..Len(ready[p]) /\ ready'[p][i] = ready[p][i + 1]
          /\ j \in Int /\ j + 1 \in 1..Len(ready[p]) /\ ready'[p][j] = ready[p][j + 1]
      BY <1>9, <2>1
    <3>2. i + 1 = j + 1
      BY <3>1, <2>1 DEF ListedOnce, QueueMatchesState
    <3>. QED
      BY <3>2
  <2>2. CASE r # p
    BY <2>2, <1>4 DEF ListedOnce, QueueMatchesState
  <2>. QED
    BY <2>1, <2>2
<1>8. ReadyAreListed'
  <2> SUFFICES ASSUME NEW u \in Vcpus, state'[u] = "READY"
               PROVE  \/ \E i \in 1..Len(ready'[priority[u]]) : ready'[priority[u]][i] = u
                      \/ \E d \in Cpus : adding[d] = u
    BY DEF ReadyAreListed
  <2>1. u # v /\ state[u] = "READY" /\ priority[u] \in Priorities
    BY <1>4
  <2> SUFFICES ASSUME ~\E d \in Cpus : adding[d] = u
               PROVE  \E i \in 1..Len(ready'[priority[u]]) : ready'[priority[u]][i] = u
    OBVIOUS
  <2>2. PICK i \in 1..Len(ready[priority[u]]) : ready[priority[u]][i] = u
    BY <2>1 DEF ReadyAreListed, QueueMatchesState
  <2>3. CASE priority[u] # p
    BY <2>1, <2>2, <2>3, <1>4
  <2>4. CASE priority[u] = p
    <3>1. i # 1
      BY <2>1, <2>2, <2>4, <1>2 DEF q
    <3>2. i - 1 \in 1..Len(Tail(q)) /\ Tail(q)[i - 1] = q[(i - 1) + 1] /\ (i - 1) + 1 = i
      BY <3>1, <2>2, <2>4, <1>2 DEF q
    <3>3. i - 1 \in 1..Len(ready'[p]) /\ ready'[p][i - 1] = u
      BY <3>2, <2>2, <2>4, <1>4 DEF q
    <3>. QED
      BY <3>3, <2>4
  <2>. QED
    BY <2>3, <2>4
<1>10. AddedOnce'
  <2> SUFFICES ASSUME NEW d \in Cpus, adding[d] # None
               PROVE  /\ state'[adding[d]] = "READY"
                      /\ \A r \in Priorities : \A i \in 1..Len(ready'[r]) :
                           ready'[r][i] # adding[d]
    BY DEF AddedOnce, QueueMatchesState
  <2>1. /\ adding[d] \in Vcpus
        /\ \A r \in Priorities : \A i \in 1..Len(ready[r]) : ready[r][i] # adding[d]
    BY DEF TypeOK, AddedOnce, QueueMatchesState
  <2>2. adding[d] # v
    BY <2>1, <1>2 DEF q
  <2>3. state'[adding[d]] = "READY"
    BY <2>1, <2>2, <1>4 DEF AddedOnce, QueueMatchesState
  <2>4. ASSUME NEW r \in Priorities, NEW i \in 1..Len(ready'[r])
        PROVE  ready'[r][i] # adding[d]
    <3>1. CASE r = p
      BY <3>1, <2>1, <2>4, <1>9
    <3>2. CASE r # p
      BY <3>2, <2>1, <2>4, <1>4
    <3>. QED
      BY <3>1, <3>2
  <2>. QED
    BY <2>3, <2>4
<1>. QED
  <2>1. Tail(q) \in Seq(Vcpus)
    BY <1>2
  <2>2. \A s \in Seq(Vcpus) : [ready EXCEPT ![p] = s] \in [Priorities -> Seq(Vcpus)]
    BY DEF TypeOK
  <2>3. ready' \in [Priorities -> Seq(Vcpus)]
    BY <2>1, <2>2, <1>1, Zenon
  <2>. QED
    BY <2>3, <1>2, <1>3, <1>6, <1>7, <1>8, <1>10 DEF QueueMatchesState, q, v


-----------------------------------------------------------------------------
(* The inductive invariant, action by action. *)

(* The machine starts in the invariant. *)
LEMMA InitIInv == Init => IInv
<1> SUFFICES ASSUME Init PROVE IInv
  OBVIOUS
<1>4. 0 \in Priorities
  BY DEF Priorities
<1>5. ready \in [Priorities -> Seq(Vcpus)]
  BY EmptySeq DEF Init
<1>1. TypeOK
  BY <1>4, <1>5 DEF Init, NoneNeeded, TypeOK, States, Places
<1>2. QueueMatchesState
  BY DEF Init, QueueMatchesState, ListedAreReady, ListedOnce, ReadyAreListed, AddedOnce
<1>3. /\ RunnerIsUnique
      /\ TimerMatchesSleep
      /\ BootOrder
      /\ LoadedIsCurrent
      /\ InterruptedStaysPut
      /\ OneScan
  BY DEF Init, RunnerIsUnique, TimerMatchesSleep, BootOrder, LoadedIsCurrent,
         InterruptedStaysPut, OneScan
<1>. QED
  BY <1>1, <1>2, <1>3 DEF IInv

(* Steps that touch no vcpu: they move one CPU, and may note the vcpu that *)
(* an exception interrupted, or what a guest does to the clock.            *)
LEMMA QuietIInv ==
  ASSUME IInv, NEW c \in Cpus,
         \/ StartPrimary \/ StartSecondary(c) \/ Trap(c) \/ SecurityTrap(c)
         \/ GuestPanic(c) \/ Tick(c) \/ IdleDeviceIrq(c) \/ TimerDone(c) \/ LogPanic(c)
  PROVE  IInv'
<1> USE DEF IInv
<1>1. UNCHANGED <<vcpuVars, current, needed, loaded, addVars, lockVars>>
  BY DEF StartPrimary, StartSecondary, Trap, SecurityTrap, GuestPanic, Tick,
     IdleDeviceIrq, HypFault, TimerDone, LogPanic, cpuVars, vars
<1>2. TypeOK'
  <2>1. /\ pc' \in [Cpus -> Places]
        /\ last' \in [Cpus -> Vcpus \cup {None}]
        /\ started' \in BOOLEAN
        /\ clock' \in BOOLEAN
    BY DEF TypeOK, StartPrimary, StartSecondary, Trap, SecurityTrap, GuestPanic, Tick,
     IdleDeviceIrq, HypFault, TimerDone, LogPanic, cpuVars, vars, Enter, EnterIrq, Move, Places
  <2>. QED
    BY <1>1, <2>1 DEF TypeOK, vcpuVars, addVars, lockVars
<1>3. QueueMatchesState'
  BY <1>1, QueueKeep DEF vcpuVars, addVars
<1>4. RunnerIsUnique'
  BY <1>1 DEF vcpuVars, RunnerIsUnique, TypeOK, StartPrimary, StartSecondary, Trap, SecurityTrap, GuestPanic, Tick,
     IdleDeviceIrq, HypFault, TimerDone, LogPanic, cpuVars, vars, Move
<1>5. TimerMatchesSleep'
  BY <1>1 DEF vcpuVars, TimerMatchesSleep
<1>9. CASE SecurityTrap(c)
  <2>1. UNCHANGED <<vcpuVars, cpuVars, started, addVars, lockVars>>
    BY <1>9 DEF SecurityTrap, vars
  <2>2. BootOrder' /\ InterruptedStaysPut' /\ OneScan' /\ LoadedIsCurrent'
    BY <2>1 DEF BootOrder, InterruptedStaysPut, OneScan, LoadedIsCurrent, vcpuVars, cpuVars,
       addVars, lockVars
  <2>. QED
    BY <1>2, <1>3, <1>4, <1>5, <2>2
<1>10. CASE ~SecurityTrap(c)
  <2>1. PICK b \in Cpus : /\ b = c \/ (b = Primary /\ StartPrimary)
                          /\ adding[b] = None
                          /\ pc[b] \notin {"scan", "panic"}
                          /\ pc'[b] \in {"guest", "timer", "sched", "panic"}
                          /\ \A d \in Cpus : d # b => pc'[d] = pc[d] /\ last'[d] = last[d]
    <3>1. CASE StartPrimary
      BY <3>1 DEF TypeOK, StartPrimary, Move
    <3>2. CASE ~StartPrimary
      <4>1. adding[c] = None
        BY <1>10, <3>2 DEF BootOrder, StartSecondary, Trap, GuestPanic, Tick,
           IdleDeviceIrq, TimerDone, LogPanic
      <4>2. pc[c] \notin {"scan", "panic"} /\ pc'[c] \in {"guest", "timer", "sched", "panic"}
        BY <1>10, <3>2 DEF TypeOK, StartSecondary, Trap, GuestPanic, Tick,
           IdleDeviceIrq, HypFault, TimerDone, LogPanic, Move
      <4>3. \A d \in Cpus : d # c => pc'[d] = pc[d] /\ last'[d] = last[d]
        BY <1>10, <3>2 DEF TypeOK, StartSecondary, Trap, GuestPanic, Tick,
           IdleDeviceIrq, HypFault, TimerDone, LogPanic, Enter, EnterIrq, Move
      <4>. QED
        BY <4>1, <4>2, <4>3
    <3>. QED
      BY <3>1, <3>2
  <2>2. BootOrder'
    <3>1. CASE StartPrimary
      BY <3>1, <1>1 DEF BootOrder, TypeOK, StartPrimary, Move, addVars
    <3>2. CASE ~StartPrimary
      <4>1. /\ started' = started
            /\ pc[c] # "boot"
            /\ c # Primary => started
        BY <1>10, <3>2 DEF BootOrder, TypeOK, StartSecondary, Trap, SecurityTrap,
           GuestPanic, Tick, IdleDeviceIrq, HypFault, TimerDone, LogPanic
      <4>2. b = c
        BY <2>1, <3>2
      <4>. QED
        BY <1>1, <2>1, <4>1, <4>2 DEF BootOrder, addVars
    <3>. QED
      BY <3>1, <3>2
  <2>3. LoadedIsCurrent'
    <3> SUFFICES ASSUME NEW d \in Cpus, current[d] # None, pc'[d] # "panic"
                 PROVE  loaded[d] = current[d]
      BY <1>1 DEF LoadedIsCurrent
    <3>1. pc[d] # "panic"
      BY <2>1
    <3>. QED
      BY <3>1 DEF LoadedIsCurrent
  <2>4. OneScan'
    BY <1>1, <2>1 DEF OneScan, TypeOK, lockVars
  <2>5. InterruptedStaysPut'
    <3> SUFFICES ASSUME NEW d \in Cpus, pc'[d] \in {"timer", "sched", "scan"}, last'[d] # None
                 PROVE  \/ state[last'[d]] = "INIT"
                        \/ state[last'[d]] = "RUN" /\ physCpu[last'[d]] = d
                        \/ /\ state[last'[d]] = "SLEEP"
                           /\ pc'[d] \in {"sched", "scan"}
                           /\ armed[last'[d]] \in {None, d}
      BY <1>1 DEF vcpuVars, InterruptedStaysPut
    <3>1. CASE last'[d] = last[d] /\ pc'[d] = pc[d]
      BY <3>1 DEF InterruptedStaysPut
    <3>2. CASE last'[d] = last[d] /\ pc[d] = "timer" /\ pc'[d] = "sched"
      BY <3>2 DEF InterruptedStaysPut
    <3>3. CASE last'[d] = current[d]
      BY <3>3 DEF RunnerIsUnique
    <3>4. \/ last'[d] = last[d] /\ pc'[d] = pc[d]
          \/ last'[d] = last[d] /\ pc[d] = "timer" /\ pc'[d] = "sched"
          \/ last'[d] = current[d]
      BY <1>10 DEF TypeOK, BootOrder, StartPrimary, StartSecondary, Trap, SecurityTrap, GuestPanic, Tick,
     IdleDeviceIrq, HypFault, TimerDone, LogPanic, Enter, EnterIrq, Move
    <3>. QED
      BY <3>1, <3>2, <3>3, <3>4
  <2>. QED
    BY <1>2, <1>3, <1>4, <1>5, <2>2, <2>3, <2>4, <2>5
<1>. QED
  BY <1>9, <1>10

(* Steps of fcfs_scheduler_add and of the scan that move no CPU. *)
LEMMA SmallStepIInv ==
  ASSUME IInv, NEW c \in Cpus, RaiseFlag(c) \/ NextLevel(c)
  PROVE  IInv'
<1> USE DEF IInv
<1>1. UNCHANGED <<vcpuVars, current, last, loaded, pc, started, adding, holder>>
  BY DEF RaiseFlag, NextLevel, cpuVars, addVars, lockVars
<1>2. TypeOK'
  <2>1. needed' \in [Cpus -> BOOLEAN] /\ flagging' \in [Cpus -> SUBSET Cpus]
    <3>1. CASE NextLevel(c)
      BY <3>1 DEF TypeOK, NextLevel, cpuVars, addVars
    <3>2. CASE RaiseFlag(c)
      <4>1. PICK d \in Cpus : /\ needed' = [needed EXCEPT ![d] = TRUE]
                              /\ flagging' = [flagging EXCEPT ![c] = @ \ {d}]
        BY <3>2 DEF RaiseFlag, TypeOK
      <4>2. needed' \in [Cpus -> BOOLEAN]
        BY <4>1 DEF TypeOK
      <4>3. flagging[c] \ {d} \in SUBSET Cpus
        BY DEF TypeOK
      <4>4. flagging' \in [Cpus -> SUBSET Cpus]
        BY <4>1, <4>3 DEF TypeOK
      <4>. QED
        BY <4>2, <4>4
    <3>. QED
      BY <3>1, <3>2
  <2>2. level' \in Priorities
    BY DEF TypeOK, RaiseFlag, NextLevel, lockVars, Priorities
  <2>3. clock' = clock
    BY DEF RaiseFlag, NextLevel
  <2>. QED
    BY <1>1, <2>1, <2>2, <2>3 DEF TypeOK, vcpuVars
<1>3. QueueMatchesState'
  BY <1>1, QueueKeep DEF vcpuVars
<1>4. /\ RunnerIsUnique'
      /\ TimerMatchesSleep'
      /\ BootOrder'
      /\ LoadedIsCurrent'
      /\ InterruptedStaysPut'
      /\ OneScan'
  BY <1>1 DEF RunnerIsUnique, TimerMatchesSleep, BootOrder, LoadedIsCurrent,
     InterruptedStaysPut, OneScan, vcpuVars
<1>. QED
  BY <1>2, <1>3, <1>4

(* The link at the end of fcfs_scheduler_add. *)
LEMMA LinkIInv ==
  ASSUME IInv, NEW c \in Cpus, Link(c)
  PROVE  IInv'
<1> USE DEF IInv
<1>1. /\ UNCHANGED <<state, physCpu, armed, cpuVars, started, flagging, lockVars, clock>>
      /\ adding' = [adding EXCEPT ![c] = None]
  BY DEF Link
<1>2. QueueMatchesState' /\ ready' \in [Priorities -> Seq(Vcpus)]
  BY QueueLink
<1>3. TypeOK'
  BY <1>1, <1>2 DEF TypeOK, cpuVars, lockVars
<1>4. BootOrder'
  BY <1>1 DEF BootOrder, TypeOK, cpuVars
<1>5. /\ RunnerIsUnique'
      /\ TimerMatchesSleep'
      /\ LoadedIsCurrent'
      /\ InterruptedStaysPut'
      /\ OneScan'
  BY <1>1 DEF RunnerIsUnique, TimerMatchesSleep, LoadedIsCurrent, InterruptedStaysPut,
     OneScan, cpuVars, lockVars
<1>. QED
  BY <1>2, <1>3, <1>4, <1>5

(* do_schedule takes the lock; the scan begins. *)
LEMMA StartScanIInv ==
  ASSUME IInv, NEW c \in Cpus, StartScan(c)
  PROVE  IInv'
<1> USE DEF IInv
<1>1. /\ pc[c] = "sched"
      /\ holder = None
      /\ needed' = [needed EXCEPT ![c] = FALSE]
      /\ holder' = c
      /\ level' = 0
      /\ pc' = [pc EXCEPT ![c] = "scan"]
      /\ UNCHANGED <<vcpuVars, current, last, loaded, started, addVars, clock>>
  BY DEF StartScan, ClearFlag, Move
<1>2. TypeOK'
  <2>1. level' \in Priorities
    BY <1>1 DEF Priorities
  <2>2. pc' \in [Cpus -> Places] /\ needed' \in [Cpus -> BOOLEAN]
    BY <1>1 DEF TypeOK, Places
  <2>. QED
    BY <1>1, <2>1, <2>2 DEF TypeOK, vcpuVars, addVars
<1>3. QueueMatchesState'
  BY <1>1, QueueKeep DEF vcpuVars, addVars
<1>4. \A d \in Cpus : pc'[d] = IF d = c THEN "scan" ELSE pc[d]
  BY <1>1 DEF TypeOK
<1>5. RunnerIsUnique' /\ TimerMatchesSleep' /\ BootOrder' /\ LoadedIsCurrent'
  BY <1>1, <1>4 DEF RunnerIsUnique, TimerMatchesSleep, BootOrder, LoadedIsCurrent,
     vcpuVars, addVars
<1>6. InterruptedStaysPut'
  BY <1>1, <1>4 DEF InterruptedStaysPut, vcpuVars
<1>7. OneScan'
  BY <1>1, <1>4 DEF OneScan
<1>. QED
  BY <1>2, <1>3, <1>5, <1>6, <1>7

(* vm_create makes a vcpu ready before any CPU has scheduled. *)
LEMMA CreateVmIInv ==
  ASSUME IInv, NEW v \in Vcpus, CreateVm(v)
  PROVE  IInv'
<1> USE DEF IInv
<1>1. /\ state[v] = "INIT"
      /\ adding[Primary] = None
      /\ pc[Primary] = "boot"
      /\ state' = [state EXCEPT ![v] = "READY"]
      /\ fcfs_scheduler_add(Primary, v)
      /\ UNCHANGED <<physCpu, armed, ready, current, last, needed, loaded, pc, started,
                     lockVars, clock>>
  BY DEF CreateVm, vcpu_ready
<1>2. QueueMatchesState'
  BY <1>1, QueueAdd
<1>3. \A c \in Cpus : pc[c] \in {"boot", "wait"} /\ current[c] = None
  BY <1>1 DEF BootOrder
<1>4. TypeOK'
  BY <1>1 DEF TypeOK, States, fcfs_scheduler_add, lockVars
<1>5. RunnerIsUnique' /\ LoadedIsCurrent' /\ InterruptedStaysPut'
  BY <1>1, <1>3 DEF RunnerIsUnique, LoadedIsCurrent, InterruptedStaysPut
<1>6. TimerMatchesSleep'
  BY <1>1 DEF TimerMatchesSleep, TypeOK
<1>7. BootOrder'
  BY <1>1 DEF BootOrder, TypeOK, fcfs_scheduler_add
<1>8. OneScan'
  BY <1>1 DEF OneScan, lockVars
<1>. QED
  BY <1>2, <1>4, <1>5, <1>6, <1>7, <1>8

(* The vcpu of a CPU in a guest: it runs there and nowhere else. *)
LEMMA GuestVcpu ==
  ASSUME IInv, NEW c \in Cpus, pc[c] = "guest"
  PROVE  /\ current[c] \in Vcpus
         /\ state[current[c]] = "RUN"
         /\ physCpu[current[c]] = c
         /\ armed[current[c]] = None
         /\ \A d \in Cpus : d # c => current[d] # current[c]
         /\ \A d \in Cpus : d # c /\ pc[d] \in {"timer", "sched", "scan"} /\ last[d] # None
                            => last[d] # current[c]
         /\ started
<1>1. current[c] \in Vcpus /\ state[current[c]] = "RUN" /\ physCpu[current[c]] = c
  BY DEF IInv, TypeOK, RunnerIsUnique
<1>2. armed[current[c]] = None
  BY <1>1 DEF IInv, TimerMatchesSleep
<1>3. \A d \in Cpus : d # c => current[d] # current[c]
  BY <1>1 DEF IInv, RunnerIsUnique
<1>4. ASSUME NEW d \in Cpus, d # c, pc[d] \in {"timer", "sched", "scan"}, last[d] # None
      PROVE  last[d] # current[c]
  BY <1>1, <1>4 DEF IInv, InterruptedStaysPut
<1>5. started
  BY DEF IInv, BootOrder
<1>. QED
  BY <1>1, <1>2, <1>3, <1>4, <1>5

(* WFI or WFE puts the running vcpu to sleep. *)
LEMMA WfiIInv ==
  ASSUME IInv, NEW c \in Cpus, Wfi(c)
  PROVE  IInv'
<1> USE DEF IInv
<1> DEFINE v == current[c]
<1>1. /\ pc[c] = "guest"
      /\ v \in Vcpus
      /\ state[v] = "RUN"
      /\ physCpu[v] = c
      /\ armed[v] = None
      /\ started
  BY GuestVcpu DEF Wfi
<1>2. \A d \in Cpus : d # c => current[d] # v
  BY <1>1, GuestVcpu
<1>3. /\ state' = [state EXCEPT ![v] = "SLEEP"]
      /\ last' = [last EXCEPT ![c] = v]
      /\ pc' = [pc EXCEPT ![c] = "sched"]
      /\ needed' = [needed EXCEPT ![c] = TRUE]
      /\ UNCHANGED <<physCpu, ready, started, addVars, lockVars, clock>>
  BY <1>1 DEF Wfi, vcpu_sleep, Enter, Move
<1>4. armed' = armed \/ armed' = [armed EXCEPT ![v] = c]
  BY <1>1 DEF Wfi, ArmWakeUp
<1>5. \A d \in Cpus : current'[d] = IF d = c THEN None ELSE current[d]
  BY <1>1, <1>2 DEF Wfi, vcpu_sleep, LeaveCpu
<1>6. /\ current' \in [Cpus -> Vcpus \cup {None}]
      /\ loaded' \in [Cpus -> Vcpus \cup {None}]
  <2>1. LeaveCpu(v) /\ SavedContextChanges(v)
    BY <1>1 DEF Wfi, vcpu_sleep
  <2>2. current' \in [Cpus -> Vcpus \cup {None}]
    BY <2>1 DEF TypeOK, LeaveCpu
  <2>3. loaded' \in [Cpus -> Vcpus \cup {None}]
    BY <2>1 DEF TypeOK, SavedContextChanges
  <2>. QED
    BY <2>2, <2>3
<1>7. \A d \in Cpus : loaded[d] # v => loaded'[d] = loaded[d]
  BY DEF Wfi, SavedContextChanges
<1> HIDE DEF v
<1>8. TypeOK'
  <2>1. armed' \in [Vcpus -> Cpus \cup {None}]
    BY <1>1, <1>4 DEF TypeOK
  <2>. QED
    BY <2>1, <1>1, <1>3, <1>6 DEF TypeOK, States, Places, addVars, lockVars
<1>9. QueueMatchesState'
  BY <1>1, <1>3, QueueKeep DEF TypeOK, addVars
<1>10. RunnerIsUnique'
  BY <1>1, <1>2, <1>3, <1>5 DEF RunnerIsUnique, TypeOK
<1>11. TimerMatchesSleep'
  BY <1>1, <1>3, <1>4 DEF TimerMatchesSleep, TypeOK
<1>12. BootOrder'
  BY <1>1, <1>3, <1>5 DEF BootOrder, TypeOK, addVars
<1>13. LoadedIsCurrent'
  BY <1>2, <1>3, <1>5, <1>7 DEF LoadedIsCurrent, TypeOK
<1>14. InterruptedStaysPut'
  <2> SUFFICES ASSUME NEW d \in Cpus, pc'[d] \in {"timer", "sched", "scan"}, last'[d] # None
               PROVE  \/ state'[last'[d]] = "INIT"
                      \/ state'[last'[d]] = "RUN" /\ physCpu'[last'[d]] = d
                      \/ /\ state'[last'[d]] = "SLEEP"
                         /\ pc'[d] \in {"sched", "scan"}
                         /\ armed'[last'[d]] \in {None, d}
    BY DEF InterruptedStaysPut
  <2>1. CASE d = c
    <3>1. last'[d] = v /\ state'[v] = "SLEEP" /\ pc'[d] \in {"sched", "scan"} /\ armed'[v] \in {None, d}
      BY <2>1, <1>1, <1>3, <1>4 DEF TypeOK
    <3>. QED
      BY <3>1
  <2>2. CASE d # c
    <3>1. last'[d] = last[d] /\ pc'[d] = pc[d]
      BY <2>2, <1>3 DEF TypeOK
    <3>2. last[d] \in Vcpus /\ last[d] # v
      BY <2>2, <3>1, <1>1, GuestVcpu DEF TypeOK, v
    <3>3. state'[last[d]] = state[last[d]] /\ armed'[last[d]] = armed[last[d]]
      BY <3>2, <1>3, <1>4 DEF TypeOK
    <3>. QED
      BY <3>1, <3>3, <1>3 DEF InterruptedStaysPut
  <2>. QED
    BY <2>1, <2>2
<1>15. OneScan'
  BY <1>1, <1>3 DEF OneScan, TypeOK, lockVars
<1>. QED
  BY <1>8, <1>9, <1>10, <1>11, <1>12, <1>13, <1>14, <1>15

(* vm_force_shutdown switches the running vcpu off. *)
LEMMA ShutdownIInv ==
  ASSUME IInv, NEW c \in Cpus, Shutdown(c)
  PROVE  IInv'
<1> USE DEF IInv
<1> DEFINE v == current[c]
<1>1. /\ pc[c] = "guest"
      /\ v \in Vcpus
      /\ state[v] = "RUN"
      /\ physCpu[v] = c
      /\ armed[v] = None
      /\ started
  BY GuestVcpu DEF Shutdown
<1>2. \A d \in Cpus : d # c => current[d] # v
  BY <1>1, GuestVcpu
<1>3. /\ state' = [state EXCEPT ![v] = "INIT"]
      /\ last' = [last EXCEPT ![c] = v]
      /\ pc' = [pc EXCEPT ![c] = "sched"]
      /\ UNCHANGED <<physCpu, armed, ready, needed, loaded, started, addVars, lockVars, clock>>
  BY <1>1 DEF Shutdown, vcpu_off, Enter, Move
<1>4. \A d \in Cpus : current'[d] = IF d = c THEN None ELSE current[d]
  BY <1>1, <1>2 DEF Shutdown, vcpu_off, LeaveCpu
<1>5. current' \in [Cpus -> Vcpus \cup {None}]
  BY <1>1 DEF TypeOK, Shutdown, vcpu_off, LeaveCpu
<1> HIDE DEF v
<1>6. TypeOK'
  BY <1>1, <1>3, <1>5 DEF TypeOK, States, Places, addVars, lockVars
<1>7. QueueMatchesState'
  BY <1>1, <1>3, QueueKeep DEF TypeOK, addVars
<1>8. RunnerIsUnique'
  BY <1>1, <1>2, <1>3, <1>4 DEF RunnerIsUnique, TypeOK
<1>9. TimerMatchesSleep'
  BY <1>1, <1>3 DEF TimerMatchesSleep, TypeOK
<1>10. BootOrder'
  BY <1>1, <1>3, <1>4 DEF BootOrder, TypeOK, addVars
<1>11. LoadedIsCurrent'
  BY <1>3, <1>4 DEF LoadedIsCurrent, TypeOK
<1>12. InterruptedStaysPut'
  <2> SUFFICES ASSUME NEW d \in Cpus, pc'[d] \in {"timer", "sched", "scan"}, last'[d] # None,
                      last'[d] # v
               PROVE  \/ state'[last'[d]] = "INIT"
                      \/ state'[last'[d]] = "RUN" /\ physCpu'[last'[d]] = d
                      \/ /\ state'[last'[d]] = "SLEEP"
                         /\ pc'[d] \in {"sched", "scan"}
                         /\ armed'[last'[d]] \in {None, d}
    BY <1>1, <1>3 DEF InterruptedStaysPut, TypeOK
  <2>1. last'[d] = last[d] /\ pc'[d] = pc[d] /\ state'[last[d]] = state[last[d]]
    BY <1>1, <1>3 DEF TypeOK
  <2>. QED
    BY <2>1, <1>3 DEF InterruptedStaysPut
<1>13. OneScan'
  BY <1>1, <1>3 DEF OneScan, TypeOK, lockVars
<1>. QED
  BY <1>6, <1>7, <1>8, <1>9, <1>10, <1>11, <1>12, <1>13

(* A due timer event wakes the vcpu that armed it. *)
LEMMA TimerEventIInv ==
  ASSUME IInv, NEW c \in Cpus, NEW v \in Vcpus, TimerEvent(c, v)
  PROVE  IInv'
<1> USE DEF IInv
<1>1. /\ pc[c] = "timer"
      /\ armed[v] = c
      /\ state[v] = "SLEEP"
      /\ adding[c] = None
  BY DEF TimerEvent, TimerMatchesSleep
<1>2. /\ state' = [state EXCEPT ![v] = "READY"]
      /\ armed' = [armed EXCEPT ![v] = None]
      /\ fcfs_scheduler_add(c, v)
      /\ UNCHANGED <<physCpu, ready, current, last, needed, pc, started, lockVars, clock>>
  BY <1>1 DEF TimerEvent, EventDone, vcpu_ready
<1>3. QueueMatchesState'
  BY <1>1, <1>2, QueueAdd
<1>4. /\ loaded' \in [Cpus -> Vcpus \cup {None}]
      /\ \A d \in Cpus : loaded[d] # v => loaded'[d] = loaded[d]
  BY DEF TypeOK, TimerEvent, SavedContextChanges
<1>5. TypeOK'
  <2>1. armed' \in [Vcpus -> Cpus \cup {None}]
    BY <1>2 DEF TypeOK
  <2>. QED
    BY <2>1, <1>2, <1>4 DEF TypeOK, States, fcfs_scheduler_add, lockVars
<1>6. \A d \in Cpus : current[d] # None => current[d] \in Vcpus /\ current[d] # v
  BY <1>1 DEF TypeOK, RunnerIsUnique
<1>7. RunnerIsUnique'
  BY <1>2, <1>6 DEF RunnerIsUnique, TypeOK
<1>8. TimerMatchesSleep'
  BY <1>2 DEF TimerMatchesSleep, TypeOK
<1>9. BootOrder' /\ LoadedIsCurrent'
  <2>1. BootOrder'
    BY <1>1, <1>2 DEF BootOrder, TypeOK, fcfs_scheduler_add
  <2>2. LoadedIsCurrent'
    BY <1>2, <1>4, <1>6 DEF LoadedIsCurrent
  <2>. QED
    BY <2>1, <2>2
<1>11. OneScan'
  BY <1>2 DEF OneScan, lockVars
<1>10. InterruptedStaysPut'
  <2> SUFFICES ASSUME NEW d \in Cpus, pc[d] \in {"timer", "sched", "scan"}, last[d] # None
               PROVE  \/ state'[last[d]] = "INIT"
                      \/ state'[last[d]] = "RUN" /\ physCpu[last[d]] = d
                      \/ /\ state'[last[d]] = "SLEEP"
                         /\ pc[d] \in {"sched", "scan"}
                         /\ armed'[last[d]] \in {None, d}
    BY <1>2 DEF InterruptedStaysPut
  <2>1. last[d] \in Vcpus /\ last[d] # v
    <3>1. last[d] \in Vcpus
      BY DEF TypeOK
    <3>2. ASSUME last[d] = v PROVE FALSE
      <4>1. pc[d] \in {"sched", "scan"} /\ c \in {None, d}
        BY <3>2, <1>1 DEF InterruptedStaysPut
      <4>. QED
        BY <4>1, <1>1
    <3>. QED
      BY <3>1, <3>2
  <2>2. state'[last[d]] = state[last[d]] /\ armed'[last[d]] = armed[last[d]]
    BY <2>1, <1>2 DEF TypeOK
  <2>. QED
    BY <2>2 DEF InterruptedStaysPut
<1>. QED
  BY <1>3, <1>5, <1>7, <1>8, <1>9, <1>10, <1>11

(* The head of the list that the scan has reached. *)
LEMMA TakeFacts ==
  ASSUME IInv, NEW c \in Cpus, Take(c)
  PROVE  /\ Head(ready[level]) \in Vcpus
         /\ state[Head(ready[level])] = "READY"
         /\ priority[Head(ready[level])] = level
         /\ state' = [state EXCEPT ![Head(ready[level])] = "RUN"]
         /\ physCpu' = [physCpu EXCEPT ![Head(ready[level])] = c]
         /\ current' = [current EXCEPT ![c] = Head(ready[level])]
         /\ QueueMatchesState'
         /\ ready' \in [Priorities -> Seq(Vcpus)]
<1> USE DEF IInv
<1> DEFINE v == Head(ready[level])
<1>1. /\ level \in Priorities
      /\ ready[level] # <<>>
      /\ ready' = [ready EXCEPT ![level] = TakeFrom(level)]
      /\ current' = [current EXCEPT ![c] = v]
      /\ vcpu_active(v, c)
      /\ adding' = adding
  BY DEF TypeOK, Take, addVars
<1>2. ready[level] \in Seq(Vcpus)
  BY <1>1 DEF TypeOK
<1>3. v \in Vcpus /\ state[v] = "READY"
  <2>1. /\ v \in Vcpus
        /\ v = ready[level][1]
        /\ 1 \in 1..Len(ready[level])
    BY <1>1, <1>2, HeadTailProperties, LenProperties, EmptySeq
  <2>. QED
    BY <2>1, <1>1 DEF QueueMatchesState, ListedAreReady
<1>4. /\ state' = [state EXCEPT ![v] = "RUN"]
      /\ physCpu' = [physCpu EXCEPT ![v] = c]
  BY <1>1, <1>3 DEF vcpu_active
<1>. QED
  BY <1>1, <1>3, <1>4, QueueTake

(* fcfs_schedule takes the head of a list, and the vcpu runs; or the log   *)
(* ends on the way to it.                                                  *)
LEMMA TakeIInv ==
  ASSUME IInv, NEW c \in Cpus, Take(c), ScheduleNext(c) \/ PanicInSwitch(c)
  PROVE  IInv'
<1> USE DEF IInv
<1> DEFINE v == Head(ready[level])
<1>1. /\ v \in Vcpus
      /\ state[v] = "READY"
      /\ state' = [state EXCEPT ![v] = "RUN"]
      /\ physCpu' = [physCpu EXCEPT ![v] = c]
      /\ current' = [current EXCEPT ![c] = v]
      /\ QueueMatchesState'
      /\ ready' \in [Priorities -> Seq(Vcpus)]
  BY TakeFacts
<1> HIDE DEF v
<1>2. /\ pc[c] = "scan"
      /\ UNCHANGED <<armed, last, needed, started, addVars, clock>>
  BY DEF Take
<1>3. /\ \/ pc' = [pc EXCEPT ![c] = "guest"]
         \/ pc' = [pc EXCEPT ![c] = "panic"]
      /\ \/ UNCHANGED <<holder, level>>  /\ pc' = [pc EXCEPT ![c] = "panic"]
         \/ holder' = None /\ level' = 0
  BY DEF ScheduleNext, PanicInSwitch, Move, Unlock, lockVars
<1>4. last[c] # v
  <2> SUFFICES ASSUME last[c] = v PROVE FALSE
    OBVIOUS
  <2>1. last[c] # None /\ pc[c] \in {"timer", "sched", "scan"}
    BY <1>1, <1>2, VcpuAssumption
  <2>2. state[v] \in {"INIT", "RUN", "SLEEP"}
    BY <2>1 DEF InterruptedStaysPut
  <2>. QED
    BY <2>2, <1>1
<1>5. /\ loaded' \in [Cpus -> Vcpus \cup {None}]
      /\ loaded'[c] = v \/ pc' = [pc EXCEPT ![c] = "panic"]
      /\ \A d \in Cpus : d # c /\ loaded[d] # v => loaded'[d] = loaded[d]
  <2>1. CASE ScheduleNext(c)
    <3>1. physCpu'[v] = c
      BY <1>1 DEF TypeOK
    <3>2. RestoreContext(c, v)
      BY <2>1, <3>1, <1>4 DEF ScheduleNext, vcpu_context_switch, v
    <3>. QED
      BY <3>2, <1>1 DEF TypeOK, RestoreContext
  <2>2. CASE PanicInSwitch(c)
    BY <2>2 DEF PanicInSwitch, Move, TypeOK
  <2>. QED
    BY <2>1, <2>2
<1>6. \A d \in Cpus : current[d] # None => current[d] \in Vcpus /\ current[d] # v
  BY <1>1 DEF TypeOK, RunnerIsUnique
<1>7. /\ \A d \in Cpus : current'[d] = IF d = c THEN v ELSE current[d]
      /\ \A d \in Cpus : d # c => pc'[d] = pc[d]
      /\ pc'[c] \in {"guest", "panic"}
      /\ \A u \in Vcpus : /\ state'[u] = IF u = v THEN "RUN" ELSE state[u]
                          /\ physCpu'[u] = IF u = v THEN c ELSE physCpu[u]
  BY <1>1, <1>3 DEF TypeOK
<1>8. TypeOK'
  <2>1. state' \in [Vcpus -> States] /\ physCpu' \in [Vcpus -> Cpus \cup {None}]
    BY <1>1 DEF TypeOK, States
  <2>2. /\ current' \in [Cpus -> Vcpus \cup {None}]
        /\ pc' \in [Cpus -> Places]
    BY <1>1, <1>3 DEF TypeOK, Places
  <2>3. holder' \in Cpus \cup {None} /\ level' \in Priorities
    BY <1>3 DEF TypeOK, Priorities
  <2>. QED
    BY <2>1, <2>2, <2>3, <1>1, <1>2, <1>5 DEF TypeOK, addVars
<1>9. RunnerIsUnique'
  BY <1>1, <1>6, <1>7 DEF RunnerIsUnique
<1>10. TimerMatchesSleep'
  BY <1>1, <1>2, <1>7 DEF TimerMatchesSleep
<1>11. BootOrder'
  BY <1>2, <1>7 DEF BootOrder, addVars
<1>12. LoadedIsCurrent'
  <2> SUFFICES ASSUME NEW d \in Cpus, current'[d] # None, pc'[d] # "panic"
               PROVE  loaded'[d] = current'[d]
    BY DEF LoadedIsCurrent
  <2>1. CASE d = c
    BY <2>1, <1>3, <1>5, <1>7 DEF TypeOK
  <2>2. CASE d # c
    BY <2>2, <1>5, <1>6, <1>7 DEF LoadedIsCurrent
  <2>. QED
    BY <2>1, <2>2
<1>13. InterruptedStaysPut'
  <2> SUFFICES ASSUME NEW d \in Cpus, pc'[d] \in {"timer", "sched", "scan"}, last[d] # None
               PROVE  \/ state'[last[d]] = "INIT"
                      \/ state'[last[d]] = "RUN" /\ physCpu'[last[d]] = d
                      \/ /\ state'[last[d]] = "SLEEP"
                         /\ pc'[d] \in {"sched", "scan"}
                         /\ armed[last[d]] \in {None, d}
    BY <1>2 DEF InterruptedStaysPut
  <2>1. pc'[d] = pc[d]
    BY <1>7
  <2>2. last[d] \in Vcpus /\ last[d] # v
    <3>1. last[d] \in Vcpus
      BY DEF TypeOK
    <3>2. state[last[d]] # "READY"
      BY <2>1 DEF InterruptedStaysPut
    <3>. QED
      BY <3>1, <3>2, <1>1
  <2>3. state'[last[d]] = state[last[d]] /\ physCpu'[last[d]] = physCpu[last[d]]
    BY <2>2, <1>7
  <2>. QED
    BY <2>1, <2>3 DEF InterruptedStaysPut
<1>14. OneScan'
  <2>1. holder = c /\ \A d \in Cpus : pc'[d] # "scan"
    BY <1>2, <1>7 DEF OneScan
  <2>2. holder' # None => holder' = c /\ pc'[c] = "panic"
    BY <1>3, <2>1 DEF TypeOK
  <2>. QED
    BY <2>1, <2>2 DEF OneScan
<1>. QED
  BY <1>1, <1>8, <1>9, <1>10, <1>11, <1>12, <1>13, <1>14

(* What all steps share in which nothing is taken from a list. *)
LEMMA NothingTaken ==
  ASSUME IInv, NEW c \in Cpus,
         Resume(c) \/ GoIdle(c) \/ (PanicInSwitch(c) /\ ~Take(c))
  PROVE  /\ NothingFound(c) \/ NotAsked(c)
         /\ UNCHANGED <<vcpuVars, current, last, needed, started, addVars, clock>>
         /\ \/ current[c] # None /\ pc' = [pc EXCEPT ![c] = "guest"]
            \/ current[c] = None /\ pc' = [pc EXCEPT ![c] = "idle"]
            \/ pc' = [pc EXCEPT ![c] = "panic"]
         /\ \/ UNCHANGED lockVars /\ NothingFound(c) /\ pc' = [pc EXCEPT ![c] = "panic"]
            \/ holder' = None /\ level' = 0
<1>1. current[c] # None => state[current[c]] = "RUN"
  BY DEF IInv, RunnerIsUnique
<1>2. UNCHANGED <<state, physCpu>>
  BY <1>1 DEF Resume, GoIdle, PanicInSwitch, vcpu_active
<1>. QED
  BY <1>2 DEF Resume, GoIdle, PanicInSwitch, NoNewVcpu, NothingFound, NotAsked, Unlock, Move,
     vcpuVars

(* The current vcpu goes on, or the CPU goes idle. *)
LEMMA NoNewVcpuIInv ==
  ASSUME IInv, NEW c \in Cpus,
         Resume(c) \/ GoIdle(c) \/ (PanicInSwitch(c) /\ ~Take(c))
  PROVE  IInv'
<1> USE DEF IInv
<1>1. current[c] # None => /\ current[c] \in Vcpus
                           /\ \A d \in Cpus : d # c => current[d] # current[c]
  BY DEF TypeOK, RunnerIsUnique
<1>2. /\ pc[c] \in {"sched", "scan"}
      /\ holder = None \/ (holder = c /\ pc[c] = "scan")
      /\ UNCHANGED <<vcpuVars, current, last, needed, started, addVars, clock>>
      /\ \/ current[c] # None /\ pc' = [pc EXCEPT ![c] = "guest"]
         \/ current[c] = None /\ pc' = [pc EXCEPT ![c] = "idle"]
         \/ pc' = [pc EXCEPT ![c] = "panic"]
      /\ \/ UNCHANGED lockVars /\ pc' = [pc EXCEPT ![c] = "panic"]
         \/ holder' = None /\ level' = 0
  BY NothingTaken DEF NothingFound, NotAsked, OneScan
<1>5. \/ UNCHANGED loaded
      \/ current[c] # None /\ RestoreContext(c, current[c])
  BY DEF Resume, GoIdle, PanicInSwitch, vcpu_context_switch
<1>3. \A d \in Cpus : d # c => pc'[d] = pc[d]
  BY <1>2 DEF TypeOK
<1>4. pc'[c] \in {"guest", "idle", "panic"}
  BY <1>2 DEF TypeOK
<1>6. TypeOK'
  <2>1. loaded' \in [Cpus -> Vcpus \cup {None}]
    BY <1>1, <1>5 DEF TypeOK, RestoreContext
  <2>2. holder' \in Cpus \cup {None} /\ level' \in Priorities
    BY <1>2 DEF TypeOK, lockVars, Priorities
  <2>3. pc' \in [Cpus -> Places]
    BY <1>2 DEF TypeOK, Places
  <2>. QED
    BY <2>1, <2>2, <2>3, <1>2 DEF TypeOK, vcpuVars, addVars
<1>7. QueueMatchesState'
  BY <1>2, QueueKeep DEF vcpuVars, addVars
<1>8. RunnerIsUnique'
  BY <1>2, <1>3 DEF RunnerIsUnique, TypeOK, vcpuVars
<1>9. TimerMatchesSleep'
  BY <1>2 DEF TimerMatchesSleep, vcpuVars
<1>10. BootOrder'
  <2>1. pc'[c] = "idle" => current[c] = None
    BY <1>2 DEF TypeOK
  <2>. QED
    BY <2>1, <1>2, <1>3, <1>4 DEF BootOrder, addVars
<1>11. LoadedIsCurrent'
  <2> SUFFICES ASSUME NEW d \in Cpus, current[d] # None, pc'[d] # "panic"
               PROVE  loaded'[d] = current[d]
    BY <1>2 DEF LoadedIsCurrent
  <2>1. loaded[d] = current[d]
    BY <1>2, <1>3 DEF LoadedIsCurrent
  <2>. QED
    BY <2>1, <1>1, <1>5 DEF RestoreContext
<1>12. InterruptedStaysPut'
  BY <1>2, <1>3, <1>4 DEF InterruptedStaysPut, vcpuVars
<1>13. OneScan'
  <2>1. \A d \in Cpus : pc'[d] # "scan"
    BY <1>2, <1>3, <1>4 DEF OneScan
  <2>2. holder' # None => holder' = c /\ pc'[c] = "panic"
    BY <1>2 DEF TypeOK, lockVars
  <2>. QED
    BY <2>1, <2>2 DEF OneScan
<1>. QED
  BY <1>6, <1>7, <1>8, <1>9, <1>10, <1>11, <1>12, <1>13

-----------------------------------------------------------------------------
(* The theorems. *)

(* Every step of the system, or a step that changes nothing, keeps the     *)
(* invariant.                                                              *)
LEMMA NextIInv == IInv /\ [Next]_vars => IInv'
<1> SUFFICES ASSUME IInv, [Next]_vars PROVE IInv'
  OBVIOUS
<1>1. ASSUME NEW v \in Vcpus, CreateVm(v) PROVE IInv'
  BY <1>1, CreateVmIInv
<1>2. CASE StartPrimary
  BY <1>2, QuietIInv
<1>3. ASSUME NEW c \in Cpus, StartSecondary(c) PROVE IInv'
  BY <1>3, QuietIInv
<1>4. ASSUME NEW c \in Cpus, Guest(c) PROVE IInv'
  BY <1>4, QuietIInv, WfiIInv, ShutdownIInv DEF Guest
<1>5. ASSUME NEW c \in Cpus, Interrupt(c) PROVE IInv'
  BY <1>5, QuietIInv DEF Interrupt
<1>6. ASSUME NEW c \in Cpus, Timer(c) PROVE IInv'
  BY <1>6, QuietIInv, TimerEventIInv DEF Timer
<1>7. ASSUME NEW c \in Cpus, Add(c) PROVE IInv'
  BY <1>7, SmallStepIInv, LinkIInv DEF Add
<1>8. ASSUME NEW c \in Cpus, do_schedule(c) PROVE IInv'
  <2>1. ScheduleNext(c) => Take(c)
    BY DEF ScheduleNext
  <2>. QED
    BY <1>8, <2>1, StartScanIInv, SmallStepIInv, TakeIInv, NoNewVcpuIInv DEF do_schedule
<1>9. ASSUME NEW c \in Cpus, LogPanic(c) \/ PanicInSwitch(c) PROVE IInv'
  BY <1>9, QuietIInv, TakeIInv, NoNewVcpuIInv
<1>10. CASE UNCHANGED vars
  <2>1. QueueMatchesState'
    BY <1>10, QueueKeep DEF IInv, vars, vcpuVars, addVars
  <2>2. TypeOK'
    BY <1>10 DEF IInv, TypeOK, vars, vcpuVars, cpuVars, addVars, lockVars
  <2>3. /\ RunnerIsUnique'
        /\ TimerMatchesSleep'
        /\ BootOrder'
        /\ LoadedIsCurrent'
        /\ InterruptedStaysPut'
        /\ OneScan'
    BY <1>10 DEF IInv, RunnerIsUnique, TimerMatchesSleep, BootOrder, LoadedIsCurrent,
       InterruptedStaysPut, OneScan, vars, vcpuVars, cpuVars, addVars, lockVars
  <2>. QED
    BY <2>1, <2>2, <2>3 DEF IInv
<1>. QED
  BY <1>1, <1>2, <1>3, <1>4, <1>5, <1>6, <1>7, <1>8, <1>9, <1>10 DEF Next

(* The inductive invariant holds in every reachable state.                 *)
THEOREM Invariance == Spec => []IInv
<1>. QED
  BY InitIInv, NextIInv, PTL DEF Spec

(* Every variable of the scheduler keeps a value of its C type.            *)
THEOREM TypeCorrect == Spec => []TypeOK
<1>1. IInv => TypeOK
  BY DEF IInv
<1>. QED
  BY <1>1, Invariance, PTL

(* Where ListAssumption holds, as it does for one vcpu in each list, the   *)
(* lists of fcfs_schedule.c and vcpu->state never disagree, although adds  *)
(* take no lock and raise the flags before they link.                      *)
THEOREM QueuesCorrect == Spec => []QueueMatchesState
<1>1. IInv => QueueMatchesState
  BY DEF IInv
<1>. QED
  BY <1>1, Invariance, PTL

(* No two CPUs ever execute the same vcpu (current_vcpu, vcpu->phys_cpu).  *)
THEOREM RunnersUnique == Spec => []RunnerIsUnique
<1>1. IInv => RunnerIsUnique
  BY DEF IInv
<1>. QED
  BY <1>1, Invariance, PTL

(* The shortcut of vcpu_context_switch never resumes a stale context.      *)
THEOREM ResumesFresh == Spec => []FreshResume
<1>1. IInv => FreshResume
  BY DEF IInv, RunnerIsUnique, LoadedIsCurrent, FreshResume
<1>. QED
  BY <1>1, Invariance, PTL

(* emulate_vtimer's wake-up event exists only while its vcpu sleeps.       *)
THEOREM TimersMatchSleep == Spec => []TimerMatchesSleep
<1>1. IInv => TimerMatchesSleep
  BY DEF IInv
<1>. QED
  BY <1>1, Invariance, PTL

(* Steps that change the state of no vcpu. *)
LEMMA NoTransition ==
  ASSUME IInv, NEW c \in Cpus,
         \/ StartPrimary \/ StartSecondary(c) \/ Trap(c) \/ SecurityTrap(c)
         \/ GuestPanic(c) \/ Tick(c) \/ IdleDeviceIrq(c) \/ TimerDone(c) \/ LogPanic(c)
         \/ RaiseFlag(c) \/ Link(c) \/ StartScan(c) \/ NextLevel(c)
         \/ Resume(c) \/ GoIdle(c) \/ (PanicInSwitch(c) /\ ~Take(c))
  PROVE  UNCHANGED <<state, physCpu, current>>
<1>1. CASE Resume(c) \/ GoIdle(c) \/ (PanicInSwitch(c) /\ ~Take(c))
  BY <1>1, NothingTaken DEF vcpuVars
<1>2. CASE ~(Resume(c) \/ GoIdle(c) \/ (PanicInSwitch(c) /\ ~Take(c)))
  BY <1>2 DEF StartPrimary, StartSecondary, Trap, SecurityTrap, GuestPanic, Tick,
     IdleDeviceIrq, HypFault, TimerDone, LogPanic, RaiseFlag, Link, StartScan, NextLevel,
     vcpuVars, cpuVars, vars
<1>. QED
  BY <1>1, <1>2

(* The steps of Next, in the groups that the following lemmas look at. *)
LEMMA StepKinds ==
  ASSUME Next
  PROVE  \/ \E v \in Vcpus : CreateVm(v)
         \/ \E c \in Cpus : Wfi(c) \/ Shutdown(c)
         \/ \E c \in Cpus, v \in Vcpus : TimerEvent(c, v)
         \/ \E c \in Cpus : Take(c) /\ (ScheduleNext(c) \/ PanicInSwitch(c))
         \/ \E c \in Cpus :
              \/ StartPrimary \/ StartSecondary(c) \/ Trap(c) \/ SecurityTrap(c)
              \/ GuestPanic(c) \/ Tick(c) \/ IdleDeviceIrq(c) \/ TimerDone(c) \/ LogPanic(c)
              \/ RaiseFlag(c) \/ Link(c) \/ StartScan(c) \/ NextLevel(c)
              \/ Resume(c) \/ GoIdle(c) \/ (PanicInSwitch(c) /\ ~Take(c))
<1>1. \A c \in Cpus : ScheduleNext(c) => Take(c)
  BY DEF ScheduleNext
<1>. QED
  BY <1>1, CpuAssumption DEF Next, Guest, Interrupt, Timer, Add, do_schedule

(* Any step that changes the state of a vcpu starts from another state than *)
(* INIT, once the machine runs.                                            *)
LEMMA OffStaysOff ==
  ASSUME IInv, [Next]_vars, NEW v \in Vcpus, started, state[v] = "INIT"
  PROVE  state'[v] = "INIT"
<1> USE DEF IInv
<1>1. ASSUME NEW u \in Vcpus, CreateVm(u) PROVE state'[v] = "INIT"
  BY <1>1 DEF CreateVm, BootOrder
<1>2. ASSUME NEW c \in Cpus, Wfi(c) \/ Shutdown(c) PROVE state'[v] = "INIT"
  <2>1. current[c] \in Vcpus /\ state[current[c]] = "RUN"
    BY <1>2, GuestVcpu DEF Wfi, Shutdown
  <2>2. \E s \in {"SLEEP", "INIT"} : state' = [state EXCEPT ![current[c]] = s]
    BY <1>2, <2>1 DEF Wfi, Shutdown, vcpu_sleep, vcpu_off
  <2>. QED
    BY <2>1, <2>2 DEF TypeOK
<1>3. ASSUME NEW c \in Cpus, NEW u \in Vcpus, TimerEvent(c, u) PROVE state'[v] = "INIT"
  BY <1>3 DEF TimerEvent, TimerMatchesSleep, vcpu_ready, TypeOK
<1>4. ASSUME NEW c \in Cpus, Take(c) PROVE state'[v] = "INIT"
  BY <1>4, TakeFacts DEF TypeOK
<1>5. ASSUME UNCHANGED state PROVE state'[v] = "INIT"
  BY <1>5
<1>6. CASE UNCHANGED vars
  BY <1>6 DEF vars, vcpuVars
<1>7. CASE Next
  BY <1>1, <1>2, <1>3, <1>4, <1>5, <1>7, StepKinds, NoTransition
<1>. QED
  BY <1>6, <1>7

(* A vcpu that vm_force_shutdown switched off stays off for ever.          *)
THEOREM ShutdownFinal == Spec => ShutdownIsFinal
<1>1. IInv /\ [Next]_vars =>
        [\A v \in Vcpus : started /\ state[v] = "INIT" => state'[v] = "INIT"]_vars
  BY OffStaysOff
<1>. QED
  BY <1>1, Invariance, PTL DEF Spec, ShutdownIsFinal

-----------------------------------------------------------------------------
(* Decisions: what the flags, raised before the link, still guarantee. *)

(* A CPU that is going to decide does so next, or panics. *)
LEMMA DeciderStays ==
  ASSUME IInv, AddersDecide, [Next]_vars, NEW d \in Cpus, WillDecide(d)
  PROVE  WillDecide(d)' \/ pc'[d] = "panic" \/ StartScan(d)
<1> USE DEF IInv
<1>1. /\ pc[d] \in {"boot", "timer", "sched"}
      /\ needed[d] \/ d \in flagging[d]
      /\ adding[d] = None => needed[d]
  BY DEF WillDecide, AddersDecide
<1>2. ASSUME NEW v \in Vcpus, CreateVm(v) PROVE WillDecide(d)'
  BY <1>1, <1>2 DEF CreateVm, vcpu_ready, fcfs_scheduler_add, WillDecide, TypeOK
<1>3. ASSUME NEW c \in Cpus, Wfi(c) \/ Shutdown(c) PROVE WillDecide(d)'
  <2>1. pc[c] = "guest" /\ current[c] \in Vcpus /\ state[current[c]] = "RUN"
    BY <1>3, GuestVcpu DEF Wfi, Shutdown
  <2>2. /\ needed' = needed \/ needed' = [needed EXCEPT ![physCpu[current[c]]] = TRUE]
        /\ flagging' = flagging
        /\ pc' = [pc EXCEPT ![c] = "sched"]
    BY <1>3, <2>1 DEF Wfi, Shutdown, vcpu_sleep, vcpu_off, Move, addVars
  <2>. QED
    BY <1>1, <2>1, <2>2 DEF WillDecide, TypeOK
<1>4. ASSUME NEW c \in Cpus, NEW v \in Vcpus, TimerEvent(c, v) PROVE WillDecide(d)'
  <2>1. adding[c] = None /\ state[v] = "SLEEP"
    BY <1>4 DEF TimerEvent, TimerMatchesSleep
  <2>2. UNCHANGED <<pc, needed>> /\ flagging' = [flagging EXCEPT ![c] = Cpus]
    BY <1>4, <2>1 DEF TimerEvent, vcpu_ready, fcfs_scheduler_add
  <2>. QED
    BY <1>1, <2>2 DEF WillDecide, TypeOK
<1>5. ASSUME NEW c \in Cpus, Take(c), ScheduleNext(c) \/ PanicInSwitch(c) PROVE WillDecide(d)'
  <2>1. pc[c] = "scan" /\ UNCHANGED <<needed, flagging>>
    BY <1>5 DEF Take, addVars
  <2>2. \A b \in Cpus : b # c => pc'[b] = pc[b]
    BY <1>5 DEF ScheduleNext, PanicInSwitch, Move, TypeOK
  <2>. QED
    BY <1>1, <2>1, <2>2 DEF WillDecide
<1>6. ASSUME NEW c \in Cpus, Resume(c) \/ GoIdle(c) \/ (PanicInSwitch(c) /\ ~Take(c))
      PROVE  WillDecide(d)'
  <2>1. /\ pc[c] = "scan" \/ (pc[c] = "sched" /\ ~needed[c])
        /\ UNCHANGED <<needed, flagging>>
        /\ \A b \in Cpus : b # c => pc'[b] = pc[b]
    <3>1. /\ NothingFound(c) \/ NotAsked(c)
          /\ UNCHANGED <<needed, addVars>>
          /\ \E place \in {"guest", "idle", "panic"} : pc' = [pc EXCEPT ![c] = place]
      BY <1>6, NothingTaken
    <3>2. pc[c] = "scan" \/ (pc[c] = "sched" /\ ~needed[c])
      BY <3>1 DEF NothingFound, NotAsked
    <3>. QED
      BY <3>1, <3>2 DEF addVars, TypeOK
  <2>2. pc[d] = "sched" => needed[d]
    BY <1>1 DEF BootOrder
  <2>3. d # c
    BY <1>1, <2>1, <2>2
  <2>. QED
    BY <1>1, <2>1, <2>3 DEF WillDecide
<1>7. ASSUME NEW c \in Cpus, RaiseFlag(c) PROVE WillDecide(d)'
  <2>1. PICK b \in flagging[c] : /\ needed' = [needed EXCEPT ![b] = TRUE]
                                 /\ flagging' = [flagging EXCEPT ![c] = @ \ {b}]
                                 /\ pc' = pc
    BY <1>7 DEF RaiseFlag
  <2>2. b \in Cpus
    BY DEF TypeOK
  <2>. QED
    BY <1>1, <2>1, <2>2 DEF WillDecide, TypeOK
<1>8. ASSUME NEW c \in Cpus, Link(c) \/ NextLevel(c) PROVE WillDecide(d)'
  BY <1>1, <1>8 DEF Link, NextLevel, WillDecide, cpuVars, addVars
<1>9. ASSUME NEW c \in Cpus, StartScan(c), c # d PROVE WillDecide(d)'
  BY <1>1, <1>9 DEF StartScan, ClearFlag, Move, addVars, WillDecide, TypeOK
<1>10. ASSUME NEW c \in Cpus,
             \/ StartSecondary(c) \/ Trap(c) \/ SecurityTrap(c)
             \/ GuestPanic(c) \/ Tick(c) \/ IdleDeviceIrq(c)
      PROVE  WillDecide(d)'
  <2>1. /\ pc[c] \in {"wait", "guest", "idle"}
        /\ UNCHANGED <<needed, flagging>>
        /\ \A b \in Cpus : b # c => pc'[b] = pc[b]
    BY <1>10 DEF StartSecondary, Trap, SecurityTrap, GuestPanic, Tick, IdleDeviceIrq,
       HypFault, Move, vars, cpuVars, addVars, TypeOK
  <2>. QED
    BY <1>1, <2>1 DEF WillDecide
<1>11. ASSUME NEW c \in Cpus, StartPrimary \/ TimerDone(c)
       PROVE  WillDecide(d)'
  <2>1. PICK b \in Cpus : adding[b] = None /\ pc' = [pc EXCEPT ![b] = "sched"]
    BY <1>11, CpuAssumption DEF StartPrimary, TimerDone, Move
  <2>2. UNCHANGED <<needed, flagging>>
    BY <1>11 DEF StartPrimary, TimerDone, addVars
  <2>. QED
    BY <1>1, <2>1, <2>2 DEF WillDecide, TypeOK
<1>12. ASSUME NEW c \in Cpus, LogPanic(c) PROVE WillDecide(d)' \/ pc'[d] = "panic"
  BY <1>1, <1>12 DEF LogPanic, Move, addVars, WillDecide, TypeOK
<1>13. CASE UNCHANGED vars
  BY <1>1, <1>13 DEF WillDecide, vars, cpuVars, addVars
<1>14. CASE Next
  BY <1>2, <1>3, <1>4, <1>5, <1>6, <1>7, <1>8, <1>9, <1>10, <1>11, <1>12, <1>14, StepKinds
<1>. QED
  BY <1>13, <1>14

(* A CPU with adding set is a decider from the moment it begins to add. *)
LEMMA AddersDecideStep ==
  ASSUME IInv, AddersDecide, [Next]_vars
  PROVE  AddersDecide'
<1> USE DEF IInv
<1> SUFFICES ASSUME NEW d \in Cpus
             PROVE  /\ adding'[d] # None => WillDecide(d)'
                    /\ adding'[d] = None => flagging'[d] = {}
  BY DEF AddersDecide
<1>1. CASE UNCHANGED addVars
  <2>1. adding'[d] = None => flagging'[d] = {}
    BY <1>1 DEF AddersDecide, addVars
  <2>2. ASSUME adding[d] # None PROVE WillDecide(d)'
    <3>1. WillDecide(d)
      BY <2>2 DEF AddersDecide, WillDecide
    <3>4. pc[d] \in {"boot", "timer"}
      BY <2>2 DEF BootOrder
    <3>2. ~StartScan(d)
      BY <3>4 DEF StartScan
    <3>3. pc'[d] # "panic"
      <4> SUFFICES ASSUME IInv', pc'[d] = "panic" PROVE FALSE
        BY NextIInv
      <4>. QED
        BY <1>1, <2>2 DEF BootOrder, addVars
    <3>. QED
      BY <3>1, <3>2, <3>3, DeciderStays
  <2>. QED
    BY <1>1, <2>1, <2>2 DEF addVars
<1>2. ASSUME NEW c \in Cpus, NEW v \in Vcpus, fcfs_scheduler_add(c, v), UNCHANGED <<needed, pc>>,
             pc[c] \in {"boot", "timer"}
      PROVE  /\ adding'[d] # None => WillDecide(d)'
             /\ adding'[d] = None => flagging'[d] = {}
  <2>1. CASE d = c
    <3>1. adding'[d] = v /\ flagging'[d] = Cpus
      BY <1>2, <2>1 DEF fcfs_scheduler_add, TypeOK
    <3>2. WillDecide(d)'
      BY <1>2, <2>1, <3>1 DEF WillDecide
    <3>. QED
      BY <3>1, <3>2, VcpuAssumption
  <2>2. CASE d # c
    <3>1. adding'[d] = adding[d] /\ flagging'[d] = flagging[d]
      BY <1>2, <2>2 DEF fcfs_scheduler_add, TypeOK
    <3>. QED
      BY <1>2, <3>1 DEF AddersDecide, WillDecide
  <2>. QED
    BY <2>1, <2>2
<1>3. ASSUME NEW c \in Cpus, RaiseFlag(c)
      PROVE  /\ adding'[d] # None => WillDecide(d)'
             /\ adding'[d] = None => flagging'[d] = {}
  <2>1. ~StartScan(d) /\ UNCHANGED <<pc, adding>>
    BY <1>3 DEF RaiseFlag, StartScan, Move, TypeOK
  <2>2. flagging[d] = {} => flagging'[d] = {}
    <3>1. PICK b \in flagging[c] : flagging' = [flagging EXCEPT ![c] = @ \ {b}]
      BY <1>3 DEF RaiseFlag
    <3>. QED
      BY <3>1 DEF TypeOK
  <2>3. adding[d] # None => pc[d] \in {"boot", "timer"}
    BY DEF BootOrder
  <2>4. ASSUME adding[d] # None PROVE WillDecide(d)'
    <3>1. WillDecide(d)
      BY <2>4 DEF AddersDecide, WillDecide
    <3>2. pc'[d] # "panic"
      BY <2>1, <2>3, <2>4
    <3>. QED
      BY <2>1, <3>1, <3>2, DeciderStays
  <2>. QED
    BY <2>1, <2>2, <2>4 DEF AddersDecide
<1>4. ASSUME NEW c \in Cpus, Link(c)
      PROVE  /\ adding'[d] # None => WillDecide(d)'
             /\ adding'[d] = None => flagging'[d] = {}
  <2>1. /\ flagging[c] = {}
        /\ UNCHANGED <<pc, needed, flagging>>
        /\ adding' = [adding EXCEPT ![c] = None]
    BY <1>4 DEF Link, cpuVars
  <2>2. adding'[d] = IF d = c THEN None ELSE adding[d]
    BY <2>1 DEF TypeOK
  <2>. QED
    BY <2>1, <2>2 DEF AddersDecide, WillDecide
<1>5. ASSUME NEW v \in Vcpus, CreateVm(v)
      PROVE  fcfs_scheduler_add(Primary, v) /\ UNCHANGED <<needed, pc>> /\ pc[Primary] = "boot"
  BY <1>5 DEF CreateVm, vcpu_ready
<1>6. ASSUME NEW c \in Cpus, NEW v \in Vcpus, TimerEvent(c, v)
      PROVE  fcfs_scheduler_add(c, v) /\ UNCHANGED <<needed, pc>> /\ pc[c] = "timer"
  BY <1>6 DEF TimerEvent, TimerMatchesSleep, vcpu_ready
<1>7. ASSUME NEW c \in Cpus, ~(RaiseFlag(c) \/ Link(c)),
             \/ StartPrimary \/ StartSecondary(c) \/ Trap(c) \/ SecurityTrap(c)
             \/ GuestPanic(c) \/ Tick(c) \/ IdleDeviceIrq(c) \/ TimerDone(c) \/ LogPanic(c)
             \/ StartScan(c) \/ NextLevel(c) \/ Wfi(c) \/ Shutdown(c) \/ Take(c)
             \/ Resume(c) \/ GoIdle(c) \/ (PanicInSwitch(c) /\ ~Take(c))
      PROVE  UNCHANGED addVars
  <2>1. CASE Resume(c) \/ GoIdle(c) \/ (PanicInSwitch(c) /\ ~Take(c))
    BY <2>1, NothingTaken
  <2>2. CASE ~(Resume(c) \/ GoIdle(c) \/ (PanicInSwitch(c) /\ ~Take(c)))
    BY <1>7, <2>2 DEF StartPrimary, StartSecondary, Trap, SecurityTrap, GuestPanic, Tick,
       IdleDeviceIrq, HypFault, TimerDone, LogPanic, StartScan, NextLevel, Wfi, Shutdown, Take,
       addVars, vars
  <2>. QED
    BY <2>1, <2>2
<1>8. CASE UNCHANGED vars
  BY <1>1, <1>8 DEF vars
<1>9. CASE Next
  BY <1>1, <1>2, <1>3, <1>4, <1>5, <1>6, <1>7, <1>9, StepKinds, CpuAssumption
<1>. QED
  BY <1>8, <1>9

(* cpu_hlt is the end of a CPU. *)
LEMMA PanicStays ==
  ASSUME IInv, [Next]_vars, NEW d \in Cpus, pc[d] = "panic"
  PROVE  pc'[d] = "panic"
<1> USE DEF IInv
<1>1. ASSUME NEW c \in Cpus,
             \/ StartPrimary \/ StartSecondary(c) \/ Trap(c) \/ SecurityTrap(c)
             \/ GuestPanic(c) \/ Tick(c) \/ IdleDeviceIrq(c) \/ TimerDone(c) \/ LogPanic(c)
             \/ RaiseFlag(c) \/ Link(c) \/ StartScan(c) \/ NextLevel(c) \/ Wfi(c) \/ Shutdown(c)
      PROVE  pc'[d] = "panic"
  <2>1. \/ pc' = pc
        \/ \E b \in Cpus : /\ pc[b] # "panic"
                           /\ \E place \in Places : pc' = [pc EXCEPT ![b] = place]
    BY <1>1, CpuAssumption
       DEF StartPrimary, StartSecondary, Trap, SecurityTrap, GuestPanic, Tick, IdleDeviceIrq,
           HypFault, TimerDone, LogPanic, RaiseFlag, Link, StartScan, NextLevel, Wfi, Shutdown,
           Move, vars, cpuVars, Places
  <2>. QED
    BY <2>1 DEF TypeOK
<1>2. ASSUME NEW c \in Cpus, Resume(c) \/ GoIdle(c) \/ (PanicInSwitch(c) /\ ~Take(c))
      PROVE  pc'[d] = "panic"
  BY <1>2, NothingTaken DEF NothingFound, NotAsked, TypeOK
<1>3. ASSUME NEW c \in Cpus, Take(c), ScheduleNext(c) \/ PanicInSwitch(c)
      PROVE  pc'[d] = "panic"
  BY <1>3 DEF Take, ScheduleNext, PanicInSwitch, Move, TypeOK
<1>4. ASSUME NEW v \in Vcpus, CreateVm(v) \/ \E c \in Cpus : TimerEvent(c, v)
      PROVE  pc'[d] = "panic"
  BY <1>4 DEF CreateVm, TimerEvent
<1>5. CASE UNCHANGED vars
  BY <1>5 DEF vars, cpuVars
<1>6. CASE Next
  BY <1>1, <1>2, <1>3, <1>4, <1>6, StepKinds
<1>. QED
  BY <1>5, <1>6

(* While a CPU scans, nobody else moves the scan. *)
LEMMA LevelRises ==
  ASSUME IInv, [Next]_vars, NEW c \in Cpus, pc[c] = "scan", pc'[c] = "scan", ~(level' <= level)
  PROVE  ready[level] = <<>> /\ level' = level + 1
<1> USE DEF IInv
<1>1. holder = c
  BY DEF OneScan
<1>2. level \in Nat
  BY DEF TypeOK, Priorities
<1>3. ASSUME UNCHANGED level PROVE FALSE
  BY <1>2, <1>3
<1>4. ASSUME level' = 0 PROVE FALSE
  BY <1>2, <1>4
<1>5. ASSUME NEW d \in Cpus, NextLevel(d) PROVE ready[level] = <<>> /\ level' = level + 1
  BY <1>5 DEF NextLevel
<1>6. ASSUME NEW d \in Cpus,
             \/ StartPrimary \/ StartSecondary(d) \/ Trap(d) \/ SecurityTrap(d)
             \/ GuestPanic(d) \/ Tick(d) \/ IdleDeviceIrq(d) \/ TimerDone(d) \/ LogPanic(d)
             \/ RaiseFlag(d) \/ Link(d) \/ StartScan(d) \/ Wfi(d) \/ Shutdown(d)
             \/ Resume(d) \/ GoIdle(d) \/ ScheduleNext(d) \/ PanicInSwitch(d)
      PROVE  level' \in {level, 0}
  BY <1>6 DEF StartPrimary, StartSecondary, Trap, SecurityTrap, GuestPanic, Tick, IdleDeviceIrq,
     TimerDone, LogPanic, RaiseFlag, Link, StartScan, Wfi, Shutdown, Resume, GoIdle, ScheduleNext,
     PanicInSwitch, Unlock, vars, lockVars
<1>7. ASSUME NEW v \in Vcpus, CreateVm(v) \/ \E d \in Cpus : TimerEvent(d, v)
      PROVE  UNCHANGED level
  BY <1>7 DEF CreateVm, TimerEvent, lockVars
<1>8. CASE UNCHANGED vars
  BY <1>3, <1>8 DEF vars, lockVars
<1>9. CASE Next
  BY <1>3, <1>4, <1>5, <1>6, <1>7, <1>9, StepKinds
<1>. QED
  BY <1>8, <1>9

(* A vcpu that is READY and in no list is being added: its adder decides. *)
LEMMA UnlistedIsAwaited ==
  ASSUME IInv, AddersDecide, NEW v \in Vcpus, state[v] = "READY", ready[priority[v]] = <<>>
  PROVE  \E e \in Cpus : WillDecide(e) /\ pc[e] \in {"boot", "timer"}
<1>1. PICK e \in Cpus : adding[e] = v
  BY EmptySeq DEF IInv, QueueMatchesState, ReadyAreListed
<1>2. WillDecide(e)
  BY <1>1 DEF AddersDecide, WillDecide
<1>3. pc[e] \in {"boot", "timer"}
  BY <1>1 DEF IInv, BootOrder
<1>. QED
  BY <1>2, <1>3

(* A vcpu becomes READY in a step of a CPU that begins to add it. *)
LEMMA NewReady ==
  ASSUME IInv, IInv', AddersDecide', [Next]_vars, NEW v \in Vcpus,
         state[v] # "READY", state'[v] = "READY"
  PROVE  \E e \in Cpus : WillDecide(e)' /\ pc'[e] \in {"boot", "timer"}
<1> USE DEF IInv
<1>1. ASSUME NEW c \in Cpus, NEW u \in Vcpus, fcfs_scheduler_add(c, u),
             state' = [state EXCEPT ![u] = "READY"]
      PROVE  \E e \in Cpus : WillDecide(e)' /\ pc'[e] \in {"boot", "timer"}
  <2>1. adding'[c] = u
    BY <1>1 DEF fcfs_scheduler_add, TypeOK
  <2>2. WillDecide(c)'
    BY <2>1, VcpuAssumption DEF AddersDecide, WillDecide
  <2>3. pc'[c] \in {"boot", "timer"}
    BY <2>1, VcpuAssumption DEF BootOrder
  <2>. QED
    BY <2>2, <2>3
<1>2. ASSUME NEW u \in Vcpus, CreateVm(u)
      PROVE  fcfs_scheduler_add(Primary, u) /\ state' = [state EXCEPT ![u] = "READY"]
  BY <1>2 DEF CreateVm, vcpu_ready
<1>3. ASSUME NEW c \in Cpus, NEW u \in Vcpus, TimerEvent(c, u)
      PROVE  fcfs_scheduler_add(c, u) /\ state' = [state EXCEPT ![u] = "READY"]
  BY <1>3 DEF TimerEvent, TimerMatchesSleep, vcpu_ready
<1>4. ASSUME NEW c \in Cpus, Wfi(c) \/ Shutdown(c) PROVE FALSE
  <2>1. current[c] \in Vcpus /\ state[current[c]] = "RUN"
    BY <1>4, GuestVcpu DEF Wfi, Shutdown
  <2>2. \E s \in {"SLEEP", "INIT"} : state' = [state EXCEPT ![current[c]] = s]
    BY <1>4, <2>1 DEF Wfi, Shutdown, vcpu_sleep, vcpu_off
  <2>. QED
    BY <2>1, <2>2 DEF TypeOK
<1>5. ASSUME NEW c \in Cpus, Take(c) PROVE FALSE
  BY <1>5, TakeFacts DEF TypeOK
<1>6. state' # state
  OBVIOUS
<1>7. CASE UNCHANGED vars
  BY <1>6, <1>7 DEF vars, vcpuVars
<1>8. CASE Next
  BY <1>1, <1>2, <1>3, <1>4, <1>5, <1>6, <1>8, StepKinds, NoTransition, CpuAssumption
<1>. QED
  BY <1>7, <1>8

(* What the scan has passed, it has passed for somebody else to find. *)
LEMMA PassedIsAwaitedStep ==
  ASSUME IInv, AddersDecide, PassedIsAwaited, [Next]_vars
  PROVE  PassedIsAwaited'
<1> USE DEF IInv
<1>1. IInv' /\ AddersDecide'
  BY NextIInv, AddersDecideStep
<1> SUFFICES ASSUME NEW c \in Cpus, NEW u \in Vcpus,
                    pc'[c] = "scan", state'[u] = "READY", priority[u] < level'
             PROVE  \E d \in Cpus \ {c} : WillDecide(d)' \/ pc'[d] = "panic"
  BY DEF PassedIsAwaited
<1>2. priority[u] \in Nat
  BY DEF Priorities
<1>3. CASE state[u] # "READY"
  <2>1. PICK e \in Cpus : WillDecide(e)' /\ pc'[e] \in {"boot", "timer"}
    BY <1>1, <1>3, NewReady
  <2>. QED
    BY <2>1
<1>4. CASE state[u] = "READY" /\ pc[c] # "scan"
  <2>1. StartScan(c)
    <3>1. ASSUME NEW d \in Cpus, ~StartScan(d),
                 \/ StartPrimary \/ StartSecondary(d) \/ Trap(d) \/ SecurityTrap(d)
                 \/ GuestPanic(d) \/ Tick(d) \/ IdleDeviceIrq(d) \/ TimerDone(d) \/ LogPanic(d)
                 \/ RaiseFlag(d) \/ Link(d) \/ NextLevel(d) \/ Wfi(d) \/ Shutdown(d)
                 \/ Resume(d) \/ GoIdle(d) \/ ScheduleNext(d) \/ PanicInSwitch(d)
          PROVE  FALSE
      <4>1. pc' = pc \/ \E b \in Cpus, place \in Places \ {"scan"} : pc' = [pc EXCEPT ![b] = place]
        BY <3>1, CpuAssumption
           DEF StartPrimary, StartSecondary, Trap, SecurityTrap, GuestPanic, Tick, IdleDeviceIrq,
               HypFault, TimerDone, LogPanic, RaiseFlag, Link, NextLevel, Wfi, Shutdown, Resume,
               GoIdle, ScheduleNext, PanicInSwitch, Move, vars, cpuVars, Places
      <4>. QED
        BY <1>4, <4>1 DEF TypeOK
    <3>2. \A v \in Vcpus : ~CreateVm(v) /\ \A d \in Cpus : ~TimerEvent(d, v)
      BY <1>4 DEF CreateVm, TimerEvent
    <3>3. CASE UNCHANGED vars
      BY <1>4, <3>3 DEF vars, cpuVars
    <3>4. \A d \in Cpus : StartScan(d) => d = c
      BY <1>4 DEF StartScan, Move, TypeOK
    <3>. QED
      BY <3>1, <3>2, <3>3, <3>4, StepKinds
  <2>2. level' = 0
    BY <2>1 DEF StartScan
  <2>. QED
    BY <2>2, <1>2
<1>5. CASE state[u] = "READY" /\ pc[c] = "scan"
  <2>1. holder = c
    BY <1>5 DEF OneScan
  <2>2. \A d \in Cpus : ~StartScan(d)
    BY <2>1, CpuAssumption DEF StartScan
  <2>3. ASSUME NEW d \in Cpus \ {c}, WillDecide(d) \/ pc[d] = "panic"
        PROVE  WillDecide(d)' \/ pc'[d] = "panic"
    <3>1. CASE WillDecide(d)
      BY <2>2, <3>1, DeciderStays
    <3>2. CASE pc[d] = "panic"
      BY <3>2, PanicStays
    <3>. QED
      BY <2>3, <3>1, <3>2
  <2>4. \E d \in Cpus \ {c} : WillDecide(d) \/ pc[d] = "panic"
    <3>1. CASE priority[u] < level
      BY <1>5, <3>1 DEF PassedIsAwaited
    <3>2. CASE ~(priority[u] < level)
      <4>1. ready[level] = <<>> /\ level' = level + 1
        <5>1. level \in Nat /\ level' \in Nat
          BY <1>1 DEF TypeOK, Priorities
        <5>2. ~(level' <= level)
          BY <5>1, <1>2, <3>2
        <5>. QED
          BY <5>2, <1>5, LevelRises
      <4>2. priority[u] = level
        BY <1>2, <3>2, <4>1 DEF TypeOK, Priorities
      <4>3. PICK e \in Cpus : WillDecide(e) /\ pc[e] \in {"boot", "timer"}
        BY <1>5, <4>1, <4>2, UnlistedIsAwaited
      <4>. QED
        BY <1>5, <4>3
    <3>. QED
      BY <3>1, <3>2
  <2>. QED
    BY <2>3, <2>4
<1>. QED
  BY <1>3, <1>4, <1>5

(* Both invariants of the decisions hold in every reachable state. *)
LEMMA DecisionInvariance == Spec => [](IInv /\ DecisionInv)
<1>1. Init => DecisionInv
  BY DEF Init, DecisionInv, AddersDecide, PassedIsAwaited
<1>2. IInv /\ DecisionInv /\ [Next]_vars => DecisionInv'
  BY AddersDecideStep, PassedIsAwaitedStep DEF DecisionInv
<1>. QED
  BY <1>1, <1>2, Invariance, PTL DEF Spec

(* A CPU turns to a vcpu by the take of fcfs_schedule only. *)
LEMMA TurnsByTake ==
  ASSUME IInv, [Next]_vars, NEW c \in Cpus, NEW v \in Vcpus, current[c] # v, current'[c] = v
  PROVE  pc[c] = "scan" /\ priority[v] = level
<1> USE DEF IInv
<1>1. ASSUME NEW d \in Cpus, Take(d) PROVE pc[c] = "scan" /\ priority[v] = level
  <2>1. current' = [current EXCEPT ![d] = Head(ready[level])] /\ priority[Head(ready[level])] = level
    BY <1>1, TakeFacts
  <2>2. d = c /\ v = Head(ready[level])
    BY <2>1 DEF TypeOK
  <2>. QED
    BY <1>1, <2>1, <2>2 DEF Take
<1>2. ASSUME \A d \in Cpus : current'[d] \in {current[d], None} PROVE FALSE
  BY <1>2, VcpuAssumption
<1>3. ASSUME NEW d \in Cpus, Wfi(d) \/ Shutdown(d)
      PROVE  \A b \in Cpus : current'[b] \in {current[b], None}
  BY <1>3 DEF Wfi, Shutdown, vcpu_sleep, vcpu_off, LeaveCpu
<1>4. ASSUME NEW x \in Vcpus, CreateVm(x) \/ \E d \in Cpus : TimerEvent(d, x)
      PROVE  UNCHANGED current
  BY <1>4 DEF CreateVm, TimerEvent, TimerMatchesSleep, vcpu_ready
<1>5. ASSUME UNCHANGED current PROVE FALSE
  BY <1>2, <1>5
<1>6. CASE UNCHANGED vars
  BY <1>5, <1>6 DEF vars, cpuVars
<1>7. CASE Next
  BY <1>1, <1>2, <1>3, <1>4, <1>5, <1>7, StepKinds, NoTransition
<1>. QED
  BY <1>6, <1>7

(* The fixed priorities of fcfs_schedule, with its scan level by level and *)
(* its adds without the lock: whoever passes a more urgent vcpu over       *)
(* leaves it to a CPU that decides next.                                   *)
THEOREM PrioritiesRespected == Spec => MostUrgentFirst
<1>1. ASSUME IInv, DecisionInv, [Next]_vars, NEW c \in Cpus, NEW v \in Vcpus, NEW u \in Vcpus,
             current[c] # v, current'[c] = v, state[u] = "READY", priority[u] < priority[v]
      PROVE  \E d \in Cpus \ {c} : WillDecide(d) \/ pc[d] = "panic"
  BY <1>1, TurnsByTake DEF DecisionInv, PassedIsAwaited
<1>2. IInv /\ DecisionInv /\ [Next]_vars =>
        [\A c \in Cpus : \A v, u \in Vcpus :
           /\ current[c] # v
           /\ current'[c] = v
           /\ state[u] = "READY"
           /\ priority[u] < priority[v]
           => \E d \in Cpus \ {c} : WillDecide(d) \/ pc[d] = "panic"]_vars
  BY <1>1
<1>. QED
  BY <1>2, DecisionInvariance, PTL DEF Spec, MostUrgentFirst

-----------------------------------------------------------------------------
(* One vcpu on any number of CPUs, as init_vm_create sets it up. *)

OneVcpu == \A v, w \in Vcpus : v = w

(* A scan ends with a take, or with nothing found. *)
LEMMA ScanEnds ==
  ASSUME IInv, [Next]_vars, NEW c \in Cpus, pc[c] = "scan", pc'[c] # "scan", ~Take(c)
  PROVE  Resume(c) \/ GoIdle(c) \/ (PanicInSwitch(c) /\ ~Take(c))
<1> USE DEF IInv
<1>1. ASSUME NEW d \in Cpus,
             \/ StartPrimary \/ StartSecondary(d) \/ Trap(d) \/ SecurityTrap(d)
             \/ GuestPanic(d) \/ Tick(d) \/ IdleDeviceIrq(d) \/ TimerDone(d) \/ LogPanic(d)
             \/ RaiseFlag(d) \/ Link(d) \/ StartScan(d) \/ NextLevel(d) \/ Wfi(d) \/ Shutdown(d)
      PROVE  FALSE
  <2>1. \/ pc' = pc
        \/ \E b \in Cpus : /\ pc[b] # "scan"
                           /\ \E place \in Places : pc' = [pc EXCEPT ![b] = place]
    BY <1>1, CpuAssumption
       DEF StartPrimary, StartSecondary, Trap, SecurityTrap, GuestPanic, Tick, IdleDeviceIrq,
           HypFault, TimerDone, LogPanic, RaiseFlag, Link, StartScan, NextLevel, Wfi, Shutdown,
           Move, vars, cpuVars, Places
  <2>. QED
    BY <2>1 DEF TypeOK
<1>2. ASSUME NEW d \in Cpus, d # c,
             Resume(d) \/ GoIdle(d) \/ ScheduleNext(d) \/ PanicInSwitch(d)
      PROVE  FALSE
  BY <1>2 DEF Resume, GoIdle, ScheduleNext, PanicInSwitch, Move, TypeOK
<1>3. ASSUME NEW v \in Vcpus, CreateVm(v) \/ \E d \in Cpus : TimerEvent(d, v)
      PROVE  FALSE
  BY <1>3 DEF CreateVm, TimerEvent
<1>4. CASE UNCHANGED vars
  BY <1>4 DEF vars, cpuVars
<1>5. CASE Next
  BY <1>1, <1>2, <1>3, <1>5, StepKinds
<1>. QED
  BY <1>4, <1>5

(* With one vcpu, no step loses it or leaves it READY without a CPU on its *)
(* way to it.                                                              *)
LEMMA OneVcpuStep ==
  ASSUME IInv, AddersDecide, OneVcpu, NoVcpuLost, WorkIsAwaited, [Next]_vars
  PROVE  NoVcpuLost' /\ WorkIsAwaited'
<1> USE DEF IInv
<1>1. IInv' /\ AddersDecide'
  BY NextIInv, AddersDecideStep
<1>2. NoVcpuLost'
  <2>1. ASSUME NEW c \in Cpus, Take(c) PROVE NoVcpuLost'
    BY <2>1, TakeFacts DEF OneVcpu, NoVcpuLost, TypeOK
  <2>2. ASSUME NEW c \in Cpus, Wfi(c) \/ Shutdown(c) PROVE NoVcpuLost'
    <3>1. current[c] \in Vcpus /\ state[current[c]] = "RUN"
      BY <2>2, GuestVcpu DEF Wfi, Shutdown
    <3>2. \E s \in {"SLEEP", "INIT"} : state' = [state EXCEPT ![current[c]] = s]
      BY <2>2, <3>1 DEF Wfi, Shutdown, vcpu_sleep, vcpu_off
    <3>. QED
      BY <3>1, <3>2 DEF OneVcpu, NoVcpuLost, TypeOK
  <2>3. ASSUME NEW v \in Vcpus, CreateVm(v) \/ \E c \in Cpus : TimerEvent(c, v)
        PROVE  NoVcpuLost'
    <3>1. state' = [state EXCEPT ![v] = "READY"]
      BY <2>3 DEF CreateVm, TimerEvent, TimerMatchesSleep, vcpu_ready
    <3>. QED
      BY <3>1 DEF OneVcpu, NoVcpuLost, TypeOK
  <2>4. ASSUME UNCHANGED <<state, physCpu, current>> PROVE NoVcpuLost'
    BY <2>4 DEF NoVcpuLost
  <2>5. CASE UNCHANGED vars
    BY <2>4, <2>5 DEF vars, vcpuVars, cpuVars
  <2>6. CASE Next
    BY <2>1, <2>2, <2>3, <2>4, <2>6, StepKinds, NoTransition
  <2>. QED
    BY <2>5, <2>6
<1>3. WorkIsAwaited'
  <2> SUFFICES ASSUME NEW v \in Vcpus, state'[v] = "READY"
               PROVE  \E c \in Cpus : \/ WillDecide(c)'
                                      \/ (pc'[c] = "scan" /\ level' <= priority[v])
                                      \/ pc'[c] = "panic"
    BY DEF WorkIsAwaited
  <2>1. CASE state[v] # "READY"
    BY <1>1, <2>1, NewReady
  <2>2. CASE state[v] = "READY"
    <3>1. PICK c \in Cpus : \/ WillDecide(c)
                            \/ (pc[c] = "scan" /\ level <= priority[v])
                            \/ pc[c] = "panic"
      BY <2>2 DEF WorkIsAwaited
    <3>2. CASE pc[c] = "panic"
      BY <3>2, PanicStays
    <3>3. CASE WillDecide(c)
      <4>1. StartScan(c) => pc'[c] = "scan" /\ level' = 0
        BY DEF StartScan, Move, TypeOK
      <4>2. 0 <= priority[v]
        BY DEF Priorities
      <4>. QED
        BY <3>3, <4>1, <4>2, DeciderStays
    <3>4. CASE pc[c] = "scan" /\ level <= priority[v]
      <4>1. level \in Nat /\ level' \in Nat /\ priority[v] \in Nat /\ priority[v] <= MaxPriority
        BY <1>1 DEF TypeOK, Priorities
      <4>2. ASSUME NEW e \in Cpus, WillDecide(e), pc[e] \in {"boot", "timer"}
            PROVE  WillDecide(e)' \/ pc'[e] = "panic"
        BY <4>2, DeciderStays DEF StartScan
      <4>3. CASE pc'[c] = "scan" /\ level' <= level
        BY <3>4, <4>1, <4>3
      <4>4. CASE pc'[c] = "scan" /\ ~(level' <= level)
        <5>1. ready[level] = <<>> /\ level' = level + 1
          BY <3>4, <4>4, LevelRises
        <5>2. CASE level = priority[v]
          BY <2>2, <4>2, <5>1, <5>2, UnlistedIsAwaited
        <5>3. CASE level # priority[v]
          BY <3>4, <4>1, <4>4, <5>1, <5>3
        <5>. QED
          BY <5>2, <5>3
      <4>5. CASE pc'[c] # "scan"
        <5>1. ~Take(c)
          BY <2>2, TakeFacts DEF OneVcpu, TypeOK
        <5>2. CASE Resume(c) \/ GoIdle(c) \/ (PanicInSwitch(c) /\ ~Take(c))
          <6>1. level = MaxPriority /\ ready[level] = <<>>
            BY <3>4, <5>2, NothingTaken DEF NothingFound, NotAsked
          <6>2. level = priority[v]
            BY <3>4, <4>1, <6>1
          <6>. QED
            BY <2>2, <4>2, <6>1, <6>2, UnlistedIsAwaited
        <5>3. CASE ~(Resume(c) \/ GoIdle(c) \/ (PanicInSwitch(c) /\ ~Take(c)))
          BY <3>4, <4>5, <5>1, <5>3, ScanEnds
        <5>. QED
          BY <5>2, <5>3
      <4>. QED
        BY <4>3, <4>4, <4>5
    <3>. QED
      BY <3>1, <3>2, <3>3, <3>4
  <2>. QED
    BY <2>1, <2>2
<1>. QED
  BY <1>2, <1>3

(* So this holds in every reachable state. *)
LEMMA OneVcpuInvariance == ASSUME OneVcpu PROVE Spec => [](NoVcpuLost /\ WorkIsAwaited)
<1>1. Init => NoVcpuLost /\ WorkIsAwaited
  BY DEF Init, NoVcpuLost, WorkIsAwaited
<1>2. IInv /\ DecisionInv /\ NoVcpuLost /\ WorkIsAwaited /\ [Next]_vars
        => (NoVcpuLost /\ WorkIsAwaited)'
  BY OneVcpuStep DEF DecisionInv
<1>. QED
  BY <1>1, <1>2, DecisionInvariance, PTL DEF Spec

(* fcfs_schedule, which puts the vcpu it replaces nowhere, never replaces  *)
(* a running one: the only one that could be taken is that vcpu itself.    *)
THEOREM TheVcpuIsNotLost == ASSUME OneVcpu PROVE Spec => []NoVcpuLost
BY OneVcpuInvariance, PTL

(* A CPU that clears its flag and scans before the link may idle past the  *)
(* vcpu (fcfs_schedule.c:66-75, 125-135), and vcpu_off asks for no         *)
(* decision, but as long as the vcpu is READY some CPU is still on its way *)
(* to its list.                                                            *)
THEOREM TheVcpuIsAwaited == ASSUME OneVcpu PROVE Spec => []WorkIsAwaited
BY OneVcpuInvariance, PTL

-----------------------------------------------------------------------------
(* Any number of vcpus: how one gets lost. *)

Placed(v) == state[v] = "RUN" /\ physCpu[v] \in Cpus /\ current[physCpu[v]] = v

Lost(v) == state[v] = "RUN" /\ current[physCpu[v]] # v

(* The step in which a placed vcpu is lost. *)
LEMMA LossStep ==
  ASSUME IInv, [Next]_vars, NEW v \in Vcpus, Placed(v), Lost(v)'
  PROVE  \E c \in Cpus : current[c] = v /\ Take(c)
<1> USE DEF IInv
<1>1. ASSUME NEW c \in Cpus, Wfi(c) \/ Shutdown(c) PROVE FALSE
  <2>1. current[c] \in Vcpus /\ state[current[c]] = "RUN" /\ physCpu[current[c]] = c
    BY <1>1, GuestVcpu DEF Wfi, Shutdown
  <2>2. /\ \E s \in {"SLEEP", "INIT"} : state' = [state EXCEPT ![current[c]] = s]
        /\ LeaveCpu(current[c]) /\ physCpu' = physCpu
    BY <1>1, <2>1 DEF Wfi, Shutdown, vcpu_sleep, vcpu_off
  <2>3. v # current[c]
    BY <2>1, <2>2 DEF Lost, TypeOK
  <2>4. current'[physCpu[v]] = v
    BY <2>2, <2>3 DEF LeaveCpu, Placed
  <2>. QED
    BY <2>2, <2>4 DEF Lost
<1>2. ASSUME NEW u \in Vcpus, CreateVm(u) PROVE FALSE
  BY <1>2 DEF CreateVm, vcpu_ready, Placed, Lost, TypeOK
<1>3. ASSUME NEW c \in Cpus, NEW u \in Vcpus, TimerEvent(c, u) PROVE FALSE
  <2>1. state[u] = "SLEEP"
    BY <1>3 DEF TimerEvent, TimerMatchesSleep
  <2>. QED
    BY <1>3, <2>1 DEF TimerEvent, vcpu_ready, Placed, Lost
<1>4. ASSUME NEW c \in Cpus, Take(c) PROVE current[c] = v
  <2>1. /\ Head(ready[level]) \in Vcpus
        /\ state[Head(ready[level])] = "READY"
        /\ physCpu' = [physCpu EXCEPT ![Head(ready[level])] = c]
        /\ current' = [current EXCEPT ![c] = Head(ready[level])]
    BY <1>4, TakeFacts
  <2>2. physCpu'[v] = physCpu[v]
    BY <2>1 DEF TypeOK, Placed
  <2>. QED
    BY <2>1, <2>2 DEF Placed, Lost, TypeOK
<1>5. ASSUME UNCHANGED <<state, physCpu, current>> PROVE FALSE
  BY <1>5 DEF Placed, Lost
<1>6. CASE UNCHANGED vars
  BY <1>5, <1>6 DEF vars, vcpuVars, cpuVars
<1>7. CASE Next
  BY <1>1, <1>2, <1>3, <1>4, <1>5, <1>7, StepKinds, NoTransition
<1>. QED
  BY <1>6, <1>7

(* A running vcpu loses its CPU without being put back into a list in one  *)
(* way only: fcfs_schedule takes another one for that CPU.                 *)
THEOREM LostByPreemptionOnly ==
  Spec => [][\A v \in Vcpus : Placed(v) /\ Lost(v)' =>
               \E c \in Cpus : current[c] = v /\ Take(c)]_vars
<1>1. IInv /\ [Next]_vars =>
        [\A v \in Vcpus : Placed(v) /\ Lost(v)' =>
           \E c \in Cpus : current[c] = v /\ Take(c)]_vars
  BY LossStep
<1>. QED
  BY <1>1, Invariance, PTL DEF Spec
=============================================================================
