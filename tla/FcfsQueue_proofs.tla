-------------------------- MODULE FcfsQueue_proofs --------------------------
(***************************************************************************)
(* Proofs about the ready lists of FcfsQueue.  Two situations are safe for *)
(* every number of vcpus and priorities:                                   *)
(*   - one vcpu for each priority, as guest_vm.c sets it up, with any      *)
(*     number of CPUs that add and take vcpus at the same time;            *)
(*   - one CPU, with any number of vcpus in each list and with removals.   *)
(* In the second one the pointers are shown to implement ReadyQueue.       *)
(***************************************************************************)
EXTENDS FcfsQueue, FiniteSetTheorems, SequenceTheorems, TLAPS

-----------------------------------------------------------------------------
(* The lists. *)

LEMMA LeastNumber ==
  ASSUME NEW T, T \subseteq Nat, T # {}
  PROVE  \E m \in T : \A k \in T : m <= k
<1> DEFINE F == {0..n : n \in T}
           R == StrictSubsetOrdering(Nat)
           S == FiniteSubsetsOf(Nat)
<1>1. IsWellFoundedOn(R, S)
  BY FS_StrictSubsetOrderingWellFounded
<1>2. F \subseteq S /\ F # {}
  <2>1. ASSUME NEW n \in T PROVE (0..n) \in FiniteSubsetsOf(Nat)
    <3>1. IsFiniteSet(0..n)
      BY FS_Interval
    <3>2. (0..n) \in SUBSET Nat
      OBVIOUS
    <3> QED BY <3>1, <3>2 DEF FiniteSubsetsOf
  <2> QED BY <2>1
<1> HIDE DEF F, S, R
<1>3. \E x \in F : \A y \in F : ~ (<<y, x>> \in R)
  BY <1>1, <1>2, WFMin
<1>4. PICK m \in T : \A n \in T : ~ (<<0..n, 0..m>> \in R)
  BY <1>3 DEF F
<1>5. ASSUME NEW k \in T, k < m PROVE FALSE
  <2>1. (0..k) \subseteq (0..m) /\ (0..k) # (0..m) /\ 0..k \subseteq Nat /\ 0..m \subseteq Nat
    <3>1. m \in 0..m /\ m \notin 0..k
      BY <1>5
    <3> QED BY <3>1, <1>5
  <2>2. <<0..k, 0..m>> \in StrictSubsetOrdering(Nat)
    BY <2>1 DEF StrictSubsetOrdering
  <2> QED BY <1>4, <2>2 DEF R
<1> QED BY <1>4, <1>5

LEMMA IntervalSize ==
  ASSUME NEW n \in Nat
  PROVE  Cardinality(1..n) = n /\ Cardinality(0..(n - 1)) = n
<1>1. Cardinality(1..n) = IF 1 > n THEN 0 ELSE n - 1 + 1
  <2>1. 1 \in Int /\ n \in Int
    OBVIOUS
  <2> QED BY <2>1, FS_Interval
<1>2. Cardinality(0..(n - 1)) = IF 0 > n - 1 THEN 0 ELSE (n - 1) - 0 + 1
  <2>1. 0 \in Int /\ n - 1 \in Int
    OBVIOUS
  <2> QED BY <2>1, FS_Interval
<1> QED BY <1>1, <1>2

(* s is the sequence of the vcpus that the pointers of a priority lead to.  *)
Chain(p, s) ==
  /\ s \in Seq(Vcpus)
  /\ \A i, j \in DOMAIN s : s[i] = s[j] => i = j
  /\ head[p] = IF s = <<>> THEN None ELSE s[1]
  /\ \A i \in DOMAIN s : next[s[i]] = IF i = Len(s) THEN None ELSE s[i + 1]

(* What is at position n of a sequence, and None behind its end.            *)
At(s, n) == IF n < Len(s) THEN s[n + 1] ELSE None

LEMMA PointersFollow ==
  ASSUME NEW p, NEW s, Chain(p, s)
  PROVE  \A n \in 0..Cardinality(Vcpus) : Pointer(p)[n] = At(s, n)
<1> DEFINE N == Cardinality(Vcpus)
           D == 0..N
           g == [n \in D |-> At(s, n)]
           Follows(f) == f = [n \in D |-> IF n = 0 THEN head[p]
                                          ELSE IF f[n - 1] = None THEN None ELSE next[f[n - 1]]]
<1>1. N \in Nat /\ None \notin Vcpus
  BY FS_CardinalityType, QueueAssumption
<1>2. s \in Seq(Vcpus) /\ Len(s) \in Nat /\ DOMAIN s = 1..Len(s)
      /\ \A i \in 1..Len(s) : s[i] \in Vcpus
  BY LenProperties, ElementOfSeq DEF Chain
<1> HIDE DEF N
<1>3. Follows(g)
  <2>1. ASSUME NEW n \in D
        PROVE  At(s, n) = IF n = 0 THEN head[p]
                          ELSE IF g[n - 1] = None THEN None ELSE next[g[n - 1]]
    <3>1. CASE n = 0
      <4>1. s = <<>> <=> Len(s) = 0
        BY <1>2, EmptySeq
      <4> QED BY <3>1, <4>1, <1>2 DEF At, Chain
    <3>2. CASE n # 0
      <4>1. n - 1 \in D /\ g[n - 1] = At(s, n - 1)
        BY <3>2, <1>1
      <4>2. CASE n - 1 < Len(s)
        <5>1. n \in DOMAIN s /\ At(s, n - 1) = s[n] /\ s[n] # None
          BY <4>2, <3>2, <1>1, <1>2 DEF At
        <5>2. next[s[n]] = At(s, n)
          BY <5>1, <1>1, <1>2, <3>2 DEF At, Chain
        <5> QED BY <4>1, <5>1, <5>2, <3>2
      <4>3. CASE ~(n - 1 < Len(s))
        BY <4>3, <4>1, <3>2, <1>1, <1>2 DEF At
      <4> QED BY <4>2, <4>3
    <3> QED BY <3>1, <3>2
  <2> QED BY <2>1
<1>4. Follows(Pointer(p))
  BY <1>3 DEF Pointer, N
<1> DEFINE f == Pointer(p)
<1> HIDE DEF f, g
<1>5. ASSUME NEW n \in D, f[n] # g[n] PROVE FALSE
  <2> DEFINE T == {k \in D : f[k] # g[k]}
  <2>1. PICK m \in T : \A k \in T : m <= k
    <3>1. T \subseteq Nat /\ T # {}
      BY <1>1, <1>5
    <3> HIDE DEF T
    <3> QED BY <3>1, LeastNumber
  <2>2. f[m] = IF m = 0 THEN head[p] ELSE IF f[m - 1] = None THEN None ELSE next[f[m - 1]]
    BY <1>4 DEF f
  <2>3. g[m] = IF m = 0 THEN head[p] ELSE IF g[m - 1] = None THEN None ELSE next[g[m - 1]]
    BY <1>3
  <2>4. m # 0 => f[m - 1] = g[m - 1]
    BY <2>1, <1>1
  <2> QED BY <2>1, <2>2, <2>3, <2>4
<1>6. \A n \in D : f[n] = At(s, n)
  BY <1>5 DEF g
<1> QED BY <1>6 DEF f, N

(* List reads such a sequence.                                              *)
LEMMA ListIsChain ==
  ASSUME NEW p, NEW s, Chain(p, s)
  PROVE  List(p) = s
<1> DEFINE N == Cardinality(Vcpus)
<1>1. N \in Nat /\ None \notin Vcpus /\ IsFiniteSet(Vcpus)
  BY FS_CardinalityType, QueueAssumption
<1>2. s \in Seq(Vcpus) /\ Len(s) \in Nat /\ DOMAIN s = 1..Len(s)
      /\ \A i \in 1..Len(s) : s[i] \in Vcpus
  BY LenProperties, ElementOfSeq DEF Chain
<1>3. Len(s) <= N
  <2>1. s \in Injection(1..Len(s), Vcpus)
    BY <1>2 DEF Chain, Injection, IsInjective
  <2>2. Cardinality(1..Len(s)) = Len(s)
    BY <1>2, IntervalSize
  <2> QED BY <1>1, <2>1, <2>2, FS_Injection
<1>4. \A n \in 0..N : Pointer(p)[n] = At(s, n)
  BY PointersFollow
<1> HIDE DEF N
<1>5. {n \in 0..(N - 1) : Pointer(p)[n] # None} = 0..(Len(s) - 1)
  <2>1. \A n \in 0..(N - 1) : At(s, n) # None <=> n < Len(s)
    BY <1>1, <1>2 DEF At
  <2> QED BY <1>1, <1>2, <1>3, <1>4, <2>1
<1>6. Length(p) = Len(s)
  <2>1. Cardinality(0..(Len(s) - 1)) = Len(s)
    BY <1>2, IntervalSize
  <2> QED BY <1>5, <2>1 DEF Length, N
<1>7. List(p) = [n \in 1..Len(s) |-> s[n]]
  BY <1>1, <1>2, <1>3, <1>4, <1>6 DEF List, At
<1> QED BY <1>2, <1>7

-----------------------------------------------------------------------------
(* One vcpu for each priority. *)

OnePerPriority ==
  /\ Removers = {}
  /\ \A v, w \in Vcpus : priority[v] = priority[w] => v = w

Scanning == {"scan", "take", "unlink", "clear"}

(* Before their first write to the list. *)
NewAt(c, v) == pc[c] \in {"test", "first"} /\ who[c] = v

TakenAt(c, v) == pc[c] = "clear" /\ who[c] = v

(* The lock: only its holder is in fcfs_schedule.                           *)
LockInv ==
  /\ holder \in Cpus \cup {None}
  /\ pc \in [Cpus -> Places]
  /\ level \in [Cpus -> 0..MaxPriority + 1]
  /\ \A c \in Cpus : pc[c] \in Scanning => holder = c
  /\ \A c \in Cpus : pc[c] \in Scanning \ {"scan"} => level[c] \in Priorities

(* A list is empty or holds its one vcpu, so nothing is ever appended.      *)
HeadsInv ==
  /\ head \in [Priorities -> Vcpus \cup {None}]
  /\ \A p \in Priorities :
       head[p] # None => priority[head[p]] = p /\ status[head[p]] = "ready"
  /\ \A c \in Cpus : pc[c] # "append"
  /\ next = [v \in Vcpus |-> None]
  /\ succ = [c \in Cpus |-> None]

WhoInv ==
  /\ status \in [Vcpus -> {"out", "ready", "run"}]
  /\ who \in [Cpus -> Vcpus \cup {None}]
  /\ \A c \in Cpus : who[c] = None => pc[c] \in {"out", "scan", "take"}

(* A READY vcpu is in its list, or on its way into it or out of it.         *)
ReadyInv ==
  \A v \in Vcpus : status[v] = "ready" =>
    \/ head[priority[v]] = v
    \/ \E c \in Cpus : NewAt(c, v) \/ TakenAt(c, v)

(* One CPU at a time is about to add it.                                    *)
NewInv ==
  \A c \in Cpus, v \in Vcpus : NewAt(c, v) =>
    /\ status[v] = "ready" /\ head[priority[v]] = None
    /\ \A d \in Cpus : (NewAt(d, v) => d = c) /\ ~TakenAt(d, v)

(* What the CPU in fcfs_schedule has read is still so.                      *)
TakeInv ==
  \A c \in Cpus :
    /\ pc[c] = "take" => head[level[c]] # None
    /\ pc[c] = "unlink" => who[c] = head[level[c]]
    /\ pc[c] = "clear" => status[who[c]] = "ready" /\ head[priority[who[c]]] = None

RestInv ==
  /\ tail \in [Priorities -> Vcpus \cup {None}]
  /\ needed \in [Cpus -> BOOLEAN]

IInv == LockInv /\ HeadsInv /\ WhoInv /\ ReadyInv /\ NewInv /\ TakeInv /\ RestInv

LEMMA InitInv == Init => IInv
<1> SUFFICES ASSUME Init PROVE IInv
  OBVIOUS
<1>1. LockInv
  BY QueueAssumption DEF Init, LockInv, Scanning, Places
<1>2. HeadsInv
  BY QueueAssumption DEF Init, HeadsInv, EmptyList
<1>3. WhoInv /\ ReadyInv /\ NewInv /\ TakeInv
  BY QueueAssumption DEF Init, WhoInv, ReadyInv, NewInv, TakeInv, NewAt, TakenAt, EmptyList
<1>4. RestInv
  BY QueueAssumption DEF Init, RestInv, EmptyList
<1> QED BY <1>1, <1>2, <1>3, <1>4 DEF IInv

(* The lock needs no hypothesis on the priorities.                          *)
LEMMA LockStep ==
  ASSUME LockInv, [Next]_vars
  PROVE  LockInv'
<1> USE QueueAssumption DEF LockInv, Scanning, Places, Priorities, Goto, LockFree
<1>1. ASSUME NEW c \in Cpus, NEW v \in Vcpus, AddStart(c, v) PROVE LockInv'
  BY <1>1 DEF AddStart
<1>2. ASSUME NEW c \in Cpus, Adding(c) PROVE LockInv'
  BY <1>2 DEF Adding, AddTest, AddFirst, AddAppend, AddTail, AddEnd
<1>3. ASSUME NEW c \in Cpus, TakeLock(c) PROVE LockInv'
  BY <1>3 DEF TakeLock, EnterSchedule
<1>4. ASSUME NEW c \in Cpus, ScanLevel(c) PROVE LockInv'
  BY <1>4 DEF ScanLevel
<1>5. ASSUME NEW c \in Cpus, ScanFails(c) PROVE LockInv'
  BY <1>5 DEF ScanFails
<1>6. ASSUME NEW c \in Cpus, TakeHead(c) PROVE LockInv'
  BY <1>6 DEF TakeHead
<1>7. ASSUME NEW c \in Cpus, TakeUnlink(c) PROVE LockInv'
  BY <1>7 DEF TakeUnlink
<1>8. ASSUME NEW c \in Cpus, TakeEnd(c) PROVE LockInv'
  BY <1>8 DEF TakeEnd
<1>9. ASSUME UNCHANGED <<holder, pc, level>> PROVE LockInv'
  BY <1>9
<1> QED BY <1>1, <1>2, <1>3, <1>4, <1>5, <1>6, <1>7, <1>8, <1>9
        DEF Next, Taking, Remove, Leave, vars, cpuVars

LEMMA RestStep ==
  ASSUME IInv, [Next]_vars, OnePerPriority
  PROVE  RestInv'
<1> USE QueueAssumption DEF IInv, RestInv, WhoInv, OnePerPriority
<1>1. ASSUME NEW c \in Cpus, AddTail(c) PROVE RestInv'
  BY <1>1 DEF AddTail
<1>2. ASSUME NEW c \in Cpus, NEW v \in Vcpus, AddStart(c, v) PROVE RestInv'
  BY <1>2 DEF AddStart, listVars
<1>3. ASSUME NEW c \in Cpus, TakeLock(c) PROVE RestInv'
  BY <1>3 DEF TakeLock, EnterSchedule, listVars
<1>4. ASSUME UNCHANGED <<tail, needed>> PROVE RestInv'
  BY <1>4
<1> QED BY <1>1, <1>2, <1>3, <1>4 
        DEF Next, Taking, Adding, AddTest, AddFirst, AddAppend, AddEnd, ScanLevel, ScanFails,
            TakeHead, TakeUnlink, TakeEnd, Remove, Leave, vars, listVars
LEMMA Busy ==
  ASSUME IInv, NEW c \in Cpus, pc[c] \notin {"out", "scan", "take"}
  PROVE  who[c] \in Vcpus /\ priority[who[c]] \in Priorities
BY QueueAssumption DEF IInv, WhoInv

LEMMA HeadsStep ==
  ASSUME IInv, [Next]_vars, OnePerPriority
  PROVE  HeadsInv'
<1> USE QueueAssumption DEF IInv, HeadsInv, OnePerPriority, Goto
<1>1. ASSUME NEW c \in Cpus, NEW v \in Vcpus, AddStart(c, v) PROVE HeadsInv'
  BY <1>1 DEF AddStart, listVars, WhoInv, LockInv
<1>2. ASSUME NEW c \in Cpus, AddTest(c) PROVE HeadsInv'
  <2>1. who[c] \in Vcpus
    BY <1>2, Busy DEF AddTest
  <2>2. LooksEmpty(priority[who[c]])
    BY <1>2, <2>1 DEF AddTest, NewAt, NewInv, LooksEmpty
  <2> QED BY <1>2, <2>2 DEF AddTest, listVars, LockInv
<1>3. ASSUME NEW c \in Cpus, AddFirst(c) PROVE HeadsInv'
  <2>1. who[c] \in Vcpus /\ priority[who[c]] \in Priorities
    BY <1>3, Busy DEF AddFirst
  <2>2. status[who[c]] = "ready"
    BY <1>3, <2>1 DEF AddFirst, NewAt, NewInv
  <2> QED BY <1>3, <2>1, <2>2 DEF AddFirst, LockInv
<1>4. ASSUME NEW c \in Cpus, AddTail(c) PROVE HeadsInv'
  BY <1>4 DEF AddTail, LockInv
<1>5. ASSUME NEW c \in Cpus, AddEnd(c) PROVE HeadsInv'
  BY <1>5 DEF AddEnd, LockInv
<1>6. ASSUME NEW c \in Cpus, TakeLock(c) \/ ScanLevel(c) \/ ScanFails(c) PROVE HeadsInv'
  BY <1>6 DEF TakeLock, EnterSchedule, ScanLevel, ScanFails, listVars, LockInv
<1>7. ASSUME NEW c \in Cpus, TakeHead(c) PROVE HeadsInv'
  <2>1. head[level[c]] \in Vcpus
    BY <1>7 DEF TakeHead, TakeInv, LockInv, Scanning
  <2> QED BY <1>7, <2>1 DEF TakeHead, listVars, LockInv
<1>8. ASSUME NEW c \in Cpus, TakeUnlink(c) PROVE HeadsInv'
  BY <1>8 DEF TakeUnlink, NewHead, LockInv, Scanning
<1>9. ASSUME NEW c \in Cpus, TakeEnd(c) PROVE HeadsInv'
  <2>1. who[c] \in Vcpus
    BY <1>9, Busy DEF TakeEnd
  <2>2. head[priority[who[c]]] = None
    BY <1>9 DEF TakeEnd, TakeInv
  <2>3. \A p \in Priorities : head[p] # None => head[p] # who[c]
    BY <2>2
  <2> QED BY <1>9, <2>1, <2>3 DEF TakeEnd, LockInv, WhoInv
<1>10. ASSUME NEW v \in Vcpus, Leave(v) PROVE HeadsInv'
  BY <1>10 DEF Leave, listVars, cpuVars, WhoInv
<1>11. ASSUME UNCHANGED vars PROVE HeadsInv'
  BY <1>11 DEF vars, listVars, cpuVars
<1> QED BY <1>1, <1>2, <1>3, <1>4, <1>5, <1>6, <1>7, <1>8, <1>9, <1>10, <1>11
        DEF Next, Taking, Adding, AddAppend, Remove

VcpuInv == WhoInv /\ ReadyInv /\ NewInv /\ TakeInv

LEMMA VcpuStep ==
  ASSUME IInv, [Next]_vars, OnePerPriority
  PROVE  VcpuInv'
<1> USE QueueAssumption DEF IInv, OnePerPriority, Goto
<1>1. ASSUME NEW c \in Cpus, NEW v \in Vcpus, AddStart(c, v) PROVE VcpuInv'
  <2>1. head[priority[v]] = None
    BY <1>1 DEF AddStart, HeadsInv
  <2>2. \A d \in Cpus : ~NewAt(d, v) /\ ~TakenAt(d, v)
    BY <1>1 DEF AddStart, NewAt, TakenAt, NewInv, TakeInv
  <2>3. \A d \in Cpus \ {c} : who'[d] = who[d] /\ pc'[d] = pc[d]
    BY <1>1 DEF AddStart, LockInv, WhoInv
  <2>4. who'[c] = v /\ pc'[c] = "test" /\ head' = head /\ level' = level
    BY <1>1 DEF AddStart, LockInv, WhoInv, listVars
  <2>5. \A u \in Vcpus : status'[u] = IF u = v THEN "ready" ELSE status[u]
    BY <1>1 DEF AddStart, WhoInv
  <2>6. WhoInv'
    BY <1>1, <2>3, <2>4 DEF AddStart, WhoInv, LockInv
  <2>7. ReadyInv'
    BY <2>3, <2>4, <2>5, <1>1 DEF ReadyInv, NewAt, TakenAt, AddStart
  <2>8. NewInv'
    BY <2>1, <2>2, <2>3, <2>4, <2>5 DEF NewInv, NewAt, TakenAt
  <2>9. TakeInv'
    <3>1. \A d \in Cpus : pc[d] = "clear" => who[d] \in Vcpus
      BY Busy
    <3> QED BY <2>2, <2>3, <2>4, <2>5, <3>1 DEF TakeInv, TakenAt
  <2> QED BY <2>6, <2>7, <2>8, <2>9 DEF VcpuInv
<1>2. ASSUME NEW c \in Cpus, AddTest(c) PROVE VcpuInv'
  <2>1. LooksEmpty(priority[who[c]])
    BY <1>2, Busy DEF AddTest, NewAt, NewInv, LooksEmpty
  <2> QED BY <1>2, <2>1 DEF AddTest, listVars, LockInv, VcpuInv, WhoInv, ReadyInv, NewInv, TakeInv, NewAt, TakenAt
<1>3. ASSUME NEW c \in Cpus, AddFirst(c) PROVE VcpuInv'
  <2>1. who[c] \in Vcpus /\ priority[who[c]] \in Priorities /\ NewAt(c, who[c])
    BY <1>3, Busy DEF AddFirst, NewAt
  <2>2. head[priority[who[c]]] = None /\ status[who[c]] = "ready"
        /\ \A d \in Cpus : (NewAt(d, who[c]) => d = c) /\ ~TakenAt(d, who[c])
    BY <2>1 DEF NewInv
  <2>3. \A d \in Cpus : pc[d] \in {"take", "unlink"} => level[d] # priority[who[c]]
    BY <2>1, <2>2 DEF TakeInv, LockInv, Scanning, WhoInv
  <2>4. pc' = [pc EXCEPT ![c] = "tail"] /\ UNCHANGED <<who, status, level>>
    BY <1>3 DEF AddFirst
  <2>5. \A p \in Priorities : head'[p] = IF p = priority[who[c]] THEN who[c] ELSE head[p]
    BY <1>3 DEF AddFirst, HeadsInv
  <2>6. WhoInv'
    BY <2>1, <2>4, QueueAssumption DEF WhoInv, LockInv
  <2>7. ReadyInv'
    BY <2>1, <2>4, <2>5 DEF ReadyInv, NewAt, TakenAt, LockInv
  <2>8. NewInv'
    BY <2>1, <2>2, <2>4, <2>5 DEF NewInv, NewAt, TakenAt, LockInv
  <2>9. TakeInv'
    BY <2>2, <2>3, <2>4, <2>5 DEF TakeInv, TakenAt, LockInv, Scanning, WhoInv
  <2> QED BY <2>6, <2>7, <2>8, <2>9 DEF VcpuInv
<1>4. ASSUME NEW c \in Cpus, AddTail(c) \/ AddEnd(c) PROVE VcpuInv'
  <2>1. pc[c] \in {"tail", "end"} /\ head' = head /\ level' = level /\ status' = status
    BY <1>4 DEF AddTail, AddEnd
  <2>2. \/ who' = who /\ pc' = [pc EXCEPT ![c] = "end"]
        \/ who' = [who EXCEPT ![c] = None] /\ pc' = [pc EXCEPT ![c] = "out"]
    BY <1>4 DEF AddTail, AddEnd
  <2> QED BY <2>1, <2>2 DEF LockInv, VcpuInv, WhoInv, ReadyInv, NewInv, TakeInv, NewAt, TakenAt
<1>6. ASSUME NEW c \in Cpus, TakeLock(c) \/ ScanLevel(c) \/ ScanFails(c) PROVE VcpuInv'
  <2>1. /\ UNCHANGED <<head, who, status>> /\ pc[c] \in {"out", "scan"}
        /\ \A d \in Cpus \ {c} : pc'[d] = pc[d] /\ level'[d] = level[d]
        /\ pc'[c] \in {"out", "scan", "take"}
        /\ pc'[c] = "take" => head[level'[c]] # None
    BY <1>6 DEF TakeLock, EnterSchedule, ScanLevel, ScanFails, listVars, LockInv, Scanning
  <2> QED BY <2>1 DEF VcpuInv, WhoInv, ReadyInv, NewInv, TakeInv, NewAt, TakenAt
<1>7. ASSUME NEW c \in Cpus, TakeHead(c) PROVE VcpuInv'
  <2>1. head[level[c]] \in Vcpus
    BY <1>7 DEF TakeHead, TakeInv, LockInv, Scanning, HeadsInv
  <2>2. /\ UNCHANGED <<head, level, status>> /\ pc[c] = "take"
        /\ \A d \in Cpus \ {c} : pc'[d] = pc[d] /\ who'[d] = who[d]
        /\ pc'[c] = "unlink" /\ who'[c] = head[level[c]]
        /\ who' \in [Cpus -> Vcpus \cup {None}]
    BY <1>7, <2>1 DEF TakeHead, listVars, LockInv, WhoInv
  <2> QED BY <2>1, <2>2 DEF VcpuInv, WhoInv, ReadyInv, NewInv, TakeInv, NewAt, TakenAt
<1>8. ASSUME NEW c \in Cpus, TakeUnlink(c) PROVE VcpuInv'
  <2>1. who[c] \in Vcpus /\ pc[c] = "unlink" /\ who[c] = head[level[c]] /\ level[c] \in Priorities
    BY <1>8, Busy DEF TakeUnlink, TakeInv, LockInv, Scanning
  <2>2. priority[who[c]] = level[c] /\ status[who[c]] = "ready"
    BY <2>1 DEF HeadsInv
  <2>3. \A d \in Cpus \ {c} : pc[d] \notin Scanning
    BY <2>1 DEF LockInv, Scanning
  <2>4. /\ UNCHANGED <<who, level, status>> 
        /\ \A d \in Cpus \ {c} : pc'[d] = pc[d]
        /\ pc'[c] = "clear"
        /\ \A p \in Priorities : head'[p] = IF p = level[c] THEN None ELSE head[p]
    BY <1>8, <2>1 DEF TakeUnlink, NewHead, LockInv, HeadsInv
  <2>5. \A d \in Cpus : ~NewAt(d, who[c])
    BY <2>1, <2>2 DEF NewInv
  <2>6. WhoInv'
    BY <2>1, <2>4 DEF WhoInv
  <2>7. ReadyInv'
    BY <2>1, <2>2, <2>4 DEF ReadyInv, NewAt, TakenAt
  <2>8. NewInv'
    BY <2>1, <2>2, <2>3, <2>4, <2>5 DEF NewInv, NewAt, TakenAt
  <2>9. TakeInv'
    BY <2>1, <2>2, <2>3, <2>4 DEF TakeInv, Scanning
  <2> QED BY <2>6, <2>7, <2>8, <2>9 DEF VcpuInv
<1>9. ASSUME NEW c \in Cpus, TakeEnd(c) PROVE VcpuInv'
  <2>1. who[c] \in Vcpus /\ pc[c] = "clear" /\ head[priority[who[c]]] = None /\ TakenAt(c, who[c])
    BY <1>9, Busy DEF TakeEnd, TakeInv, TakenAt
  <2>2. \A d \in Cpus \ {c} : pc[d] \notin Scanning
    BY <2>1 DEF LockInv, Scanning
  <2>3. /\ UNCHANGED <<head, level>> 
        /\ \A d \in Cpus \ {c} : pc'[d] = pc[d] /\ who'[d] = who[d]
        /\ pc'[c] = "out" /\ who'[c] = None
        /\ \A v \in Vcpus : status'[v] = IF v = who[c] THEN "run" ELSE status[v]
        /\ status' \in [Vcpus -> {"out", "ready", "run"}]
        /\ who' \in [Cpus -> Vcpus \cup {None}]
    BY <1>9, <2>1 DEF TakeEnd, LockInv, WhoInv
  <2>4. \A d \in Cpus : ~NewAt(d, who[c])
    BY <2>1 DEF NewInv
  <2>6. WhoInv'
    BY <2>1, <2>3 DEF WhoInv
  <2>7. ReadyInv'
    BY <2>1, <2>3 DEF ReadyInv, NewAt, TakenAt
  <2>8. NewInv'
    BY <2>1, <2>2, <2>3, <2>4 DEF NewInv, NewAt, TakenAt
  <2>9. TakeInv'
    BY <2>1, <2>2, <2>3 DEF TakeInv, Scanning
  <2> QED BY <2>6, <2>7, <2>8, <2>9 DEF VcpuInv
<1>10. ASSUME NEW v \in Vcpus, Leave(v) PROVE VcpuInv'
  <2>1. /\ UNCHANGED <<head, who, pc, level>> /\ status[v] = "run"
        /\ \A u \in Vcpus : status'[u] = IF u = v THEN "out" ELSE status[u]
        /\ status' \in [Vcpus -> {"out", "ready", "run"}]
    BY <1>10 DEF Leave, listVars, cpuVars, WhoInv
  <2>2. \A d \in Cpus : pc[d] = "clear" => who[d] \in Vcpus
    BY Busy
  <2> QED BY <2>1, <2>2 DEF VcpuInv, WhoInv, ReadyInv, NewInv, TakeInv, NewAt, TakenAt
<1>11. ASSUME UNCHANGED vars PROVE VcpuInv'
  BY <1>11 DEF vars, listVars, cpuVars, VcpuInv, WhoInv, ReadyInv, NewInv, TakeInv, NewAt, TakenAt
<1> QED BY <1>1, <1>2, <1>3, <1>4, <1>6, <1>7, <1>8, <1>9, <1>10, <1>11
        DEF Next, Taking, Adding, AddAppend, Remove, HeadsInv

(* IInv holds in every reachable state.                                     *)
THEOREM LevelsInvariance == ASSUME OnePerPriority PROVE Spec => []IInv
<1>1. IInv /\ [Next]_vars => IInv'
  BY LockStep, HeadsStep, VcpuStep, RestStep DEF IInv, VcpuInv
<1> QED BY <1>1, InitInv, PTL DEF Spec

(* Two CPUs are never in fcfs_schedule at the same time, whatever the       *)
(* priorities are and whoever adds or removes vcpus.                        *)
THEOREM OneScheduler == Spec => [](\A c, d \in Cpus : pc[c] \in Scanning /\ pc[d] \in Scanning => c = d)
<1>1. Init => LockInv
  BY QueueAssumption DEF Init, LockInv, Scanning, Places
<1>2. LockInv /\ [Next]_vars => LockInv'
  BY LockStep
<1>3. LockInv => (\A c, d \in Cpus : pc[c] \in Scanning /\ pc[d] \in Scanning => c = d)
  BY DEF LockInv
<1> QED BY <1>1, <1>2, <1>3, PTL DEF Spec

(* No pointer is followed or stored that is not one to a vcpu.              *)
THEOREM LevelsTypeCorrect == ASSUME OnePerPriority PROVE Spec => []TypeOK
<1>1. IInv => TypeOK
  BY QueueAssumption DEF IInv, LockInv, HeadsInv, WhoInv, RestInv, TypeOK
<1> QED BY <1>1, LevelsInvariance, PTL

(* A READY vcpu that nobody is busy with is found in the list of its        *)
(* priority, although vcpu_ready takes no lock.                             *)
THEOREM LevelsLoseNoVcpu == ASSUME OnePerPriority PROVE Spec => []ReadyIsReachable
<1>1. ASSUME IInv PROVE ReadyIsReachable
  <2> SUFFICES ASSUME NEW v \in Vcpus, status[v] = "ready", \A c \in Cpus : who[c] # v
               PROVE  IsListed(v)
    BY DEF ReadyIsReachable
  <2>1. head[priority[v]] = v
    BY <1>1 DEF IInv, ReadyInv, NewAt, TakenAt
  <2>2. Chain(priority[v], <<v>>)
    <3>1. <<v>> \in Seq(Vcpus) /\ Len(<<v>>) = 1 /\ DOMAIN <<v>> = {1} /\ <<v>>[1] = v /\ <<v>> # <<>>
      OBVIOUS
    <3>2. next[v] = None
      BY <1>1 DEF IInv, HeadsInv
    <3> QED BY <2>1, <3>1, <3>2 DEF Chain
  <2>3. List(priority[v]) = <<v>>
    BY <2>2, ListIsChain
  <2> QED BY <2>3 DEF IsListed
<1> QED BY <1>1, LevelsInvariance, PTL

(* fcfs_schedule makes a vcpu active that is READY, and one CPU does.       *)
THEOREM LevelsTakeOnce == ASSUME OnePerPriority PROVE Spec => []TakenOnce
<1>1. ASSUME IInv PROVE TakenOnce
  <2> SUFFICES ASSUME NEW c \in Cpus, pc[c] \in {"unlink", "clear"}
               PROVE  /\ status[who[c]] = "ready"
                      /\ \A d \in Cpus \ {c} : pc[d] \in {"unlink", "clear"} => who[d] # who[c]
    BY DEF TakenOnce
  <2>1. who[c] \in Vcpus /\ level[c] \in Priorities
    BY <1>1, Busy DEF IInv, LockInv, Scanning
  <2>2. status[who[c]] = "ready"
    BY <1>1, <2>1, QueueAssumption DEF IInv, TakeInv, HeadsInv
  <2>3. \A d \in Cpus \ {c} : pc[d] \notin {"unlink", "clear"}
    BY <1>1 DEF IInv, LockInv, Scanning
  <2> QED BY <2>2, <2>3
<1> QED BY <1>1, LevelsInvariance, PTL

-----------------------------------------------------------------------------
(* One CPU. *)

OneCpu == \A c, d \in Cpus : c = d

Queues == [p \in Priorities |-> List(p)]

In(q, v) == \E i \in DOMAIN q[priority[v]] : q[priority[v]][i] = v

Last(s) == s[Len(s)]

(* q is what the pointers of the lists lead to.                             *)
Chained(q) ==
  /\ q \in [Priorities -> Seq(Vcpus)]
  /\ \A p \in Priorities :
       /\ Chain(p, q[p])
       /\ \A i \in DOMAIN q[p] : priority[q[p][i]] = p /\ status[q[p][i]] = "ready"

(* A READY vcpu is in a list or in the hands of the CPU; one that is not in *)
(* a list has no successor, so it can be added at the end of one.           *)
Placed(q) ==
  \A v \in Vcpus :
    /\ status[v] = "ready" =>
         In(q, v) \/ \E c \in Cpus : pc[c] \in {"test", "first", "append", "clear"} /\ who[c] = v
    /\ next[v] # None => In(q, v) \/ \E c \in Cpus : TakenAt(c, v)

Tailed(q) ==
  \A p \in Priorities : q[p] # <<>> =>
    tail[p] = Last(q[p]) \/ \E c \in Cpus : pc[c] = "tail" /\ priority[who[c]] = p

(* What the CPU knows of the lists at each place.                           *)
Working(q) ==
  \A c \in Cpus :
    /\ pc[c] \in {"test", "first", "append", "clear"} => status[who[c]] = "ready" /\ ~In(q, who[c])
    /\ pc[c] = "first" => q[priority[who[c]]] = <<>>
    /\ pc[c] = "append" => q[priority[who[c]]] # <<>>
    /\ pc[c] \in {"tail", "end"} =>
         q[priority[who[c]]] # <<>> /\ who[c] = Last(q[priority[who[c]]])
    /\ pc[c] \in {"scan", "take", "unlink"} => \A p \in Priorities : p < level[c] => q[p] = <<>>
    /\ pc[c] \in {"take", "unlink"} => q[level[c]] # <<>>
    /\ pc[c] = "unlink" => who[c] = q[level[c]][1] /\ succ[c] = next[who[c]]

TypeInv ==
  /\ TypeOK
  /\ \A c \in Cpus : who[c] = None => pc[c] \in {"out", "scan", "take"}

Describes(q) == Chained(q) /\ Placed(q) /\ Tailed(q) /\ Working(q)

QInv == LockInv /\ TypeInv /\ Describes(Queues)
LEMMA QInit == Init => QInv
<1> SUFFICES ASSUME Init PROVE QInv
  OBVIOUS
<1> DEFINE q == [p \in Priorities |-> <<>>]
<1>1. LockInv /\ TypeInv
  BY QueueAssumption DEF Init, LockInv, Scanning, Places, TypeInv, TypeOK, EmptyList, Priorities
<1>2. Chained(q)
  BY DEF Chained, Chain, Init, EmptyList
<1>3. Queues = q
  BY <1>2, ListIsChain DEF Queues, Chained
<1>4. Placed(q) /\ Tailed(q) /\ Working(q)
  BY DEF Init, Placed, Tailed, Working
<1> QED BY <1>1, <1>2, <1>3, <1>4 DEF QInv, Describes

(* A list that a step does not touch.                                       *)
LEMMA ChainKept ==
  ASSUME NEW p, NEW s, Chain(p, s), head'[p] = head[p],
         \A i \in DOMAIN s : next'[s[i]] = next[s[i]]
  PROVE  Chain(p, s)'
BY DEF Chain

LEMMA InList ==
  ASSUME NEW q, Chained(q), NEW p \in Priorities, NEW i \in DOMAIN q[p]
  PROVE  q[p][i] \in Vcpus /\ In(q, q[p][i]) /\ i \in 1..Len(q[p]) /\ Len(q[p]) \in Nat
<1>1. q[p] \in Seq(Vcpus) /\ priority[q[p][i]] = p
  BY DEF Chained
<1>2. DOMAIN q[p] = 1..Len(q[p]) /\ Len(q[p]) \in Nat
  BY <1>1, LenProperties
<1>3. q[p][i] \in Vcpus
  BY <1>1, <1>2, ElementOfSeq
<1> QED BY <1>1, <1>2, <1>3 DEF In

(* vcpu_ready until it has tested the list.                                 *)
LEMMA AddStartHolds ==
  ASSUME OneCpu, LockInv, TypeInv, NEW q, Describes(q), NEW c \in Cpus, NEW v \in Vcpus, AddStart(c, v)
  PROVE  Describes(q)'
<1> USE DEF Describes
<1>1. /\ UNCHANGED <<head, tail, next, level, succ>> /\ pc[c] = "out" /\ status[v] = "out"
      /\ \A u \in Vcpus : status'[u] = IF u = v THEN "ready" ELSE status[u]
      /\ \A d \in Cpus : d = c /\ pc'[d] = "test" /\ who'[d] = v
  BY DEF AddStart, listVars, TypeInv, TypeOK, Goto, OneCpu
<1>2. ~In(q, v)
  BY <1>1, QueueAssumption DEF Chained, In
<1>3. Chained(q)'
  <2> SUFFICES ASSUME NEW p \in Priorities
               PROVE  /\ Chain(p, q[p])'
                      /\ \A i \in DOMAIN q[p] : priority[q[p][i]] = p /\ status'[q[p][i]] = "ready"
    BY DEF Chained
  <2>1. Chain(p, q[p])'
    BY <1>1, ChainKept DEF Chained
  <2>2. ASSUME NEW i \in DOMAIN q[p] PROVE status'[q[p][i]] = "ready"
    BY <1>1, InList DEF Chained
  <2> QED BY <2>1, <2>2 DEF Chained
<1>4. Placed(q)'
  BY <1>1 DEF Placed, In, TakenAt
<1>5. Tailed(q)'
  BY <1>1 DEF Tailed
<1>6. Working(q)'
  BY <1>1, <1>2 DEF Working, In
<1> QED BY <1>3, <1>4, <1>5, <1>6

LEMMA AddTestHolds ==
  ASSUME OneCpu, LockInv, TypeInv, NEW q, Describes(q), NEW c \in Cpus, AddTest(c)
  PROVE  Describes(q)'
<1> USE DEF Describes
<1>1. /\ UNCHANGED <<head, tail, next, level, succ, status, who>> /\ pc[c] = "test"
      /\ who[c] \in Vcpus /\ priority[who[c]] \in Priorities
      /\ \A d \in Cpus : d = c /\ pc'[d] = IF head[priority[who[c]]] = None THEN "first" ELSE "append"
  BY QueueAssumption DEF AddTest, LooksEmpty, listVars, TypeInv, TypeOK, Goto, OneCpu
<1>2. head[priority[who[c]]] = None <=> q[priority[who[c]]] = <<>>
  <2>1. Chain(priority[who[c]], q[priority[who[c]]])
    BY <1>1 DEF Chained
  <2> DEFINE s == q[priority[who[c]]]
  <2>2. s # <<>> => s[1] \in Vcpus
    BY <2>1, EmptySeq, ElementOfSeq, LenProperties DEF Chain
  <2> QED BY <2>1, <2>2, QueueAssumption DEF Chain
<1>3. Chained(q)'
  BY <1>1 DEF Chained, Chain
<1>4. Placed(q)'
  BY <1>1 DEF Placed, In, TakenAt
<1>5. Tailed(q)'
  BY <1>1 DEF Tailed
<1>6. Working(q)'
  BY <1>1, <1>2 DEF Working, In
<1> QED BY <1>3, <1>4, <1>5, <1>6

LEMMA AddTailHolds ==
  ASSUME OneCpu, LockInv, TypeInv, NEW q, Describes(q), NEW c \in Cpus, AddTail(c)
  PROVE  Describes(q)'
<1> USE DEF Describes
<1>1. PICK w \in Vcpus : w = who[c] /\ priority[w] \in Priorities
  BY QueueAssumption DEF AddTail, TypeInv, TypeOK
<1>2. /\ UNCHANGED <<head, next, level, succ, status, who>> /\ pc[c] = "tail"
      /\ \A p \in Priorities : tail'[p] = IF p = priority[w] THEN w ELSE tail[p]
      /\ \A d \in Cpus : d = c /\ pc'[d] = "end"
  BY <1>1 DEF AddTail, listVars, TypeInv, TypeOK, Goto, OneCpu
<1>3. Chained(q)'
  BY <1>2 DEF Chained, Chain
<1>4. Placed(q)'
  BY <1>2 DEF Placed, In, TakenAt
<1>5. Tailed(q)'
  BY <1>1, <1>2 DEF Tailed, Working
<1>6. Working(q)'
  BY <1>2 DEF Working, In
<1> QED BY <1>3, <1>4, <1>5, <1>6

LEMMA AddEndHolds ==
  ASSUME OneCpu, LockInv, TypeInv, NEW q, Describes(q), NEW c \in Cpus, AddEnd(c)
  PROVE  Describes(q)'
<1> USE DEF Describes
<1>1. PICK w \in Vcpus : w = who[c] /\ priority[w] \in Priorities
  BY QueueAssumption DEF AddEnd, TypeInv, TypeOK
<1>2. /\ UNCHANGED <<head, tail, level, succ, status>> /\ pc[c] = "end"
      /\ next' = [next EXCEPT ![w] = None]
      /\ \A d \in Cpus : d = c /\ pc'[d] = "out"
  BY <1>1 DEF AddEnd, listVars, TypeInv, TypeOK, Goto, OneCpu
<1>3. next[w] = None /\ In(q, w)
  <2> DEFINE s == q[priority[w]]
  <2>1. s # <<>> /\ w = Last(s)
    BY <1>1, <1>2 DEF Working
  <2>2. Chain(priority[w], s)
    BY <1>1 DEF Chained
  <2>3. Len(s) \in DOMAIN s
    BY <2>1, <2>2, EmptySeq, LenProperties DEF Chain
  <2> QED BY <2>1, <2>2, <2>3 DEF Chain, Last, In
<1>4. UNCHANGED next
  BY <1>2, <1>3 DEF TypeInv, TypeOK
<1>5. Chained(q)'
  BY <1>2, <1>4 DEF Chained, Chain
<1>6. Placed(q)'
  BY <1>2, <1>4 DEF Placed, In, TakenAt
<1>7. Tailed(q)'
  BY <1>2 DEF Tailed
<1>8. Working(q)'
  BY <1>2 DEF Working, In
<1> QED BY <1>5, <1>6, <1>7, <1>8
(* The write that puts w behind the last vcpu of its list, or at its head.  *)
LEMMA AddLinkHolds ==
  ASSUME OneCpu, LockInv, TypeInv, NEW q, Describes(q), NEW c \in Cpus, AddFirst(c) \/ AddAppend(c)
  PROVE  \E w \in Vcpus :
           /\ w = who[c] /\ ~In(q, w)
           /\ Describes([q EXCEPT ![priority[w]] = Append(@, w)])'
<1> USE DEF Describes
<1>1. PICK w \in Vcpus : w = who[c] /\ priority[w] \in Priorities
  BY QueueAssumption DEF AddFirst, AddAppend, TypeInv, TypeOK
<1> DEFINE pw == priority[w]
           s == q[pw]
           t == Append(s, w)
           r == [q EXCEPT ![pw] = Append(@, w)]
<1>2. /\ UNCHANGED <<tail, level, succ, status, who>> /\ pc[c] \in {"first", "append"}
      /\ \A d \in Cpus : d = c /\ pc'[d] = "tail"
  BY <1>1 DEF AddFirst, AddAppend, listVars, TypeInv, TypeOK, Goto, OneCpu
<1>3. ~In(q, w) /\ status[w] = "ready" /\ next[w] = None
  BY <1>1, <1>2 DEF Working, Placed, TakenAt
<1>4. Chain(pw, s) /\ s \in Seq(Vcpus) /\ Len(s) \in Nat /\ DOMAIN s = 1..Len(s)
      /\ \A i \in 1..Len(s) : s[i] \in Vcpus /\ s[i] # w
  <2>1. Chain(pw, s) /\ s \in Seq(Vcpus)
    BY <1>1 DEF Chained, Chain
  <2>2. Len(s) \in Nat /\ DOMAIN s = 1..Len(s)
    BY <2>1, LenProperties
  <2>3. \A i \in 1..Len(s) : s[i] \in Vcpus
    BY <2>1, ElementOfSeq
  <2>4. \A i \in 1..Len(s) : s[i] # w
    BY <1>3, <2>2 DEF In
  <2> QED BY <2>1, <2>2, <2>3, <2>4
<1>5. t \in Seq(Vcpus) /\ t # <<>> /\ Len(t) = Len(s) + 1 /\ t[Len(s) + 1] = w /\ DOMAIN t = 1..(Len(s) + 1)
      /\ \A i \in 1..Len(s) : t[i] = s[i]
  BY <1>4, AppendProperties, LenProperties
<1>6. r \in [Priorities -> Seq(Vcpus)] /\ \A p \in Priorities : r[p] = IF p = pw THEN t ELSE q[p]
  BY <1>1, <1>5 DEF Chained
<1> HIDE DEF r, t, s
<1>7. Chain(pw, t)' /\ \A p \in Priorities \ {pw} : Chain(p, q[p])'
  <2>1. \A p \in Priorities \ {pw} : \A i \in DOMAIN q[p] : q[p][i] # w /\ q[p][i] \in Vcpus
    BY <1>1, InList DEF Chained
  <2>2. \A i, j \in DOMAIN t : t[i] = t[j] => i = j
    BY <1>4, <1>5 DEF Chain
  <2>3. CASE AddFirst(c)
    <3>1. UNCHANGED next /\ s = <<>> /\ Len(s) = 0
      BY <1>1, <2>3, EmptySeq DEF AddFirst, Working, s
    <3>2. \A p \in Priorities : head'[p] = IF p = pw THEN w ELSE head[p]
      BY <1>1, <2>3 DEF AddFirst, TypeInv, TypeOK
    <3>3. Chain(pw, t)'
      <4>1. t # <<>> /\ t[1] = w /\ DOMAIN t = {1} /\ Len(t) = 1
        <5>1. Len(s) + 1 = 1 /\ 1..1 = {1}
          BY <3>1
        <5> QED BY <1>5, <5>1
      <4> QED BY <1>1, <1>3, <1>5, <2>2, <3>1, <3>2, <4>1 DEF Chain
    <3>4. ASSUME NEW p \in Priorities \ {pw} PROVE Chain(p, q[p])'
      BY <3>1, <3>2, ChainKept DEF Chained
    <3> QED BY <3>3, <3>4
  <2>4. CASE AddAppend(c)
    <3>1. UNCHANGED head /\ s # <<>> /\ tail[pw] = Last(s)
      BY <1>1, <2>4 DEF AddAppend, Working, Tailed, OneCpu, s
    <3>2. Len(s) \in 1..Len(s)
      BY <1>4, <3>1, EmptySeq
    <3>3. \A u \in Vcpus : next'[u] = IF u = s[Len(s)] THEN w ELSE next[u]
      BY <1>1, <1>4, <2>4, <3>1, <3>2 DEF AddAppend, TypeInv, TypeOK, Last
    <3>4. Chain(pw, t)'
      <4>1. head'[pw] = IF t = <<>> THEN None ELSE t[1]
        <5>1. t # <<>> /\ t[1] = s[1]
          BY <1>4, <1>5, <3>2, EmptySeq
        <5> QED BY <1>4, <3>1, <5>1 DEF Chain
      <4>2. ASSUME NEW i \in 1..(Len(s) + 1)
            PROVE  next'[t[i]] = IF i = Len(t) THEN None ELSE t[i + 1]
        <5>1. CASE i = Len(s) + 1
          BY <5>1, <1>3, <1>4, <1>5, <3>2, <3>3
        <5>2. CASE i = Len(s)
          BY <5>2, <1>4, <1>5, <3>2, <3>3
        <5>3. CASE i \in 1..(Len(s) - 1)
          <6>1. t[i] = s[i] /\ t[i + 1] = s[i + 1] /\ s[i] # s[Len(s)] /\ i # Len(t)
            BY <5>3, <1>4, <1>5, <3>2 DEF Chain
          <6>2. next[s[i]] = s[i + 1]
            BY <5>3, <1>4 DEF Chain
          <6> QED BY <6>1, <6>2, <3>3, <1>4, <5>3
        <5> QED BY <5>1, <5>2, <5>3, <1>4
      <4> QED BY <1>5, <2>2, <4>1, <4>2 DEF Chain
    <3>5. ASSUME NEW p \in Priorities \ {pw} PROVE Chain(p, q[p])'
      <4>1. \A i \in DOMAIN q[p] : q[p][i] # s[Len(s)]
        BY <1>1, <1>4, <3>2 DEF Chained, s
      <4> QED BY <2>1, <3>1, <3>3, <4>1, ChainKept DEF Chained
    <3> QED BY <3>4, <3>5
  <2> QED BY <2>3, <2>4
<1>8. Chained(r)'
  <2> SUFFICES ASSUME NEW p \in Priorities
               PROVE  /\ Chain(p, r[p])'
                      /\ \A i \in DOMAIN r[p] : priority[r[p][i]] = p /\ status'[r[p][i]] = "ready"
    BY <1>6 DEF Chained
  <2>1. CASE p = pw
    <3>1. \A i \in 1..Len(s) : priority[s[i]] = p /\ status[s[i]] = "ready"
      BY <2>1, <1>1, <1>4 DEF Chained, s
    <3>2. \A i \in 1..(Len(s) + 1) : i \in 1..Len(s) \/ i = Len(s) + 1
      BY <1>4
    <3>3. \A i \in DOMAIN t : priority[t[i]] = p /\ status[t[i]] = "ready"
      BY <2>1, <1>3, <1>5, <3>1, <3>2
    <3>4. r[p] = t
      BY <2>1, <1>6
    <3> QED BY <2>1, <1>2, <1>7, <3>3, <3>4
  <2>2. CASE p # pw
    BY <2>2, <1>2, <1>6, <1>7 DEF Chained
  <2> QED BY <2>1, <2>2
<1>9. \A v \in Vcpus : In(r, v) <=> In(q, v) \/ v = w
  <2> SUFFICES ASSUME NEW v \in Vcpus PROVE In(r, v) <=> In(q, v) \/ v = w
    OBVIOUS
  <2>1. priority[v] \in Priorities
    BY QueueAssumption
  <2>2. CASE priority[v] = pw
    <3>1. \A i \in 1..(Len(s) + 1) : i \in 1..Len(s) \/ i = Len(s) + 1
      BY <1>4
    <3>2. (\E i \in DOMAIN t : t[i] = v) <=> (\E i \in DOMAIN s : s[i] = v) \/ v = w
      BY <1>4, <1>5, <3>1
    <3> QED BY <2>1, <2>2, <1>6, <3>2 DEF In, s
  <2>3. CASE priority[v] # pw
    BY <2>1, <2>3, <1>6 DEF In
  <2> QED BY <2>2, <2>3
<1>10. Placed(r)'
  <2> SUFFICES ASSUME NEW v \in Vcpus
               PROVE  /\ status[v] = "ready" =>
                          In(r, v) \/ \E d \in Cpus : pc'[d] \in {"test", "first", "append", "clear"} /\ who[d] = v
                      /\ next'[v] # None => In(r, v) \/ \E d \in Cpus : TakenAt(d, v)'
    BY <1>2 DEF Placed, In
  <2>1. status[v] = "ready" => In(q, v) \/ v = w
    BY <1>1, <1>2 DEF Placed
  <2>2. next'[v] = next[v] \/ In(q, v)
    <3>1. CASE AddFirst(c)
      BY <3>1 DEF AddFirst
    <3>2. CASE AddAppend(c)
      <4>1. s # <<>> /\ tail[pw] = Last(s)
        BY <1>1, <3>2 DEF AddAppend, Working, Tailed, OneCpu, s
      <4>2. Len(s) \in 1..Len(s) /\ priority[Last(s)] = pw
        BY <1>1, <1>4, <4>1, EmptySeq DEF Chained, s, Last
      <4>3. In(q, Last(s))
        BY <1>4, <4>2 DEF In, s, Last
      <4> QED BY <1>1, <3>2, <4>1, <4>3 DEF AddAppend, TypeInv, TypeOK
    <3> QED BY <3>1, <3>2
  <2>3. next[v] # None => In(q, v)
    BY <1>2 DEF Placed, TakenAt, OneCpu
  <2> QED BY <1>9, <2>1, <2>2, <2>3
<1>11. Tailed(r)'
  BY <1>1, <1>2, <1>6 DEF Tailed, OneCpu
<1>12. Working(r)'
  <2>1. r[pw] # <<>> /\ w = Last(r[pw])
    BY <1>1, <1>5, <1>6, EmptySeq DEF Last
  <2> QED BY <1>1, <1>2, <2>1 DEF Working
<1> QED BY <1>1, <1>3, <1>8, <1>10, <1>11, <1>12 DEF r
(* fcfs_schedule until it finds a list that is not empty.                   *)
LEMMA ScanHolds ==
  ASSUME OneCpu, LockInv, TypeInv, NEW q, Describes(q), NEW c \in Cpus,
         TakeLock(c) \/ ScanLevel(c) \/ ScanFails(c)
  PROVE  Describes(q)'
<1> USE DEF Describes
<1>1. /\ UNCHANGED <<head, tail, next, succ, status, who>> /\ pc[c] \in {"out", "scan"}
      /\ \A d \in Cpus : d = c /\ pc'[d] \in {"out", "scan", "take"}
  BY DEF TakeLock, EnterSchedule, ScanLevel, ScanFails, listVars, TypeInv, TypeOK, Goto, OneCpu
<1>2. Chained(q)' /\ Placed(q)' /\ Tailed(q)'
  BY <1>1 DEF Chained, Chain, Placed, In, TakenAt, Tailed
<1>3. Working(q)'
  <2>1. CASE TakeLock(c)
    <3>1. \A p \in Priorities : ~(p < 0)
      BY DEF Priorities
    <3>2. level'[c] = 0 /\ pc'[c] = "scan"
      BY <2>1 DEF TakeLock, EnterSchedule, TypeInv, TypeOK, Goto
    <3> QED BY <1>1, <3>1, <3>2 DEF Working
  <2>2. CASE ScanFails(c)
    BY <1>1, <2>2 DEF ScanFails, Working, TypeInv, TypeOK, Goto
  <2>3. CASE ScanLevel(c)
    <3>1. PICK l \in Priorities : l = level[c]
      BY <2>3, QueueAssumption DEF ScanLevel, TypeInv, TypeOK, Priorities
    <3>2. head[l] # None <=> q[l] # <<>>
      <4>1. Chain(l, q[l])
        BY <3>1 DEF Chained
      <4>2. q[l] # <<>> => q[l][1] \in Vcpus
        BY <4>1, EmptySeq, ElementOfSeq, LenProperties DEF Chain
      <4> QED BY <4>1, <4>2, QueueAssumption DEF Chain
    <3>3. \A p \in Priorities : p < l => q[p] = <<>>
      BY <2>3, <3>1 DEF ScanLevel, Working
    <3>4. CASE head[l] # None
      BY <1>1, <2>3, <3>1, <3>2, <3>3, <3>4 DEF ScanLevel, Working, TypeInv, TypeOK, Goto
    <3>5. CASE head[l] = None
      <4>1. level'[c] = l + 1 /\ pc'[c] = "scan"
        BY <2>3, <3>1, <3>5 DEF ScanLevel, TypeInv, TypeOK, Goto
      <4>2. \A p \in Priorities : p < l + 1 => p < l \/ p = l
        BY <3>1 DEF Priorities
      <4> QED BY <1>1, <3>2, <3>3, <3>5, <4>1, <4>2 DEF Working
    <3> QED BY <3>4, <3>5
  <2> QED BY <2>1, <2>2, <2>3
<1> QED BY <1>2, <1>3

LEMMA TakeHeadHolds ==
  ASSUME OneCpu, LockInv, TypeInv, NEW q, Describes(q), NEW c \in Cpus, TakeHead(c)
  PROVE  Describes(q)'
<1> USE DEF Describes
<1>1. PICK l \in Priorities : l = level[c]
  BY DEF TakeHead, LockInv, Scanning
<1>2. Chain(l, q[l]) /\ q[l] # <<>>
  BY <1>1 DEF TakeHead, Chained, Working
<1>3. head[l] = q[l][1]
  BY <1>2 DEF Chain
<1>4. /\ UNCHANGED <<head, tail, next, level, status>> /\ pc[c] = "take"
      /\ \A d \in Cpus : d = c /\ pc'[d] = "unlink" /\ who'[d] = q[l][1] /\ succ'[d] = next[q[l][1]]
  BY <1>1, <1>3 DEF TakeHead, listVars, TypeInv, TypeOK, Goto, OneCpu
<1>5. Chained(q)'
  BY <1>4 DEF Chained, Chain
<1>6. Tailed(q)'
  BY <1>4 DEF Tailed
<1>7. Placed(q)'
  BY <1>4 DEF Placed, In, TakenAt
<1>8. Working(q)'
  BY <1>1, <1>2, <1>4 DEF Working
<1> QED BY <1>5, <1>6, <1>7, <1>8

(* current_vcpu is out of the list: its pointer goes, and it is active.     *)
LEMMA TakeEndHolds ==
  ASSUME OneCpu, LockInv, TypeInv, NEW q, Describes(q), NEW c \in Cpus, TakeEnd(c)
  PROVE  Describes(q)'
<1> USE DEF Describes
<1>1. PICK w \in Vcpus : w = who[c]
  BY DEF TakeEnd, TypeInv, TypeOK
<1>2. /\ UNCHANGED <<head, tail, level>> /\ pc[c] = "clear" /\ ~In(q, w)
      /\ \A v \in Vcpus : next'[v] = IF v = w THEN None ELSE next[v]
      /\ \A v \in Vcpus : status'[v] = IF v = w THEN "run" ELSE status[v]
      /\ \A d \in Cpus : d = c /\ pc'[d] = "out"
  BY <1>1 DEF TakeEnd, TypeInv, TypeOK, Goto, OneCpu, Working
<1>3. \A p \in Priorities : \A i \in DOMAIN q[p] : q[p][i] # w /\ q[p][i] \in Vcpus
  BY <1>2, InList
<1>4. Chained(q)'
  <2> SUFFICES ASSUME NEW p \in Priorities
               PROVE  /\ Chain(p, q[p])'
                      /\ \A i \in DOMAIN q[p] : priority[q[p][i]] = p /\ status'[q[p][i]] = "ready"
    BY DEF Chained
  <2>1. Chain(p, q[p])'
    BY <1>2, <1>3, ChainKept DEF Chained
  <2> QED BY <2>1, <1>2, <1>3 DEF Chained
<1>5. Placed(q)'
  BY <1>1, <1>2 DEF Placed, In, TakenAt
<1>6. Tailed(q)'
  BY <1>2 DEF Tailed
<1>7. Working(q)'
  BY <1>2 DEF Working
<1> QED BY <1>4, <1>5, <1>6, <1>7

LEMMA LeaveHolds ==
  ASSUME OneCpu, LockInv, TypeInv, NEW q, Describes(q), NEW v \in Vcpus, Leave(v)
  PROVE  Describes(q)'
<1> USE DEF Describes
<1>1. /\ UNCHANGED <<head, tail, next, pc, who, level, succ>> /\ status[v] = "run"
      /\ \A u \in Vcpus : status'[u] = IF u = v THEN "out" ELSE status[u]
  BY DEF Leave, listVars, cpuVars, TypeInv, TypeOK
<1>2. \A p \in Priorities : \A i \in DOMAIN q[p] : q[p][i] \in Vcpus /\ q[p][i] # v
  BY <1>1, InList DEF Chained
<1>3. Chained(q)'
  BY <1>1, <1>2 DEF Chained, Chain
<1>4. Placed(q)' /\ Tailed(q)'
  BY <1>1 DEF Placed, In, TakenAt, Tailed
<1>5. Working(q)'
  <2>1. \A d \in Cpus : pc[d] \in {"test", "first", "append", "clear"} => who[d] \in Vcpus
    BY DEF TypeInv, TypeOK
  <2> QED BY <1>1, <2>1 DEF Working, In
<1> QED BY <1>3, <1>4, <1>5

(* head moves on: the first vcpu leaves its list.                           *)
LEMMA TakeUnlinkHolds ==
  ASSUME OneCpu, LockInv, TypeInv, NEW q, Describes(q), NEW c \in Cpus, TakeUnlink(c)
  PROVE  \E l \in Priorities :
           /\ q[l] # <<>> /\ \A p \in Priorities : p < l => q[p] = <<>>
           /\ Describes([q EXCEPT ![l] = Tail(@)])'
<1> USE DEF Describes
<1>1. PICK l \in Priorities : l = level[c]
  BY DEF TakeUnlink, LockInv, Scanning
<1>2. PICK w \in Vcpus : w = who[c]
  BY DEF TakeUnlink, TypeInv, TypeOK
<1> DEFINE s == q[l]
           t == Tail(s)
           r == [q EXCEPT ![l] = Tail(@)]
<1>3. Chain(l, s) /\ s # <<>> /\ w = s[1] /\ succ[c] = next[w] /\ \A p \in Priorities : p < l => q[p] = <<>>
  BY <1>1, <1>2 DEF TakeUnlink, Chained, Working
<1>4. s \in Seq(Vcpus) /\ Len(s) \in Nat \ {0} /\ DOMAIN s = 1..Len(s)
      /\ \A i \in 1..Len(s) : s[i] \in Vcpus /\ priority[s[i]] = l /\ status[s[i]] = "ready"
  <2>1. s \in Seq(Vcpus)
    BY <1>3 DEF Chain
  <2>2. Len(s) \in Nat \ {0} /\ DOMAIN s = 1..Len(s)
    BY <2>1, <1>3, EmptySeq, LenProperties
  <2>3. \A i \in 1..Len(s) : s[i] \in Vcpus
    BY <2>1, ElementOfSeq
  <2> QED BY <2>1, <2>2, <2>3, <1>1 DEF Chained
<1>5. t \in Seq(Vcpus) /\ Len(t) = Len(s) - 1 /\ DOMAIN t = 1..(Len(s) - 1)
      /\ \A i \in 1..(Len(s) - 1) : t[i] = s[i + 1]
  BY <1>3, <1>4, HeadTailProperties, LenProperties
<1>6. r \in [Priorities -> Seq(Vcpus)] /\ \A p \in Priorities : r[p] = IF p = l THEN t ELSE q[p]
  BY <1>1, <1>5 DEF Chained
<1> HIDE DEF r, t, s
<1>7. /\ UNCHANGED <<tail, next, level, status, who>> /\ pc[c] = "unlink"
      /\ \A p \in Priorities : head'[p] = IF p = l THEN next[w] ELSE head[p]
      /\ \A d \in Cpus : d = c /\ pc'[d] = "clear" /\ who'[d] = w
  BY <1>1, <1>2, <1>3 DEF TakeUnlink, NewHead, TypeInv, TypeOK, Goto, OneCpu
<1>8. Chain(l, t)'
  <2>1. next[w] = IF t = <<>> THEN None ELSE t[1]
    <3>1. next[w] = IF Len(s) = 1 THEN None ELSE s[2]
      BY <1>3, <1>4 DEF Chain
    <3>2. CASE Len(s) = 1
      BY <3>1, <3>2, <1>5, EmptySeq
    <3>3. CASE Len(s) # 1
      <4>1. Len(t) # 0 /\ 1 \in 1..(Len(s) - 1) /\ 1 + 1 = 2
        BY <3>3, <1>4, <1>5
      <4>2. t # <<>> /\ t[1] = s[2]
        BY <4>1, <1>5, EmptySeq
      <4> QED BY <3>1, <3>3, <4>2
    <3> QED BY <3>2, <3>3
  <2>2. ASSUME NEW i \in 1..(Len(s) - 1), NEW j \in 1..(Len(s) - 1), t[i] = t[j] PROVE i = j
    <3>1. i + 1 \in DOMAIN s /\ j + 1 \in DOMAIN s /\ s[i + 1] = s[j + 1]
      BY <2>2, <1>4, <1>5
    <3>2. i + 1 = j + 1
      BY <3>1, <1>3 DEF Chain
    <3> QED BY <3>2
  <2>3. ASSUME NEW i \in 1..(Len(s) - 1)
        PROVE  next[t[i]] = IF i = Len(t) THEN None ELSE t[i + 1]
    <3>1. i + 1 \in DOMAIN s /\ t[i] = s[i + 1] /\ (i + 1 = Len(s) <=> i = Len(t))
      BY <1>4, <1>5
    <3>2. next[s[i + 1]] = IF i + 1 = Len(s) THEN None ELSE s[i + 1 + 1]
      BY <3>1, <1>3 DEF Chain
    <3>3. i # Len(t) => i + 1 \in 1..(Len(s) - 1)
      <4>1. Len(t) = Len(s) - 1 /\ Len(s) \in Nat
        BY <1>4, <1>5
      <4> QED BY <4>1
    <3>4. i # Len(t) => t[i + 1] = s[i + 1 + 1]
      BY <3>3, <1>5
    <3> QED BY <3>1, <3>2, <3>4
  <2> QED BY <1>1, <1>5, <1>7, <2>1, <2>2, <2>3 DEF Chain
<1>9. Chained(r)'
  <2> SUFFICES ASSUME NEW p \in Priorities
               PROVE  /\ Chain(p, r[p])'
                      /\ \A i \in DOMAIN r[p] : priority[r[p][i]] = p /\ status'[r[p][i]] = "ready"
    BY <1>6 DEF Chained
  <2>1. CASE p = l
    <3>1. \A i \in DOMAIN t : priority[t[i]] = p /\ status[t[i]] = "ready"
      BY <2>1, <1>4, <1>5
    <3>2. r[p] = t
      BY <2>1, <1>6
    <3> QED BY <2>1, <1>7, <1>8, <3>1, <3>2
  <2>2. CASE p # l
    <3>1. Chain(p, q[p])'
      BY <2>2, <1>7, ChainKept DEF Chained
    <3> QED BY <2>2, <1>6, <1>7, <3>1 DEF Chained
  <2> QED BY <2>1, <2>2
<1>10. \A v \in Vcpus : In(r, v) <=> In(q, v) /\ v # w
  <2> SUFFICES ASSUME NEW v \in Vcpus PROVE In(r, v) <=> In(q, v) /\ v # w
    OBVIOUS
  <2>1. priority[v] \in Priorities /\ priority[w] = l
    BY QueueAssumption, <1>3, <1>4
  <2>2. CASE priority[v] = l
    <3>1. \A i \in 1..Len(s) : s[i] = w => i = 1
      BY <1>3, <1>4 DEF Chain
    <3>2. \A i \in 1..(Len(s) - 1) : i + 1 \in 1..Len(s) /\ i + 1 # 1
      BY <1>4
    <3>3. \A i \in 1..Len(s) : i # 1 => i - 1 \in 1..(Len(s) - 1) /\ (i - 1) + 1 = i
      BY <1>4
    <3>4. ASSUME NEW i \in DOMAIN t, t[i] = v PROVE (\E k \in DOMAIN s : s[k] = v) /\ v # w
      BY <3>4, <1>4, <1>5, <3>1, <3>2
    <3>5. ASSUME NEW i \in DOMAIN s, s[i] = v, v # w PROVE \E k \in DOMAIN t : t[k] = v
      <4>1. i # 1
        BY <3>5, <1>3
      <4>2. t[i - 1] = s[i] /\ i - 1 \in DOMAIN t
        BY <4>1, <1>4, <1>5, <3>3
      <4> QED BY <3>5, <4>2
    <3>6. (\E i \in DOMAIN t : t[i] = v) <=> (\E i \in DOMAIN s : s[i] = v) /\ v # w
      BY <3>4, <3>5
    <3> QED BY <2>1, <2>2, <1>6, <3>6 DEF In, s
  <2>3. CASE priority[v] # l
    BY <2>1, <2>3, <1>6 DEF In
  <2> QED BY <2>2, <2>3
<1>11. status[w] = "ready" /\ ~In(r, w)
  BY <1>3, <1>4, <1>10
<1>12. Placed(r)'
  <2>1. \A v \in Vcpus : status[v] = "ready" => In(q, v)
    BY <1>7 DEF Placed, OneCpu
  <2>2. \A v \in Vcpus : next[v] # None => In(q, v)
    BY <1>7 DEF Placed, TakenAt, OneCpu
  <2> QED BY <1>7, <1>10, <2>1, <2>2 DEF Placed, In, TakenAt
<1>13. Tailed(r)'
  <2> SUFFICES ASSUME NEW p \in Priorities, r[p] # <<>> PROVE tail[p] = Last(r[p])
    BY <1>7 DEF Tailed
  <2>1. CASE p = l
    <3>1. Len(t) \in Nat \ {0} /\ r[p] = t
      BY <2>1, <1>4, <1>5, <1>6, EmptySeq
    <3>2. Len(t) \in 1..(Len(s) - 1) /\ Len(t) + 1 = Len(s)
      BY <3>1, <1>4, <1>5
    <3>3. Last(t) = Last(s)
      BY <3>2, <1>5 DEF Last
    <3>4. tail[l] = Last(s)
      BY <1>1, <1>3, <1>7 DEF Tailed, OneCpu, s
    <3> QED BY <2>1, <3>1, <3>3, <3>4
  <2>2. CASE p # l
    BY <2>2, <1>6, <1>7 DEF Tailed, OneCpu
  <2> QED BY <2>1, <2>2
<1>14. Working(r)'
  <2>1. ~In(r, w)'
    BY <1>11 DEF In
  <2> QED BY <1>7, <1>11, <2>1 DEF Working
<1> QED BY <1>3, <1>9, <1>12, <1>13, <1>14 DEF r, s
(* The CHOOSE of Before stands for the search from head.                     *)
LEMMA BeforeInList ==
  ASSUME NEW q, Chained(q), NEW v \in Vcpus, NEW i \in DOMAIN q[priority[v]],
         q[priority[v]][i] = v, i > 1
  PROVE  Before(v) = q[priority[v]][i - 1] /\ Before(v) \in Vcpus
<1> DEFINE pv == priority[v]
           s == q[pv]
<1>1. pv \in Priorities
  BY QueueAssumption
<1>2. Chain(pv, s) /\ s \in Seq(Vcpus) /\ Len(s) \in Nat /\ DOMAIN s = 1..Len(s)
      /\ \A k \in 1..Len(s) : s[k] \in Vcpus /\ priority[s[k]] = pv
  <2>1. Chain(pv, s) /\ s \in Seq(Vcpus)
    BY <1>1 DEF Chained
  <2>2. Len(s) \in Nat /\ DOMAIN s = 1..Len(s)
    BY <2>1, LenProperties
  <2>3. \A k \in 1..Len(s) : s[k] \in Vcpus
    BY <2>1, ElementOfSeq
  <2> QED BY <2>1, <2>2, <2>3, <1>1 DEF Chained
<1>3. \A p \in Priorities : List(p) = q[p]
  BY ListIsChain DEF Chained
<1>4. i - 1 \in 1..Len(s) /\ i - 1 # Len(s) /\ (i - 1) + 1 = i
  BY <1>2
<1>5. IsListed(s[i - 1]) /\ next[s[i - 1]] = v /\ s[i - 1] \in Vcpus
  BY <1>1, <1>2, <1>3, <1>4 DEF IsListed, Chain
<1>6. ASSUME NEW u \in Vcpus, IsListed(u), next[u] = v PROVE u = s[i - 1]
  <2>1. priority[u] \in Priorities
    BY QueueAssumption
  <2> DEFINE r == q[priority[u]]
  <2>2. PICK k \in DOMAIN r : r[k] = u
    BY <1>6, <2>1, <1>3 DEF IsListed
  <2>3. Chain(priority[u], r) /\ Len(r) \in Nat /\ DOMAIN r = 1..Len(r)
    BY <2>1, LenProperties DEF Chained, Chain
  <2>4. k # Len(r) /\ r[k + 1] = v
    BY <1>6, <2>2, <2>3, QueueAssumption DEF Chain
  <2>5. k + 1 \in DOMAIN r
    BY <2>2, <2>3, <2>4
  <2>6. priority[u] = pv
    BY <2>1, <2>4, <2>5 DEF Chained
  <2>7. r = s /\ k + 1 = i
    BY <2>3, <2>4, <2>5, <2>6 DEF Chain
  <2>8. k = i - 1
    BY <2>7, <2>2, <2>3
  <2> QED BY <2>2, <2>7, <2>8
<1> QED BY <1>5, <1>6 DEF Before

(* fcfs_scheduler_remove: v is unlinked wherever it is in its list.         *)
LEMMA RemoveHolds ==
  ASSUME OneCpu, LockInv, TypeInv, NEW q, Describes(q), NEW c \in Cpus, NEW v \in Vcpus, Remove(c, v)
  PROVE  \E i \in DOMAIN q[priority[v]] :
           Describes([q EXCEPT ![priority[v]] = Queue!Without(@, i)])'
<1> USE DEF Describes
<1> DEFINE pv == priority[v]
           s == q[pv]
<1>1. pv \in Priorities /\ v \in Vcpus
  BY QueueAssumption
<1>2. Chain(pv, s) /\ s \in Seq(Vcpus) /\ Len(s) \in Nat /\ DOMAIN s = 1..Len(s)
      /\ \A i \in 1..Len(s) : s[i] \in Vcpus /\ priority[s[i]] = pv /\ status[s[i]] = "ready"
  <2>1. Chain(pv, s) /\ s \in Seq(Vcpus)
    BY <1>1 DEF Chained
  <2>2. Len(s) \in Nat /\ DOMAIN s = 1..Len(s)
    BY <2>1, LenProperties
  <2>3. \A i \in 1..Len(s) : s[i] \in Vcpus
    BY <2>1, ElementOfSeq
  <2> QED BY <2>1, <2>2, <2>3, <1>1 DEF Chained
<1>3. \A p \in Priorities : List(p) = q[p]
  BY ListIsChain DEF Chained
<1>4. PICK i \in DOMAIN s : s[i] = v
  BY <1>1, <1>3 DEF Remove, IsListed
<1>5. i \in 1..Len(s) /\ Len(s) >= 1
  BY <1>2, <1>4
<1>6. next[v] = IF i = Len(s) THEN None ELSE s[i + 1]
  BY <1>2, <1>4 DEF Chain
<1>7. head[pv] = s[1] /\ (head[pv] = v <=> i = 1)
  <2>1. s # <<>> /\ 1 \in DOMAIN s
    BY <1>2, <1>5, EmptySeq
  <2> QED BY <2>1, <1>2, <1>4 DEF Chain
<1>8. i > 1 => Before(v) = s[i - 1]
  BY <1>4, BeforeInList
<1> DEFINE t == Queue!Without(s, i)
           r == [q EXCEPT ![pv] = Queue!Without(@, i)]
<1>9. /\ t \in Seq(Vcpus) /\ Len(t) = Len(s) - 1 /\ DOMAIN t = 1..(Len(s) - 1)
      /\ \A k \in 1..(Len(s) - 1) : t[k] = IF k < i THEN s[k] ELSE s[k + 1]
  <2>1. t = [k \in 1..(Len(s) - 1) |-> IF k < i THEN s[k] ELSE s[k + 1]]
    BY DEF Queue!Without
  <2>2. \A k \in 1..(Len(s) - 1) : k \in 1..Len(s) /\ k + 1 \in 1..Len(s)
    BY <1>2
  <2>3. \A k \in 1..(Len(s) - 1) : (IF k < i THEN s[k] ELSE s[k + 1]) \in Vcpus
    BY <2>2, <1>2
  <2>4. Len(s) - 1 \in Nat
    BY <1>2, <1>5
  <2>5. t \in Seq(Vcpus)
    BY <2>1, <2>3, <2>4, SeqDef
  <2>6. DOMAIN t = 1..(Len(s) - 1) /\ DOMAIN t = 1..Len(t) /\ Len(t) \in Nat
    BY <2>1, <2>5, LenProperties
  <2>7. Len(t) = Len(s) - 1
    BY <2>1, <2>4, <2>6
  <2> QED BY <2>1, <2>5, <2>6, <2>7
<1>10. r \in [Priorities -> Seq(Vcpus)] /\ \A p \in Priorities : r[p] = IF p = pv THEN t ELSE q[p]
  BY <1>1, <1>9 DEF Chained
<1> HIDE DEF r, t, s
<1>11. /\ UNCHANGED <<pc, who, level, succ>> /\ pc[c] = "out"
       /\ \A d \in Cpus : d = c
       /\ \A u \in Vcpus : status'[u] = IF u = v THEN "out" ELSE status[u]
  BY DEF Remove, cpuVars, TypeInv, TypeOK, OneCpu
<1>12. \A p \in Priorities : head'[p] = IF p = pv /\ i = 1 THEN next[v] ELSE head[p]
  BY <1>7, <1>11 DEF Remove, RemoveHead, RemoveInside, TypeInv, TypeOK
<1>13. \A u \in Vcpus : next'[u] = IF u = v THEN None
                                   ELSE IF i > 1 /\ u = s[i - 1] THEN next[v] ELSE next[u]
  <2>1. CASE i = 1
    BY <1>1, <1>7, <2>1 DEF Remove, RemoveHead, RemoveInside, TypeInv, TypeOK
  <2>2. CASE i # 1
    <3>1. i > 1 /\ i - 1 \in 1..Len(s)
      BY <2>2, <1>5
    <3>2. next' = [next EXCEPT ![s[i - 1]] = next[v], ![v] = None]
      BY <3>1, <1>7, <1>8 DEF Remove, RemoveHead, RemoveInside
    <3> QED BY <1>1, <1>2, <3>1, <3>2 DEF TypeInv, TypeOK
  <2> QED BY <2>1, <2>2
<1>14. \A p \in Priorities : tail'[p] = IF p = pv /\ tail[p] = v
                                        THEN IF i = 1 THEN None ELSE s[i - 1] ELSE tail[p]
  <2>1. CASE i = 1
    BY <1>1, <1>7, <2>1 DEF Remove, RemoveHead, RemoveInside, TypeInv, TypeOK
  <2>2. CASE i # 1
    BY <1>1, <1>5, <1>7, <1>8, <2>2 DEF Remove, RemoveHead, RemoveInside, TailWithout, TypeInv, TypeOK
  <2> QED BY <2>1, <2>2
<1>15. Chain(pv, t)'
  <2>1. head'[pv] = IF t = <<>> THEN None ELSE t[1]
    <3>1. t = <<>> <=> Len(s) = 1
      BY <1>5, <1>9, EmptySeq
    <3>2. CASE Len(s) = 1
      BY <3>1, <3>2, <1>1, <1>5, <1>6, <1>12
    <3>3. CASE Len(s) # 1 /\ i = 1
      <4>1. 1 \in 1..(Len(s) - 1)
        BY <3>3, <1>5, <1>2
      <4>2. t[1] = s[1 + 1]
        BY <4>1, <3>3, <1>9
      <4> QED BY <4>2, <3>1, <3>3, <1>1, <1>6, <1>12
    <3>4. CASE Len(s) # 1 /\ i # 1
      <4>1. 1 \in 1..(Len(s) - 1) /\ 1 < i
        BY <3>4, <1>5, <1>2
      <4>2. t[1] = s[1]
        BY <4>1, <1>9
      <4> QED BY <4>2, <3>1, <3>4, <1>1, <1>7, <1>12
    <3> QED BY <3>2, <3>3, <3>4
  <2> DEFINE o(k) == IF k < i THEN k ELSE k + 1
  <2>2. \A k \in 1..(Len(s) - 1) : o(k) \in 1..Len(s) /\ t[k] = s[o(k)] /\ o(k) # i
    BY <1>2, <1>5, <1>9
  <2>3. ASSUME NEW j \in 1..(Len(s) - 1), NEW k \in 1..(Len(s) - 1), t[j] = t[k] PROVE j = k
    <3>1. o(j) = o(k)
      BY <2>2, <2>3, <1>2 DEF Chain
    <3> QED BY <3>1, <1>5
  <2>4. ASSUME NEW k \in 1..(Len(s) - 1)
        PROVE  next'[t[k]] = IF k = Len(t) THEN None ELSE t[k + 1]
    <3>1. t[k] \in Vcpus /\ t[k] # v
      BY <2>2, <1>2, <1>4 DEF Chain
    <3>2. CASE k < i - 1
      <4>1. k \in 1..Len(s) /\ k # Len(s) /\ t[k] = s[k] /\ k # i - 1 /\ i - 1 \in 1..Len(s) 
            /\ k + 1 \in 1..(Len(s) - 1) /\ k + 1 < i /\ k # Len(t)
        BY <3>2, <1>5, <1>9
      <4>2. s[k] # s[i - 1] /\ next[s[k]] = s[k + 1] /\ t[k + 1] = s[k + 1]
        BY <4>1, <1>2, <1>9 DEF Chain
      <4> QED BY <3>1, <4>1, <4>2, <1>13
    <3>3. CASE k = i - 1
      <4>1. k \in 1..Len(s) /\ t[k] = s[i - 1] /\ i > 1 /\ (k = Len(t) <=> i = Len(s))
        BY <3>3, <1>5, <1>9
      <4>2. next'[t[k]] = next[v]
        BY <3>1, <4>1, <1>13
      <4>3. k # Len(t) => t[k + 1] = s[i + 1]
        <5> SUFFICES ASSUME k # Len(t) PROVE t[k + 1] = s[i + 1]
          OBVIOUS
        <5>1. i \in 1..(Len(s) - 1) /\ k + 1 = i /\ ~(i < i)
          BY <3>3, <4>1, <1>5
        <5> QED BY <5>1, <1>9
      <4> QED BY <4>1, <4>2, <4>3, <1>6
    <3>4. CASE k >= i
      <4>1. k + 1 \in 1..Len(s) /\ t[k] = s[k + 1] /\ (k = Len(t) <=> k + 1 = Len(s))
        BY <3>4, <1>2, <1>5, <1>9
      <4>2. next[s[k + 1]] = IF k = Len(t) THEN None ELSE s[k + 1 + 1]
        BY <4>1, <1>2 DEF Chain
      <4>3. k # Len(t) => t[k + 1] = s[k + 1 + 1]
        <5> SUFFICES ASSUME k # Len(t) PROVE t[k + 1] = s[k + 1 + 1]
          OBVIOUS
        <5>1. k + 1 \in 1..(Len(s) - 1) /\ ~(k + 1 < i)
          BY <3>4, <4>1, <1>5, <1>9
        <5> QED BY <5>1, <1>9
      <4>4. i > 1 => s[k + 1] # s[i - 1]
        <5> SUFFICES ASSUME i > 1 PROVE s[k + 1] # s[i - 1]
          OBVIOUS
        <5>1. i - 1 \in 1..Len(s) /\ i - 1 # k + 1
          BY <3>4, <1>5
        <5> QED BY <4>1, <5>1, <1>2 DEF Chain
      <4> QED BY <3>1, <4>1, <4>2, <4>3, <4>4, <1>13
    <3> QED BY <3>2, <3>3, <3>4, <1>5
  <2> QED BY <1>1, <1>9, <2>1, <2>3, <2>4 DEF Chain
<1>16. ASSUME NEW p \in Priorities, p # pv, NEW k \in DOMAIN q[p]
       PROVE  q[p][k] \in Vcpus /\ q[p][k] # v /\ (i > 1 => q[p][k] # s[i - 1]) /\ status'[q[p][k]] = "ready"
  <2>1. q[p][k] \in Vcpus /\ priority[q[p][k]] = p /\ status[q[p][k]] = "ready"
    BY InList DEF Chained
  <2>2. i > 1 => priority[s[i - 1]] = pv
    BY <1>2, <1>5
  <2> QED BY <2>1, <2>2, <1>11, <1>16 DEF pv
<1>17. Chained(r)'
  <2> SUFFICES ASSUME NEW p \in Priorities
               PROVE  /\ Chain(p, r[p])'
                      /\ \A k \in DOMAIN r[p] : priority[r[p][k]] = p /\ status'[r[p][k]] = "ready"
    BY <1>10 DEF Chained
  <2>1. CASE p = pv
    <3>1. ASSUME NEW k \in DOMAIN t PROVE priority[t[k]] = p /\ status'[t[k]] = "ready"
      <4> DEFINE o == IF k < i THEN k ELSE k + 1
      <4>1. o \in 1..Len(s) /\ t[k] = s[o] /\ o # i
        BY <1>2, <1>5, <1>9
      <4>2. s[o] # v
        BY <4>1, <1>2, <1>4 DEF Chain
      <4> QED BY <2>1, <4>1, <4>2, <1>2, <1>11
    <3>2. r[p] = t
      BY <2>1, <1>10
    <3> QED BY <2>1, <1>15, <3>1, <3>2
  <2>2. CASE p # pv
    <3>1. \A k \in DOMAIN q[p] : next'[q[p][k]] = next[q[p][k]]
      BY <2>2, <1>13, <1>16
    <3>2. Chain(p, q[p])'
      BY <2>2, <3>1, <1>12, ChainKept DEF Chained
    <3> QED BY <2>2, <3>2, <1>10, <1>16 DEF Chained
  <2> QED BY <2>1, <2>2
<1>18. \A u \in Vcpus : u # v => (In(r, u) <=> In(q, u))
  <2> SUFFICES ASSUME NEW u \in Vcpus, u # v PROVE In(r, u) <=> In(q, u)
    OBVIOUS
  <2>1. priority[u] \in Priorities
    BY QueueAssumption
  <2>2. CASE priority[u] = pv
    <3>1. ASSUME NEW k \in DOMAIN t, t[k] = u PROVE \E j \in DOMAIN s : s[j] = u
      <4> DEFINE o == IF k < i THEN k ELSE k + 1
      <4>1. o \in DOMAIN s /\ t[k] = s[o]
        BY <1>2, <1>5, <1>9
      <4> QED BY <4>1, <3>1
    <3>2. ASSUME NEW j \in DOMAIN s, s[j] = u PROVE \E k \in DOMAIN t : t[k] = u
      <4> DEFINE o == IF j < i THEN j ELSE j - 1
      <4>1. j # i
        BY <3>2, <1>4
      <4>2. o \in 1..(Len(s) - 1) /\ (IF o < i THEN o ELSE o + 1) = j
        BY <4>1, <1>2, <1>5
      <4>3. t[o] = s[j] /\ o \in DOMAIN t
        BY <4>2, <1>9
      <4> QED BY <4>3, <3>2
    <3>3. (\E k \in DOMAIN t : t[k] = u) <=> (\E j \in DOMAIN s : s[j] = u)
      BY <3>1, <3>2
    <3> QED BY <2>1, <2>2, <1>10, <3>3 DEF In, s
  <2>3. CASE priority[u] # pv
    BY <2>1, <2>3, <1>10 DEF In
  <2> QED BY <2>2, <2>3
<1>19. Placed(r)'
  <2>1. \A u \in Vcpus : status[u] = "ready" => In(q, u)
    BY <1>11 DEF Placed
  <2>2. \A u \in Vcpus : next[u] # None => In(q, u)
    BY <1>11 DEF Placed, TakenAt
  <2>3. ASSUME NEW u \in Vcpus, u # v, next'[u] # None PROVE In(q, u)
    <3>1. CASE i > 1 /\ u = s[i - 1]
      <4>1. i - 1 \in 1..Len(s) /\ priority[u] = pv
        BY <3>1, <1>2, <1>5
      <4> QED BY <3>1, <4>1, <1>2 DEF In, s
    <3>2. CASE ~(i > 1 /\ u = s[i - 1])
      BY <3>2, <2>2, <2>3, <1>13
    <3> QED BY <3>1, <3>2
  <2> QED BY <1>11, <1>13, <1>18, <2>1, <2>3 DEF Placed, In
<1>20. Tailed(r)'
  <2> SUFFICES ASSUME NEW p \in Priorities, r[p] # <<>> PROVE tail'[p] = Last(r[p])
    BY DEF Tailed
  <2>1. CASE p = pv
    <3>1. Len(t) \in Nat \ {0} /\ r[p] = t
      BY <2>1, <1>5, <1>9, <1>10, EmptySeq
    <3>2. tail[pv] = s[Len(s)]
      <4>1. s # <<>>
        BY <1>5, EmptySeq
      <4> QED BY <4>1, <1>1, <1>11 DEF Tailed, Last, s
    <3>3. Len(s) >= 2 /\ Len(t) \in 1..(Len(s) - 1) /\ Len(t) + 1 = Len(s)
      BY <3>1, <1>2, <1>5, <1>9
    <3>4. CASE i = Len(s)
      <4>1. i # 1 /\ tail[pv] = v
        BY <3>2, <3>3, <3>4, <1>4
      <4>2. Len(t) < i /\ Len(t) = i - 1
        BY <3>3, <3>4, <1>5
      <4> QED BY <2>1, <3>1, <3>3, <4>1, <4>2, <1>9, <1>14 DEF Last
    <3>5. CASE i # Len(s)
      <4>1. Len(s) \in DOMAIN s /\ s[Len(s)] # v
        BY <3>5, <1>2, <1>4, <1>5 DEF Chain
      <4>2. ~(Len(t) < i)
        BY <3>3, <3>5, <1>5
      <4> QED BY <2>1, <3>1, <3>2, <3>3, <4>1, <4>2, <1>9, <1>14 DEF Last
    <3> QED BY <3>4, <3>5
  <2>2. CASE p # pv
    BY <2>2, <1>10, <1>11, <1>14 DEF Tailed
  <2> QED BY <2>1, <2>2
<1>21. Working(r)'
  BY <1>11 DEF Working
<1> QED BY <1>17, <1>19, <1>20, <1>21 DEF r, s
LEMMA TypeStep ==
  ASSUME OneCpu, LockInv, TypeInv, NEW q, Describes(q), [Next]_vars
  PROVE  TypeInv'
<1> USE QueueAssumption DEF TypeInv, TypeOK, Goto
<1>1. ASSUME NEW c \in Cpus, NEW v \in Vcpus, AddStart(c, v) PROVE TypeInv'
  BY <1>1 DEF AddStart, listVars, Places
<1>2. ASSUME NEW c \in Cpus, Adding(c) PROVE TypeInv'
  <2>1. who[c] \in Vcpus
    BY <1>2 DEF Adding, AddTest, AddFirst, AddAppend, AddTail, AddEnd
  <2> QED BY <1>2, <2>1 DEF Adding, AddTest, AddFirst, AddAppend, AddTail, AddEnd, listVars, Places
<1>3. ASSUME NEW c \in Cpus, TakeLock(c) \/ ScanLevel(c) \/ ScanFails(c) PROVE TypeInv'
  <2>1. CASE TakeLock(c)
    BY <2>1 DEF TakeLock, EnterSchedule, listVars, Places
  <2>2. CASE ScanLevel(c)
    BY <2>2 DEF ScanLevel, listVars, Places
  <2>3. CASE ScanFails(c)
    BY <2>3 DEF ScanFails, listVars, Places
  <2> QED BY <1>3, <2>1, <2>2, <2>3
<1>4. ASSUME NEW c \in Cpus, TakeHead(c) PROVE TypeInv'
  <2>1. head[level[c]] \in Vcpus
    <3>1. level[c] \in Priorities
      BY <1>4 DEF TakeHead, LockInv, Scanning
    <3>2. Chain(level[c], q[level[c]]) /\ q[level[c]] # <<>>
      BY <1>4, <3>1 DEF TakeHead, Describes, Chained, Working
    <3>3. q[level[c]][1] \in Vcpus
      BY <3>2, EmptySeq, ElementOfSeq, LenProperties DEF Chain
    <3> QED BY <3>2, <3>3 DEF Chain
  <2> QED BY <1>4, <2>1 DEF TakeHead, listVars, Places
<1>5. ASSUME NEW c \in Cpus, TakeUnlink(c) PROVE TypeInv'
  BY <1>5 DEF TakeUnlink, NewHead, Places
<1>6. ASSUME NEW c \in Cpus, TakeEnd(c) PROVE TypeInv'
  BY <1>6 DEF TakeEnd, Places
<1>7. ASSUME NEW v \in Vcpus, Leave(v) PROVE TypeInv'
  BY <1>7 DEF Leave, listVars, cpuVars
<1>8. ASSUME NEW c \in Cpus, NEW v \in Vcpus, Remove(c, v) PROVE TypeInv'
  <2>1. CASE RemoveHead(v)
    BY <1>8, <2>1 DEF Remove, RemoveHead, cpuVars
  <2>2. CASE RemoveInside(v)
    <3>1. Before(v) \in Vcpus
      <4>1. Chain(priority[v], q[priority[v]]) /\ List(priority[v]) = q[priority[v]]
        BY ListIsChain DEF Describes, Chained
      <4>2. PICK i \in DOMAIN q[priority[v]] : q[priority[v]][i] = v
        BY <1>8, <4>1 DEF Remove, IsListed
      <4>3. i \in 1..Len(q[priority[v]]) /\ Len(q[priority[v]]) \in Nat
        BY <4>1, LenProperties DEF Chain
      <4>4. q[priority[v]] # <<>> /\ i # 1
        BY <2>2, <4>1, <4>2, <4>3, EmptySeq DEF RemoveInside, Chain
      <4>5. i > 1
        BY <4>3, <4>4
      <4> QED BY <4>2, <4>5, BeforeInList DEF Describes
    <3> QED BY <1>8, <2>2, <3>1 DEF Remove, RemoveInside, TailWithout, cpuVars
  <2> QED BY <1>8, <2>1, <2>2 DEF Remove
<1>9. ASSUME UNCHANGED vars PROVE TypeInv'
  BY <1>9 DEF vars, listVars, cpuVars
<1> QED BY <1>1, <1>2, <1>3, <1>4, <1>5, <1>6, <1>7, <1>8, <1>9 DEF Next, Taking

(* Any step leaves lists behind that the pointers lead to again, and these  *)
(* differ by what one operation of ReadyQueue does.                         *)
QueueStep(q, r) ==
  \/ r = q
  \/ \E v \in Vcpus : ~In(q, v) /\ r = [q EXCEPT ![priority[v]] = Append(@, v)]
  \/ \E p \in Priorities :
       \/ /\ q[p] # <<>> /\ \A l \in Priorities : l < p => q[l] = <<>>
          /\ r = [q EXCEPT ![p] = Tail(@)]
       \/ \E i \in DOMAIN q[p] : r = [q EXCEPT ![p] = Queue!Without(@, i)]

LEMMA DescribesStep ==
  ASSUME OneCpu, LockInv, TypeInv, NEW q, Describes(q), [Next]_vars
  PROVE  \E r : Describes(r)' /\ QueueStep(q, r)
<1> DEFINE Stays == Describes(q)'
<1>1. Stays => \E r : Describes(r)' /\ QueueStep(q, r)
  BY DEF QueueStep
<1>2. ASSUME NEW c \in Cpus, AddFirst(c) \/ AddAppend(c) PROVE \E r : Describes(r)' /\ QueueStep(q, r)
  <2>1. PICK w \in Vcpus : ~In(q, w) /\ Describes([q EXCEPT ![priority[w]] = Append(@, w)])'
    BY <1>2, AddLinkHolds
  <2>2. QueueStep(q, [q EXCEPT ![priority[w]] = Append(@, w)])
    BY <2>1 DEF QueueStep
  <2> QED BY <2>1, <2>2
<1>3. ASSUME NEW c \in Cpus, TakeUnlink(c) PROVE \E r : Describes(r)' /\ QueueStep(q, r)
  <2>1. PICK l \in Priorities : /\ q[l] # <<>> /\ \A p \in Priorities : p < l => q[p] = <<>>
                                /\ Describes([q EXCEPT ![l] = Tail(@)])'
    BY <1>3, TakeUnlinkHolds
  <2>2. QueueStep(q, [q EXCEPT ![l] = Tail(@)])
    BY <2>1 DEF QueueStep
  <2> QED BY <2>1, <2>2
<1>4. ASSUME NEW c \in Cpus, NEW v \in Vcpus, Remove(c, v) PROVE \E r : Describes(r)' /\ QueueStep(q, r)
  <2>1. PICK i \in DOMAIN q[priority[v]] : Describes([q EXCEPT ![priority[v]] = Queue!Without(@, i)])'
    BY <1>4, RemoveHolds
  <2>2. QueueStep(q, [q EXCEPT ![priority[v]] = Queue!Without(@, i)])
    BY QueueAssumption DEF QueueStep
  <2> QED BY <2>1, <2>2
<1>5. ASSUME UNCHANGED vars PROVE Stays
  BY <1>5 DEF vars, listVars, cpuVars, Describes, Chained, Chain, Placed, Tailed, Working, In, TakenAt
<1>6. ASSUME NEW c \in Cpus, NEW v \in Vcpus, AddStart(c, v) PROVE Stays
  BY <1>6, AddStartHolds
<1>7. ASSUME NEW c \in Cpus, Adding(c) PROVE Stays \/ AddFirst(c) \/ AddAppend(c)
  BY <1>7, AddTestHolds, AddTailHolds, AddEndHolds DEF Adding
<1>8. ASSUME NEW c \in Cpus, Taking(c) PROVE Stays \/ TakeUnlink(c)
  BY <1>8, ScanHolds, TakeHeadHolds, TakeEndHolds DEF Taking
<1>9. ASSUME NEW v \in Vcpus, Leave(v) PROVE Stays
  BY <1>9, LeaveHolds
<1> HIDE DEF Stays
<1> QED BY <1>1, <1>2, <1>3, <1>4, <1>5, <1>6, <1>7, <1>8, <1>9 DEF Next
LEMMA NextListIsChain == \A p, s : Chain(p, s)' => List(p)' = s
<1>1. \A p, s : Chain(p, s) => List(p) = s
  BY ListIsChain
<1>2. (\A p, s : Chain(p, s) => List(p) = s)'
  BY <1>1, PTL
<1> QED BY <1>2

LEMMA QStep ==
  ASSUME OneCpu, QInv, [Next]_vars
  PROVE  QInv' /\ [Queue!Next]_Queues
<1>1. PICK q : q = Queues
  OBVIOUS
<1>2. Describes(q)
  BY <1>1 DEF QInv
<1>3. PICK r : Describes(r)' /\ QueueStep(q, r)
  BY <1>2, DescribesStep DEF QInv
<1>4. Queues' = r
  <2>1. r \in [Priorities -> Seq(Vcpus)] /\ \A p \in Priorities : Chain(p, r[p])'
    BY <1>3 DEF Describes, Chained
  <2>2. \A p \in Priorities : List(p)' = r[p]
    BY <2>1, NextListIsChain
  <2> QED BY <2>1, <2>2 DEF Queues
<1>5. QInv'
  BY <1>2, <1>3, <1>4, LockStep, TypeStep DEF QInv
<1>6. [Queue!Next]_Queues
  <2>1. q \in [Priorities -> Seq(Vcpus)] /\ DOMAIN q = Priorities
    BY <1>2 DEF Describes, Chained
  <2>2. CASE r = q
    BY <2>2, <1>1, <1>4
  <2>3. ASSUME NEW v \in Vcpus, ~In(q, v), r = [q EXCEPT ![priority[v]] = Append(@, v)]
        PROVE  Queue!Add(v)
    <3>1. \A p \in Priorities : \A i \in DOMAIN q[p] : priority[q[p][i]] = p
      BY <1>2 DEF Describes, Chained
    <3>2. ~ \E p \in Priorities : \E i \in DOMAIN q[p] : q[p][i] = v
      BY <2>3, <3>1 DEF In
    <3> QED BY <1>1, <1>4, <2>3, <3>2 DEF Queue!Add, Queue!IsQueued, Queue!Priorities, Queues, Priorities
  <2>4. ASSUME NEW p \in Priorities, q[p] # <<>>, \A l \in Priorities : l < p => q[l] = <<>>,
               r = [q EXCEPT ![p] = Tail(@)]
        PROVE  Queue!Take(p)
    BY <1>1, <1>4, <2>4 DEF Queue!Take, Queue!Priorities, Queues, Priorities
  <2>5. ASSUME NEW p \in Priorities, NEW i \in DOMAIN q[p], r = [q EXCEPT ![p] = Queue!Without(@, i)]
        PROVE  Queue!Remove(p, i) /\ i \in DOMAIN Queues[p]
    BY <1>1, <1>4, <2>5 DEF Queue!Remove, Queue!Priorities, Queues, Priorities
  <2> QED BY <1>3, <2>2, <2>3, <2>4, <2>5 DEF QueueStep, Queue!Next, Queue!Priorities, Queues, Priorities
<1> QED BY <1>5, <1>6

(* QInv holds in every reachable state of one CPU.                          *)
THEOREM QueueInvariance == ASSUME OneCpu PROVE Spec => []QInv
<1>1. QInv /\ [Next]_vars => QInv'
  BY QStep
<1> QED BY <1>1, QInit, PTL DEF Spec

(* No pointer is followed or stored that is not one to a vcpu, although     *)
(* lists are walked and vcpus removed from the middle of them.              *)
THEOREM QueueTypeCorrect == ASSUME OneCpu PROVE Spec => []TypeOK
<1>1. QInv => TypeOK
  BY DEF QInv, TypeInv
<1> QED BY <1>1, QueueInvariance, PTL

(* The tail pointer that an add follows is the one of the last vcpu.        *)
THEOREM QueueTailRight == ASSUME OneCpu PROVE Spec => []TailIsLast
<1>1. ASSUME QInv PROVE TailIsLast
  <2> SUFFICES ASSUME NEW p \in Priorities, head[p] # None,
                      \A c \in Cpus : pc[c] \in {"out", "scan", "take"}
               PROVE  tail[p] = List(p)[Len(List(p))]
    BY DEF TailIsLast
  <2>1. Queues[p] = List(p) /\ Chain(p, Queues[p]) /\ Tailed(Queues)
    BY <1>1 DEF QInv, Describes, Chained, Queues
  <2>2. List(p) # <<>>
    BY <2>1 DEF Chain
  <2> QED BY <2>1, <2>2 DEF Tailed, Last
<1> QED BY <1>1, QueueInvariance, PTL

(* No READY vcpu is lost: lists, adds and decisions agree on every one.     *)
THEOREM QueueLosesNoVcpu == ASSUME OneCpu PROVE Spec => []ReadyIsReachable
<1>1. ASSUME QInv PROVE ReadyIsReachable
  <2> SUFFICES ASSUME NEW v \in Vcpus, status[v] = "ready", \A c \in Cpus : who[c] # v
               PROVE  IsListed(v)
    BY DEF ReadyIsReachable
  <2>1. In(Queues, v) /\ priority[v] \in Priorities
    BY <1>1, QueueAssumption DEF QInv, Describes, Placed
  <2> QED BY <2>1 DEF In, Queues, IsListed
<1> QED BY <1>1, QueueInvariance, PTL

(* The pointer structure of fcfs_schedule.c is a first-in first-out queue   *)
(* for each priority: an add appends, a decision takes the first vcpu of    *)
(* the most urgent queue that is not empty, and a removal takes out one     *)
(* vcpu and keeps the order of the others.                                  *)
THEOREM PointersImplementQueue == ASSUME OneCpu PROVE Spec => ImplementsQueue
<1>1. Init => Queue!Init
  <2> SUFFICES ASSUME Init PROVE Queue!Init
    OBVIOUS
  <2>1. \A p \in Priorities : Chain(p, <<>>)
    BY DEF Chain, Init, EmptyList
  <2>2. \A p \in Priorities : List(p) = <<>>
    BY <2>1, ListIsChain
  <2> QED BY <2>2 DEF Queue!Init, Queue!Priorities, Priorities
<1>2. QInv /\ [Next]_vars => [Queue!Next]_Queues
  BY QStep
<1> QED BY <1>1, <1>2, QueueInvariance, PTL DEF Spec, ImplementsQueue, Queue!Spec, Queues
=============================================================================
