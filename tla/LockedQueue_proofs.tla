------------------------- MODULE LockedQueue_proofs -------------------------
(***************************************************************************)
(* Proofs about the spin lock and the handlers of LockedQueue, for any     *)
(* number of CPUs and vcpus: the exclusive accesses give one CPU the lock, *)
(* the interrupt mask lasts for a whole handler, locks are only nested in  *)
(* one way, and so the steps are steps of FcfsQueue.                       *)
(*                                                                         *)
(* The argument is about the sequences in todo: Orderly says of each step  *)
(* in one how it fits to what follows.  Scripts are shown to be orderly    *)
(* from their last step to their first one.                                *)
(***************************************************************************)
EXTENDS LockedQueue, FcfsQueue_proofs

Steps ==
  {<<"save">>, <<"count">>, <<"halt">>, <<"add">>, <<"schedule">>, <<"release">>,
   <<"wait">>, <<"exit">>}
    \cup {<<op, l>> : op \in {"load", "store", "unlock"}, l \in Locks}

Starts(s, step) == s # <<>> /\ s[1] = step

(* The locks that a CPU holds that still has to do s.                       *)
Open(s) ==
  {l \in Locks : \E i \in DOMAIN s : /\ s[i] = <<"unlock", l>>
                                     /\ \A j \in 1..(i - 1) : s[j] # <<"store", l>>}

(* x may be done before s. *)
Proper(x, s) ==
  /\ \A l \in Locks : x = <<"load", l>> <=> Starts(s, <<"store", l>>)
  /\ \A l \in Locks : Starts(s, <<"load", l>>) => x = <<"save">>
  /\ \A l \in Locks : x = <<"store", l>> =>
       l \in Open(s) /\ \A h \in Open(s) \ {l} : h # "ser_locked" /\ l = "ser_locked"
  /\ \A l \in Locks : x = <<"unlock", l>> => l \notin Open(s)
  /\ x = <<"count">> => "ser_locked" \notin Open(s)
  /\ x = <<"schedule">> => "scheduler_locked" \in Open(s) /\ "ser_locked" \notin Open(s)
  /\ x = <<"exit">> => s = <<>>
  /\ ~Starts(s, <<"wait">>)

(* What is left of s after n steps. *)
Drop(s, n) == [i \in 1..(Len(s) - n) |-> s[i + n]]

Orderly(s) ==
  /\ s \in Seq(Steps)
  /\ \A n \in 1..Len(s) : Proper(s[n], Drop(s, n))

LockedTypes ==
  /\ word \in [Locks -> BOOLEAN]
  /\ monitor \in [Cpus -> Locks \cup {None}]
  /\ masked \in [Cpus -> BOOLEAN]
  /\ intr_state \in [Cpus -> BOOLEAN]
  /\ pc \in [Cpus -> Places]
  /\ holder \in Cpus \cup {None}
  /\ DOMAIN todo = Cpus

(* One CPU holds a lock, and a reservation that survived to the store is    *)
(* of a lock that is free.                                                  *)
WordInv ==
  /\ \A c, d \in Cpus : \A l \in Open(todo[c]) \cap Open(todo[d]) : c = d
  /\ \A c \in Cpus : \A l \in Open(todo[c]) : word[l]
  /\ \A c \in Cpus, l \in Locks : Now(c, <<"store", l>>) /\ monitor[c] = l => ~word[l]

(* From the save on, intr_state says that interrupts were masked already.   *)
MaskInv ==
  \A c \in Cpus :
    /\ todo[c] # <<>> /\ ~Now(c, <<"wait">>) => masked[c]
    /\ Open(todo[c]) # {} => intr_state[c]
    /\ \A l \in Locks : Now(c, <<"load", l>>) \/ Now(c, <<"store", l>>) => intr_state[c]

ScheduleInv ==
  /\ \A c \in Cpus : pc[c] \in Scanning => Now(c, <<"schedule">>)
  /\ holder # None => pc[holder] \in Scanning

OrderInv == \A c \in Cpus : Orderly(todo[c])

LInv == LockedTypes /\ OrderInv /\ WordInv /\ MaskInv /\ ScheduleInv

-----------------------------------------------------------------------------
(* Sequences, one step longer and one step shorter. *)

LEMMA ConsSeq ==
  ASSUME NEW S, NEW s \in Seq(S), NEW x \in S
  PROVE  /\ <<x>> \o s \in Seq(S) /\ <<x>> \o s # <<>>
         /\ Len(<<x>> \o s) = Len(s) + 1
         /\ (<<x>> \o s)[1] = x /\ \A i \in 1..Len(s) : (<<x>> \o s)[i + 1] = s[i]
         /\ Head(<<x>> \o s) = x /\ Tail(<<x>> \o s) = s
OBVIOUS

LEMMA HeadTail ==
  ASSUME NEW S, NEW s \in Seq(S), s # <<>>
  PROVE  Head(s) \in S /\ Tail(s) \in Seq(S) /\ s = <<Head(s)>> \o Tail(s) /\ s[1] = Head(s)
OBVIOUS

LEMMA DropCons ==
  ASSUME NEW S, NEW s \in Seq(S), NEW x \in S
  PROVE  /\ Drop(<<x>> \o s, 1) = s
         /\ \A n \in 1..Len(s) : Drop(<<x>> \o s, n + 1) = Drop(s, n)
<1> DEFINE t == <<x>> \o s
<1>1. /\ t \in Seq(S) /\ Len(t) = Len(s) + 1 /\ Len(s) \in Nat
      /\ \A i \in 1..Len(s) : t[i + 1] = s[i]
  BY ConsSeq, LenProperties
<1> HIDE DEF t
<1>2. Drop(t, 1) = s
  <2>1. (Len(s) + 1) - 1 = Len(s)
    BY <1>1
  <2>2. Drop(t, 1) = [i \in 1..Len(s) |-> s[i]]
    BY <1>1, <2>1 DEF Drop
  <2> QED BY <2>2
<1>3. ASSUME NEW n \in 1..Len(s) PROVE Drop(t, n + 1) = Drop(s, n)
  <2>1. (Len(s) + 1) - (n + 1) = Len(s) - n
    BY <1>1
  <2>2. ASSUME NEW i \in 1..(Len(s) - n) PROVE t[i + (n + 1)] = s[i + n]
    <3>1. i + n \in 1..Len(s)
      <4>1. Len(s) \in Nat
        BY <1>1
      <4> QED BY <4>1
    <3>2. i + (n + 1) = (i + n) + 1
      OBVIOUS
    <3> QED BY <1>1, <3>1, <3>2
  <2>3. \A i \in 1..(Len(s) - n) : t[i + (n + 1)] = s[i + n]
    BY <2>2
  <2> QED BY <1>1, <2>1, <2>3 DEF Drop
<1> QED BY <1>2, <1>3 DEF t

LEMMA OpenCons ==
  ASSUME NEW s \in Seq(Steps), NEW x \in Steps
  PROVE  Open(<<x>> \o s) =
           {l \in Locks : x = <<"unlock", l>> \/ (x # <<"store", l>> /\ l \in Open(s))}
<1> DEFINE t == <<x>> \o s
<1>1. /\ t \in Seq(Steps) /\ Len(t) = Len(s) + 1 /\ Len(s) \in Nat /\ t[1] = x
      /\ \A i \in 1..Len(s) : t[i + 1] = s[i]
      /\ DOMAIN t = 1..(Len(s) + 1) /\ DOMAIN s = 1..Len(s)
  BY ConsSeq, LenProperties
<1> HIDE DEF t
<1>2. ASSUME NEW l \in Locks, x = <<"unlock", l>> PROVE l \in Open(t)
  <2>1. 1 \in DOMAIN t /\ 1..(1 - 1) = {}
    BY <1>1
  <2> QED BY <1>1, <1>2, <2>1 DEF Open
<1>3. ASSUME NEW l \in Open(s), x # <<"store", l>> PROVE l \in Open(t)
  <2>1. PICK i \in DOMAIN s : s[i] = <<"unlock", l>> /\ \A j \in 1..(i - 1) : s[j] # <<"store", l>>
    BY DEF Open
  <2>2. i + 1 \in DOMAIN t /\ t[i + 1] = <<"unlock", l>>
    BY <1>1, <2>1
  <2>3. ASSUME NEW j \in 1..((i + 1) - 1) PROVE t[j] # <<"store", l>>
    <3>1. CASE j = 1
      BY <3>1, <1>1, <1>3
    <3>2. CASE j # 1
      <4>1. j - 1 \in 1..(i - 1) /\ j - 1 \in 1..Len(s) /\ (j - 1) + 1 = j
        BY <3>2, <1>1
      <4> QED BY <4>1, <2>1, <1>1
    <3> QED BY <3>1, <3>2
  <2> QED BY <2>2, <2>3 DEF Open
<1>4. ASSUME NEW l \in Open(t), x # <<"unlock", l>> PROVE x # <<"store", l>> /\ l \in Open(s)
  <2>1. PICK i \in DOMAIN t : t[i] = <<"unlock", l>> /\ \A j \in 1..(i - 1) : t[j] # <<"store", l>>
    BY DEF Open
  <2>2. i # 1
    BY <1>1, <1>4, <2>1
  <2>3. i - 1 \in DOMAIN s /\ (i - 1) + 1 = i /\ 1 \in 1..(i - 1)
    BY <1>1, <2>2
  <2>4. s[i - 1] = <<"unlock", l>> /\ x # <<"store", l>>
    BY <1>1, <2>1, <2>3
  <2>5. ASSUME NEW j \in 1..((i - 1) - 1) PROVE s[j] # <<"store", l>>
    <3>1. j \in 1..Len(s) /\ j + 1 \in 1..(i - 1)
      BY <1>1, <2>3
    <3> QED BY <3>1, <2>1, <1>1
  <2> QED BY <2>3, <2>4, <2>5 DEF Open
<1>5. Open(t) \subseteq Locks /\ Open(s) \subseteq Locks
  BY DEF Open
<1> QED BY <1>2, <1>3, <1>4, <1>5 DEF t

LEMMA OrderlyCons ==
  ASSUME NEW s \in Seq(Steps), NEW x \in Steps
  PROVE  Orderly(<<x>> \o s) <=> Proper(x, s) /\ Orderly(s)
<1> DEFINE t == <<x>> \o s
<1>1. /\ t \in Seq(Steps) /\ Len(t) = Len(s) + 1 /\ Len(s) \in Nat /\ t[1] = x
      /\ \A i \in 1..Len(s) : t[i + 1] = s[i]
  BY ConsSeq, LenProperties
<1>2. Drop(t, 1) = s /\ \A n \in 1..Len(s) : Drop(t, n + 1) = Drop(s, n)
  BY DropCons
<1> HIDE DEF t
<1>3. \A n \in 1..Len(t) : n = 1 \/ \E m \in 1..Len(s) : n = m + 1
  <2> SUFFICES ASSUME NEW n \in 1..Len(t), n # 1 PROVE n - 1 \in 1..Len(s) /\ n = (n - 1) + 1
    OBVIOUS
  <2> QED BY <1>1
<1>4. 1 \in 1..Len(t) /\ \A m \in 1..Len(s) : m + 1 \in 1..Len(t)
  BY <1>1
<1> QED BY <1>1, <1>2, <1>3, <1>4 DEF Orderly, t

LEMMA EmptyOrderly == Orderly(<<>>) /\ Open(<<>>) = {}
BY DEF Orderly, Open
LEMMA Tuple2 ==
  ASSUME NEW s \in Seq(Steps), NEW x \in Steps, NEW y \in Steps
  PROVE  <<x, y>> \o s = <<x>> \o (<<y>> \o s)
<1>1. <<x>> \in Seq(Steps) /\ <<y>> \in Seq(Steps)
  OBVIOUS
<1>2. <<x, y>> = <<x>> \o <<y>>
  <2> DEFINE t == <<x>> \o <<y>>
  <2>1. t \in Seq(Steps) /\ Len(t) = Len(<<y>>) + 1 /\ t[1] = x /\ \A i \in 1..Len(<<y>>) : t[i + 1] = <<y>>[i]
    BY <1>1, ConsSeq
  <2> HIDE DEF t
  <2>2. Len(<<y>>) = 1 /\ 1 \in 1..1 /\ 1 + 1 = 2 /\ <<y>>[1] = y
    OBVIOUS
  <2>3. Len(t) = 2 /\ t[1] = x /\ t[2] = y
    BY <2>1, <2>2
  <2>4. t = [i \in 1..2 |-> IF i = 1 THEN x ELSE y]
    BY <2>1, <2>3
  <2>5. <<x, y>> = [i \in 1..2 |-> IF i = 1 THEN x ELSE y]
    OBVIOUS
  <2> QED BY <2>4, <2>5 DEF t
<1>3. (<<x>> \o <<y>>) \o s = <<x>> \o (<<y>> \o s)
  BY <1>1, ConcatAssociative
<1> QED BY <1>2, <1>3

LEMMA Tuple3 ==
  ASSUME NEW s \in Seq(Steps), NEW x \in Steps, NEW y \in Steps, NEW z \in Steps
  PROVE  <<x, y, z>> \o s = <<x>> \o (<<y>> \o (<<z>> \o s))
<1>1. <<x>> \in Seq(Steps) /\ <<y, z>> \in Seq(Steps)
  OBVIOUS
<1>2. <<x, y, z>> = <<x>> \o <<y, z>>
  OBVIOUS
<1>3. (<<x>> \o <<y, z>>) \o s = <<x>> \o (<<y, z>> \o s)
  BY <1>1, ConcatAssociative
<1>4. <<y, z>> \o s = <<y>> \o (<<z>> \o s)
  BY Tuple2
<1> QED BY <1>2, <1>3, <1>4

-----------------------------------------------------------------------------
(* The scripts are orderly. *)

(* s may follow anything. *)
Calm(s) ==
  /\ Orderly(s)
  /\ \A l \in Locks : ~Starts(s, <<"store", l>>) /\ ~Starts(s, <<"load", l>>)
  /\ ~Starts(s, <<"wait">>)

LEMMA StepsAre ==
  /\ {<<"save">>, <<"count">>, <<"halt">>, <<"add">>, <<"schedule">>, <<"release">>,
      <<"wait">>, <<"exit">>} \subseteq Steps
  /\ \A l \in Locks : {<<"load", l>>, <<"store", l>>, <<"unlock", l>>} \subseteq Steps
BY DEF Steps

LEMMA PlainCons ==
  ASSUME NEW s, Calm(s),
         NEW x \in {<<"count">>, <<"halt">>, <<"add">>, <<"schedule">>, <<"release">>, <<"exit">>},
         x = <<"count">> => "ser_locked" \notin Open(s),
         x = <<"schedule">> => "scheduler_locked" \in Open(s) /\ "ser_locked" \notin Open(s),
         x = <<"exit">> => s = <<>>
  PROVE  Calm(<<x>> \o s) /\ Open(<<x>> \o s) = Open(s)
<1>1. s \in Seq(Steps) /\ x \in Steps /\ Open(s) \subseteq Locks
  BY StepsAre DEF Calm, Orderly, Open
<1>2. x # <<"wait">> /\ x # <<"save">>
      /\ \A l \in Locks : x # <<"load", l>> /\ x # <<"store", l>> /\ x # <<"unlock", l>>
  OBVIOUS
<1>3. Proper(x, s)
  BY <1>2 DEF Calm, Proper
<1>4. Open(<<x>> \o s) = Open(s)
  <2>1. Open(<<x>> \o s) = {l \in Locks : x = <<"unlock", l>> \/ (x # <<"store", l>> /\ l \in Open(s))}
    BY <1>1, OpenCons
  <2>2. {l \in Locks : x = <<"unlock", l>> \/ (x # <<"store", l>> /\ l \in Open(s))}
          = {l \in Locks : l \in Open(s)}
    BY <1>2
  <2> QED BY <1>1, <2>1, <2>2
<1>5. \A y : Starts(<<x>> \o s, y) => y = x
  BY <1>1, ConsSeq DEF Starts
<1> QED BY <1>1, <1>2, <1>3, <1>4, <1>5, OrderlyCons DEF Calm

LEMMA UnlockCons ==
  ASSUME NEW s, Calm(s), NEW l \in Locks, l \notin Open(s)
  PROVE  Calm(SpinUnlock(l) \o s) /\ Open(SpinUnlock(l) \o s) = Open(s) \cup {l}
<1> DEFINE x == <<"unlock", l>>
<1>1. s \in Seq(Steps) /\ x \in Steps /\ Open(s) \subseteq Locks /\ SpinUnlock(l) = <<x>>
  BY StepsAre DEF Calm, Orderly, Open, SpinUnlock
<1>2. /\ x \notin {<<"wait">>, <<"save">>, <<"count">>, <<"schedule">>, <<"exit">>}
      /\ \A k \in Locks : x # <<"load", k>> /\ x # <<"store", k>> /\ (x = <<"unlock", k>> <=> k = l)
  OBVIOUS
<1> HIDE DEF x
<1>3. Proper(x, s)
  BY <1>2 DEF Calm, Proper
<1>4. Open(<<x>> \o s) = Open(s) \cup {l}
  BY <1>1, <1>2, OpenCons
<1>5. \A y : Starts(<<x>> \o s, y) => y = x
  BY <1>1, ConsSeq DEF Starts
<1> QED BY <1>1, <1>2, <1>3, <1>4, <1>5, OrderlyCons DEF Calm

(* What may be asked for while something is held. *)
MayAsk(l, held) == \A h \in held : h # "ser_locked" /\ l = "ser_locked"

(* The store, and the load before it. *)
LEMMA StoreCons ==
  ASSUME NEW s, Calm(s), NEW l \in Locks, l \in Open(s), MayAsk(l, Open(s) \ {l})
  PROVE  /\ Orderly(<< <<"store", l>> >> \o s)
         /\ Open(<< <<"store", l>> >> \o s) = Open(s) \ {l}
<1> DEFINE x == <<"store", l>>
<1>1. s \in Seq(Steps) /\ x \in Steps /\ Open(s) \subseteq Locks
  BY StepsAre DEF Calm, Orderly, Open
<1>2. /\ x \notin {<<"wait">>, <<"save">>, <<"count">>, <<"schedule">>, <<"exit">>}
      /\ \A k \in Locks : x # <<"load", k>> /\ x # <<"unlock", k>> /\ (x = <<"store", k>> <=> k = l)
  OBVIOUS
<1> HIDE DEF x
<1>3. Proper(x, s)
  BY <1>2 DEF Calm, Proper, MayAsk
<1>4. Open(<<x>> \o s) = Open(s) \ {l}
  BY <1>1, <1>2, OpenCons
<1> QED BY <1>1, <1>3, <1>4, OrderlyCons DEF Calm, x

LEMMA LoadCons ==
  ASSUME NEW s, Orderly(s), NEW l \in Locks, Starts(s, <<"store", l>>)
  PROVE  Orderly(<< <<"load", l>> >> \o s) /\ Open(<< <<"load", l>> >> \o s) = Open(s)
<1> DEFINE x == <<"load", l>>
<1>1. s \in Seq(Steps) /\ x \in Steps /\ Open(s) \subseteq Locks
  BY StepsAre DEF Orderly, Open
<1>2. /\ x \notin {<<"wait">>, <<"save">>, <<"count">>, <<"schedule">>, <<"exit">>}
      /\ \A k \in Locks : x # <<"store", k>> /\ x # <<"unlock", k>> /\ (x = <<"load", k>> <=> k = l)
  OBVIOUS
<1>3. \A y : Starts(s, y) <=> y = <<"store", l>>
  BY DEF Starts
<1>4. <<"wait">> # <<"store", l>> /\ \A k \in Locks : <<"load", k>> # <<"store", l>> /\ (<<"store", k>> = <<"store", l>> <=> k = l)
  OBVIOUS
<1> HIDE DEF x
<1>5. Proper(x, s)
  BY <1>2, <1>3, <1>4 DEF Proper
<1>6. Open(<<x>> \o s) = Open(s)
  BY <1>1, <1>2, OpenCons
<1> QED BY <1>1, <1>5, <1>6, OrderlyCons DEF x

LEMMA LockCons ==
  ASSUME NEW s, Calm(s), NEW l \in Locks, l \in Open(s), MayAsk(l, Open(s) \ {l})
  PROVE  Calm(SpinLock(l) \o s) /\ Open(SpinLock(l) \o s) = Open(s) \ {l}
<1> DEFINE x == <<"save">>
           s1 == << <<"store", l>> >> \o s
           s2 == << <<"load", l>> >> \o s1
<1>1. s \in Seq(Steps) /\ x \in Steps /\ <<"load", l>> \in Steps /\ <<"store", l>> \in Steps
  BY StepsAre DEF Calm, Orderly
<1>2. SpinLock(l) \o s = <<x>> \o s2
  <2> DEFINE y == <<"load", l>>
             z == <<"store", l>>
  <2>1. SpinLock(l) = <<x, y, z>>
    BY DEF SpinLock
  <2>2. y \in Steps /\ z \in Steps /\ s2 = <<y>> \o (<<z>> \o s)
    BY <1>1
  <2>3. x \in Steps /\ y \in Steps /\ z \in Steps /\ s \in Seq(Steps)
    BY <1>1
  <2> HIDE DEF x, y, z, s2
  <2>4. <<x, y, z>> \o s = <<x>> \o (<<y>> \o (<<z>> \o s))
    BY <2>3, Tuple3, SMTT(30)
  <2> QED BY <2>1, <2>2, <2>4
<1>3. Orderly(s1) /\ Open(s1) = Open(s) \ {l} /\ Starts(s1, <<"store", l>>)
  BY <1>1, StoreCons, ConsSeq DEF Starts
<1>4. Orderly(s2) /\ Open(s2) = Open(s) \ {l} /\ s2 \in Seq(Steps)
  BY <1>3, LoadCons DEF Orderly
<1>5. \A y : Starts(s2, y) <=> y = <<"load", l>>
  <2>1. s1 \in Seq(Steps)
    BY <1>3 DEF Orderly
  <2> QED BY <1>1, <2>1, ConsSeq DEF Starts
<1>6. /\ x \notin {<<"wait">>, <<"count">>, <<"schedule">>, <<"exit">>}
      /\ \A k \in Locks : x # <<"store", k>> /\ x # <<"unlock", k>> /\ x # <<"load", k>>
      /\ <<"load", l>> # <<"wait">> /\ \A k \in Locks : <<"store", k>> # <<"load", l>>
  OBVIOUS
<1> HIDE DEF s1, s2, x
<1>7. Proper(x, s2)
  BY <1>5, <1>6 DEF Proper, x
<1>8. Open(<<x>> \o s2) = Open(s) \ {l}
  <2>1. Open(s) \subseteq Locks
    BY DEF Open
  <2> QED BY <1>1, <1>4, <1>6, <2>1, OpenCons
<1>9. \A y : Starts(<<x>> \o s2, y) => y = x
  BY <1>1, <1>4, ConsSeq DEF Starts
<1> QED BY <1>1, <1>2, <1>4, <1>6, <1>7, <1>8, <1>9, OrderlyCons DEF Calm
LEMMA LocksAre ==
  /\ "ser_locked" \in Locks /\ "scheduler_locked" \in Locks /\ "hyp_timer_spinlock" \in Locks
  /\ "ser_locked" # "scheduler_locked" /\ "ser_locked" # "hyp_timer_spinlock"
BY DEF Locks

LEMMA SpinSeq ==
  ASSUME NEW l \in Locks
  PROVE  SpinLock(l) \in Seq(Steps) /\ SpinUnlock(l) \in Seq(Steps)
<1>1. <<"save">> \in Steps /\ <<"load", l>> \in Steps /\ <<"store", l>> \in Steps /\ <<"unlock", l>> \in Steps
  BY StepsAre
<1> QED BY <1>1 DEF SpinLock, SpinUnlock

LEMMA PlainSeq ==
  ASSUME NEW x \in {"count", "halt", "add", "schedule", "release", "wait", "exit"}
  PROVE  << <<x>> >> \in Seq(Steps)
<1>1. <<x>> \in Steps
  BY StepsAre
<1> QED BY <1>1

(* A chain of pieces is regrouped piece by piece. *)
LEMMA Regroup == \A a, b, d \in Seq(Steps) : (a \o b) \o d = a \o (b \o d)
BY ConcatAssociative

LEMMA CalmSeq == \A s : Calm(s) => s \in Seq(Steps)
BY DEF Calm, Orderly

(* A lock around b.                                                         *)
LEMMA PutsCons ==
  ASSUME NEW s, Calm(s), "ser_locked" \notin Open(s)
  PROVE  puts \in Seq(Steps) /\ Calm(puts \o s) /\ Open(puts \o s) = Open(s)
<1> DEFINE l == "ser_locked"
           u == SpinUnlock(l) \o s
<1>1. l \in Locks /\ SpinLock(l) \in Seq(Steps) /\ SpinUnlock(l) \in Seq(Steps) /\ s \in Seq(Steps)
  BY LocksAre, SpinSeq, CalmSeq
<1>2. Calm(u) /\ Open(u) = Open(s) \cup {l}
  BY <1>1, UnlockCons
<1> HIDE DEF u
<1>3. MayAsk(l, Open(u) \ {l})
  BY <1>2 DEF MayAsk
<1>4. Calm(SpinLock(l) \o u) /\ Open(SpinLock(l) \o u) = Open(u) \ {l}
  BY <1>1, <1>2, <1>3, LockCons
<1>5. puts \o s = SpinLock(l) \o u /\ puts \in Seq(Steps)
  <2>1. puts = SpinLock(l) \o SpinUnlock(l)
    BY DEF puts
  <2>2. SpinLock(l) \in Seq(Steps) /\ SpinUnlock(l) \in Seq(Steps) /\ s \in Seq(Steps)
    BY <1>1
  <2> HIDE DEF l
  <2>3. puts \in Seq(Steps)
    BY <2>1, <2>2, ConcatProperties
  <2>4. (SpinLock(l) \o SpinUnlock(l)) \o s = SpinLock(l) \o (SpinUnlock(l) \o s)
    BY <2>2, Regroup
  <2> QED BY <2>1, <2>3, <2>4 DEF u
<1> QED BY <1>2, <1>4, <1>5
LEMMA LogCons ==
  ASSUME NEW s, Calm(s), "ser_locked" \notin Open(s)
  PROVE  log_vprintf \in Seq(Steps) /\ Calm(log_vprintf \o s) /\ Open(log_vprintf \o s) = Open(s)
<1> DEFINE k == << <<"count">> >>
           t == k \o s
<1>1. k \in Seq(Steps) /\ s \in Seq(Steps)
  BY PlainSeq, CalmSeq
<1>2. Calm(t) /\ Open(t) = Open(s)
  BY PlainCons
<1> HIDE DEF t
<1>3. puts \in Seq(Steps) /\ Calm(puts \o t) /\ Open(puts \o t) = Open(s)
  BY <1>2, PutsCons
<1>4. log_vprintf \o s = puts \o t /\ log_vprintf \in Seq(Steps)
  <2> HIDE DEF k
  <2>1. log_vprintf = puts \o k
    BY DEF log_vprintf, k
  <2>2. puts \in Seq(Steps) /\ k \in Seq(Steps) /\ s \in Seq(Steps)
    BY <1>1, <1>3
  <2>3. log_vprintf \in Seq(Steps)
    BY <2>1, <2>2, ConcatProperties
  <2>4. (puts \o k) \o s = puts \o (k \o s)
    BY <2>2, Regroup
  <2> QED BY <2>1, <2>3, <2>4 DEF t
<1> QED BY <1>3, <1>4

LEMMA PanicCons ==
  ASSUME NEW s, Calm(s), "ser_locked" \notin Open(s)
  PROVE  Calm(hyp_panic \o s) /\ Open(hyp_panic \o s) = Open(s)
<1> DEFINE k == << <<"halt">> >>
           t == k \o s
<1>1. k \in Seq(Steps) /\ s \in Seq(Steps)
  BY PlainSeq, CalmSeq
<1>2. Calm(t) /\ Open(t) = Open(s)
  BY PlainCons
<1> HIDE DEF t
<1>3. puts \in Seq(Steps) /\ Calm(puts \o t) /\ Open(puts \o t) = Open(s)
  BY <1>2, PutsCons
<1>4. hyp_panic \o s = puts \o t
  <2> HIDE DEF k
  <2>1. hyp_panic = puts \o k
    BY DEF hyp_panic, k
  <2>2. puts \in Seq(Steps) /\ k \in Seq(Steps) /\ s \in Seq(Steps)
    BY <1>1, <1>3
  <2>3. (puts \o k) \o s = puts \o (k \o s)
    BY <2>2, Regroup
  <2> QED BY <2>1, <2>3 DEF t
<1> QED BY <1>3, <1>4

LEMMA ScheduleCons ==
  ASSUME NEW s, Calm(s), Open(s) = {}
  PROVE  do_schedule \in Seq(Steps) /\ Calm(do_schedule \o s) /\ Open(do_schedule \o s) = {}
<1> DEFINE l == "scheduler_locked"
           k == << <<"schedule">> >>
           u == SpinUnlock(l) \o s
           t == k \o u
<1>1. l \in Locks /\ SpinLock(l) \in Seq(Steps) /\ SpinUnlock(l) \in Seq(Steps) /\ s \in Seq(Steps)
      /\ k \in Seq(Steps)
  BY LocksAre, SpinSeq, CalmSeq, PlainSeq
<1>2. Calm(u) /\ Open(u) = {l}
  BY <1>1, UnlockCons
<1> HIDE DEF u
<1>3. Calm(t) /\ Open(t) = {l}
  BY <1>2, PlainCons
<1> HIDE DEF t
<1>4. Calm(SpinLock(l) \o t) /\ Open(SpinLock(l) \o t) = {}
  <2>1. l \in Open(t) /\ MayAsk(l, Open(t) \ {l}) /\ Open(t) \ {l} = {}
    BY <1>3 DEF MayAsk
  <2> QED BY <1>1, <1>3, <2>1, LockCons
<1>5. do_schedule \o s = SpinLock(l) \o t /\ do_schedule \in Seq(Steps)
  <2> DEFINE x == SpinLock(l) \o k
  <2>1. do_schedule = x \o SpinUnlock(l)
    BY DEF do_schedule
  <2>2. /\ SpinLock(l) \in Seq(Steps) /\ SpinUnlock(l) \in Seq(Steps) /\ s \in Seq(Steps)
        /\ k \in Seq(Steps) /\ u \in Seq(Steps)
    BY <1>1, <1>2, CalmSeq
  <2> HIDE DEF k, l
  <2>3. x \in Seq(Steps)
    BY <2>2, ConcatProperties
  <2>4. x \o u = SpinLock(l) \o t
    <3>1. (SpinLock(l) \o k) \o u = SpinLock(l) \o (k \o u)
      <4>1. SpinLock(l) \in Seq(Steps) /\ k \in Seq(Steps) /\ u \in Seq(Steps)
        BY <2>2
      <4> QED BY <4>1, Regroup
    <3> QED BY <3>1 DEF t
  <2> HIDE DEF x
  <2>5. do_schedule \in Seq(Steps)
    BY <2>1, <2>2, <2>3, ConcatProperties
  <2>6. (x \o SpinUnlock(l)) \o s = x \o (SpinUnlock(l) \o s)
    <3>1. SpinUnlock(l) \in Seq(Steps) /\ s \in Seq(Steps)
      BY <2>2
    <3> QED BY <2>3, <3>1, Regroup
  <2> QED BY <2>1, <2>4, <2>5, <2>6 DEF u
<1> QED BY <1>4, <1>5

LEMMA AddEventCons ==
  ASSUME NEW s, Calm(s), Open(s) = {}
  PROVE  timer_event_add \in Seq(Steps) /\ Calm(timer_event_add \o s) /\ Open(timer_event_add \o s) = {}
<1> DEFINE l == "hyp_timer_spinlock"
           u == SpinUnlock(l) \o s
<1>1. l \in Locks /\ SpinLock(l) \in Seq(Steps) /\ SpinUnlock(l) \in Seq(Steps) /\ s \in Seq(Steps)
  BY LocksAre, SpinSeq, CalmSeq
<1>2. Calm(u) /\ Open(u) = {l}
  BY <1>1, UnlockCons
<1> HIDE DEF u
<1>3. Calm(SpinLock(l) \o u) /\ Open(SpinLock(l) \o u) = {}
  <2>1. l \in Open(u) /\ MayAsk(l, Open(u) \ {l}) /\ Open(u) \ {l} = {}
    BY <1>2 DEF MayAsk
  <2> QED BY <1>1, <1>2, <2>1, LockCons
<1>4. timer_event_add \o s = SpinLock(l) \o u /\ timer_event_add \in Seq(Steps)
  <2>1. timer_event_add = SpinLock(l) \o SpinUnlock(l)
    BY DEF timer_event_add
  <2>2. SpinLock(l) \in Seq(Steps) /\ SpinUnlock(l) \in Seq(Steps) /\ s \in Seq(Steps)
    BY <1>1
  <2> HIDE DEF l
  <2>3. timer_event_add \in Seq(Steps)
    BY <2>1, <2>2, ConcatProperties
  <2>4. (SpinLock(l) \o SpinUnlock(l)) \o s = SpinLock(l) \o (SpinUnlock(l) \o s)
    BY <2>2, Regroup
  <2> QED BY <2>1, <2>3, <2>4 DEF u
<1> QED BY <1>3, <1>4

LEMMA SleepCons ==
  ASSUME NEW s, Calm(s), Open(s) = {}
  PROVE  vcpu_sleep \in Seq(Steps) /\ Calm(vcpu_sleep \o s) /\ Open(vcpu_sleep \o s) = {}
<1> DEFINE t == timer_event_add \o s
<1>1. s \in Seq(Steps) /\ timer_event_add \in Seq(Steps) /\ Calm(t) /\ Open(t) = {}
  BY CalmSeq, AddEventCons
<1> HIDE DEF t
<1>2. log_vprintf \in Seq(Steps) /\ Calm(log_vprintf \o t) /\ Open(log_vprintf \o t) = {}
  BY <1>1, LogCons
<1>3. vcpu_sleep \o s = log_vprintf \o t /\ vcpu_sleep \in Seq(Steps)
  <2>1. log_vprintf \in Seq(Steps) /\ timer_event_add \in Seq(Steps) /\ s \in Seq(Steps)
    BY <1>1, <1>2
  <2>2. (log_vprintf \o timer_event_add) \o s = log_vprintf \o (timer_event_add \o s)
    BY <2>1, Regroup
  <2>3. log_vprintf \o timer_event_add \in Seq(Steps)
    BY <2>1, ConcatProperties
  <2> QED BY <2>2, <2>3 DEF vcpu_sleep, t
<1> QED BY <1>2, <1>3

(* The printing inside the lock of the timer is the one nesting.            *)
LEMMA IntrCons ==
  ASSUME NEW s, Calm(s), Open(s) = {}, NEW cb \in Callbacks
  PROVE  /\ timer_event_intr(cb) \in Seq(Steps)
         /\ Calm(timer_event_intr(cb) \o s) /\ Open(timer_event_intr(cb) \o s) = {}
<1> DEFINE l == "hyp_timer_spinlock"
           a == timer_event_add \o s
           b == cb \o a
           u == SpinUnlock(l) \o b
           t == log_vprintf \o u
<1>1. /\ l \in Locks /\ SpinLock(l) \in Seq(Steps) /\ SpinUnlock(l) \in Seq(Steps) /\ s \in Seq(Steps)
      /\ timer_event_add \in Seq(Steps)
  BY LocksAre, SpinSeq, CalmSeq, AddEventCons
<1>2. Calm(a) /\ Open(a) = {} /\ a \in Seq(Steps)
  BY AddEventCons, CalmSeq
<1> HIDE DEF a
<1>3. cb \in Seq(Steps) /\ Calm(b) /\ Open(b) = {} /\ b \in Seq(Steps)
  <2>1. CASE cb = << <<"add">> >>
    BY <1>2, <2>1, PlainCons, PlainSeq, CalmSeq
  <2>2. CASE cb = timer_event_add
    BY <1>2, <2>2, AddEventCons, CalmSeq
  <2> QED BY <2>1, <2>2 DEF Callbacks
<1> HIDE DEF b
<1>4. Calm(u) /\ Open(u) = {l} /\ u \in Seq(Steps)
  BY <1>1, <1>3, UnlockCons, CalmSeq
<1> HIDE DEF u
<1>5. log_vprintf \in Seq(Steps) /\ Calm(t) /\ Open(t) = {l} /\ t \in Seq(Steps)
  BY <1>4, LocksAre, LogCons, CalmSeq
<1> HIDE DEF t
<1>6. Calm(SpinLock(l) \o t) /\ Open(SpinLock(l) \o t) = {}
  <2>1. l \in Open(t) /\ MayAsk(l, Open(t) \ {l}) /\ Open(t) \ {l} = {}
    BY <1>5 DEF MayAsk
  <2> QED BY <1>1, <1>5, <2>1, LockCons
<1>7. timer_event_intr(cb) \in Seq(Steps) /\ timer_event_intr(cb) \o s = SpinLock(l) \o t
  <2> DEFINE x1 == SpinLock(l) \o log_vprintf
             x2 == x1 \o SpinUnlock(l)
             x3 == x2 \o cb
  <2>1. timer_event_intr(cb) = x3 \o timer_event_add
    BY DEF timer_event_intr
  <2>2. x1 \in Seq(Steps)
    BY <1>1, <1>5, ConcatProperties
  <2> HIDE DEF x1
  <2>3. x2 \in Seq(Steps)
    BY <1>1, <2>2, ConcatProperties
  <2> HIDE DEF x2
  <2>4. x3 \in Seq(Steps)
    BY <1>3, <2>3, ConcatProperties
  <2> HIDE DEF x3
  <2>5. timer_event_intr(cb) \in Seq(Steps)
    BY <1>1, <2>1, <2>4, ConcatProperties
  <2>6. timer_event_intr(cb) \o s = x3 \o a
    <3>1. timer_event_add \in Seq(Steps) /\ s \in Seq(Steps)
      BY <1>1
    <3>2. (x3 \o timer_event_add) \o s = x3 \o (timer_event_add \o s)
      BY <2>4, <3>1, Regroup
    <3> QED BY <2>1, <3>2 DEF a
  <2>7. x3 \o a = x2 \o b
    <3>1. cb \in Seq(Steps) /\ a \in Seq(Steps)
      BY <1>2, <1>3
    <3>2. (x2 \o cb) \o a = x2 \o (cb \o a)
      BY <2>3, <3>1, Regroup
    <3> QED BY <3>2 DEF x3, b
  <2>8. x2 \o b = x1 \o u
    <3>1. SpinUnlock(l) \in Seq(Steps) /\ x2 = x1 \o SpinUnlock(l) /\ u = SpinUnlock(l) \o b
      BY <1>1 DEF x2, u
    <3> HIDE DEF l
    <3>2. b \in Seq(Steps)
      BY <1>3
    <3>3. (x1 \o SpinUnlock(l)) \o b = x1 \o (SpinUnlock(l) \o b)
      BY <3>1, <3>2, <2>2, Regroup
    <3> QED BY <3>1, <3>3
  <2>9. x1 \o u = SpinLock(l) \o t
    <3>1. SpinLock(l) \in Seq(Steps) /\ log_vprintf \in Seq(Steps) /\ u \in Seq(Steps)
      BY <1>1, <1>4, <1>5
    <3> HIDE DEF l
    <3>2. (SpinLock(l) \o log_vprintf) \o u = SpinLock(l) \o (log_vprintf \o u)
      BY <3>1, Regroup
    <3> QED BY <3>2 DEF x1, t
  <2> QED BY <2>5, <2>6, <2>7, <2>8, <2>9
<1> QED BY <1>6, <1>7

LEMMA WaitCons ==
  ASSUME NEW s, Calm(s)
  PROVE  LET t == << <<"wait">> >> \o s IN Orderly(t) /\ Open(t) = Open(s) /\ Starts(t, <<"wait">>)
<1> DEFINE x == <<"wait">>
<1>1. s \in Seq(Steps) /\ x \in Steps /\ Open(s) \subseteq Locks
  BY StepsAre, CalmSeq DEF Open
<1>2. /\ x \notin {<<"save">>, <<"count">>, <<"schedule">>, <<"exit">>}
      /\ \A k \in Locks : x # <<"load", k>> /\ x # <<"store", k>> /\ x # <<"unlock", k>>
  OBVIOUS
<1>3. Proper(x, s)
  BY <1>2 DEF Calm, Proper
<1> HIDE DEF x
<1>4. Open(<<x>> \o s) = Open(s)
  BY <1>1, <1>2, OpenCons
<1> QED BY <1>1, <1>3, <1>4, ConsSeq, OrderlyCons DEF Calm, Starts, x

(* What all scripts end with.                                               *)
End == do_schedule \o << <<"exit">> >>

LEMMA EndCalm ==
  /\ do_schedule \in Seq(Steps) /\ << <<"exit">> >> \in Seq(Steps)
  /\ End \in Seq(Steps) /\ Calm(End) /\ Open(End) = {}
<1> DEFINE e == << <<"exit">> >>
<1>1. Calm(<<>>) /\ Open(<<>>) = {} /\ e \in Seq(Steps) /\ e \o <<>> = e
  BY EmptyOrderly, PlainSeq DEF Calm, Starts
<1>2. Calm(e \o <<>>) /\ Open(e \o <<>>) = {}
  BY <1>1, PlainCons
<1> HIDE DEF e
<1>3. do_schedule \in Seq(Steps) /\ Calm(do_schedule \o e) /\ Open(do_schedule \o e) = {}
  BY <1>1, <1>2, ScheduleCons
<1> QED BY <1>1, <1>3, CalmSeq DEF End, e

LEMMA HandlersCalm == \A handler \in Handlers : Calm(handler) /\ Open(handler) = {}
<1> DEFINE Firsts == {timer_event_intr(cb) : cb \in Callbacks} \cup {vcpu_sleep, <<>>}
           e == << <<"exit">> >>
<1> SUFFICES ASSUME NEW h \in Firsts
             PROVE  Calm((h \o do_schedule) \o e) /\ Open((h \o do_schedule) \o e) = {}
  BY DEF Handlers
<1>1. h \in Seq(Steps) /\ Calm(h \o End) /\ Open(h \o End) = {}
  <2>1. CASE h \in {timer_event_intr(cb) : cb \in Callbacks}
    BY <2>1, EndCalm, IntrCons
  <2>2. CASE h = vcpu_sleep
    BY <2>2, EndCalm, SleepCons
  <2>3. CASE h = <<>>
    <3>1. <<>> \in Seq(Steps) /\ <<>> \o End = End
      BY EndCalm
    <3> QED BY <2>3, <3>1, EndCalm
  <2> QED BY <2>1, <2>2, <2>3
<1>2. (h \o do_schedule) \o e = h \o End
  BY <1>1, EndCalm, Regroup DEF End
<1> QED BY <1>1, <1>2

LEMMA StartsOrderly ==
  /\ Calm(start_primary) /\ Open(start_primary) = {}
  /\ Orderly(start_secondary) /\ Open(start_secondary) = {}
  /\ Starts(start_secondary, <<"wait">>)
<1> DEFINE add == << <<"add">> >>
           rel == << <<"release">> >>
           e == << <<"exit">> >>
           a == rel \o End
           b == timer_event_add \o a
           d == add \o b
<1>1. /\ add \in Seq(Steps) /\ rel \in Seq(Steps) /\ << <<"wait">> >> \in Seq(Steps)
      /\ do_schedule \in Seq(Steps) /\ e \in Seq(Steps)
      /\ End \in Seq(Steps) /\ End = do_schedule \o e /\ Calm(End) /\ Open(End) = {}
  BY PlainSeq, EndCalm DEF End
<1>2. Calm(a) /\ Open(a) = {} /\ a \in Seq(Steps)
  BY <1>1, PlainCons, CalmSeq
<1> HIDE DEF a
<1>3. timer_event_add \in Seq(Steps) /\ Calm(b) /\ Open(b) = {} /\ b \in Seq(Steps)
  BY <1>2, AddEventCons, CalmSeq
<1> HIDE DEF b
<1>4. Calm(d) /\ Open(d) = {} /\ d \in Seq(Steps)
  BY <1>3, PlainCons, CalmSeq
<1> HIDE DEF d
<1>5. log_vprintf \in Seq(Steps) /\ Calm(log_vprintf \o d) /\ Open(log_vprintf \o d) = {}
  BY <1>4, LogCons
<1>6. start_primary = log_vprintf \o d
  <2> DEFINE y1 == log_vprintf \o add
             y2 == y1 \o timer_event_add
             y3 == y2 \o rel
  <2>1. start_primary = (y3 \o do_schedule) \o e
    BY DEF start_primary
  <2> HIDE DEF add, rel, e
  <2>2. y1 \in Seq(Steps)
    BY <1>1, <1>5, ConcatProperties
  <2> HIDE DEF y1
  <2>3. y2 \in Seq(Steps)
    BY <1>3, <2>2, ConcatProperties
  <2> HIDE DEF y2
  <2>4. y3 \in Seq(Steps)
    BY <1>1, <2>3, ConcatProperties
  <2> HIDE DEF y3
  <2>5. /\ y3 = y2 \o rel /\ y2 = y1 \o timer_event_add /\ y1 = log_vprintf \o add
        /\ a = rel \o End /\ b = timer_event_add \o a /\ d = add \o b
    BY DEF y1, y2, y3, a, b, d
  <2>6. /\ add \in Seq(Steps) /\ rel \in Seq(Steps) /\ e \in Seq(Steps)
        /\ End \in Seq(Steps) /\ log_vprintf \in Seq(Steps) /\ do_schedule \in Seq(Steps)
        /\ b \in Seq(Steps)
    BY <1>1, <1>3, <1>5 DEF add, rel, e
  <2>7. start_primary = y3 \o End
    <3>1. (y3 \o do_schedule) \o e = y3 \o (do_schedule \o e)
      <4>1. do_schedule \in Seq(Steps) /\ e \in Seq(Steps)
        BY <2>6
      <4> QED BY <2>4, <4>1, Regroup
    <3>2. End = do_schedule \o e
      BY DEF End, e
    <3> QED BY <2>1, <3>1, <3>2
  <2>8. y3 \o End = y2 \o a
    <3>1. (y2 \o rel) \o End = y2 \o (rel \o End)
      <4>1. rel \in Seq(Steps) /\ End \in Seq(Steps)
        BY <2>6
      <4> QED BY <2>3, <4>1, Regroup
    <3> QED BY <2>5, <3>1
  <2>9. y2 \o a = y1 \o b
    <3>1. (y1 \o timer_event_add) \o a = y1 \o (timer_event_add \o a)
      BY <1>2, <1>3, <2>2, Regroup
    <3> QED BY <2>5, <3>1
  <2>10. y1 \o b = log_vprintf \o d
    <3>1. (log_vprintf \o add) \o b = log_vprintf \o (add \o b)
      <4>1. log_vprintf \in Seq(Steps) /\ add \in Seq(Steps) /\ b \in Seq(Steps)
        BY <2>6
      <4> QED BY <4>1, Regroup
    <3> QED BY <2>5, <3>1
  <2> QED BY <2>7, <2>8, <2>9, <2>10
<1> DEFINE w == << <<"wait">> >>
           f == log_vprintf \o End
<1>7. Calm(f) /\ Open(f) = {} /\ f \in Seq(Steps)
  BY <1>1, LogCons, CalmSeq
<1>8. Orderly(w \o f) /\ Open(w \o f) = {} /\ Starts(w \o f, <<"wait">>)
  BY <1>7, WaitCons
<1>9. start_secondary = w \o f
  <2> DEFINE z == w \o log_vprintf
  <2>1. start_secondary = (z \o do_schedule) \o e
    BY DEF start_secondary
  <2> HIDE DEF w, e
  <2>2. w \in Seq(Steps) /\ End \in Seq(Steps) /\ log_vprintf \in Seq(Steps)
    BY <1>1, <1>5 DEF w
  <2>3. z \in Seq(Steps)
    BY <1>5, <2>2, ConcatProperties
  <2> HIDE DEF z
  <2>4. start_secondary = z \o End
    <3>1. e \in Seq(Steps) /\ End = do_schedule \o e
      BY <1>1 DEF e
    <3>2. (z \o do_schedule) \o e = z \o (do_schedule \o e)
      <4>1. do_schedule \in Seq(Steps) /\ e \in Seq(Steps)
        BY <1>1, <3>1
      <4> QED BY <2>3, <4>1, Regroup
    <3> QED BY <2>1, <3>1, <3>2
  <2>5. z \o End = w \o f
    <3>1. (w \o log_vprintf) \o End = w \o (log_vprintf \o End)
      BY <2>2, Regroup
    <3> QED BY <3>1 DEF z, f
  <2> QED BY <2>4, <2>5
<1> QED BY <1>5, <1>6, <1>8, <1>9

-----------------------------------------------------------------------------
(* The first step of a CPU, and what it leaves. *)

LEMMA NowStarts ==
  ASSUME NEW s, Orderly(s)
  PROVE  \A x : (s # <<>> /\ Head(s) = x) <=> Starts(s, x)
BY HeadTail DEF Orderly, Starts

LEMMA Unfold ==
  ASSUME LInv, NEW c \in Cpus, NEW x, Now(c, x)
  PROVE  LET t == Tail(todo[c])
         IN  /\ x \in Steps /\ t \in Seq(Steps) /\ Proper(x, t) /\ Orderly(t)
             /\ todo[c] = <<x>> \o t
             /\ Open(todo[c]) = {l \in Locks : x = <<"unlock", l>> \/ (x # <<"store", l>> /\ l \in Open(t))}
             /\ Open(t) \subseteq Locks
<1> DEFINE s == todo[c]
           t == Tail(s)
<1>1. Orderly(s) /\ s \in Seq(Steps) /\ s # <<>> /\ Head(s) = x
  BY DEF LInv, OrderInv, Now, Orderly
<1> HIDE DEF s
<1>2. x \in Steps /\ t \in Seq(Steps) /\ s = <<x>> \o t
  BY <1>1, HeadTail
<1> HIDE DEF t
<1>3. Proper(x, t) /\ Orderly(t)
  BY <1>1, <1>2, OrderlyCons
<1>4. Open(s) = {l \in Locks : x = <<"unlock", l>> \/ (x # <<"store", l>> /\ l \in Open(t))}
  BY <1>2, OpenCons
<1>5. Open(t) \subseteq Locks
  BY DEF Open
<1> QED BY <1>2, <1>3, <1>4, <1>5 DEF s, t

LEMMA CalmTail ==
  ASSUME LInv, NEW c \in Cpus, NEW x, Now(c, x),
         x # <<"save">>, \A l \in Locks : x # <<"load", l>>
  PROVE  Calm(Tail(todo[c]))
BY Unfold DEF Proper, Calm

LEMMA PlainTail ==
  ASSUME LInv, NEW c \in Cpus,
         NEW x \in {<<"count">>, <<"halt">>, <<"add">>, <<"schedule">>, <<"release">>, <<"wait">>, <<"exit">>},
         Now(c, x)
  PROVE  Calm(Tail(todo[c])) /\ Open(todo[c]) = Open(Tail(todo[c]))
<1>1. x # <<"save">> /\ \A l \in Locks : x # <<"load", l>> /\ x # <<"store", l>> /\ x # <<"unlock", l>>
  OBVIOUS
<1>2. Calm(Tail(todo[c]))
  BY <1>1, CalmTail
<1>3. /\ Open(Tail(todo[c])) \subseteq Locks
      /\ Open(todo[c]) = {l \in Locks : x = <<"unlock", l>> \/ (x # <<"store", l>> /\ l \in Open(Tail(todo[c])))}
  BY Unfold
<1> QED BY <1>1, <1>2, <1>3

(* The scripts of a step that leaves the words alone: c goes on with s.     *)
GoesOn(c, s) ==
  /\ DOMAIN todo' = Cpus /\ todo'[c] = s /\ \A d \in Cpus \ {c} : todo'[d] = todo[d]

LEMMA DoneGoesOn ==
  ASSUME LockedTypes, NEW c \in Cpus, NEW more, Done(c, more)
  PROVE  GoesOn(c, more \o Tail(todo[c]))
BY DEF Done, LockedTypes, GoesOn

LEMMA DoneTail ==
  ASSUME LInv, NEW c \in Cpus, NEW x, Now(c, x), Done(c, <<>>)
  PROVE  GoesOn(c, Tail(todo[c]))
<1>1. Tail(todo[c]) \in Seq(Steps)
  BY Unfold
<1>2. <<>> \o Tail(todo[c]) = Tail(todo[c])
  BY <1>1
<1> QED BY <1>2, DoneGoesOn DEF LInv

(* What masked and intr_state must be for a CPU that is to do s.            *)
MaskFits(s, mask, saved) ==
  /\ s # <<>> /\ ~Starts(s, <<"wait">>) => mask
  /\ Open(s) # {} => saved
  /\ \A l \in Locks : Starts(s, <<"load", l>>) \/ Starts(s, <<"store", l>>) => saved

LEMMA MaskOf ==
  OrderInv => (MaskInv <=> \A d \in Cpus : MaskFits(todo[d], masked[d], intr_state[d]))
<1> SUFFICES ASSUME OrderInv
             PROVE  MaskInv <=> \A c \in Cpus : MaskFits(todo[c], masked[c], intr_state[c])
  OBVIOUS
<1>1. ASSUME NEW c \in Cpus PROVE \A x : Now(c, x) <=> Starts(todo[c], x)
  BY NowStarts DEF OrderInv, Now
<1> QED BY <1>1 DEF MaskInv, MaskFits

LEMMA MaskOfNext ==
  (OrderInv => (MaskInv <=> \A d \in Cpus : MaskFits(todo[d], masked[d], intr_state[d])))'
BY MaskOf, PTL

LEMMA MaskStep ==
  ASSUME LInv, NEW c \in Cpus, NEW s, GoesOn(c, s), Orderly(s),
         MaskFits(s, masked'[c], intr_state'[c]),
         \A d \in Cpus \ {c} : masked'[d] = masked[d] /\ intr_state'[d] = intr_state[d]
  PROVE  OrderInv' /\ MaskInv'
<1>1. OrderInv'
  BY DEF LInv, OrderInv, GoesOn
<1>2. \A d \in Cpus : MaskFits(todo[d], masked[d], intr_state[d])
  BY MaskOf DEF LInv
<1>3. \A d \in Cpus : MaskFits(todo'[d], masked'[d], intr_state'[d])
  BY <1>2 DEF GoesOn
<1> QED BY <1>1, <1>3, MaskOfNext

LEMMA WordStep ==
  ASSUME LInv, NEW c \in Cpus, NEW s, GoesOn(c, s), Orderly(s), Open(s) \subseteq Open(todo[c]),
         word' = word, \A d \in Cpus \ {c} : monitor'[d] = monitor[d],
         \A l \in Locks : Starts(s, <<"store", l>>) /\ monitor'[c] = l => ~word[l]
  PROVE  WordInv'
<1>1. ASSUME NEW d \in Cpus PROVE Open(todo'[d]) \subseteq Open(todo[d])
  BY DEF GoesOn
<1>2. \A x : (todo'[c] # <<>> /\ Head(todo'[c]) = x) <=> Starts(s, x)
  BY NowStarts DEF GoesOn
<1>3. ASSUME NEW d \in Cpus, NEW l \in Locks, Now(d, <<"store", l>>)', monitor'[d] = l
      PROVE  ~word[l]
  <2>1. CASE d = c
    BY <1>2, <1>3, <2>1 DEF Now
  <2>2. CASE d # c
    BY <1>3, <2>2 DEF LInv, WordInv, Now, GoesOn
  <2> QED BY <2>1, <2>2
<1>4. /\ \A a, d \in Cpus : \A l \in Open(todo'[a]) \cap Open(todo'[d]) : a = d
      /\ \A d \in Cpus : \A l \in Open(todo'[d]) : word[l]
  BY <1>1 DEF LInv, WordInv
<1> QED BY <1>3, <1>4 DEF WordInv

LEMMA ScheduleKept ==
  ASSUME LInv, NEW c \in Cpus, NEW s, GoesOn(c, s), pc[c] \notin Scanning, UNCHANGED <<pc, holder>>
  PROVE  ScheduleInv'
BY DEF LInv, ScheduleInv, GoesOn, Now

LEMMA Elsewhere ==
  ASSUME LInv, NEW c \in Cpus, NEW x, Now(c, x), x # <<"schedule">>
  PROVE  pc[c] \notin Scanning
BY DEF LInv, ScheduleInv, Now

LEMMA QuietStep ==
  ASSUME LInv, NEW c \in Cpus, NEW x, Now(c, x), x # <<"wait">>, NEW s, GoesOn(c, s), Calm(s),
         Open(s) \subseteq Open(todo[c]), UNCHANGED lockVars, LockedTypes', ScheduleInv'
  PROVE  LInv'
<1>1. masked[c] /\ (Open(todo[c]) # {} => intr_state[c])
  BY DEF LInv, MaskInv, Now
<1>2. MaskFits(s, masked'[c], intr_state'[c])
  BY <1>1 DEF MaskFits, Calm, lockVars
<1>3. OrderInv' /\ MaskInv'
  BY <1>2, MaskStep DEF Calm, lockVars
<1>4. WordInv'
  BY WordStep DEF Calm, lockVars
<1> QED BY <1>3, <1>4 DEF LInv

LEMMA SaveInv ==
  ASSUME LInv, NEW c \in Cpus, Save(c)
  PROVE  LInv'
<1> DEFINE t == Tail(todo[c])
<1>1. GoesOn(c, t) /\ Orderly(t) /\ Proper(<<"save">>, t) /\ Open(t) \subseteq Open(todo[c])
  <2>1. \A l \in Locks : <<"save">> # <<"store", l>>
    OBVIOUS
  <2> QED BY <2>1, DoneTail, Unfold DEF Save
<1>2. ~Starts(t, <<"wait">>) /\ \A l \in Locks : ~Starts(t, <<"store", l>>)
  <2>1. \A l \in Locks : <<"save">> # <<"load", l>>
    OBVIOUS
  <2> QED BY <1>1, <2>1 DEF Proper
<1>3. masked[c] = TRUE
  <2>1. <<"save">> # <<"wait">>
    OBVIOUS
  <2> QED BY <2>1 DEF LInv, MaskInv, LockedTypes, Now, Save
<1>4. intr_state'[c] = TRUE /\ masked'[c] = TRUE
      /\ \A d \in Cpus \ {c} : masked'[d] = masked[d] /\ intr_state'[d] = intr_state[d]
  BY <1>3 DEF Save, SetMask, LInv, LockedTypes
<1>5. OrderInv' /\ MaskInv'
  BY <1>1, <1>4, MaskStep DEF MaskFits
<1>6. WordInv'
  BY <1>1, <1>2, WordStep DEF Save
<1>7. LockedTypes'
  BY <1>1 DEF LInv, LockedTypes, Save, SetMask, GoesOn, vars, cpuVars
<1>8. ScheduleInv'
  <2>1. <<"save">> # <<"schedule">>
    OBVIOUS
  <2> QED BY <1>1, <2>1, ScheduleKept, Elsewhere DEF Save, vars, cpuVars
<1> QED BY <1>5, <1>6, <1>7, <1>8 DEF LInv

LEMMA LoadInv ==
  ASSUME LInv, NEW c \in Cpus, NEW l \in Locks, Load(c, l)
  PROVE  LInv'
<1> DEFINE t == Tail(todo[c])
           x == <<"load", l>>
<1>1. Now(c, x) /\ /\ Orderly(t) /\ Proper(x, t) /\ Open(t) = Open(todo[c])
  <2>1. \A k \in Locks : x # <<"store", k>> /\ x # <<"unlock", k>>
    OBVIOUS
  <2>2. Now(c, x)
    BY DEF Load
  <2>3. Orderly(t) /\ Proper(x, t) /\ Open(t) \subseteq Locks
        /\ Open(todo[c]) = {k \in Locks : x = <<"unlock", k>> \/ (x # <<"store", k>> /\ k \in Open(t))}
    BY <2>2, Unfold
  <2> QED BY <2>1, <2>2, <2>3
<1>2. /\ Starts(t, <<"store", l>>) /\ ~Starts(t, <<"wait">>)
      /\ \A k \in Locks : ~Starts(t, <<"load", k>>) /\ (Starts(t, <<"store", k>>) => k = l)
  <2>1. x # <<"save">> /\ \A k \in Locks : x = <<"load", k>> => k = l
    OBVIOUS
  <2> QED BY <1>1, <2>1 DEF Proper
<1>3. masked[c] /\ intr_state[c]
  <2>1. x # <<"wait">>
    OBVIOUS
  <2> QED BY <1>1, <2>1 DEF LInv, MaskInv, Now
<1>4. monitor' \in [Cpus -> Locks \cup {None}] /\ monitor'[c] = l
      /\ \A d \in Cpus \ {c} : monitor'[d] = monitor[d]
  BY DEF Load, LInv, LockedTypes
<1>5. UNCHANGED <<vars, word, masked, intr_state>>
  BY DEF Load
<1>6. CASE word[l]
  <2>1. GoesOn(c, todo[c]) /\ Orderly(todo[c])
    BY <1>6 DEF Load, GoesOn, LInv, LockedTypes, OrderInv
  <2>2. \A k \in Locks : ~Starts(todo[c], <<"store", k>>)
    <3>1. \A k \in Locks : <<"store", k>> # x
      OBVIOUS
    <3> QED BY <1>1, <2>1, <3>1, NowStarts DEF Now, Starts
  <2>3. MaskFits(todo[c], masked[c], intr_state[c])
    BY <1>3 DEF MaskFits
  <2>4. OrderInv' /\ MaskInv'
    BY <1>5, <2>1, <2>3, MaskStep
  <2>5. WordInv'
    BY <1>4, <1>5, <2>1, <2>2, WordStep
  <2>6. LockedTypes'
    BY <1>4, <1>5, <2>1 DEF LInv, LockedTypes, GoesOn, vars, cpuVars
  <2>7. ScheduleInv'
    <3>1. x # <<"schedule">>
      OBVIOUS
    <3> QED BY <1>1, <1>5, <2>1, <3>1, ScheduleKept, Elsewhere DEF vars, cpuVars
  <2> QED BY <2>4, <2>5, <2>6, <2>7 DEF LInv
<1>7. CASE ~word[l]
  <2>1. GoesOn(c, t)
    BY <1>1, <1>7, DoneTail DEF Load
  <2>2. MaskFits(t, masked[c], intr_state[c])
    BY <1>3 DEF MaskFits
  <2>3. OrderInv' /\ MaskInv'
    BY <1>1, <1>5, <2>1, <2>2, MaskStep
  <2>4. WordInv'
    BY <1>1, <1>2, <1>4, <1>5, <1>7, <2>1, WordStep
  <2>5. LockedTypes'
    BY <1>4, <1>5, <2>1 DEF LInv, LockedTypes, GoesOn, vars, cpuVars
  <2>6. ScheduleInv'
    <3>1. x # <<"schedule">>
      OBVIOUS
    <3> QED BY <1>1, <1>5, <2>1, <3>1, ScheduleKept, Elsewhere DEF vars, cpuVars
  <2> QED BY <2>3, <2>4, <2>5, <2>6 DEF LInv
<1> QED BY <1>6, <1>7

(* A store that fails goes back to the load.                                *)
LEMMA StoreFailsInv ==
  ASSUME LInv, NEW c \in Cpus, NEW l \in Locks, Now(c, <<"store", l>>),
         monitor' = [monitor EXCEPT ![c] = None], Done(c, << <<"load", l>>, <<"store", l>> >>),
         UNCHANGED <<vars, word, masked, intr_state, primary_start_finished>>
  PROVE  LInv'
<1> DEFINE t == Tail(todo[c])
           x == <<"store", l>>
           y == <<"load", l>>
           s == <<y>> \o todo[c]
<1>1. x \in Steps /\ y \in Steps /\ t \in Seq(Steps) /\ todo[c] = <<x>> \o t
      /\ Orderly(todo[c]) /\ todo[c] \in Seq(Steps)
  BY Unfold, StepsAre DEF LInv, OrderInv, Orderly
<1>2. GoesOn(c, s)
  <2>1. GoesOn(c, <<y, x>> \o t)
    BY DoneGoesOn DEF LInv
  <2> HIDE DEF x, y, t
  <2>2. <<y, x>> \o t = <<y>> \o (<<x>> \o t)
    BY <1>1, Tuple2
  <2> QED BY <1>1, <2>1, <2>2
<1>3. Orderly(s) /\ Open(s) = Open(todo[c])
  <2>1. Starts(todo[c], x)
    BY <1>1, NowStarts DEF Now
  <2> QED BY <1>1, <2>1, LoadCons
<1>4. ASSUME NEW z, Starts(s, z) PROVE z = y
  <2> HIDE DEF y
  <2> QED BY <1>1, <1>4, ConsSeq DEF Starts
<1>5. /\ y # <<"wait">> /\ \A k \in Locks : y # <<"store", k>>
      /\ x # <<"wait">> /\ x # <<"schedule">>
  OBVIOUS
<1>6. masked[c] /\ intr_state[c]
  BY <1>5 DEF LInv, MaskInv, Now
<1> HIDE DEF s, t
<1>7. OrderInv' /\ MaskInv'
  <2>1. MaskFits(s, masked[c], intr_state[c])
    BY <1>6 DEF MaskFits
  <2> QED BY <1>2, <1>3, <2>1, MaskStep
<1>8. WordInv'
  <2>1. \A d \in Cpus \ {c} : monitor'[d] = monitor[d]
    BY DEF LInv, LockedTypes
  <2>2. \A k \in Locks : ~Starts(s, <<"store", k>>)
    BY <1>4, <1>5
  <2> QED BY <1>2, <1>3, <2>1, <2>2, WordStep
<1>9. LockedTypes'
  BY <1>2 DEF LInv, LockedTypes, GoesOn, vars, cpuVars
<1>10. ScheduleInv'
  BY <1>2, <1>5, ScheduleKept, Elsewhere DEF vars, cpuVars
<1> QED BY <1>7, <1>8, <1>9, <1>10 DEF LInv

(* A store that succeeds finds a word that nobody has set: nobody has the   *)
(* lock.                                                                    *)
LEMMA StoreSucceedsInv ==
  ASSUME LInv, NEW c \in Cpus, NEW l \in Locks, Now(c, <<"store", l>>),
         Reserved(c, l), Write(l, TRUE), Done(c, <<>>),
         UNCHANGED <<vars, masked, intr_state, primary_start_finished>>
  PROVE  LInv'
<1> DEFINE t == Tail(todo[c])
           x == <<"store", l>>
<1>1. GoesOn(c, t) /\ Orderly(t) /\ Calm(t) /\ l \in Open(t)
  <2>1. x # <<"save">> /\ \A k \in Locks : x # <<"load", k>>
    OBVIOUS
  <2>2. Orderly(t) /\ Proper(x, t)
    BY Unfold
  <2>3. GoesOn(c, t) /\ Calm(t)
    BY <2>1, DoneTail, CalmTail
  <2> QED BY <2>2, <2>3 DEF Proper
<1>2. \A k \in Open(t) : k = l \/ k \in Open(todo[c])
  <2>1. \A k \in Locks : x = <<"store", k>> => k = l
    OBVIOUS
  <2>2. /\ Open(todo[c]) = {k \in Locks : x = <<"unlock", k>> \/ (x # <<"store", k>> /\ k \in Open(t))}
        /\ Open(t) \subseteq Locks
    BY Unfold
  <2> QED BY <2>1, <2>2
<1>3. masked[c] /\ intr_state[c]
  <2>1. x # <<"wait">>
    OBVIOUS
  <2> QED BY <2>1 DEF LInv, MaskInv, Now
<1>4. ~word[l] /\ \A d \in Cpus : l \notin Open(todo[d])
  BY DEF LInv, WordInv, Reserved
<1>5. /\ word'[l] = TRUE /\ \A k \in Locks \ {l} : word'[k] = word[k]
      /\ \A d \in Cpus : monitor'[d] # l /\ (monitor'[d] = monitor[d] \/ monitor'[d] = None)
  BY LockedAssumption DEF LInv, LockedTypes, Write
<1>6. OrderInv' /\ MaskInv'
  <2>1. MaskFits(t, masked[c], intr_state[c])
    BY <1>3 DEF MaskFits
  <2> QED BY <1>1, <2>1, MaskStep
<1>7. WordInv'
  <2>1. ASSUME NEW a \in Cpus, NEW k \in Open(todo'[a])
        PROVE  /\ (a = c /\ k = l) \/ k \in Open(todo[a])
               /\ word'[k]
    <3>1. (a = c /\ k = l) \/ k \in Open(todo[a])
      BY <1>1, <1>2, <2>1 DEF GoesOn
    <3>2. word'[k]
      BY <1>5, <3>1, <1>4 DEF LInv, WordInv, Open
    <3> QED BY <3>1, <3>2
  <2>2. \A a, d \in Cpus : \A k \in Open(todo'[a]) \cap Open(todo'[d]) : a = d
    BY <2>1, <1>4 DEF LInv, WordInv
  <2>3. ASSUME NEW d \in Cpus, NEW k \in Locks, Now(d, <<"store", k>>)', monitor'[d] = k
        PROVE  ~word'[k]
    <3>1. d # c
      <4>1. \A z : (todo'[c] # <<>> /\ Head(todo'[c]) = z) <=> Starts(t, z)
        BY <1>1, NowStarts DEF GoesOn
      <4> QED BY <1>1, <2>3, <4>1 DEF Calm, Now
    <3>2. Now(d, <<"store", k>>) /\ monitor[d] = k /\ k # l
      BY <1>1, <1>5, <2>3, <3>1, LockedAssumption DEF GoesOn, Now
    <3> QED BY <1>5, <3>2 DEF LInv, WordInv
  <2> QED BY <2>1, <2>2, <2>3 DEF WordInv
<1>8. LockedTypes'
  BY <1>1 DEF LInv, LockedTypes, GoesOn, Write, vars, cpuVars
<1>9. ScheduleInv'
  <2>1. x # <<"schedule">>
    OBVIOUS
  <2> QED BY <1>1, <2>1, ScheduleKept, Elsewhere DEF vars, cpuVars
<1> QED BY <1>6, <1>7, <1>8, <1>9 DEF LInv

(* An unlock restores a mask that was set already.                          *)
LEMMA UnlockInv ==
  ASSUME LInv, NEW c \in Cpus, NEW l \in Locks, Unlock(c, l)
  PROVE  LInv'
<1> DEFINE t == Tail(todo[c])
           x == <<"unlock", l>>
<1>1. /\ Now(c, x) /\ GoesOn(c, t) /\ Orderly(t) /\ Calm(t)
      /\ l \notin Open(t) /\ Open(t) \subseteq Open(todo[c]) /\ l \in Open(todo[c])
  <2>1. x # <<"save">> /\ \A k \in Locks : x # <<"load", k>> /\ x # <<"store", k>>
    OBVIOUS
  <2>2. Now(c, x)
    BY DEF Unlock
  <2>3. GoesOn(c, t) /\ Orderly(t) /\ Calm(t) /\ l \notin Open(t)
    BY <2>1, <2>2, Unfold, DoneTail, CalmTail DEF Proper, Unlock
  <2>4. /\ Open(todo[c]) = {k \in Locks : x = <<"unlock", k>> \/ (x # <<"store", k>> /\ k \in Open(t))}
        /\ Open(t) \subseteq Locks
    BY <2>2, Unfold
  <2> QED BY <2>1, <2>2, <2>3, <2>4
<1>2. intr_state[c] = TRUE
  BY <1>1 DEF LInv, MaskInv, LockedTypes
<1>3. /\ word'[l] = FALSE /\ \A k \in Locks \ {l} : word'[k] = word[k]
      /\ \A d \in Cpus : monitor'[d] # l /\ (monitor'[d] = monitor[d] \/ monitor'[d] = None)
  BY LockedAssumption DEF LInv, LockedTypes, Write, Unlock
<1>4. masked'[c] = TRUE /\ intr_state' = intr_state /\ \A d \in Cpus \ {c} : masked'[d] = masked[d]
  BY <1>2 DEF Unlock, SetMask, RestoredMask, LInv, LockedTypes
<1>5. OrderInv' /\ MaskInv'
  <2>1. MaskFits(t, masked'[c], intr_state'[c])
    BY <1>2, <1>4 DEF MaskFits
  <2> QED BY <1>1, <1>4, <2>1, MaskStep
<1>6. WordInv'
  <2>1. ASSUME NEW a \in Cpus, NEW k \in Open(todo'[a])
        PROVE  k \in Open(todo[a]) /\ k # l
    <3>1. k \in Open(todo[a])
      BY <1>1, <2>1 DEF GoesOn
    <3>2. CASE a = c
      BY <1>1, <2>1, <3>1, <3>2 DEF GoesOn
    <3>3. CASE a # c
      BY <1>1, <3>1, <3>3 DEF LInv, WordInv
    <3> QED BY <3>1, <3>2, <3>3
  <2>2. \A a, d \in Cpus : \A k \in Open(todo'[a]) \cap Open(todo'[d]) : a = d
    BY <2>1 DEF LInv, WordInv
  <2>3. \A d \in Cpus : \A k \in Open(todo'[d]) : word'[k]
    BY <1>3, <2>1 DEF LInv, WordInv, Open
  <2>4. ASSUME NEW d \in Cpus, NEW k \in Locks, Now(d, <<"store", k>>)', monitor'[d] = k
        PROVE  ~word'[k]
    <3>1. d # c
      <4>1. \A z : (todo'[c] # <<>> /\ Head(todo'[c]) = z) <=> Starts(t, z)
        BY <1>1, NowStarts DEF GoesOn
      <4> QED BY <1>1, <2>4, <4>1 DEF Calm, Now
    <3>2. Now(d, <<"store", k>>) /\ monitor[d] = k /\ k # l
      BY <1>1, <1>3, <2>4, <3>1, LockedAssumption DEF GoesOn, Now
    <3> QED BY <1>3, <3>2 DEF LInv, WordInv
  <2> QED BY <2>2, <2>3, <2>4 DEF WordInv
<1>7. LockedTypes'
  BY <1>1 DEF LInv, LockedTypes, GoesOn, Write, Unlock, SetMask, RestoredMask, vars, cpuVars
<1>8. ScheduleInv'
  <2>1. x # <<"schedule">>
    OBVIOUS
  <2> QED BY <1>1, <2>1, ScheduleKept, Elsewhere DEF Unlock, vars, cpuVars
<1> QED BY <1>5, <1>6, <1>7, <1>8 DEF LInv

-----------------------------------------------------------------------------
(* The steps that leave the lock words alone. *)

LEMMA CountInv ==
  ASSUME LInv, NEW c \in Cpus, Count(c)
  PROVE  LInv'
<1> DEFINE t == Tail(todo[c])
<1>1. Now(c, <<"count">>) /\ UNCHANGED <<vars, lockVars>>
  BY DEF Count
<1>2. Calm(t) /\ Open(t) = Open(todo[c]) /\ "ser_locked" \notin Open(t)
  BY <1>1, PlainTail, Unfold DEF Proper
<1>3. PICK s : GoesOn(c, s) /\ Calm(s) /\ Open(s) = Open(todo[c])
  <2>1. CASE Done(c, <<>>)
    BY <1>1, <1>2, <2>1, DoneTail
  <2>2. CASE Done(c, hyp_panic)
    BY <1>2, <2>2, PanicCons, DoneGoesOn DEF LInv
  <2> QED BY <2>1, <2>2 DEF Count
<1>4. LockedTypes'
  BY <1>1, <1>3 DEF LInv, LockedTypes, GoesOn, vars, cpuVars, lockVars
<1>5. ScheduleInv'
  <2>1. <<"count">> # <<"schedule">>
    OBVIOUS
  <2> QED BY <1>1, <1>3, <2>1, ScheduleKept, Elsewhere DEF vars, cpuVars
<1>6. <<"count">> # <<"wait">>
  OBVIOUS
<1> QED BY <1>1, <1>3, <1>4, <1>5, <1>6, QuietStep

LEMMA ReleaseInv ==
  ASSUME LInv, NEW c \in Cpus, Release(c)
  PROVE  LInv'
<1> DEFINE t == Tail(todo[c])
<1>1. Now(c, <<"release">>) /\ UNCHANGED <<vars, lockVars>> /\ Done(c, <<>>)
  BY DEF Release
<1>2. Calm(t) /\ Open(t) = Open(todo[c]) /\ GoesOn(c, t)
  BY <1>1, PlainTail, DoneTail
<1>3. LockedTypes'
  BY <1>1, <1>2 DEF LInv, LockedTypes, GoesOn, vars, cpuVars, lockVars
<1>4. ScheduleInv'
  <2>1. <<"release">> # <<"schedule">>
    OBVIOUS
  <2> QED BY <1>1, <1>2, <2>1, ScheduleKept, Elsewhere DEF vars, cpuVars
<1>5. <<"release">> # <<"wait">>
  OBVIOUS
<1> QED BY <1>1, <1>2, <1>3, <1>4, <1>5, QuietStep

(* What a CPU that adds or takes a vcpu goes on with, if it is not done.    *)
LEMMA SameScript ==
  ASSUME LInv, NEW c \in Cpus, NEW x \in {<<"add">>, <<"schedule">>}, Now(c, x), UNCHANGED todo
  PROVE  GoesOn(c, todo[c]) /\ Calm(todo[c])
<1>1. GoesOn(c, todo[c])
  BY DEF GoesOn, LInv, LockedTypes
<1>2. Orderly(todo[c])
  BY DEF LInv, OrderInv
<1>3. \A z : Starts(todo[c], z) <=> z = x
  BY <1>2, NowStarts DEF Now
<1>4. x # <<"wait">> /\ \A l \in Locks : x # <<"load", l>> /\ x # <<"store", l>>
  OBVIOUS
<1> QED BY <1>1, <1>2, <1>3, <1>4 DEF Calm

LEMMA AddInv ==
  ASSUME LInv, NEW c \in Cpus, Add(c)
  PROVE  LInv'
<1> DEFINE x == <<"add">>
<1>1. Now(c, x) /\ UNCHANGED lockVars
  BY DEF Add
<1>2. PICK s : GoesOn(c, s) /\ Calm(s) /\ Open(s) = Open(todo[c])
  <2>1. CASE UNCHANGED todo
    BY <1>1, <2>1, SameScript
  <2>2. CASE Done(c, <<>>)
    BY <1>1, <2>2, PlainTail, DoneTail
  <2> QED BY <2>1, <2>2 DEF Add
<1> DEFINE Moves ==
      /\ pc' \in [Cpus -> Places] /\ holder' = holder
      /\ \A d \in Cpus \ {c} : pc'[d] = pc[d]
      /\ pc'[c] \in {"out", "test", "first", "append", "tail", "end"} \/ pc' = pc
<1>3. Moves
  <2> USE DEF LInv, LockedTypes, Goto, Places
  <2>1. ASSUME NEW v \in Vcpus, AddStart(c, v) PROVE Moves
    BY <2>1 DEF AddStart
  <2>2. CASE AddTest(c)
    BY <2>2 DEF AddTest
  <2>3. CASE AddFirst(c) \/ AddAppend(c) \/ AddTail(c)
    BY <2>3 DEF AddFirst, AddAppend, AddTail
  <2>4. CASE AddEnd(c)
    BY <2>4 DEF AddEnd
  <2>5. CASE UNCHANGED vars
    BY <2>5 DEF vars, cpuVars
  <2> QED BY <2>1, <2>2, <2>3, <2>4, <2>5 DEF Add
<1>4. x # <<"wait">> /\ x # <<"schedule">>
  OBVIOUS
<1>5. pc[c] \notin Scanning
  BY <1>1, <1>4, Elsewhere
<1>6. pc'[c] \notin Scanning
  BY <1>3, <1>5 DEF Scanning
<1>7. ScheduleInv'
  BY <1>2, <1>3, <1>5, <1>6 DEF LInv, LockedTypes, ScheduleInv, GoesOn, Now
<1>8. LockedTypes'
  BY <1>1, <1>2, <1>3 DEF LInv, LockedTypes, GoesOn, lockVars
<1> QED BY <1>1, <1>2, <1>4, <1>7, <1>8, QuietStep

LEMMA ScheduleInvStep ==
  ASSUME LInv, NEW c \in Cpus, Schedule(c)
  PROVE  LInv'
<1> DEFINE x == <<"schedule">>
<1>1. Now(c, x) /\ UNCHANGED lockVars
  BY DEF Schedule
<1>2. PICK s : GoesOn(c, s) /\ Calm(s) /\ Open(s) = Open(todo[c])
  <2>1. CASE UNCHANGED todo
    BY <1>1, <2>1, SameScript
  <2>2. CASE Done(c, <<>>)
    BY <1>1, <2>2, PlainTail, DoneTail
  <2>3. CASE Done(c, log_vprintf)
    <3>1. Calm(Tail(todo[c])) /\ Open(Tail(todo[c])) = Open(todo[c]) /\ "ser_locked" \notin Open(Tail(todo[c]))
      BY <1>1, PlainTail, Unfold DEF Proper
    <3> QED BY <2>3, <3>1, LogCons, DoneGoesOn DEF LInv
  <2> QED BY <2>1, <2>2, <2>3 DEF Schedule
<1>3. /\ pc' \in [Cpus -> Places] /\ holder' \in Cpus \cup {None}
      /\ \A d \in Cpus \ {c} : pc'[d] = pc[d]
      /\ \/ pc'[c] \in Scanning /\ UNCHANGED todo /\ (holder' = c \/ holder' = holder)
         \/ pc'[c] \notin Scanning /\ (holder' = None \/ (holder' = holder /\ pc[c] \notin Scanning))
  <2> USE DEF LInv, LockedTypes, Goto, Places, Scanning
  <2>1. CASE pc[c] = "out" /\ ~needed[c] /\ UNCHANGED vars /\ Done(c, <<>>)
    BY <2>1 DEF vars, cpuVars
  <2>2. CASE EnterSchedule(c) /\ UNCHANGED todo
    BY <2>2 DEF EnterSchedule
  <2>3. CASE ScanLevel(c) /\ UNCHANGED todo
    BY <2>3 DEF ScanLevel
  <2>4. CASE (TakeHead(c) \/ TakeUnlink(c)) /\ UNCHANGED todo
    BY <2>4 DEF TakeHead, TakeUnlink
  <2>5. CASE ScanFails(c)
    BY <2>5 DEF ScanFails
  <2>6. CASE TakeEnd(c)
    BY <2>6 DEF TakeEnd
  <2> QED BY <2>1, <2>2, <2>3, <2>4, <2>5, <2>6 DEF Schedule
<1>4. ScheduleInv'
  BY <1>1, <1>2, <1>3 DEF LInv, LockedTypes, ScheduleInv, GoesOn, Now
<1>5. LockedTypes'
  BY <1>1, <1>2, <1>3 DEF LInv, LockedTypes, GoesOn, lockVars
<1>6. x # <<"wait">>
  OBVIOUS
<1> QED BY <1>1, <1>2, <1>4, <1>5, <1>6, QuietStep

LEMMA ExitInv ==
  ASSUME LInv, NEW c \in Cpus, Exit(c)
  PROVE  LInv'
<1> DEFINE t == Tail(todo[c])
           x == <<"exit">>
<1>1. Now(c, x) /\ UNCHANGED <<vars, word, monitor, intr_state>> /\ Done(c, <<>>)
  BY DEF Exit
<1>2. Orderly(t) /\ t = <<>> /\ GoesOn(c, t) /\ Open(t) = {}
  BY <1>1, Unfold, DoneTail, EmptyOrderly DEF Proper
<1>3. \A z : ~Starts(t, z)
  BY <1>2 DEF Starts
<1>4. \A d \in Cpus \ {c} : masked'[d] = masked[d]
  BY DEF Exit, SetMask, LInv, LockedTypes
<1>5. OrderInv' /\ MaskInv'
  <2>1. MaskFits(t, masked'[c], intr_state'[c])
    BY <1>2, <1>3 DEF MaskFits
  <2> QED BY <1>1, <1>2, <1>4, <2>1, MaskStep
<1>6. WordInv'
  BY <1>1, <1>2, <1>3, WordStep
<1>7. LockedTypes'
  BY <1>1, <1>2 DEF Exit, SetMask, LInv, LockedTypes, GoesOn, vars, cpuVars
<1>8. ScheduleInv'
  <2>1. x # <<"schedule">>
    OBVIOUS
  <2> QED BY <1>1, <1>2, <2>1, ScheduleKept, Elsewhere DEF vars, cpuVars
<1> QED BY <1>5, <1>6, <1>7, <1>8 DEF LInv

LEMMA WaitInv ==
  ASSUME LInv, NEW c \in Cpus, WaitEnds(c)
  PROVE  LInv'
<1> DEFINE t == Tail(todo[c])
           x == <<"wait">>
<1>1. Now(c, x) /\ UNCHANGED <<vars, word, monitor, intr_state>> /\ Done(c, <<>>)
  BY DEF WaitEnds
<1>2. Calm(t) /\ Orderly(t) /\ GoesOn(c, t) /\ Open(t) = Open(todo[c])
  BY <1>1, PlainTail, DoneTail DEF Calm
<1>3. masked'[c] = TRUE /\ \A d \in Cpus \ {c} : masked'[d] = masked[d]
  BY DEF WaitEnds, SetMask, LInv, LockedTypes
<1>4. OrderInv' /\ MaskInv'
  <2>1. MaskFits(t, masked'[c], intr_state'[c])
    BY <1>1, <1>2, <1>3 DEF MaskFits, Calm, LInv, MaskInv
  <2> QED BY <1>1, <1>2, <1>3, <2>1, MaskStep
<1>5. WordInv'
  BY <1>1, <1>2, WordStep DEF Calm
<1>6. LockedTypes'
  BY <1>1, <1>2 DEF WaitEnds, SetMask, LInv, LockedTypes, GoesOn, vars, cpuVars
<1>7. ScheduleInv'
  <2>1. x # <<"schedule">>
    OBVIOUS
  <2> QED BY <1>1, <1>2, <2>1, ScheduleKept, Elsewhere DEF vars, cpuVars
<1> QED BY <1>4, <1>5, <1>6, <1>7 DEF LInv

(* Only a CPU that holds nothing is interrupted.                            *)
LEMMA ExceptionInv ==
  ASSUME LInv, NEW c \in Cpus, Exception(c)
  PROVE  LInv'
<1>1. PICK s \in Handlers : todo' = [todo EXCEPT ![c] = s]
  BY DEF Exception
<1>2. UNCHANGED <<vars, word, monitor, intr_state>> /\ masked[c] = FALSE
  BY DEF Exception, LInv, LockedTypes
<1>3. Calm(s) /\ Orderly(s) /\ Open(s) = {} /\ GoesOn(c, s)
  BY <1>1, HandlersCalm DEF Calm, GoesOn, LInv, LockedTypes
<1>4. masked'[c] = TRUE /\ \A d \in Cpus \ {c} : masked'[d] = masked[d]
  BY DEF Exception, SetMask, LInv, LockedTypes
<1>5. OrderInv' /\ MaskInv'
  <2>1. MaskFits(s, masked'[c], intr_state'[c])
    BY <1>3, <1>4 DEF MaskFits, Calm
  <2> QED BY <1>2, <1>3, <1>4, <2>1, MaskStep
<1>6. WordInv'
  BY <1>2, <1>3, WordStep DEF Calm
<1>7. LockedTypes'
  BY <1>2, <1>3 DEF Exception, SetMask, LInv, LockedTypes, GoesOn, vars, cpuVars
<1>8. ScheduleInv'
  <2>1. <<"schedule">> # <<"wait">>
    OBVIOUS
  <2>2. pc[c] \notin Scanning
    BY <1>2, <2>1 DEF LInv, ScheduleInv, MaskInv, Now
  <2> QED BY <1>2, <1>3, <2>2, ScheduleKept DEF vars, cpuVars
<1> QED BY <1>5, <1>6, <1>7, <1>8 DEF LInv

LEMMA SameInv ==
  ASSUME LInv, UNCHANGED <<pc, holder, lockVars, todo>>
  PROVE  LInv'
BY DEF LInv, LockedTypes, OrderInv, WordInv, MaskInv, ScheduleInv, Now, lockVars

LEMMA LockedInitInv == LockedInit => LInv
<1> SUFFICES ASSUME LockedInit PROVE LInv
  OBVIOUS
<1> USE QueueAssumption, LockedAssumption DEF LockedInit
<1>1. LockedTypes
  BY DEF LockedTypes, Init, Places
<1>2. \A c \in Cpus : /\ Orderly(todo[c]) /\ Open(todo[c]) = {}
                      /\ \A l \in Locks : ~Starts(todo[c], <<"store", l>>) /\ ~Starts(todo[c], <<"load", l>>)
                      /\ c # Primary => Starts(todo[c], <<"wait">>)
  <2>1. \A l \in Locks : ~Starts(start_secondary, <<"store", l>>) /\ ~Starts(start_secondary, <<"load", l>>)
    <3>1. \A l \in Locks : <<"wait">> # <<"store", l>> /\ <<"wait">> # <<"load", l>>
      OBVIOUS
    <3> QED BY <3>1, StartsOrderly DEF Starts
  <2> QED BY <2>1, StartsOrderly DEF Calm
<1>3. OrderInv
  BY <1>2 DEF OrderInv
<1>4. MaskInv
  <2>1. \A c \in Cpus : MaskFits(todo[c], masked[c], intr_state[c])
    BY <1>2 DEF MaskFits
  <2> QED BY <1>3, <2>1, MaskOf
<1>5. WordInv
  <2>1. \A c \in Cpus : \A l \in Locks : monitor[c] # l
    OBVIOUS
  <2> QED BY <1>2, <2>1 DEF WordInv
<1>6. ScheduleInv
  BY DEF ScheduleInv, Init, Scanning
<1> QED BY <1>1, <1>3, <1>4, <1>5, <1>6 DEF LInv

(* The inductive invariant of the locked handlers.                          *)
THEOREM LockedInvariance == LockedSpec => []LInv
<1>1. LInv /\ [LockedNext]_lockedVars => LInv'
  <2> SUFFICES ASSUME LInv, [LockedNext]_lockedVars PROVE LInv'
    OBVIOUS
  <2>1. ASSUME NEW c \in Cpus, Save(c) \/ Count(c) \/ Halt(c) PROVE LInv'
    <3>1. CASE Halt(c)
      BY <3>1, SameInv DEF Halt, lockedVars, vars, cpuVars
    <3> QED BY <2>1, <3>1, SaveInv, CountInv
  <2>2. ASSUME NEW c \in Cpus, NEW l \in Locks, Load(c, l) \/ Store(c, l) \/ Unlock(c, l) PROVE LInv'
    <3>1. CASE Store(c, l)
      BY <3>1, StoreSucceedsInv, StoreFailsInv DEF Store
    <3> QED BY <2>2, <3>1, LoadInv, UnlockInv
  <2>3. ASSUME NEW c \in Cpus, Add(c) \/ Schedule(c) PROVE LInv'
    BY <2>3, AddInv, ScheduleInvStep
  <2>4. ASSUME NEW c \in Cpus, Release(c) \/ WaitEnds(c) \/ Exit(c) \/ Exception(c) PROVE LInv'
    BY <2>4, ReleaseInv, WaitInv, ExitInv, ExceptionInv
  <2>5. ASSUME NEW v \in Vcpus, Leave(v), UNCHANGED <<lockVars, todo>> PROVE LInv'
    BY <2>5, SameInv DEF Leave, cpuVars
  <2>6. CASE UNCHANGED lockedVars
    BY <2>6, SameInv DEF lockedVars, vars, cpuVars
  <2> QED BY <2>1, <2>2, <2>3, <2>4, <2>5, <2>6 DEF LockedNext
<1> QED BY <1>1, LockedInitInv, PTL DEF LockedSpec

-----------------------------------------------------------------------------
(* The properties. *)

(* A CPU takes no interrupt between the first and the last step of a        *)
(* handler, however the locks in it are nested: spin_unlock restores what   *)
(* the lock that came last has saved, and that was always "masked".         *)
THEOREM HandlersStayMasked == LockedSpec => []HandlersRunMasked
<1>1. LInv => HandlersRunMasked
  BY DEF LInv, MaskInv, HandlersRunMasked
<1> QED BY <1>1, LockedInvariance, PTL

(* In an orderly script every store has its unlock before the next store   *)
(* and no unlock comes twice, so what a CPU holds is Open.                 *)
LEMMA HoldsIsOpen ==
  ASSUME LInv, NEW c \in Cpus, NEW l \in Locks, Holds(c, l)
  PROVE  l \in Open(todo[c])
<1> DEFINE s == todo[c]
           x == <<"store", l>>
           y == <<"unlock", l>>
<1>1. s \in Seq(Steps) /\ \A n \in 1..Len(s) : Proper(s[n], Drop(s, n))
  BY DEF LInv, OrderInv, Orderly
<1>2. Len(s) \in Nat /\ DOMAIN s = 1..Len(s)
  BY <1>1, LenProperties
<1>3. PICK i \in 1..Len(s) : /\ s[i] = y
                            /\ \A j \in 1..(i - 1) : s[j] = x =>
                                 \E k \in (j + 1)..(i - 1) : s[k] = y
  BY <1>2 DEF Holds
<1> HIDE DEF s, x, y
<1>4. ASSUME NEW j \in 1..(i - 1), s[j] = x PROVE FALSE
  <2> DEFINE T == {n \in Nat : n > 0 /\ n < i /\ s[i - n] = y}
  <2>1. T # {}
    <3>1. PICK k \in (j + 1)..(i - 1) : s[k] = y
      BY <1>3, <1>4
    <3>2. i - k \in Nat /\ i - k > 0 /\ i - k < i /\ i - (i - k) = k
      BY <1>2
    <3>3. i - k \in T
      BY <3>1, <3>2
    <3> QED BY <3>3
  <2>2. PICK m \in T : \A n \in T : m <= n
    BY <2>1, LeastNumber
  <2> DEFINE k == i - m
             r == Drop(s, k)
  <2>3. m \in Nat /\ m > 0 /\ m < i /\ s[k] = y
    BY <2>2
  <2>4. k \in 1..Len(s) /\ k < i /\ i - k = m
    BY <1>2, <2>3
  <2>5. DOMAIN r = 1..(Len(s) - k) /\ \A n \in 1..(Len(s) - k) : r[n] = s[n + k]
    BY DEF Drop
  <2>6. i - k \in DOMAIN r /\ r[i - k] = y
    BY <1>2, <1>3, <2>4, <2>5
  <2>7. ASSUME NEW n \in 1..((i - k) - 1), r[n] = x PROVE FALSE
    <3>1. n + k \in 1..(i - 1) /\ n \in 1..(Len(s) - k)
      BY <1>2, <2>4
    <3>2. s[n + k] = x
      BY <2>5, <2>7, <3>1
    <3>3. PICK h \in ((n + k) + 1)..(i - 1) : s[h] = y
      BY <1>3, <3>1, <3>2
    <3>4. i - h \in Nat /\ i - h > 0 /\ i - h < i /\ i - (i - h) = h /\ i - h < m
      BY <1>2, <2>3, <2>4, <3>1
    <3>5. i - h \in T
      BY <3>3, <3>4
    <3> HIDE DEF T
    <3>6. m <= i - h
      BY <2>2, <3>5
    <3>7. i - h \in Nat /\ m \in Nat /\ i - h < m
      BY <2>3, <3>4
    <3> HIDE DEF k
    <3> QED BY <3>6, <3>7
  <2> HIDE DEF k, r
  <2>8. l \in Open(r)
    BY <2>6, <2>7 DEF Open, x, y
  <2>9. l \notin Open(r)
    BY <1>1, <2>3, <2>4 DEF Proper, r, y, k
  <2> QED BY <2>8, <2>9
<1> QED BY <1>2, <1>3, <1>4 DEF Open, s, x, y

(* Whoever is to unlock a word is the only one who is.                      *)
THEOREM OneHolder ==
  LockedSpec => [](\A c, d \in Cpus, l \in Locks : Holds(c, l) /\ Holds(d, l) => c = d)
<1>1. LInv => (\A c, d \in Cpus, l \in Locks : Holds(c, l) /\ Holds(d, l) => c = d)
  <2>1. LInv => \A c \in Cpus, l \in Locks : Holds(c, l) => l \in Open(todo[c])
    BY HoldsIsOpen
  <2> QED BY <2>1 DEF LInv, WordInv
<1> QED BY <1>1, LockedInvariance, PTL

(* A CPU that waits for a lock holds at most the timer's or the             *)
(* scheduler's, and then it waits for the console, whose holder waits for   *)
(* nothing: no circle of waiting CPUs, not even of one.                     *)
THEOREM NoCircle == LockedSpec => []LocksAreOrdered
<1>1. LInv => LocksAreOrdered
  <2> SUFFICES ASSUME LInv, NEW c \in Cpus, NEW held \in Locks, NEW wanted \in Locks,
                      Holds(c, held), Now(c, <<"load", wanted>>)
               PROVE  held # "ser_locked" /\ wanted = "ser_locked"
    BY DEF LocksAreOrdered
  <2> DEFINE s == Tail(todo[c])
             u == Tail(s)
             x == <<"load", wanted>>
             y == <<"store", wanted>>
  <2>1. s \in Seq(Steps) /\ Proper(x, s) /\ Orderly(s)
        /\ Open(todo[c]) = {k \in Locks : x = <<"unlock", k>> \/ (x # <<"store", k>> /\ k \in Open(s))}
    BY Unfold
  <2>2. Starts(s, y)
    BY <2>1 DEF Proper
  <2>3. held \in Open(s)
    <3>1. held \in Open(todo[c])
      BY HoldsIsOpen
    <3>2. \A k \in Locks : x # <<"unlock", k>>
      OBVIOUS
    <3> QED BY <2>1, <3>1, <3>2
  <2>4. y \in Steps /\ u \in Seq(Steps) /\ s = <<y>> \o u
    BY <2>1, <2>2, HeadTail DEF Starts
  <2> HIDE DEF s, u
  <2>5. Proper(y, u) /\ Open(s) = {k \in Locks : y = <<"unlock", k>> \/ (y # <<"store", k>> /\ k \in Open(u))}
    BY <2>1, <2>4, OrderlyCons, OpenCons
  <2>6. held # wanted /\ held \in Open(u)
    <3>1. \A k \in Locks : y # <<"unlock", k>> /\ (k = wanted => y = <<"store", k>>)
      OBVIOUS
    <3> QED BY <2>3, <2>5, <3>1
  <2> QED BY <2>5, <2>6 DEF Proper
<1> QED BY <1>1, LockedInvariance, PTL

(* The exclusive accesses, the barriers of the handlers and the mask make   *)
(* do_schedule one CPU's at a time, which is what FcfsQueue takes for       *)
(* granted: every step is one of its steps.                                 *)
THEOREM LockImplementsQueue == LockedSpec => ImplementsFcfsQueue
<1>1. LockedInit => Init
  BY DEF LockedInit
<1>2. ASSUME LInv, [LockedNext]_lockedVars PROVE [Next]_vars
  <2>1. ASSUME NEW c \in Cpus, EnterSchedule(c), Now(c, <<"schedule">>) PROVE TakeLock(c)
    <3>1. "scheduler_locked" \in Open(todo[c])
      <4>1. "scheduler_locked" \in Open(Tail(todo[c]))
        BY <1>2, <2>1, Unfold DEF Proper
      <4> QED BY <1>2, <2>1, <4>1, PlainTail
    <3>2. ASSUME holder # None PROVE FALSE
      <4>1. holder \in Cpus /\ pc[holder] \in Scanning /\ Now(holder, <<"schedule">>)
        BY <1>2, <3>2 DEF LInv, LockedTypes, ScheduleInv
      <4>2. "scheduler_locked" \in Open(todo[holder])
        <5>1. "scheduler_locked" \in Open(Tail(todo[holder]))
          BY <1>2, <4>1, Unfold DEF Proper
        <5> QED BY <1>2, <4>1, <5>1, PlainTail
      <4>3. holder = c
        BY <1>2, <3>1, <4>1, <4>2 DEF LInv, WordInv
      <4> QED BY <2>1, <4>1, <4>3 DEF EnterSchedule, Scanning
    <3> QED BY <2>1, <3>2 DEF TakeLock, LockFree
  <2>2. ASSUME NEW c \in Cpus, Schedule(c) PROVE [Next]_vars
    BY <2>1, <2>2 DEF Schedule, Next, Taking
  <2>3. ASSUME NEW c \in Cpus, Add(c) PROVE [Next]_vars
    BY <2>3 DEF Add, Next, Adding
  <2>4. ASSUME NEW c \in Cpus,
               \/ Save(c) \/ Count(c) \/ Halt(c) \/ Release(c) \/ WaitEnds(c) \/ Exit(c) \/ Exception(c)
               \/ \E l \in Locks : Load(c, l) \/ Store(c, l) \/ Unlock(c, l)
        PROVE  UNCHANGED vars
    BY <2>4 DEF Save, Count, Halt, Release, WaitEnds, Exit, Exception, Load, Store, Unlock, lockedVars
  <2>5. CASE \E v \in Vcpus : Leave(v)
    BY <2>5 DEF Next
  <2>6. CASE UNCHANGED lockedVars
    BY <2>6 DEF lockedVars
  <2> QED BY <1>2, <2>2, <2>3, <2>4, <2>5, <2>6 DEF LockedNext
<1> QED BY <1>1, <1>2, LockedInvariance, PTL DEF LockedSpec, Spec, ImplementsFcfsQueue

(* So the results about the lists hold for the handlers and the lock words: *)
(* no READY vcpu is lost, and no two CPUs make the same vcpu active.        *)
THEOREM LockedLoseNoVcpu == ASSUME OnePerPriority PROVE LockedSpec => []ReadyIsReachable
BY LockImplementsQueue, LevelsLoseNoVcpu, PTL DEF ImplementsFcfsQueue

THEOREM LockedTakeOnce == ASSUME OnePerPriority PROVE LockedSpec => []TakenOnce
BY LockImplementsQueue, LevelsTakeOnce, PTL DEF ImplementsFcfsQueue
=============================================================================
