--------------------------- MODULE HypTimer_proofs ---------------------------
(***************************************************************************)
(* Proofs about a CPU's timer events, for any number of blocks and vcpus   *)
(* and any times.                                                          *)
(***************************************************************************)
EXTENDS HypTimer, FiniteSetTheorems, TLAPS

USE TimerAssumption

-----------------------------------------------------------------------------
(* The table. *)

(* A used block has a callback, the handler works on a used block, and     *)
(* nothing is armed before start_primary.                                  *)
RowInv ==
  /\ \A i \in Slots : used[i] => func[i] \in Events
  /\ pc \in {"call", "clear"} => slot \in Slots /\ used[slot]
  /\ pc = "boot" => \A i \in Slots : ~used[i]

TableInv == TypeOK /\ RowInv /\ OneSlotEach /\ TickingWhileArmed

(* What the addition of event e to block i does to the table and its       *)
(* history.                                                                *)
PutIn(i, e, m) ==
  /\ ~used[i]
  /\ used'   = [used EXCEPT ![i] = TRUE]
  /\ msec'   = [msec EXCEPT ![i] = m]
  /\ func'   = [func EXCEPT ![i] = e]
  /\ asked'  = [asked EXCEPT ![e] = m]
  /\ age'    = [age EXCEPT ![e] = 0]
  /\ waited' = [waited EXCEPT ![e] = 0]

(* timer_event_add starts the timer, and fills a block or panics.          *)
LEMMA AddEffect ==
  ASSUME TableInv, NEW e \in Events, NEW m \in Int, NEW place \in Places,
         AddOrPanic(e, m, place)
  PROVE  /\ running' = TRUE /\ clean' = clean
         /\ tval' = IF running THEN tval ELSE Quantum
         /\ \/ Full /\ pc' = "panic" /\ UNCHANGED <<table, history>>
            \/ pc' = place /\ \E i \in Slots : PutIn(i, e, m)
BY DEF AddOrPanic, StartTimer, timer_event_add, FreeSlot, PutIn

LEMMA AddKeepsTypes ==
  ASSUME TableInv, NEW e \in Events, NEW m \in Int, NEW place \in Places,
         AddOrPanic(e, m, place), UNCHANGED slot
  PROVE  TypeOK' /\ TickingWhileArmed'
<1>1. running' = TRUE /\ clean' = clean /\ tval' = IF running THEN tval ELSE Quantum
  BY AddEffect
<1>2. TickingWhileArmed'
  BY <1>1 DEF TickingWhileArmed
<1>3. Quantum \in 0..Quantum /\ 0 \in Nat
  OBVIOUS
<1>4. /\ running' \in BOOLEAN /\ clean' \in BOOLEAN /\ tval' \in 0..Quantum
      /\ slot' \in 0..TimerEvents
  BY <1>1, <1>3 DEF TableInv, TypeOK
<1>5. CASE pc' = "panic" /\ UNCHANGED <<table, history>>
  BY <1>2, <1>4, <1>5 DEF TableInv, TypeOK, table, history, Places
<1>6. ASSUME pc' = place, NEW i \in Slots, PutIn(i, e, m) PROVE TypeOK'
  <2>1. /\ used' \in [Slots -> BOOLEAN] /\ msec' \in [Slots -> Int]
        /\ func' \in [Slots -> Events \cup {None}]
    BY <1>6 DEF PutIn, TableInv, TypeOK
  <2>2. /\ asked' \in [Events -> Int] /\ age' \in [Events -> Nat]
        /\ waited' \in [Events -> Nat]
    BY <1>3, <1>6 DEF PutIn, TableInv, TypeOK
  <2>. QED
    BY <1>4, <1>6, <2>1, <2>2 DEF TypeOK
<1>7. \/ pc' = "panic" /\ UNCHANGED <<table, history>>
      \/ pc' = place /\ \E i \in Slots : PutIn(i, e, m)
  BY AddEffect
<1>. QED
  BY <1>2, <1>5, <1>6, <1>7

LEMMA TableInit == Init => TableInv
<1> SUFFICES ASSUME Init PROVE TableInv
  OBVIOUS
<1>1. 0 \in 0..TimerEvents /\ 0 \in Nat /\ 0 \in Int /\ Quantum \in 0..Quantum
  OBVIOUS
<1>2. TypeOK
  BY <1>1 DEF Init, TypeOK, Places
<1>3. RowInv /\ OneSlotEach /\ TickingWhileArmed
  BY DEF Init, RowInv, OneSlotEach, TickingWhileArmed, Holds
<1>. QED
  BY <1>2, <1>3 DEF TableInv

LEMMA TableStep == TableInv /\ [Next]_vars => TableInv'
<1> SUFFICES ASSUME TableInv, [Next]_vars PROVE TableInv'
  OBVIOUS
<1> USE DEF Places
<1>1. CASE UNCHANGED vars
  BY <1>1 DEF vars, table, timer, history, TableInv, TypeOK, RowInv, OneSlotEach,
     TickingWhileArmed, Holds
<1>2. CASE StartUsage
  <2>1. AddOrPanic(Usage, Period, "out") /\ UNCHANGED slot /\ pc = "boot"
    BY <1>2 DEF StartUsage
  <2>2. TypeOK' /\ TickingWhileArmed'
    BY <2>1, AddKeepsTypes DEF Events
  <2>3. ~Full /\ Period \in Int
    BY <2>1 DEF Full, TableInv, RowInv, Slots
  <2>4. PICK i \in Slots : /\ pc' = "out"
                           /\ used' = [used EXCEPT ![i] = TRUE]
                           /\ func' = [func EXCEPT ![i] = Usage]
    BY <2>1, <2>3, AddEffect DEF Events, PutIn
  <2>5. RowInv' /\ OneSlotEach'
    BY <2>1, <2>4 DEF TableInv, RowInv, OneSlotEach, Holds, TypeOK, Events
  <2>. QED
    BY <2>2, <2>5 DEF TableInv
<1>3. ASSUME NEW v \in Vcpus, Sleep(v) PROVE TableInv'
  <2>1. PICK m \in Sleeps : /\ AddOrPanic(v, m, "out") /\ UNCHANGED slot
                            /\ pc = "out" /\ ~IsArmed(v)
    BY <1>3 DEF Sleep
  <2>. m \in Int /\ v \in Events
    BY DEF Events
  <2>2. TypeOK' /\ TickingWhileArmed'
    BY <2>1, AddKeepsTypes
  <2>3. RowInv' /\ OneSlotEach'
    <3>1. CASE pc' = "panic" /\ UNCHANGED table
      BY <2>1, <3>1 DEF table, TableInv, RowInv, OneSlotEach, Holds, TypeOK
    <3>2. CASE pc' = "out" /\ \E i \in Slots :
                 /\ ~used[i]
                 /\ used' = [used EXCEPT ![i] = TRUE]
                 /\ func' = [func EXCEPT ![i] = v]
      BY <2>1, <3>2 DEF TableInv, RowInv, OneSlotEach, Holds, IsArmed, TypeOK
    <3>. QED
      BY <2>1, <3>1, <3>2, AddEffect DEF PutIn
  <2>. QED
    BY <2>2, <2>3 DEF TableInv
<1>4. CASE Interrupt
  <2>1. /\ pc = "out" /\ pc' = "visit" /\ slot' = 0 /\ tval' = Quantum /\ age' = Older(age)
        /\ UNCHANGED <<used, msec, func, running, clean, asked, waited>>
    BY <1>4 DEF Interrupt, table
  <2>2. Older(age) \in [Events -> Nat] /\ 0 \in 0..TimerEvents /\ Quantum \in 0..Quantum
    BY DEF Older, TableInv, TypeOK
  <2>3. TypeOK'
    BY <2>1, <2>2 DEF TableInv, TypeOK
  <2>4. RowInv' /\ OneSlotEach' /\ TickingWhileArmed'
    BY <2>1 DEF TableInv, RowInv, OneSlotEach, TickingWhileArmed, Holds
  <2>. QED
    BY <2>3, <2>4 DEF TableInv
<1>5. CASE Visit
  <2>1. slot \in Slots => slot + 1 \in 0..TimerEvents
    BY DEF Slots
  <2>. QED
    BY <1>5, <2>1 DEF Visit, timer, history, TableInv, TypeOK, RowInv, OneSlotEach,
       TickingWhileArmed, Holds
<1>6. CASE Callback
  <2>1. CASE func[slot] # Usage
    BY <1>6, <2>1 DEF Callback, table, timer, history, TableInv, TypeOK, RowInv, OneSlotEach,
       TickingWhileArmed, Holds
  <2>2. CASE func[slot] = Usage
    <3>1. AddOrPanic(Usage, Period, "clear") /\ UNCHANGED slot /\ pc = "call"
      BY <1>6, <2>2 DEF Callback
    <3>2. TypeOK' /\ TickingWhileArmed'
      BY <3>1, AddKeepsTypes DEF Events
    <3>3. RowInv' /\ OneSlotEach'
      <4>1. CASE pc' = "panic" /\ UNCHANGED table
        BY <3>1, <4>1 DEF table, TableInv, RowInv, OneSlotEach, Holds, TypeOK
      <4>2. CASE pc' = "clear" /\ \E i \in Slots :
                   /\ ~used[i]
                   /\ used' = [used EXCEPT ![i] = TRUE]
                   /\ func' = [func EXCEPT ![i] = Usage]
        BY <2>2, <3>1, <4>2 DEF TableInv, RowInv, OneSlotEach, Holds, TypeOK, Events
      <4>3. Period \in Int /\ Usage \in Events
        BY DEF Events
      <4>. QED
        BY <3>1, <4>1, <4>2, <4>3, AddEffect DEF PutIn
    <3>. QED
      BY <3>2, <3>3 DEF TableInv
  <2>. QED
    BY <2>1, <2>2
<1>7. CASE Clear
  <2>1. /\ slot \in Slots /\ pc = "clear" /\ pc' = "visit" /\ slot' = slot + 1
        /\ used' = [used EXCEPT ![slot] = FALSE]
        /\ msec' = [msec EXCEPT ![slot] = 0]
        /\ func' = [func EXCEPT ![slot] = None]
        /\ UNCHANGED <<running, tval, clean, asked, age, waited>>
    BY <1>7 DEF Clear, ClearSlot, timer, history, TableInv, RowInv
  <2>2. slot + 1 \in 0..TimerEvents /\ 0 \in Int
    BY <2>1 DEF Slots
  <2>3. TypeOK'
    BY <2>1, <2>2 DEF TableInv, TypeOK
  <2>4. RowInv' /\ OneSlotEach' /\ TickingWhileArmed'
    BY <2>1 DEF TableInv, TypeOK, RowInv, OneSlotEach, TickingWhileArmed, Holds
  <2>. QED
    BY <2>3, <2>4 DEF TableInv
<1>8. CASE LeaveHandler
  <2>1. /\ pc' = "out" /\ slot' = 0
        /\ UNCHANGED <<used, msec, func, tval, clean, asked, age, waited>>
        /\ running' = IF NoEventLeft THEN FALSE ELSE running
    BY <1>8 DEF LeaveHandler, table, history
  <2>2. 0 \in 0..TimerEvents
    OBVIOUS
  <2>3. TypeOK'
    BY <2>1, <2>2 DEF TableInv, TypeOK
  <2>4. RowInv' /\ OneSlotEach'
    BY <1>8, <2>1 DEF LeaveHandler, TableInv, RowInv, OneSlotEach, Holds
  <2>5. TickingWhileArmed'
    BY <2>1 DEF NoEventLeft, TableInv, TickingWhileArmed
  <2>. QED
    BY <2>3, <2>4, <2>5 DEF TableInv
<1>9. CASE TimePasses
  <2>1. /\ tval > 0 /\ tval' = tval - 1 /\ waited' = (IF clean THEN Older(waited) ELSE waited)
        /\ UNCHANGED <<used, msec, func, running, clean, pc, slot, asked, age>>
    BY <1>9 DEF TimePasses, table
  <2>2. Older(waited) \in [Events -> Nat]
    BY DEF Older, TableInv, TypeOK
  <2>3. tval' \in 0..Quantum /\ waited' \in [Events -> Nat]
    BY <2>1, <2>2 DEF TableInv, TypeOK
  <2>4. TypeOK'
    BY <2>1, <2>3 DEF TableInv, TypeOK
  <2>5. RowInv' /\ OneSlotEach' /\ TickingWhileArmed'
    BY <2>1 DEF TableInv, RowInv, OneSlotEach, TickingWhileArmed, Holds
  <2>. QED
    BY <2>4, <2>5 DEF TableInv
<1>10. CASE WriteClock
  <2>1. /\ clean' = FALSE /\ tval' \in 0..Quantum /\ waited' = [e \in Events |-> 0]
        /\ UNCHANGED <<used, msec, func, running, pc, slot, asked, age>>
    BY <1>10 DEF WriteClock, table
  <2>2. waited' \in [Events -> Nat]
    BY <2>1
  <2>3. TypeOK'
    BY <2>1, <2>2 DEF TableInv, TypeOK
  <2>4. RowInv' /\ OneSlotEach' /\ TickingWhileArmed'
    BY <2>1 DEF TableInv, RowInv, OneSlotEach, TickingWhileArmed, Holds
  <2>. QED
    BY <2>3, <2>4 DEF TableInv
<1>11. CASE LogPanic
  BY <1>11 DEF LogPanic, table, timer, history, TableInv, TypeOK, RowInv, OneSlotEach,
     TickingWhileArmed, Holds
<1>. QED
  BY <1>1, <1>2, <1>3, <1>4, <1>5, <1>6, <1>7, <1>8, <1>9, <1>10, <1>11 DEF Next, Handler

(* The types, the use of blocks, one block for each event and a running    *)
(* timer support one another; together every step of timer_event_add and   *)
(* timer_event_intr keeps them.                                            *)
THEOREM TableInvariance == Spec => []TableInv
BY TableInit, TableStep, PTL DEF Spec

(* The row of timer_event_table keeps its types.                           *)
THEOREM TypeCorrect == Spec => []TypeOK
<1>1. TableInv => TypeOK
  BY DEF TableInv
<1>. QED
  BY <1>1, TableInvariance, PTL

(* No event sits in two blocks of timer_event_table, except the periodic   *)
(* one between its callback and the moment its old block is cleared.       *)
THEOREM OneSlot == Spec => []OneSlotEach
<1>1. TableInv => OneSlotEach
  BY DEF TableInv
<1>. QED
  BY <1>1, TableInvariance, PTL

(* timer_event_intr stops the timer only when no event waits.              *)
THEOREM Ticking == Spec => []TickingWhileArmed
<1>1. TableInv => TickingWhileArmed
  BY DEF TableInv
<1>. QED
  BY <1>1, TableInvariance, PTL

-----------------------------------------------------------------------------
(* A block for each vcpu and two for the periodic event are enough: when   *)
(* an event is added no block is used twice, so a full table would hold    *)
(* more events than there are.                                             *)
LEMMA RoomForOne ==
  ASSUME TableInv, pc # "clear", Cardinality(Vcpus) + 2 <= TimerEvents
  PROVE  ~Full
<1> SUFFICES ASSUME Full PROVE FALSE
  OBVIOUS
<1>1. IsFiniteSet(Slots) /\ Cardinality(Slots) = TimerEvents
  BY FS_Interval DEF Slots
<1>2. Cardinality(Vcpus) \in Nat
  BY FS_CardinalityType
<1>3. IsFiniteSet(Events) /\ Cardinality(Events) = Cardinality(Vcpus) + 1
  BY FS_AddElement DEF Events
<1>4. func \in [Slots -> Events]
  BY DEF TableInv, TypeOK, RowInv, Full
<1>5. Cardinality(Events) < Cardinality(Slots)
  BY <1>1, <1>2, <1>3
<1>6. PICK i, j \in Slots : i # j /\ func[i] = func[j]
  BY <1>1, <1>3, <1>4, <1>5, FS_PigeonHole
<1>7. func[i] \in Events /\ Holds(func[i], i) /\ Holds(func[i], j)
  BY <1>4, <1>6 DEF Full, Holds
<1>. QED
  BY <1>6, <1>7 DEF TableInv, OneSlotEach

LEMMA NeverFullStep == TableInv /\ NeverFull /\ [Next]_vars => NeverFull'
<1> SUFFICES ASSUME TableInv, NeverFull, [Next]_vars,
                    Cardinality(Vcpus) + 2 <= TimerEvents
             PROVE  pc' # "panic"
  BY DEF NeverFull
<1>1. ASSUME NEW e, NEW m, NEW place \in {"out", "clear"}, AddOrPanic(e, m, place), pc # "clear"
      PROVE  pc' # "panic"
  BY <1>1, RoomForOne DEF AddOrPanic
<1>2. CASE StartUsage \/ \E v \in Vcpus : Sleep(v)
  BY <1>1, <1>2 DEF StartUsage, Sleep
<1>3. CASE Callback
  BY <1>1, <1>3 DEF Callback
<1>4. CASE Interrupt \/ Visit \/ Clear \/ LeaveHandler
  BY <1>4 DEF Interrupt, Visit, Clear, LeaveHandler
<1>5. CASE TimePasses \/ WriteClock \/ LogPanic
  BY <1>5 DEF TimePasses, WriteClock, LogPanic, NeverFull
<1>. QED
  BY <1>2, <1>3, <1>4, <1>5 DEF Next, Handler, NeverFull, vars

(* timer_event_add never runs out of blocks where each vcpu has one and    *)
(* the event that adds itself again has two.                               *)
THEOREM EnoughBlocks == Spec => []NeverFull
<1>1. Init => NeverFull
  BY DEF Init, NeverFull
<1>. QED
  BY <1>1, NeverFullStep, TableInvariance, PTL DEF Spec

-----------------------------------------------------------------------------
(* Times. *)

(* The blocks that the pass of the handler has still to visit. *)
Ahead(i) == \/ pc = "visit" /\ slot <= i
            \/ pc \in {"call", "clear"} /\ slot < i

(* How often the handler has counted an event down. *)
Counted(v, i) == IF Ahead(i) THEN age[v] - 1 ELSE age[v]

InHand(i) == pc \in {"call", "clear"} /\ i = slot

(* A wake-up has lost one quantum for each interrupt that has reached it,  *)
(* and was not due the time before.                                        *)
Timed(v, i) ==
  /\ Counted(v, i) \in Nat
  /\ msec[i] = asked[v] - Counted(v, i) * Quantum
  /\ ~InHand(i) /\ Counted(v, i) > 0 => msec[i] > 0
  /\ pc = "call" /\ i = slot =>
       age[v] > 0 /\ msec[i] <= 0 /\ (age[v] > 1 => msec[i] + Quantum > 0)

(* hyp_panic has left the CPU in cpu_hlt. *)
Dead == pc \in {"panic", "halted"}

TimeInv ==
  ~Dead => \A v \in Vcpus : \A i \in Slots : Holds(v, i) => Timed(v, i)

LEMMA Distributes ==
  ASSUME NEW a \in Int, NEW q \in Int
  PROVE  (a - 1) * q = a * q - q
OBVIOUS

(* An event that the step does not touch. *)
LEMMA TimedStays ==
  ASSUME TableInv, NEW v \in Vcpus, NEW i \in Slots, Timed(v, i),
         msec'[i] = msec[i], asked'[v] = asked[v],
         Counted(v, i)' = Counted(v, i), InHand(i) => InHand(i)',
         ~(pc' = "call" /\ i = slot')
  PROVE  Timed(v, i)'
BY DEF Timed

(* An event that is added without a panic goes into a free slot. *)
LEMMA AddSucceeds ==
  ASSUME TableInv, NEW e \in Events, NEW m \in Int, NEW place \in Places,
         AddOrPanic(e, m, place), ~Dead'
  PROVE  pc' = place /\ \E j \in Slots : PutIn(j, e, m)
BY AddEffect DEF Dead

LEMMA DeadStays == Dead /\ [Next]_vars => Dead'
<1> SUFFICES ASSUME Dead, [Next]_vars PROVE Dead'
  OBVIOUS
<1>1. ~StartUsage /\ ~Interrupt /\ ~Handler /\ ~TimePasses /\ ~WriteClock /\ ~LogPanic
  BY DEF Dead, StartUsage, Interrupt, Handler, Visit, Callback, Clear, LeaveHandler,
     TimePasses, WriteClock, LogPanic
<1>2. \A v \in Vcpus : ~Sleep(v)
  BY DEF Dead, Sleep
<1>3. UNCHANGED vars
  BY <1>1, <1>2 DEF Next
<1>. QED
  BY <1>3 DEF vars, Dead

LEMMA TimeStep == TableInv /\ TableInv' /\ TimeInv /\ [Next]_vars => TimeInv'
<1> SUFFICES ASSUME TableInv, TableInv', TimeInv, [Next]_vars, ~Dead, ~Dead',
                    NEW v \in Vcpus, NEW i \in Slots, Holds(v, i)'
             PROVE  Timed(v, i)'
  BY DeadStays DEF TimeInv
<1>. /\ i \in Int /\ slot \in Int /\ v \in Events /\ v # Usage /\ age[v] \in Nat
     /\ msec[i] \in Int /\ asked[v] \in Int
  BY DEF TableInv, TypeOK, Slots, Events
<1>0. ASSUME Holds(v, i) PROVE Timed(v, i)
  BY <1>0 DEF TimeInv
<1>1. CASE UNCHANGED vars
  BY <1>0, <1>1 DEF vars, table, timer, history, Timed, Counted, Ahead, InHand, Holds
<1>2. CASE StartUsage
  <2>1. AddOrPanic(Usage, Period, "out")
    BY <1>2 DEF StartUsage
  <2>. Usage \in Events /\ Period \in Int /\ "out" \in Places
    BY DEF Events, Places
  <2>2. PICK j \in Slots : /\ used' = [used EXCEPT ![j] = TRUE]
                           /\ func' = [func EXCEPT ![j] = Usage]
    BY <2>1, AddSucceeds DEF PutIn
  <2>3. Holds(v, i)
    BY <2>2 DEF Holds, TableInv, TypeOK
  <2>. QED
    BY <1>2, <2>3 DEF StartUsage, Holds, TableInv, RowInv
<1>3. ASSUME NEW u \in Vcpus, Sleep(u) PROVE Timed(v, i)'
  <2>1. PICK m \in Sleeps : /\ AddOrPanic(u, m, "out") /\ pc = "out" /\ ~IsArmed(u)
                            /\ UNCHANGED slot
    BY <1>3 DEF Sleep
  <2>. u \in Events /\ m \in Int /\ "out" \in Places
    BY DEF Events, Places
  <2>2. PICK j \in Slots : /\ pc' = "out" /\ ~used[j]
                           /\ used' = [used EXCEPT ![j] = TRUE]
                           /\ msec' = [msec EXCEPT ![j] = m]
                           /\ func' = [func EXCEPT ![j] = u]
                           /\ asked' = [asked EXCEPT ![u] = m]
                           /\ age' = [age EXCEPT ![u] = 0]
    BY <2>1, AddSucceeds DEF PutIn
  <2>3. CASE i = j
    <3>1. u = v /\ msec'[i] = m /\ asked'[v] = m /\ age'[v] = 0
      BY <2>2, <2>3 DEF Holds, TableInv, TypeOK
    <3>2. Counted(v, i)' = 0 /\ ~InHand(i)'
      BY <2>2, <3>1 DEF Counted, Ahead, InHand
    <3>. QED
      BY <2>2, <3>1, <3>2 DEF Timed
  <2>4. CASE i # j
    <3>1. Holds(v, i) /\ v # u
      BY <2>1, <2>2, <2>4 DEF Holds, IsArmed, TableInv, TypeOK
    <3>2. msec'[i] = msec[i] /\ asked'[v] = asked[v] /\ age'[v] = age[v]
      BY <2>2, <2>4, <3>1 DEF TableInv, TypeOK
    <3>. QED
      BY <1>0, <2>1, <2>2, <3>1, <3>2, TimedStays DEF Counted, Ahead, InHand
  <2>. QED
    BY <2>3, <2>4
<1>4. CASE Interrupt
  <2>1. /\ pc = "out" /\ pc' = "visit" /\ slot' = 0 /\ UNCHANGED <<used, msec, func, asked>>
        /\ age' = [e \in Events |-> IF IsArmed(e) THEN age[e] + 1 ELSE age[e]]
    BY <1>4 DEF Interrupt, table, Older
  <2>2. Holds(v, i)
    BY <2>1 DEF Holds
  <2>3. age'[v] = age[v] + 1
    BY <2>1, <2>2 DEF IsArmed
  <2>4. Counted(v, i)' = Counted(v, i)
    BY <2>1, <2>3 DEF Counted, Ahead, Slots
  <2>. QED
    BY <1>0, <2>1, <2>2, <2>4, TimedStays DEF InHand
<1>5. CASE Visit
  <2>1. pc = "visit" /\ slot \in Slots /\ UNCHANGED <<used, func, asked, age>>
    BY <1>5 DEF Visit, history
  <2>2. Holds(v, i) /\ Timed(v, i)
    BY <1>0, <2>1 DEF Holds
  <2>3. CASE i # slot
    <3>1. /\ msec'[i] = msec[i]
          /\ \/ pc' = "call" /\ slot' = slot
             \/ pc' = "visit" /\ slot' = slot + 1
      BY <1>5, <2>1, <2>3 DEF Visit, TableInv, TypeOK
    <3>2. Counted(v, i)' = Counted(v, i)
      BY <2>1, <2>3, <3>1 DEF Counted, Ahead
    <3>. QED
      BY <2>1, <2>2, <2>3, <3>1, <3>2, TimedStays DEF InHand
  <2>4. CASE i = slot
    <3>1. /\ msec'[i] = msec[i] - Quantum
          /\ \/ pc' = "call" /\ slot' = slot /\ msec'[i] <= 0
             \/ pc' = "visit" /\ slot' = slot + 1 /\ msec'[i] > 0
      BY <1>5, <2>1, <2>2, <2>4 DEF Visit, Due, Holds, TableInv, TypeOK
    <3>2. Counted(v, i) = age[v] - 1 /\ Counted(v, i)' = age[v] /\ age'[v] = age[v]
      BY <2>1, <2>4, <3>1 DEF Counted, Ahead
    <3>3. age[v] - 1 \in Nat /\ msec[i] = asked[v] - (age[v] - 1) * Quantum
          /\ (age[v] - 1 > 0 => msec[i] > 0)
      BY <2>1, <2>2, <3>2 DEF Timed, InHand
    <3>4. (age[v] - 1) * Quantum = age[v] * Quantum - Quantum /\ age[v] * Quantum \in Int
      BY Distributes
    <3>5. msec'[i] = asked'[v] - Counted(v, i)' * Quantum
      BY <2>1, <3>1, <3>2, <3>3, <3>4
    <3>. QED
      BY <2>4, <3>1, <3>2, <3>3, <3>5 DEF Timed, InHand
  <2>. QED
    BY <2>3, <2>4
<1>6. CASE Callback
  <2>1. pc = "call" /\ pc' = "clear" /\ slot' = slot
    BY <1>6 DEF Callback, AddOrPanic, Dead
  <2>2. Holds(v, i) /\ msec'[i] = msec[i] /\ asked'[v] = asked[v] /\ age'[v] = age[v]
    <3>1. CASE func[slot] # Usage
      BY <1>6, <3>1 DEF Callback, table, history, Holds
    <3>2. CASE func[slot] = Usage
      <4>1. AddOrPanic(Usage, Period, "clear")
        BY <1>6, <3>2 DEF Callback
      <4>. Usage \in Events /\ Period \in Int /\ "clear" \in Places
        BY DEF Events, Places
      <4>2. PICK j \in Slots : /\ ~used[j]
                               /\ used' = [used EXCEPT ![j] = TRUE]
                               /\ msec' = [msec EXCEPT ![j] = Period]
                               /\ func' = [func EXCEPT ![j] = Usage]
                               /\ asked' = [asked EXCEPT ![Usage] = Period]
                               /\ age' = [age EXCEPT ![Usage] = 0]
        BY <4>1, AddSucceeds DEF PutIn
      <4>. QED
        BY <4>2 DEF Holds, TableInv, TypeOK
    <3>. QED
      BY <3>1, <3>2
  <2>3. Counted(v, i)' = Counted(v, i)
    BY <2>1, <2>2 DEF Counted, Ahead
  <2>. QED
    BY <1>0, <2>1, <2>2, <2>3, TimedStays DEF InHand
<1>7. CASE Clear
  <2>1. /\ slot \in Slots /\ pc = "clear" /\ pc' = "visit" /\ slot' = slot + 1
        /\ used' = [used EXCEPT ![slot] = FALSE]
        /\ msec' = [msec EXCEPT ![slot] = 0]
        /\ func' = [func EXCEPT ![slot] = None]
        /\ UNCHANGED <<asked, age>>
    BY <1>7 DEF Clear, ClearSlot, history, TableInv, RowInv
  <2>2. i # slot /\ Holds(v, i) /\ msec'[i] = msec[i]
    BY <2>1 DEF Holds, TableInv, TypeOK
  <2>3. Counted(v, i)' = Counted(v, i)
    BY <2>1, <2>2 DEF Counted, Ahead
  <2>. QED
    BY <1>0, <2>1, <2>2, <2>3, TimedStays DEF InHand
<1>8. CASE LeaveHandler
  <2>1. /\ pc = "visit" /\ slot = TimerEvents /\ pc' = "out" /\ slot' = 0
        /\ UNCHANGED <<used, msec, func, asked, age>>
    BY <1>8 DEF LeaveHandler, table, history
  <2>2. Holds(v, i) /\ Counted(v, i)' = Counted(v, i)
    BY <2>1 DEF Holds, Counted, Ahead, Slots
  <2>. QED
    BY <1>0, <2>1, <2>2, TimedStays DEF InHand
<1>9. CASE TimePasses \/ WriteClock
  <2>1. UNCHANGED <<used, msec, func, pc, slot, asked, age>>
    BY <1>9 DEF TimePasses, WriteClock, table
  <2>2. Holds(v, i) /\ ~(pc = "call" /\ i = slot)
    BY <1>9, <2>1 DEF Holds, TimePasses, WriteClock
  <2>. QED
    BY <1>0, <2>1, <2>2, TimedStays DEF Counted, Ahead, InHand
<1>10. CASE LogPanic
  BY <1>10 DEF LogPanic, Dead
<1>. QED
  BY <1>1, <1>2, <1>3, <1>4, <1>5, <1>6, <1>7, <1>8, <1>9, <1>10 DEF Next, Handler

(* While no guest has written to the core timer, interrupts are a quantum  *)
(* apart: since the event was added as much time has passed as between it  *)
(* and the first interrupt, which is what tval was then, and one quantum   *)
(* for each further one.                                                   *)
Measured(v) == \E left \in 0..Quantum : waited[v] = (age[v] * Quantum + left) - tval

ClockInv ==
  clean =>
    /\ pc \in {"visit", "call", "clear"} => tval = Quantum
    /\ \A v \in Vcpus : IsArmed(v) => Measured(v)

LEMMA ClockStep == TableInv /\ TableInv' /\ ClockInv /\ [Next]_vars => ClockInv'
<1> SUFFICES ASSUME TableInv, TableInv', ClockInv, [Next]_vars, clean'
             PROVE  /\ pc' \in {"visit", "call", "clear"} => tval' = Quantum
                    /\ \A v \in Vcpus : IsArmed(v)' => Measured(v)'
  BY DEF ClockInv
<1>. /\ tval \in 0..Quantum /\ Quantum \in Nat
     /\ \A v \in Vcpus : age[v] \in Nat /\ waited[v] \in Nat /\ v \in Events /\ v # Usage
  BY DEF TableInv, TypeOK, Events
<1>0. /\ pc \in {"visit", "call", "clear"} /\ clean => tval = Quantum
      /\ \A v \in Vcpus : clean /\ IsArmed(v) => Measured(v)
  BY DEF ClockInv
<1>1. ASSUME UNCHANGED <<used, func, asked, age, waited, tval, clean>>,
             pc' \in {"visit", "call", "clear"} => pc \in {"visit", "call", "clear"}
      PROVE  /\ pc' \in {"visit", "call", "clear"} => tval' = Quantum
             /\ \A v \in Vcpus : IsArmed(v)' => Measured(v)'
  BY <1>0, <1>1 DEF IsArmed, Holds, Measured
<1>2. CASE UNCHANGED vars
  BY <1>1, <1>2 DEF vars, table, timer, history
<1>3. ASSUME NEW e \in Events, NEW m \in Int, NEW place \in Places,
             AddOrPanic(e, m, place), pc \in {"boot", "out", "call"},
             place = "clear" => pc = "call", place \in {"out", "clear"}
      PROVE  /\ pc' \in {"visit", "call", "clear"} => tval' = Quantum
             /\ \A v \in Vcpus : IsArmed(v)' => Measured(v)'
  <2>1. /\ clean' = clean /\ tval' = IF running THEN tval ELSE Quantum
        /\ \/ Full /\ pc' = "panic" /\ UNCHANGED <<table, history>>
           \/ pc' = place /\ \E i \in Slots : PutIn(i, e, m)
    BY <1>3, AddEffect
  <2>2. tval' \in 0..Quantum /\ ((\E i \in Slots : used[i]) => tval' = tval)
    BY <2>1 DEF TableInv, TickingWhileArmed
  <2>3. pc' \in {"visit", "call", "clear"} => tval' = Quantum
    BY <1>0, <1>3, <2>1
  <2>4. ASSUME NEW v \in Vcpus, IsArmed(v)' PROVE Measured(v)'
    <3>1. CASE UNCHANGED <<table, history>>
      <4>1. IsArmed(v) /\ tval' = tval
        BY <2>2, <2>4, <3>1 DEF IsArmed, Holds, table
      <4>. QED
        BY <1>0, <2>1, <3>1, <4>1 DEF Measured, history
    <3>2. ASSUME NEW i \in Slots, PutIn(i, e, m), v # e PROVE Measured(v)'
      <4>1. IsArmed(v) /\ age'[v] = age[v] /\ waited'[v] = waited[v]
        BY <2>4, <3>2 DEF PutIn, IsArmed, Holds, TableInv, TypeOK
      <4>2. tval' = tval
        BY <2>2, <4>1 DEF IsArmed, Holds
      <4>. QED
        BY <1>0, <2>1, <4>1, <4>2 DEF Measured
    <3>3. ASSUME NEW i \in Slots, PutIn(i, e, m), v = e PROVE Measured(v)'
      <4>1. age'[v] = 0 /\ waited'[v] = 0
        BY <3>3 DEF PutIn, TableInv, TypeOK
      <4>2. 0 = (0 * Quantum + tval') - tval'
        BY <2>2
      <4>. QED
        BY <2>2, <4>1, <4>2 DEF Measured
    <3>. QED
      BY <2>1, <3>1, <3>2, <3>3
  <2>. QED
    BY <2>3, <2>4
<1>4. CASE StartUsage
  BY <1>3, <1>4 DEF StartUsage, Events, Places
<1>5. ASSUME NEW v \in Vcpus, Sleep(v)
      PROVE  /\ pc' \in {"visit", "call", "clear"} => tval' = Quantum
             /\ \A w \in Vcpus : IsArmed(w)' => Measured(w)'
  <2>1. PICK m \in Sleeps : AddOrPanic(v, m, "out") /\ pc = "out"
    BY <1>5 DEF Sleep
  <2>. QED
    BY <1>3, <2>1 DEF Events, Places
<1>6. CASE Interrupt
  <2>1. /\ tval = 0 /\ tval' = Quantum /\ UNCHANGED <<used, func, waited, clean>>
        /\ age' = [e \in Events |-> IF IsArmed(e) THEN age[e] + 1 ELSE age[e]]
    BY <1>6 DEF Interrupt, table, Older
  <2>2. ASSUME NEW v \in Vcpus, IsArmed(v)' PROVE Measured(v)'
    <3>1. IsArmed(v) /\ age'[v] = age[v] + 1
      BY <2>1, <2>2 DEF IsArmed, Holds
    <3>2. PICK left \in 0..Quantum : waited[v] = (age[v] * Quantum + left) - tval
      BY <1>0, <2>1, <3>1 DEF Measured
    <3>3. (age[v] + 1) * Quantum = age[v] * Quantum + Quantum /\ age[v] * Quantum \in Int
      BY Distributes
    <3>4. waited'[v] = (age'[v] * Quantum + left) - tval'
      BY <2>1, <3>1, <3>2, <3>3
    <3>. QED
      BY <3>4 DEF Measured
  <2>. QED
    BY <2>1, <2>2
<1>7. CASE Visit
  BY <1>1, <1>7 DEF Visit, timer, history
<1>8. CASE Callback
  <2>1. CASE func[slot] # Usage
    BY <1>1, <1>8, <2>1 DEF Callback, table, timer, history
  <2>2. CASE func[slot] = Usage
    BY <1>3, <1>8, <2>2 DEF Callback, Events, Places
  <2>. QED
    BY <2>1, <2>2
<1>9. CASE Clear
  <2>1. /\ UNCHANGED <<tval, clean, age, waited>> /\ pc = "clear" /\ slot \in Slots
        /\ used' = [used EXCEPT ![slot] = FALSE]
        /\ func' = [func EXCEPT ![slot] = None]
    BY <1>9 DEF Clear, ClearSlot, timer, history, TableInv, RowInv
  <2>2. ASSUME NEW v \in Vcpus, IsArmed(v)' PROVE IsArmed(v)
    BY <2>1, <2>2 DEF IsArmed, Holds, TableInv, TypeOK
  <2>. QED
    BY <1>0, <2>1, <2>2 DEF Measured
<1>10. CASE LeaveHandler
  BY <1>1, <1>10 DEF LeaveHandler, table, history
<1>11. CASE TimePasses
  <2>1. /\ tval > 0 /\ tval' = tval - 1 /\ UNCHANGED <<used, func, clean, pc, age>>
        /\ pc = "out" /\ waited' = (IF clean THEN Older(waited) ELSE waited)
    BY <1>11 DEF TimePasses, table
  <2>2. ASSUME NEW v \in Vcpus, IsArmed(v)' PROVE Measured(v)'
    <3>1. IsArmed(v) /\ waited'[v] = waited[v] + 1 /\ age'[v] = age[v]
      BY <2>1, <2>2 DEF IsArmed, Holds, Older
    <3>2. PICK left \in 0..Quantum : waited[v] = (age[v] * Quantum + left) - tval
      BY <1>0, <2>1, <3>1 DEF Measured
    <3>3. age[v] * Quantum \in Int
      OBVIOUS
    <3>4. waited'[v] = (age'[v] * Quantum + left) - tval'
      BY <2>1, <3>1, <3>2, <3>3
    <3>. QED
      BY <3>4 DEF Measured
  <2>. QED
    BY <2>1, <2>2
<1>12. CASE WriteClock
  BY <1>12 DEF WriteClock
<1>13. CASE LogPanic
  BY <1>1, <1>13 DEF LogPanic, table, timer, history
<1>. QED
  BY <1>2, <1>4, <1>5, <1>6, <1>7, <1>8, <1>9, <1>10, <1>11, <1>12, <1>13 DEF Next, Handler

(* A wake-up fires within one quantum of its time, sooner or later, or at  *)
(* the next interrupt, whatever else is armed or fires, as long as no      *)
(* guest writes to the core timer.                                         *)
THEOREM WakeUpsInTime == Spec => WakesInTime
<1>1. Init => TimeInv /\ ClockInv
  BY DEF Init, TimeInv, ClockInv, Holds, IsArmed
<1>2. TableInv /\ TimeInv /\ ClockInv /\ [Next]_vars =>
        [\A v \in Vcpus : clean /\ Callback /\ func[slot] = v =>
           /\ waited[v] + Quantum >= asked[v]
           /\ waited[v] < asked[v] + Quantum \/ waited[v] <= Quantum]_vars
  <2> SUFFICES ASSUME TableInv, TimeInv, ClockInv,
                      NEW v \in Vcpus, clean, Callback, func[slot] = v
               PROVE  /\ waited[v] + Quantum >= asked[v]
                      /\ waited[v] < asked[v] + Quantum \/ waited[v] <= Quantum
    OBVIOUS
  <2>. age[v] \in Nat /\ waited[v] \in Nat /\ asked[v] \in Int /\ v \in Events
    BY DEF TableInv, TypeOK, Events
  <2>1. pc = "call" /\ slot \in Slots /\ Holds(v, slot)
    BY DEF Callback, TableInv, RowInv, Holds
  <2>2. Timed(v, slot) /\ Counted(v, slot) = age[v]
    BY <2>1 DEF TimeInv, Dead, Counted, Ahead, Slots
  <2>3. /\ msec[slot] = asked[v] - age[v] * Quantum /\ msec[slot] <= 0
        /\ age[v] > 0 /\ (age[v] > 1 => msec[slot] + Quantum > 0)
    BY <2>1, <2>2 DEF Timed
  <2>4. PICK left \in 0..Quantum : waited[v] = (age[v] * Quantum + left) - Quantum
    BY <2>1 DEF ClockInv, IsArmed, Measured
  <2>5. age[v] * Quantum \in Int /\ (age[v] = 1 => age[v] * Quantum = Quantum)
    OBVIOUS
  <2>6. age[v] = 1 \/ age[v] > 1
    BY <2>3
  <2>. QED
    BY <2>3, <2>4, <2>5, <2>6
<1>3. TableInv /\ TableInv' /\ ClockInv /\ [Next]_vars => ClockInv'
  BY ClockStep
<1>. QED
  BY <1>1, <1>2, <1>3, TimeStep, TableInvariance, PTL DEF Spec, WakesInTime

-----------------------------------------------------------------------------
(* The periodic event. *)

(* Its block has lost one quantum for each interrupt that has reached it,   *)
(* and x more: the one of the pass that added it behind itself.             *)
LostWith(i, x) == msec[i] = asked[Usage] - (Counted(Usage, i) + x) * Quantum

UsageTimed(i) ==
  /\ LostWith(i, 0) \/ LostWith(i, 1)
  /\ ~(pc = "call" /\ i = slot) => msec[i] > 0
  /\ pc = "call" /\ i = slot => msec[i] <= 0 /\ msec[i] + Quantum > 0

(* The block that the handler is about to clear counts no more.             *)
UsageInv ==
  ~Dead =>
    \A i \in Slots : Holds(Usage, i) /\ ~(pc = "clear" /\ i = slot) => UsageTimed(i)

LEMMA UsageTimedStays ==
  ASSUME TableInv, NEW i \in Slots, UsageTimed(i), ~(pc = "call" /\ i = slot),
         msec'[i] = msec[i], asked'[Usage] = asked[Usage],
         Counted(Usage, i)' = Counted(Usage, i), ~(pc' = "call" /\ i = slot')
  PROVE  UsageTimed(i)'
BY DEF UsageTimed, LostWith

LEMMA UsageAdded ==
  ASSUME TableInv, TableInv', AddOrPanic(Usage, Period, "out") \/ AddOrPanic(Usage, Period, "clear"),
         UNCHANGED slot, ~Dead', NEW i \in Slots, Holds(Usage, i)', ~Holds(Usage, i)
  PROVE  UsageTimed(i)'
<1>. Usage \in Events /\ Period \in Int /\ Period > 0 /\ "out" \in Places /\ "clear" \in Places
  BY DEF Events, Places
<1>1. PICK j \in Slots : /\ pc' \in {"out", "clear"}
                         /\ used' = [used EXCEPT ![j] = TRUE]
                         /\ msec' = [msec EXCEPT ![j] = Period]
                         /\ func' = [func EXCEPT ![j] = Usage]
                         /\ asked' = [asked EXCEPT ![Usage] = Period]
                         /\ age' = [age EXCEPT ![Usage] = 0]
  BY AddSucceeds DEF PutIn
<1>2. i = j
  BY <1>1 DEF Holds, TableInv, TypeOK
<1>3. msec'[i] = Period /\ asked'[Usage] = Period /\ age'[Usage] = 0
  BY <1>1, <1>2 DEF TableInv, TypeOK
<1>4. Counted(Usage, i)' = 0 \/ Counted(Usage, i)' = -1
  BY <1>3 DEF Counted
<1>5. LostWith(i, 0)' \/ LostWith(i, 1)'
  <2>1. (0 + 0) * Quantum = 0 /\ (-1 + 1) * Quantum = 0
    OBVIOUS
  <2>. QED
    BY <1>3, <1>4, <2>1 DEF LostWith
<1>. QED
  BY <1>1, <1>3, <1>5 DEF UsageTimed

LEMMA UsageStep == TableInv /\ TableInv' /\ UsageInv /\ [Next]_vars => UsageInv'
<1> SUFFICES ASSUME TableInv, TableInv', UsageInv, [Next]_vars, ~Dead, ~Dead',
                    NEW i \in Slots, Holds(Usage, i)', ~(pc' = "clear" /\ i = slot')
             PROVE  UsageTimed(i)'
  BY DeadStays DEF UsageInv
<1>. /\ i \in Int /\ slot \in Int /\ Usage \in Events /\ age[Usage] \in Nat
     /\ msec[i] \in Int /\ asked[Usage] \in Int /\ Quantum \in Nat
  BY DEF TableInv, TypeOK, Slots, Events
<1>0. ASSUME Holds(Usage, i), ~(pc = "clear" /\ i = slot) PROVE UsageTimed(i)
  BY <1>0 DEF UsageInv
<1>1. CASE UNCHANGED vars
  BY <1>0, <1>1 DEF vars, table, timer, history, UsageTimed, LostWith, Counted, Ahead, Holds
<1>2. CASE StartUsage
  BY <1>2, UsageAdded DEF StartUsage, TableInv, RowInv, Holds
<1>3. ASSUME NEW u \in Vcpus, Sleep(u) PROVE UsageTimed(i)'
  <2>1. PICK m \in Sleeps : AddOrPanic(u, m, "out") /\ pc = "out" /\ UNCHANGED slot
    BY <1>3 DEF Sleep
  <2>. u \in Events /\ u # Usage /\ m \in Int /\ "out" \in Places
    BY DEF Events, Places
  <2>2. PICK j \in Slots : /\ pc' = "out"
                           /\ used' = [used EXCEPT ![j] = TRUE]
                           /\ msec' = [msec EXCEPT ![j] = m]
                           /\ func' = [func EXCEPT ![j] = u]
                           /\ asked' = [asked EXCEPT ![u] = m]
                           /\ age' = [age EXCEPT ![u] = 0]
    BY <2>1, AddSucceeds DEF PutIn
  <2>3. /\ Holds(Usage, i) /\ msec'[i] = msec[i]
        /\ asked'[Usage] = asked[Usage] /\ age'[Usage] = age[Usage]
    BY <2>2 DEF Holds, TableInv, TypeOK
  <2>. QED
    BY <1>0, <2>1, <2>2, <2>3, UsageTimedStays DEF Counted, Ahead
<1>4. CASE Interrupt
  <2>1. /\ pc = "out" /\ pc' = "visit" /\ slot' = 0 /\ UNCHANGED <<used, msec, func, asked>>
        /\ age' = [e \in Events |-> IF IsArmed(e) THEN age[e] + 1 ELSE age[e]]
    BY <1>4 DEF Interrupt, table, Older
  <2>2. Holds(Usage, i)
    BY <2>1 DEF Holds
  <2>3. age'[Usage] = age[Usage] + 1
    BY <2>1, <2>2 DEF IsArmed
  <2>4. Counted(Usage, i)' = Counted(Usage, i)
    BY <2>1, <2>3 DEF Counted, Ahead, Slots
  <2>. QED
    BY <1>0, <2>1, <2>2, <2>4, UsageTimedStays
<1>5. CASE Visit
  <2>1. pc = "visit" /\ slot \in Slots /\ UNCHANGED <<used, func, asked, age>>
    BY <1>5 DEF Visit, history
  <2>2. Holds(Usage, i) /\ UsageTimed(i)
    BY <1>0, <2>1 DEF Holds
  <2>3. CASE i # slot
    <3>1. /\ msec'[i] = msec[i]
          /\ \/ pc' = "call" /\ slot' = slot
             \/ pc' = "visit" /\ slot' = slot + 1
      BY <1>5, <2>1, <2>3 DEF Visit, TableInv, TypeOK
    <3>2. Counted(Usage, i)' = Counted(Usage, i)
      BY <2>1, <2>3, <3>1 DEF Counted, Ahead
    <3>. QED
      BY <2>1, <2>2, <2>3, <3>1, <3>2, UsageTimedStays
  <2>4. CASE i = slot
    <3>1. /\ msec'[i] = msec[i] - Quantum
          /\ \/ pc' = "call" /\ slot' = slot /\ msec'[i] <= 0
             \/ pc' = "visit" /\ slot' = slot + 1 /\ msec'[i] > 0
      BY <1>5, <2>1, <2>2, <2>4 DEF Visit, Due, Holds, TableInv, TypeOK
    <3>2. Counted(Usage, i) = age[Usage] - 1 /\ Counted(Usage, i)' = age[Usage]
      BY <2>1, <2>4, <3>1 DEF Counted, Ahead
    <3>3. msec[i] > 0 /\ (LostWith(i, 0) \/ LostWith(i, 1))
      BY <2>1, <2>2 DEF UsageTimed
    <3>4. ASSUME NEW x \in {0, 1}, LostWith(i, x) PROVE LostWith(i, x)'
      <4>1. ((age[Usage] + x) - 1) * Quantum = (age[Usage] + x) * Quantum - Quantum
            /\ (age[Usage] + x) * Quantum \in Int
        BY Distributes
      <4>2. (age[Usage] - 1) + x = (age[Usage] + x) - 1
        OBVIOUS
      <4>3. msec[i] = asked[Usage] - ((age[Usage] + x) * Quantum - Quantum)
        BY <3>2, <3>4, <4>1, <4>2 DEF LostWith
      <4>4. msec'[i] = asked[Usage] - (age[Usage] + x) * Quantum
        BY <3>1, <4>1, <4>3
      <4>. QED
        BY <2>1, <3>2, <4>4 DEF LostWith
    <3>5. LostWith(i, 0)' \/ LostWith(i, 1)'
      BY <3>3, <3>4
    <3>. QED
      BY <2>4, <3>1, <3>3, <3>5 DEF UsageTimed
  <2>. QED
    BY <2>3, <2>4
<1>6. CASE Callback
  <2>1. pc = "call" /\ pc' = "clear" /\ slot' = slot /\ i # slot
    BY <1>6 DEF Callback, AddOrPanic, Dead
  <2>2. CASE func[slot] # Usage
    <3>1. UNCHANGED <<used, msec, func, asked, age>>
      BY <1>6, <2>2 DEF Callback, table, history
    <3>. QED
      BY <1>0, <2>1, <3>1, UsageTimedStays DEF Holds, Counted, Ahead
  <2>3. CASE func[slot] = Usage
    <3>1. ~Holds(Usage, i)
      BY <2>1, <2>3 DEF TableInv, OneSlotEach, RowInv, Holds
    <3>. QED
      BY <1>6, <2>3, <3>1, UsageAdded DEF Callback
  <2>. QED
    BY <2>2, <2>3
<1>7. CASE Clear
  <2>1. /\ slot \in Slots /\ pc = "clear" /\ pc' = "visit" /\ slot' = slot + 1
        /\ used' = [used EXCEPT ![slot] = FALSE]
        /\ msec' = [msec EXCEPT ![slot] = 0]
        /\ func' = [func EXCEPT ![slot] = None]
        /\ UNCHANGED <<asked, age>>
    BY <1>7 DEF Clear, ClearSlot, history, TableInv, RowInv
  <2>2. i # slot /\ Holds(Usage, i) /\ msec'[i] = msec[i]
    BY <2>1 DEF Holds, TableInv, TypeOK
  <2>3. Counted(Usage, i)' = Counted(Usage, i)
    BY <2>1, <2>2 DEF Counted, Ahead
  <2>. QED
    BY <1>0, <2>1, <2>2, <2>3, UsageTimedStays
<1>8. CASE LeaveHandler
  <2>1. /\ pc = "visit" /\ slot = TimerEvents /\ pc' = "out" /\ slot' = 0
        /\ UNCHANGED <<used, msec, func, asked, age>>
    BY <1>8 DEF LeaveHandler, table, history
  <2>2. Holds(Usage, i) /\ Counted(Usage, i)' = Counted(Usage, i)
    BY <2>1 DEF Holds, Counted, Ahead, Slots
  <2>. QED
    BY <1>0, <2>1, <2>2, UsageTimedStays
<1>9. CASE TimePasses \/ WriteClock
  <2>1. UNCHANGED <<used, msec, func, pc, slot, asked, age>>
    BY <1>9 DEF TimePasses, WriteClock, table
  <2>2. Holds(Usage, i) /\ ~(pc = "call" /\ i = slot)
    BY <1>9, <2>1 DEF Holds, TimePasses, WriteClock
  <2>. QED
    BY <1>0, <2>1, <2>2, UsageTimedStays DEF Counted, Ahead
<1>10. CASE LogPanic
  BY <1>10 DEF LogPanic, Dead
<1>. QED
  BY <1>1, <1>2, <1>3, <1>4, <1>5, <1>6, <1>7, <1>8, <1>9, <1>10 DEF Next, Handler

(* The report of the CPU usage comes at most one interrupt early, for it    *)
(* may be counted down in the pass that added it, and never late.           *)
THEOREM UsageInTime == Spec => UsageWithinOneTick
<1>1. Init => UsageInv
  BY DEF Init, UsageInv, Holds
<1>2. TableInv /\ UsageInv /\ [Next]_vars =>
        [Callback /\ func[slot] = Usage =>
           /\ (age[Usage] + 1) * Quantum >= asked[Usage]
           /\ (age[Usage] - 1) * Quantum < asked[Usage]]_vars
  <2> SUFFICES ASSUME TableInv, UsageInv, Callback, func[slot] = Usage
               PROVE  /\ (age[Usage] + 1) * Quantum >= asked[Usage]
                      /\ (age[Usage] - 1) * Quantum < asked[Usage]
    OBVIOUS
  <2>. age[Usage] \in Nat /\ asked[Usage] \in Int /\ Quantum \in Nat \ {0}
    BY DEF TableInv, TypeOK, Events
  <2>1. pc = "call" /\ slot \in Slots /\ Holds(Usage, slot)
    BY DEF Callback, TableInv, RowInv, Holds
  <2>2. /\ msec[slot] \in Int /\ msec[slot] <= 0 /\ msec[slot] + Quantum > 0
        /\ LostWith(slot, 0) \/ LostWith(slot, 1)
    BY <2>1 DEF UsageInv, UsageTimed, Dead, TableInv, TypeOK
  <2>3. Counted(Usage, slot) = age[Usage]
    BY <2>1 DEF Counted, Ahead, Slots
  <2>4. /\ (age[Usage] - 1) * Quantum = age[Usage] * Quantum - Quantum
        /\ (age[Usage] + 1) * Quantum = age[Usage] * Quantum + Quantum
        /\ (age[Usage] + 0) * Quantum = age[Usage] * Quantum
        /\ age[Usage] * Quantum \in Int
    OBVIOUS
  <2>. QED
    BY <2>2, <2>3, <2>4 DEF LostWith
<1>. QED
  BY <1>1, <1>2, UsageStep, TableInvariance, PTL DEF Spec, UsageWithinOneTick
=============================================================================
