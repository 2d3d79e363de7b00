--------------------------- MODULE Stage2Mmu_proofs ---------------------------
(* Proofs about Stage2Mmu. *)
EXTENDS Stage2Mmu, SequenceTheorems, TLAPS

(***************************************************************************)
(* The tables as a tree.  Pages below 1 GB use word 0 of a root only, so   *)
(* the tables of a VM are found through Fan + 2 links: the root itself,    *)
(* its word 0, and the words of the level-2 table.  A link is 0 or 1 + the *)
(* index of its table.                                                     *)
(***************************************************************************)
Links   == 0..(Fan + 1)
Slots   == 0..(Fan - 1)
Tables  == 0..(MaxTables - 1)
Words   == [0..(MaxTables * Fan - 1) -> Nat]
Created == {v \in Vms : vttbr[v] # None}

Entry(w, t, i) == w[t * Fan + i]

Second(w, v) == Entry(w, vttbr[v], 0)

Third(w, v, i) == IF Second(w, v) = 0 THEN 0 ELSE Entry(w, Second(w, v) - 1, i)

Link(w, v, k) ==
  IF k = 0 THEN vttbr[v] + 1 ELSE IF k = 1 THEN Second(w, v) ELSE Third(w, v, k - 2)

WalkIn(w, v, page) ==
  LET third == Third(w, v, Index2(page)) IN
  IF v \notin Created \/ third = 0 THEN 0 ELSE Entry(w, third - 1, Index3(page))

(* Every table in use is linked once. *)
TreeInv(w, b) ==
  /\ w \in Words
  /\ b \in Tables
  /\ \A v \in Created : vttbr[v] \in Nat
  /\ \A v \in Created, k \in Links : Link(w, v, k) \in 0..b
  /\ \A v, x \in Created, k, l \in Links :
       Link(w, v, k) = Link(w, x, l) /\ Link(w, v, k) # 0 => v = x /\ k = l

(***************************************************************************)
(* The rest of vm_create.                                                  *)
(***************************************************************************)
Region == [start : Pages, pages : Nat \ {0}, msg : BOOLEAN]

ControlInv ==
  /\ pc \in {"create", "memory", "map", "panic"}
  /\ vm \in 1..(VmNum + 1)
  /\ freeTop \in 0..(PoolSize - 1)
  /\ vttbr \in [Vms -> Tables \cup {None}]
  /\ at \in [page : Nat, frame : Nat, end : Nat]
  /\ todo \in Seq(Region)
  /\ \A i \in DOMAIN todo : PagesOf(todo[i]) \subseteq Pages \ DevicePages
  /\ pc \in {"memory", "map"} => vm \in Vms /\ vttbr[vm] # None /\ devices \subseteq granted[vm]
  /\ pc # "panic" => \A v \in Vms : v > vm \/ (v = vm /\ pc = "create") => vttbr[v] = None
  /\ devices \subseteq DOMAIN ExclDevices
  /\ granted \in [Vms -> SUBSET DOMAIN ExclDevices]

FramesOf(b) == b.frame..(b.frame + b.pages - 1)

Block == [start : Pages, frame : Nat, pages : Nat \ {0}]

(* malloc gives no page of the pool twice.                                 *)
BlockInv ==
  /\ blocks \in [Vms -> SUBSET Block]
  /\ \A v \in Vms : \A b \in blocks[v] :
       /\ PagesOf(b) \subseteq Pages \ DevicePages
       /\ FramesOf(b) \subseteq PoolStart..(PoolStart + freeTop - 1)
  /\ \A v, x \in Vms : \A b \in blocks[v], c \in blocks[x] :
       FramesOf(b) \cap FramesOf(c) # {} => v = x /\ b = c

(* What is being mapped is a region of the VM or a device it was granted.  *)
Current(b) ==
  /\ b.start = Head(todo).start /\ b.pages = Head(todo).pages
  /\ b.start <= at.page /\ at.page <= at.end /\ at.end <= b.start + b.pages
  /\ at.frame + b.start = b.frame + at.page
  /\ Head(todo).msg => at.end = b.start + b.pages

CurrentDevice(i) ==
  /\ at.frame = at.page
  /\ ExclDevices[i].start <= at.page /\ at.page <= at.end
  /\ at.end = ExclDevices[i].start + ExclDevices[i].pages

MapInv ==
  pc = "map" => IF todo # <<>> THEN \E b \in blocks[vm] : Current(b)
                               ELSE \E i \in granted[vm] : CurrentDevice(i)

IInv == ControlInv /\ BlockInv /\ TreeInv(word, bottom) /\ MapInv

(* The pages of a region that the loop of map_page_table has yet to reach. *)
Ahead(b, i) ==
  /\ pc = "map" /\ todo # <<>>
  /\ b.start = Head(todo).start
  /\ at.end = b.start + b.pages
  /\ at.page <= i

RegionsDisjoint ==
  /\ \A v \in Vms : \A b, c \in blocks[v] : PagesOf(b) \cap PagesOf(c) # {} => b = c
  /\ \A i, j \in DOMAIN todo : i # j => PagesOf(todo[i]) \cap PagesOf(todo[j]) = {}
  /\ pc \in {"memory", "map"} =>
       \A b \in blocks[vm], i \in DOMAIN todo :
         pc = "memory" \/ i > 1 => PagesOf(b) \cap PagesOf(todo[i]) = {}
  /\ \A v \in Vms : v > vm \/ (v = vm /\ pc = "create") => blocks[v] = {}

MappedOrAhead ==
  \A v \in Vms : \A b \in blocks[v] : \A i \in PagesOf(b) :
    Walk(v, i) = 1 + b.frame + i - b.start \/ (v = vm /\ Ahead(b, i))

WholeInv == pc # "panic" => RegionsDisjoint /\ MappedOrAhead

-----------------------------------------------------------------------------
(* Words and pages. *)

(* The word of slot i of table t is inside the array, and it is no other's. *)
LEMMA SlotBounds ==
  ASSUME NEW t \in Tables, NEW i \in Slots
  PROVE  t * Fan + i \in 0..(MaxTables * Fan - 1)
<1>1. Fan \in Nat \ {0} /\ MaxTables \in Nat \ {0}
  BY SizeAssumption
<1>2. t \in Nat /\ t + 1 <= MaxTables /\ i \in Nat /\ i < Fan
  BY <1>1 DEF Tables, Slots
<1>3. (t + 1) * Fan <= MaxTables * Fan /\ t * Fan \in Nat
  BY <1>1, <1>2
<1>4. (t + 1) * Fan = t * Fan + Fan /\ MaxTables * Fan \in Nat
  BY <1>1, <1>2
<1> HIDE DEF Tables, Slots
<1> QED BY <1>1, <1>2, <1>3, <1>4

LEMMA SlotTable ==
  ASSUME NEW t \in Nat, NEW i \in Slots
  PROVE  (t * Fan + i) \div Fan = t
<1>1. Fan \in Nat \ {0} /\ i \in Nat /\ i < Fan
  BY SizeAssumption DEF Slots
<1> QED BY <1>1

LEMMA SlotInjective ==
  ASSUME NEW t \in Nat, NEW i \in Slots, NEW u \in Nat, NEW j \in Slots,
         t * Fan + i = u * Fan + j
  PROVE  t = u /\ i = j
<1>1. Fan \in Nat \ {0} /\ i \in Nat /\ i < Fan /\ j \in Nat /\ j < Fan
  BY SizeAssumption DEF Slots
<1>2. t = u
  BY SlotTable
<1>3. t * Fan \in Nat
  BY <1>1
<1> QED BY <1>1, <1>2, <1>3

(* Pages below 1 GB use word 0 of a root, and each has words of its own.    *)
LEMMA PageIndices ==
  ASSUME NEW page \in Pages
  PROVE  /\ Index1(page) = 0 /\ page \div Gigabyte = 0
         /\ Index2(page) = page \div Fan /\ Index2(page) \in Slots
         /\ Index3(page) \in Slots
         /\ page = Index2(page) * Fan + Index3(page)
<1>1. Fan \in Nat \ {0}
  BY SizeAssumption
<1>2. page \in Nat /\ page < Fan * Fan /\ Fan * Fan \in Nat \ {0}
  BY <1>1 DEF Pages, Gigabyte
<1>3. page \div Gigabyte = 0
  BY <1>2 DEF Gigabyte
<1>4. page \div Fan \in Nat /\ page \div Fan < Fan
  BY <1>1, <1>2
<1>5. page % Fan \in Nat /\ page % Fan < Fan /\ page = (page \div Fan) * Fan + (page % Fan)
  BY <1>1, <1>2
<1>6. (page \div Fan) % Fan = page \div Fan /\ 0 % Fan = 0
  BY <1>1, <1>4
<1>7. Index1(page) = 0
  BY <1>3, <1>6 DEF Index1
<1>8. Index2(page) = page \div Fan /\ Index2(page) \in Slots
  BY <1>1, <1>4, <1>6 DEF Index2, Slots
<1>9. Index3(page) = page % Fan /\ Index3(page) \in Slots
  BY <1>1, <1>5 DEF Index3, Slots
<1> QED BY <1>3, <1>5, <1>7, <1>8, <1>9

-----------------------------------------------------------------------------
(* The tree of tables. *)

LEMMA LinkBounds ==
  ASSUME NEW w, NEW b, TreeInv(w, b), NEW v \in Created
  PROVE  /\ b \in Nat /\ b < MaxTables
         /\ vttbr[v] \in Tables /\ vttbr[v] < b
         /\ Second(w, v) \in 0..b
         /\ \A i \in Slots : Third(w, v, i) \in 0..b /\ i + 2 \in Links
                               /\ Link(w, v, i + 2) = Third(w, v, i)
<1>1. b \in Nat /\ b < MaxTables /\ MaxTables \in Nat /\ Fan \in Nat
  BY SizeAssumption DEF TreeInv, Tables
<1>2. vttbr[v] \in Nat /\ 0 \in Links /\ 1 \in Links
  BY <1>1 DEF TreeInv, Links
<1>3. vttbr[v] + 1 \in 0..b
  BY <1>2 DEF TreeInv, Link
<1>4. Link(w, v, 1) \in 0..b
  BY <1>2 DEF TreeInv
<1>5. Second(w, v) \in 0..b
  BY <1>4 DEF Link
<1>6. ASSUME NEW i \in Slots
      PROVE  Third(w, v, i) \in 0..b /\ i + 2 \in Links /\ Link(w, v, i + 2) = Third(w, v, i)
  <2>1. i + 2 \in Links /\ i + 2 # 0 /\ i + 2 # 1 /\ (i + 2) - 2 = i
    BY <1>1 DEF Slots, Links
  <2>2. Link(w, v, i + 2) = Third(w, v, i)
    BY <2>1 DEF Link
  <2>3. Link(w, v, i + 2) \in 0..b
    BY <2>1 DEF TreeInv
  <2> QED BY <2>1, <2>2, <2>3
<1>7. vttbr[v] \in Tables /\ vttbr[v] < b
  BY <1>1, <1>2, <1>3 DEF Tables
<1> QED BY <1>1, <1>5, <1>6, <1>7

(* Two links to one table are the same link. *)
LEMMA LinkedOnce ==
  ASSUME NEW w, NEW b, TreeInv(w, b), NEW v \in Created, NEW x \in Created
  PROVE  /\ vttbr[v] = vttbr[x] => v = x
         /\ Second(w, v) = Second(w, x) /\ Second(w, v) # 0 => v = x
         /\ vttbr[v] + 1 # Second(w, x)
         /\ \A i \in Slots : vttbr[v] + 1 # Third(w, x, i)
         /\ \A i \in Slots : Second(w, v) # 0 => Second(w, v) # Third(w, x, i)
         /\ \A i, j \in Slots : Third(w, v, i) # 0 /\ Third(w, v, i) = Third(w, x, j) => v = x /\ i = j
<1>1. 0 \in Links /\ 1 \in Links /\ \A i \in Slots : i \in Nat
  BY SizeAssumption DEF Links, Slots
<1>2. \A y \in Created : /\ Link(w, y, 0) = vttbr[y] + 1 /\ vttbr[y] \in Nat
                         /\ Link(w, y, 1) = Second(w, y)
                         /\ \A i \in Slots : i + 2 \in Links /\ Link(w, y, i + 2) = Third(w, y, i)
  BY LinkBounds DEF Link, Tables
<1>3. \A k, l \in Links : Link(w, v, k) = Link(w, x, l) /\ Link(w, v, k) # 0 => v = x /\ k = l
  BY DEF TreeInv
<1>4. vttbr[v] + 1 # 0
  BY <1>2
<1>5. vttbr[v] = vttbr[x] => v = x
  BY <1>1, <1>2, <1>3, <1>4
<1>6. Second(w, v) = Second(w, x) /\ Second(w, v) # 0 => v = x
  BY <1>1, <1>2, <1>3
<1>7. vttbr[v] + 1 # Second(w, x)
  BY <1>1, <1>2, <1>3, <1>4
<1>8. ASSUME NEW i \in Slots PROVE vttbr[v] + 1 # Third(w, x, i)
  <2>1. i + 2 # 0
    BY <1>1
  <2> QED BY <1>1, <1>2, <1>3, <1>4, <2>1
<1>9. ASSUME NEW i \in Slots, Second(w, v) # 0 PROVE Second(w, v) # Third(w, x, i)
  <2>1. i + 2 # 1
    BY <1>1
  <2> QED BY <1>1, <1>2, <1>3, <1>9, <2>1
<1>10. ASSUME NEW i \in Slots, NEW j \in Slots, Third(w, v, i) # 0, Third(w, v, i) = Third(w, x, j)
       PROVE  v = x /\ i = j
  <2>1. v = x /\ i + 2 = j + 2
    BY <1>2, <1>3, <1>10
  <2> QED BY <1>1, <2>1
<1> QED BY <1>5, <1>6, <1>7, <1>8, <1>9, <1>10

(* A slot that v finds by following a link: word 0 of its root (k = 1), or *)
(* a word of its level-2 table (k > 1).                                     *)
SlotOf(w, v, k, t, i) ==
  \/ k = 1 /\ t = vttbr[v] /\ i = 0
  \/ k = i + 2 /\ Second(w, v) = t + 1

(* alloc_ttbl clears the table b, and the new table is put into a slot.    *)
Linked(w, b, t, i, w1) ==
  \A u \in Tables, j \in Slots :
    Entry(w1, u, j) = IF u = t /\ j = i THEN b + 1 ELSE IF u = b THEN 0 ELSE Entry(w, u, j)

LEMMA LinkedSecond ==
  ASSUME NEW w, NEW b, TreeInv(w, b), b + 1 \in Tables, NEW w1,
         NEW x \in Created, NEW k \in Links \ {0}, NEW t \in Tables, NEW i \in Slots, t < b,
         SlotOf(w, x, k, t, i), Linked(w, b, t, i, w1), NEW v \in Created
  PROVE  Second(w1, v) = IF v = x /\ k = 1 THEN b + 1 ELSE Second(w, v)
<1>1. 0 \in Slots /\ i + 2 # 1 /\ b \in Nat
  BY SizeAssumption, LinkBounds DEF Slots
<1>2. vttbr[v] \in Tables /\ vttbr[v] # b
  BY LinkBounds DEF Tables
<1>3. Second(w1, v) = IF vttbr[v] = t /\ i = 0 THEN b + 1 ELSE Second(w, v)
  BY <1>1, <1>2 DEF Linked, Second
<1>4. CASE k = 1
  BY <1>1, <1>3, <1>4, LinkedOnce DEF SlotOf
<1>5. CASE k # 1
  <2>1. Second(w, x) = t + 1
    BY <1>5 DEF SlotOf
  <2>2. vttbr[v] # t
    BY <2>1, LinkedOnce
  <2> QED BY <1>3, <1>5, <2>2
<1> QED BY <1>4, <1>5

LEMMA LinkedThird ==
  ASSUME NEW w, NEW b, TreeInv(w, b), b + 1 \in Tables, NEW w1,
         NEW x \in Created, NEW k \in Links \ {0}, NEW t \in Tables, NEW i \in Slots, t < b,
         SlotOf(w, x, k, t, i), Linked(w, b, t, i, w1), Link(w, x, k) = 0,
         NEW v \in Created, NEW j \in Slots
  PROVE  Third(w1, v, j) = IF v = x /\ k = j + 2 THEN b + 1 ELSE Third(w, v, j)
<1>1. i + 2 # 1 /\ j + 2 # 1 /\ b \in Nat /\ t \in Nat /\ i \in Nat /\ j \in Nat
  BY SizeAssumption, LinkBounds DEF Slots, Tables
<1>2. Second(w1, v) = IF v = x /\ k = 1 THEN b + 1 ELSE Second(w, v)
  BY LinkedSecond
<1>3. CASE v = x /\ k = 1
  <2>1. Second(w, v) = 0
    BY <1>3 DEF Link
  <2>2. Second(w1, v) = b + 1 /\ b + 1 # 0 /\ (b + 1) - 1 = b /\ b \in Tables /\ b # t
    BY <1>1, <1>2, <1>3 DEF TreeInv
  <2>3. Entry(w1, b, j) = 0
    BY <2>2 DEF Linked
  <2> QED BY <1>1, <1>3, <2>1, <2>2, <2>3 DEF Third
<1>4. CASE ~(v = x /\ k = 1)
  <2>1. Second(w1, v) = Second(w, v)
    BY <1>2, <1>4
  <2>2. CASE Second(w, v) = 0
    <3>1. ~(v = x /\ k = j + 2)
      BY <1>1, <2>2 DEF SlotOf
    <3> QED BY <2>1, <2>2, <3>1 DEF Third
  <2>3. CASE Second(w, v) # 0
    <3>1. Second(w, v) - 1 \in Tables /\ Second(w, v) - 1 # b
      <4>1. Second(w, v) \in 0..b /\ b < MaxTables /\ MaxTables \in Nat
        BY LinkBounds, SizeAssumption
      <4> QED BY <1>1, <2>3, <4>1 DEF Tables
    <3> DEFINE s == Second(w, v) - 1
    <3>2. Entry(w1, s, j) = IF s = t /\ j = i THEN b + 1 ELSE Entry(w, s, j)
      BY <3>1 DEF Linked
    <3>3. Third(w1, v, j) = Entry(w1, s, j) /\ Third(w, v, j) = Entry(w, s, j)
      BY <2>1, <2>3 DEF Third
    <3>4. (s = t /\ j = i) <=> (v = x /\ k = j + 2)
      <4>1. CASE k = 1
        <5>1. t = vttbr[x]
          BY <1>1, <4>1 DEF SlotOf
        <5>2. Second(w, v) # t + 1
          BY <5>1, LinkedOnce
        <5>3. s # t
          BY <1>1, <3>1, <5>2, LinkBounds
        <5> QED BY <1>1, <4>1, <5>3
      <4>2. CASE k # 1
        <5>1. k = i + 2 /\ Second(w, x) = t + 1
          BY <4>2 DEF SlotOf
        <5>2. s = t <=> v = x
          <6>1. s = t => Second(w, v) = Second(w, x)
            BY <1>1, <5>1, LinkBounds
          <6>2. v = x => s = t
            BY <1>1, <5>1
          <6> QED BY <2>3, <6>1, <6>2, LinkedOnce
        <5>3. k = j + 2 <=> j = i
          BY <1>1, <5>1
        <5> QED BY <5>2, <5>3
      <4> QED BY <4>1, <4>2
    <3> QED BY <3>2, <3>3, <3>4
  <2> QED BY <2>2, <2>3
<1> QED BY <1>3, <1>4

(* Linking a new table keeps the tree, and no page is mapped by it.         *)
LEMMA TreeLink ==
  ASSUME NEW w, NEW b, TreeInv(w, b), b + 1 \in Tables, NEW w1 \in Words,
         NEW x \in Created, NEW k \in Links \ {0}, NEW t \in Tables, NEW i \in Slots, t < b,
         SlotOf(w, x, k, t, i), Linked(w, b, t, i, w1), Link(w, x, k) = 0
  PROVE  /\ TreeInv(w1, b + 1)
         /\ Link(w1, x, k) = b + 1
         /\ \A v \in Created, l \in Links : ~(v = x /\ l = k) => Link(w1, v, l) = Link(w, v, l)
         /\ \A v \in Vms, page \in Pages : WalkIn(w1, v, page) = WalkIn(w, v, page)
<1>1. b \in Nat /\ b < MaxTables /\ MaxTables \in Nat /\ b + 1 # 0 /\ Fan \in Nat
  BY LinkBounds, SizeAssumption
<1>2. \A v \in Created, l \in Links : Link(w1, v, l) = IF v = x /\ l = k THEN b + 1 ELSE Link(w, v, l)
  <2> SUFFICES ASSUME NEW v \in Created, NEW l \in Links
               PROVE  Link(w1, v, l) = IF v = x /\ l = k THEN b + 1 ELSE Link(w, v, l)
    OBVIOUS
  <2>1. CASE l = 0
    BY <2>1 DEF Link
  <2>2. CASE l = 1
    BY <2>2, LinkedSecond DEF Link
  <2>3. CASE l # 0 /\ l # 1
    <3>1. l - 2 \in Slots /\ (l - 2) + 2 = l
      BY <1>1, <2>3 DEF Links, Slots
    <3>2. Third(w1, v, l - 2) = IF v = x /\ k = l THEN b + 1 ELSE Third(w, v, l - 2)
      BY <3>1, LinkedThird
    <3> QED BY <2>3, <3>2 DEF Link
  <2> QED BY <2>1, <2>2, <2>3
<1>3. TreeInv(w1, b + 1)
  <2>1. \A v \in Created, l \in Links : Link(w1, v, l) \in 0..(b + 1)
    BY <1>1, <1>2 DEF TreeInv
  <2>2. ASSUME NEW v \in Created, NEW y \in Created, NEW l \in Links, NEW m \in Links,
               Link(w1, v, l) = Link(w1, y, m), Link(w1, v, l) # 0
        PROVE  v = y /\ l = m
    <3>1. Link(w, v, l) \in 0..b /\ Link(w, y, m) \in 0..b
      BY DEF TreeInv
    <3>2. Link(w, v, l) # b + 1 /\ Link(w, y, m) # b + 1
      BY <1>1, <3>1
    <3>3. CASE v = x /\ l = k
      BY <1>2, <2>2, <3>2, <3>3
    <3>4. CASE ~(v = x /\ l = k)
      <4>1. ~(y = x /\ m = k)
        BY <1>2, <2>2, <3>2, <3>4
      <4>2. Link(w, v, l) = Link(w, y, m) /\ Link(w, v, l) # 0
        BY <1>2, <2>2, <3>4, <4>1
      <4> QED BY <4>2 DEF TreeInv
    <3> QED BY <3>3, <3>4
  <2> QED BY <2>1, <2>2 DEF TreeInv
<1>4. ASSUME NEW v \in Created, NEW page \in Pages
      PROVE  WalkIn(w1, v, page) = WalkIn(w, v, page)
  <2> DEFINE j == Index2(page)
             n == Index3(page)
  <2>0. j \in Slots /\ n \in Slots
    BY PageIndices
  <2> HIDE DEF j, n
  <2>1. Third(w1, v, j) = IF v = x /\ k = j + 2 THEN b + 1 ELSE Third(w, v, j)
    BY <2>0, LinkedThird
  <2>2. CASE v = x /\ k = j + 2
    <3>1. Third(w, v, j) = 0
      BY <2>0, <2>2, LinkBounds
    <3>2. Third(w1, v, j) = b + 1 /\ (b + 1) - 1 = b /\ b \in Tables /\ b # t
      BY <1>1, <2>1, <2>2 DEF TreeInv, Tables
    <3>3. Entry(w1, b, n) = 0
      BY <2>0, <3>2 DEF Linked
    <3> QED BY <1>1, <3>1, <3>2, <3>3 DEF WalkIn, j, n
  <2>3. CASE ~(v = x /\ k = j + 2) /\ Third(w, v, j) = 0
    BY <2>1, <2>3 DEF WalkIn, j
  <2>4. CASE ~(v = x /\ k = j + 2) /\ Third(w, v, j) # 0
    <3> DEFINE s == Third(w, v, j) - 1
    <3>1. Third(w, v, j) \in 0..b
      BY <2>0, LinkBounds
    <3>2. s \in Tables /\ s # b
      BY <1>1, <2>4, <3>1 DEF Tables
    <3>3. s # t
      <4>1. CASE k = 1
        <5>1. t = vttbr[x]
          BY <2>0, <4>1 DEF SlotOf, Slots
        <5>2. Third(w, v, j) # t + 1
          BY <2>0, <5>1, LinkedOnce
        <5> QED BY <1>1, <3>1, <5>2 DEF Tables
      <4>2. CASE k # 1
        <5>1. Second(w, x) = t + 1 /\ t + 1 # 0
          BY <4>2 DEF SlotOf, Tables
        <5>2. Third(w, v, j) # t + 1
          BY <2>0, <5>1, LinkedOnce
        <5> QED BY <1>1, <3>1, <5>2 DEF Tables
      <4> QED BY <4>1, <4>2
    <3>4. Entry(w1, s, n) = Entry(w, s, n)
      BY <2>0, <3>2, <3>3 DEF Linked
    <3> QED BY <2>1, <2>4, <3>4 DEF WalkIn, j, n
  <2> QED BY <2>2, <2>3, <2>4
<1>5. \A v \in Vms, page \in Pages : WalkIn(w1, v, page) = WalkIn(w, v, page)
  <2> SUFFICES ASSUME NEW v \in Vms, NEW page \in Pages, v \notin Created
               PROVE  WalkIn(w1, v, page) = WalkIn(w, v, page)
    BY <1>4
  <2> QED BY DEF WalkIn
<1> QED BY <1>2, <1>3, <1>5

(* The word of a page in the level-3 table that a link leads to: writing    *)
(* it changes no link and maps no other page.                               *)
LEMMA TreeWrite ==
  ASSUME NEW w, NEW b, TreeInv(w, b), NEW w1 \in Words, NEW x \in Created,
         NEW i \in Slots, NEW t \in Tables, Third(w, x, i) = t + 1, NEW n \in Slots, NEW value,
         \A u \in Tables, j \in Slots : Entry(w1, u, j) = IF u = t /\ j = n THEN value ELSE Entry(w, u, j)
  PROVE  /\ TreeInv(w1, b)
         /\ \A v \in Vms, page \in Pages :
              WalkIn(w1, v, page) = IF v = x /\ Index2(page) = i /\ Index3(page) = n
                                      THEN value ELSE WalkIn(w, v, page)
<1>1. b \in Nat /\ b < MaxTables /\ MaxTables \in Nat /\ Fan \in Nat \ {0} /\ t \in Nat /\ 0 \in Slots
  BY LinkBounds, SizeAssumption DEF Tables, Slots
<1>2. \A v \in Created : Second(w1, v) = Second(w, v)
  <2> TAKE v \in Created
  <2>1. vttbr[v] \in Tables
    BY LinkBounds
  <2>2. vttbr[v] # t
    BY LinkedOnce
  <2> QED BY <1>1, <2>1, <2>2 DEF Second
<1>3. \A v \in Created, j \in Slots : Third(w1, v, j) = Third(w, v, j)
  <2> TAKE v \in Created, j \in Slots
  <2>1. CASE Second(w, v) = 0
    BY <1>2, <2>1 DEF Third
  <2>2. CASE Second(w, v) # 0
    <3>1. Second(w, v) # t + 1
      BY <2>2, LinkedOnce
    <3>2. Second(w, v) \in 0..b
      BY LinkBounds
    <3>3. Second(w, v) - 1 \in Tables /\ Second(w, v) - 1 # t
      BY <1>1, <2>2, <3>1, <3>2 DEF Tables
    <3> QED BY <1>2, <2>2, <3>3 DEF Third
  <2> QED BY <2>1, <2>2
<1>4. \A v \in Created, l \in Links : Link(w1, v, l) = Link(w, v, l)
  <2> TAKE v \in Created, l \in Links
  <2>1. l # 0 /\ l # 1 => l - 2 \in Slots
    BY <1>1 DEF Links, Slots
  <2> QED BY <1>2, <1>3, <2>1 DEF Link
<1>5. TreeInv(w1, b)
  BY <1>4 DEF TreeInv
<1>6. ASSUME NEW v \in Vms, NEW page \in Pages
      PROVE  WalkIn(w1, v, page) = IF v = x /\ Index2(page) = i /\ Index3(page) = n
                                     THEN value ELSE WalkIn(w, v, page)
  <2> DEFINE j == Index2(page)
             m == Index3(page)
  <2>0. j \in Slots /\ m \in Slots
    BY PageIndices
  <2> HIDE DEF j, m
  <2>1. CASE v \notin Created
    BY <2>1 DEF WalkIn
  <2>2. CASE v \in Created /\ Third(w, v, j) = 0
    <3>1. ~(v = x /\ j = i)
      BY <1>1, <2>2
    <3> QED BY <1>3, <2>0, <2>2, <3>1 DEF WalkIn, j, m
  <2>3. CASE v \in Created /\ Third(w, v, j) # 0
    <3> DEFINE s == Third(w, v, j) - 1
    <3>1. Third(w, v, j) \in 0..b
      BY <2>0, <2>3, LinkBounds
    <3>2. s \in Tables
      BY <1>1, <2>3, <3>1 DEF Tables
    <3>3. s = t <=> v = x /\ j = i
      <4>1. Third(w, v, j) = Third(w, x, i) <=> v = x /\ j = i
        BY <2>0, <2>3, LinkedOnce
      <4> QED BY <1>1, <3>1, <4>1
    <3>4. Entry(w1, s, m) = IF s = t /\ m = n THEN value ELSE Entry(w, s, m)
      BY <2>0, <3>2
    <3>5. WalkIn(w1, v, page) = Entry(w1, s, m) /\ WalkIn(w, v, page) = Entry(w, s, m)
      BY <1>3, <2>0, <2>3 DEF WalkIn, j, m
    <3> QED BY <3>3, <3>4, <3>5 DEF j, m
  <2> QED BY <2>1, <2>2, <2>3
<1> QED BY <1>5, <1>6

(***************************************************************************)
(* The levels of map_ttbl, as functions of what they find and leave.       *)
(***************************************************************************)
Stage == [word : Words, bottom : Tables, table : Tables, failed : BOOLEAN]

LEMMA AllocEffect ==
  ASSUME NEW s \in Stage, TableLeft(s)
  PROVE  /\ alloc_ttbl(s) \in Stage
         /\ alloc_ttbl(s).table = s.bottom /\ alloc_ttbl(s).bottom = s.bottom + 1
         /\ alloc_ttbl(s).failed = s.failed
         /\ \A u \in Tables, j \in Slots :
              Entry(alloc_ttbl(s).word, u, j) = IF u = s.bottom THEN 0 ELSE Entry(s.word, u, j)
<1>1. s.bottom \in Nat /\ s.bottom + 1 \in Tables /\ s.bottom \in Tables
  BY SizeAssumption DEF Stage, Tables, TableLeft
<1> DEFINE cleared == [n \in DOMAIN s.word |-> IF n \div Fan = s.bottom THEN 0 ELSE s.word[n]]
<1>2. DOMAIN s.word = 0..(MaxTables * Fan - 1) /\ s.word \in Words
  BY DEF Stage, Words
<1>3. cleared \in Words
  BY <1>2 DEF Words
<1>4. ASSUME NEW u \in Tables, NEW j \in Slots
      PROVE  Entry(cleared, u, j) = IF u = s.bottom THEN 0 ELSE Entry(s.word, u, j)
  <2>1. u * Fan + j \in 0..(MaxTables * Fan - 1)
    BY SlotBounds
  <2>2. (u * Fan + j) \div Fan = u
    BY SlotTable, SizeAssumption DEF Tables
  <2> QED BY <1>2, <2>1, <2>2 DEF Entry
<1>5. alloc_ttbl(s) = [s EXCEPT !.table = s.bottom, !.bottom = s.bottom + 1, !.word = cleared]
  BY DEF alloc_ttbl
<1> HIDE DEF cleared
<1>6. alloc_ttbl(s) = [word |-> cleared, bottom |-> s.bottom + 1, table |-> s.bottom, failed |-> s.failed]
  BY <1>5 DEF Stage
<1> QED BY <1>1, <1>3, <1>4, <1>6 DEF Stage

LEMMA DescendEffect ==
  ASSUME NEW s \in Stage, NEW i \in Slots, ~s.failed
  PROVE  LET d == Descend(s, i, i) IN
         /\ Entry(s.word, s.table, i) # 0 =>
              d = [s EXCEPT !.table = Entry(s.word, s.table, i) - 1]
         /\ Entry(s.word, s.table, i) = 0 /\ ~TableLeft(s) => d = [s EXCEPT !.failed = TRUE]
         /\ Entry(s.word, s.table, i) = 0 /\ TableLeft(s) =>
              /\ d \in Stage /\ ~d.failed
              /\ d.table = s.bottom /\ d.bottom = s.bottom + 1
              /\ Linked(s.word, s.bottom, s.table, i, d.word)
<1>1. CASE Entry(s.word, s.table, i) # 0 \/ ~TableLeft(s)
  BY <1>1 DEF Descend, Entry
<1>2. CASE Entry(s.word, s.table, i) = 0 /\ TableLeft(s)
  <2> DEFINE new == alloc_ttbl(s)
             slot == s.table * Fan + i
             d == Descend(s, i, i)
             w1 == [new.word EXCEPT ![slot] = new.table + 1]
  <2>1. d = [new EXCEPT !.word[slot] = new.table + 1]
    BY <1>2 DEF Descend, Entry
  <2>2. new \in Stage /\ new.table = s.bottom /\ new.bottom = s.bottom + 1 /\ ~new.failed
    BY <1>2, AllocEffect
  <2>3. s.table \in Tables /\ s.table \in Nat /\ s.bottom \in Nat
    BY SizeAssumption DEF Stage, Tables
  <2>4. slot \in 0..(MaxTables * Fan - 1)
    BY <2>3, SlotBounds
  <2>5. w1 \in Words
    BY <2>2, <2>3, <2>4 DEF Words, Stage
  <2>6. ASSUME NEW u \in Tables, NEW j \in Slots
        PROVE  Entry(w1, u, j) = IF u = s.table /\ j = i THEN s.bottom + 1
                                 ELSE IF u = s.bottom THEN 0 ELSE Entry(s.word, u, j)
    <3>1. u * Fan + j \in 0..(MaxTables * Fan - 1) /\ u \in Nat
      <4>1. u \in Nat
        BY SizeAssumption DEF Tables
      <4> QED BY <4>1, SlotBounds
    <3>2. u * Fan + j = slot <=> u = s.table /\ j = i
      BY <2>3, <3>1, SlotInjective
    <3>3. Entry(w1, u, j) = IF u * Fan + j = slot THEN new.table + 1 ELSE Entry(new.word, u, j)
      BY <2>2, <3>1 DEF Entry, Stage, Words
    <3>4. Entry(new.word, u, j) = IF u = s.bottom THEN 0 ELSE Entry(s.word, u, j)
      BY <1>2, AllocEffect
    <3> QED BY <2>2, <3>2, <3>3, <3>4
  <2> HIDE DEF new, slot, w1
  <2>7. d = [word |-> w1, bottom |-> s.bottom + 1, table |-> s.bottom, failed |-> FALSE]
    BY <2>1, <2>2 DEF Stage, w1
  <2>8. s.bottom + 1 \in Tables /\ s.bottom \in Tables
    BY <2>2 DEF Stage
  <2>9. d \in Stage /\ ~d.failed /\ d.table = s.bottom /\ d.bottom = s.bottom + 1 /\ d.word = w1
    BY <2>5, <2>7, <2>8 DEF Stage
  <2>10. Linked(s.word, s.bottom, s.table, i, d.word)
    BY <2>6, <2>9 DEF Linked
  <2> QED BY <1>2, <2>9, <2>10
<1> QED BY <1>1, <1>2

LEMMA SlotLink ==
  ASSUME NEW w, NEW x \in Created, NEW k \in Links \ {0}, NEW t \in Tables, NEW i \in Slots,
         SlotOf(w, x, k, t, i)
  PROVE  Link(w, x, k) = Entry(w, t, i)
<1>1. t \in Nat /\ i \in Nat /\ i + 2 # 1 /\ i + 2 # 0 /\ (i + 2) - 2 = i /\ (t + 1) - 1 = t /\ t + 1 # 0
  BY SizeAssumption DEF Tables, Slots
<1>2. CASE k = 1 /\ t = vttbr[x] /\ i = 0
  BY <1>2 DEF Link, Second
<1>3. CASE k = i + 2 /\ Second(w, x) = t + 1
  <2>1. Third(w, x, i) = Entry(w, t, i)
    BY <1>1, <1>3 DEF Third
  <2>2. Link(w, x, k) = Third(w, x, i)
    BY <1>1, <1>3 DEF Link
  <2> QED BY <2>1, <2>2
<1> QED BY <1>2, <1>3 DEF SlotOf

(* One level of map_ttbl leads to the table that the slot now links.        *)
LEMMA TreeDescend ==
  ASSUME NEW s \in Stage, ~s.failed, TreeInv(s.word, s.bottom), s.table < s.bottom,
         NEW x \in Created, NEW k \in Links \ {0}, NEW i \in Slots,
         SlotOf(s.word, x, k, s.table, i)
  PROVE  LET d == Descend(s, i, i) IN
         /\ d \in Stage /\ TreeInv(d.word, d.bottom)
         /\ \A v \in Vms, page \in Pages : WalkIn(d.word, v, page) = WalkIn(s.word, v, page)
         /\ ~d.failed => d.table < d.bottom /\ Link(d.word, x, k) = d.table + 1
<1> DEFINE d == Descend(s, i, i)
<1>1. s.word \in Words /\ s.bottom \in Nat /\ s.table \in Tables /\ s.bottom < MaxTables
      /\ MaxTables \in Nat /\ s.bottom \in Tables
  BY SizeAssumption DEF Stage, Tables
<1>2. Link(s.word, x, k) = Entry(s.word, s.table, i)
  BY <1>1, SlotLink
<1>3. Link(s.word, x, k) \in 0..s.bottom
  BY DEF TreeInv
<1>4. CASE Entry(s.word, s.table, i) # 0
  <2>1. d = [s EXCEPT !.table = Entry(s.word, s.table, i) - 1]
    BY <1>4, DescendEffect
  <2>2. Entry(s.word, s.table, i) - 1 \in Tables /\ Entry(s.word, s.table, i) - 1 < s.bottom
    BY <1>1, <1>2, <1>3, <1>4 DEF Tables
  <2>3. d \in Stage /\ d.word = s.word /\ d.bottom = s.bottom
        /\ d.table = Entry(s.word, s.table, i) - 1
    BY <2>1, <2>2 DEF Stage
  <2>4. d.table < d.bottom /\ Link(d.word, x, k) = d.table + 1
    BY <1>1, <1>2, <1>3, <2>2, <2>3
  <2> QED BY <2>3, <2>4
<1>5. CASE Entry(s.word, s.table, i) = 0 /\ ~TableLeft(s)
  <2>1. d = [s EXCEPT !.failed = TRUE]
    BY <1>5, DescendEffect
  <2>2. d \in Stage /\ d.word = s.word /\ d.bottom = s.bottom /\ d.failed
    BY <2>1 DEF Stage
  <2> QED BY <2>2
<1>6. CASE Entry(s.word, s.table, i) = 0 /\ TableLeft(s)
  <2>1. /\ d \in Stage /\ ~d.failed
        /\ d.table = s.bottom /\ d.bottom = s.bottom + 1
        /\ Linked(s.word, s.bottom, s.table, i, d.word)
    BY <1>6, DescendEffect
  <2>2. s.bottom + 1 \in Tables /\ d.word \in Words
    BY <1>1, <1>6, <2>1 DEF Stage, TableLeft, Tables
  <2>3. Link(s.word, x, k) = 0
    BY <1>2, <1>6
  <2>4. /\ TreeInv(d.word, s.bottom + 1)
        /\ Link(d.word, x, k) = s.bottom + 1
        /\ \A v \in Vms, page \in Pages : WalkIn(d.word, v, page) = WalkIn(s.word, v, page)
    BY <1>1, <2>1, <2>2, <2>3, TreeLink
  <2>5. d.table < d.bottom
    BY <1>1, <2>1
  <2> QED BY <2>1, <2>4, <2>5
<1> QED BY <1>4, <1>5, <1>6

(* map_ttbl maps the page it is given, or runs out of tables.               *)
LEMMA MapEffect ==
  ASSUME TreeInv(word, bottom), vm \in Created, NEW page \in Pages, NEW frame \in Nat,
         map_ttbl(page, frame), vttbr' = vttbr
  PROVE  /\ TreeInv(word', bottom')
         /\ \/ /\ pc' = "panic"
               /\ \A v \in Vms, p \in Pages : WalkIn(word', v, p) = WalkIn(word, v, p)
            \/ /\ pc' = pc
               /\ \A v \in Vms, p \in Pages :
                    WalkIn(word', v, p) = IF v = vm /\ p = page THEN frame + 1 ELSE WalkIn(word, v, p)
<1> DEFINE root == [word |-> word, bottom |-> bottom, table |-> vttbr[vm], failed |-> FALSE]
           j == Index2(page)
           first == Descend(root, 0, 0)
           leaf == Descend(first, j, j)
           slot == leaf.table * Fan + Index3(page)
           w1 == [leaf.word EXCEPT ![slot] = frame + 1]
<1>1. /\ vttbr[vm] \in Tables /\ vttbr[vm] < bottom /\ word \in Words /\ bottom \in Tables
  BY LinkBounds DEF TreeInv
<1>2. Index1(page) = 0 /\ page \div Gigabyte = 0 /\ j = page \div Fan /\ j \in Slots
      /\ Index3(page) \in Slots
  BY PageIndices
<1>3. Leaf(page) = leaf
  BY <1>2 DEF Leaf
<1>4. root \in Stage /\ ~root.failed /\ root.word = word /\ root.bottom = bottom
      /\ root.table = vttbr[vm]
  BY <1>1 DEF Stage
<1>5. 0 \in Slots /\ 1 \in Links \ {0} /\ j + 2 \in Links \ {0} /\ j + 2 # 1
  BY <1>2, SizeAssumption DEF Slots, Links
<1>6. SlotOf(root.word, vm, 1, root.table, 0)
  BY <1>4 DEF SlotOf
<1> HIDE DEF root, j, leaf
<1>7. /\ first \in Stage /\ TreeInv(first.word, first.bottom)
      /\ \A v \in Vms, p \in Pages : WalkIn(first.word, v, p) = WalkIn(word, v, p)
      /\ ~first.failed => first.table < first.bottom /\ Link(first.word, vm, 1) = first.table + 1
  BY <1>1, <1>4, <1>5, <1>6, TreeDescend
<1> HIDE DEF first
<1>8. bottom' = leaf.bottom
      /\ IF leaf.failed THEN word' = leaf.word /\ pc' = "panic"
                        ELSE word' = w1 /\ pc' = pc
  BY <1>3 DEF map_ttbl
<1>9. CASE first.failed
  <2>1. leaf = first
    BY <1>9 DEF Descend, leaf
  <2> QED BY <1>7, <1>8, <1>9, <2>1
<1>10. CASE ~first.failed
  <2>1. SlotOf(first.word, vm, j + 2, first.table, j)
    BY <1>7, <1>10 DEF SlotOf, Link
  <2>2. /\ leaf \in Stage /\ TreeInv(leaf.word, leaf.bottom)
        /\ \A v \in Vms, p \in Pages : WalkIn(leaf.word, v, p) = WalkIn(first.word, v, p)
        /\ ~leaf.failed => leaf.table < leaf.bottom /\ Link(leaf.word, vm, j + 2) = leaf.table + 1
    BY <1>2, <1>5, <1>7, <1>10, <2>1, TreeDescend DEF leaf
  <2>3. CASE leaf.failed
    BY <1>7, <1>8, <2>2, <2>3
  <2>4. CASE ~leaf.failed
    <3>1. leaf.table \in Tables /\ leaf.word \in Words /\ leaf.bottom \in Tables
      BY <2>2 DEF Stage
    <3>2. Third(leaf.word, vm, j) = leaf.table + 1
      BY <1>2, <2>2, <2>4, LinkBounds
    <3>3. slot \in 0..(MaxTables * Fan - 1)
      BY <1>2, <3>1, SlotBounds
    <3>4. w1 \in Words
      BY <3>1, <3>3 DEF Words
    <3>5. ASSUME NEW u \in Tables, NEW n \in Slots
          PROVE  Entry(w1, u, n) = IF u = leaf.table /\ n = Index3(page) THEN frame + 1
                                                                         ELSE Entry(leaf.word, u, n)
      <4>1. u * Fan + n \in 0..(MaxTables * Fan - 1)
        BY SlotBounds
      <4>2. u \in Nat /\ leaf.table \in Nat
        BY <3>1, SizeAssumption DEF Tables
      <4>3. u * Fan + n = slot <=> u = leaf.table /\ n = Index3(page)
        BY <1>2, <4>2, SlotInjective
      <4> QED BY <3>1, <4>1, <4>3 DEF Entry, Words
    <3> HIDE DEF w1, slot
    <3>6. /\ TreeInv(w1, leaf.bottom)
          /\ \A v \in Vms, p \in Pages :
               WalkIn(w1, v, p) = IF v = vm /\ Index2(p) = j /\ Index3(p) = Index3(page)
                                    THEN frame + 1 ELSE WalkIn(leaf.word, v, p)
      <4> DEFINE m == Index3(page)
                 value == frame + 1
                 w == leaf.word
                 b == leaf.bottom
                 t == leaf.table
      <4>1. /\ TreeInv(w, b) /\ w1 \in Words /\ j \in Slots /\ t \in Tables /\ m \in Slots
            /\ Third(w, vm, j) = t + 1
            /\ \A u \in Tables, n \in Slots :
                 Entry(w1, u, n) = IF u = t /\ n = m THEN value ELSE Entry(w, u, n)
        BY <1>2, <2>2, <3>1, <3>2, <3>4, <3>5
      <4> HIDE DEF m, value, w, b, t
      <4>2. /\ TreeInv(w1, b)
            /\ \A v \in Vms, p \in Pages :
                 WalkIn(w1, v, p) = IF v = vm /\ Index2(p) = j /\ Index3(p) = m
                                      THEN value ELSE WalkIn(w, v, p)
        BY <4>1, TreeWrite
      <4> QED BY <4>2 DEF m, value, w, b, t
    <3>7. \A p \in Pages : Index2(p) = j /\ Index3(p) = Index3(page) <=> p = page
      BY PageIndices DEF j
    <3>8. \A v \in Vms, p \in Pages :
             WalkIn(w1, v, p) = IF v = vm /\ p = page THEN frame + 1 ELSE WalkIn(word, v, p)
      BY <1>7, <2>2, <3>6, <3>7
    <3> QED BY <1>8, <2>4, <3>6, <3>8
  <2> QED BY <2>3, <2>4
<1> QED BY <1>9, <1>10

(* What the MMU does is to follow the links.                                *)
LEMMA WalkFollowsLinks ==
  ASSUME TreeInv(word, bottom), NEW v \in Vms, NEW page \in Pages
  PROVE  Walk(v, page) = WalkIn(word, v, page)
<1>1. CASE vttbr[v] = None
  BY <1>1 DEF Walk, WalkIn, Created
<1>2. CASE vttbr[v] # None
  <2>1. v \in Created /\ vttbr[v] \in Nat /\ (vttbr[v] + 1) - 1 = vttbr[v] /\ vttbr[v] + 1 # 0
    BY <1>2, LinkBounds, SizeAssumption DEF Created, Tables
  <2>2. Index1(page) = 0
    BY PageIndices
  <2> QED BY <1>2, <2>1, <2>2 DEF Walk, WalkIn, Third, Second, Entry
<1> QED BY <1>1, <1>2

LEMMA WalkFollowsLinksNext ==
  ASSUME TreeInv(word, bottom)', NEW v \in Vms, NEW page \in Pages
  PROVE  Walk(v, page)' = WalkIn(word, v, page)'
<1>1. CASE vttbr'[v] = None
  BY <1>1 DEF Walk, WalkIn, Created
<1>2. CASE vttbr'[v] # None
  <2>1. v \in Created' /\ vttbr'[v] \in Nat /\ (vttbr'[v] + 1) - 1 = vttbr'[v] /\ vttbr'[v] + 1 # 0
    BY <1>2 DEF TreeInv, Created
  <2>2. Index1(page) = 0
    BY PageIndices
  <2> QED BY <1>2, <2>1, <2>2 DEF Walk, WalkIn, Third, Second, Entry
<1> QED BY <1>1, <1>2

(* vm_create gives the VM a root of its own, which maps nothing.            *)
LEMMA CreateEffect ==
  ASSUME ControlInv, TreeInv(word, bottom), pc = "create", Create, pc' # "panic"
  PROVE  /\ vm \in Vms /\ vttbr' \in [Vms -> Tables \cup {None}] /\ vttbr' = [vttbr EXCEPT ![vm] = bottom]
         /\ Created' = Created \cup {vm}
         /\ TreeInv(word, bottom)'
         /\ \A v \in Vms, page \in Pages :
              WalkIn(word, v, page)' = IF v = vm THEN 0 ELSE WalkIn(word, v, page)
<1> DEFINE s == [word |-> word, bottom |-> bottom, table |-> 0, failed |-> FALSE]
<1>1. vm \in Vms /\ TableLeft(s) /\ word' = alloc_ttbl(s).word /\ bottom' = alloc_ttbl(s).bottom
      /\ vttbr' = [vttbr EXCEPT ![vm] = alloc_ttbl(s).table]
  BY DEF Create, Panic
<1>2. bottom \in Nat /\ bottom \in Tables /\ MaxTables \in Nat /\ bottom < MaxTables
      /\ 0 \in Tables /\ word \in Words /\ 0 \in Slots /\ Fan \in Nat
  BY SizeAssumption DEF TreeInv, Tables, Slots
<1>3. s \in Stage /\ s.bottom = bottom /\ s.word = word
  BY <1>2 DEF Stage
<1> HIDE DEF s
<1>4. /\ bottom' = bottom + 1 /\ word' \in Words /\ bottom' \in Tables
      /\ vttbr' = [vttbr EXCEPT ![vm] = bottom]
      /\ \A u \in Tables, j \in Slots : Entry(word', u, j) = IF u = bottom THEN 0 ELSE Entry(word, u, j)
  BY <1>1, <1>3, AllocEffect DEF Stage
<1>5. vttbr[vm] = None /\ vttbr \in [Vms -> Tables \cup {None}] /\ None # bottom
  BY <1>1, <1>2, SizeAssumption DEF ControlInv
<1>x. PICK x \in Vms : x = vm
  BY <1>1
<1>6. Created' = Created \cup {vm} /\ vm \notin Created /\ vttbr'[vm] = bottom
      /\ \A v \in Created : v \in Vms /\ vttbr'[v] = vttbr[v]
  BY <1>1, <1>4, <1>5 DEF Created
<1>7. ASSUME NEW v \in Created
      PROVE  /\ (Second(word, v))' = Second(word, v)
             /\ \A i \in Slots : (Third(word, v, i))' = Third(word, v, i)
  <2>1. vttbr[v] \in Tables /\ vttbr[v] # bottom /\ Second(word, v) \in 0..bottom
    BY <1>2, LinkBounds DEF Tables
  <2>2. (Second(word, v))' = Second(word, v)
    BY <1>2, <1>4, <1>6, <2>1 DEF Second
  <2>3. Second(word, v) # 0 => Second(word, v) - 1 \in Tables /\ Second(word, v) - 1 # bottom
    BY <1>2, <2>1 DEF Tables
  <2> QED BY <1>4, <2>2, <2>3 DEF Third
<1>8. (Second(word, x))' = 0 /\ \A i \in Slots : (Third(word, x, i))' = 0
  BY <1>2, <1>4, <1>6, <1>x DEF Second, Third
<1>9. \A v \in Created, l \in Links : (Link(word, v, l))' = Link(word, v, l)
  <2> TAKE v \in Created, l \in Links
  <2>1. l # 0 /\ l # 1 => l - 2 \in Slots
    BY <1>2 DEF Links, Slots
  <2> QED BY <1>6, <1>7, <2>1 DEF Link
<1>10. \A l \in Links : (Link(word, x, l))' = IF l = 0 THEN bottom + 1 ELSE 0
  <2> TAKE l \in Links
  <2>1. l # 0 /\ l # 1 => l - 2 \in Slots
    BY <1>2 DEF Links, Slots
  <2> QED BY <1>6, <1>8, <1>x, <2>1 DEF Link
<1>11. \A v \in Created, l \in Links : Link(word, v, l) \in 0..bottom /\ Link(word, v, l) # bottom + 1
  BY <1>2 DEF TreeInv
<1>12. TreeInv(word, bottom)'
  <2>1. \A v \in Created' : vttbr'[v] \in Nat
    BY <1>2, <1>6 DEF TreeInv
  <2>2. \A v \in Created', l \in Links : (Link(word, v, l))' \in 0..bottom'
    BY <1>2, <1>4, <1>6, <1>x, <1>9, <1>10, <1>11
  <2>3. ASSUME NEW v \in Created', NEW y \in Created', NEW k \in Links, NEW l \in Links,
               (Link(word, v, k))' = (Link(word, y, l))', (Link(word, v, k))' # 0
        PROVE  v = y /\ k = l
    <3>1. CASE v \in Created /\ y \in Created
      BY <1>9, <2>3, <3>1 DEF TreeInv
    <3>2. CASE v = x /\ y = x
      BY <1>10, <2>3, <3>2
    <3>3. CASE v = x /\ y \in Created
      BY <1>9, <1>10, <1>11, <2>3, <3>3
    <3>4. CASE v \in Created /\ y = x
      BY <1>9, <1>10, <1>11, <2>3, <3>4
    <3> QED BY <1>6, <1>x, <3>1, <3>2, <3>3, <3>4
  <2> QED BY <1>4, <2>1, <2>2, <2>3 DEF TreeInv
<1>13. ASSUME NEW v \in Vms, NEW page \in Pages
       PROVE  WalkIn(word, v, page)' = IF v = vm THEN 0 ELSE WalkIn(word, v, page)
  <2>1. Index2(page) \in Slots /\ Index3(page) \in Slots
    BY PageIndices
  <2>2. CASE v = vm
    BY <1>8, <1>x, <2>1, <2>2 DEF WalkIn
  <2>3. CASE v # vm /\ v \notin Created
    BY <1>6, <2>3 DEF WalkIn
  <2>4. CASE v # vm /\ v \in Created
    <3>1. (Third(word, v, Index2(page)))' = Third(word, v, Index2(page))
      BY <1>7, <2>1, <2>4
    <3>2. Third(word, v, Index2(page)) \in 0..bottom
      BY <2>1, <2>4, LinkBounds
    <3>3. Third(word, v, Index2(page)) # 0 =>
            Third(word, v, Index2(page)) - 1 \in Tables /\ Third(word, v, Index2(page)) - 1 # bottom
      BY <1>2, <3>2 DEF Tables
    <3> QED BY <1>4, <1>6, <2>1, <2>4, <3>1, <3>3 DEF WalkIn
  <2> QED BY <2>2, <2>3, <2>4
<1> QED BY <1>1, <1>2, <1>4, <1>5, <1>6, <1>12, <1>13

-----------------------------------------------------------------------------
(* What a step does to the translation of the guests. *)

LEMMA MappedPage ==
  ASSUME IInv, pc = "map", MoreToMap
  PROVE  at.page \in Pages /\ at.frame \in Nat /\ vm \in Created
<1>1. at.page \in Nat /\ at.frame \in Nat /\ at.end \in Nat /\ at.page < at.end
  BY DEF IInv, ControlInv, MoreToMap
<1>2. vm \in Created /\ vm \in Vms
  BY DEF IInv, ControlInv, Created
<1>3. CASE todo # <<>>
  <2>1. PICK b \in blocks[vm] : Current(b)
    BY <1>3 DEF IInv, MapInv
  <2>2. b.start \in Nat /\ b.pages \in Nat /\ PagesOf(b) \subseteq Pages
    BY <1>2, SizeAssumption DEF IInv, BlockInv, Block, Pages, Gigabyte
  <2>3. at.page \in PagesOf(b)
    BY <1>1, <2>1, <2>2 DEF Current, PagesOf
  <2> QED BY <1>1, <1>2, <2>2, <2>3
<1>4. CASE todo = <<>>
  <2>1. PICK i \in granted[vm] : CurrentDevice(i)
    BY <1>4 DEF IInv, MapInv
  <2>2. i \in DOMAIN ExclDevices /\ ExclDevices[i] \in Regions
    BY <1>2, RegionAssumption DEF IInv, ControlInv
  <2>3. ExclDevices[i].start \in Nat /\ ExclDevices[i].pages \in Nat
    BY <2>2, SizeAssumption DEF Regions, Pages, Gigabyte
  <2>4. at.page \in PagesOf(ExclDevices[i])
    BY <1>1, <2>1, <2>3 DEF CurrentDevice, PagesOf
  <2> QED BY <1>1, <1>2, <2>2, <2>4, RegionAssumption DEF DevicePages
<1> QED BY <1>3, <1>4

LEMMA WalkStep ==
  ASSUME IInv, [Next]_vars
  PROVE  /\ TreeInv(word, bottom)'
         /\ \/ /\ MapPage /\ pc' = "map"
               /\ \A v \in Vms, p \in Pages :
                    Walk(v, p)' = IF v = vm /\ p = at.page THEN at.frame + 1 ELSE Walk(v, p)
            \/ /\ MapPage => pc' = "panic"
               /\ \A v \in Vms, p \in Pages : Walk(v, p)' = Walk(v, p)
<1>1. TreeInv(word, bottom)
  BY DEF IInv
<1>2. CASE word' = word /\ bottom' = bottom /\ vttbr' = vttbr /\ ~MapPage
  BY <1>1, <1>2 DEF TreeInv, Walk, Created, Link, Second, Third, Entry
<1>3. CASE MapPage
  <2>1. map_ttbl(at.page, at.frame) /\ vttbr' = vttbr /\ pc = "map" /\ MoreToMap
    BY <1>3 DEF MapPage
  <2>2. at.page \in Pages /\ at.frame \in Nat /\ vm \in Created
    BY <2>1, MappedPage
  <2>3. /\ TreeInv(word', bottom')
        /\ \/ /\ pc' = "panic"
              /\ \A v \in Vms, p \in Pages : WalkIn(word', v, p) = WalkIn(word, v, p)
           \/ /\ pc' = pc
              /\ \A v \in Vms, p \in Pages :
                   WalkIn(word', v, p) = IF v = vm /\ p = at.page THEN at.frame + 1
                                                                  ELSE WalkIn(word, v, p)
    BY <1>1, <2>1, <2>2, MapEffect
  <2>4. TreeInv(word, bottom)'
    BY <2>1, <2>3 DEF TreeInv, Created, Link, Second, Third
  <2>5. \A v \in Vms, p \in Pages : WalkIn(word', v, p) = Walk(v, p)'
    <3> TAKE v \in Vms, p \in Pages
    <3>1. WalkIn(word', v, p) = WalkIn(word, v, p)'
      BY <2>1 DEF WalkIn, Created, Third, Second
    <3> QED BY <2>4, <3>1, WalkFollowsLinksNext
  <2>6. \A v \in Vms, p \in Pages : WalkIn(word, v, p) = Walk(v, p)
    BY <1>1, WalkFollowsLinks
  <2> QED BY <1>3, <2>1, <2>3, <2>4, <2>5, <2>6
<1>4. CASE Create /\ pc' # "panic"
  <2>1. ControlInv /\ pc = "create" /\ vttbr[vm] = None
    BY <1>4, CreateEffect DEF IInv, ControlInv, Create
  <2>2. /\ vm \in Vms /\ TreeInv(word, bottom)'
        /\ \A v \in Vms, p \in Pages : WalkIn(word, v, p)' = IF v = vm THEN 0 ELSE WalkIn(word, v, p)
    BY <1>1, <1>4, <2>1, CreateEffect
  <2>3. \A p \in Pages : WalkIn(word, vm, p) = 0
    BY <2>1 DEF WalkIn, Created
  <2>4. \A v \in Vms, p \in Pages : Walk(v, p)' = Walk(v, p)
    BY <1>1, <2>2, <2>3, WalkFollowsLinks, WalkFollowsLinksNext
  <2>5. ~MapPage
    BY <2>1 DEF MapPage
  <2> QED BY <2>2, <2>4, <2>5
<1>5. CASE Create /\ pc' = "panic"
  BY <1>2, <1>5 DEF Create, Panic, MapPage
<1>6. CASE Malloc \/ RegionDone \/ AssignDevice \/ Finish \/ UNCHANGED vars
  <2>1. word' = word /\ bottom' = bottom /\ vttbr' = vttbr
    BY <1>6 DEF Malloc, Panic, RegionDone, AssignDevice, Finish, vars
  <2> QED BY <1>2, <1>3, <2>1
<1> QED BY <1>3, <1>4, <1>5, <1>6 DEF Next

-----------------------------------------------------------------------------
(* The inductive invariant. *)

LEMMA DeviceBounds ==
  ASSUME NEW i \in DOMAIN ExclDevices
  PROVE  /\ ExclDevices[i].start \in Nat /\ ExclDevices[i].pages \in Nat
         /\ PagesOf(ExclDevices[i]) \subseteq DevicePages
<1>1. ExclDevices[i] \in Regions
  BY RegionAssumption
<1>2. ExclDevices[i].start \in Pages /\ ExclDevices[i].pages \in Nat
  BY <1>1 DEF Regions
<1>3. ExclDevices[i].start \in Nat
  BY <1>2, SizeAssumption DEF Pages, Gigabyte
<1> QED BY <1>2, <1>3 DEF DevicePages

LEMMA TodoHead ==
  ASSUME ControlInv, todo # <<>>
  PROVE  /\ Head(todo) = todo[1] /\ 1 \in DOMAIN todo /\ DOMAIN todo = 1..Len(todo) /\ Len(todo) \in Nat
         /\ todo[1].start \in Nat /\ todo[1].start \in Pages
         /\ todo[1].pages \in Nat /\ todo[1].pages > 0 /\ todo[1].msg \in BOOLEAN
         /\ PagesOf(todo[1]) \subseteq Pages \ DevicePages
<1>1. todo \in Seq(Region)
  BY DEF ControlInv
<1>2. 1 \in DOMAIN todo /\ Head(todo) = todo[1] /\ DOMAIN todo = 1..Len(todo) /\ Len(todo) \in Nat
  BY <1>1
<1>3. todo[1] \in Region
  BY <1>1, <1>2
<1>4. todo[1].start \in Pages /\ todo[1].pages \in Nat \ {0} /\ todo[1].msg \in BOOLEAN
  BY <1>3 DEF Region
<1>5. todo[1].start \in Nat
  BY <1>4, SizeAssumption DEF Pages, Gigabyte
<1> QED BY <1>2, <1>4, <1>5 DEF ControlInv

(* RegionDone takes the first region off the list or clears its flag.      *)
LEMMA TodoShrinks ==
  ASSUME ControlInv, todo # <<>>,
         todo' = Tail(todo) \/ todo' = [todo EXCEPT ![1].msg = FALSE]
  PROVE  /\ todo' \in Seq(Region)
         /\ \A i \in DOMAIN todo' : \E j \in DOMAIN todo :
              todo'[i].start = todo[j].start /\ todo'[i].pages = todo[j].pages
<1>1. todo \in Seq(Region) /\ 1 \in DOMAIN todo /\ DOMAIN todo = 1..Len(todo) /\ Len(todo) \in Nat
      /\ \A i \in 1..Len(todo) : todo[i] \in Region
  BY TodoHead DEF ControlInv
<1>2. CASE todo' = Tail(todo)
  <2>1. Tail(todo) \in Seq(Region) /\ \A i \in DOMAIN Tail(todo) : i + 1 \in DOMAIN todo /\ Tail(todo)[i] = todo[i + 1]
    BY <1>1
  <2> QED BY <1>2, <2>1
<1>3. CASE todo' = [todo EXCEPT ![1].msg = FALSE]
  <2> DEFINE first == [todo[1] EXCEPT !.msg = FALSE]
  <2>1. todo[1] \in Region
    BY <1>1
  <2>2. first \in Region /\ first.start = todo[1].start /\ first.pages = todo[1].pages
    BY <2>1 DEF Region
  <2> HIDE DEF first
  <2>3. todo' = [todo EXCEPT ![1] = first]
    BY <1>3 DEF first
  <2>4. todo' \in Seq(Region) /\ DOMAIN todo' = DOMAIN todo
        /\ \A i \in DOMAIN todo : todo'[i] = IF i = 1 THEN first ELSE todo[i]
    BY <1>1, <2>2, <2>3, ExceptSeq
  <2> QED BY <1>1, <2>2, <2>4
<1> QED BY <1>2, <1>3

LEMMA ControlStep ==
  ASSUME IInv, [Next]_vars
  PROVE  ControlInv'
<1> USE DEF IInv
<1>0. /\ VmNum \in Nat /\ PoolSize \in Nat \ {0} /\ PoolStart \in Nat /\ None \notin Nat
      /\ Vms = 1..VmNum /\ vm \in Nat /\ freeTop \in Nat
      /\ at.page \in Nat /\ at.frame \in Nat /\ at.end \in Nat
  BY SizeAssumption DEF Vms, ControlInv
<1>1. CASE Create /\ pc' # "panic"
  <2>1. /\ vm \in Vms /\ vttbr' \in [Vms -> Tables \cup {None}] /\ vttbr' = [vttbr EXCEPT ![vm] = bottom]
        /\ bottom \in Tables
    BY <1>1, CreateEffect DEF Create, TreeInv
  <2>2. todo' \in Layouts /\ devices' \in SUBSET DOMAIN ExclDevices
        /\ granted' = [granted EXCEPT ![vm] = devices'] /\ pc' = "memory"
        /\ UNCHANGED <<freeTop, vm, at>>
    BY <1>1 DEF Create, Panic
  <2>3. todo' \in Seq(Region) /\ \A i \in DOMAIN todo' : PagesOf(todo'[i]) \subseteq Pages \ DevicePages
    BY <2>2, RegionAssumption DEF Region
  <2>4. vttbr'[vm] # None
    BY <2>1, SizeAssumption DEF Tables, ControlInv
  <2>5. granted' \in [Vms -> SUBSET DOMAIN ExclDevices] /\ granted'[vm] = devices'
    BY <2>1, <2>2 DEF ControlInv
  <2>6. \A v \in Vms : v > vm => vttbr'[v] = None
    BY <1>0, <1>1, <2>1 DEF ControlInv, Create
  <2> QED BY <2>1, <2>2, <2>3, <2>4, <2>5, <2>6 DEF ControlInv
<1>2. CASE pc' = "panic" /\ UNCHANGED <<freeTop, vttbr, vm, todo, devices, granted>>
           /\ at' \in [page : Nat, frame : Nat, end : Nat]
  BY <1>2 DEF ControlInv
<1>3. CASE Malloc /\ pc' # "panic"
  <2> DEFINE region == Head(todo)
             frame == PoolStart + freeTop
  <2>1. /\ pc = "memory" /\ todo # <<>> /\ ~(freeTop + region.pages > PoolSize - 1)
        /\ freeTop' = freeTop + region.pages
        /\ at' = [page |-> region.start, frame |-> frame, end |-> region.start + region.pages]
        /\ pc' = "map" /\ UNCHANGED <<vttbr, vm, todo, devices, granted>>
    BY <1>3 DEF Malloc, Panic, Blocks
  <2>2. region.start \in Nat /\ region.pages \in Nat
    BY <2>1, TodoHead
  <2> HIDE DEF region
  <2>3. at' \in [page : Nat, frame : Nat, end : Nat]
    BY <1>0, <2>1, <2>2
  <2>4. freeTop' \in 0..(PoolSize - 1)
    BY <1>0, <2>1, <2>2
  <2> QED BY <2>1, <2>3, <2>4 DEF ControlInv
<1>4. CASE MapPage
  <2>1. pc = "map" /\ UNCHANGED <<freeTop, vttbr, vm, todo, devices, granted>>
        /\ (pc' = "panic" \/ pc' = pc)
        /\ at' = [at EXCEPT !.page = @ + 1, !.frame = @ + 1]
    BY <1>4 DEF MapPage, map_ttbl
  <2>2. at' = [page |-> at.page + 1, frame |-> at.frame + 1, end |-> at.end]
    BY <2>1 DEF ControlInv
  <2>3. at' \in [page : Nat, frame : Nat, end : Nat]
    BY <1>0, <2>2
  <2> QED BY <1>2, <2>1, <2>3 DEF ControlInv
<1>5. CASE RegionDone /\ todo # <<>>
  <2>1. /\ pc = "map" /\ ~MoreToMap /\ UNCHANGED <<freeTop, vttbr, vm, devices, granted>>
        /\ todo' = Tail(todo) \/ todo' = [todo EXCEPT ![1].msg = FALSE]
        /\ pc' \in {"map", "memory"}
    BY <1>5 DEF RegionDone
  <2>2. todo' \in Seq(Region) /\ \A i \in DOMAIN todo' : \E j \in DOMAIN todo :
          todo'[i].start = todo[j].start /\ todo'[i].pages = todo[j].pages
    BY <1>5, <2>1, TodoShrinks
  <2>3. \A i \in DOMAIN todo' : PagesOf(todo'[i]) \subseteq Pages \ DevicePages
    BY <2>2 DEF ControlInv, PagesOf
  <2>4. at' \in [page : Nat, frame : Nat, end : Nat]
    <3>1. CASE Head(todo).msg
      <4>1. at' = [page |-> Head(todo).start, frame |-> at.frame - Head(todo).pages, end |-> Head(todo).start + 1]
        BY <1>5, <3>1 DEF RegionDone
      <4>2. PICK b \in blocks[vm] : Current(b)
        BY <1>5, <2>1 DEF MapInv
      <4>3. b \in Block /\ b.frame \in Nat /\ b.start \in Nat /\ b.pages \in Nat
        <5>1. b \in Block
          BY <2>1, <4>2 DEF ControlInv, BlockInv
        <5> QED BY <5>1, SizeAssumption DEF Block, Pages, Gigabyte
      <4>4. at.end = b.start + b.pages /\ at.frame + b.start = b.frame + at.page /\ at.page = at.end
            /\ b.pages = Head(todo).pages
        <5>1. ~(at.page < at.end)
          BY <2>1 DEF MoreToMap
        <5>2. at.end = b.start + b.pages /\ at.page <= at.end /\ at.frame + b.start = b.frame + at.page
              /\ b.pages = Head(todo).pages
          BY <3>1, <4>2 DEF Current
        <5> QED BY <1>0, <5>1, <5>2
      <4>5. at.frame - Head(todo).pages = b.frame
        <5>1. at.frame \in Nat /\ at.page \in Nat
          BY <1>0
        <5> QED BY <5>1, <4>3, <4>4
      <4>6. Head(todo).start \in Nat
        BY <1>5, TodoHead
      <4> QED BY <4>1, <4>3, <4>5, <4>6
    <3>2. CASE ~Head(todo).msg
      BY <1>5, <3>2 DEF RegionDone, Idle
    <3> QED BY <3>1, <3>2
  <2> QED BY <2>1, <2>2, <2>3, <2>4 DEF ControlInv
<1>6. CASE RegionDone /\ todo = <<>>
  BY <1>6 DEF RegionDone, Idle, ControlInv
<1>7. CASE AssignDevice
  <2>1. PICK i \in devices : /\ devices' = devices \ {i}
                             /\ at' = [page |-> ExclDevices[i].start, frame |-> ExclDevices[i].start,
                                       end |-> ExclDevices[i].start + ExclDevices[i].pages]
    BY <1>7 DEF AssignDevice
  <2>2. ExclDevices[i].start \in Nat /\ ExclDevices[i].pages \in Nat
    BY DeviceBounds DEF ControlInv
  <2> QED BY <1>7, <2>1, <2>2 DEF AssignDevice, ControlInv
<1>8. CASE Finish
  BY <1>0, <1>8 DEF Finish, ControlInv
<1>9. CASE UNCHANGED vars
  BY <1>9 DEF vars, ControlInv
<1>10. Create \/ Malloc => pc' # "panic" \/ UNCHANGED <<freeTop, vttbr, vm, todo, devices, granted, at>>
  BY DEF Create, Malloc, Panic
<1> QED BY <1>1, <1>2, <1>3, <1>4, <1>5, <1>6, <1>7, <1>8, <1>9, <1>10 DEF Next, ControlInv

LEMMA BlockBounds ==
  ASSUME BlockInv, NEW v \in Vms, NEW b \in blocks[v]
  PROVE  /\ b.start \in Nat /\ b.frame \in Nat /\ b.pages \in Nat /\ b.pages > 0
         /\ PagesOf(b) \subseteq Pages \ DevicePages
<1>1. b \in Block
  BY DEF BlockInv
<1>2. b.start \in Nat
  BY <1>1, SizeAssumption DEF Block, Pages, Gigabyte
<1> QED BY <1>1, <1>2 DEF Block, BlockInv

(* The region that malloc serves becomes a block of its own.               *)
LEMMA MallocEffect ==
  ASSUME IInv, Malloc, pc' # "panic"
  PROVE  \E new \in Block :
           /\ new.start = todo[1].start /\ new.pages = todo[1].pages /\ new.frame = PoolStart + freeTop
           /\ PagesOf(new) \subseteq Pages \ DevicePages
           /\ blocks' = [blocks EXCEPT ![vm] = @ \cup {new}]
           /\ freeTop' = freeTop + new.pages /\ freeTop' <= PoolSize - 1
           /\ at' = [page |-> new.start, frame |-> new.frame, end |-> new.start + new.pages]
           /\ pc = "memory" /\ pc' = "map" /\ todo # <<>> /\ vm \in Vms /\ UNCHANGED <<todo, vm, granted>>
<1>1. /\ pc = "memory" /\ todo # <<>> /\ ~(freeTop + Head(todo).pages > PoolSize - 1)
      /\ freeTop' = freeTop + Head(todo).pages
      /\ at' = [page |-> Head(todo).start, frame |-> PoolStart + freeTop,
                end |-> Head(todo).start + Head(todo).pages]
      /\ blocks' = [blocks EXCEPT ![vm] = @ \cup {[start |-> Head(todo).start,
                      frame |-> PoolStart + freeTop, pages |-> Head(todo).pages]}]
      /\ pc' = "map" /\ UNCHANGED <<todo, vm, granted>>
  BY DEF Malloc, Panic, Blocks
<1>2. /\ Head(todo) = todo[1] /\ todo[1].start \in Pages /\ todo[1].pages \in Nat /\ todo[1].pages > 0
      /\ PagesOf(todo[1]) \subseteq Pages \ DevicePages
  BY <1>1, TodoHead DEF IInv
<1>3. PoolStart \in Nat /\ freeTop \in Nat /\ PoolSize \in Nat /\ vm \in Vms
  BY <1>1, SizeAssumption DEF IInv, ControlInv
<1> DEFINE new == [start |-> todo[1].start, frame |-> PoolStart + freeTop, pages |-> todo[1].pages]
<1>4. new \in Block /\ PagesOf(new) \subseteq Pages \ DevicePages
  BY <1>2, <1>3 DEF Block, PagesOf
<1>5. freeTop' <= PoolSize - 1
  BY <1>1, <1>2, <1>3
<1> QED BY <1>1, <1>2, <1>3, <1>4, <1>5

LEMMA BlockStep ==
  ASSUME IInv, [Next]_vars
  PROVE  BlockInv'
<1>1. CASE Malloc /\ pc' # "panic"
  <2>1. PICK new \in Block :
           /\ new.start = todo[1].start /\ new.pages = todo[1].pages /\ new.frame = PoolStart + freeTop
           /\ PagesOf(new) \subseteq Pages \ DevicePages
           /\ blocks' = [blocks EXCEPT ![vm] = @ \cup {new}]
           /\ freeTop' = freeTop + new.pages
    BY <1>1, MallocEffect
  <2>2. PoolStart \in Nat /\ freeTop \in Nat /\ new.frame \in Nat /\ new.pages \in Nat /\ new.pages > 0
    BY SizeAssumption DEF IInv, ControlInv, Block
  <2>3. vm \in Vms /\ blocks \in [Vms -> SUBSET Block]
    BY <1>1 DEF IInv, ControlInv, BlockInv, Malloc
  <2>4. blocks' \in [Vms -> SUBSET Block]
        /\ \A v \in Vms : \A b \in blocks'[v] : b \in blocks[v] \/ (v = vm /\ b = new)
    BY <2>1, <2>3
  <2>5. FramesOf(new) = (PoolStart + freeTop)..(PoolStart + freeTop' - 1)
    BY <2>1, <2>2 DEF FramesOf
  <2>6. \A v \in Vms : \A b \in blocks[v] :
          FramesOf(b) \subseteq PoolStart..(PoolStart + freeTop - 1)
    BY DEF IInv, BlockInv
  <2>7. \A v \in Vms : \A b \in blocks[v] : FramesOf(b) \cap FramesOf(new) = {}
    BY <2>2, <2>5, <2>6
  <2>8. ASSUME NEW v \in Vms, NEW b \in blocks'[v]
        PROVE  /\ PagesOf(b) \subseteq Pages \ DevicePages
               /\ FramesOf(b) \subseteq PoolStart..(PoolStart + freeTop' - 1)
    <3>1. CASE b \in blocks[v]
      BY <2>1, <2>2, <2>6, <3>1 DEF IInv, BlockInv
    <3>2. CASE b = new
      BY <2>1, <2>2, <2>5, <3>2
    <3> QED BY <2>4, <3>1, <3>2
  <2>9. ASSUME NEW v \in Vms, NEW x \in Vms, NEW b \in blocks'[v], NEW c \in blocks'[x],
               FramesOf(b) \cap FramesOf(c) # {}
        PROVE  v = x /\ b = c
    <3>1. CASE b \in blocks[v] /\ c \in blocks[x]
      BY <2>9, <3>1 DEF IInv, BlockInv
    <3>2. CASE ~(b \in blocks[v] /\ c \in blocks[x])
      BY <2>4, <2>7, <2>9, <3>2
    <3> QED BY <3>1, <3>2
  <2> QED BY <2>4, <2>8, <2>9 DEF BlockInv
<1>2. CASE UNCHANGED <<blocks, freeTop>>
  BY <1>2 DEF IInv, BlockInv
<1> QED BY <1>1, <1>2 DEF Next, vars, Create, Panic, Malloc, MapPage, RegionDone, AssignDevice, Finish

LEMMA MapStep ==
  ASSUME IInv, [Next]_vars
  PROVE  MapInv'
<1>0. /\ at.page \in Nat /\ at.frame \in Nat /\ at.end \in Nat
      /\ pc = "map" => vm \in Vms
  BY DEF IInv, ControlInv
<1>1. CASE Malloc /\ pc' # "panic"
  <2>1. PICK new \in Block :
           /\ new.start = todo[1].start /\ new.pages = todo[1].pages
           /\ blocks' = [blocks EXCEPT ![vm] = @ \cup {new}]
           /\ at' = [page |-> new.start, frame |-> new.frame, end |-> new.start + new.pages]
           /\ todo # <<>> /\ vm \in Vms /\ UNCHANGED <<todo, vm>>
    BY <1>1, MallocEffect
  <2>2. new \in blocks'[vm'] /\ Head(todo') = todo[1]
    BY <2>1, TodoHead DEF IInv, BlockInv
  <2>3. new.start \in Nat /\ new.frame \in Nat /\ new.pages \in Nat
    BY SizeAssumption DEF Block, Pages, Gigabyte
  <2>4. Current(new)'
    BY <2>1, <2>2, <2>3 DEF Current
  <2> QED BY <2>1, <2>2, <2>4 DEF MapInv
<1>2. CASE MapPage
  <2>1. /\ pc = "map" /\ UNCHANGED <<vm, todo, blocks, granted>> /\ at.page < at.end
        /\ at'.page = at.page + 1 /\ at'.frame = at.frame + 1 /\ at'.end = at.end
    BY <1>2 DEF MapPage, MoreToMap, IInv, ControlInv
  <2>2. CASE todo # <<>>
    <3>1. PICK b \in blocks[vm] : Current(b)
      BY <2>1, <2>2 DEF IInv, MapInv
    <3>2. b.start \in Nat /\ b.frame \in Nat /\ b.pages \in Nat
      BY <1>0, <2>1, BlockBounds DEF IInv
    <3>3. Current(b)'
      BY <1>0, <2>1, <3>1, <3>2 DEF Current
    <3> QED BY <2>1, <2>2, <3>3 DEF MapInv
  <2>3. CASE todo = <<>>
    <3>1. PICK i \in granted[vm] : CurrentDevice(i)
      BY <2>1, <2>3 DEF IInv, MapInv
    <3>2. i \in DOMAIN ExclDevices
      BY <1>0, <2>1 DEF IInv, ControlInv
    <3>3. CurrentDevice(i)'
      BY <1>0, <2>1, <3>1, <3>2, DeviceBounds DEF CurrentDevice
    <3> QED BY <2>1, <2>3, <3>3 DEF MapInv
  <2> QED BY <2>2, <2>3
<1>3. CASE RegionDone /\ pc' = "map"
  <2>1. /\ pc = "map" /\ ~(at.page < at.end) /\ UNCHANGED <<vm, blocks>>
        /\ todo # <<>> /\ Head(todo).msg /\ todo' = [todo EXCEPT ![1].msg = FALSE]
        /\ at' = [page |-> Head(todo).start, frame |-> at.frame - Head(todo).pages,
                  end |-> Head(todo).start + 1]
    BY <1>3 DEF RegionDone, MoreToMap
  <2>2. PICK b \in blocks[vm] : Current(b)
    BY <2>1 DEF IInv, MapInv
  <2>3. b.start \in Nat /\ b.frame \in Nat /\ b.pages \in Nat /\ b.pages > 0
    BY <1>0, <2>1, BlockBounds DEF IInv
  <2>4. /\ b.start = Head(todo).start /\ b.pages = Head(todo).pages
        /\ at.page = b.start + b.pages /\ at.frame + b.start = b.frame + at.page
    BY <1>0, <2>1, <2>2, <2>3 DEF Current
  <2>5. at.frame - b.pages = b.frame
    BY <1>0, <2>3, <2>4
  <2>6. /\ todo' # <<>> /\ Head(todo').start = Head(todo).start
        /\ Head(todo').pages = Head(todo).pages /\ ~Head(todo').msg
    <3>1. todo \in Seq(Region) /\ 1 \in 1..Len(todo) /\ Head(todo) = todo[1] /\ todo[1] \in Region
      BY <2>1, TodoHead, ElementOfSeq DEF IInv, ControlInv
    <3> DEFINE first == [todo[1] EXCEPT !.msg = FALSE]
    <3>2. first \in Region /\ first.start = todo[1].start /\ first.pages = todo[1].pages /\ ~first.msg
      BY <3>1 DEF Region
    <3> HIDE DEF first
    <3>3. todo' = [todo EXCEPT ![1] = first]
      BY <2>1 DEF first
    <3>4. todo' \in Seq(Region) /\ Len(todo') = Len(todo) /\ todo'[1] = first
      BY <3>1, <3>2, <3>3, ExceptSeq
    <3> QED BY <3>1, <3>2, <3>4
  <2>7. at'.page = b.start /\ at'.frame = b.frame /\ at'.end = b.start + 1
    BY <2>1, <2>4, <2>5
  <2>8. Current(b)'
    BY <2>3, <2>4, <2>6, <2>7 DEF Current
  <2> QED BY <2>1, <2>2, <2>6, <2>8 DEF MapInv
<1>4. CASE AssignDevice
  <2>1. PICK i \in devices : at' = [page |-> ExclDevices[i].start, frame |-> ExclDevices[i].start,
                                    end |-> ExclDevices[i].start + ExclDevices[i].pages]
    BY <1>4 DEF AssignDevice
  <2>2. /\ pc = "memory" /\ todo = <<>> /\ UNCHANGED <<todo, vm, granted>>
    BY <1>4 DEF AssignDevice
  <2>3. i \in granted'[vm'] /\ i \in DOMAIN ExclDevices
    BY <2>2 DEF IInv, ControlInv
  <2>4. CurrentDevice(i)'
    BY <2>1, <2>3, DeviceBounds DEF CurrentDevice
  <2> QED BY <2>2, <2>3, <2>4 DEF MapInv
<1>5. CASE pc' # "map"
  BY <1>5 DEF MapInv
<1>6. CASE UNCHANGED vars
  BY <1>6 DEF vars, IInv, MapInv, Current, CurrentDevice
<1>7. Malloc /\ pc' = "panic" => pc' # "map"
  OBVIOUS
<1> QED BY <1>1, <1>2, <1>3, <1>4, <1>5, <1>6 DEF Next, Create, Panic, Finish

LEMMA InitInv == Init => IInv
<1> SUFFICES ASSUME Init PROVE IInv
  OBVIOUS
<1>1. VmNum \in Nat /\ PoolSize \in Nat \ {0} /\ MaxTables \in Nat \ {0} /\ Fan \in Nat \ {0}
  BY SizeAssumption
<1>2. ControlInv
  <2>1. todo \in Seq(Region) /\ DOMAIN todo = {}
    BY DEF Init
  <2>2. at \in [page : Nat, frame : Nat, end : Nat]
    BY DEF Init, Idle
  <2> QED BY <1>1, <2>1, <2>2 DEF Init, ControlInv, Vms
<1>3. BlockInv
  BY DEF Init, BlockInv
<1>4. TreeInv(word, bottom)
  <2>1. Created = {}
    BY DEF Created, Init
  <2>2. word \in Words /\ bottom \in Tables
    BY <1>1 DEF Init, Words, Tables
  <2> QED BY <2>1, <2>2 DEF TreeInv
<1>5. MapInv
  BY DEF Init, MapInv
<1> QED BY <1>2, <1>3, <1>4, <1>5 DEF IInv

(* The inductive invariant of the tables, the pool and the loops.           *)
THEOREM Invariance == Spec => []IInv
<1>1. IInv /\ [Next]_vars => IInv'
  BY ControlStep, BlockStep, WalkStep, MapStep DEF IInv
<1> QED BY InitInv, <1>1, PTL DEF Spec

-----------------------------------------------------------------------------
(* The properties. *)

(* map_ttbl, alloc_ttbl and malloc never leave their arrays: indices        *)
(* computed from an address stay inside the table they are meant for.       *)
THEOREM TypeCorrect == Spec => []TypeOK
<1>1. IInv => TypeOK
  BY DEF IInv, ControlInv, TreeInv, Words, Tables, TypeOK
<1> QED BY <1>1, Invariance, PTL

(* What a guest has been given: by malloc or as a device. *)
Given(v, p, pointer) ==
  \/ \E b \in blocks[v] : p \in PagesOf(b) /\ pointer = 1 + b.frame + p - b.start
  \/ \E i \in granted[v] : p \in PagesOf(ExclDevices[i]) /\ pointer = 1 + p

LEMMA InsideMeansGiven ==
  GuestsStayInside <=> \A v \in Vms, p \in Pages : Walk(v, p) # 0 => Given(v, p, Walk(v, p))
BY DEF GuestsStayInside, Mapped, Given

LEMMA InsideMeansGivenNext ==
  GuestsStayInside' <=>
    \A v \in Vms, p \in Pages : (Walk(v, p))' # 0 => (Given(v, p, Walk(v, p)))'
BY DEF GuestsStayInside, Mapped, Given

(* The page that the loop of map_page_table is about to map was given. *)
LEMMA NextPageIsGiven ==
  ASSUME IInv, pc = "map", MoreToMap
  PROVE  Given(vm, at.page, at.frame + 1)
<1>1. at.page \in Nat /\ at.frame \in Nat /\ at.end \in Nat /\ at.page < at.end /\ vm \in Vms
  BY DEF IInv, ControlInv, MoreToMap
<1>2. CASE todo # <<>>
  <2>1. PICK b \in blocks[vm] : Current(b)
    BY <1>2 DEF IInv, MapInv
  <2>2. b.start \in Nat /\ b.frame \in Nat /\ b.pages \in Nat
    BY <1>1, BlockBounds DEF IInv
  <2>3. at.page \in PagesOf(b) /\ at.frame + 1 = 1 + b.frame + at.page - b.start
    BY <1>1, <2>1, <2>2 DEF Current, PagesOf
  <2> QED BY <2>3 DEF Given
<1>3. CASE todo = <<>>
  <2>1. PICK i \in granted[vm] : CurrentDevice(i)
    BY <1>3 DEF IInv, MapInv
  <2>2. i \in DOMAIN ExclDevices
    BY <1>1 DEF IInv, ControlInv
  <2>3. at.page \in PagesOf(ExclDevices[i]) /\ at.frame + 1 = 1 + at.page
    BY <1>1, <2>1, <2>2, DeviceBounds DEF CurrentDevice, PagesOf
  <2> QED BY <2>3 DEF Given
<1> QED BY <1>2, <1>3

(* Nothing is taken back: only a VM without tables gets another grant.      *)
LEMMA GivenStays ==
  ASSUME IInv, [Next]_vars, NEW v \in Vms, NEW p \in Pages, NEW pointer, Given(v, p, pointer),
         vttbr[v] # None
  PROVE  Given(v, p, pointer)'
<1>1. CASE Malloc /\ pc' # "panic"
  <2>1. PICK new \in Block : blocks' = [blocks EXCEPT ![vm] = @ \cup {new}] /\ UNCHANGED granted
    BY <1>1, MallocEffect
  <2>2. \A b \in blocks[v] : b \in blocks'[v]
    BY <2>1 DEF IInv, BlockInv
  <2> QED BY <2>1, <2>2 DEF Given
<1>2. CASE Create /\ pc' # "panic"
  <2>1. granted' = [granted EXCEPT ![vm] = devices'] /\ UNCHANGED blocks /\ pc = "create"
    BY <1>2 DEF Create, Panic
  <2>2. vm \in Vms
    BY <1>2, <2>1, CreateEffect DEF IInv
  <2>3. v # vm
    BY <2>1, <2>2 DEF IInv, ControlInv
  <2>4. granted'[v] = granted[v]
    BY <2>1, <2>2, <2>3 DEF IInv, ControlInv
  <2> QED BY <2>1, <2>4 DEF Given
<1>3. CASE UNCHANGED <<blocks, granted>>
  BY <1>3 DEF Given
<1> QED BY <1>1, <1>2, <1>3 DEF Next, vars, Create, Panic, Malloc, MapPage, RegionDone, AssignDevice, Finish

LEMMA InsideStep ==
  ASSUME IInv, GuestsStayInside, [Next]_vars
  PROVE  GuestsStayInside'
<1> SUFFICES ASSUME NEW v \in Vms, NEW p \in Pages, (Walk(v, p))' # 0
             PROVE  (Given(v, p, Walk(v, p)))'
  BY InsideMeansGivenNext
<1>1. ASSUME NEW pointer, Given(v, p, pointer), vttbr[v] # None, Walk(v, p)' = pointer
      PROVE  (Given(v, p, Walk(v, p)))'
  <2>1. Given(v, p, pointer)'
    BY <1>1, GivenStays
  <2> QED BY <1>1, <2>1 DEF Given
<1>2. CASE MapPage /\ v = vm /\ p = at.page /\ Walk(v, p)' = at.frame + 1
  <2>1. Given(vm, at.page, at.frame + 1) /\ vttbr[vm] # None
    BY <1>2, NextPageIsGiven DEF MapPage, IInv, ControlInv
  <2> QED BY <1>1, <1>2, <2>1
<1>3. CASE Walk(v, p)' = Walk(v, p)
  <2>1. Given(v, p, Walk(v, p))
    BY <1>3, InsideMeansGiven
  <2>2. vttbr[v] # None
    BY <1>3 DEF Walk
  <2> QED BY <1>1, <1>3, <2>1, <2>2
<1> QED BY <1>2, <1>3, WalkStep

LEMMA InsideInit == Init => GuestsStayInside
<1> SUFFICES ASSUME Init, NEW v \in Vms, NEW p \in Pages PROVE Walk(v, p) = 0
  BY InsideMeansGiven
<1> QED BY DEF Init, Walk

(* Isolation, outwards: a guest reaches only what malloc gave its VM and    *)
(* the devices of its excl_mmio_opt.                                        *)
THEOREM GuestsAreConfined == Spec => []GuestsStayInside
<1>1. IInv /\ GuestsStayInside /\ [Next]_vars => GuestsStayInside'
  BY InsideStep
<1> QED BY InsideInit, Invariance, <1>1, PTL DEF Spec

(* Isolation between VMs: a page of the pool is reached from one page of    *)
(* one VM at most, because malloc gives no page twice.                      *)
THEOREM GuestsAreIsolated == Spec => []MemoryIsPrivate
<1>1. ASSUME IInv, GuestsStayInside PROVE MemoryIsPrivate
  <2> SUFFICES ASSUME NEW v \in Vms, NEW w \in Vms, NEW p \in Mapped(v), NEW q \in Mapped(w),
                      Walk(v, p) = Walk(w, q), Walk(v, p) - 1 \notin DevicePages
               PROVE  v = w /\ p = q
    BY DEF MemoryIsPrivate
  <2>1. p \in Pages /\ q \in Pages /\ p \in Nat /\ q \in Nat /\ Walk(v, p) # 0 /\ Walk(w, q) # 0
    BY SizeAssumption DEF Mapped, Pages, Gigabyte
  <2>2. ASSUME NEW x \in Vms, NEW page \in Pages, NEW pointer, pointer - 1 \notin DevicePages,
               Given(x, page, pointer)
        PROVE  \E b \in blocks[x] : page \in PagesOf(b) /\ pointer = 1 + b.frame + page - b.start
    <3> SUFFICES ASSUME NEW i \in granted[x], page \in PagesOf(ExclDevices[i]), pointer = 1 + page
                 PROVE  FALSE
      BY <2>2 DEF Given
    <3>1. page \in DevicePages /\ page \in Nat
      BY <1>1, DeviceBounds, SizeAssumption DEF IInv, ControlInv, Pages, Gigabyte
    <3> QED BY <2>2, <3>1
  <2>3. Given(v, p, Walk(v, p)) /\ Given(w, q, Walk(w, q))
    BY <1>1, <2>1, InsideMeansGiven
  <2>4. PICK b \in blocks[v] : p \in PagesOf(b) /\ Walk(v, p) = 1 + b.frame + p - b.start
    BY <2>1, <2>2, <2>3
  <2>5. PICK c \in blocks[w] : q \in PagesOf(c) /\ Walk(w, q) = 1 + c.frame + q - c.start
    BY <2>1, <2>2, <2>3
  <2>6. /\ b.start \in Nat /\ b.frame \in Nat /\ b.pages \in Nat
        /\ c.start \in Nat /\ c.frame \in Nat /\ c.pages \in Nat
    BY <1>1, BlockBounds DEF IInv
  <2>7. b.frame + p - b.start \in FramesOf(b) /\ c.frame + q - c.start \in FramesOf(c)
        /\ b.frame + p - b.start = c.frame + q - c.start
    <3>1. b.start <= p /\ p < b.start + b.pages /\ c.start <= q /\ q < c.start + c.pages
      BY <2>1, <2>4, <2>5, <2>6 DEF PagesOf
    <3>2. 1 + b.frame + p - b.start = 1 + c.frame + q - c.start
      BY <2>4, <2>5
    <3>3. b.frame + p - b.start = c.frame + q - c.start
      BY <2>1, <2>6, <3>2
    <3> QED BY <2>1, <2>6, <3>1, <3>3 DEF FramesOf
  <2>8. v = w /\ b = c
    BY <1>1, <2>7 DEF IInv, BlockInv
  <2> QED BY <2>1, <2>6, <2>7, <2>8
<1> QED BY <1>1, Invariance, GuestsAreConfined, PTL

LEMMA TodoPages ==
  ASSUME ControlInv, todo # <<>>,
         todo' = Tail(todo) \/ todo' = [todo EXCEPT ![1].msg = FALSE]
  PROVE  \/ /\ todo' = Tail(todo)
            /\ \A i \in DOMAIN todo' : i \in Nat /\ i + 1 \in DOMAIN todo /\ i + 1 > 1 /\ todo'[i] = todo[i + 1]
         \/ /\ DOMAIN todo' = DOMAIN todo
            /\ \A i \in DOMAIN todo : PagesOf(todo'[i]) = PagesOf(todo[i])
<1>1. todo \in Seq(Region) /\ 1 \in 1..Len(todo) /\ todo[1] \in Region /\ DOMAIN todo = 1..Len(todo)
      /\ Len(todo) \in Nat
  BY TodoHead, ElementOfSeq DEF ControlInv
<1>2. CASE todo' = Tail(todo)
  <2>1. Tail(todo) \in Seq(Region) /\ Len(Tail(todo)) = Len(todo) - 1
        /\ \A i \in 1..Len(Tail(todo)) : Tail(todo)[i] = todo[i + 1]
    BY <1>1, HeadTailProperties
  <2>2. DOMAIN Tail(todo) = 1..(Len(todo) - 1)
    BY <1>1, <2>1
  <2>3. ASSUME NEW i \in DOMAIN Tail(todo)
        PROVE  i \in Nat /\ i + 1 \in DOMAIN todo /\ i + 1 > 1 /\ Tail(todo)[i] = todo[i + 1]
    <3>1. i \in 1..(Len(todo) - 1)
      BY <2>2
    <3> QED BY <1>1, <2>1, <3>1
  <2> QED BY <1>2, <2>3
<1>3. CASE todo' = [todo EXCEPT ![1].msg = FALSE]
  <2> DEFINE first == [todo[1] EXCEPT !.msg = FALSE]
  <2>1. first \in Region /\ first.start = todo[1].start /\ first.pages = todo[1].pages
    BY <1>1 DEF Region
  <2> HIDE DEF first
  <2>2. todo' = [todo EXCEPT ![1] = first]
    BY <1>3 DEF first
  <2>3. Len(todo') = Len(todo) /\ todo' \in Seq(Region)
        /\ \A i \in 1..Len(todo) : todo'[i] = IF i = 1 THEN first ELSE todo[i]
    <3>1. /\ [todo EXCEPT ![1] = first] \in Seq(Region)
          /\ Len([todo EXCEPT ![1] = first]) = Len(todo)
          /\ \A i \in 1..Len(todo) : [todo EXCEPT ![1] = first][i] = IF i = 1 THEN first ELSE todo[i]
      BY <1>1, <2>1, ExceptSeq
    <3> QED BY <2>2, <3>1
  <2> QED BY <1>1, <2>1, <2>3 DEF PagesOf
<1> QED BY <1>2, <1>3

LEMMA DisjointStep ==
  ASSUME IInv, WholeInv, [Next]_vars, pc' # "panic"
  PROVE  RegionsDisjoint'
<1>0. pc # "panic" \/ UNCHANGED vars
  BY DEF Next, Create, Malloc, MapPage, RegionDone, AssignDevice, Finish
<1>1. CASE UNCHANGED vars
  BY <1>1 DEF vars, WholeInv, RegionsDisjoint
<1>2. CASE Create
  <2>1. pc = "create" /\ pc' = "memory" /\ todo' \in Layouts /\ UNCHANGED <<blocks, vm>>
    BY <1>2 DEF Create, Panic
  <2>2. vm \in Vms
    BY <1>2, <2>1, CreateEffect DEF IInv
  <2>3. blocks[vm] = {}
    BY <2>1, <2>2 DEF WholeInv, RegionsDisjoint
  <2> QED BY <1>2, <2>1, <2>3, DisjointAssumption DEF WholeInv, RegionsDisjoint
<1>3. CASE Malloc
  <2>1. PICK new \in Block :
           /\ new.start = todo[1].start /\ new.pages = todo[1].pages
           /\ blocks' = [blocks EXCEPT ![vm] = @ \cup {new}]
           /\ pc = "memory" /\ pc' = "map" /\ todo # <<>> /\ vm \in Vms /\ UNCHANGED <<todo, vm>>
    BY <1>3, MallocEffect
  <2>2. PagesOf(new) = PagesOf(todo[1]) /\ 1 \in DOMAIN todo
        /\ \A i \in DOMAIN todo : i \in Nat
    BY <2>1, TodoHead DEF PagesOf, IInv
  <2>3. \A v \in Vms : \A b \in blocks'[v] : b \in blocks[v] \/ (v = vm /\ b = new)
    BY <2>1 DEF IInv, BlockInv
  <2>4. \A b \in blocks[vm], i \in DOMAIN todo : PagesOf(b) \cap PagesOf(todo[i]) = {}
    BY <2>1 DEF WholeInv, RegionsDisjoint
  <2>5. \A v \in Vms : \A b, c \in blocks'[v] : PagesOf(b) \cap PagesOf(c) # {} => b = c
    <3> TAKE v \in Vms
    <3> TAKE b, c \in blocks'[v]
    <3>1. CASE b \in blocks[v] /\ c \in blocks[v]
      BY <2>1, <3>1 DEF WholeInv, RegionsDisjoint
    <3>2. CASE v = vm /\ b = new /\ c \in blocks[v]
      BY <2>2, <2>4, <3>2
    <3>3. CASE v = vm /\ c = new /\ b \in blocks[v]
      BY <2>2, <2>4, <3>3
    <3> QED BY <2>3, <3>1, <3>2, <3>3
  <2>6. \A i, j \in DOMAIN todo : i # j => PagesOf(todo[i]) \cap PagesOf(todo[j]) = {}
    BY <2>1 DEF WholeInv, RegionsDisjoint
  <2>7. ASSUME NEW b \in blocks'[vm], NEW i \in DOMAIN todo, i > 1
        PROVE  PagesOf(b) \cap PagesOf(todo[i]) = {}
    BY <2>1, <2>2, <2>3, <2>4, <2>6, <2>7
  <2>8. \A v \in Vms : v > vm => blocks'[v] = {}
    <3>1. \A v \in Vms : v > vm => v # vm /\ blocks[v] = {}
      BY <2>1 DEF WholeInv, RegionsDisjoint, IInv, ControlInv, Vms
    <3> QED BY <2>3, <3>1
  <2> QED BY <2>1, <2>5, <2>6, <2>7, <2>8 DEF RegionsDisjoint
<1>4. CASE MapPage
  BY <1>4 DEF MapPage, map_ttbl, WholeInv, RegionsDisjoint
<1>5. CASE RegionDone /\ todo # <<>>
  <2>1. /\ pc = "map" /\ UNCHANGED <<vm, blocks>> /\ pc' \in {"map", "memory"}
        /\ todo' = Tail(todo) \/ (todo' = [todo EXCEPT ![1].msg = FALSE] /\ pc' = "map")
    BY <1>5 DEF RegionDone
  <2>2. RegionsDisjoint /\ \A i \in DOMAIN todo : i \in Nat
    BY <1>5, <2>1, TodoHead DEF WholeInv, IInv
  <2>3. CASE /\ todo' = Tail(todo)
             /\ \A i \in DOMAIN todo' : i \in Nat /\ i + 1 \in DOMAIN todo /\ i + 1 > 1 /\ todo'[i] = todo[i + 1]
    <3>1. \A i, j \in DOMAIN todo' : i # j => i + 1 # j + 1
      BY <2>3
    <3>2. \A i, j \in DOMAIN todo' : i # j => PagesOf(todo'[i]) \cap PagesOf(todo'[j]) = {}
      BY <2>2, <2>3, <3>1 DEF RegionsDisjoint
    <3> QED BY <2>1, <2>2, <2>3, <3>2 DEF RegionsDisjoint
  <2>4. CASE /\ todo' = [todo EXCEPT ![1].msg = FALSE] /\ pc' = "map"
             /\ DOMAIN todo' = DOMAIN todo
             /\ \A i \in DOMAIN todo : PagesOf(todo'[i]) = PagesOf(todo[i])
    BY <2>1, <2>2, <2>4 DEF RegionsDisjoint
  <2>5. CASE /\ todo' = Tail(todo) /\ DOMAIN todo' = DOMAIN todo
    <3>1. FALSE
      BY <1>5, <2>5, TodoHead, HeadTailProperties, LenProperties DEF IInv, ControlInv
    <3> QED BY <3>1
  <2>6. ControlInv
    BY DEF IInv
  <2>7. \/ /\ todo' = Tail(todo)
           /\ \A i \in DOMAIN todo' : i \in Nat /\ i + 1 \in DOMAIN todo /\ i + 1 > 1 /\ todo'[i] = todo[i + 1]
        \/ /\ DOMAIN todo' = DOMAIN todo
           /\ \A i \in DOMAIN todo : PagesOf(todo'[i]) = PagesOf(todo[i])
    BY <1>5, <2>1, <2>6, TodoPages
  <2> QED BY <2>1, <2>3, <2>4, <2>5, <2>7
<1>6. CASE (RegionDone /\ todo = <<>>) \/ AssignDevice
  <2>1. UNCHANGED <<todo, vm, blocks>> /\ todo = <<>> /\ pc \in {"map", "memory"} /\ pc' \in {"map", "memory"}
    BY <1>6 DEF RegionDone, AssignDevice
  <2>2. DOMAIN todo = {}
    BY <2>1
  <2> QED BY <2>1, <2>2 DEF WholeInv, RegionsDisjoint
<1>7. CASE Finish
  <2>1. /\ pc = "memory" /\ pc' = "create" /\ vm' = vm + 1 /\ UNCHANGED <<todo, blocks>> /\ vm \in Nat
    BY <1>7, SizeAssumption DEF Finish, IInv, ControlInv
  <2>2. \A v \in Vms : v \in Nat /\ (v > vm' \/ v = vm' => v > vm)
    BY <2>1 DEF Vms
  <2> QED BY <2>1, <2>2 DEF WholeInv, RegionsDisjoint
<1> QED BY <1>0, <1>1, <1>2, <1>3, <1>4, <1>5, <1>6, <1>7 DEF Next

LEMMA MappedStep ==
  ASSUME IInv, WholeInv, [Next]_vars, pc' # "panic"
  PROVE  MappedOrAhead'
<1>0. /\ at.page \in Nat /\ at.frame \in Nat /\ at.end \in Nat
      /\ pc = "map" => vm \in Vms
      /\ pc # "panic" \/ UNCHANGED vars
  BY DEF IInv, ControlInv, Next, Create, Malloc, MapPage, RegionDone, AssignDevice, Finish
<1>1. CASE UNCHANGED vars
  BY <1>1 DEF vars, WholeInv, MappedOrAhead, Ahead, Walk
<1>2. CASE pc # "panic"
  <2>1. MappedOrAhead /\ RegionsDisjoint
    BY <1>2 DEF WholeInv
  <2>2. CASE ~MapPage
    <3> SUFFICES ASSUME NEW v \in Vms, NEW b \in blocks'[v], NEW i \in PagesOf(b)
                 PROVE  (Walk(v, i))' = 1 + b.frame + i - b.start \/ (v = vm /\ Ahead(b, i))'
      BY DEF MappedOrAhead
    <3>1. b.start \in Nat /\ b.pages \in Nat /\ PagesOf(b) \subseteq Pages /\ i \in Nat
          /\ i < b.start + b.pages /\ i >= b.start
      <4>1. b \in Block /\ PagesOf(b) \subseteq Pages
        BY BlockStep DEF BlockInv
      <4>2. b.start \in Nat /\ b.pages \in Nat
        BY <4>1, SizeAssumption DEF Block, Pages, Gigabyte
      <4> QED BY <4>1, <4>2 DEF PagesOf
    <3>2. (Walk(v, i))' = Walk(v, i)
      BY <2>2, <3>1, WalkStep
    <3>3. CASE b \in blocks[v] /\ ~(v = vm /\ Ahead(b, i))
      BY <2>1, <3>2, <3>3 DEF MappedOrAhead
    <3>4. CASE b \in blocks[v] /\ v = vm /\ Ahead(b, i)
      <4>1. pc = "map" /\ todo # <<>> /\ b.start = Head(todo).start
            /\ at.end = b.start + b.pages /\ at.page <= i
        BY <3>4 DEF Ahead
      <4>2. at.page < at.end
        BY <1>0, <3>1, <4>1
      <4>3. UNCHANGED vars
        BY <2>2, <4>1, <4>2 DEF Next, Create, Malloc, RegionDone, AssignDevice, Finish, MoreToMap
      <4> QED BY <1>1, <4>3 DEF MappedOrAhead
    <3>5. CASE b \notin blocks[v]
      <4>1. CASE Malloc
        <5>1. PICK new \in Block :
                 /\ new.start = todo[1].start
                 /\ blocks' = [blocks EXCEPT ![vm] = @ \cup {new}]
                 /\ at' = [page |-> new.start, frame |-> new.frame, end |-> new.start + new.pages]
                 /\ pc' = "map" /\ todo # <<>> /\ vm \in Vms /\ UNCHANGED <<todo, vm>>
          BY <4>1, MallocEffect
        <5>2. v = vm /\ b = new
          BY <3>5, <5>1 DEF IInv, BlockInv
        <5>3. Head(todo') = todo[1]
          BY <5>1, TodoHead DEF IInv
        <5>4. Ahead(b, i)'
          BY <3>1, <5>1, <5>2, <5>3 DEF Ahead
        <5> QED BY <5>1, <5>2, <5>4
      <4>2. CASE UNCHANGED blocks
        BY <3>5, <4>2
      <4> QED BY <2>2, <4>1, <4>2 DEF Next, vars, Create, Panic, RegionDone, AssignDevice, Finish
    <3> QED BY <3>3, <3>4, <3>5
  <2>3. CASE MapPage
    <3>1. /\ pc = "map" /\ pc' = "map" /\ UNCHANGED <<vm, todo, blocks>> /\ MoreToMap
          /\ at'.page = at.page + 1 /\ at'.end = at.end
      BY <2>3 DEF MapPage, map_ttbl, IInv, ControlInv
    <3>2. \A v \in Vms, p \in Pages :
            Walk(v, p)' = IF v = vm /\ p = at.page THEN at.frame + 1 ELSE Walk(v, p)
      BY <2>3, WalkStep
    <3> SUFFICES ASSUME NEW v \in Vms, NEW b \in blocks[v], NEW i \in PagesOf(b)
                 PROVE  (Walk(v, i))' = 1 + b.frame + i - b.start \/ (v = vm /\ Ahead(b, i))'
      BY <3>1 DEF MappedOrAhead
    <3>3. /\ b.start \in Nat /\ b.frame \in Nat /\ b.pages \in Nat /\ i \in Nat
          /\ i \in Pages \ DevicePages
      BY BlockBounds DEF IInv, PagesOf
    <3>4. CASE v = vm /\ i = at.page
      <4>1. todo # <<>>
        <5> SUFFICES ASSUME todo = <<>> PROVE FALSE
          OBVIOUS
        <5>1. PICK j \in granted[vm] : CurrentDevice(j)
          BY <3>1 DEF IInv, MapInv
        <5>2. j \in DOMAIN ExclDevices
          BY <1>0, <3>1 DEF IInv, ControlInv
        <5>3. at.page \in PagesOf(ExclDevices[j])
          BY <1>0, <3>1, <5>1, <5>2, DeviceBounds DEF CurrentDevice, PagesOf, MoreToMap
        <5> QED BY <3>3, <3>4, <5>2, <5>3, DeviceBounds
      <4>2. PICK c \in blocks[vm] : Current(c)
        BY <3>1, <4>1 DEF IInv, MapInv
      <4>3. c.start \in Nat /\ c.frame \in Nat /\ c.pages \in Nat
        BY <3>4, BlockBounds DEF IInv
      <4>4. at.page \in PagesOf(c) /\ at.frame + c.start = c.frame + at.page
        BY <1>0, <3>1, <4>2, <4>3 DEF Current, PagesOf, MoreToMap
      <4>5. b = c
        BY <2>1, <3>4, <4>4 DEF RegionsDisjoint
      <4>6. at.frame + 1 = 1 + b.frame + i - b.start
        BY <1>0, <3>3, <3>4, <4>4, <4>5
      <4> QED BY <3>2, <3>3, <3>4, <4>6
    <3>5. CASE ~(v = vm /\ i = at.page)
      <4>1. (Walk(v, i))' = Walk(v, i)
        BY <3>2, <3>3, <3>5
      <4>2. CASE v = vm /\ Ahead(b, i)
        <5>1. at.page + 1 <= i
          BY <1>0, <3>3, <3>5, <4>2 DEF Ahead
        <5> QED BY <3>1, <4>2, <5>1 DEF Ahead
      <4> QED BY <2>1, <4>1, <4>2 DEF MappedOrAhead
    <3> QED BY <3>4, <3>5
  <2> QED BY <2>2, <2>3
<1> QED BY <1>0, <1>1, <1>2

(* vm_create leaves out no page: at its end the guest finds the regions of  *)
(* its VM at consecutive pages of the pool.                                 *)
THEOREM MemoryIsMapped == Spec => []WholeMemoryMapped
<1>1. Init => WholeInv
  <2> SUFFICES ASSUME Init PROVE RegionsDisjoint /\ MappedOrAhead
    BY DEF WholeInv
  <2>1. DOMAIN todo = {} /\ \A v \in Vms : blocks[v] = {}
    BY DEF Init
  <2> QED BY <2>1 DEF Init, RegionsDisjoint, MappedOrAhead
<1>2. IInv /\ WholeInv /\ [Next]_vars => WholeInv'
  BY DisjointStep, MappedStep DEF WholeInv
<1>3. ASSUME IInv, WholeInv PROVE WholeMemoryMapped
  <2> SUFFICES ASSUME pc = "create", NEW v \in 1..(vm - 1), NEW b \in blocks[v], NEW i \in 0..(b.pages - 1)
               PROVE  Walk(v, b.start + i) = 1 + b.frame + i
    BY DEF WholeMemoryMapped
  <2>1. v \in Vms /\ v # vm
    BY <1>3, SizeAssumption DEF IInv, ControlInv, Vms
  <2>2. b.start \in Nat /\ b.frame \in Nat /\ b.pages \in Nat /\ i \in Nat
    BY <1>3, <2>1, BlockBounds DEF IInv
  <2>3. b.start + i \in PagesOf(b)
    BY <2>2 DEF PagesOf
  <2>4. Walk(v, b.start + i) = 1 + b.frame + (b.start + i) - b.start
    BY <1>3, <2>1, <2>3 DEF WholeInv, MappedOrAhead
  <2> QED BY <2>2, <2>4
<1> QED BY <1>1, <1>2, <1>3, Invariance, PTL DEF Spec

(* The frame that the loop of map_page_table is about to map.               *)
LEMMA NextFrame ==
  ASSUME IInv, pc = "map", MoreToMap
  PROVE  at.frame \in Pool \cup DevicePages
<1>1. /\ at.page \in Nat /\ at.frame \in Nat /\ at.end \in Nat /\ at.page < at.end /\ vm \in Vms
      /\ PoolStart \in Nat /\ PoolSize \in Nat /\ freeTop \in Nat /\ freeTop <= PoolSize - 1
  BY SizeAssumption DEF IInv, ControlInv, MoreToMap
<1>2. CASE todo # <<>>
  <2>1. PICK b \in blocks[vm] : Current(b)
    BY <1>2 DEF IInv, MapInv
  <2>2. b.start \in Nat /\ b.frame \in Nat /\ b.pages \in Nat
    BY <1>1, BlockBounds DEF IInv
  <2>3. at.frame \in FramesOf(b)
    BY <1>1, <2>1, <2>2 DEF Current, FramesOf
  <2>4. FramesOf(b) \subseteq PoolStart..(PoolStart + freeTop - 1)
    BY <1>1 DEF IInv, BlockInv
  <2> QED BY <1>1, <2>3, <2>4 DEF Pool
<1>3. CASE todo = <<>>
  <2>1. PICK i \in granted[vm] : CurrentDevice(i)
    BY <1>3 DEF IInv, MapInv
  <2>2. i \in DOMAIN ExclDevices
    BY <1>1 DEF IInv, ControlInv
  <2> QED BY <1>1, <2>1, <2>2, DeviceBounds DEF CurrentDevice, PagesOf
<1> QED BY <1>2, <1>3

LEMMA SpaceStep ==
  ASSUME IInv, [Next]_vars
  PROVE  [Abstract!Next]_space
<1> DEFINE S(v) == [page \in Mapped(v) |-> Walk(v, page) - 1]
<1>1. CASE MapPage /\ pc' = "map"
  <2>1. /\ pc = "map" /\ MoreToMap
    BY <1>1 DEF MapPage
  <2>2. PICK x \in Vms, page \in Pages, frame \in Pool \cup DevicePages :
          x = vm /\ page = at.page /\ frame = at.frame /\ frame \in Nat
    BY <2>1, MappedPage, NextFrame DEF Created
  <2>3. \A v \in Vms, p \in Pages :
          Walk(v, p)' = IF v = x /\ p = page THEN frame + 1 ELSE Walk(v, p)
    BY <1>1, <2>2, WalkStep
  <2>4. \A v \in Vms \ {x} : S(v)' = S(v)
    BY <2>3 DEF Mapped
  <2>5. S(x)' = [p \in DOMAIN S(x) \cup {page} |-> IF p = page THEN frame ELSE S(x)[p]]
    <3>1. frame + 1 # 0 /\ (frame + 1) - 1 = frame
      BY <2>2
    <3>2. Mapped(x)' = Mapped(x) \cup {page}
      BY <2>3, <3>1 DEF Mapped
    <3>3. S(x)' = [p \in Mapped(x)' |-> Walk(x, p)' - 1]
      OBVIOUS
    <3>4. \A p \in Mapped(x)' : Walk(x, p)' - 1 = IF p = page THEN frame ELSE Walk(x, p) - 1
      BY <2>3, <3>1 DEF Mapped
    <3>5. S(x)' = [p \in Mapped(x) \cup {page} |-> IF p = page THEN frame ELSE Walk(x, p) - 1]
      BY <3>2, <3>3, <3>4
    <3>6. DOMAIN S(x) = Mapped(x) /\ \A p \in Mapped(x) : S(x)[p] = Walk(x, p) - 1
      OBVIOUS
    <3> QED BY <3>5, <3>6
  <2> HIDE DEF S
  <2>6. space = [v \in Vms |-> S(v)] /\ space' = [v \in Vms |-> S(v)']
    BY DEF space, S
  <2>7. space' = [space EXCEPT ![x] =
                            [p \in DOMAIN @ \cup {page} |-> IF p = page THEN frame ELSE @[p]]]
    BY <2>2, <2>4, <2>5, <2>6
  <2>8. Abstract!Map(x, page, frame)
    BY <2>7 DEF Abstract!Map
  <2> QED BY <2>2, <2>8 DEF Abstract!Next
<1>2. CASE \A v \in Vms, p \in Pages : Walk(v, p)' = Walk(v, p)
  <2>1. \A v \in Vms : S(v)' = S(v)
    BY <1>2 DEF Mapped
  <2> QED BY <2>1 DEF space
<1> QED BY <1>1, <1>2, WalkStep

LEMMA SpaceInit == Init => Abstract!Init
<1> SUFFICES ASSUME Init PROVE Abstract!Init
  OBVIOUS
<1>1. \A v \in Vms : Mapped(v) = {}
  BY DEF Init, Mapped, Walk
<1>2. \A v \in Vms : [page \in Mapped(v) |-> Walk(v, page) - 1] = <<>>
  BY <1>1
<1> QED BY <1>2 DEF space, Abstract!Init

(* The refinement: each iteration of the loop of map_page_table sets one    *)
(* page of the VM being created, and no other operation changes what any    *)
(* guest sees.                                                              *)
THEOREM TablesImplementSpaces == Spec => ImplementsSpaces
<1>1. IInv /\ [Next]_vars => [Abstract!Next]_space
  BY SpaceStep
<1> QED BY SpaceInit, Invariance, <1>1, PTL DEF Spec, ImplementsSpaces, Abstract!Spec
=============================================================================
