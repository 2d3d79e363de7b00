------------------------------ MODULE Stage2Mmu ------------------------------
(***************************************************************************)
(* The memory of the VMs: vm_create with the block allocator of malloc.c,  *)
(* the stage-2 tables of hyp_mmu.c and excl_mmio_assign of virt_mmio.c.    *)
(* The tables are one flat array of words, as the static array page_tables *)
(* is, so that an index can run out of its table.  It all happens on the   *)
(* primary CPU before the others are released.                             *)
(*                                                                         *)
(* Addresses are page numbers (address >> 12).  A word is 0 when invalid   *)
(* and else 1 + the table or page it points to; attributes are left out.   *)
(***************************************************************************)
EXTENDS Naturals, Sequences

CONSTANTS
  Fan,          \* words of a table (512)
  MaxTables,    \* MAX_PAGE_TABLE_NUM
  VmNum,        \* VM_MAX_NUM
  PoolStart,    \* page of _freearea_start
  PoolSize,     \* MEM_BLOCK_NUM
  Layouts,      \* the mmp arrays that a VM may be created with
  ExclDevices,  \* exclusive_devices[1..], as [start, pages]
  None          \* the pointer NULL

(* Pages below 1 GB, where all memory and devices of the machine are. *)
Gigabyte == Fan * Fan
Pages    == 0..(Gigabyte - 1)
Regions  == [start : Pages, pages : Nat]
PagesOf(r) == r.start..(r.start + r.pages - 1)
DevicePages == UNION {PagesOf(ExclDevices[i]) : i \in DOMAIN ExclDevices}

ASSUME SizeAssumption ==
  /\ Fan \in Nat \ {0} /\ MaxTables \in Nat \ {0} /\ VmNum \in Nat
  /\ PoolStart \in Nat /\ PoolSize \in Nat \ {0}
  /\ None \notin Nat
(* mem_end is the last byte of a region, so that none is empty.            *)
ASSUME RegionAssumption ==
  /\ ExclDevices \in Seq(Regions)
  /\ DevicePages \subseteq Pages
  /\ DevicePages \cap (PoolStart..(PoolStart + PoolSize - 1)) = {}
  /\ \A layout \in Layouts :
       /\ layout \in Seq([start : Pages, pages : Nat \ {0}, msg : BOOLEAN])
       /\ \A i \in DOMAIN layout : PagesOf(layout[i]) \subseteq Pages \ DevicePages
(* The regions of an mmp array of guest_vm.c do not overlap.               *)
ASSUME DisjointAssumption ==
  \A layout \in Layouts : \A i, j \in DOMAIN layout :
    i # j => PagesOf(layout[i]) \cap PagesOf(layout[j]) = {}

Vms  == 1..VmNum
Pool == PoolStart..(PoolStart + PoolSize - 1)

VARIABLES
  word,     \* page_tables, word by word
  bottom,   \* bottom_index
  freeTop,  \* free_top_index
  vttbr,    \* vm->vttbr
  vm,       \* the VM being created
  todo,     \* what is left of its mmp array
  devices,  \* what is left of its excl_mmio_opt
  at,       \* map_page_table: the next page and frame, and IA_start + length
  pc,       \* "create", "memory", "map", "panic"
  blocks,   \* what malloc gave to each VM's regions (for properties)
  granted   \* excl_mmio_opt of each VM (for properties)

vars == <<word, bottom, freeTop, vttbr, vm, todo, devices, at, pc, blocks,
          granted>>

Idle == [page |-> 0, frame |-> 0, end |-> 0]

Init ==
  /\ word    = [w \in 0..(MaxTables * Fan - 1) |-> 0]
  /\ bottom  = 0
  /\ freeTop = 0
  /\ vttbr   = [v \in Vms |-> None]
  /\ vm      = 1
  /\ todo    = <<>>
  /\ devices = {}
  /\ at      = Idle
  /\ pc      = "create"
  /\ blocks  = [v \in Vms |-> {}]
  /\ granted = [v \in Vms |-> {}]

-----------------------------------------------------------------------------
(* Tables. *)

LastTableToo(s) == s.bottom < MaxTables

(* The last table is never given away. *)
TableLeft(s) == s.bottom < MaxTables - 1

(* alloc_ttbl: the next table, cleared. *)
alloc_ttbl(s) ==
  [s EXCEPT !.table = s.bottom, !.bottom = @ + 1,
            !.word = [w \in DOMAIN @ |-> IF w \div Fan = s.bottom THEN 0
                                                                 ELSE @[w]]]

DescendAnew(s, index, read) ==
  LET new == alloc_ttbl(s) IN
  IF s.failed \/ ~TableLeft(s)
  THEN [s EXCEPT !.failed = TRUE]
  ELSE [new EXCEPT !.word[s.table * Fan + index] = new.table + 1]

(* One level of map_ttbl: follow the word read at index "read" when the    *)
(* one at "index" is valid, or else link a new table there.                *)
Descend(s, index, read) ==
  LET slot == s.table * Fan + index IN
  IF s.failed THEN s
  ELSE IF s.word[slot] # 0
    THEN [s EXCEPT !.table = s.word[s.table * Fan + read] - 1]
  ELSE IF ~TableLeft(s) THEN [s EXCEPT !.failed = TRUE]
  ELSE LET new == alloc_ttbl(s) IN
       [new EXCEPT !.word[slot] = new.table + 1]

Index1(page) == (page \div Gigabyte) % Fan
Index2(page) == (page \div Fan) % Fan
Index3(page) == page % Fan

(* The reads shift without masking. *)
Leaf(page) ==
  LET root == [word |-> word, bottom |-> bottom, table |-> vttbr[vm],
               failed |-> FALSE]
  IN  Descend(Descend(root, Index1(page), page \div Gigabyte),
              Index2(page), page \div Fan)

map_ttbl(page, frame) ==
  LET leaf == Leaf(page) IN
  /\ bottom' = leaf.bottom
  /\ IF leaf.failed
     THEN word' = leaf.word /\ pc' = "panic"
     ELSE /\ word' = [leaf.word EXCEPT
                        ![leaf.table * Fan + Index3(page)] = frame + 1]
          /\ UNCHANGED pc

-----------------------------------------------------------------------------
(* vm_create *)

Panic == pc' = "panic" /\ UNCHANGED <<word, bottom, freeTop, vttbr, vm, todo,
                                      devices, at, blocks, granted>>

Create ==
  LET s == [word |-> word, bottom |-> bottom, table |-> 0, failed |-> FALSE]
  IN
  /\ pc = "create"
  /\ IF vm \notin Vms \/ ~TableLeft(s)
     THEN Panic
     ELSE /\ word'    = alloc_ttbl(s).word
          /\ bottom'  = alloc_ttbl(s).bottom
          /\ vttbr'   = [vttbr EXCEPT ![vm] = alloc_ttbl(s).table]
          /\ todo'    \in Layouts
          /\ devices' \in SUBSET DOMAIN ExclDevices
          /\ granted' = [granted EXCEPT ![vm] = devices']
          /\ pc'      = "memory"
          /\ UNCHANGED <<freeTop, vm, at, blocks>>

OneBlockLess(n) == n - 1

(* free_top_index grows by the blocks of the region. *)
Blocks(n) == n

(* malloc for the next region of the mmp array. *)
Malloc ==
  /\ pc = "memory"
  /\ todo # <<>>
  /\ LET region == Head(todo)
         frame  == PoolStart + freeTop
     IN  IF freeTop + region.pages > PoolSize - 1
         THEN Panic
         ELSE /\ freeTop' = freeTop + Blocks(region.pages)
              /\ at'      = [page |-> region.start, frame |-> frame,
                             end |-> region.start + region.pages]
              /\ blocks'  = [blocks EXCEPT ![vm] = @ \cup
                               {[start |-> region.start, frame |-> frame,
                                 pages |-> region.pages]}]
              /\ pc'      = "map"
              /\ UNCHANGED <<word, bottom, vttbr, vm, todo, devices, granted>>

OneTooMany == at.page <= at.end

OneTooFew == at.page + 1 < at.end

(* IA_t < IA_start + length *)
MoreToMap == at.page < at.end

MapPage ==
  /\ pc = "map"
  /\ MoreToMap
  /\ map_ttbl(at.page, at.frame)
  /\ at' = [at EXCEPT !.page = @ + 1, !.frame = @ + 1]
  /\ UNCHANGED <<freeTop, vttbr, vm, todo, devices, blocks, granted>>

(* The end of a region; MEM_HYP_VM_MSG maps its first page once more.      *)
(* With todo empty it was a device.                                        *)
RegionDone ==
  /\ pc = "map"
  /\ ~MoreToMap
  /\ IF todo # <<>> /\ Head(todo).msg
     THEN /\ todo' = [todo EXCEPT ![1].msg = FALSE]
          /\ at'   = [page  |-> Head(todo).start,
                      frame |-> at.frame - Head(todo).pages,
                      end   |-> Head(todo).start + 1]
          /\ UNCHANGED pc
     ELSE /\ todo' = IF todo = <<>> THEN todo ELSE Tail(todo)
          /\ at'   = Idle
          /\ pc'   = "memory"
  /\ UNCHANGED <<word, bottom, freeTop, vttbr, vm, devices, blocks, granted>>

(* excl_mmio_assign: nobody ever sets exclusive_devices[i].vm, so the test *)
(* for another owner never stops a device from being mapped.               *)
AssignDevice ==
  /\ pc = "memory"
  /\ todo = <<>>
  /\ \E i \in devices :
       /\ \A j \in devices : i <= j
       /\ devices' = devices \ {i}
       /\ at' = [page |-> ExclDevices[i].start, frame |-> ExclDevices[i].start,
                 end |-> ExclDevices[i].start + ExclDevices[i].pages]
  /\ pc' = "map"
  /\ UNCHANGED <<word, bottom, freeTop, vttbr, vm, todo, blocks, granted>>

(* The next vm_create of init_vm_create. *)
Finish ==
  /\ pc = "memory"
  /\ todo = <<>>
  /\ devices = {}
  /\ vm' = vm + 1
  /\ pc' = "create"
  /\ UNCHANGED <<word, bottom, freeTop, vttbr, todo, devices, at, blocks,
                 granted>>

Next == Create \/ Malloc \/ MapPage \/ RegionDone \/ AssignDevice \/ Finish

Spec == Init /\ [][Next]_vars
-----------------------------------------------------------------------------
(* What the MMU does with the tables: the word for a page, or 0. *)
Walk(v, page) ==
  LET next(pointer, index) ==
        IF pointer = 0 THEN 0 ELSE word[(pointer - 1) * Fan + index]
  IN  IF vttbr[v] = None THEN 0
      ELSE next(next(next(vttbr[v] + 1, Index1(page)), Index2(page)),
                Index3(page))

Mapped(v) == {page \in Pages : Walk(v, page) # 0}

space == [v \in Vms |-> [page \in Mapped(v) |-> Walk(v, page) - 1]]

(* Properties. *)

(* Every variable holds a value of its C type, inside its array. *)
TypeOK ==
  /\ word    \in [0..(MaxTables * Fan - 1) -> Nat]
  /\ bottom  \in 0..(MaxTables - 1)
  /\ freeTop \in 0..(PoolSize - 1)
  /\ vttbr   \in [Vms -> 0..(MaxTables - 1) \cup {None}]
  /\ vm      \in 1..(VmNum + 1)
  /\ devices \subseteq DOMAIN ExclDevices
  /\ at      \in [page : Nat, frame : Nat, end : Nat]
  /\ pc      \in {"create", "memory", "map", "panic"}

(* map_page_table, with tables allocated on demand, changes the page it is *)
(* asked to map and no other page of any VM.                               *)
Abstract == INSTANCE AddressSpaces WITH
              Frames <- Pool \cup DevicePages, space <- space
ImplementsSpaces == Abstract!Spec

(* No two VMs, and no two pages of one, have a page of the pool in common: *)
(* only exclusive devices can be reached from more than one VM.            *)
MemoryIsPrivate ==
  \A v, w \in Vms : \A p \in Mapped(v), q \in Mapped(w) :
    (Walk(v, p) = Walk(w, q) /\ Walk(v, p) - 1 \notin DevicePages)
      => (v = w /\ p = q)

(* A guest reaches the blocks malloc gave to its VM and the devices of its *)
(* excl_mmio_opt, and nothing of the hypervisor or of another VM.          *)
GuestsStayInside ==
  \A v \in Vms : \A p \in Mapped(v) :
    \/ \E b \in blocks[v] : /\ p \in PagesOf(b)
                            /\ Walk(v, p) = 1 + b.frame + p - b.start
    \/ \E i \in granted[v] : p \in PagesOf(ExclDevices[i]) /\ Walk(v, p) = 1 + p

(* vm_create copies the image to consecutive pages of the pool: when it is *)
(* done, the guest finds every page of every region, in this order.        *)
WholeMemoryMapped ==
  pc = "create" =>
    \A v \in 1..(vm - 1) : \A b \in blocks[v] : \A i \in 0..(b.pages - 1) :
      Walk(v, b.start + i) = 1 + b.frame + i
=============================================================================
