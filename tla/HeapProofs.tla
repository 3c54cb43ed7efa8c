----------------------------- MODULE HeapProofs -----------------------------
(***************************************************************************)
(* Proofs about Heap, for every number of pages, slots, bytes, rows and    *)
(* ids and every set of schemas.                                           *)
(***************************************************************************)
EXTENDS Heap, FiniteSetTheorems, WellFoundedInduction, TLAPS

-----------------------------------------------------------------------------
(* Minimum and maximum.                                                    *)

(* A set of numbers has a least one.                                       *)
LEMMA MinIsLeast ==
  ASSUME NEW S \in SUBSET Nat, S # {}
  PROVE  Min(S) \in S /\ \A y \in S : Min(S) <= y
<1>1. \E x \in S : \A y \in S : ~(<<y, x>> \in OpToRel(<, Nat))
  BY NatLessThanWellFounded, WFMin
<1>2. PICK x \in S : \A y \in S : ~(y < x)
  BY <1>1 DEF OpToRel
<1>3. \A y \in S : x <= y
  BY <1>2
<1> QED BY <1>3 DEF Min

(* A set of numbers up to n has a greatest one.                            *)
LEMMA MaxIsGreatest ==
  ASSUME NEW n \in Nat, NEW S \in SUBSET (1 .. n), S # {}
  PROVE  Max(S) \in S /\ \A y \in S : Max(S) >= y
<1> DEFINE T == {n - y : y \in S}
<1>1. T \in SUBSET Nat /\ T # {}
  <2>1. \A y \in S : y \in 1 .. n /\ n - y \in Nat
    OBVIOUS
  <2> QED BY <2>1
<1>2. Min(T) \in T /\ \A z \in T : Min(T) <= z
  BY <1>1, MinIsLeast
<1>3. PICK x \in S : Min(T) = n - x
  BY <1>2
<1>4. \A y \in S : n - x <= n - y
  BY <1>2, <1>3
<1>5. \A y \in S : x >= y
  BY <1>4
<1> QED BY <1>5 DEF Max

(* The larger of two numbers.                                              *)
LEMMA MaxOfTwo ==
  ASSUME NEW a \in Nat, NEW b \in Nat
  PROVE  Max({a, b}) = IF a >= b THEN a ELSE b
BY DEF Max

-----------------------------------------------------------------------------
(* The layout of a tuple.                                                  *)

(* Type::size counts every cell as one byte, so that cell c is written at  *)
(* c - 1 and a tuple takes as many bytes of its page as it has cells.      *)
LEMMA CellPlace ==
  ASSUME NEW s \in Seq({1, 2, 4})
  PROVE  /\ \A c \in DOMAIN s : CellOffset(s, c) = c - 1
         /\ tuple_size(s) = Len(s)
         /\ Len(s) \in Nat /\ DOMAIN s = 1 .. Len(s)
<1>1. Len(s) \in Nat /\ DOMAIN s = 1 .. Len(s) /\ \A i \in DOMAIN s : s[i] \in {1, 2, 4}
  OBVIOUS
<1>2. ASSUME NEW c \in 1 .. (Len(s) + 1)
      PROVE  CellOffset(s, c) = c - 1
  <2>1. {i \in 1 .. (c - 1) : cell_size(s[i])} = 1 .. (c - 1)
    BY <1>1 DEF cell_size
  <2>2. Cardinality(1 .. (c - 1)) = c - 1
    BY FS_Interval
  <2> QED BY <2>1, <2>2 DEF CellOffset
<1>3. \A c \in DOMAIN s : CellOffset(s, c) = c - 1
  BY <1>1, <1>2
<1>4. tuple_size(s) = Len(s)
  BY <1>1, <1>2 DEF tuple_size
<1> QED BY <1>1, <1>3, <1>4

(* What serialize leaves in the bytes b of a page: in front of dest        *)
(* nothing changes, a byte it writes belongs to some cell of the tuple,    *)
(* and the first byte of each cell's place is the low byte of that cell.   *)
LEMMA SerializeWrites ==
  ASSUME NEW s \in Seq({1, 2, 4}), NEW bytes, NEW dest \in Nat, NEW t,
         DOMAIN bytes \subseteq Nat
  PROVE  LET after == tuple_serialize(bytes, dest, s, t)
         IN /\ DOMAIN after = DOMAIN bytes
            /\ after = [b \in DOMAIN bytes |-> after[b]]
            /\ \A b \in DOMAIN bytes : after[b] \in {bytes[b]} \cup ({t} \X Nat \X (0 .. 3))
            /\ \A b \in DOMAIN bytes : b < dest => after[b] = bytes[b]
            /\ \A c \in DOMAIN s : dest + (c - 1) \in DOMAIN bytes =>
                  after[dest + (c - 1)] = <<t, c, 0>>
<1> DEFINE Covers(b) == {c \in DOMAIN s : b - dest \in CellBytes(s, c)}
           after == tuple_serialize(bytes, dest, s, t)
           Lst(b) == Max(Covers(b))
<1>1. /\ \A c \in DOMAIN s : CellOffset(s, c) = c - 1
      /\ Len(s) \in Nat /\ DOMAIN s = 1 .. Len(s) /\ \A c \in DOMAIN s : s[c] \in {1, 2, 4}
  BY CellPlace
<1>2. \A c \in DOMAIN s : CellBytes(s, c) = (c - 1) .. (c + s[c] - 2)
  BY <1>1 DEF CellBytes, value_width
<1>3. after = [b \in DOMAIN bytes |->
                 IF b - dest \in Extent(s)
                 THEN <<t, Lst(b), b - dest - CellOffset(s, Lst(b))>> ELSE bytes[b]]
  BY DEF tuple_serialize
<1>4. \A b : b - dest \in Extent(s) <=> Covers(b) # {}
  BY DEF Extent
<1> HIDE DEF after
<1>5. ASSUME NEW b \in DOMAIN bytes, b - dest \in Extent(s)
      PROVE  /\ Lst(b) \in Covers(b) /\ \A c \in Covers(b) : Lst(b) >= c
             /\ Lst(b) \in Nat /\ b - dest - CellOffset(s, Lst(b)) \in 0 .. 3
             /\ b >= dest
  <2>1. Covers(b) \in SUBSET (1 .. Len(s)) /\ Covers(b) # {}
    BY <1>1, <1>4, <1>5
  <2>2. Lst(b) \in Covers(b) /\ \A c \in Covers(b) : Lst(b) >= c
    BY <1>1, <2>1, MaxIsGreatest
  <2> DEFINE l == Lst(b)
  <2>3. l \in DOMAIN s /\ b - dest \in (l - 1) .. (l + s[l] - 2) /\ CellOffset(s, l) = l - 1
    BY <1>1, <1>2, <2>2
  <2> HIDE DEF l
  <2>4. b - dest - (l - 1) \in 0 .. 3 /\ b >= dest /\ l \in Nat
    BY <1>1, <2>3
  <2> QED BY <2>2, <2>3, <2>4 DEF l
<1>6. ASSUME NEW b \in DOMAIN bytes
      PROVE  after[b] \in {bytes[b]} \cup ({t} \X Nat \X (0 .. 3))
  <2>1. CASE b - dest \in Extent(s)
    <3> DEFINE o == b - dest - CellOffset(s, Lst(b))
    <3>1. Lst(b) \in Nat /\ o \in 0 .. 3
      BY <1>5, <2>1
    <3>2. after[b] = <<t, Lst(b), o>>
      BY <1>3, <2>1
    <3> HIDE DEF o, Lst
    <3> QED BY <3>1, <3>2
  <2>2. CASE b - dest \notin Extent(s)
    BY <1>3, <2>2
  <2> QED BY <2>1, <2>2
<1>7. ASSUME NEW b \in DOMAIN bytes, b < dest PROVE after[b] = bytes[b]
  <2>1. b - dest \notin Extent(s)
    <3>1. SUFFICES ASSUME b - dest \in Extent(s) PROVE FALSE
      OBVIOUS
    <3>2. b >= dest /\ b \in Nat
      BY <1>5, <3>1
    <3> QED BY <1>7, <3>2
  <2> QED BY <1>3, <2>1
<1>8. ASSUME NEW c \in DOMAIN s, dest + (c - 1) \in DOMAIN bytes
      PROVE  after[dest + (c - 1)] = <<t, c, 0>>
  <2> DEFINE b == dest + (c - 1)
  <2>1. b - dest = c - 1 /\ b \in DOMAIN bytes
    BY <1>1, <1>8
  <2>2. c \in Covers(b)
    BY <1>1, <1>2, <2>1
  <2>3. b - dest \in Extent(s)
    BY <1>4, <2>2
  <2>4. Lst(b) \in Covers(b) /\ Lst(b) >= c
    BY <1>5, <2>1, <2>2, <2>3
  <2>5. ASSUME NEW l \in Covers(b) PROVE l <= c
    <3>1. l \in DOMAIN s /\ c - 1 \in (l - 1) .. (l + s[l] - 2)
      BY <1>2, <2>1
    <3> QED BY <1>1, <3>1
  <2>6. Lst(b) = c
    BY <1>1, <2>4, <2>5
  <2>7. after[b] = <<t, Lst(b), b - dest - CellOffset(s, Lst(b))>>
    BY <1>3, <2>1, <2>3
  <2>8. b - dest - CellOffset(s, c) = 0
    BY <1>1, <2>1
  <2> QED BY <2>6, <2>7, <2>8
<1> QED BY <1>3, <1>6, <1>7, <1>8 DEF after

-----------------------------------------------------------------------------
(* The inductive invariant.                                                *)

RootPinned == {"construct", "find", "link", "append"}
PagePinned == {"fill", "append", "finish", "overrun"}
Inserting == {"find", "extend", "link", "take", "fill", "append", "finish"}

(* Which pages are pinned where.                                           *)
PinCount(k) ==
  (IF k = ROOT_PAGE /\ pc \in RootPinned THEN 1 ELSE 0) +
  (IF k = free_disk_page /\ pc \in PagePinned THEN 1 ELSE 0)
PinsOK == pins = [k \in Pages |-> PinCount(k)]

(* Where the object is says how far the insertion has come; it is never on *)
(* a walk along the full list.                                             *)
ControlOK ==
  /\ pc # "walk"
  /\ pc \in Inserting => inserted < MaxRows
  /\ pc \in PagePinned => free_disk_page \in Pages \ {ROOT_PAGE} /\ free_disk_page < size
  /\ pc \notin {"none", "aborted"} => size > 0

(* A page behind the end of the disk is a page of zeros, and a page that   *)
(* differs from the disk is dirty, or the one that insert_tuple fills.     *)
PoolOK == \A k \in Pages :
  /\ k >= size => page[k] = EmptyPage /\ disk[k] = EmptyPage
  /\ page[k] # disk[k] =>
       k \in dirty \/ (k = free_disk_page /\ pc \in {"append", "finish", "overrun"})

(* The lists in the root: once a page was appended to the full list it is  *)
(* the page the free list names, so that nothing is appended again.        *)
ListsOK ==
  /\ pc \in {"extend", "link"} => page[ROOT_PAGE].free = NoPage
  /\ pc = "link" => free_disk_page >= size
  /\ pc = "take" => free_disk_page \in {page[ROOT_PAGE].free} \/ free_disk_page >= size
  /\ pc = "fill" => free_disk_page = page[ROOT_PAGE].free \/ page[free_disk_page].taken = {}
  /\ pc = "append" => /\ free_disk_page = page[ROOT_PAGE].free /\ page[ROOT_PAGE].full = NoPage
                      /\ FreeSlots(page[free_disk_page]) = {}
  /\ pc \in Inserting \cup {"ready"} /\ page[ROOT_PAGE].full # NoPage =>
       /\ page[ROOT_PAGE].free \in Pages
       /\ FreeSlots(page[page[ROOT_PAGE].free]) = {}

(* The rows of a page, and the one that insert_tuple is about to return.   *)
RowsOf(R, k) == {r \in R : r.page = k}
NewRow == [row |-> inserted + 1, page |-> free_disk_page, slot |-> slot]
Pending(k) == IF pc \in {"append", "finish"} /\ k = free_disk_page THEN {NewRow} ELSE {}

(* The low bytes of tuple r are in page p, which has the room for them.    *)
LowByte(r, c) == r.slot * tuple_size(cols) + CellOffset(cols, c)
Kept(p, r) ==
  /\ r.slot \in p.taken
  /\ \A c \in DOMAIN cols :
       LowByte(r, c) \in ByteIndex /\ p.bytes[LowByte(r, c)] = <<r.row, c, 0>>

(* Page p holds exactly the tuples of R, in its first slots.               *)
Stored(p, R) ==
  /\ p.taken = {r.slot : r \in R}
  /\ \A i \in p.taken : 0 .. (i - 1) \subseteq p.taken
  /\ \A r \in R : Kept(p, r)

MemoryOK == \A k \in Pages :
  IF pc = "overrun" /\ k = free_disk_page THEN \A r \in RowsOf(rows, k) : Kept(page[k], r)
  ELSE Stored(page[k], RowsOf(rows, k) \cup Pending(k))
DiskOK == \A k \in Pages : Stored(disk[k], RowsOf(saved, k))

HInv == TypeOK /\ PinsOK /\ ControlOK /\ PoolOK /\ ListsOK /\ MemoryOK /\ DiskOK

-----------------------------------------------------------------------------
(* Facts the steps share.                                                  *)

(* The page of zeros holds no tuple.                                       *)
LEMMA EmptyHoldsNothing ==
  EmptyPage \in HeapPage /\ EmptyPage.taken = {} /\ Stored(EmptyPage, {})
<1>1. 0 \in Pages /\ Blank \in Cells
  BY MaxPagesAssumption DEF Pages, Cells
<1>2. [b \in ByteIndex |-> Blank] \in [ByteIndex -> Cells]
  BY <1>1
<1>3. EmptyPage \in HeapPage
  BY <1>1, <1>2 DEF EmptyPage, HeapPage, HEAP_PAGE_START_STAMP
<1>4. EmptyPage.taken = {}
  BY DEF EmptyPage
<1> QED BY <1>3, <1>4 DEF Stored

(* The invariant holds of a disk nobody has written to.                    *)
LEMMA InitHInv == Init => HInv
<1> SUFFICES ASSUME Init PROVE HInv
  OBVIOUS
<1>1. /\ page = [k \in Pages |-> EmptyPage] /\ disk = page /\ dirty = {}
      /\ pins = [k \in Pages |-> 0] /\ size = 0
  BY DEF Init, PoolInit
<1>2. /\ cols \in Schemas /\ m_disk_id = 0 /\ next_id \in FirstIds
      /\ free_disk_page = 0 /\ slot = 0 /\ pc = "none" /\ inserted = 0 /\ rows = {} /\ saved = {}
  BY DEF Init, ROOT_PAGE
<1>3. TypeOK
  <2>1. PoolTypeOK(HeapPage)
    BY <1>1, EmptyHoldsNothing, MaxPagesAssumption DEF PoolTypeOK
  <2> QED BY <1>2, <2>1, SlotsAssumption, IdsAssumption DEF TypeOK, Bits
<1>4. PinsOK
  BY <1>1, <1>2 DEF PinsOK, PinCount, RootPinned, PagePinned
<1>5. ControlOK /\ ListsOK
  BY <1>2 DEF ControlOK, ListsOK, Inserting, PagePinned
<1>6. PoolOK
  BY <1>1 DEF PoolOK
<1>7. \A k \in Pages : RowsOf(rows, k) = {} /\ RowsOf(saved, k) = {} /\ Pending(k) = {}
  BY <1>2 DEF RowsOf, Pending
<1>8. MemoryOK /\ DiskOK
  BY <1>1, <1>2, <1>7, EmptyHoldsNothing DEF MemoryOK, DiskOK
<1> QED BY <1>3, <1>4, <1>5, <1>6, <1>8 DEF HInv

(* The types, as the steps below use them.                                 *)
LEMMA Types ==
  ASSUME TypeOK
  PROVE  /\ page \in [Pages -> HeapPage] /\ disk \in [Pages -> HeapPage]
         /\ dirty \subseteq Pages /\ pins \in [Pages -> Nat] /\ size \in 0 .. MaxPages
         /\ size \in Nat /\ MaxPages \in Nat \ {0} /\ Pages = 0 .. (MaxPages - 1)
         /\ ROOT_PAGE \in Pages /\ ROOT_PAGE = 0
         /\ rows \subseteq RowType /\ saved \subseteq rows
         /\ cols \in Schemas /\ cols \in Seq({1, 2, 4})
         /\ slot \in Bits /\ free_disk_page \in Int /\ inserted \in 0 .. MaxRows
BY MaxPagesAssumption, SchemasAssumption DEF TypeOK, PoolTypeOK, Pages, ROOT_PAGE

(* Losing memory leaves what is on the disk, so that an object that was    *)
(* destructed, aborted or killed leaves the invariant.                     *)
LEMMA LoseKeeps ==
  ASSUME HInv, Lose, pc' \in {"none", "aborted"}, m_disk_id' \in Nat, next_id' \in Nat
  PROVE  HInv'
<1>1. /\ page' = disk /\ disk' = disk /\ dirty' = {} /\ pins' = [k \in Pages |-> 0]
      /\ size' = size /\ rows' = saved /\ saved' = saved /\ cols' = cols
      /\ inserted' = inserted /\ free_disk_page' = 0 /\ slot' = 0
  BY DEF Lose, Forget, ROOT_PAGE
<1>2. TypeOK /\ PoolOK /\ DiskOK
  BY DEF HInv
<1>3. TypeOK'
  <2>1. PoolTypeOK(HeapPage)'
    BY <1>1, <1>2, Types DEF PoolTypeOK, HeapPage
  <2>2. 0 \in Bits
    BY SlotsAssumption DEF Bits
  <2> QED BY <1>1, <1>2, <2>1, <2>2, Types DEF TypeOK
<1>4. PinsOK' /\ ControlOK' /\ ListsOK'
  BY <1>1 DEF PinsOK, PinCount, RootPinned, PagePinned, ControlOK, ListsOK, Inserting
<1>5. PoolOK'
  BY <1>1, <1>2 DEF PoolOK
<1>6. \A k \in Pages : Pending(k)' = {}
  BY DEF Pending
<1>7. DiskOK'
  BY <1>1, <1>2 DEF DiskOK, Stored, Kept, LowByte
<1>8. MemoryOK'
  BY <1>1, <1>2, <1>6 DEF MemoryOK, DiskOK, Stored, Kept, LowByte, RowsOf
<1> QED BY <1>3, <1>4, <1>5, <1>7, <1>8 DEF HInv

(* A page that leaves memory is the page that is on the disk afterwards.   *)
LEMMA EvictKeeps ==
  ASSUME HInv, NEW k \in Pages, EvictPage(k)
  PROVE  HInv'
<1>1. /\ TypeOK /\ PinsOK /\ ControlOK /\ PoolOK /\ ListsOK /\ MemoryOK /\ DiskOK
  BY DEF HInv
<1>2. /\ pins[k] = 0 /\ pins' = pins /\ size' = size /\ dirty' = dirty \ {k}
      /\ disk' = IF k \in dirty THEN [disk EXCEPT ![k] = page[k]] ELSE disk
      /\ page' = [page EXCEPT ![k] = disk'[k]]
      /\ saved' = IF k \in dirty THEN saved \cup {r \in rows : r.page = k} ELSE saved
      /\ UNCHANGED <<obj, cols, inserted, rows>>
  BY DEF EvictPage, Evict
<1>3. page[k] # disk[k] => k \in dirty
  BY <1>1, <1>2 DEF PoolOK, PinsOK, PinCount, PagePinned
<1>4. disk' \in [Pages -> HeapPage] /\ disk'[k] = page[k]
  BY <1>1, <1>2, <1>3, Types
<1>5. page' = page
  BY <1>1, <1>2, <1>4, Types
<1>6. TypeOK'
  BY <1>1, <1>2, <1>4, <1>5 DEF TypeOK, PoolTypeOK, obj
<1>7. PinsOK'
  BY <1>1, <1>2 DEF PinsOK, PinCount, obj
<1>8. ControlOK' /\ ListsOK'
  BY <1>1, <1>2, <1>5 DEF ControlOK, ListsOK, obj
<1>9. PoolOK'
  BY <1>1, <1>2, <1>4, <1>5, Types DEF PoolOK, obj
<1>10. MemoryOK'
  <2>1. UNCHANGED <<pc, free_disk_page, slot, inserted, rows, cols>>
    BY <1>2 DEF obj
  <2>2. \A j \in Pages : RowsOf(rows, j)' = RowsOf(rows, j) /\ Pending(j)' = Pending(j)
    BY <2>1 DEF RowsOf, Pending, NewRow
  <2>3. ASSUME NEW j \in Pages, NEW r, Kept(page[j], r) PROVE Kept(page[j], r)'
    BY <1>5, <2>1, <2>3 DEF Kept, LowByte
  <2>4. ASSUME NEW j \in Pages, Stored(page[j], RowsOf(rows, j) \cup Pending(j))
        PROVE  Stored(page[j], RowsOf(rows, j) \cup Pending(j))'
    BY <1>5, <2>2, <2>3, <2>4 DEF Stored
  <2> QED BY <1>1, <2>1, <2>2, <2>3, <2>4 DEF MemoryOK
<1>11. DiskOK'
  <2>1. CASE k \notin dirty
    BY <1>1, <1>2, <2>1 DEF DiskOK, Stored, Kept, LowByte
  <2>2. CASE k \in dirty
    <3>1. ~(pc \in PagePinned /\ k = free_disk_page)
      BY <1>1, <1>2 DEF PinsOK, PinCount
    <3>2. Stored(page[k], RowsOf(rows, k))
      BY <1>1, <3>1 DEF MemoryOK, Pending, PagePinned
    <3>3. RowsOf(saved', k) = RowsOf(rows, k)
      BY <1>1, <1>2, <2>2, Types DEF RowsOf
    <3>4. \A j \in Pages \ {k} : RowsOf(saved', j) = RowsOf(saved, j) /\ disk'[j] = disk[j]
      BY <1>1, <1>2, <2>2, Types DEF RowsOf
    <3>5. \A j \in Pages : Stored(disk'[j], RowsOf(saved', j))
      BY <1>1, <1>4, <3>2, <3>3, <3>4 DEF DiskOK
    <3> QED BY <1>2, <3>5 DEF DiskOK, Stored, Kept, LowByte, RowsOf
  <2> QED BY <2>1, <2>2
<1> QED BY <1>6, <1>7, <1>8, <1>9, <1>10, <1>11 DEF HInv

-----------------------------------------------------------------------------
(* The steps of the object.                                                *)

(* A step that writes nothing to the disk keeps what is there.             *)
LEMMA DiskKept ==
  ASSUME DiskOK, UNCHANGED <<cols, saved, disk>>
  PROVE  DiskOK'
BY DEF DiskOK, Stored, Kept, LowByte, RowsOf

(* A step that changes no bitmap, no tuple and no history variable keeps   *)
(* what the pages hold.                                                    *)
LEMMA ContentKept ==
  ASSUME MemoryOK, DiskOK, UNCHANGED <<cols, rows, saved, disk>>,
         \A k \in Pages : /\ page'[k].taken = page[k].taken
                          /\ page'[k].bytes = page[k].bytes
                          /\ Pending(k)' = Pending(k),
         pc # "overrun", pc' # "overrun"
  PROVE  MemoryOK' /\ DiskOK'
<1>1. DiskOK'
  BY DiskKept
<1>2. ASSUME NEW k \in Pages
      PROVE  Stored(page[k], RowsOf(rows, k) \cup Pending(k))'
  <2>1. Stored(page[k], RowsOf(rows, k) \cup Pending(k))
    BY DEF MemoryOK
  <2>2. (RowsOf(rows, k) \cup Pending(k))' = RowsOf(rows, k) \cup Pending(k)
    BY DEF RowsOf
  <2>3. /\ page'[k].taken = page[k].taken /\ page'[k].bytes = page[k].bytes
    OBVIOUS
  <2> DEFINE R == RowsOf(rows, k) \cup Pending(k)
  <2>4. Stored(page[k], R) /\ R' = R
    BY <2>1, <2>2
  <2> HIDE DEF R
  <2>5. Stored(page[k], R)'
    BY <2>3, <2>4 DEF Stored, Kept, LowByte
  <2> QED BY <2>5 DEF R
<1>3. MemoryOK'
  BY <1>2 DEF MemoryOK
<1> QED BY <1>1, <1>3

(* A page is pinned and nothing else in the pool changes.                  *)
LEMMA PinKeeps ==
  ASSUME TypeOK, PoolOK, NEW k \in Pages, pin(k), pc \notin {"append", "finish", "overrun"}
  PROVE  /\ UNCHANGED <<page, disk, dirty>>
         /\ pins' = [pins EXCEPT ![k] = @ + 1] /\ pins' \in [Pages -> Nat]
         /\ size' = (IF size >= k + 1 THEN size ELSE k + 1)
         /\ size' \in 0 .. MaxPages /\ k < size' /\ size <= size'
         /\ PoolTypeOK(HeapPage)' /\ PoolOK'
<1>1. /\ UNCHANGED <<page, disk, dirty>> /\ pins' = [pins EXCEPT ![k] = @ + 1]
      /\ size' = Max({size, k + 1})
  BY DEF pin
<1>2. k \in Nat /\ k + 1 \in Nat /\ k + 1 <= MaxPages
  BY Types
<1>3. size' = (IF size >= k + 1 THEN size ELSE k + 1)
  BY <1>1, <1>2, MaxOfTwo, Types
<1>4. size' \in 0 .. MaxPages /\ k < size' /\ size <= size'
  BY <1>2, <1>3, Types
<1>5. pins' \in [Pages -> Nat]
  BY <1>1, Types
<1>6. PoolTypeOK(HeapPage)'
  BY <1>1, <1>4, <1>5, Types DEF PoolTypeOK, HeapPage
<1>7. \A j \in Pages : j >= size' => j >= size
  BY <1>4, Types
<1>8. PoolOK'
  BY <1>1, <1>7 DEF PoolOK
<1> QED BY <1>1, <1>3, <1>4, <1>5, <1>6, <1>8

(* The constructor pins the root.                                          *)
LEMMA ConstructKeeps == HInv /\ Construct => HInv'
<1> SUFFICES ASSUME HInv, Construct PROVE HInv'
  OBVIOUS
<1>1. TypeOK /\ PinsOK /\ ControlOK /\ PoolOK /\ ListsOK /\ MemoryOK /\ DiskOK
  BY DEF HInv
<1>2. /\ pc = "none" /\ pc' = "construct" /\ pin(ROOT_PAGE)
      /\ m_disk_id' = next_id /\ next_id' = next_id + 1
      /\ UNCHANGED <<cols, inserted, rows, saved, free_disk_page, slot>>
  BY DEF Construct, KeepLocals
<1>3. ROOT_PAGE \in Pages /\ ROOT_PAGE = 0
  BY <1>1, Types
<1>4. /\ UNCHANGED <<page, disk, dirty>> /\ pins' = [pins EXCEPT ![ROOT_PAGE] = @ + 1]
      /\ size' > 0 /\ PoolTypeOK(HeapPage)' /\ PoolOK'
  BY <1>1, <1>2, <1>3, PinKeeps, Types
<1>5. TypeOK'
  BY <1>1, <1>2, <1>4 DEF TypeOK
<1>6. PinsOK'
  BY <1>1, <1>2, <1>4 DEF PinsOK, PinCount, RootPinned, PagePinned
<1>7. ControlOK' /\ ListsOK'
  BY <1>2, <1>4 DEF ControlOK, ListsOK, Inserting, PagePinned
<1>8. MemoryOK' /\ DiskOK'
  BY <1>1, <1>2, <1>4, ContentKept DEF Pending
<1> QED BY <1>4, <1>5, <1>6, <1>7, <1>8 DEF HInv

(* insert_tuple pins the root.                                             *)
LEMMA InsertKeeps == HInv /\ insert_tuple => HInv'
<1> SUFFICES ASSUME HInv, insert_tuple PROVE HInv'
  OBVIOUS
<1>1. TypeOK /\ PinsOK /\ ControlOK /\ PoolOK /\ ListsOK /\ MemoryOK /\ DiskOK
  BY DEF HInv
<1>2. /\ pc = "ready" /\ pc' = "find" /\ inserted < MaxRows /\ pin(ROOT_PAGE)
      /\ UNCHANGED <<cols, m_disk_id, next_id, inserted, rows, saved, free_disk_page, slot>>
  BY DEF insert_tuple, Goto, KeepLocals
<1>3. ROOT_PAGE \in Pages /\ ROOT_PAGE = 0
  BY <1>1, Types
<1>4. /\ UNCHANGED <<page, disk, dirty>> /\ pins' = [pins EXCEPT ![ROOT_PAGE] = @ + 1]
      /\ size' > 0 /\ PoolTypeOK(HeapPage)' /\ PoolOK'
  BY <1>1, <1>2, <1>3, PinKeeps, Types
<1>5. TypeOK'
  BY <1>1, <1>2, <1>4 DEF TypeOK
<1>6. PinsOK'
  BY <1>1, <1>2, <1>4 DEF PinsOK, PinCount, RootPinned, PagePinned
<1>7. ControlOK' /\ ListsOK'
  BY <1>1, <1>2, <1>4 DEF ControlOK, ListsOK, Inserting, PagePinned, FreeSlots
<1>8. MemoryOK' /\ DiskOK'
  BY <1>1, <1>2, <1>4, ContentKept DEF Pending
<1> QED BY <1>4, <1>5, <1>6, <1>7, <1>8 DEF HInv

(* find_free_page unpins the root, with the page it names or with none.    *)
LEMMA FindKeeps == HInv /\ find_free_page => HInv'
<1> SUFFICES ASSUME HInv, find_free_page PROVE HInv'
  OBVIOUS
<1>1. TypeOK /\ PinsOK /\ ControlOK /\ PoolOK /\ ListsOK /\ MemoryOK /\ DiskOK
  BY DEF HInv
<1> DEFINE free_list == page[ROOT_PAGE].free
<1>2. /\ pc = "find" /\ pins' = [pins EXCEPT ![ROOT_PAGE] = @ - 1]
      /\ \/ free_list = NoPage /\ pc' = "extend" /\ free_disk_page' = free_disk_page
         \/ free_list # NoPage /\ pc' = "take" /\ free_disk_page' = free_list
      /\ UNCHANGED <<page, disk, dirty, size, cols, m_disk_id, next_id, inserted, rows, saved, slot>>
  BY DEF find_free_page, Goto, unpin
<1>3. free_list \in Int /\ ROOT_PAGE \in Pages
  BY <1>1, Types DEF HeapPage, NoPage
<1>4. pins[ROOT_PAGE] = 1 /\ pins' \in [Pages -> Nat]
      /\ \A k \in Pages \ {ROOT_PAGE} : pins'[k] = pins[k]
  BY <1>1, <1>2, <1>3, Types DEF PinsOK, PinCount, RootPinned, PagePinned
<1>5. TypeOK'
  BY <1>1, <1>2, <1>3, <1>4 DEF TypeOK, PoolTypeOK, HeapPage
<1>6. PinsOK'
  <2>1. \A k \in Pages : pins'[k] = 0
    BY <1>1, <1>2, <1>4, Types DEF PinsOK, PinCount, RootPinned, PagePinned
  <2>2. pc' \notin RootPinned \cup PagePinned
    BY <1>2 DEF RootPinned, PagePinned
  <2> QED BY <1>4, <2>1, <2>2 DEF PinsOK, PinCount
<1>7. ControlOK' /\ ListsOK'
  BY <1>1, <1>2 DEF ControlOK, ListsOK, Inserting, PagePinned, FreeSlots
<1>8. MemoryOK' /\ DiskOK'
  BY <1>1, <1>2, ContentKept DEF Pending
<1>9. PoolOK'
  BY <1>1, <1>2 DEF PoolOK
<1> QED BY <1>5, <1>6, <1>7, <1>8, <1>9 DEF HInv

(* The root is changed to p, outside its bitmap and bytes, marked dirty    *)
(* and unpinned.                                                           *)
LEMMA RootUpdateKeeps ==
  ASSUME HInv, pc \in RootPinned,
         NEW p \in HeapPage, p.taken = page[ROOT_PAGE].taken, p.bytes = page[ROOT_PAGE].bytes,
         page' = [page EXCEPT ![ROOT_PAGE] = p], dirty' = dirty \cup {ROOT_PAGE},
         unpin(ROOT_PAGE),
         UNCHANGED <<disk, size, cols, m_disk_id, next_id, inserted, rows, saved, free_disk_page,
                     slot>>,
         \/ pc \in {"construct", "link"} /\ pc' \in {"ready", "take"}
         \/ pc = "append" /\ pc' = "finish"
  PROVE  /\ TypeOK' /\ PinsOK' /\ PoolOK' /\ MemoryOK' /\ DiskOK'
         /\ page'[ROOT_PAGE] = p /\ \A k \in Pages \ {ROOT_PAGE} : page'[k] = page[k]
<1>1. TypeOK /\ PinsOK /\ ControlOK /\ PoolOK /\ ListsOK /\ MemoryOK /\ DiskOK
  BY DEF HInv
<1>2. ROOT_PAGE \in Pages /\ ROOT_PAGE = 0
  BY <1>1, Types
<1>3. /\ page' \in [Pages -> HeapPage]
      /\ page'[ROOT_PAGE] = p /\ \A k \in Pages \ {ROOT_PAGE} : page'[k] = page[k]
  BY <1>1, <1>2, Types
<1>4. pc \in PagePinned => free_disk_page # ROOT_PAGE
  BY <1>1 DEF ControlOK
<1>5. \A k \in Pages : pins[k] = PinCount(k)
  BY <1>1 DEF PinsOK
<1>6. pins[ROOT_PAGE] = 1 /\ pins' = [pins EXCEPT ![ROOT_PAGE] = @ - 1]
  BY <1>2, <1>4, <1>5 DEF unpin, PinCount
<1>7. pins' \in [Pages -> Nat]
  BY <1>1, <1>2, <1>6, Types
<1>8. \A k \in Pages : pins'[k] = PinCount(k)'
  <2>1. PinCount(ROOT_PAGE)' = 0 /\ pins'[ROOT_PAGE] = 0
    BY <1>1, <1>2, <1>4, <1>6, Types DEF PinCount, RootPinned, PagePinned
  <2>2. ASSUME NEW k \in Pages \ {ROOT_PAGE} PROVE pins'[k] = PinCount(k)'
    BY <1>1, <1>2, <1>5, <1>6, Types DEF PinCount, RootPinned, PagePinned
  <2> QED BY <2>1, <2>2
<1>9. PinsOK'
  BY <1>7, <1>8 DEF PinsOK
<1>10. TypeOK'
  <2>1. PoolTypeOK(HeapPage)'
    BY <1>1, <1>2, <1>3, <1>7, Types DEF PoolTypeOK, HeapPage
  <2> QED BY <1>1, <2>1 DEF TypeOK
<1>11. PoolOK'
  <2>1. size > 0 /\ size \in Nat
    BY <1>1, Types DEF ControlOK, RootPinned
  <2>2. ASSUME NEW k \in Pages, k >= size
        PROVE  page'[k] = EmptyPage /\ disk'[k] = EmptyPage
    BY <1>1, <1>2, <1>3, <2>1, <2>2 DEF PoolOK
  <2>3. ASSUME NEW k \in Pages, page'[k] # disk'[k]
        PROVE  k \in dirty' \/ (k = free_disk_page' /\ pc' \in {"append", "finish", "overrun"})
    BY <1>1, <1>2, <1>3, <2>3 DEF PoolOK
  <2> QED BY <2>2, <2>3 DEF PoolOK
<1>12. MemoryOK' /\ DiskOK'
  <2>1. \A k \in Pages : Pending(k)' = Pending(k)
    BY DEF Pending, NewRow
  <2> QED BY <1>1, <1>3, <2>1, ContentKept
<1> QED BY <1>3, <1>9, <1>10, <1>11, <1>12

(* The constructor empties the lists.                                      *)
LEMMA ConstructedKeeps == HInv /\ Constructed => HInv'
<1> SUFFICES ASSUME HInv, Constructed PROVE HInv'
  OBVIOUS
<1> DEFINE p == FreshRoot(page[ROOT_PAGE])
<1>1. TypeOK /\ ControlOK /\ ListsOK
  BY DEF HInv
<1>2. ROOT_PAGE \in Pages /\ page[ROOT_PAGE] \in HeapPage
  BY <1>1, Types
<1>3. /\ p \in HeapPage /\ p.taken = page[ROOT_PAGE].taken /\ p.bytes = page[ROOT_PAGE].bytes
      /\ p.full = NoPage
  BY <1>2 DEF FreshRoot, HeapPage
<1>4. /\ pc = "construct" /\ pc' = "ready" /\ page' = [page EXCEPT ![ROOT_PAGE] = p]
      /\ dirty' = dirty \cup {ROOT_PAGE} /\ unpin(ROOT_PAGE)
      /\ UNCHANGED <<disk, size, cols, m_disk_id, next_id, inserted, rows, saved, free_disk_page,
                     slot>>
  BY DEF Constructed, UpdateAndUnpin, Goto, KeepLocals
<1> HIDE DEF p
<1>5. /\ TypeOK' /\ PinsOK' /\ PoolOK' /\ MemoryOK' /\ DiskOK' /\ page'[ROOT_PAGE] = p
  BY <1>3, <1>4, RootUpdateKeeps DEF RootPinned
<1>6. ControlOK'
  BY <1>1, <1>4 DEF ControlOK, Inserting, PagePinned
<1>7. ListsOK'
  BY <1>3, <1>4, <1>5 DEF ListsOK, Inserting
<1> QED BY <1>5, <1>6, <1>7 DEF HInv

(* The disk is extended and the root pinned, or the exception leaves.      *)
LEMMA ExtendKeeps == HInv /\ Extend => HInv'
<1> SUFFICES ASSUME HInv, Extend PROVE HInv'
  OBVIOUS
<1>1. TypeOK /\ PinsOK /\ ControlOK /\ PoolOK /\ ListsOK /\ MemoryOK /\ DiskOK
  BY DEF HInv
<1>2. /\ pc = "extend"
      /\ UNCHANGED <<slot, cols, m_disk_id, next_id, inserted, rows, saved>>
  BY DEF Extend, Goto
<1>3. ROOT_PAGE \in Pages /\ ROOT_PAGE = 0 /\ size \in Nat
  BY <1>1, Types
<1>4. CASE free_disk_page' = size + 1 /\ pin(ROOT_PAGE) /\ pc' = "link"
  <2>1. /\ UNCHANGED <<page, disk, dirty>> /\ pins' = [pins EXCEPT ![ROOT_PAGE] = @ + 1]
        /\ size' = (IF size >= ROOT_PAGE + 1 THEN size ELSE ROOT_PAGE + 1)
        /\ PoolTypeOK(HeapPage)' /\ PoolOK'
    BY <1>1, <1>2, <1>3, <1>4, PinKeeps
  <2>2. size > 0 /\ size' = size
    BY <1>1, <1>2, <1>3, <2>1 DEF ControlOK
  <2>3. TypeOK'
    BY <1>1, <1>2, <1>3, <1>4, <2>1 DEF TypeOK
  <2>4. PinsOK'
    <3>1. \A k \in Pages : pins[k] = 0
      BY <1>1, <1>2 DEF PinsOK, PinCount, RootPinned, PagePinned
    <3>2. \A k \in Pages : pins'[k] = IF k = ROOT_PAGE THEN 1 ELSE 0
      BY <1>1, <1>3, <2>1, <3>1, Types
    <3>3. \A k \in Pages : PinCount(k)' = IF k = ROOT_PAGE THEN 1 ELSE 0
      BY <1>4 DEF PinCount, RootPinned, PagePinned
    <3>4. pins' = [k \in Pages |-> IF k = ROOT_PAGE THEN 1 ELSE 0]
      BY <1>1, <2>1, <3>2, Types
    <3> QED BY <3>3, <3>4 DEF PinsOK
  <2>5. ControlOK'
    BY <1>1, <1>2, <1>4, <2>2 DEF ControlOK, Inserting, PagePinned
  <2>6. ListsOK'
    BY <1>1, <1>2, <1>3, <1>4, <2>1, <2>2 DEF ListsOK, Inserting, FreeSlots
  <2>7. MemoryOK' /\ DiskOK'
    BY <1>1, <1>2, <1>4, <2>1, ContentKept DEF Pending
  <2> QED BY <2>1, <2>3, <2>4, <2>5, <2>6, <2>7 DEF HInv
<1>5. CASE pc' = "ready" /\ UNCHANGED <<free_disk_page, pool>>
  <2>1. UNCHANGED <<page, disk, dirty, pins, size, free_disk_page>>
    BY <1>5 DEF pool
  <2>2. TypeOK'
    BY <1>1, <1>2, <1>5, <2>1 DEF TypeOK, PoolTypeOK
  <2>3. PinsOK'
    BY <1>1, <1>2, <1>5, <2>1 DEF PinsOK, PinCount, RootPinned, PagePinned
  <2>4. ControlOK' /\ ListsOK' /\ PoolOK'
    BY <1>1, <1>2, <1>5, <2>1 DEF ControlOK, ListsOK, PoolOK, Inserting, PagePinned, FreeSlots
  <2>5. MemoryOK' /\ DiskOK'
    BY <1>1, <1>2, <1>5, <2>1, ContentKept DEF Pending
  <2> QED BY <2>2, <2>3, <2>4, <2>5 DEF HInv
<1> QED BY <1>4, <1>5 DEF Extend, Goto

(* The free list, which was empty, gets a head; the full list was empty    *)
(* too.                                                                    *)
LEMMA LinkKeeps == HInv /\ Link => HInv'
<1> SUFFICES ASSUME HInv, Link PROVE HInv'
  OBVIOUS
<1> DEFINE p == [page[ROOT_PAGE] EXCEPT !.free = m_disk_id]
<1>1. TypeOK /\ ControlOK /\ ListsOK
  BY DEF HInv
<1>2. ROOT_PAGE \in Pages /\ page[ROOT_PAGE] \in HeapPage /\ m_disk_id \in Nat
  BY <1>1, Types DEF TypeOK
<1>3. /\ p \in HeapPage /\ p.taken = page[ROOT_PAGE].taken /\ p.bytes = page[ROOT_PAGE].bytes
      /\ p.full = page[ROOT_PAGE].full
  BY <1>2 DEF HeapPage
<1>4. /\ pc = "link" /\ pc' = "take" /\ page' = [page EXCEPT ![ROOT_PAGE] = p]
      /\ dirty' = dirty \cup {ROOT_PAGE} /\ unpin(ROOT_PAGE)
      /\ UNCHANGED <<disk, size, cols, m_disk_id, next_id, inserted, rows, saved, free_disk_page,
                     slot>>
  BY DEF Link, UpdateAndUnpin, Goto, KeepLocals
<1>5. page[ROOT_PAGE].full = NoPage /\ free_disk_page >= size
  BY <1>1, <1>4 DEF ListsOK, Inserting, NoPage, Pages
<1> HIDE DEF p
<1>6. /\ TypeOK' /\ PinsOK' /\ PoolOK' /\ MemoryOK' /\ DiskOK' /\ page'[ROOT_PAGE] = p
  BY <1>3, <1>4, RootUpdateKeeps DEF RootPinned
<1>7. ControlOK'
  BY <1>1, <1>4 DEF ControlOK, Inserting, PagePinned
<1>8. ListsOK'
  BY <1>3, <1>4, <1>5, <1>6 DEF ListsOK, Inserting
<1> QED BY <1>6, <1>7, <1>8 DEF HInv

(* The page to fill is pinned, or the assertion fails.                     *)
LEMMA TakeKeeps == HInv /\ Take => HInv'
<1> SUFFICES ASSUME HInv, Take PROVE HInv'
  OBVIOUS
<1>1. TypeOK /\ PinsOK /\ ControlOK /\ PoolOK /\ ListsOK /\ MemoryOK /\ DiskOK
  BY DEF HInv
<1> DEFINE f == free_disk_page
<1>2. pc = "take"
  BY DEF Take
<1>3. CASE f \in Pages \ {ROOT_PAGE} /\ pin(f) /\ Goto("fill") /\ KeepLocals
  <2>1. /\ pc' = "fill"
        /\ UNCHANGED <<free_disk_page, slot, cols, m_disk_id, next_id, inserted, rows, saved>>
    BY <1>3 DEF Goto, KeepLocals
  <2>2. /\ UNCHANGED <<page, disk, dirty>> /\ pins' = [pins EXCEPT ![f] = @ + 1]
        /\ f < size' /\ PoolTypeOK(HeapPage)' /\ PoolOK' /\ size' \in Nat
    BY <1>1, <1>2, <1>3, PinKeeps
  <2>3. TypeOK'
    BY <1>1, <2>1, <2>2 DEF TypeOK
  <2>4. PinsOK'
    <3>1. \A k \in Pages : pins[k] = 0
      BY <1>1, <1>2 DEF PinsOK, PinCount, RootPinned, PagePinned
    <3>2. \A k \in Pages : pins'[k] = IF k = f THEN 1 ELSE 0
      BY <1>1, <1>3, <2>2, <3>1, Types
    <3>3. \A k \in Pages : PinCount(k)' = IF k = f THEN 1 ELSE 0
      BY <2>1 DEF PinCount, RootPinned, PagePinned
    <3>4. pins' = [k \in Pages |-> IF k = f THEN 1 ELSE 0]
      BY <1>1, <2>2, <3>2, Types
    <3> QED BY <3>3, <3>4 DEF PinsOK
  <2>5. ControlOK'
    <3>1. f \in Nat
      BY <1>3, <1>1, Types
    <3> QED BY <1>1, <1>2, <1>3, <2>1, <2>2, <3>1 DEF ControlOK, Inserting, PagePinned
  <2>6. ListsOK'
    <3>1. f >= size => page[f].taken = {}
      BY <1>1, <1>3, EmptyHoldsNothing DEF PoolOK
    <3> QED BY <1>1, <1>2, <2>1, <2>2, <3>1 DEF ListsOK, Inserting, FreeSlots
  <2>7. MemoryOK' /\ DiskOK'
    BY <1>1, <1>2, <2>1, <2>2, ContentKept DEF Pending
  <2> QED BY <2>2, <2>3, <2>4, <2>5, <2>6, <2>7 DEF HInv
<1>4. CASE Abort
  BY <1>1, <1>4, LoseKeeps DEF Abort, TypeOK
<1> QED BY <1>3, <1>4 DEF Take

(* append_to_full_pages finds the full list empty: it names the page that  *)
(* is full, which is the one the free list names.                          *)
LEMMA AppendKeeps == HInv /\ append_to_full_pages => HInv'
<1> SUFFICES ASSUME HInv, append_to_full_pages PROVE HInv'
  OBVIOUS
<1>1. TypeOK /\ ControlOK /\ ListsOK
  BY DEF HInv
<1> DEFINE f == free_disk_page
           p == [page[ROOT_PAGE] EXCEPT !.full = f]
<1>2. pc = "append"
  BY DEF append_to_full_pages
<1>3. /\ f \in Pages \ {ROOT_PAGE} /\ f = page[ROOT_PAGE].free /\ page[ROOT_PAGE].full = NoPage
      /\ FreeSlots(page[f]) = {}
  BY <1>1, <1>2 DEF ControlOK, ListsOK, PagePinned
<1>4. /\ pc' = "finish" /\ page' = [page EXCEPT ![ROOT_PAGE].full = f]
      /\ dirty' = dirty \cup {ROOT_PAGE} /\ unpin(ROOT_PAGE)
      /\ UNCHANGED <<disk, size, cols, m_disk_id, next_id, inserted, rows, saved, free_disk_page,
                     slot>>
  BY <1>3 DEF append_to_full_pages, Goto, KeepLocals
<1>5. page' = [page EXCEPT ![ROOT_PAGE] = p]
  BY <1>4
<1>6. ROOT_PAGE \in Pages /\ page[ROOT_PAGE] \in HeapPage
  BY <1>1, Types
<1>7. /\ p \in HeapPage /\ p.taken = page[ROOT_PAGE].taken /\ p.bytes = page[ROOT_PAGE].bytes
      /\ p.full = f /\ p.free = f
  BY <1>3, <1>6 DEF HeapPage
<1> HIDE DEF p
<1>8. /\ TypeOK' /\ PinsOK' /\ PoolOK' /\ MemoryOK' /\ DiskOK'
      /\ page'[ROOT_PAGE] = p /\ \A k \in Pages \ {ROOT_PAGE} : page'[k] = page[k]
  BY <1>2, <1>4, <1>5, <1>7, RootUpdateKeeps DEF RootPinned
<1>9. ControlOK'
  BY <1>1, <1>2, <1>4 DEF ControlOK, Inserting, PagePinned
<1>10. ListsOK'
  <2>1. page'[ROOT_PAGE].free = f /\ page'[f] = page[f]
    BY <1>3, <1>7, <1>8
  <2>2. page'[page'[ROOT_PAGE].free] = page[f]
    BY <2>1
  <2> QED BY <1>3, <1>4, <2>1, <2>2 DEF ListsOK, FreeSlots
<1> QED BY <1>8, <1>9, <1>10 DEF HInv

(* The page is marked dirty and unpinned, and the tuple counts.            *)
LEMMA FinishKeeps == HInv /\ Finish => HInv'
<1> SUFFICES ASSUME HInv, Finish PROVE HInv'
  OBVIOUS
<1>1. TypeOK /\ PinsOK /\ ControlOK /\ PoolOK /\ ListsOK /\ MemoryOK /\ DiskOK
  BY DEF HInv
<1> DEFINE f == free_disk_page
<1>2. /\ pc = "finish" /\ pc' = "ready" /\ page' = [page EXCEPT ![f] = page[f]]
      /\ dirty' = dirty \cup {f} /\ pins' = [pins EXCEPT ![f] = @ - 1]
      /\ inserted' = inserted + 1 /\ rows' = rows \cup {NewRow}
      /\ free_disk_page' = ROOT_PAGE /\ slot' = 0
      /\ UNCHANGED <<disk, size, cols, m_disk_id, next_id, saved>>
  BY DEF Finish, UpdateAndUnpin, unpin, NewRow
<1>3. f \in Pages \ {ROOT_PAGE} /\ inserted < MaxRows /\ inserted \in 0 .. MaxRows /\ slot \in Bits
  BY <1>1, <1>2, Types DEF ControlOK, PagePinned, Inserting
<1>4. page' = page
  BY <1>1, <1>2, <1>3, Types
<1>5. \A k \in Pages : pins[k] = IF k = f THEN 1 ELSE 0
  BY <1>1, <1>2, <1>3 DEF PinsOK, PinCount, RootPinned, PagePinned
<1>6. pins' \in [Pages -> Nat] /\ \A k \in Pages : pins'[k] = 0
  BY <1>1, <1>2, <1>3, <1>5, Types
<1>7. PinsOK'
  <2>1. \A k \in Pages : PinCount(k)' = 0
    BY <1>2 DEF PinCount, RootPinned, PagePinned
  <2> QED BY <1>6, <2>1 DEF PinsOK
<1>8. NewRow \in RowType
  BY <1>3, IdsAssumption DEF NewRow, RowType
<1>9. TypeOK'
  <2>1. PoolTypeOK(HeapPage)'
    BY <1>1, <1>2, <1>3, <1>4, <1>6, Types DEF PoolTypeOK, HeapPage
  <2>2. 0 \in Bits /\ ROOT_PAGE \in Int /\ inserted + 1 \in 0 .. MaxRows
    BY <1>3, SlotsAssumption, IdsAssumption DEF Bits, ROOT_PAGE
  <2>3. rows' \subseteq RowType /\ saved' \subseteq rows'
    BY <1>1, <1>2, <1>8, Types
  <2> QED BY <1>1, <1>2, <2>1, <2>2, <2>3 DEF TypeOK
<1>10. ControlOK'
  BY <1>1, <1>2 DEF ControlOK, Inserting, PagePinned
<1>11. ListsOK'
  BY <1>1, <1>2, <1>4 DEF ListsOK, Inserting, FreeSlots
<1>12. PoolOK'
  BY <1>1, <1>2, <1>4 DEF PoolOK
<1>13. DiskOK'
  BY <1>1, <1>2 DEF DiskOK, Stored, Kept, LowByte, RowsOf
<1>14. MemoryOK'
  <2>1. ASSUME NEW k \in Pages
        PROVE  Stored(page[k], RowsOf(rows, k) \cup Pending(k))'
    <3> DEFINE R == RowsOf(rows, k) \cup Pending(k)
    <3>1. Stored(page[k], R)
      BY <1>1, <1>2 DEF MemoryOK
    <3>2. NewRow.page = f
      BY DEF NewRow
    <3>3. Pending(k) = IF k = f THEN {NewRow} ELSE {}
      BY <1>2 DEF Pending
    <3>4. Pending(k)' = {}
      BY <1>2 DEF Pending
    <3>5. R' = R
      BY <1>2, <3>2, <3>3, <3>4 DEF RowsOf
    <3> HIDE DEF R
    <3>6. Stored(page[k], R)'
      BY <1>2, <1>4, <3>1, <3>5 DEF Stored, Kept, LowByte
    <3> QED BY <3>6 DEF R
  <2> QED BY <1>2, <2>1 DEF MemoryOK
<1> QED BY <1>7, <1>9, <1>10, <1>11, <1>12, <1>13, <1>14 DEF HInv

(* Multiplication by a number keeps the order.                             *)
LEMMA TimesKeepsOrder ==
  ASSUME NEW a \in Nat, NEW b \in Nat, NEW n \in Nat, a <= b
  PROVE  a * n <= b * n
<1>1. b - a \in Nat /\ b = a + (b - a)
  OBVIOUS
<1> DEFINE d == b - a
<1>2. (a + d) * n = a * n + d * n
  BY <1>1
<1> HIDE DEF d
<1>3. d * n \in Nat /\ a * n \in Nat
  BY <1>1 DEF d
<1> QED BY <1>1, <1>2, <1>3 DEF d

(* A page with another bitmap and other bytes.                             *)
LEMMA TwoFields ==
  ASSUME NEW p \in HeapPage, NEW t, NEW b
  PROVE  [p EXCEPT !.taken = t, !.bytes = b] =
           [stamp |-> p.stamp, free |-> p.free, full |-> p.full, taken |-> t, bytes |-> b]
<1> DEFINE q == [p EXCEPT !.taken = t]
<1>1. p = [stamp |-> p.stamp, free |-> p.free, full |-> p.full, taken |-> p.taken,
           bytes |-> p.bytes]
  BY DEF HeapPage
<1>2. q = [stamp |-> p.stamp, free |-> p.free, full |-> p.full, taken |-> t, bytes |-> p.bytes]
  BY <1>1
<1>3. [p EXCEPT !.taken = t, !.bytes = b] = [q EXCEPT !.bytes = b]
  OBVIOUS
<1> HIDE DEF q
<1>4. [q EXCEPT !.bytes = b] =
        [stamp |-> p.stamp, free |-> p.free, full |-> p.full, taken |-> t, bytes |-> b]
  BY <1>2
<1> QED BY <1>3, <1>4

(* The slot insert_tuple takes is the one behind all that are taken, so    *)
(* that the tuple it writes there, though it may run over the tuple's end, *)
(* leaves the tuples in front of it alone.                                 *)
LEMMA FillPage ==
  ASSUME TypeOK, inserted < MaxRows, NEW f,
         NEW p \in HeapPage, NEW R \in SUBSET RowType, Stored(p, R), FreeSlots(p) # {}
  PROVE  LET s == FirstFree(p)
             dest == s * tuple_size(cols)
             fits == \A b \in Extent(cols) : dest + b \in ByteIndex
             filled == [p EXCEPT !.taken = @ \cup {s},
                                 !.bytes = tuple_serialize(@, dest, cols, inserted + 1)]
         IN /\ s \in Bits
            /\ filled \in HeapPage /\ filled.taken = p.taken \cup {s}
            /\ \A r \in R : Kept(filled, r)
            /\ fits => Stored(filled, R \cup {[row |-> inserted + 1, page |-> f, slot |-> s]})
<1> DEFINE s == FirstFree(p)
           L == tuple_size(cols)
           dest == s * L
           fits == \A b \in Extent(cols) : dest + b \in ByteIndex
           bytes == tuple_serialize(p.bytes, dest, cols, inserted + 1)
           filled == [p EXCEPT !.taken = @ \cup {s},
                               !.bytes = tuple_serialize(@, dest, cols, inserted + 1)]
           new == [row |-> inserted + 1, page |-> f, slot |-> s]
<1>1. /\ p.taken \in SUBSET Bits /\ p.bytes \in [ByteIndex -> Cells]
      /\ p = [stamp |-> p.stamp, free |-> p.free, full |-> p.full, taken |-> p.taken,
              bytes |-> p.bytes]
  BY DEF HeapPage
<1>2. Bits = 0 .. (Slots - 1) /\ Slots \in Nat /\ ByteIndex = 0 .. (Room - 1) /\ Room \in Nat
  BY SlotsAssumption DEF Bits, ByteIndex
<1>3. s \in Bits \ p.taken /\ \A y \in Bits \ p.taken : s <= y
  <2>1. FreeSlots(p) \in SUBSET Nat
    BY <1>2 DEF FreeSlots
  <2> QED BY <2>1, MinIsLeast DEF FirstFree, FreeSlots
<1>4. /\ L = Len(cols) /\ L \in Nat /\ DOMAIN cols = 1 .. L
      /\ \A c \in DOMAIN cols : CellOffset(cols, c) = c - 1
  BY CellPlace, Types
<1> HIDE DEF s, L
<1>5. s \in Nat /\ dest \in Nat
  BY <1>2, <1>3, <1>4
<1>6. \A i \in p.taken : i \in Nat /\ i < s
  <2>1. \A i \in p.taken : 0 .. (i - 1) \subseteq p.taken
    BY DEF Stored
  <2>2. \A i \in p.taken : i \in Nat /\ i # s
    BY <1>1, <1>2, <1>3
  <2>3. ASSUME NEW i \in p.taken, s < i PROVE FALSE
    <3>1. s \in 0 .. (i - 1)
      BY <1>5, <2>2, <2>3
    <3> QED BY <1>3, <2>1, <3>1
  <2> QED BY <1>5, <2>2, <2>3
<1>7. 0 .. (s - 1) \subseteq p.taken
  BY <1>2, <1>3, <1>5
<1>8. /\ filled.taken = p.taken \cup {s} /\ filled.bytes = bytes
      /\ filled.stamp = p.stamp /\ filled.free = p.free /\ filled.full = p.full
      /\ filled = [stamp |-> p.stamp, free |-> p.free, full |-> p.full,
                   taken |-> p.taken \cup {s}, bytes |-> bytes]
  BY TwoFields
<1>9. cols \in Seq({1, 2, 4}) /\ DOMAIN p.bytes = ByteIndex /\ ByteIndex \subseteq Nat
  BY <1>1, <1>2, Types
<1>10. /\ DOMAIN bytes = ByteIndex /\ bytes = [b \in ByteIndex |-> bytes[b]]
       /\ \A b \in ByteIndex : bytes[b] \in {p.bytes[b]} \cup ({inserted + 1} \X Nat \X (0 .. 3))
       /\ \A b \in ByteIndex : b < dest => bytes[b] = p.bytes[b]
       /\ \A c \in DOMAIN cols : dest + (c - 1) \in ByteIndex =>
            bytes[dest + (c - 1)] = <<inserted + 1, c, 0>>
  BY <1>5, <1>9, SerializeWrites
<1> HIDE DEF bytes, filled
<1>11. filled \in HeapPage
  <2>1. inserted + 1 \in 1 .. MaxRows
    BY IdsAssumption, Types
  <2>2. {inserted + 1} \X Nat \X (0 .. 3) \subseteq Cells
    BY <2>1 DEF Cells
  <2>3. \A b \in ByteIndex : bytes[b] \in Cells
    BY <1>1, <1>10, <2>2
  <2>4. bytes \in [ByteIndex -> Cells]
    BY <1>10, <2>3
  <2>5. p.taken \cup {s} \in SUBSET Bits
    BY <1>1, <1>3
  <2> QED BY <1>8, <2>4, <2>5 DEF HeapPage
<1>12. ASSUME NEW r \in R PROVE Kept(filled, r)
  <2>1. r.slot \in p.taken /\ r.slot \in Nat /\ r.slot < s /\ Kept(p, r)
    BY <1>6 DEF Stored, Kept
  <2>2. ASSUME NEW c \in DOMAIN cols
        PROVE  LowByte(r, c) \in ByteIndex /\ filled.bytes[LowByte(r, c)] = <<r.row, c, 0>>
    <3>1. /\ LowByte(r, c) \in ByteIndex /\ p.bytes[LowByte(r, c)] = <<r.row, c, 0>>
      BY <2>1 DEF Kept
    <3>2. LowByte(r, c) = r.slot * L + (c - 1)
      BY <1>4 DEF LowByte, L
    <3>3. (r.slot + 1) * L <= s * L
      BY <1>4, <1>5, <2>1, TimesKeepsOrder
    <3>4. (r.slot + 1) * L = r.slot * L + L
      BY <1>4, <2>1
    <3>5. r.slot * L \in Nat /\ c \in 1 .. L
      BY <1>4, <2>1
    <3>6. LowByte(r, c) < dest
      BY <1>4, <1>5, <3>2, <3>3, <3>4, <3>5
    <3> QED BY <1>8, <1>10, <3>1, <3>6
  <2> QED BY <1>8, <2>1, <2>2 DEF Kept
<1>13. ASSUME fits PROVE Stored(filled, R \cup {new})
  <2>1. new.slot = s /\ new.row = inserted + 1
    BY DEF new
  <2>2. ASSUME NEW c \in DOMAIN cols
        PROVE  LowByte(new, c) \in ByteIndex /\ filled.bytes[LowByte(new, c)] = <<new.row, c, 0>>
    <3>1. LowByte(new, c) = dest + (c - 1)
      BY <1>4, <2>1 DEF LowByte, L
    <3>2. c - 1 \in CellBytes(cols, c)
      <4>1. cols[c] \in {1, 2, 4} /\ c \in Int
        BY <1>4, <1>9
      <4> QED BY <1>4, <4>1 DEF CellBytes, value_width
    <3>3. c - 1 \in Extent(cols)
      BY <3>2 DEF Extent
    <3>4. dest + (c - 1) \in ByteIndex
      BY <1>13, <3>3
    <3> QED BY <1>8, <1>10, <2>1, <3>1, <3>4
  <2>3. Kept(filled, new)
    BY <1>8, <2>1, <2>2 DEF Kept
  <2>4. p.taken = {r.slot : r \in R} /\ \A i \in p.taken : 0 .. (i - 1) \subseteq p.taken
    BY DEF Stored
  <2> HIDE DEF new
  <2>5. filled.taken = {r.slot : r \in R \cup {new}}
    BY <1>8, <2>1, <2>4
  <2>6. \A i \in filled.taken : 0 .. (i - 1) \subseteq filled.taken
    BY <1>7, <1>8, <2>4
  <2> QED BY <1>12, <2>3, <2>5, <2>6 DEF Stored
<1> QED BY <1>3, <1>8, <1>11, <1>12, <1>13 DEF s, L, filled

(* A slot is taken and the tuple written, or the page has no slot left and *)
(* the assertion fails.  The last slot is taken only in a page that the    *)
(* free list names, and only once: then the full list is empty.            *)
LEMMA FillKeeps == HInv /\ Fill => HInv'
<1> SUFFICES ASSUME HInv, Fill PROVE HInv'
  OBVIOUS
<1>1. TypeOK /\ PinsOK /\ ControlOK /\ PoolOK /\ ListsOK /\ MemoryOK /\ DiskOK
  BY DEF HInv
<1> DEFINE f == free_disk_page
           p == page[f]
           R == RowsOf(rows, f)
           s == FirstFree(p)
           dest == s * tuple_size(cols)
           fits == \A b \in Extent(cols) : dest + b \in ByteIndex
           filled == [p EXCEPT !.taken = @ \cup {s},
                               !.bytes = tuple_serialize(@, dest, cols, inserted + 1)]
           new == [row |-> inserted + 1, page |-> f, slot |-> s]
<1>2. pc = "fill"
  BY DEF Fill
<1>3. CASE Abort
  BY <1>1, <1>3, LoseKeeps DEF Abort, TypeOK
<1>4. ASSUME FreeSlots(p) # {}, slot' = s, UNCHANGED free_disk_page,
             page' = [page EXCEPT ![f] = filled],
             \/ ~fits /\ Goto("overrun") /\ UNCHANGED <<pins, size>>
             \/ /\ fits /\ FreeSlots(filled) = {}
                /\ pins' = [pins EXCEPT ![ROOT_PAGE] = @ + 1] /\ UNCHANGED size
                /\ Goto("append")
             \/ fits /\ FreeSlots(filled) # {} /\ Goto("finish") /\ UNCHANGED <<pins, size>>,
             UNCHANGED <<disk, dirty>>
      PROVE  HInv'
  <2>1. /\ f \in Pages \ {ROOT_PAGE} /\ f < size /\ inserted < MaxRows /\ p \in HeapPage
        /\ R \in SUBSET RowType
    BY <1>1, <1>2, Types DEF ControlOK, PagePinned, Inserting, RowsOf
  <2>2. Stored(p, R)
    <3>1. Pending(f) = {}
      BY <1>2 DEF Pending
    <3> QED BY <1>1, <1>2, <2>1, <3>1 DEF MemoryOK
  <2>3. /\ s \in Bits /\ filled \in HeapPage /\ filled.taken = p.taken \cup {s}
        /\ \A r \in R : Kept(filled, r)
        /\ fits => Stored(filled, R \cup {new})
    BY <1>1, <1>4, <2>1, <2>2, FillPage
  <2>4. /\ UNCHANGED <<cols, m_disk_id, next_id, inserted, rows, saved, size>>
        /\ \/ pc' = "overrun" /\ pins' = pins
           \/ /\ pc' = "append" /\ fits /\ FreeSlots(filled) = {}
              /\ pins' = [pins EXCEPT ![ROOT_PAGE] = @ + 1]
           \/ pc' = "finish" /\ fits /\ pins' = pins
    BY <1>4 DEF Goto
  <2> HIDE DEF filled, s, fits
  <2>5. /\ page' \in [Pages -> HeapPage] /\ page'[f] = filled
        /\ \A k \in Pages \ {f} : page'[k] = page[k]
        /\ page'[ROOT_PAGE] = page[ROOT_PAGE] /\ ROOT_PAGE \in Pages /\ ROOT_PAGE = 0
    BY <1>1, <1>4, <2>1, <2>3, Types
  <2>6. \A k \in Pages : pins[k] = IF k = f THEN 1 ELSE 0
    BY <1>1, <1>2 DEF PinsOK, PinCount, RootPinned, PagePinned
  <2>7. pins' \in [Pages -> Nat]
    <3>1. pins \in [Pages -> Nat] /\ ROOT_PAGE \in Pages
      BY <1>1, Types
    <3>2. [pins EXCEPT ![ROOT_PAGE] = @ + 1] \in [Pages -> Nat]
      BY <3>1
    <3> QED BY <2>4, <3>1, <3>2
  <2>8. \A k \in Pages :
          pins'[k] = (IF k = f THEN 1 ELSE 0) + (IF k = ROOT_PAGE /\ pc' = "append" THEN 1 ELSE 0)
    BY <1>1, <2>1, <2>4, <2>5, <2>6, Types
  <2>9. \A k \in Pages : PinCount(k)' =
          (IF k = f THEN 1 ELSE 0) + (IF k = ROOT_PAGE /\ pc' = "append" THEN 1 ELSE 0)
    BY <1>4, <2>4 DEF PinCount, RootPinned, PagePinned
  <2>10. PinsOK'
    BY <2>7, <2>8, <2>9 DEF PinsOK
  <2>11. TypeOK'
    <3>1. PoolTypeOK(HeapPage)'
      BY <1>1, <1>4, <2>4, <2>5, <2>7, Types DEF PoolTypeOK, HeapPage
    <3> QED BY <1>1, <1>4, <2>3, <2>4, <3>1 DEF TypeOK
  <2>12. ControlOK'
    BY <1>1, <1>2, <1>4, <2>1, <2>4 DEF ControlOK, Inserting, PagePinned
  <2>13. PoolOK'
    <3>1. ASSUME NEW k \in Pages, k >= size
          PROVE  page'[k] = EmptyPage /\ disk'[k] = EmptyPage
      <4>1. k # f
        BY <1>1, <2>1, <3>1, Types
      <4> QED BY <1>1, <1>4, <2>5, <3>1, <4>1 DEF PoolOK
    <3>2. ASSUME NEW k \in Pages, page'[k] # disk'[k]
          PROVE  k \in dirty' \/ (k = free_disk_page' /\ pc' \in {"append", "finish", "overrun"})
      BY <1>1, <1>2, <1>4, <2>4, <2>5, <3>2 DEF PoolOK
    <3> QED BY <2>4, <3>1, <3>2 DEF PoolOK
  <2>14. ListsOK'
    <3> DEFINE root == page[ROOT_PAGE]
    <3>1. root.full # NoPage => root.free \in Pages /\ FreeSlots(page[root.free]) = {}
      BY <1>1, <1>2 DEF ListsOK, Inserting
    <3>2. f = root.free => root.full = NoPage
      BY <1>4, <3>1
    <3>3. root.full # NoPage => root.free \in Pages /\ FreeSlots(page'[root.free]) = {}
      BY <2>5, <3>1, <3>2
    <3>4. ASSUME pc' = "append" PROVE f = root.free /\ FreeSlots(page'[f]) = {}
      <4>1. FreeSlots(filled) = {}
        BY <2>4, <3>4
      <4>2. p.taken # {}
        <5>1. Bits \subseteq p.taken \cup {s}
          BY <2>3, <4>1 DEF FreeSlots
        <5>2. 0 \in Bits /\ 1 \in Bits
          BY SlotsAssumption DEF Bits
        <5> QED BY <5>1, <5>2
      <4> QED BY <1>1, <1>2, <2>5, <4>1, <4>2 DEF ListsOK
    <3>5. page'[ROOT_PAGE] = root /\ free_disk_page' = f
      BY <1>4, <2>5
    <3>6. pc' \in {"overrun", "append", "finish"}
      BY <2>4
    <3>7. pc' \in Inserting \cup {"ready"} => pc' \in {"append", "finish"}
      BY <3>6 DEF Inserting
    <3> QED BY <3>2, <3>3, <3>4, <3>5, <3>6, <3>7 DEF ListsOK, FreeSlots
  <2>15. DiskOK'
    BY <1>1, <1>4, <2>4, DiskKept
  <2>16. MemoryOK'
    <3>1. \A k \in Pages : RowsOf(rows, k)' = RowsOf(rows, k)
      BY <2>4 DEF RowsOf
    <3>2. ASSUME NEW k \in Pages \ {f}
          PROVE  Stored(page[k], RowsOf(rows, k) \cup Pending(k))'
      <4>1. Pending(k) = {} /\ Pending(k)' = {}
        BY <1>4, <2>4 DEF Pending
      <4>2. Stored(page[k], RowsOf(rows, k))
        BY <1>1, <1>2, <4>1 DEF MemoryOK
      <4>3. (RowsOf(rows, k) \cup Pending(k))' = RowsOf(rows, k) /\ page'[k] = page[k]
        BY <2>5, <3>1, <4>1
      <4> QED BY <2>4, <4>2, <4>3 DEF Stored, Kept, LowByte
    <3>3. CASE pc' = "overrun"
      <4>1. ASSUME NEW r \in RowsOf(rows, f)' PROVE Kept(page[f], r)'
        <5>1. Kept(filled, r) /\ page'[f] = filled /\ f' = f
          BY <1>4, <2>1, <2>3, <2>5, <3>1
        <5> QED BY <2>4, <5>1 DEF Kept, LowByte
      <4> QED BY <1>4, <3>2, <3>3, <4>1 DEF MemoryOK
    <3>4. CASE pc' \in {"append", "finish"}
      <4>1. Pending(f)' = {new} /\ f' = f
        BY <1>4, <2>4, <3>4 DEF Pending, NewRow
      <4>2. Stored(filled, R \cup {new}) /\ page'[f] = filled
        BY <2>3, <2>4, <2>5, <3>4
      <4>3. (RowsOf(rows, f) \cup Pending(f))' = R \cup {new}
        BY <2>1, <3>1, <4>1
      <4> HIDE DEF new, R
      <4>4. Stored(page[f], RowsOf(rows, f) \cup Pending(f))'
        BY <2>4, <4>1, <4>2, <4>3 DEF Stored, Kept, LowByte
      <4> QED BY <3>2, <3>4, <4>1, <4>4 DEF MemoryOK
    <3> QED BY <2>4, <3>3, <3>4
  <2> QED BY <2>10, <2>11, <2>12, <2>13, <2>14, <2>15, <2>16 DEF HInv
<1> QED BY <1>3, <1>4 DEF Fill

-----------------------------------------------------------------------------
(* Theorems.                                                               *)

(* Every step of the object, of the pool and of the process keeps the      *)
(* invariant.                                                              *)
LEMMA StepHInv == HInv /\ [Next]_vars => HInv'
<1> SUFFICES ASSUME HInv, [Next]_vars PROVE HInv'
  OBVIOUS
<1>1. CASE Construct
  BY <1>1, ConstructKeeps
<1>2. CASE Destruct
  BY <1>2, LoseKeeps DEF Destruct, HInv, TypeOK
<1>3. CASE insert_tuple
  BY <1>3, InsertKeeps
<1>4. CASE HeapStep
  BY <1>4, ConstructedKeeps, FindKeeps, ExtendKeeps, LinkKeeps, TakeKeeps, FillKeeps, AppendKeeps,
     FinishKeeps DEF HeapStep
<1>5. CASE Restart
  BY <1>5, LoseKeeps, IdsAssumption DEF Restart
<1>6. CASE \E k \in Pages : EvictPage(k)
  BY <1>6, EvictKeeps
<1>7. CASE UNCHANGED vars
  <2>1. UNCHANGED <<page, disk, dirty, pins, size, m_disk_id, next_id, free_disk_page, slot, pc,
                    cols, inserted, rows, saved>>
    BY <1>7 DEF vars, pool, obj
  <2> QED BY <2>1 DEF HInv, TypeOK, PoolTypeOK, PinsOK, PinCount, ControlOK, PoolOK, ListsOK,
                      FreeSlots, MemoryOK, DiskOK, Stored, Kept, LowByte, RowsOf, Pending, NewRow
<1> QED BY <1>1, <1>2, <1>3, <1>4, <1>5, <1>6, <1>7 DEF Next

(* The invariant holds of every behaviour.                                 *)
LEMMA AlwaysHInv == Spec => []HInv
<1> QED BY InitHInv, StepHInv, PTL DEF Spec

(* heap.cpp, insert_tuple and the constructor: each variable and each page *)
(* has its type, whatever is evicted, lost or left behind by a kill.       *)
THEOREM TypeCorrect == Spec => []TypeOK
<1>1. HInv => TypeOK
  BY DEF HInv
<1> QED BY <1>1, AlwaysHInv, PTL

(* heap.cpp: every way through the constructor and insert_tuple unpins     *)
(* each page as often as it pinned it.                                     *)
THEOREM PinsAlwaysBalance == Spec => []PinsBalanced
<1>1. HInv => PinsBalanced
  BY DEF HInv, PinsOK, PinCount, PinsBalanced, RootPinned, PagePinned
<1> QED BY <1>1, AlwaysHInv, PTL

(* heap.cpp, insert_tuple: no insertion, eviction, kill or new object      *)
(* overwrites the low bytes of a tuple that is not lost with memory, or    *)
(* gives its slot away.                                                    *)
THEOREM LowBytesSurvive == Spec => []LowBytesKept
<1>1. ASSUME HInv PROVE LowBytesKept
  <2>1. TypeOK /\ MemoryOK
    BY <1>1 DEF HInv
  <2>2. ASSUME NEW r \in rows PROVE Kept(page[r.page], r)
    <3>1. r.page \in Pages /\ r \in RowsOf(rows, r.page)
      BY <2>1, Types DEF RowType, RowsOf
    <3> QED BY <2>1, <3>1 DEF MemoryOK, Stored
  <2> QED BY <2>2 DEF LowBytesKept, Kept, LowByte
<1> QED BY <1>1, AlwaysHInv, PTL

(* heap.cpp, insert_tuple: between calls a bit of a page's bitmap is set   *)
(* exactly when a stored tuple has that slot.                              *)
THEOREM BitmapsMatchRows == Spec => []SlotsMatchRows
<1>1. ASSUME HInv PROVE SlotsMatchRows
  <2>1. SUFFICES ASSUME pc \in {"none", "ready", "aborted"}, NEW k \in Pages
                 PROVE  page[k].taken = {r.slot : r \in RowsOf(rows, k)}
    BY DEF SlotsMatchRows, RowsOf
  <2>2. Pending(k) = {}
    BY <2>1 DEF Pending
  <2>3. Stored(page[k], RowsOf(rows, k))
    BY <1>1, <2>1, <2>2 DEF HInv, MemoryOK
  <2> QED BY <2>3 DEF Stored
<1> QED BY <1>1, AlwaysHInv, PTL

(* heap.cpp, append_to_full_pages: insert_tuple never sets out on a walk   *)
(* along the full list, which would not end.                               *)
THEOREM NeverWalks == Spec => [](pc # "walk")
<1>1. HInv => pc # "walk"
  BY DEF HInv, ControlOK
<1> QED BY <1>1, AlwaysHInv, PTL
=============================================================================
