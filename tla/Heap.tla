-------------------------------- MODULE Heap --------------------------------
(***************************************************************************)
(* class Heap, the organizer that keeps the tuples of a table in the pages *)
(* of a disk.  Page 0, the root, holds the heads of the list of pages with *)
(* room and of the list of full pages; every other page holds a bitmap of  *)
(* its slots and the tuples.                                               *)
(*                                                                         *)
(* One action is the code between two calls of BufferManager::pin, so that *)
(* pages may leave memory, and the process be killed, in between.  One     *)
(* Heap object exists at a time; each gets the next id of the disk         *)
(* manager.  A failed assert, or a pin beyond the end of the disk, ends    *)
(* the process.  What happens after a tuple was written past the end of    *)
(* its page (pc is "overrun") is undefined and not followed.               *)
(***************************************************************************)
EXTENDS PagePool, Tuple

CONSTANTS
  Schemas,   \* the columns a table may have
  FirstIds,  \* ids the next load may get in a fresh process
  MaxIds,    \* bound: ids one process hands out
  MaxRows,   \* bound: tuples inserted
  Slots,     \* bits of a page's bitmap: bitmap_size of insert_tuple
  Room       \* bytes of a page behind that bitmap

(* bitmap_size is page_size + 49: more slots than the page has bytes left. *)
ASSUME SlotsAssumption == Slots \in Nat /\ Room \in Nat /\ Slots > 1 /\ Room < Slots
ASSUME SchemasAssumption == Schemas \subseteq Seq({1, 2, 4})
ASSUME IdsAssumption == FirstIds \subseteq Nat /\ MaxIds \in Nat /\ MaxRows \in Nat

VARIABLES
  cols,            \* the columns of the table
  m_disk_id,       \* m_disk_id of the Heap object
  next_id,         \* the disk manager's next id
  free_disk_page,  \* local of insert_tuple
  slot,            \* local of insert_tuple: tuple_offset_opt
  pc,              \* where the object is
  inserted,        \* history: number of tuples inserted
  rows,            \* history: where the tuples are that insert_tuple stored
  saved            \* history: those of them that were written to the disk

obj == <<m_disk_id, next_id, free_disk_page, slot, pc>>
vars == <<pool, obj, cols, inserted, rows, saved>>

ROOT_PAGE == 0
NoPage == -1
Bits == 0 .. (Slots - 1)
ByteIndex == 0 .. (Room - 1)
Blank == <<0, 0, 0>>

(* Of a page: the three words the root keeps, the bits that are set in the *)
(* bitmap and the bytes behind it.                                         *)
EmptyPage == [stamp |-> 0, free |-> 0, full |-> 0, taken |-> {},
              bytes |-> [b \in ByteIndex |-> Blank]]
HEAP_PAGE_START_STAMP == 1

Init ==
  /\ PoolInit(EmptyPage)
  /\ cols \in Schemas
  /\ m_disk_id = 0 /\ next_id \in FirstIds
  /\ free_disk_page = ROOT_PAGE /\ slot = 0
  /\ pc = "none"
  /\ inserted = 0 /\ rows = {} /\ saved = {}

Goto(l) == pc' = l /\ UNCHANGED <<cols, m_disk_id, next_id, inserted, rows, saved>>
KeepLocals == UNCHANGED <<free_disk_page, slot>>

UnpinClean(k, p) ==
  /\ page' = [page EXCEPT ![k] = p]
  /\ unpin(k)
  /\ UNCHANGED <<disk, dirty, size>>

UnpinTwice(k, p) ==
  /\ page' = [page EXCEPT ![k] = p]
  /\ dirty' = dirty \cup {k}
  /\ pins' = [pins EXCEPT ![k] = @ - 2]
  /\ UNCHANGED <<disk, size>>

(* The pinned page k is changed to p, marked dirty and unpinned.           *)
UpdateAndUnpin(k, p) ==
  /\ page' = [page EXCEPT ![k] = p]
  /\ dirty' = dirty \cup {k}
  /\ unpin(k)
  /\ UNCHANGED <<disk, size>>

(* Tuples that were not written back are lost with memory.                 *)
Lose ==
  /\ Forget
  /\ rows' = saved
  /\ free_disk_page' = ROOT_PAGE /\ slot' = 0
  /\ UNCHANGED <<cols, inserted, saved>>

Abort == pc' = "aborted" /\ m_disk_id' = 0 /\ UNCHANGED next_id /\ Lose

-----------------------------------------------------------------------------
(* The constructor: create or, when that fails, load the disk.             *)
Construct ==
  /\ pc = "none" /\ next_id < MaxIds
  /\ m_disk_id' = next_id /\ next_id' = next_id + 1
  /\ pin(ROOT_PAGE)
  /\ pc' = "construct"
  /\ UNCHANGED <<cols, inserted, rows, saved>> /\ KeepLocals

KeepFullList(p) == [p EXCEPT !.stamp = HEAP_PAGE_START_STAMP, !.free = NoPage,
                             !.full = IF p.stamp = 0 THEN NoPage ELSE @]

(* The root of a table with empty lists, also for a table that was loaded. *)
FreshRoot(p) ==
  [p EXCEPT !.stamp = HEAP_PAGE_START_STAMP, !.free = NoPage, !.full = NoPage]

Constructed ==
  /\ pc = "construct"
  /\ UpdateAndUnpin(ROOT_PAGE, FreshRoot(page[ROOT_PAGE]))
  /\ Goto("ready") /\ KeepLocals

(* ~Heap unloads the disk.                                                 *)
Destruct ==
  /\ pc = "ready" /\ pc' = "none"
  /\ m_disk_id' = 0 /\ UNCHANGED next_id
  /\ Lose

-----------------------------------------------------------------------------
(* insert_tuple, from find_free_page on.                                   *)

insert_tuple ==
  /\ pc = "ready" /\ inserted < MaxRows
  /\ pin(ROOT_PAGE)
  /\ Goto("find") /\ KeepLocals

FoundPinned ==
  LET free_list == page[ROOT_PAGE].free
  IN /\ pc = "find"
     /\ free_disk_page' = IF free_list = NoPage THEN ROOT_PAGE ELSE free_list
     /\ Goto(IF free_list = NoPage THEN "extend" ELSE "take")
     /\ UNCHANGED <<slot, pool>>

find_free_page ==
  LET free_list == page[ROOT_PAGE].free
  IN /\ pc = "find"
     /\ unpin(ROOT_PAGE)
     /\ \/ free_list = NoPage /\ Goto("extend") /\ UNCHANGED free_disk_page
        \/ free_list # NoPage /\ Goto("take") /\ free_disk_page' = free_list
     /\ UNCHANGED <<slot, page, disk, dirty, size>>

(* No free page: DiskManager::extend names the page behind the next one.   *)
(* When it fails get_value throws, and the exception leaves insert_tuple.  *)
Extend ==
  /\ pc = "extend" /\ UNCHANGED slot
  /\ \/ free_disk_page' = size + 1 /\ pin(ROOT_PAGE) /\ Goto("link")
     \/ Goto("ready") /\ UNCHANGED <<free_disk_page, pool>>

(* The head of the free list becomes the disk id.                          *)
Link ==
  /\ pc = "link"
  /\ UpdateAndUnpin(ROOT_PAGE, [page[ROOT_PAGE] EXCEPT !.free = m_disk_id])
  /\ Goto("take") /\ KeepLocals

(* assert(free_disk_page != ROOT_PAGE), and the page is pinned.            *)
Take ==
  /\ pc = "take"
  /\ \/ free_disk_page \in Pages \ {ROOT_PAGE} /\ pin(free_disk_page) /\ Goto("fill") /\ KeepLocals
     \/ free_disk_page \notin Pages \ {ROOT_PAGE} /\ Abort

FreeSlots(p) == Bits \ p.taken
FirstFree(p) == Min(FreeSlots(p))

(* A slot is taken in the bitmap and the tuple written at its place; the   *)
(* offset is not compared with the page size.                              *)
Fill ==
  LET p == page[free_disk_page]
      s == FirstFree(p)
      dest == s * tuple_size(cols)
      fits == \A b \in Extent(cols) : dest + b \in ByteIndex
      filled == [p EXCEPT !.taken = @ \cup {s},
                          !.bytes = tuple_serialize(@, dest, cols, inserted + 1)]
  IN /\ pc = "fill"
     /\ \/ FreeSlots(p) = {} /\ Abort
        \/ /\ FreeSlots(p) # {}
           /\ slot' = s /\ UNCHANGED free_disk_page
           /\ page' = [page EXCEPT ![free_disk_page] = filled]
           /\ \/ ~fits /\ Goto("overrun") /\ UNCHANGED <<pins, size>>
              \/ /\ fits /\ FreeSlots(filled) = {}
                 /\ pins' = [pins EXCEPT ![ROOT_PAGE] = @ + 1] /\ UNCHANGED size
                 /\ Goto("append")
              \/ fits /\ FreeSlots(filled) # {} /\ Goto("finish") /\ UNCHANGED <<pins, size>>
           /\ UNCHANGED <<disk, dirty>>

(* The page that the walk of append_to_full_pages along the full list has  *)
(* reached after n links.  The link of a page is the word that the root    *)
(* has its free list in.                                                   *)
Walk(first) ==
  LET at[n \in 0 .. MaxPages] ==
        IF n = 0 THEN first
        ELSE IF page[at[n - 1]].free \in Pages THEN page[at[n - 1]].free ELSE at[n - 1]
  IN at[MaxPages]

(* append_to_full_pages: the page is linked from the root or, when the     *)
(* list is not empty, from its last page, the one whose link is -1.        *)
(* Nothing stores -1 there, so a walk meets 0, comes back to the root and  *)
(* goes on for ever (pc is "walk").                                        *)
append_to_full_pages ==
  LET root == page[ROOT_PAGE]
      last == Walk(root.full)
  IN /\ pc = "append" /\ KeepLocals
     /\ unpin(ROOT_PAGE) /\ UNCHANGED <<disk, size>>
     /\ IF root.full = NoPage
        THEN /\ page' = [page EXCEPT ![ROOT_PAGE].full = free_disk_page]
             /\ dirty' = dirty \cup {ROOT_PAGE}
             /\ Goto("finish")
        ELSE IF page[last].free = NoPage
        THEN /\ page' = [page EXCEPT ![last].free = free_disk_page]
             /\ dirty' = dirty \cup {last}
             /\ Goto("finish")
        ELSE UNCHANGED <<page, dirty>> /\ Goto("walk")

Finish ==
  /\ pc = "finish" /\ pc' = "ready"
  /\ UpdateAndUnpin(free_disk_page, page[free_disk_page])
  /\ inserted' = inserted + 1
  /\ rows' = rows \cup {[row |-> inserted + 1, page |-> free_disk_page, slot |-> slot]}
  /\ free_disk_page' = ROOT_PAGE /\ slot' = 0
  /\ UNCHANGED <<cols, m_disk_id, next_id, saved>>

-----------------------------------------------------------------------------
(* The process is killed or, having died, started again; other disks may   *)
(* be loaded before the table.                                             *)
Restart ==
  /\ pc # "overrun"
  /\ pc' = "none" /\ m_disk_id' = 0 /\ next_id' \in FirstIds
  /\ Lose

HeapStep ==
  \/ Constructed \/ find_free_page \/ Extend \/ Link \/ Take \/ Fill
  \/ append_to_full_pages \/ Finish

EvictPage(k) ==
  /\ Evict(k)
  /\ saved' = IF k \in dirty THEN saved \cup {r \in rows : r.page = k} ELSE saved
  /\ UNCHANGED <<obj, cols, inserted, rows>>

Next == Construct \/ Destruct \/ insert_tuple \/ HeapStep \/ Restart \/ \E k \in Pages : EvictPage(k)

(* A Heap that is not killed runs on; nobody has to insert or to kill.     *)
Spec == Init /\ [][Next]_vars /\ WF_vars(HeapStep)

-----------------------------------------------------------------------------
(* Properties.                                                             *)

Cells == {Blank} \cup ((1 .. MaxRows) \X Nat \X (0 .. 3))
HeapPage == [stamp : {0, HEAP_PAGE_START_STAMP}, free : Nat \cup {NoPage},
             full : Pages \cup {NoPage}, taken : SUBSET Bits, bytes : [ByteIndex -> Cells]]
RowType == [row : 1 .. MaxRows, page : Pages, slot : Bits]

(* Each variable has its type, a page is never pinned less than not at     *)
(* all, and the page insert_tuple writes to is one of the disk's.          *)
TypeOK ==
  /\ PoolTypeOK(HeapPage)
  /\ cols \in Schemas
  /\ m_disk_id \in Nat /\ next_id \in Nat
  /\ free_disk_page \in Int /\ slot \in Bits
  /\ pc \in {"none", "construct", "ready", "find", "extend", "link", "take", "fill",
             "append", "walk", "finish", "aborted", "overrun"}
  /\ inserted \in 0 .. MaxRows
  /\ rows \subseteq RowType /\ saved \subseteq rows

(* Between calls no page is pinned, whichever way insert_tuple and         *)
(* append_to_full_pages went: a page left pinned could never be evicted.   *)
PinsBalanced == pc \in {"none", "ready", "aborted"} => \A k \in Pages : pins[k] = 0

(* Of every tuple that is not lost with memory the page still holds the    *)
(* low byte of each cell, and its slot is set in the page's bitmap: later  *)
(* inserts, evictions, kills and a constructor that resets the lists of    *)
(* the table neither overwrite it nor give its slot away.  (Of wider cells *)
(* the other bytes are lost: Type::size returns bool.)                     *)
LowBytesKept ==
  \A r \in rows :
    /\ r.slot \in page[r.page].taken
    /\ \A c \in DOMAIN cols :
         page[r.page].bytes[r.slot * tuple_size(cols) + CellOffset(cols, c)] = <<r.row, c, 0>>

(* Between calls the bitmaps and the tuples agree: a bit is set in memory  *)
(* exactly when a stored tuple has that slot.                              *)
SlotsMatchRows ==
  pc \in {"none", "ready", "aborted"} =>
    \A k \in Pages : page[k].taken = {r.slot : r \in {q \in rows : q.page = k}}

(* Every insertion returns or ends the process: append_to_full_pages       *)
(* never sets out on a walk along the full list, which would not end.      *)
InsertEnds == pc \notin {"none", "ready", "aborted", "overrun"} ~>
              pc \in {"none", "ready", "aborted", "overrun"}

(* insert_tuple's first assertion: the page with room is not the root.     *)
RootHoldsNoTuple == pc = "take" => free_disk_page # ROOT_PAGE
=============================================================================
