------------------------------ MODULE PagePool ------------------------------
(***************************************************************************)
(* The pages of one disk as a Heap sees them through BufferManager.        *)
(*                                                                         *)
(* External: pin, unpin and set_dirty have no live body in this version of *)
(* buffer_manager.cpp, so they are modelled from how heap.cpp uses them.   *)
(* A pinned page stays in memory; an unpinned one may leave it at any      *)
(* time, and is written to the disk then if and only if set_dirty was      *)
(* called since it was last written.  A page nobody wrote is all zeros,    *)
(* and reading a page extends the disk to it (PosixDisk::prepare_rw).      *)
(***************************************************************************)
EXTENDS Integers, FiniteSetsExt

CONSTANT MaxPages  \* pages the disk may have

ASSUME MaxPagesAssumption == MaxPages \in Nat \ {0}

VARIABLES
  page,   \* the content a caller of pin finds
  disk,   \* the content on the disk
  dirty,  \* pages set_dirty was called for and that were not written since
  pins,   \* how often each page is pinned
  size    \* length of the disk in pages

pool == <<page, disk, dirty, pins, size>>
Pages == 0 .. (MaxPages - 1)

(* PageData is what a page may hold.                                       *)
PoolTypeOK(PageData) ==
  /\ page \in [Pages -> PageData] /\ disk \in [Pages -> PageData]
  /\ dirty \subseteq Pages
  /\ pins \in [Pages -> Nat]
  /\ size \in 0 .. MaxPages

(* ZeroPage is the page of zeros.                                          *)
PoolInit(ZeroPage) ==
  /\ page = [k \in Pages |-> ZeroPage] /\ disk = page
  /\ dirty = {}
  /\ pins = [k \in Pages |-> 0]
  /\ size = 0

pin(k) ==
  /\ pins' = [pins EXCEPT ![k] = @ + 1]
  /\ size' = Max({size, k + 1})
  /\ UNCHANGED <<page, disk, dirty>>

unpin(k) == pins' = [pins EXCEPT ![k] = @ - 1]

(* The page leaves memory: written back when dirty, forgotten otherwise.   *)
Evict(k) ==
  /\ pins[k] = 0
  /\ page[k] # disk[k] \/ k \in dirty
  /\ disk' = IF k \in dirty THEN [disk EXCEPT ![k] = page[k]] ELSE disk
  /\ page' = [page EXCEPT ![k] = disk'[k]]
  /\ dirty' = dirty \ {k}
  /\ UNCHANGED <<pins, size>>

(* All of memory is gone: the process ended, or the disk id under which    *)
(* the pages were pinned is no longer loaded, so that they can be neither  *)
(* found nor written again.                                                *)
Forget ==
  /\ page' = disk /\ dirty' = {}
  /\ pins' = [k \in Pages |-> 0]
  /\ UNCHANGED <<disk, size>>
=============================================================================
