----------------------------- MODULE BufferMap ------------------------------
(***************************************************************************)
(* What is live of BufferManager: mem_pool_map, from disk page to buffer   *)
(* page, and the tracker that says which buffer pages are taken, a         *)
(* BitmapTracker on top of Bitmap.                                         *)
(*                                                                         *)
(* The caller brings disk pages in as the signatures suggest: look the     *)
(* page up and, when get_page_mem_pool_map throws, map it to the page that *)
(* get_next_free_page names.  remove_page_mem_pool_map has no live body: a *)
(* page once mapped stays.                                                 *)
(***************************************************************************)
EXTENDS Bitmap

CONSTANTS
  Disks,   \* disk ids callers use
  Cursors  \* disk page cursors callers use

VARIABLES
  mem_pool_map,  \* disk id -> disk page cursor -> buffer page cursor
  result         \* what the last call returned or threw

mapVars == <<vars, mem_pool_map, result>>

NoPages == [c \in {} |-> 0]
DiskPages == Disks \X Cursors

(* The disk page has an entry.                                             *)
Mapped(d, c) == d \in DOMAIN mem_pool_map /\ c \in DOMAIN mem_pool_map[d]
BufferOf(d, c) == mem_pool_map[d][c]

MapInit == Init /\ mem_pool_map = [d \in {} |-> NoPages] /\ result = "none"

get_page_mem_pool_map(d, c) ==
  /\ result' = IF d \notin DOMAIN mem_pool_map THEN "DISK_NOT_FOUND"
               ELSE IF c \notin DOMAIN mem_pool_map[d] THEN "DISK_PAGE_CURSOR_NOT_FOUND"
               ELSE "found"
  /\ UNCHANGED <<vars, mem_pool_map>>

(* map[d][c] = b, after an empty inner map was put in for a new disk.      *)
NewInnerMap(d, c, b) ==
  [e \in DOMAIN mem_pool_map \cup {d} |->
     IF e = d THEN [x \in {c} |-> b] ELSE mem_pool_map[e]]
WithEntry(d, c, b) ==
  LET inner == IF d \in DOMAIN mem_pool_map THEN mem_pool_map[d] ELSE NoPages
  IN [e \in DOMAIN mem_pool_map \cup {d} |->
        IF e = d THEN [x \in DOMAIN inner \cup {c} |-> IF x = c THEN b ELSE inner[x]]
        ELSE mem_pool_map[e]]

add_page_mem_pool_map(d, c, b) ==
  /\ set_bit_val(b, TRUE)
  /\ mem_pool_map' = WithEntry(d, c, b)
  /\ result' = "added"

(* The lookup threw: take the next free page, or meet bad_optional_access  *)
(* when there is none.                                                     *)
Place(d, c) ==
  /\ ~Mapped(d, c)
  /\ \/ \E b \in get_first_free_bit : add_page_mem_pool_map(d, c, b)
     \/ /\ get_first_free_bit = {}
        /\ result' = "bad_optional_access"
        /\ UNCHANGED <<vars, mem_pool_map>>

MapNext ==
  \/ \E d \in Disks, c \in Cursors : get_page_mem_pool_map(d, c) \/ Place(d, c)
  \/ ForeignWrite /\ UNCHANGED <<mem_pool_map, result>>

MapSpec == MapInit /\ [][MapNext]_mapVars

-----------------------------------------------------------------------------
(* Properties.                                                             *)

Pairs == {s \in DiskPages : Mapped(s[1], s[2])}

(* No two disk pages are given the same buffer page, as long as it is one  *)
(* the tracker's bitmap has memory for: the bit add_page_mem_pool_map sets *)
(* keeps get_next_free_page from naming it again.                          *)
NoSharedBuffer ==
  \A s, t \in Pairs :
    /\ BufferOf(s[1], s[2]) \in Bits
    /\ s # t /\ BufferOf(s[1], s[2]) = BufferOf(t[1], t[2]) =>
         BufferOf(s[1], s[2]) \div ByteBits >= Allocated

(* With whole bytes the tracker counts exactly the mapped pages, so that   *)
(* get_next_free_page throws only when every buffer page is mapped.        *)
NoPageLeaked ==
  num_bits % ByteBits = 0 =>
    /\ get_num_taken_bits = Cardinality(Pairs)
    /\ result = "bad_optional_access" => Cardinality(Pairs) = num_bits
=============================================================================
