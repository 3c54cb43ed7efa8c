--------------------------- MODULE BufferMapProofs ---------------------------
(* Proofs about BufferMap, for every number of buffer pages and any set of *)
(* disk pages, from what BitmapProofs shows of the tracker's bitmap.       *)
EXTENDS BufferMap, BitmapProofs

Buffer(s) == BufferOf(s[1], s[2])

(* The buffer page of a mapped disk page is marked as taken, and two disk  *)
(* pages share one only where the bitmap has no memory to mark it.         *)
Marked ==
  /\ \A s \in Pairs : Buffer(s) \in taken
  /\ \A s, t \in Pairs : s # t /\ Buffer(s) = Buffer(t) => Buffer(s) \div ByteBits >= Allocated

(* With whole bytes as many buffer pages are marked as disk pages mapped,  *)
(* and all of them are when get_next_free_page has thrown.                 *)
Counted ==
  num_bits % ByteBits = 0 =>
    /\ IsFiniteSet(Pairs) /\ Cardinality(Pairs) = Cardinality(taken)
    /\ result = "bad_optional_access" => Cardinality(taken) = num_bits

(* The inductive invariant: the bitmap's, and both of the above.           *)
MapInv == IInv /\ Marked /\ Counted

(* The caller meets the bitmap only through set_bit_val and the scans.     *)
LEMMA MapIsBitmap ==
  ASSUME IInv, [MapNext]_mapVars
  PROVE  [Next]_vars
<1>1. get_first_free_bit \subseteq Bits
  <2>1. num_bits \in Sizes
    BY DEF IInv, TypeOK
  <2>2. FreeBits \in SUBSET Nat /\ FreeBits \subseteq Bits
    BY <2>1, Sized DEF FreeBits
  <2> QED BY <2>2, MinIsLeast DEF get_first_free_bit
<1>2. ASSUME NEW d, NEW c, NEW b \in Bits, add_page_mem_pool_map(d, c, b) PROVE [Next]_vars
  BY <1>2 DEF add_page_mem_pool_map, Next
<1> QED BY <1>1, <1>2 DEF MapNext, mapVars, get_page_mem_pool_map, Place, Next

(* The map with an entry more.                                             *)
LEMMA EntryAdded ==
  ASSUME NEW d \in Disks, NEW c \in Cursors, NEW b, ~Mapped(d, c), mem_pool_map' = WithEntry(d, c, b)
  PROVE  /\ Pairs' = Pairs \cup {<<d, c>>} /\ <<d, c>> \notin Pairs
         /\ Buffer(<<d, c>>)' = b
         /\ \A s \in Pairs : Buffer(s)' = Buffer(s)
<1> DEFINE inner == IF d \in DOMAIN mem_pool_map THEN mem_pool_map[d] ELSE NoPages
           new == [x \in DOMAIN inner \cup {c} |-> IF x = c THEN b ELSE inner[x]]
<1>1. mem_pool_map' = [e \in DOMAIN mem_pool_map \cup {d} |-> IF e = d THEN new ELSE mem_pool_map[e]]
  BY DEF WithEntry
<1>2. DOMAIN NoPages = {}
  BY DEF NoPages
<1>3. \A x : x \in DOMAIN inner <=> Mapped(d, x)
  BY <1>2 DEF Mapped
<1>4. \A x : x \in DOMAIN inner => inner[x] = BufferOf(d, x)
  BY <1>2 DEF BufferOf
<1> HIDE DEF inner
<1>5. DOMAIN new = DOMAIN inner \cup {c} /\ new[c] = b /\ \A x \in DOMAIN inner \ {c} : new[x] = inner[x]
  OBVIOUS
<1> HIDE DEF new
<1>6. /\ DOMAIN mem_pool_map' = DOMAIN mem_pool_map \cup {d} /\ mem_pool_map'[d] = new
      /\ \A e \in DOMAIN mem_pool_map \ {d} : mem_pool_map'[e] = mem_pool_map[e]
  BY <1>1
<1>7. ASSUME NEW e, NEW x PROVE Mapped(e, x)' <=> Mapped(e, x) \/ (e = d /\ x = c)
  <2>1. CASE e = d
    BY <1>3, <1>5, <1>6, <2>1 DEF Mapped
  <2>2. CASE e # d
    BY <1>6, <2>2 DEF Mapped
  <2> QED BY <2>1, <2>2
<1>8. ASSUME NEW e, NEW x, Mapped(e, x) PROVE BufferOf(e, x)' = BufferOf(e, x)
  <2>1. CASE e = d
    BY <1>3, <1>4, <1>5, <1>6, <1>8, <2>1 DEF BufferOf
  <2>2. CASE e # d
    BY <1>6, <1>8, <2>2 DEF Mapped, BufferOf
  <2> QED BY <2>1, <2>2
<1>9. BufferOf(d, c)' = b
  BY <1>5, <1>6 DEF BufferOf
<1>10. Pairs' = Pairs \cup {<<d, c>>}
  BY <1>7 DEF Pairs, DiskPages
<1> QED BY <1>8, <1>9, <1>10 DEF Pairs, Buffer

(* Nothing is mapped at the start.                                         *)
LEMMA InitMapInv == MapInit => MapInv
<1> SUFFICES ASSUME MapInit PROVE MapInv
  OBVIOUS
<1>1. IInv /\ taken = {} /\ result = "none"
  BY InitIInv DEF MapInit, Init
<1>2. Pairs = {}
  BY DEF MapInit, Pairs, Mapped
<1> QED BY <1>1, <1>2, FS_EmptySet DEF MapInv, Marked, Counted

(* Mapping a page to the next free one.                                    *)
LEMMA PlaceMapInv ==
  ASSUME MapInv, NEW d \in Disks, NEW c \in Cursors, NEW b \in get_first_free_bit,
         ~Mapped(d, c), add_page_mem_pool_map(d, c, b)
  PROVE  Marked' /\ Counted'
<1> USE DEF MapInv
<1>1. num_bits \in Sizes /\ taken \subseteq Bits
  BY DEF IInv, TypeOK
<1>2. /\ taken' = taken \cup {b} /\ num_bits' = num_bits /\ mem_pool_map' = WithEntry(d, c, b)
      /\ result' = "added"
  BY DEF add_page_mem_pool_map, set_bit_val
<1>3. /\ Pairs' = Pairs \cup {<<d, c>>} /\ <<d, c>> \notin Pairs
      /\ Buffer(<<d, c>>)' = b
      /\ \A s \in Pairs : Buffer(s)' = Buffer(s)
  BY <1>2, EntryAdded
<1>4. b \in Bits /\ ~get_bit_val(b)
  <2>1. FreeBits \in SUBSET Nat /\ FreeBits \subseteq Bits
    BY <1>1, Sized DEF FreeBits
  <2>2. b \in FreeBits
    BY <2>1, MinIsLeast DEF get_first_free_bit
  <2> QED BY <2>2 DEF FreeBits
<1>5. b \in taken => b \div ByteBits >= Allocated
  <2>1. b \div ByteBits \in Nat /\ Allocated \in Nat
    BY <1>1, <1>4, Sized, BytePlace
  <2> QED BY <1>4, <2>1 DEF IInv, BitsKept
<1>6. Marked'
  <2>1. \A s \in Pairs' : Buffer(s)' \in taken'
    BY <1>2, <1>3 DEF Marked
  <2>2. ASSUME NEW s \in Pairs', NEW t \in Pairs', s # t, Buffer(s)' = Buffer(t)'
        PROVE  Buffer(s)' \div ByteBits >= Allocated
    <3>1. CASE s \in Pairs /\ t \in Pairs
      BY <1>3, <2>2, <3>1 DEF Marked
    <3>2. CASE s \notin Pairs \/ t \notin Pairs
      <4>1. Buffer(s)' = b /\ b \in taken
        BY <1>3, <2>2, <3>2 DEF Marked
      <4> QED BY <1>5, <4>1
    <3> QED BY <3>1, <3>2
  <2>3. Allocated' = Allocated
    BY <1>2 DEF Allocated
  <2> QED BY <2>1, <2>2, <2>3 DEF Marked
<1>7. Counted'
  <2> SUFFICES ASSUME num_bits % ByteBits = 0
               PROVE  IsFiniteSet(Pairs') /\ Cardinality(Pairs') = Cardinality(taken')
    BY <1>2 DEF Counted
  <2>1. b \notin taken /\ IsFiniteSet(taken)
    BY ScansExact
  <2>2. Cardinality(taken') = Cardinality(taken) + 1
    BY <1>2, <2>1, FS_AddElement
  <2>3. IsFiniteSet(Pairs') /\ Cardinality(Pairs') = Cardinality(Pairs) + 1
    BY <1>3, FS_AddElement DEF Counted
  <2> QED BY <2>2, <2>3 DEF Counted
<1> QED BY <1>6, <1>7

(* Every step keeps the invariant.                                         *)
LEMMA StepMapInv == MapInv /\ [MapNext]_mapVars => MapInv'
<1> SUFFICES ASSUME MapInv, [MapNext]_mapVars PROVE MapInv'
  OBVIOUS
<1>1. IInv'
  BY MapIsBitmap, StepIInv DEF MapInv
<1>2. ASSUME UNCHANGED <<num_bits, taken, mem_pool_map>>,
             result' = "bad_optional_access" =>
               result = "bad_optional_access" \/ get_first_free_bit = {}
      PROVE  Marked' /\ Counted'
  <2>1. Pairs' = Pairs /\ \A s : Buffer(s)' = Buffer(s)
    BY <1>2 DEF Pairs, Mapped, Buffer, BufferOf
  <2>2. Marked'
    BY <1>2, <2>1 DEF MapInv, Marked, Allocated
  <2>3. ASSUME num_bits % ByteBits = 0, get_first_free_bit = {}
        PROVE  Cardinality(taken) = num_bits
    <3>1. get_num_free_bits = 0 /\ get_num_taken_bits = Cardinality(taken) /\ num_bits \in Sizes
      BY <2>3, ScansExact DEF MapInv, IInv, TypeOK
    <3>2. num_bits \in Nat
      BY <3>1, Sized
    <3> QED BY <3>1, <3>2 DEF get_num_taken_bits
  <2> QED BY <1>2, <2>1, <2>2, <2>3 DEF MapInv, Counted
<1>3. ASSUME NEW d \in Disks, NEW c \in Cursors, get_page_mem_pool_map(d, c) PROVE Marked' /\ Counted'
  <2>1. result' # "bad_optional_access"
    BY <1>3 DEF get_page_mem_pool_map
  <2> QED BY <1>2, <1>3, <2>1 DEF get_page_mem_pool_map, vars
<1>4. ASSUME NEW d \in Disks, NEW c \in Cursors, Place(d, c) PROVE Marked' /\ Counted'
  BY <1>2, <1>4, PlaceMapInv DEF Place, vars
<1>5. CASE ForeignWrite /\ UNCHANGED <<mem_pool_map, result>>
  BY <1>1, <1>2, <1>5 DEF ForeignWrite, MapInv
<1>6. CASE UNCHANGED mapVars
  BY <1>1, <1>2, <1>6 DEF mapVars, vars, MapInv
<1> QED BY <1>1, <1>3, <1>4, <1>5, <1>6 DEF MapNext, MapInv

(* No two disk pages are mapped to one buffer page that the tracker's      *)
(* bitmap has memory for, whatever the memory behind it holds.             *)
THEOREM NoBufferShared == MapSpec => []NoSharedBuffer
<1>1. MapInv => NoSharedBuffer
  BY DEF MapInv, Marked, Buffer, IInv, TypeOK, NoSharedBuffer
<1> QED BY InitMapInv, StepMapInv, <1>1, PTL DEF MapSpec

(* With whole bytes the tracker counts the mapped pages, and               *)
(* get_next_free_page throws only when every buffer page is mapped.        *)
THEOREM NoBufferLeaked == MapSpec => []NoPageLeaked
<1>1. MapInv => NoPageLeaked
  BY ScansExact DEF MapInv, Counted, NoPageLeaked
<1> QED BY InitMapInv, StepMapInv, <1>1, PTL DEF MapSpec
=============================================================================
