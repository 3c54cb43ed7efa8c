------------------------------- MODULE Bitmap -------------------------------
(***************************************************************************)
(* Library::Bitmap, behind BitmapTracker (which buffer pages are taken)    *)
(* and Heap (which tuple slots of a page are taken), and the image of it   *)
(* that serialize leaves in a page.                                        *)
(*                                                                         *)
(* A byte is the set of its bits that are 1.  The constructor allocates    *)
(* num_bits / 8 bytes; the bytes from there on that the other functions    *)
(* touch belong to somebody else, who may change them at any time.         *)
(***************************************************************************)
EXTENDS Integers, FiniteSetsExt

CONSTANTS
  Sizes,        \* the num_bits a caller constructs a bitmap with
  ByteBits,     \* bits of a byte, 8 in the program
  ForeignBytes  \* what the memory behind the allocation may hold

ASSUME SizesAssumption == Sizes \subseteq Nat \ {0}
ASSUME ByteBitsAssumption == ByteBits \in Nat \ {0} /\ ByteBits % 2 = 0
ASSUME ForeignBytesAssumption == ForeignBytes \subseteq SUBSET (0 .. (ByteBits - 1))

VARIABLES
  num_bits,   \* num_bits, never changed
  bitmap,     \* bitmap: byte index -> byte
  page,       \* the bytes of the page serialize writes and deserialize reads
  taken,      \* history: the bits callers set
  saved       \* history: the bits that were set when page was written

vars == <<num_bits, bitmap, page, taken, saved>>

Byte == SUBSET (0 .. (ByteBits - 1))
Bits == 0 .. (num_bits - 1)
Allocated == num_bits \div ByteBits

num_bytes == num_bits \div ByteBits + (IF num_bits % 2 # 0 THEN 1 ELSE 0)

(* The bytes that the bits 0 .. num_bits - 1 live in.                      *)
Reached == 0 .. ((num_bits - 1) \div ByteBits)

Fill(old) == [b \in DOMAIN old |-> IF b < num_bytes THEN {} ELSE old[b]]

(* memcpy of num_bytes bytes.                                              *)
Copied(dest, src) == [b \in DOMAIN dest |-> IF b < num_bytes THEN src[b] ELSE dest[b]]

(* The constructor; the page starts zeroed.                                *)
Init ==
  /\ num_bits \in Sizes
  /\ \E old \in [Reached -> ForeignBytes] : bitmap = Fill(old)
  /\ page = [b \in Reached |-> {}]
  /\ taken = {}
  /\ saved = {}

get_bit_val(bit) == bit % ByteBits \in bitmap[bit \div ByteBits]

(* Ways to get set_bit_val wrong: the whole byte replaced, the bit not     *)
(* reduced to its place in the byte.                                       *)
OverwriteByte(bit, val) ==
  bitmap' = [bitmap EXCEPT ![bit \div ByteBits] = IF val THEN {bit % ByteBits} ELSE {}]

UnreducedBit(bit, val) ==
  bitmap' = [bitmap EXCEPT ![bit \div ByteBits] = IF val THEN @ \cup {bit} ELSE @ \ {bit}]

(* SET_BIT and UNSET_BIT.                                                  *)
PutBit(bit, val) ==
  bitmap' = [bitmap EXCEPT ![bit \div ByteBits] =
               IF val THEN @ \cup {bit % ByteBits} ELSE @ \ {bit % ByteBits}]

(* BitmapTracker::set_page_status is this call.                            *)
set_bit_val(bit, val) ==
  /\ PutBit(bit, val)
  /\ taken' = IF val THEN taken \cup {bit} ELSE taken \ {bit}
  /\ UNCHANGED <<num_bits, page, saved>>

clear_bits ==
  /\ bitmap' = Fill(bitmap)
  /\ taken' = {}
  /\ UNCHANGED <<num_bits, page, saved>>

serialize ==
  /\ page' = Copied(page, bitmap)
  /\ saved' = taken
  /\ UNCHANGED <<num_bits, bitmap, taken>>

deserialize ==
  /\ bitmap' = Copied(bitmap, page)
  /\ taken' = saved
  /\ UNCHANGED <<num_bits, page, saved>>

(* The owner of the memory behind the allocation writes there.             *)
ForeignWrite ==
  /\ \E b \in Reached, v \in ForeignBytes :
       b >= Allocated /\ bitmap' = [bitmap EXCEPT ![b] = v]
  /\ UNCHANGED <<num_bits, page, taken, saved>>

FreeBits == {i \in Bits : ~get_bit_val(i)}
get_num_free_bits == Cardinality(FreeBits)
get_num_taken_bits == num_bits - get_num_free_bits

FirstTakenBit == IF FreeBits = Bits THEN {} ELSE {Min(Bits \ FreeBits)}

(* An optional, as a set of at most one: empty when every bit is set,      *)
(* where BitmapTracker::get_next_free_page throws bad_optional_access.     *)
get_first_free_bit == IF FreeBits = {} THEN {} ELSE {Min(FreeBits)}

Next ==
  \/ \E bit \in Bits, val \in BOOLEAN : set_bit_val(bit, val)
  \/ clear_bits \/ serialize \/ deserialize \/ ForeignWrite

Spec == Init /\ [][Next]_vars

-----------------------------------------------------------------------------
(* Properties.                                                             *)

(* Each variable has its type: bytes are bytes, and only bits of the       *)
(* bitmap are ever set.                                                    *)
TypeOK ==
  /\ num_bits \in Sizes
  /\ bitmap \in [Reached -> Byte] /\ page \in [Reached -> Byte]
  /\ taken \subseteq Bits /\ saved \subseteq Bits

(* Every bit in an allocated byte reads as callers last left it: setting   *)
(* or clearing one disturbs no neighbour, clear_bits clears them all, and  *)
(* what serialize wrote to a page deserialize brings back, whatever        *)
(* num_bits is and whatever lies behind the allocation.                    *)
BitsKept ==
  \A i \in Bits : i \div ByteBits < Allocated => (get_bit_val(i) <=> i \in taken)

(* The same of all num_bits bits: "tracks allocated pages".                *)
AllBitsKept == \A i \in Bits : get_bit_val(i) <=> i \in taken

(* For a whole number of bytes the free bit handed out is one nobody       *)
(* holds, the first such, and there is none exactly when                   *)
(* get_num_free_bits is 0 (the two asserts of Heap::insert_tuple).         *)
FirstFreeExact ==
  num_bits % ByteBits = 0 =>
    /\ get_first_free_bit = {i \in Bits \ taken : 0 .. (i - 1) \subseteq taken}
    /\ get_num_free_bits = 0 <=> get_first_free_bit = {}
    /\ get_num_taken_bits = Cardinality(taken)
=============================================================================
