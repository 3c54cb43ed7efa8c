---------------------------- MODULE BitmapProofs ----------------------------
(* Proofs about Bitmap, for every number of bits and width of a byte.      *)
EXTENDS Bitmap, FiniteSetTheorems, WellFoundedInduction, TLAPS

(* bit / 8 and bit % 8 name a byte and a bit of it, and no two bits share  *)
(* them.                                                                   *)
LEMMA BytePlace ==
  ASSUME NEW i \in Nat
  PROVE  /\ i \div ByteBits \in Nat
         /\ i % ByteBits \in 0 .. (ByteBits - 1)
         /\ i = ByteBits * (i \div ByteBits) + (i % ByteBits)
  BY ByteBitsAssumption

(* Two bits with the same byte and the same place in it are one bit.       *)
LEMMA BytePlaceUnique ==
  ASSUME NEW i \in Nat, NEW j \in Nat,
         i \div ByteBits = j \div ByteBits, i % ByteBits = j % ByteBits
  PROVE  i = j
<1>1. i = ByteBits * (i \div ByteBits) + (i % ByteBits)
  BY BytePlace
<1>2. j = ByteBits * (j \div ByteBits) + (j % ByteBits)
  BY BytePlace
<1> QED BY <1>1, <1>2

(* A later bit lies in the same byte or a later one.                       *)
LEMMA ByteOrder ==
  ASSUME NEW i \in Nat, NEW j \in Nat, i <= j
  PROVE  i \div ByteBits <= j \div ByteBits
<1> DEFINE a == i \div ByteBits
           b == j \div ByteBits
           B == ByteBits
<1>1. /\ a \in Nat /\ b \in Nat /\ B \in Nat \ {0}
      /\ i = B * a + (i % B) /\ i % B \in 0 .. (B - 1)
      /\ j = B * b + (j % B) /\ j % B \in 0 .. (B - 1)
  BY BytePlace, ByteBitsAssumption
<1> HIDE DEF a, b
<1>2. SUFFICES ASSUME a >= b + 1 PROVE FALSE
  BY <1>1 DEF a, b
<1>3. B * a >= B * (b + 1)
  BY <1>1, <1>2
<1>4. B * (b + 1) = B * b + B
  BY <1>1
<1> QED BY <1>1, <1>3, <1>4

(* The sizes the constructor computes are numbers, num_bytes covers the    *)
(* allocation, and every bit has a byte.                                   *)
LEMMA Sized ==
  ASSUME num_bits \in Sizes
  PROVE  /\ num_bits \in Nat /\ num_bits > 0
         /\ Allocated \in Nat /\ num_bytes \in Nat /\ Allocated <= num_bytes
         /\ \A i \in Bits : i \in Nat /\ i \div ByteBits \in Reached
<1>1. num_bits \in Nat /\ num_bits > 0 /\ num_bits - 1 \in Nat
  BY SizesAssumption
<1>2. Allocated \in Nat
  BY <1>1, BytePlace DEF Allocated
<1>3. num_bytes \in Nat /\ Allocated <= num_bytes
  BY <1>2 DEF num_bytes, Allocated
<1>4. ASSUME NEW i \in Bits
      PROVE  i \in Nat /\ i \div ByteBits \in Reached
  <2>1. i \in Nat /\ i <= num_bits - 1
    BY <1>1 DEF Bits
  <2>2. i \div ByteBits <= (num_bits - 1) \div ByteBits
    BY <1>1, <2>1, ByteOrder
  <2> QED BY <1>1, <2>1, <2>2, BytePlace DEF Reached
<1> QED BY <1>1, <1>2, <1>3, <1>4

(* The part of the induction that is about the page: it holds the bits     *)
(* that were set when serialize last wrote it.                             *)
PageKept ==
  \A i \in Bits : i \div ByteBits < Allocated =>
    (i % ByteBits \in page[i \div ByteBits] <=> i \in saved)

(* The inductive invariant: a bit can be read back from the page only if   *)
(* the page holds what was saved.                                          *)
IInv == TypeOK /\ BitsKept /\ PageKept

(* The invariant holds of a bitmap just constructed.                       *)
LEMMA InitIInv == Init => IInv
<1> SUFFICES ASSUME Init PROVE IInv
  OBVIOUS
<1> USE DEF Init
<1>1. PICK old \in [Reached -> ForeignBytes] : bitmap = Fill(old)
  OBVIOUS
<1>2. \A v \in ForeignBytes : v \in Byte
  BY ForeignBytesAssumption DEF Byte
<1>3. bitmap \in [Reached -> Byte]
  BY <1>1, <1>2 DEF Fill, Byte
<1>4. TypeOK
  BY <1>3 DEF TypeOK, Byte
<1>5. \A b \in Reached : b < Allocated => bitmap[b] = {}
  BY <1>1, Sized DEF Fill, Reached
<1>6. BitsKept /\ PageKept
  BY <1>5, Sized DEF BitsKept, PageKept, get_bit_val
<1> QED BY <1>4, <1>6 DEF IInv

(* Every call, and every write of others behind the allocation, keeps the  *)
(* invariant.                                                              *)
LEMMA StepIInv == IInv /\ [Next]_vars => IInv'
<1> SUFFICES ASSUME IInv, [Next]_vars PROVE IInv'
  OBVIOUS
<1>1. num_bits \in Sizes /\ bitmap \in [Reached -> Byte] /\ page \in [Reached -> Byte]
  BY DEF IInv, TypeOK
<1>2. num_bits' = num_bits
  BY DEF Next, vars, set_bit_val, clear_bits, serialize, deserialize, ForeignWrite
<1>3. Bits' = Bits /\ Allocated' = Allocated /\ Reached' = Reached
  BY <1>2 DEF Bits, Allocated, Reached
<1>4. \A b \in Reached : b < Allocated => b < num_bytes
  BY <1>1, Sized DEF Reached
<1>5. SUFFICES /\ bitmap' \in [Reached -> Byte] /\ page' \in [Reached -> Byte]
               /\ taken' \subseteq Bits /\ saved' \subseteq Bits
               /\ \A i \in Bits : i \div ByteBits < Allocated =>
                    /\ (i % ByteBits \in bitmap'[i \div ByteBits]) <=> i \in taken'
                    /\ i % ByteBits \in page'[i \div ByteBits] <=> i \in saved'
  BY <1>1, <1>2, <1>3 DEF IInv, TypeOK, BitsKept, PageKept, get_bit_val
<1>6. /\ taken \subseteq Bits /\ saved \subseteq Bits
      /\ \A i \in Bits : i \div ByteBits < Allocated =>
           /\ i % ByteBits \in bitmap[i \div ByteBits] <=> i \in taken
           /\ i % ByteBits \in page[i \div ByteBits] <=> i \in saved
  BY DEF IInv, TypeOK, BitsKept, PageKept, get_bit_val
<1>7. \A i \in Bits : i \in Nat /\ i \div ByteBits \in Reached
  BY <1>1, Sized
<1>8. ASSUME NEW bit \in Bits, NEW val \in BOOLEAN, set_bit_val(bit, val)
      PROVE  /\ bitmap' \in [Reached -> Byte]
             /\ taken' \subseteq Bits
             /\ \A i \in Bits : i \div ByteBits < Allocated =>
                  (i % ByteBits \in bitmap'[i \div ByteBits] <=> i \in taken')
  <2> DEFINE B == bit \div ByteBits
             r == bit % ByteBits
  <2>1. bit \in Nat /\ B \in Reached /\ r \in 0 .. (ByteBits - 1)
    BY <1>7, BytePlace
  <2>2. bitmap' = [bitmap EXCEPT ![B] = IF val THEN @ \cup {r} ELSE @ \ {r}]
    BY <1>8 DEF set_bit_val, PutBit
  <2>3. taken' = IF val THEN taken \cup {bit} ELSE taken \ {bit}
    BY <1>8 DEF set_bit_val
  <2>4. bitmap' \in [Reached -> Byte]
    BY <1>1, <2>1, <2>2 DEF Byte
  <2>5. ASSUME NEW i \in Bits, i \div ByteBits < Allocated
        PROVE  i % ByteBits \in bitmap'[i \div ByteBits] <=> i \in taken'
    <3>1. CASE i = bit
      BY <1>1, <2>1, <2>2, <2>3, <3>1
    <3>2. CASE i # bit
      <4>1. ~(i \div ByteBits = B /\ i % ByteBits = r)
        BY <1>7, <2>1, <3>2, BytePlaceUnique
      <4>2. i \in taken' <=> i \in taken
        BY <2>3, <3>2
      <4>3. i % ByteBits \in bitmap'[i \div ByteBits]
              <=> i % ByteBits \in bitmap[i \div ByteBits]
        BY <1>1, <1>7, <2>1, <2>2, <4>1
      <4> QED BY <1>6, <2>5, <4>2, <4>3
    <3> QED BY <3>1, <3>2
  <2>6. taken' \subseteq Bits
    BY <1>6, <2>3
  <2> QED BY <2>4, <2>5, <2>6
<1>9. CASE \E bit \in Bits, val \in BOOLEAN : set_bit_val(bit, val)
  <2>1. page' = page /\ saved' = saved
    BY <1>9 DEF set_bit_val
  <2> QED BY <1>1, <1>6, <1>8, <1>9, <2>1
<1>10. CASE clear_bits
  <2> USE <1>10 DEF clear_bits
  <2>1. bitmap' \in [Reached -> Byte]
    BY <1>1 DEF Fill, Byte
  <2>2. \A b \in Reached : b < Allocated => bitmap'[b] = {}
    BY <1>1, <1>4 DEF Fill
  <2> QED BY <1>1, <1>6, <1>7, <2>1, <2>2
<1>11. CASE serialize
  <2> USE <1>11 DEF serialize
  <2>1. page' \in [Reached -> Byte]
    BY <1>1 DEF Copied
  <2>2. \A b \in Reached : b < Allocated => page'[b] = bitmap[b]
    BY <1>1, <1>4 DEF Copied
  <2> QED BY <1>1, <1>6, <1>7, <2>1, <2>2
<1>12. CASE deserialize
  <2> USE <1>12 DEF deserialize
  <2>1. bitmap' \in [Reached -> Byte]
    BY <1>1 DEF Copied
  <2>2. \A b \in Reached : b < Allocated => bitmap'[b] = page[b]
    BY <1>1, <1>4 DEF Copied
  <2> QED BY <1>1, <1>6, <1>7, <2>1, <2>2
<1>13. CASE ForeignWrite
  <2> USE <1>13
  <2>1. PICK b \in Reached, v \in ForeignBytes :
          b >= Allocated /\ bitmap' = [bitmap EXCEPT ![b] = v]
    BY DEF ForeignWrite
  <2>2. v \in Byte
    BY ForeignBytesAssumption DEF Byte
  <2>3. bitmap' \in [Reached -> Byte]
    BY <1>1, <2>1, <2>2
  <2>4. \A c \in Reached : c < Allocated => bitmap'[c] = bitmap[c]
    BY <1>1, <2>1, Sized DEF Reached
  <2> QED BY <1>1, <1>6, <1>7, <2>3, <2>4 DEF ForeignWrite
<1>14. CASE UNCHANGED vars
  BY <1>1, <1>6, <1>14 DEF vars
<1> QED BY <1>9, <1>10, <1>11, <1>12, <1>13, <1>14 DEF Next

(* For every size and every content of the memory behind it, the bits in   *)
(* allocated bytes read as callers last left them, through set_bit_val,    *)
(* clear_bits, serialize and deserialize.                                  *)
THEOREM BitsAreKept == Spec => []BitsKept
<1>1. IInv => BitsKept
  BY DEF IInv
<1> QED BY InitIInv, StepIInv, <1>1, PTL DEF Spec

(* Each variable keeps its type: no operation sets a bit past num_bits or  *)
(* makes a byte something else than a byte, whatever serialize copied.     *)
THEOREM TypeCorrect == Spec => []TypeOK
<1>1. IInv => TypeOK
  BY DEF IInv
<1> QED BY InitIInv, StepIInv, <1>1, PTL DEF Spec

-----------------------------------------------------------------------------
(* The scans over the bits.                                                *)

(* The least element of a set of numbers.                                  *)
LEMMA MinIsLeast ==
  ASSUME NEW S \in SUBSET Nat, S # {}
  PROVE  Min(S) \in S /\ \A y \in S : Min(S) <= y
<1>1. \E x \in S : \A y \in S : ~(<<y, x>> \in OpToRel(<, Nat))
  BY NatLessThanWellFounded, WFMin
<1>2. PICK x \in S : \A y \in S : ~(y < x)
  BY <1>1 DEF OpToRel
<1>3. \A y \in S : x <= y
  BY <1>2
<1> QED BY <1>3 DEF Min

(* With a whole number of bytes the allocation has all the bits.           *)
LEMMA WholeBytes ==
  ASSUME num_bits \in Sizes, num_bits % ByteBits = 0, NEW i \in Bits
  PROVE  i \div ByteBits < Allocated
<1> DEFINE a == i \div ByteBits
           n == num_bits \div ByteBits
           B == ByteBits
<1>1. i \in Nat /\ i < num_bits /\ num_bits \in Nat
  BY Sized DEF Bits
<1>2. /\ a \in Nat /\ n \in Nat /\ B \in Nat \ {0}
      /\ i = B * a + (i % B) /\ i % B \in 0 .. (B - 1) /\ num_bits = B * n
  BY <1>1, BytePlace, ByteBitsAssumption
<1> HIDE DEF a, n
<1>3. SUFFICES ASSUME a >= n PROVE FALSE
  BY <1>2 DEF a, n, Allocated
<1>4. B * a >= B * n
  BY <1>2, <1>3
<1> QED BY <1>1, <1>2, <1>4

(* With a whole number of bytes the bits that read 0 are the ones nobody   *)
(* holds, and the scans for them agree.                                    *)
LEMMA ScansExact ==
  ASSUME IInv, num_bits % ByteBits = 0
  PROVE  /\ FreeBits = Bits \ taken /\ taken \subseteq Bits /\ IsFiniteSet(taken)
         /\ get_first_free_bit \subseteq Bits \ taken
         /\ get_first_free_bit = {i \in Bits \ taken : 0 .. (i - 1) \subseteq taken}
         /\ get_num_free_bits = 0 <=> get_first_free_bit = {}
         /\ get_num_taken_bits = Cardinality(taken)
<1>1. num_bits \in Sizes /\ taken \subseteq Bits
  BY DEF IInv, TypeOK
<1>2. num_bits \in Nat /\ Bits \subseteq Nat
  BY <1>1, Sized DEF Bits
<1>3. FreeBits = Bits \ taken
  BY <1>1, WholeBytes DEF IInv, BitsKept, FreeBits
<1>4. IsFiniteSet(Bits) /\ Cardinality(Bits) = num_bits
  <2>1. num_bits \in Nat /\ num_bits > 0 /\ 0 \in Int /\ num_bits - 1 \in Int
    BY <1>1, Sized
  <2>2. IsFiniteSet(0 .. (num_bits - 1)) /\ Cardinality(0 .. (num_bits - 1)) = (num_bits - 1) - 0 + 1
    BY <2>1, FS_Interval
  <2> QED BY <2>1, <2>2 DEF Bits
<1>5. IsFiniteSet(FreeBits) /\ IsFiniteSet(taken)
  BY <1>1, <1>3, <1>4, FS_Subset
<1>6. get_num_taken_bits = Cardinality(taken)
  <2>1. Cardinality(FreeBits) = Cardinality(Bits) - Cardinality(Bits \cap taken)
    BY <1>3, <1>4, FS_Difference
  <2>2. Bits \cap taken = taken
    BY <1>1
  <2>3. Cardinality(taken) \in Nat
    BY <1>5, FS_CardinalityType
  <2> QED BY <1>2, <1>4, <2>1, <2>2, <2>3 DEF get_num_taken_bits, get_num_free_bits
<1>7. get_num_free_bits = 0 <=> get_first_free_bit = {}
  BY <1>5, FS_EmptySet DEF get_num_free_bits, get_first_free_bit
<1>8. get_first_free_bit = {i \in Bits \ taken : 0 .. (i - 1) \subseteq taken}
  <2>1. CASE FreeBits = {}
    BY <1>3, <2>1 DEF get_first_free_bit
  <2>2. CASE FreeBits # {}
    <3> DEFINE m == Min(FreeBits)
    <3>1. m \in FreeBits /\ \A y \in FreeBits : m <= y
      BY <1>2, <1>3, <2>2, MinIsLeast
    <3> HIDE DEF m
    <3>2. ASSUME NEW j \in 0 .. (m - 1) PROVE j \in taken
      <4>1. j \in Bits /\ j < m
        BY <1>2, <1>3, <3>1 DEF Bits
      <4> QED BY <1>2, <1>3, <3>1, <4>1
    <3>3. ASSUME NEW i \in Bits \ taken, 0 .. (i - 1) \subseteq taken PROVE i = m
      <4>1. i \in Nat /\ m \in Nat /\ m <= i /\ m \notin taken
        BY <1>2, <1>3, <3>1, <3>3
      <4>2. ~(m < i)
        BY <3>3, <4>1
      <4> QED BY <4>1, <4>2
    <3>4. get_first_free_bit = {m}
      BY <2>2 DEF get_first_free_bit, m
    <3> QED BY <1>3, <3>1, <3>2, <3>3, <3>4
  <2> QED BY <2>1, <2>2
<1>9. get_first_free_bit \subseteq Bits \ taken
  BY <1>8
<1> QED BY <1>1, <1>3, <1>5, <1>6, <1>7, <1>8, <1>9

(* With a whole number of bytes get_first_free_bit is the first bit nobody *)
(* holds, none exactly when get_num_free_bits is 0, and the count of taken *)
(* bits is right, after any history of calls.                              *)
THEOREM FirstFreeIsExact == Spec => []FirstFreeExact
<1>1. IInv => FirstFreeExact
  BY ScansExact DEF FirstFreeExact
<1> QED BY InitIInv, StepIInv, <1>1, PTL DEF Spec
=============================================================================
