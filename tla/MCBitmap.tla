------------------------------ MODULE MCBitmap ------------------------------
(* Instances of Bitmap for TLC, with bytes of four bits.                   *)
EXTENDS Bitmap

(* The memory behind the allocation is all zeros or all ones.              *)
ZerosOrOnes == {{}, 0 .. (ByteBits - 1)}
=============================================================================
