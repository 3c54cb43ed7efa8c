---------------------------- MODULE MCBufferMap -----------------------------
(* Instances of BufferMap for TLC, with bytes of two bits.                 *)
EXTENDS BufferMap

(* The memory behind the allocation is all zeros or all ones.              *)
ZerosOrOnes == {{}, 0 .. (ByteBits - 1)}
=============================================================================
