SPECIFICATION Spec
CONSTANTS
  Sizes = {2, 5, 8}
  ByteBits = 4
  ForeignBytes <- ZerosOrOnes
INVARIANTS
  TypeOK
  BitsKept
  FirstFreeExact
