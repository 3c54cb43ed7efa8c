SPECIFICATION Spec
CONSTANTS
  Sizes = {6}
  ByteBits = 4
  ForeignBytes = {{}}
INVARIANT AllBitsKept
