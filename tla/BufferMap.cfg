SPECIFICATION MapSpec
CONSTANTS
  Sizes = {2, 4, 5}
  ByteBits = 2
  ForeignBytes <- ZerosOrOnes
  Disks = {0, 1}
  Cursors = {0, 1, 2}
INVARIANTS
  NoSharedBuffer
  NoPageLeaked
