SPECIFICATION FairSpec
CONSTANTS
  p1 = p1  p2 = p2
  i1 = i1  i2 = i2  i3 = i3  i4 = i4
  n1 = n1
  b1 = b1  b2 = b2
  Procs = {p1}
  Names = {n1}
  Inodes = {i1, i2}
  Bytes = {b1}
  PageSize = 2
  NumPages = 3
  Cursors = {0, 1}
  MaxDiskSize = 4
  MaxLoads = 3
  MaxFds = 2
  Fallible <- AllCalls
  Accidents = {}
INVARIANTS
  AckedSurvives
  DescriptorBalance
PROPERTIES
  ImplementsDiskStore
  OperationsEnd
