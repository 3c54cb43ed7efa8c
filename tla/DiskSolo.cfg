SPECIFICATION Spec
CONSTANTS
  p1 = p1  p2 = p2
  i1 = i1  i2 = i2  i3 = i3  i4 = i4
  n1 = n1
  b1 = b1  b2 = b2
  Procs = {p1}
  Names = {n1}
  Inodes = {i1, i2, i3}
  Bytes = {b1, b2}
  PageSize = 2
  NumPages = 8
  Cursors = {0, 1, 2}
  MaxDiskSize = 6
  MaxLoads = 2
  MaxFds = 2
  Fallible <- NoCalls
  Accidents = {"kill"}
SYMMETRY Symmetry
VIEW View
INVARIANTS
  TypeOK
  AckedSurvives
  DescriptorBalance
PROPERTIES
  ReadReturnsAcked
  ExtendFresh
  
  
