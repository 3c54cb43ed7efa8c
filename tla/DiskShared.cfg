SPECIFICATION Spec
CONSTANTS
  p1 = p1  p2 = p2
  i1 = i1  i2 = i2  i3 = i3  i4 = i4
  n1 = n1
  b1 = b1  b2 = b2
  Procs = {p1, p2}
  Names = {n1}
  Inodes = {i1, i2, i3, i4}
  Bytes = {b1}
  PageSize = 2
  NumPages = 8
  Cursors <- ValidCursors
  MaxDiskSize = 6
  MaxLoads = 1
  MaxFds = 1
  Fallible <- NoCalls
  Accidents = {}
SYMMETRY Symmetry
VIEW View
INVARIANTS
  
  WithinMax
  DescriptorBalance
