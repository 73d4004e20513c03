CONSTANTS
  p1 = p1
  p2 = p2
  p3 = p3
  t1 = t1
  t2 = t2
  i1 = i1
  i2 = i2
  i3 = i3
  i4 = i4
  Process <- ThreeProcesses
  Task <- TwoTasks
  Inode <- FourInodes
  None = None
  Launches <- KeptApart
SYMMETRY Interchangeable
SPECIFICATION Spec
INVARIANTS OneOwner
PROPERTY RecordsAreKept
