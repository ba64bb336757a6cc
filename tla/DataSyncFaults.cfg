SPECIFICATION RetrySpec
CONSTANTS
  Proc = {p1}
  p1 = p1
  Inode = {i1, i2, i3, i4}
  i1 = i1
  i2 = i2
  i3 = i3
  i4 = i4
  NoFile = NoFile
  Block = {b1, b2}
  b1 = b1
  b2 = b2
  Zeros = Zeros
  MayFail = {"creat", "open", "mkstemp", "rsync", "unlink", "rename", "flush", "chdir"}
  MaxBlocks = 2
  MaxEdits = 1
  MaxCrashes = 1
CONSTRAINTS
  EditOrKill
  FirstBlock
INVARIANTS
  TypeOK
  SyncedIsRead
  FailureKeepsDest
  NoStrayTmp
PROPERTIES
  RetryHeals
