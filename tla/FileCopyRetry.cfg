SPECIFICATION RetrySpec
CONSTANTS
  Proc = {p1}
  p1 = p1
  Inode = {i1, i2, i3, i4}
  i1 = i1
  i2 = i2
  i3 = i3
  i4 = i4
  NoFile = NoFile
  Block = {z, b1, b2}
  Zeros = z
  Content <- One
  z = z
  b1 = b1
  b2 = b2
  MayFail = {"open", "write", "unlink", "rename", "flush", "chdir"}
  OwnerDeletes = TRUE
  MaxEdits = 1
  MaxCrashes = 1
CONSTRAINT FirstBlock
PROPERTIES
  RetryHeals
