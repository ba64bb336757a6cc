SPECIFICATION Spec
CONSTANTS
  Proc = {p1}
  p1 = p1
  Inode = {i1, i2, i3, i4}
  i1 = i1
  i2 = i2
  i3 = i3
  i4 = i4
  NoFile = NoFile
  Block = {z, b1, b2}
  Zeros = z
  Content <- EmptyOrTwo
  z = z
  b1 = b1
  b2 = b2
  MayFail = {"open", "mkstemp", "read", "write", "unlink", "rename", "flush", "chdir", "attrs", "remove"}
  OwnerDeletes = TRUE
  MaxEdits = 3
  MaxCrashes = 0
CONSTRAINT Undeceived
SYMMETRY SymmetricBlocks
VIEW WithoutFree
INVARIANTS
  TypeOK
  NoBadBackup
  BackupIsSnapshot
  RestoreIsReal
