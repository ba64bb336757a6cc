SPECIFICATION Spec
CONSTANTS
  Proc = {p1, p2}
  p1 = p1
  Inode = {i1, i2, i3, i4, i5, i6}
  i1 = i1
  i2 = i2
  i3 = i3
  i4 = i4
  NoFile = NoFile
  Block = {z}
  Zeros = z
  Content <- Empty
  z = z
  MayFail = {"open", "mkstemp", "read", "unlink", "chdir", "attrs", "remove"}
  OwnerDeletes = FALSE
  MaxEdits = 0
  MaxCrashes = 0
  p2 = p2
  i5 = i5
  i6 = i6
SYMMETRY SymmetricProcs
INVARIANTS
  OrigMissingOnlyMidRestore
  NoStrayTmp
