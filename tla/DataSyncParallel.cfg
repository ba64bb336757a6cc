SPECIFICATION Spec
CONSTANTS
  Proc = {p1, p2}
  p1 = p1
  p2 = p2
  Inode = {i1, i2, i3, i4, i5}
  i1 = i1
  i2 = i2
  i3 = i3
  i4 = i4
  i5 = i5
  NoFile = NoFile
  Block = {b1}
  b1 = b1
  Zeros = Zeros
  MayFail = {}
  MaxBlocks = 2
  MaxEdits = 0
  MaxCrashes = 0
SYMMETRY Symmetric
VIEW WithoutFree
INVARIANTS
  OneSuccessIsEnough
