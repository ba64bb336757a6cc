SPECIFICATION Spec
CONSTANTS
  Proc = {p1, p2}
  p1 = p1
  p2 = p2
  Name = {x, y}
  x = x
  y = y
  NULL = NULL
  Broken = {}
  Flaky = {x, y}
  Backup = TRUE
  MayFail = {"creat", "mkdir", "read", "print", "mkstemp", "write", "unlink", "rename", "chdir"}
  MaxAdds = 2
  MaxCrashes = 1
SYMMETRY SymmetricAll
INVARIANTS
  TypeOK
  NoLoss
  MissingOnlyMidSave
  NoStrayTmp
