SPECIFICATION ForAllSpec
CONSTANTS
  Proc = {p1}
  p1 = p1
  Name = {x, y}
  x = x
  y = y
  NULL = NULL
  Broken = {x}
  Flaky = {}
  Backup = TRUE
  MayFail = {}
  MaxAdds = 2
  MaxCrashes = 0
PROPERTIES
  JobsGetDone
