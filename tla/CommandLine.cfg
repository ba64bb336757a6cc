SPECIFICATION CmdFairSpec
CONSTANTS
  Proc = {p1}
  p1 = p1
  Name = {x, y}
  x = x
  y = y
  NULL = NULL
  Broken = {x}
  Flaky = {x}
  Backup = FALSE
  MayFail = {"creat", "mkdir", "mkstemp", "write", "unlink", "chdir"}
  MaxAdds = 3
  MaxCrashes = 1
  OptionLists <- MCOptionLists
  MaxPaths = 2
INVARIANTS
  WrongPlaceIsReported
PROPERTIES
  SuccessIsReal
  ImplementsQueue
  CommandsEnd
  JobsGetDone
