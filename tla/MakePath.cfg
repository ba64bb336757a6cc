SPECIFICATION FairSpec
CONSTANTS
  p1 = p1
  p2 = p2
  Proc <- Procs
  Goal <- Goals
  MayFail = {"creat", "mkdir"}
  MaxRemovals = 2
INVARIANTS
  TypeOK
  EndMeansMade
PROPERTIES
  CallsEnd
