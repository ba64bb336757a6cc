SPECIFICATION Spec
CONSTANTS
  Values <- MCValues
  Texts <- MCTexts
  DefaultSize = 4
  IntMax = 60
  NestingLimit = 3
INVARIANTS
  InsideBuffer
  InBounds
  RoundTrip
  NoLeak
PROPERTIES
  ImplementsBuffer
