CONSTANTS
  f = f
  g = g
  None = None
  Files = {f, g}
  Members = {f, g}
  Texts <- MCTexts
  InitialText = 0
  Edits = {"type", "erase", "paste"}
  Apply <- MCApply
  BigEdits = {"paste"}
  Batches <- MCBatches
  MaxBases = 1
  MaxChain = 2
  Openable = {f, g}
  Closable = {f}
  MaxVersion = 3
  MaxClock = 8
SPECIFICATION MCSpec
CHECK_DEADLOCK FALSE
INVARIANTS
  TypeOK
  ParsesAreExact
  ChainReachesText
  BasesBounded
PROPERTIES
  EvictsColdThenOldest
