CONSTANTS
  a = a
  b = b
  t0 = t0
  t1 = t1
  None = None
  Docs = {a, b}
  Texts = {t0, t1}
  InitialText = t0
  Members = {a, b}
  ProjectionOf <- MCProjectionOf
  JobIds = {1, 2, 3}
  MaxEdits = 2
  MaxRules = 0
  MaxLibrary = 1
  MaxPanics = 0
  Closable = {}
  Rewritable = {}
  VersionsRestart = FALSE
SPECIFICATION OpenSpec
CHECK_DEADLOCK FALSE
PROPERTIES
  ImplementsFairService
  EventuallyFresh
