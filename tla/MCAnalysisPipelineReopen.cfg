CONSTANTS
  a = a
  b = b
  t0 = t0
  t1 = t1
  None = None
  Docs = {a}
  Texts = {t0, t1}
  InitialText = t0
  Members = {}
  ProjectionOf <- MCProjectionOf
  JobIds = {1, 2, 3}
  MaxEdits = 2
  MaxRules = 0
  MaxLibrary = 0
  MaxPanics = 0
  Closable = {a}
  Rewritable = {}
  VersionsRestart = FALSE
SPECIFICATION Spec
CHECK_DEADLOCK FALSE
INVARIANTS
  OpenBufferTracked
