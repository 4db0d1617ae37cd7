CONSTANTS
  a = a
  b = b
  t0 = t0
  t1 = t1
  None = None
  Docs = {a, b}
  Texts = {t0, t1}
  InitialText = t0
  Members = {a, b}
  ProjectionOf <- MCProjectionOf
  JobIds = {1, 2, 3}
  MaxEdits = 3
  MaxRules = 1
  MaxLibrary = 0
  MaxPanics = 1
  Closable = {a}
  Rewritable = {a}
  VersionsRestart = FALSE
SPECIFICATION MCSpec
CHECK_DEADLOCK FALSE
INVARIANTS
  TypeOK
  SingleFlight
  NoLostWakeup
  FreshWhenQuiet
  DrainEnqueuesInOrder
  SlotNeverLeaks
  ClosedTracksDisk
PROPERTIES
  ImplementsService
