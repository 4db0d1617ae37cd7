CONSTANTS
  f = f
  g = g
  t0 = t0
  t1 = t1
  r1 = r1
  r2 = r2
  None = None
  Docs = {f}
  Members = {f}
  Texts = {t0, t1}
  InitialText = t0
  Ids = {r1}
  Requests <- MCDefinition
  MaxVersion = 2
  Closable = {}
  Cancellable = {}
  Panickable = {}
  MaxHarvests = 0
SPECIFICATION FairSpec
CHECK_DEADLOCK FALSE
PROPERTIES
  EveryRequestAnswered
