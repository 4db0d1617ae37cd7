CONSTANTS
  f = f
  g = g
  t0 = t0
  t1 = t1
  r1 = r1
  r2 = r2
  None = None
  Docs = {f}
  Members = {f}
  Texts = {t0, t1}
  InitialText = t0
  Ids = {r1, r2}
  Requests <- MCReads
  MaxVersion = 2
  Closable = {f}
  Cancellable = {r1}
  Panickable = {r2}
  MaxHarvests = 1
SPECIFICATION FairSpec
CHECK_DEADLOCK FALSE
INVARIANTS
  TypeOK
  CancelBeatsReply
  ReadsAreCarried
PROPERTIES
  ImplementsService
  EventuallyAnswered
