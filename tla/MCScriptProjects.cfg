CONSTANTS
  main = main
  part = part
  None = None
  Package = Package
  Unreadable = Unreadable
  Files = {main, part}
  Texts = {"includes", "plain"}
  IncludesOf <- MCIncludesOf
  DefinesOf <- MCDefinesOf
  InitialDisk <- MCInitialDisk
  EntryPoints <- MCEntryPoints
  NoEntries <- MCNoEntries
  Buffers <- MCBuffers
  Rewritable = {part}
  Written = {Unreadable, "plain"}
  Harvests <- MCHarvests
  Budgets <- MCBudgets
SPECIFICATION FairSpec
CHECK_DEADLOCK FALSE
INVARIANTS
  LoadIsOnItsWay
  SpansFitBuffer
  ProgramsCurrentWhenQuiet
  FindingsCurrentWhenQuiet
  NothingLintedWhilePending
PROPERTIES
  EventuallyInstalled
