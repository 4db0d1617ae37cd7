SPECIFICATION FairSpec
CONSTANTS
    outer = outer
    inner = inner
    c1 = c1
    c1body = c1body
    c2 = c2
    Broken = Broken
    Absent = Absent
    None = None
    Projects = {outer, inner}
    WalkUps <- MCWalkUps
    Names <- MCNames
    Depth <- MCDepth
    Sources <- MCSources
    EntryOf <- MCEntryOf
    ReadBy <- MCReadBy
    UnderSrc <- MCUnderSrc
    Contents = {c1, c1body, c2}
    ApiOf <- MCApiOf
    ProjectTexts <- MCProjectTexts
    Manifests <- MCManifests
    InitialDisk <- MCInitialDisk
    TypedIn <- MCTypedIn
    WrittenTo <- MCWrittenTo
    Budgets <- MCBudgets
INVARIANTS
    LibraryCurrentWhenQuiet
    LastIsWhatTheDatabaseWillHold
    FindingsCurrentWhenQuiet
    ProjectTextTracked
    LintedWithCurrentPremises
CHECK_DEADLOCK FALSE
PROPERTY EventuallyServed
