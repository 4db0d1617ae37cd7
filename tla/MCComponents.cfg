SPECIFICATION MCSpec
CONSTANTS
    ch = ch
    e1 = e1
    e2 = e2
    g = g
    CR = CR
    LF = LF
    Utf8 = Utf8
    Utf16 = Utf16
    NoEdits = NoEdits
    Chars = {ch, e1, e2, g, CR, LF}
    BytesOf <- MCBytesOf
    UnitsOf <- MCUnitsOf
    FirstTexts <- MCFirstTexts
    Typed <- MCTyped
    Formatted <- MCFormatted
    GapStyles = {"replace", "pair", "match"}
    MaxChanges = 2
    MaxTyped = 4
    MaxUnanchored = 2
    r1 = r1
    r2 = r2
    r3 = r3
    CodeRules = {r1, r2, r3}
    Outdated = Outdated
    Misnamed = Misnamed
    Blanket = Blanket
    Typo = Typo
    NearMatch = r3
    NoRule = NoRule
    NoTarget = NoTarget
    Rewrites <- MCRewrites
    UnsafeRules = {r2}
    FirstFiles <- MCFirstFiles
    Enabled <- MCEnabled
    Quiets <- MCQuiets
    LooseFixes <- MCLooseFixes
    LooseText <- MCLooseText
    MaxPasses = 2
    l = l
    NoExit = NoExit
    NoLoop = NoLoop
    NoClause = NoClause
    Regions <- MCRegions
    main_file = main_file
    file_a = file_a
    file_b = file_b
    absent = absent
    PkgName = PkgName
    Sub = Sub
    Files = {main_file, file_a, file_b}
    Absent = absent
    Entry = main_file
    Pkg = PkgName
    Trees <- MCTrees
    top = top
    sub = sub
    base = base
    x = x
    y = y
    Dirs = {top, sub}
    Above <- MCAbove
    Bases = {base}
    Defaults = Defaults
    Unset = Unset
    NoFile = NoFile
    Contents <- MCContents
    BaseContents <- MCBaseContents
    FirstDisks <- MCFirstDisks
    Payloads = {x, Null}
    Null = Null
    Unparsable = Unparsable
    NotCached = NotCached
    Failed = Failed
    MaxEdits = 2
    MaxPushes = 1
    p = p
    q = q
    b1 = b1
    b2 = b2
    stdlib = stdlib
    dep = dep
    dev = dev
    Processes = {p, q}
    Builds = {b1, b2}
    System = {stdlib}
    Registered = {dep}
    Dev = {dev}
    Installs <- MCInstalls
    FirstInstall <- MCFirstInstall
    NoKey = NoKey
    NoIndex = NoIndex
    NoEnv = NoEnv
    MaxTree = 1
    MaxSaves = 1
    MaxStarts = 2
INVARIANTS
    TextsAgree
    FixesAreSafe
    UnreachableIsDead
    WalksAreConsistent
    ConfigCurrentWhenQuiet
    HitsAreForTheRightContent
CHECK_DEADLOCK FALSE
