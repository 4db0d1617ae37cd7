SPECIFICATION CacheSpec
CONSTANTS
    p = p
    q = q
    b1 = b1
    b2 = b2
    stdlib = stdlib
    dep = dep
    dev = dev
    Processes = {p, q}
    Builds = {b1, b2}
    System = {stdlib}
    Registered = {dep}
    Dev = {dev}
    Installs <- MCPatches
    FirstInstall <- MCFirstInstall
    NoKey = NoKey
    NoIndex = NoIndex
    NoEnv = NoEnv
    MaxTree = 1
    MaxSaves = 1
    MaxStarts = 2
SYMMETRY MCSymmetry
INVARIANTS HitsAreForTheRightContent
CHECK_DEADLOCK FALSE
