SPECIFICATION IncludeSpec
CONSTANTS
    main_file = main_file
    file_a = file_a
    file_b = file_b
    absent = absent
    PkgName = PkgName
    Sub = Sub
    Files = {main_file, file_a, file_b}
    Absent = absent
    Entry = main_file
    Pkg = PkgName
    Trees <- MCTrees
INVARIANTS ServerFindsTheSameMissing
CHECK_DEADLOCK FALSE
