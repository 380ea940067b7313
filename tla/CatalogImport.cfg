SPECIFICATION MCSpec
CONSTANTS
    Absent = Absent
    cat = cat
    drill = drill
    retail = retail
    trade = trade
    main = main
    annex = annex
    buyer = buyer
    Default <- Retail
    Supported <- MCSupported
    Importers = {p1, p2}
    Keys <- MCKeys
    Files <- MCFiles
PROPERTIES
    NeverDowngraded
    DefaultNeverLost
    OnlyTheScopeIsSwept
    ScopeHoldsTheFile
    EveryImportEnds
