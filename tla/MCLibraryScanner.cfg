SPECIFICATION FairSpec
CONSTANTS
    top = top
    inner = inner
    deep = deep
    Directory = {top, inner, deep}
    Top = top
    Pdf = {p1, p2}
    Ignored = {link}
    RootOrders <- MCRootOrders
    Spelling <- MCSpelling
    Limits <- MCLimits
    NoDirectory = NoDirectory
INVARIANTS
    OutcomesAreTrue
    EveryFindIsHandedOnOnce
    WithinLimits
PROPERTIES
    CancelIsPrompt
    ScanEnds
CHECK_DEADLOCK FALSE
