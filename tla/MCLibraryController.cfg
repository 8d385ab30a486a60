SPECIFICATION FairSpec
CONSTANTS
    RootId = {r1}
    Query = {q1}
    MarkModes = {"Recent"}
    NoQuery = NoQuery
    NoRoot = NoRoot
    NoSnapshot = NoSnapshot
    MaxRequests = 3
    MaxVersion = 2
INVARIANTS
    TypeOK
    AtMostOneIngestion
    StatusSettles
    QuitIsOrderly
PROPERTIES
    OvertakenRefreshesAreDropped
    ShownInTheEnd
    QuitEnds
CHECK_DEADLOCK FALSE
