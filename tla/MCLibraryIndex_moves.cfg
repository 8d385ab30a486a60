SPECIFICATION MovesSpec
CONSTANTS
    RootId = {r1, r2}
    Source = {s1, s2}
    p1 = p1
    p2 = p2
    Path = {p1}
    n1 = n1
    n2 = n2
    Name = {n1, n2}
    FileName <- MCFileName
    DocId = {d1, d2}
    FsId = {f1}
    ProposalId = {q1}
    MaxGeneration = 2
    NoSource = NoSource
    NoName = NoName
    NoDoc = NoDoc
    NoFsId = NoFsId
    NoProposal = NoProposal
INVARIANTS
    ScanEvidenceOrdered
    RelinkAuthorityIsBacked
PROPERTIES
    BooksMoveOnlyWhenProven
    LinkedBooksStayLinked
    NewerScanWins
    SupersededMovesNeverApply
SYMMETRY IndexSymmetry
CHECK_DEADLOCK FALSE
