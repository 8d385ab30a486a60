SPECIFICATION IndexSpec
CONSTANTS
    RootId = {r1}
    Source = {s1}
    p1 = p1
    p2 = p2
    Path = {p1, p2}
    n1 = n1
    n2 = n2
    Name = {n1, n2}
    FileName <- MCFileName
    DocId = {d1, d2}
    FsId = {f1}
    ProposalId = {q1}
    MaxGeneration = 1
    NoSource = NoSource
    NoName = NoName
    NoDoc = NoDoc
    NoFsId = NoFsId
    NoProposal = NoProposal
INVARIANTS
    RowsRefer
    SearchMatchesDocuments
PROPERTIES
    ImplementsBookShelf
SYMMETRY IndexSymmetry
CHECK_DEADLOCK FALSE
