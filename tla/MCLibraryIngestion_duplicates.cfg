SPECIFICATION Spec
CONSTANTS
    r1 = r1
    r2 = r2
    p1 = p1
    RootId = {r1, r2}
    Source = {s1, s2}
    Path = {p1, p2}
    Name = {p1, p2}
    FileName <- MCFileName
    DocId = {d1, d2, d3}
    FsId = {f1}
    ProposalId = {q1, q2, q3}
    MaxGeneration = 2
    NoSource = NoSource
    NoName = NoName
    NoDoc = NoDoc
    NoFsId = NoFsId
    NoProposal = NoProposal
    PathsOf <- MCPathsOf
    RootOrder <- MCRootOrder
    IdentityCanFail = FALSE
    BatchSize = 2
    MaxDiskChanges = 2
    NoWork = NoWork
INVARIANTS
    OneBookPerPath
CHECK_DEADLOCK FALSE
