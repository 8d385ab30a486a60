SPECIFICATION FairSpec
CONSTANTS
    Opener = {o1, o2}
    NoOpener = NoOpener
    Conflict = {"library_roots", "reconciliation_proposals"}
    MaxOpens = 2
    MaxDisturbances = 2
INVARIANTS
    VersionTellsSchema
    OpenIsCurrent
    OneOpenerPrevails
PROPERTIES
    UpgradesAtOnce
    OpeningEnds
CHECK_DEADLOCK FALSE
