----------------------- MODULE LibraryIngestionProofs -----------------------
(***************************************************************************)
(* Proofs about an ingestion over the library store, for any roots, paths, *)
(* books and disks, any number of ingestions, and any stops, cancellations *)
(* and reviews between two of their calls.                                 *)
(***************************************************************************)
EXTENDS LibraryIngestion, LibraryIndexProofs, FiniteSetTheorems, SequenceTheorems

(* A batch is published before it grows beyond its size.                   *)
BatchIsBounded ==
    /\ publishing => batch # <<>>
    /\ ~publishing => Len(batch) < BatchSize

(* What is known of a discovery between two of its calls.  Nobody else     *)
(* knows the document it has just created, so nobody can move it.          *)
JustCreated(d, pl) ==
    /\ owner[pl] = d /\ identity[pl] = NoFsId
    /\ \A id \in ProposalId :
          proposalState[id] # "none" => proposal[id].document # d

WorkIsCurrent ==
    work # NoWork =>
        /\ phase = "ingesting" /\ discoveries # <<>>
        /\ work.step = "propose" => Current.place \notin pendingCandidates
        /\ work.step = "identify" =>
              /\ work.document \in DocId /\ Current.identity # NoFsId
              /\ JustCreated(work.document, Current.place)

(* What was pending when ingestion of the discoveries began, or has been   *)
(* proposed since, is still remembered.                                    *)
CandidatesAreRemembered ==
    phase = "ingesting" => \A id \in Pending : proposal[id].to \in pendingCandidates

IngestInv ==
    /\ StoreInv
    /\ IngestionTypeOK
    /\ BatchIsBounded
    /\ WorkIsCurrent
    /\ CandidatesAreRemembered

-----------------------------------------------------------------------------
(* Every step is one call of the store, or none.                           *)

LEMMA RootParts ==
    ASSUME IngestionTypeOK, rootQueue # <<>>
    PROVE  /\ CurrentRoot \in RootId /\ Tail(rootQueue) \in Seq(RootId)
           /\ PathsOf[CurrentRoot] \subseteq Path
<1>1. CurrentRoot \in RootId /\ Tail(rootQueue) \in Seq(RootId)
  BY HeadTailProperties DEF IngestionTypeOK, CurrentRoot
<1> QED
  BY <1>1, IngestionAssumption

LEMMA BatchParts ==
    ASSUME IngestionTypeOK, batch # <<>>
    PROVE  /\ Head(batch) \in Path /\ Tail(batch) \in Seq(Path)
           /\ Len(Tail(batch)) = Len(batch) - 1
BY HeadTailProperties DEF IngestionTypeOK

LEMMA DiscoveryParts ==
    ASSUME IngestionTypeOK, discoveries # <<>>
    PROVE  /\ Current \in Discovery /\ Tail(discoveries) \in Seq(Discovery)
           /\ Current.place \in Place /\ Current.place[1] \in RootId
           /\ Current.identity \in FsId \union {NoFsId}
           /\ Current.previous \in DocId \union {NoDoc}
<1>1. Current \in Discovery /\ Tail(discoveries) \in Seq(Discovery)
  BY HeadTailProperties DEF IngestionTypeOK, Current
<1> QED
  BY <1>1, PlaceParts DEF Discovery

LEMMA WorkParts ==
    ASSUME IngestionTypeOK, WorkIsCurrent, NEW step, AtStep(step)
    PROVE  /\ discoveries # <<>> /\ work.step = step
           /\ work \in Work /\ work.from \in Place
           /\ work.document \in DocId \union {NoDoc}
BY DEF IngestionTypeOK, WorkIsCurrent, AtStep, Work

(* What each kind of step does to the store.                               *)
LEMMA ScanStepsTheStore ==
    ASSUME IngestInv, ScanStep
    PROVE  \/ BeginRootScan(CurrentRoot) /\ CurrentRoot \in RootId
           \/ \E p \in Path, f \in FsId \union {NoFsId} :
                 ObserveLocation(<<CurrentRoot, p>>, scanGeneration[CurrentRoot], f)
                 /\ <<CurrentRoot, p>> \in Place
                 /\ scanGeneration[CurrentRoot] \in Generation
           \/ \E a \in RootAvailability :
                 FinishRootScan(CurrentRoot, scanGeneration[CurrentRoot], a)
                 /\ CurrentRoot \in RootId
                 /\ scanGeneration[CurrentRoot] \in Generation
           \/ UNCHANGED indexVars
<1>1. CASE BeginRoot
  BY <1>1, RootParts DEF BeginRoot, AtRootStart, IngestInv
<1>2. CASE PublishOne
  <2>1. /\ CurrentRoot \in RootId /\ Head(batch) \in Path
        /\ file[Head(batch)] \in FsId \union {NoFsId}
        /\ scanGeneration[CurrentRoot] \in Generation
    BY <1>2, RootParts, BatchParts DEF PublishOne, InRoot, IngestInv, IngestionTypeOK
  <2>2. <<CurrentRoot, Head(batch)>> \in Place
    BY <2>1 DEF Place
  <2>3. \E f \in FsId \union {NoFsId} :
           ObserveLocation(<<CurrentRoot, Head(batch)>>, scanGeneration[CurrentRoot], f)
    BY <1>2, <2>1 DEF PublishOne, Publish
  <2> QED
    BY <2>1, <2>2, <2>3
<1>3. CASE FinishRoot
  <2>1. FinishedAvailability[listing] \in RootAvailability
    BY DEF IngestInv, IngestionTypeOK, FinishedAvailability, RootAvailability
  <2>2. CurrentRoot \in RootId /\ scanGeneration[CurrentRoot] \in Generation
    BY <1>3, RootParts DEF FinishRoot, InRoot, IngestInv, IngestionTypeOK
  <2> QED
    BY <1>3, <2>1, <2>2 DEF FinishRoot
<1> QED
  BY <1>1, <1>2, <1>3 DEF ScanStep, CancelRoot, List, Skip

LEMMA ProposeCallsTheStore ==
    ASSUME IngestInv, NEW id \in ProposalId, Propose(id)
    PROVE  /\ ProposeReconciliation(id, work.document, work.from, Current.place,
                  scanGeneration[Current.place[1]], Current.identity)
           /\ work.document \in DocId /\ work.from \in Place
           /\ Current.place \in Place
           /\ scanGeneration[Current.place[1]] \in Generation
           /\ Current.identity \in FsId \union {NoFsId}
<1>1. discoveries # <<>> /\ work.from \in Place /\ work.document \in DocId \union {NoDoc}
  BY WorkParts DEF Propose, IngestInv
<1>2. ProposeReconciliation(id, work.document, work.from, Current.place,
            scanGeneration[Current.place[1]], Current.identity)
  BY DEF Propose
<1>3. work.document \in DocId
  BY <1>1, <1>2 DEF ProposeReconciliation, CanPropose
<1> QED
  BY <1>1, <1>2, <1>3, DiscoveryParts DEF IngestInv, IngestionTypeOK

LEMMA IdentifyCallsTheStore ==
    ASSUME IngestInv, Identify
    PROVE  /\ SetLocationFilesystemIdentity(work.document, Current.place, Current.identity)
           /\ work.document \in DocId /\ Current.place \in Place
           /\ Current.identity \in FsId
<1>1. discoveries # <<>> /\ work.step = "identify"
  BY WorkParts DEF Identify, IngestInv
<1> QED
  BY <1>1, DiscoveryParts DEF Identify, AtStep, IngestInv, WorkIsCurrent

(* An ingestion is one of the callers the store allows for: whatever holds *)
(* of the store under any callers holds under this one.                    *)
LEMMA StepsTheStore == IngestInv /\ [Next]_vars => [IndexNext]_indexVars
<1> SUFFICES ASSUME IngestInv, [Next]_vars PROVE [IndexNext]_indexVars
  OBVIOUS
<1>1. CASE ScanStep
  BY <1>1, ScanStepsTheStore DEF IndexNext, RootNext, LocationNext
<1>2. ASSUME NEW id \in ProposalId, Propose(id) PROVE IndexNext
  BY <1>2, ProposeCallsTheStore DEF IndexNext, ProposalNext
<1>3. ASSUME NEW d \in DocId, Create(d) PROVE IndexNext
  <2>1. Current.place \in Place
    BY <1>3, WorkParts, DiscoveryParts DEF Create, IngestInv
  <2> QED
    BY <1>3, <2>1 DEF Create, IndexNext, LocationNext
<1>4. CASE Identify
  BY <1>4, IdentifyCallsTheStore DEF IndexNext, LocationNext
<1>5. ASSUME NEW id \in ProposalId, Review(id) PROVE IndexNext
  BY <1>5 DEF Review, IndexNext, ProposalNext
<1>6. CASE StartIngest \/ DiskStep \/ UNCHANGED vars
  BY <1>6 DEF StartIngest, DiskStep, WriteFile, RemoveFile, RenameFile, LinkFile,
              DiskChange, vars
<1>7. CASE Throw \/ Stop \/ Cancel
  BY <1>7 DEF Throw, Stop, Cancel, GoIdle
<1>8. CASE IngestStep
  BY <1>2, <1>3, <1>4, <1>8
  DEF IngestStep, ReadPendingCandidates, SkipDiscovery, MatchDiscovery,
      CreateFails, EndIngest, GoIdle
<1> QED
  BY <1>1, <1>5, <1>6, <1>7, <1>8 DEF Next, Disturbance

-----------------------------------------------------------------------------
(* The invariant of an ingestion.                                          *)

LEMMA StoreInvKept == ASSUME IngestInv, [Next]_vars PROVE StoreInv'
BY StepsTheStore, StoreInvStep DEF IngestInv

(* Where nothing volatile is left, all that is asked of it holds.          *)
LEMMA IdleTypes ==
    ASSUME GoIdle, IngestionTypeOK, undisturbed' \in BOOLEAN, TypeOK'
    PROVE  IngestionTypeOK' /\ BatchIsBounded'
<1>1. BatchSize \in Nat \ {0} /\ Len(<<>>) = 0
  BY IngestionAssumption, EmptySeq
<1>2. /\ <<>> \in Seq(Path) /\ <<>> \in Seq(RootId) /\ <<>> \in Seq(Discovery)
      /\ [r \in RootId |-> 0] \in [RootId -> Generation]
  BY EmptySeq, IndexAssumption DEF Generation
<1>3. BatchIsBounded'
  BY <1>1 DEF GoIdle, BatchIsBounded
<1>4. /\ outcome' \in [RootId -> Outcome \union {"none"}]
      /\ scanGeneration' \in [RootId -> Generation]
  BY <1>2 DEF GoIdle
<1>5. /\ batch' \in Seq(Path) /\ Len(batch') <= BatchSize
      /\ rootQueue' \in Seq(RootId) /\ discoveries' \in Seq(Discovery)
  BY <1>1, <1>2 DEF GoIdle
<1>6. UNCHANGED <<file, diskChanges>>
  BY DEF GoIdle, diskVars
<1> QED
  BY <1>3, <1>4, <1>5, <1>6 DEF GoIdle, IngestionTypeOK

LEMMA ScanTypesKept ==
    ASSUME IngestInv, ScanStep, TypeOK'
    PROVE  IngestionTypeOK' /\ BatchIsBounded'
<1> USE DEF diskVars, ingestVars
<1>1. CASE BeginRoot
  <2>1. CurrentRoot \in RootId /\ PathsOf[CurrentRoot] \subseteq Path
    BY <1>1, RootParts DEF BeginRoot, AtRootStart, IngestInv
  <2>2. scanGeneration' \in [RootId -> Generation]
    BY <1>1, <2>1 DEF BeginRoot, IngestInv, IngestionTypeOK, TypeOK
  <2> QED
    BY <1>1, <2>1, <2>2 DEF BeginRoot, IngestInv, IngestionTypeOK, BatchIsBounded
<1>2. ASSUME NEW p \in Path, List(p)
      PROVE  IngestionTypeOK' /\ BatchIsBounded'
  <2>1. batch \in Seq(Path) /\ Len(batch) \in Nat /\ Len(batch) < BatchSize
        /\ BatchSize \in Nat \ {0}
    BY <1>2, LenProperties, IngestionAssumption DEF List, IngestInv, IngestionTypeOK, BatchIsBounded
  <2>2. /\ batch' \in Seq(Path) /\ Len(batch') \in Nat /\ Len(batch') <= BatchSize
        /\ (batch' = <<>> => Len(batch') = 0)
    BY <1>2, <2>1, EmptySeq DEF List
  <2>3. publishing' \in BOOLEAN /\ (publishing' <=> Len(batch') = BatchSize)
    BY <1>2, Zenon DEF List
  <2>4. BatchIsBounded' /\ publishing' \in BOOLEAN
    BY <2>1, <2>2, <2>3 DEF BatchIsBounded
  <2> QED
    BY <1>2, <2>2, <2>4 DEF List, indexVars, IngestInv, IngestionTypeOK
<1>3. ASSUME NEW p \in Path, Skip(p)
      PROVE  IngestionTypeOK' /\ BatchIsBounded'
  BY <1>3 DEF Skip, indexVars, IngestInv, IngestionTypeOK, BatchIsBounded
<1>4. CASE PublishOne
  <2> DEFINE pl == <<CurrentRoot, Head(batch)>>
  <2>1. /\ CurrentRoot \in RootId /\ Head(batch) \in Path
        /\ Tail(batch) \in Seq(Path) /\ Len(Tail(batch)) = Len(batch) - 1
        /\ Len(batch) \in Nat /\ Len(batch) <= BatchSize /\ BatchSize \in Nat \ {0}
    BY <1>4, RootParts, BatchParts, LenProperties, IngestionAssumption
    DEF PublishOne, InRoot, IngestInv, IngestionTypeOK
  <2>2. pl \in Place /\ owner[pl] \in DocId \union {NoDoc}
    BY <2>1 DEF Place, IngestInv, IngestionTypeOK, TypeOK
  <2>3. \A f \in FsId \union {NoFsId} : Found(pl, f) \in Discovery
    BY <2>2 DEF Found, Discovery
  <2>4. file[Head(batch)] \in FsId \union {NoFsId}
    BY <2>1 DEF IngestInv, IngestionTypeOK
  <2>5. discoveries' \in Seq(Discovery) /\ published' \subseteq Path
    <3>1. PICK f \in FsId \union {NoFsId} : Publish(Head(batch), f)
      BY <1>4, <2>4 DEF PublishOne
    <3>2. /\ discoveries \in Seq(Discovery) /\ published \subseteq Path
          /\ Found(pl, f) \in Discovery
      BY <2>3 DEF IngestInv, IngestionTypeOK
    <3>3. \/ UNCHANGED <<discoveries, published>>
          \/ /\ discoveries' = Append(discoveries, Found(pl, f))
             /\ published' = published \union {Head(batch)}
      BY <3>1 DEF Publish
    <3>4. Head(batch) \in Path
      BY <2>1
    <3> HIDE DEF pl
    <3> QED
      BY <3>2, <3>3, <3>4
  <2>6. batch' \in Seq(Path) /\ Len(batch') \in Nat /\ Len(batch') = Len(batch) - 1
        /\ (batch' = <<>> => Len(batch') = 0)
    BY <1>4, <2>1, EmptySeq, LenProperties DEF PublishOne
  <2>7. /\ publishing' \in BOOLEAN
        /\ publishing' => publishing /\ batch' # <<>>
        /\ publishing /\ ~publishing' => batch' = <<>>
    BY <1>4, Zenon DEF PublishOne
  <2>8. BatchIsBounded'
    BY <2>1, <2>6, <2>7 DEF IngestInv, BatchIsBounded
  <2>9. undisturbed' \in BOOLEAN
    BY <1>4 DEF PublishOne, IngestInv, IngestionTypeOK
  <2> QED
    BY <1>4, <2>1, <2>5, <2>6, <2>7, <2>8, <2>9 DEF PublishOne, IngestInv, IngestionTypeOK
<1>5. CASE FinishRoot
  <2>1. outcome' \in [RootId -> Outcome \union {"none"}]
    BY <1>5 DEF FinishRoot, IngestInv, IngestionTypeOK, Outcome
  <2> QED
    BY <1>5, <2>1, RootParts DEF FinishRoot, InRoot, IngestInv, IngestionTypeOK, BatchIsBounded
<1>6. CASE CancelRoot
  <2>1. outcome' \in [RootId -> Outcome \union {"none"}]
    BY <1>6 DEF CancelRoot, IngestInv, IngestionTypeOK, Outcome
  <2> QED
    BY <1>6, <2>1 DEF CancelRoot, indexVars, IngestInv, IngestionTypeOK, BatchIsBounded
<1> QED
  BY <1>1, <1>2, <1>3, <1>4, <1>5, <1>6 DEF ScanStep

LEMMA IngestTypesKept ==
    ASSUME IngestInv, IngestStep, TypeOK'
    PROVE  IngestionTypeOK' /\ BatchIsBounded'
<1> USE DEF diskVars, scanVars, ingestVars
<1>1. CASE ReadPendingCandidates
  <2>1. pendingCandidates' \subseteq Place
    BY <1>1 DEF ReadPendingCandidates, IngestInv, IngestionTypeOK, TypeOK, Pending, Proposal
  <2> QED
    BY <1>1, <2>1 DEF ReadPendingCandidates, IngestInv, IngestionTypeOK, BatchIsBounded
<1>2. CASE SkipDiscovery
  BY <1>2, DiscoveryParts
  DEF SkipDiscovery, AtDiscovery, NextDiscovery, IngestInv, IngestionTypeOK, BatchIsBounded
<1>3. CASE MatchDiscovery
  <2> DEFINE matches == LocationsByFilesystemIdentity(Current.identity)
  <2>1. /\ Current.place \in Place
        /\ Current.previous \in DocId \union {NoDoc}
    BY <1>3, DiscoveryParts DEF MatchDiscovery, AtDiscovery, IngestInv
  <2>2. ASSUME Cardinality(matches) = 1
        PROVE  /\ (CHOOSE pl \in matches : TRUE) \in Place
               /\ owner[CHOOSE pl \in matches : TRUE] \in DocId \union {NoDoc}
    <3>1. matches # {}
      BY <2>2, FS_EmptySet
    <3> QED
      BY <3>1 DEF LocationsByFilesystemIdentity, Linked, IngestInv, IngestionTypeOK, TypeOK
  <2>3. work' \in Work
    BY <1>3, <2>1, <2>2 DEF MatchDiscovery, Work
  <2> QED
    BY <1>3, <2>3 DEF MatchDiscovery, IngestInv, IngestionTypeOK, BatchIsBounded
<1>4. ASSUME NEW id \in ProposalId, Propose(id)
      PROVE  IngestionTypeOK' /\ BatchIsBounded'
  <2>1. /\ work \in Work /\ Current.place \in Place
        /\ discoveries \in Seq(Discovery) /\ Tail(discoveries) \in Seq(Discovery)
    BY <1>4, WorkParts, DiscoveryParts DEF Propose, IngestInv, IngestionTypeOK
  <2>2. [work EXCEPT !.step = "create"] \in Work
    BY <2>1 DEF Work
  <2> HIDE DEF ingestVars
  <2>3. /\ work' \in Work \union {NoWork} /\ discoveries' \in Seq(Discovery)
        /\ pendingCandidates' \subseteq Place
    BY <1>4, <2>1, <2>2 DEF Propose, NextDiscovery, IngestInv, IngestionTypeOK
  <2> QED
    BY <1>4, <2>3 DEF Propose, IngestInv, IngestionTypeOK, BatchIsBounded
<1>5. ASSUME NEW d \in DocId, Create(d)
      PROVE  IngestionTypeOK' /\ BatchIsBounded'
  <2>1. /\ work \in Work
        /\ discoveries \in Seq(Discovery) /\ Tail(discoveries) \in Seq(Discovery)
    BY <1>5, WorkParts, DiscoveryParts DEF Create, IngestInv, IngestionTypeOK
  <2>2. [work EXCEPT !.step = "identify", !.document = d] \in Work
    BY <2>1 DEF Work
  <2>3. work' \in Work \union {NoWork} /\ discoveries' \in Seq(Discovery)
    BY <1>5, <2>1, <2>2 DEF Create, NextDiscovery
  <2> QED
    BY <1>5, <2>3 DEF Create, IngestInv, IngestionTypeOK, BatchIsBounded
<1>6. CASE CreateFails \/ Identify
  <2>1. Tail(discoveries) \in Seq(Discovery)
    BY <1>6, WorkParts, DiscoveryParts DEF CreateFails, Identify, IngestInv
  <2>2. CASE CreateFails
    BY <2>1, <2>2 DEF CreateFails, NextDiscovery, IngestInv, IngestionTypeOK, BatchIsBounded
  <2>3. CASE Identify
    BY <2>1, <2>3 DEF Identify, NextDiscovery, IngestInv, IngestionTypeOK, BatchIsBounded
  <2> QED
    BY <1>6, <2>2, <2>3
<1>7. CASE EndIngest
  BY <1>7, IdleTypes DEF EndIngest, IngestInv, IngestionTypeOK
<1> QED
  BY <1>1, <1>2, <1>3, <1>4, <1>5, <1>6, <1>7 DEF IngestStep

LEMMA TypesKept ==
    ASSUME IngestInv, [Next]_vars
    PROVE  IngestionTypeOK' /\ BatchIsBounded'
<1>1. TypeOK'
  BY StoreInvKept DEF StoreInv
<1>2. CASE StartIngest
  BY <1>1, <1>2, IngestionAssumption
  DEF StartIngest, diskVars, ingestVars, IngestInv, IngestionTypeOK, BatchIsBounded
<1>3. CASE Throw \/ Stop
  BY <1>1, <1>3, IdleTypes DEF Throw, Stop, IngestInv
<1>4. CASE Cancel
  BY <1>1, <1>4
  DEF Cancel, diskVars, ingestVars, IngestInv, IngestionTypeOK, BatchIsBounded
<1>5. ASSUME NEW id \in ProposalId, Review(id)
      PROVE  IngestionTypeOK' /\ BatchIsBounded'
  BY <1>1, <1>5
  DEF Review, diskVars, scanVars, ingestVars, IngestInv, IngestionTypeOK, BatchIsBounded
<1>6. ASSUME NEW new \in [Path -> FsId \union {NoFsId}], DiskChange(new)
      PROVE  IngestionTypeOK' /\ BatchIsBounded'
  <2>1. diskChanges' \in 0 .. MaxDiskChanges
    BY <1>6, IngestionAssumption DEF DiskChange, IngestInv, IngestionTypeOK
  <2> QED
    BY <1>1, <1>6, <2>1
    DEF DiskChange, scanVars, ingestVars, IngestInv, IngestionTypeOK, BatchIsBounded
<1>7. CASE DiskStep
  <2>1. PICK new \in [Path -> FsId \union {NoFsId}] : DiskChange(new)
    BY <1>7
    DEF DiskStep, WriteFile, RemoveFile, RenameFile, LinkFile, IngestInv, IngestionTypeOK
  <2> QED
    BY <1>6, <2>1
<1>8. CASE UNCHANGED vars
  BY <1>1, <1>8
  DEF vars, diskVars, scanVars, ingestVars, IngestInv, IngestionTypeOK, BatchIsBounded
<1> QED
  BY <1>1, <1>2, <1>3, <1>4, <1>5, <1>7, <1>8, ScanTypesKept, IngestTypesKept
  DEF Next, Disturbance

(* A document that was just created stays where it is until its identity   *)
(* is stored, whatever the person applies meanwhile.                       *)
LEMMA JustCreatedKept ==
    ASSUME StoreInv, NEW d \in DocId, NEW pl \in Place, JustCreated(d, pl),
           NEW id \in ProposalId, ApplyReconciliation(id) \/ DismissReconciliation(id)
    PROVE  JustCreated(d, pl)'
<1>1. CASE ApplyReconciliation(id)
  <2>1. /\ proposal[id].from # pl /\ proposal[id].to # pl
        /\ owner'[pl] = owner[pl] /\ identity'[pl] = identity[pl]
    BY <1>1, ApplyEffect, IndexAssumption DEF StoreInv, JustCreated, Pending, Linked
  <2>2. UNCHANGED proposal
        /\ \A i \in ProposalId : proposalState'[i] # "none" => proposalState[i] # "none"
    BY <1>1 DEF ApplyReconciliation, ProvenSafeMove, StoreInv, TypeOK
  <2> QED
    BY <2>1, <2>2 DEF JustCreated
<1>2. CASE DismissReconciliation(id)
  BY <1>2 DEF DismissReconciliation, locationVars, StoreInv, TypeOK, JustCreated
<1> QED
  BY <1>1, <1>2

(* A fresh document is named by no row, and gets a place nobody had.       *)
LEMMA CreateEffect ==
    ASSUME IngestInv, NEW d \in DocId, Create(d),
           NEW pl \in Place, pl = Current.place
    PROVE  /\ pl \notin Linked /\ identity[pl] = NoFsId
           /\ d \notin documents
           /\ UpsertRecord(d, pl)
           /\ JustCreated(d, pl)'
<1>1. d \notin documents /\ UpsertRecord(d, pl)
  BY DEF Create
<1>2. pl \notin Linked
  BY <1>1 DEF UpsertRecord, Linked, IngestInv, StoreInv, RowsRefer
<1>3. identity[pl] = NoFsId
  BY <1>2 DEF IngestInv, StoreInv, RowsRefer
<1>4. owner'[pl] = d
  BY <1>1, UpsertEffect DEF IngestInv, StoreInv
<1>5. \A id \in ProposalId : proposalState[id] # "none" => proposal[id].document # d
  BY <1>1 DEF IngestInv, StoreInv, RowsRefer
<1>6. UNCHANGED <<identity, proposal, proposalState>>
  BY <1>1 DEF UpsertRecord, proposalVars
<1> QED
  BY <1>1, <1>2, <1>3, <1>4, <1>5, <1>6 DEF JustCreated

(* Outside the ingestion of discoveries nothing is under way.              *)
LEMMA NothingUnderWay ==
    ASSUME IngestInv, [Next]_vars, phase' # "ingesting" \/ phase # "ingesting"
    PROVE  WorkIsCurrent' /\ CandidatesAreRemembered'
<1> USE DEF scanVars, ingestVars, diskVars
<1>1. work' = NoWork
  <2>1. CASE phase # "ingesting"
    <3>1. work = NoWork
      BY <2>1 DEF IngestInv, WorkIsCurrent
    <3> QED
      BY <2>1, <3>1
      DEF Next, StartIngest, ScanStep, BeginRoot, PublishOne, FinishRoot, CancelRoot,
          List, Skip, IngestStep, ReadPendingCandidates, SkipDiscovery, MatchDiscovery,
          Propose, Create, CreateFails, Identify, EndIngest, AtDiscovery, AtStep,
          Disturbance, Throw, Stop, Cancel, Review, GoIdle,
          DiskStep, WriteFile, RemoveFile, RenameFile, LinkFile, DiskChange, vars
  <2>2. CASE phase = "ingesting" /\ phase' # "ingesting"
    BY <2>2
    DEF Next, StartIngest, ScanStep, BeginRoot, PublishOne, FinishRoot, CancelRoot,
        List, Skip, InRoot, AtRootStart, IngestStep, ReadPendingCandidates,
        SkipDiscovery, MatchDiscovery,
        Propose, Create, CreateFails, Identify, EndIngest, AtDiscovery, AtStep,
        Disturbance, Throw, Stop, Cancel, Review, GoIdle,
        DiskStep, WriteFile, RemoveFile, RenameFile, LinkFile, DiskChange, vars
  <2> QED
    BY <2>1, <2>2
<1>2. CASE phase' # "ingesting"
  BY <1>1, <1>2 DEF WorkIsCurrent, CandidatesAreRemembered
<1>3. CASE phase # "ingesting" /\ phase' = "ingesting"
  <2>1. ReadPendingCandidates
    BY <1>3
    DEF Next, StartIngest, ScanStep, BeginRoot, PublishOne, FinishRoot, CancelRoot,
        List, Skip, IngestStep, SkipDiscovery, MatchDiscovery,
        Propose, Create, CreateFails, Identify, EndIngest, AtDiscovery, AtStep,
        Disturbance, Throw, Stop, Cancel, Review, GoIdle,
        DiskStep, WriteFile, RemoveFile, RenameFile, LinkFile, DiskChange, vars
  <2>2. UNCHANGED <<proposal, proposalState>>
        /\ pendingCandidates' = {proposal[id].to : id \in Pending}
    BY <2>1 DEF ReadPendingCandidates, indexVars
  <2> QED
    BY <1>1, <2>2 DEF WorkIsCurrent, CandidatesAreRemembered, Pending
<1> QED
  BY <1>2, <1>3

LEMMA WorkKept ==
    ASSUME IngestInv, [Next]_vars
    PROVE  WorkIsCurrent' /\ CandidatesAreRemembered'
<1> USE DEF scanVars, ingestVars, diskVars
<1>1. CASE StartIngest \/ ScanStep \/ ReadPendingCandidates \/ EndIngest \/ Throw \/ Stop
  <2>1. phase # "ingesting" \/ phase' # "ingesting"
    BY <1>1
    DEF StartIngest, ScanStep, BeginRoot, PublishOne, FinishRoot, CancelRoot,
        List, Skip, InRoot, AtRootStart, ReadPendingCandidates, EndIngest, Throw,
        Stop, GoIdle
  <2> QED
    BY <2>1, NothingUnderWay
<1>2. CASE UNCHANGED <<phase, ingestVars, owner, identity, proposal, proposalState>>
  BY <1>2
  DEF IngestInv, WorkIsCurrent, CandidatesAreRemembered, JustCreated, Current, Pending
<1>3. CASE SkipDiscovery \/ CreateFails \/ Identify
  <2>1. work' = NoWork /\ UNCHANGED <<phase, pendingCandidates, proposal, proposalState>>
    BY <1>3
    DEF SkipDiscovery, CreateFails, Identify, NextDiscovery, indexVars,
        SetLocationFilesystemIdentity, proposalVars
  <2> QED
    BY <2>1 DEF IngestInv, WorkIsCurrent, CandidatesAreRemembered, Pending
<1>4. CASE MatchDiscovery
  <2>1. /\ work'.step \in {"propose", "create"}
        /\ UNCHANGED <<phase, discoveries, pendingCandidates, proposal, proposalState>>
        /\ phase = "ingesting" /\ discoveries # <<>>
        /\ Current.place \notin pendingCandidates
    BY <1>4 DEF MatchDiscovery, AtDiscovery, Ingestible, indexVars
  <2> QED
    BY <2>1 DEF IngestInv, WorkIsCurrent, CandidatesAreRemembered, Current, Pending
<1>5. ASSUME NEW id \in ProposalId, Propose(id)
      PROVE  WorkIsCurrent' /\ CandidatesAreRemembered'
  <2>1. /\ phase' = "ingesting" /\ discoveries # <<>>
        /\ \/ work' = NoWork
           \/ work'.step = "create" /\ discoveries' = discoveries
    BY <1>5, WorkParts DEF Propose, AtStep, NextDiscovery, IngestInv, Work
  <2>2. WorkIsCurrent'
    BY <2>1 DEF WorkIsCurrent
  <2>3. /\ proposal' = [proposal EXCEPT ![id] = proposal'[id]]
        /\ proposalState' = [proposalState EXCEPT ![id] = "pending"]
        /\ proposal'[id].to = Current.place
    BY <1>5 DEF Propose, ProposeReconciliation, IngestInv, StoreInv, TypeOK
  <2>4. ASSUME NEW other \in Pending', other # id
        PROVE  other \in Pending /\ proposal'[other] = proposal[other]
    BY <2>3, <2>4 DEF IngestInv, StoreInv, TypeOK, Pending
  <2>5. /\ phase = "ingesting"
        /\ pendingCandidates' = pendingCandidates \union {Current.place}
    BY <1>5 DEF Propose, AtStep
  <2>6. CandidatesAreRemembered'
    BY <2>3, <2>4, <2>5 DEF IngestInv, CandidatesAreRemembered
  <2> QED
    BY <2>2, <2>6
<1>6. ASSUME NEW d \in DocId, Create(d)
      PROVE  WorkIsCurrent' /\ CandidatesAreRemembered'
  <2>1. PICK pl \in Place : pl = Current.place
    BY <1>6, WorkParts, DiscoveryParts DEF Create, IngestInv
  <2>2. UNCHANGED <<phase, pendingCandidates, proposal, proposalState>>
        /\ phase = "ingesting"
    BY <1>6 DEF Create, AtStep, UpsertRecord, proposalVars
  <2>3. JustCreated(d, pl)'
    BY <1>6, <2>1, CreateEffect
  <2>4. work \in Work /\ discoveries # <<>>
    BY <1>6, WorkParts DEF Create, IngestInv
  <2>5. \/ work' = NoWork
        \/ /\ work'.step = "identify" /\ work'.document = d
           /\ Current.identity # NoFsId /\ discoveries' = discoveries
    BY <1>6, <2>4 DEF Create, NextDiscovery, Work
  <2>6. CASE work' = NoWork
    BY <2>2, <2>6 DEF IngestInv, WorkIsCurrent, CandidatesAreRemembered, Pending
  <2>7. CASE /\ work'.step = "identify" /\ work'.document = d
             /\ Current.identity # NoFsId /\ discoveries' = discoveries
    <3>1. Current' = Current
      BY <2>7 DEF Current
    <3>2. WorkIsCurrent'
      BY <2>1, <2>2, <2>3, <2>4, <2>7, <3>1 DEF WorkIsCurrent
    <3> QED
      BY <2>2, <3>2 DEF IngestInv, CandidatesAreRemembered, Pending
  <2> QED
    BY <2>5, <2>6, <2>7
<1>7. ASSUME NEW id \in ProposalId, Review(id)
      PROVE  WorkIsCurrent' /\ CandidatesAreRemembered'
  <2>1. /\ UNCHANGED <<phase, discoveries, pendingCandidates, work, proposal>>
        /\ Pending' \subseteq Pending
    BY <1>7
    DEF Review, ApplyReconciliation, DismissReconciliation, ProvenSafeMove,
        IngestInv, StoreInv, TypeOK, Pending
  <2>2. CandidatesAreRemembered'
    BY <2>1 DEF IngestInv, CandidatesAreRemembered, Pending
  <2>3. CASE work = NoWork \/ work.step # "identify"
    BY <2>1, <2>2, <2>3 DEF IngestInv, WorkIsCurrent, Current
  <2>4. CASE work # NoWork /\ work.step = "identify"
    <3>1. PICK pl \in Place : pl = Current.place
      BY <2>4, DiscoveryParts DEF IngestInv, WorkIsCurrent
    <3>2. PICK d \in DocId : d = work.document
      BY <2>4 DEF IngestInv, WorkIsCurrent
    <3>3. JustCreated(d, pl)'
      BY <1>7, <2>4, <3>1, <3>2, JustCreatedKept DEF Review, IngestInv, WorkIsCurrent
    <3> QED
      BY <2>1, <2>2, <2>4, <3>1, <3>2, <3>3 DEF IngestInv, WorkIsCurrent, Current
  <2> QED
    BY <2>3, <2>4
<1>8. CASE Cancel \/ DiskStep \/ UNCHANGED vars
  BY <1>2, <1>8
  DEF Cancel, DiskStep, WriteFile, RemoveFile, RenameFile, LinkFile, DiskChange,
      vars, indexVars
<1> QED
  BY <1>1, <1>3, <1>4, <1>5, <1>6, <1>7, <1>8 DEF Next, IngestStep, Disturbance

-----------------------------------------------------------------------------
(* Theorems.                                                               *)

LEMMA IngestInvInit == Init => IngestInv
<1> SUFFICES ASSUME Init PROVE IngestInv
  OBVIOUS
<1>1. TypeOK
  BY IndexAssumption DEF Init, TypeOK, RootAvailability, ProposalState, Generation
<1>2. StoreInv
  BY <1>1, PlaceParts
  DEF Init, StoreInv, ScanEvidenceOrdered, RowsRefer, Linked, RelinkAuthorityIsBacked,
      SearchMatchesDocuments
<1>3. BatchSize \in Nat \ {0} /\ MaxDiskChanges \in Nat /\ MaxGeneration \in Nat
      /\ Len(<<>>) = 0
  BY IngestionAssumption, IndexAssumption, EmptySeq
<1>4. /\ <<>> \in Seq(Path) /\ <<>> \in Seq(RootId) /\ <<>> \in Seq(Discovery)
      /\ [r \in RootId |-> 0] \in [RootId -> Generation]
      /\ [r \in RootId |-> "none"] \in [RootId -> Outcome \union {"none"}]
  BY <1>3, EmptySeq DEF Generation
<1>5. IngestionTypeOK
  <2>1. /\ batch \in Seq(Path) /\ Len(batch) <= BatchSize
        /\ rootQueue \in Seq(RootId) /\ discoveries \in Seq(Discovery)
    BY <1>3, <1>4 DEF Init, Idle
  <2>2. /\ scanGeneration \in [RootId -> Generation]
        /\ outcome \in [RootId -> Outcome \union {"none"}]
        /\ diskChanges \in 0 .. MaxDiskChanges
    BY <1>3, <1>4 DEF Init, Idle
  <2> QED
    BY <1>1, <2>1, <2>2 DEF Init, Idle, IngestionTypeOK
<1> QED
  BY <1>2, <1>3, <1>5
  DEF Init, Idle, IngestInv, BatchIsBounded, WorkIsCurrent, CandidatesAreRemembered

LEMMA IngestInvStep == IngestInv /\ [Next]_vars => IngestInv'
BY StoreInvKept, TypesKept, WorkKept DEF IngestInv

LEMMA IngestInvariance == Spec => []IngestInv
BY IngestInvInit, IngestInvStep, PTL DEF Spec

(* Batches, discoveries and what is known between two calls keep their     *)
(* types through every step, whatever interrupts it (LibraryIngestionService *)
(* and LibraryScanService).                                                *)
THEOREM IngestionTypes == Spec => []IngestionTypeOK
BY IngestInvariance, PTL DEF IngestInv

(* The store under an ingestion starts sound and is only called as the     *)
(* store allows for.                                                       *)
LEMMA IngestionCallsSoundStore == Spec => SoundStore
<1>1. IngestInv /\ [Next]_vars => [IndexNext]_indexVars
  BY StepsTheStore
<1>2. Init => StoreInv
  BY IngestInvInit DEF IngestInv
<1> QED
  BY <1>1, <1>2, IngestInvariance, PTL DEF Spec, SoundStore

(* With its only caller, its restarts and its late reviews taken together, *)
(* the program keeps every promise of the store: foreign keys, ordered     *)
(* evidence, backed authority and a current search index                   *)
(* (LibraryIngestionService over SqliteLibraryIndex).                      *)
THEOREM IngestionKeepsStoreSound ==
    Spec => [](/\ ScanEvidenceOrdered
               /\ RowsRefer
               /\ RelinkAuthorityIsBacked
               /\ SearchMatchesDocuments)
BY IngestInvariance, PTL DEF IngestInv, StoreInv

(* An ingestion never moves a book without proof, never leaves one without *)
(* a place, and lets no older scan overwrite a newer one, as none of its   *)
(* calls can (ingest, and applyReconciliation on the worker thread).       *)
THEOREM IngestionMovesOnlyWhenProven ==
    Spec => /\ BooksMoveOnlyWhenProven /\ LinkedBooksStayLinked
            /\ NewerScanWins /\ SupersededMovesNeverApply
BY IngestionCallsSoundStore, SoundMovesAreProven, SoundBooksStayLinked,
   SoundNewerScansWin, SoundSupersededIsFinal

(* An ingestion, with everything that may happen during it, is a behaviour *)
(* of the shelf of books: what the reader of a library may rely on.        *)
THEOREM IngestionImplementsShelf == Spec => ImplementsBookShelf
<1>1. Init => Shelf!Init
  BY DEF Init, Shelf!Init, ShelfDiff, ShelfDecision
<1> QED
  BY <1>1, IngestionCallsSoundStore, SoundImplementsShelf DEF Spec

-----------------------------------------------------------------------------
(* Every book has its place.                                               *)

HasPlace(d, pl) ==
    /\ pl \in Linked
    /\ \A other \in Linked : owner[other] = d <=> other = pl
    /\ searchName[d] = FileName[pl[2]]

(* What gives a book its place: its creation and its move.                 *)
LEMMA PlaceWriters ==
    ASSUME [Next]_vars
    PROVE  \/ UNCHANGED <<documents, searchName, owner>>
           \/ \E d \in DocId : Create(d)
           \/ \E id \in ProposalId : ApplyReconciliation(id)
<1> USE DEF rootVars, documentVars, locationVars, proposalVars, indexVars
<1>1. CASE ScanStep
  BY <1>1
  DEF ScanStep, BeginRoot, BeginRootScan, PublishOne, Publish, ObserveLocation,
      FinishRoot, FinishRootScan, CancelRoot, List, Skip
<1>2. CASE IngestStep
  BY <1>2
  DEF IngestStep, ReadPendingCandidates, SkipDiscovery, MatchDiscovery, Propose,
      ProposeReconciliation, CreateFails, Identify, SetLocationFilesystemIdentity,
      EndIngest, GoIdle
<1>3. CASE Disturbance
  BY <1>3
  DEF Disturbance, Throw, Stop, GoIdle, Cancel, Review, DismissReconciliation
<1>4. CASE StartIngest \/ DiskStep \/ UNCHANGED vars
  BY <1>4
  DEF StartIngest, DiskStep, WriteFile, RemoveFile, RenameFile, LinkFile,
      DiskChange, vars
<1> QED
  BY <1>1, <1>2, <1>3, <1>4 DEF Next

LEMMA CreationPlaces ==
    ASSUME IngestInv, EveryBookHasItsPlace, NEW new \in DocId, Create(new)
    PROVE  EveryBookHasItsPlace'
<1>1. PICK to \in Place : to = Current.place
  BY WorkParts, DiscoveryParts DEF Create, IngestInv
<1>2. /\ new \notin documents /\ to \notin Linked
      /\ UpsertRecord(new, to)
      /\ owner'[to] = new /\ \A pl \in Place \ {to} : owner'[pl] = owner[pl]
  BY <1>1, CreateEffect, UpsertEffect DEF IngestInv, StoreInv
<1>3. /\ documents' = documents \union {new}
      /\ searchName' = [searchName EXCEPT ![new] = FileName[to[2]]]
      /\ searchName \in [DocId -> Name \union {NoName}] /\ documents \subseteq DocId
      /\ new # NoDoc
  BY <1>2, IndexAssumption DEF UpsertRecord, WriteText, IngestInv, StoreInv, TypeOK
<1>4. Linked' = Linked \union {to}
  BY <1>2, <1>3 DEF Linked
<1>5. \A pl \in Linked : owner[pl] # new
  BY <1>2 DEF IngestInv, StoreInv, RowsRefer
<1>6. HasPlace(new, to)'
  BY <1>2, <1>3, <1>4, <1>5 DEF HasPlace, Linked
<1>7. ASSUME NEW d \in documents
      PROVE  \E pl \in Linked' : HasPlace(d, pl)'
  <2>1. PICK pl \in Linked : HasPlace(d, pl)
    BY <1>7 DEF EveryBookHasItsPlace, HasPlace
  <2>2. d # new /\ pl # to
    BY <1>2
  <2>3. searchName'[d] = searchName[d]
    BY <1>3, <2>2
  <2>4. HasPlace(d, pl)'
    BY <1>2, <1>4, <2>1, <2>2, <2>3 DEF HasPlace, Linked
  <2> QED
    BY <1>4, <2>4
<1> QED
  BY <1>3, <1>4, <1>6, <1>7 DEF EveryBookHasItsPlace, HasPlace

LEMMA MovePlaces ==
    ASSUME IngestInv, EveryBookHasItsPlace,
           NEW id \in ProposalId, ApplyReconciliation(id)
    PROVE  EveryBookHasItsPlace'
<1>1. /\ proposal[id] \in Proposal
      /\ proposal[id].from \in Linked /\ proposal[id].to \in Place \ Linked
      /\ owner[proposal[id].from] = proposal[id].document
      /\ owner'[proposal[id].from] = NoDoc
      /\ owner'[proposal[id].to] = proposal[id].document
      /\ \A pl \in Place \ {proposal[id].from, proposal[id].to} : owner'[pl] = owner[pl]
  BY ApplyEffect DEF IngestInv, StoreInv
<1>2. PICK book \in DocId, from \in Linked, to \in Place \ Linked :
         /\ book = proposal[id].document
         /\ from = proposal[id].from /\ to = proposal[id].to
  BY <1>1 DEF Proposal
<1>3. /\ owner[from] = book /\ owner'[from] = NoDoc /\ owner'[to] = book
      /\ \A pl \in Place \ {from, to} : owner'[pl] = owner[pl]
      /\ from \in Place
  BY <1>1, <1>2 DEF Linked
<1>4. /\ book # NoDoc
      /\ documents' = documents /\ documents \subseteq DocId
      /\ searchName' = [searchName EXCEPT ![book] = FileName[to[2]]]
      /\ searchName \in [DocId -> Name \union {NoName}]
  BY <1>2, IndexAssumption
  DEF ApplyReconciliation, WriteText, IngestInv, StoreInv, TypeOK
<1>5. Linked' = (Linked \ {from}) \union {to}
  BY <1>3, <1>4, <1>2 DEF Linked
<1>6. book \in documents
  BY <1>3, <1>2 DEF IngestInv, StoreInv, RowsRefer
<1>7. \A pl \in Linked : owner[pl] = book => pl = from
  <2>1. PICK pl \in Linked : HasPlace(book, pl)
    BY <1>6 DEF EveryBookHasItsPlace, HasPlace
  <2> QED
    BY <1>3, <1>2, <2>1 DEF HasPlace
<1>8. HasPlace(book, to)'
  BY <1>3, <1>4, <1>2, <1>5, <1>7 DEF HasPlace, Linked
<1>9. ASSUME NEW d \in documents, d # book
      PROVE  \E pl \in Linked' : HasPlace(d, pl)'
  <2>1. PICK pl \in Linked : HasPlace(d, pl)
    BY <1>9 DEF EveryBookHasItsPlace, HasPlace
  <2>2. pl # from /\ pl # to
    BY <1>3, <1>2, <1>9, <2>1 DEF HasPlace
  <2>3. searchName'[d] = searchName[d]
    BY <1>4, <1>9
  <2>4. HasPlace(d, pl)'
    BY <1>3, <1>2, <1>5, <1>9, <2>1, <2>2, <2>3 DEF HasPlace, Linked
  <2> QED
    BY <1>5, <2>2, <2>4
<1> QED
  BY <1>4, <1>5, <1>8, <1>9 DEF EveryBookHasItsPlace, HasPlace

(* A book has one place and is found by the name it has there, in every    *)
(* state a stop may leave behind (createDocument and applyReconciliation,  *)
(* each one transaction).                                                  *)
THEOREM BooksHaveTheirPlace == Spec => []EveryBookHasItsPlace
<1>1. Init => EveryBookHasItsPlace
  BY DEF Init, EveryBookHasItsPlace
<1>2. IngestInv /\ EveryBookHasItsPlace /\ [Next]_vars => EveryBookHasItsPlace'
  <2>1. CASE UNCHANGED <<documents, searchName, owner>>
    BY <2>1 DEF EveryBookHasItsPlace, Linked
  <2> QED
    BY <2>1, PlaceWriters, CreationPlaces, MovePlaces
<1> QED
  BY <1>1, <1>2, IngestInvariance, PTL DEF Spec

-----------------------------------------------------------------------------
(* Nobody is asked twice.                                                  *)

(* What raises a proposal, and what settles one.                           *)
LEMMA ProposalWriters ==
    ASSUME [Next]_vars
    PROVE  \/ UNCHANGED <<proposal, proposalState>>
           \/ \E id \in ProposalId : Propose(id)
           \/ \E id \in ProposalId : ApplyReconciliation(id) \/ DismissReconciliation(id)
<1> USE DEF rootVars, documentVars, locationVars, proposalVars, indexVars
<1>1. CASE ScanStep
  BY <1>1
  DEF ScanStep, BeginRoot, BeginRootScan, PublishOne, Publish, ObserveLocation,
      FinishRoot, FinishRootScan, CancelRoot, List, Skip
<1>2. CASE IngestStep
  BY <1>2
  DEF IngestStep, ReadPendingCandidates, SkipDiscovery, MatchDiscovery, Create,
      UpsertRecord, CreateFails, Identify, SetLocationFilesystemIdentity,
      EndIngest, GoIdle
<1>3. CASE Disturbance
  BY <1>3 DEF Disturbance, Throw, Stop, GoIdle, Cancel, Review
<1>4. CASE StartIngest \/ DiskStep \/ UNCHANGED vars
  BY <1>4
  DEF StartIngest, DiskStep, WriteFile, RemoveFile, RenameFile, LinkFile,
      DiskChange, vars
<1> QED
  BY <1>1, <1>2, <1>3, <1>4 DEF Next

(* The new proposal is for a candidate nobody has been asked about.        *)
LEMMA ProposeEffect ==
    ASSUME IngestInv, NEW id \in ProposalId, Propose(id)
    PROVE  /\ proposalState[id] = "none"
           /\ proposal'[id].to = Current.place
           /\ \A other \in Pending : proposal[other].to # Current.place
           /\ \A other \in ProposalId \ {id} :
                 /\ proposal'[other] = proposal[other]
                 /\ proposalState'[other] = proposalState[other]
<1>1. /\ proposalState[id] = "none" /\ proposal'[id].to = Current.place
      /\ \A other \in ProposalId \ {id} :
            /\ proposal'[other] = proposal[other]
            /\ proposalState'[other] = proposalState[other]
  BY DEF Propose, ProposeReconciliation, IngestInv, StoreInv, TypeOK
<1>2. phase = "ingesting" /\ work # NoWork /\ work.step = "propose"
  BY DEF Propose, AtStep
<1> QED
  BY <1>1, <1>2 DEF IngestInv, WorkIsCurrent, CandidatesAreRemembered

(* However many ingestions, stops and reviews there were, no two pending   *)
(* proposals are about one candidate (pendingReconciliations is read once, *)
(* and each new proposal is remembered: LibraryIngestionService::ingest).  *)
THEOREM NobodyIsAskedTwice == Spec => []OnePendingPerCandidate
<1>1. Init => OnePendingPerCandidate
  BY DEF Init, OnePendingPerCandidate, Pending
<1>2. IngestInv /\ OnePendingPerCandidate /\ [Next]_vars => OnePendingPerCandidate'
  <2> SUFFICES ASSUME IngestInv, OnePendingPerCandidate, [Next]_vars
               PROVE  OnePendingPerCandidate'
    OBVIOUS
  <2>1. CASE UNCHANGED <<proposal, proposalState>>
    BY <2>1 DEF OnePendingPerCandidate, Pending
  <2>2. ASSUME NEW id \in ProposalId, Propose(id)
        PROVE  OnePendingPerCandidate'
    <3>1. PICK candidate : candidate = Current.place
      OBVIOUS
    <3>2. \A other \in Pending' :
             \/ other = id /\ proposal'[other].to = candidate
             \/ /\ other # id /\ other \in Pending
                /\ proposal'[other] = proposal[other]
                /\ proposal[other].to # candidate
      BY <2>2, <3>1, ProposeEffect DEF Pending
    <3> QED
      BY <3>2 DEF OnePendingPerCandidate
  <2>3. ASSUME NEW id \in ProposalId,
               ApplyReconciliation(id) \/ DismissReconciliation(id)
        PROVE  OnePendingPerCandidate'
    <3>1. UNCHANGED proposal /\ Pending' \subseteq Pending
      BY <2>3
      DEF ApplyReconciliation, DismissReconciliation, ProvenSafeMove,
          IngestInv, StoreInv, TypeOK, Pending
    <3> QED
      BY <3>1 DEF OnePendingPerCandidate
  <2> QED
    BY <2>1, <2>2, <2>3, ProposalWriters
<1> QED
  BY <1>1, <1>2, IngestInvariance, PTL DEF Spec

-----------------------------------------------------------------------------
(* The identity of a book at its place.                                    *)

(* Observing a place fills a missing identity in and changes no other.     *)
LEMMA ScanKeepsIdentity ==
    ASSUME IngestInv, ScanStep, NEW pl \in Place, identity[pl] # NoFsId
    PROVE  identity'[pl] = identity[pl]
<1>1. identity \in [Place -> FsId \union {NoFsId}]
  BY DEF IngestInv, StoreInv, TypeOK
<1>2. CASE UNCHANGED identity
  BY <1>2
<1>3. ASSUME NEW at \in Place, NEW g, NEW f \in FsId \union {NoFsId},
             ObserveLocation(at, g, f)
      PROVE  identity'[pl] = identity[pl]
  BY <1>1, <1>3 DEF ObserveLocation
<1> QED
  BY <1>2, <1>3, ScanStepsTheStore
  DEF BeginRootScan, FinishRootScan, locationVars, indexVars

(* Once stored, the identity of a book at its place is never replaced: a   *)
(* file object found later at that path is reviewed, not adopted           *)
(* (observeLocation, setLocationFilesystemIdentity, applyReconciliation).  *)
THEOREM StoredIdentitiesStay == Spec => StoredIdentityIsFixed
<1> DEFINE Kept(pl) ==
        owner'[pl] = owner[pl] /\ identity[pl] # NoFsId
            => identity'[pl] = identity[pl]
<1>1. ASSUME IngestInv, [Next]_vars, NEW pl \in Linked
      PROVE  Kept(pl)
  <2>1. pl \in Place /\ owner[pl] # NoDoc
        /\ owner \in [Place -> DocId \union {NoDoc}]
        /\ identity \in [Place -> FsId \union {NoFsId}]
    BY <1>1 DEF Linked, IngestInv, StoreInv, TypeOK
  <2>2. CASE UNCHANGED identity
    BY <2>2
  <2>3. CASE ScanStep
    BY <1>1, <2>1, <2>3, ScanKeepsIdentity
  <2>4. CASE Identify
    <3>1. PICK at \in Place : at = Current.place
      BY <1>1, <2>4, IdentifyCallsTheStore
    <3>2. identity' = [identity EXCEPT ![at] = Current.identity]
      BY <2>4, <3>1 DEF Identify, SetLocationFilesystemIdentity
    <3>3. identity[at] = NoFsId
      BY <1>1, <2>4, <3>1
      DEF Identify, AtStep, IngestInv, WorkIsCurrent, JustCreated
    <3> QED
      BY <2>1, <3>2, <3>3
  <2>5. ASSUME NEW id \in ProposalId, ApplyReconciliation(id)
        PROVE  Kept(pl)
    <3>1. PICK from \in Linked, to \in Place \ Linked :
             /\ from = proposal[id].from /\ to = proposal[id].to
             /\ owner'[from] = NoDoc
             /\ \A other \in Place \ {from, to} : identity'[other] = identity[other]
      BY <1>1, <2>5, ApplyEffect DEF IngestInv, StoreInv
    <3> QED
      BY <2>1, <3>1
  <2>6. \/ UNCHANGED identity \/ ScanStep \/ Identify
        \/ \E id \in ProposalId : ApplyReconciliation(id)
    BY <1>1
    DEF rootVars, documentVars, locationVars, proposalVars, indexVars,
        Next, StartIngest, IngestStep, ReadPendingCandidates, SkipDiscovery,
        MatchDiscovery, Propose, ProposeReconciliation, Create, UpsertRecord,
        CreateFails, EndIngest, GoIdle, Disturbance, Throw, Stop, Cancel, Review,
        DismissReconciliation, DiskStep, WriteFile, RemoveFile, RenameFile,
        LinkFile, DiskChange, vars
  <2> QED
    BY <2>2, <2>3, <2>4, <2>5, <2>6
<1>2. IngestInv /\ [Next]_vars => [\A pl \in Linked : Kept(pl)]_vars
  BY <1>1
<1> QED
  BY <1>2, IngestInvariance, PTL DEF Spec, StoredIdentityIsFixed
-----------------------------------------------------------------------------
(* Roots, one after another.                                               *)

Distinct(s) == \A i, j \in 1 .. Len(s) : s[i] = s[j] => i = j

(* Roots are scanned in turn, each in a generation of its own, and what    *)
(* the store knows of a root is how its scan ended.                        *)
RootsInOrder ==
    /\ Distinct(rootQueue)
    /\ \A i \in 2 .. Len(rootQueue) : scanGeneration[rootQueue[i]] = 0
    /\ \A i \in 1 .. Len(rootQueue) : outcome[rootQueue[i]] = "none"
    /\ phase # "scanning" => rootQueue = <<>>
    /\ InRoot \/ batch = <<>>
    /\ \A r \in RootId :
          /\ scanGeneration[r] # 0 => scanGeneration[r] = generation[r]
          /\ outcome[r] # "none" => scanGeneration[r] # 0
          /\ outcome[r] \in {"partial", "unavailable"} => availability[r] # "available"
    /\ phase = "idle" =>
          /\ ~cancelled /\ published = {} /\ discoveries = <<>>
          /\ \A r \in RootId : scanGeneration[r] = 0 /\ outcome[r] = "none"

LEMMA TailParts ==
    ASSUME NEW S, NEW s \in Seq(S), s # <<>>
    PROVE  /\ Tail(s) \in Seq(S) /\ Head(s) \in S
           /\ Len(s) \in Nat \ {0} /\ Len(Tail(s)) = Len(s) - 1
           /\ Head(s) = s[1] /\ 1 \in 1 .. Len(s)
           /\ \A i \in 1 .. Len(Tail(s)) :
                 i + 1 \in 2 .. Len(s) /\ Tail(s)[i] = s[i + 1]
           /\ \A i \in 2 .. Len(s) :
                 i - 1 \in 1 .. Len(Tail(s)) /\ Tail(s)[i - 1] = s[i]
<1>1. /\ Tail(s) \in Seq(S) /\ Head(s) \in S /\ Head(s) = s[1]
      /\ Len(s) \in Nat \ {0} /\ Len(Tail(s)) = Len(s) - 1
      /\ \A i \in 1 .. Len(Tail(s)) : Tail(s)[i] = s[i + 1]
  BY HeadTailProperties, EmptySeq, LenProperties
<1> QED
  BY <1>1

LEMMA RootsAtRest ==
    ASSUME GoIdle, IngestInv, RootsInOrder
    PROVE  RootsInOrder'
<1>1. Len(<<>>) = 0
  BY EmptySeq
<1>2. UNCHANGED <<generation, availability>>
  BY DEF GoIdle, indexVars
<1> QED
  BY <1>1, <1>2 DEF GoIdle, RootsInOrder, Distinct

LEMMA RootsScanned ==
    ASSUME IngestInv, RootsInOrder, ScanStep
    PROVE  RootsInOrder'
<1> USE DEF rootVars, diskVars
<1>1. /\ rootQueue \in Seq(RootId)
      /\ scanGeneration \in [RootId -> Generation] /\ Generation \subseteq Nat
      /\ generation \in [RootId -> Generation] /\ availability \in [RootId -> RootAvailability]
      /\ outcome \in [RootId -> Outcome \union {"none"}]
      /\ listing \in {"complete", "partial", "unavailable"}
  BY IndexAssumption DEF IngestInv, IngestionTypeOK, StoreInv, TypeOK, Generation
<1>2. CASE BeginRoot
  <2>1. rootQueue # <<>> /\ phase = "scanning" /\ scanGeneration[CurrentRoot] = 0
    BY <1>2 DEF BeginRoot, AtRootStart
  <2>2. CurrentRoot \in RootId /\ CurrentRoot = rootQueue[1]
    BY <1>1, <2>1, TailParts DEF CurrentRoot
  <2>3. /\ generation' = [generation EXCEPT ![CurrentRoot] = @ + 1]
        /\ scanGeneration' = [scanGeneration EXCEPT ![CurrentRoot] = generation'[CurrentRoot]]
        /\ UNCHANGED <<availability, phase, rootQueue, outcome, batch, cancelled, published>>
    BY <1>2 DEF BeginRoot, BeginRootScan
  <2>4. \A i \in 2 .. Len(rootQueue) : rootQueue[i] # CurrentRoot /\ rootQueue[i] \in RootId
    <3>1. Len(rootQueue) \in Nat \ {0}
      BY <1>1, <2>1, TailParts
    <3> QED
      BY <1>1, <2>2, <3>1 DEF RootsInOrder, Distinct
  <2>5. /\ generation'[CurrentRoot] > 0
        /\ scanGeneration'[CurrentRoot] = generation'[CurrentRoot]
        /\ \A r \in RootId \ {CurrentRoot} :
              generation'[r] = generation[r] /\ scanGeneration'[r] = scanGeneration[r]
    <3>1. /\ generation'[CurrentRoot] = generation[CurrentRoot] + 1
          /\ generation[CurrentRoot] \in Nat
      BY <1>1, <2>2, <2>3
    <3>2. generation'[CurrentRoot] > 0
      BY <3>1
    <3> QED
      BY <1>1, <2>2, <2>3, <3>2
  <2>6. \A i \in 2 .. Len(rootQueue) : scanGeneration'[rootQueue[i]] = 0
    BY <2>4, <2>5 DEF RootsInOrder
  <2>7. InRoot'
    BY <2>1, <2>3, <2>5 DEF InRoot, CurrentRoot
  <2>8. outcome[CurrentRoot] = "none"
    BY <2>1, <2>2 DEF RootsInOrder
  <2>9. \A r \in RootId :
          /\ scanGeneration'[r] # 0 => scanGeneration'[r] = generation'[r]
          /\ outcome'[r] # "none" => scanGeneration'[r] # 0
          /\ outcome'[r] \in {"partial", "unavailable"} => availability'[r] # "available"
    BY <2>3, <2>5, <2>8 DEF RootsInOrder
  <2> QED
    BY <2>1, <2>3, <2>6, <2>7, <2>9 DEF RootsInOrder
<1>3. CASE PublishOne \/ \E p \in Path : List(p) \/ Skip(p)
  <2>1. /\ InRoot
        /\ UNCHANGED <<rootQueue, scanGeneration, phase, generation, outcome, availability>>
    BY <1>3 DEF PublishOne, List, Skip, Publish, ObserveLocation, indexVars
  <2>2. InRoot' /\ phase = "scanning"
    BY <2>1 DEF InRoot, CurrentRoot
  <2> QED
    BY <2>1, <2>2 DEF RootsInOrder
<1>4. CASE FinishRoot
  <2>1. InRoot /\ rootQueue # <<>> /\ phase = "scanning" /\ scanGeneration[CurrentRoot] > 0
    BY <1>4 DEF FinishRoot, InRoot
  <2>2. /\ rootQueue' = Tail(rootQueue) /\ batch' = <<>>
        /\ outcome' = [outcome EXCEPT ![CurrentRoot] = listing]
        /\ availability' = [availability EXCEPT ![CurrentRoot] = FinishedAvailability[listing]]
        /\ UNCHANGED <<phase, scanGeneration, generation>>
    BY <1>4 DEF FinishRoot, FinishRootScan
  <2>3. /\ Distinct(Tail(rootQueue))
        /\ \A i \in 2 .. Len(Tail(rootQueue)) : scanGeneration[Tail(rootQueue)[i]] = 0
    <3>1. Len(Tail(rootQueue)) = Len(rootQueue) - 1 /\ Len(rootQueue) \in Nat \ {0}
          /\ \A i \in 1 .. Len(Tail(rootQueue)) :
               i + 1 \in 2 .. Len(rootQueue) /\ Tail(rootQueue)[i] = rootQueue[i + 1]
      BY <1>1, <2>1, TailParts
    <3> QED
      BY <3>1 DEF RootsInOrder, Distinct
  <2>4. CurrentRoot \in RootId
    BY <1>1, <2>1, RootParts DEF IngestInv
  <2>5. FinishedAvailability[listing] # "available" \/ listing = "complete"
    BY <1>1 DEF FinishedAvailability
  <2>6. \A r \in RootId :
          /\ scanGeneration'[r] # 0 => scanGeneration'[r] = generation'[r]
          /\ outcome'[r] # "none" => scanGeneration'[r] # 0
          /\ outcome'[r] \in {"partial", "unavailable"} => availability'[r] # "available"
    BY <1>1, <2>1, <2>2, <2>4, <2>5 DEF RootsInOrder
  <2> QED
    BY <2>1, <2>2, <2>3, <2>6 DEF RootsInOrder
<1>5. CASE CancelRoot
  <2>1. InRoot /\ rootQueue # <<>> /\ phase = "scanning" /\ scanGeneration[CurrentRoot] > 0
    BY <1>5 DEF CancelRoot, InRoot
  <2>2. /\ rootQueue' = <<>> /\ batch' = <<>>
        /\ outcome' = [outcome EXCEPT ![CurrentRoot] = "cancelled"]
        /\ UNCHANGED <<phase, scanGeneration, generation, availability>>
    BY <1>5 DEF CancelRoot, indexVars
  <2>3. CurrentRoot \in RootId /\ Len(<<>>) = 0
    BY <1>1, <2>1, RootParts, EmptySeq DEF IngestInv
  <2>4. \A r \in RootId :
          /\ scanGeneration'[r] # 0 => scanGeneration'[r] = generation'[r]
          /\ outcome'[r] # "none" => scanGeneration'[r] # 0
          /\ outcome'[r] \in {"partial", "unavailable"} => availability'[r] # "available"
    BY <1>1, <2>1, <2>2, <2>3 DEF RootsInOrder
  <2> QED
    BY <2>1, <2>2, <2>3, <2>4 DEF RootsInOrder, Distinct
<1> QED
  BY <1>2, <1>3, <1>4, <1>5 DEF ScanStep

LEMMA RootsKept ==
    ASSUME IngestInv, RootsInOrder, [Next]_vars
    PROVE  RootsInOrder'
<1> USE DEF rootVars, diskVars, scanVars, ingestVars
<1>1. CASE StartIngest
  <2>1. /\ rootQueue' = RootOrder /\ phase = "idle" /\ batch = <<>>
        /\ UNCHANGED <<scanGeneration, generation, outcome, availability, batch>>
    BY <1>1 DEF StartIngest, indexVars, RootsInOrder, InRoot
  <2>2. Distinct(RootOrder) /\ phase' = "scanning"
    BY <1>1, IngestionAssumption DEF StartIngest, Distinct
  <2>3. \A i \in 1 .. Len(RootOrder) : RootOrder[i] \in RootId
    <3>1. RootOrder \in Seq(RootId) /\ Len(RootOrder) \in Nat
      BY IngestionAssumption, LenProperties
    <3> QED
      BY <3>1
  <2> QED
    BY <2>1, <2>2, <2>3 DEF RootsInOrder
<1>2. CASE \/ UNCHANGED vars \/ Cancel \/ DiskStep \/ \E id \in ProposalId : Review(id)
  <2>1. /\ UNCHANGED <<phase, rootQueue, scanGeneration, generation, outcome, availability,
                       batch, published, discoveries>>
        /\ phase # "idle" \/ UNCHANGED cancelled
    BY <1>2
    DEF vars, Cancel, DiskStep, WriteFile, RemoveFile, RenameFile, LinkFile, DiskChange, Review,
        ApplyReconciliation, DismissReconciliation, indexVars
  <2> QED
    BY <2>1 DEF RootsInOrder, InRoot, CurrentRoot
<1>3. CASE Throw \/ Stop \/ EndIngest
  BY <1>3, RootsAtRest DEF Throw, Stop, EndIngest
<1>4. CASE IngestStep
  <2>1. CASE EndIngest
    BY <2>1, <1>3
  <2>2. CASE ~EndIngest
    <3>1. /\ UNCHANGED <<rootQueue, scanGeneration, generation, outcome, availability, batch>>
          /\ phase' = "ingesting"
          /\ phase = "ingesting" \/ rootQueue = <<>>
      BY <1>4, <2>2
      DEF IngestStep, ReadPendingCandidates, SkipDiscovery, MatchDiscovery, Propose, Create,
          CreateFails, Identify, AtDiscovery, AtStep, ProposeReconciliation, UpsertRecord,
          SetLocationFilesystemIdentity, indexVars
    <3>2. rootQueue = <<>> /\ batch = <<>>
      BY <3>1 DEF RootsInOrder, InRoot
    <3> QED
      BY <3>1, <3>2 DEF RootsInOrder
  <2> QED
    BY <2>1, <2>2
<1> QED
  BY <1>1, <1>2, <1>3, <1>4, RootsScanned DEF Next, Disturbance

-----------------------------------------------------------------------------
(* Where paths lie, and that a scan finds each at most once.               *)

LiesBelow(pl) == pl[2] \in PathsOf[pl[1]]

(* Books, candidates and what a scan handles lie below their roots.        *)
PathsLieBelowRoots ==
    /\ \A pl \in Linked : LiesBelow(pl)
    /\ \A id \in ProposalId : proposalState[id] # "none" => LiesBelow(proposal[id].to)
    /\ \A i \in 1 .. Len(discoveries) : LiesBelow(discoveries[i].place)
    /\ InRoot => /\ unvisited \subseteq PathsOf[CurrentRoot]
                 /\ \A i \in 1 .. Len(batch) : batch[i] \in PathsOf[CurrentRoot]

PathOf(i) == discoveries[i].place[2]

(* No path is handed on twice.                                             *)
DiscoveredOnce ==
    /\ \A i \in 1 .. Len(discoveries) : PathOf(i) \in published
    /\ \A i, j \in 1 .. Len(discoveries) : PathOf(i) = PathOf(j) => i = j

HandedOn(f) == Found(<<CurrentRoot, Head(batch)>>, f)

(* What adds to the discoveries and takes from them.                       *)
LEMMA DiscoveryWriters ==
    ASSUME IngestInv, [Next]_vars
    PROVE  \/ UNCHANGED <<discoveries, published>>
           \/ discoveries # <<>> /\ discoveries' = Tail(discoveries) /\ UNCHANGED published
           \/ discoveries' = <<>> /\ published' = {}
           \/ \E f \in FsId \union {NoFsId} :
                 /\ InRoot /\ batch # <<>> /\ Head(batch) \notin published
                 /\ HandedOn(f) \in Discovery
                 /\ discoveries' = Append(discoveries, HandedOn(f))
                 /\ published' = published \union {Head(batch)}
<1> USE DEF diskVars, scanVars, ingestVars, indexVars
<1>1. CASE PublishOne
  <2>1. CurrentRoot \in RootId /\ Head(batch) \in Path
        /\ file[Head(batch)] \in FsId \union {NoFsId}
    BY <1>1, RootParts, BatchParts DEF PublishOne, InRoot, IngestInv, IngestionTypeOK
  <2>2. <<CurrentRoot, Head(batch)>> \in Place
        /\ owner[<<CurrentRoot, Head(batch)>>] \in DocId \union {NoDoc}
    BY <2>1 DEF Place, IngestInv, IngestionTypeOK, TypeOK
  <2>3. \A f \in FsId \union {NoFsId} : HandedOn(f) \in Discovery
    BY <2>2 DEF HandedOn, Found, Discovery
  <2>4. PICK f \in FsId \union {NoFsId} : Publish(Head(batch), f)
    BY <1>1, <2>1 DEF PublishOne
  <2> QED
    BY <1>1, <2>3, <2>4 DEF PublishOne, Publish, HandedOn
<1>2. CASE Throw \/ Stop \/ EndIngest
  BY <1>2 DEF Throw, Stop, EndIngest, GoIdle
<1>3. CASE IngestStep /\ ~EndIngest
  <2>1. \A step : AtStep(step) => discoveries # <<>>
    BY WorkParts DEF IngestInv
  <2>2. UNCHANGED published
    BY <1>3
    DEF IngestStep, ReadPendingCandidates, SkipDiscovery, MatchDiscovery, Propose, Create,
        CreateFails, Identify
  <2>3. \/ UNCHANGED discoveries
        \/ discoveries # <<>> /\ discoveries' = Tail(discoveries)
    BY <1>3, <2>1
    DEF IngestStep, ReadPendingCandidates, SkipDiscovery, MatchDiscovery, Propose, Create,
        CreateFails, Identify, NextDiscovery, AtDiscovery
  <2> QED
    BY <2>2, <2>3
<1>4. CASE \/ StartIngest \/ BeginRoot \/ FinishRoot \/ CancelRoot
           \/ \E p \in Path : List(p) \/ Skip(p)
           \/ Cancel \/ UNCHANGED vars \/ DiskStep
           \/ \E id \in ProposalId : Review(id)
  BY <1>4
  DEF StartIngest, BeginRoot, FinishRoot, CancelRoot, List, Skip, Cancel, vars, Review,
      DiskStep, WriteFile, RemoveFile, RenameFile, LinkFile, DiskChange
<1> QED
  BY <1>1, <1>2, <1>3, <1>4 DEF Next, ScanStep, Disturbance

(* Inside a root: it has just begun, or is still the same.                 *)
LEMMA InsideRoot ==
    ASSUME IngestInv, RootsInOrder, [Next]_vars, InRoot'
    PROVE  /\ CurrentRoot' = CurrentRoot /\ CurrentRoot \in RootId
           /\ phase = "scanning"
           /\ \/ BeginRoot /\ batch = <<>> /\ batch' = <<>>
              \/ /\ InRoot
                 /\ \/ UNCHANGED <<unvisited, batch, listing>>
                    \/ PublishOne
                    \/ \E p \in Path : List(p) \/ Skip(p)
<1> USE DEF diskVars, scanVars, ingestVars
<1>1. ~Throw /\ ~Stop /\ ~EndIngest /\ ~CancelRoot
  BY DEF Throw, Stop, EndIngest, CancelRoot, GoIdle, InRoot
<1>2. ~StartIngest
  <2>1. SUFFICES ASSUME StartIngest PROVE FALSE
    OBVIOUS
  <2>2. rootQueue' = RootOrder /\ scanGeneration' = scanGeneration /\ phase = "idle"
        /\ RootOrder # <<>>
    BY <2>1 DEF StartIngest, InRoot
  <2>3. Head(RootOrder) \in RootId
    BY <2>2, IngestionAssumption, TailParts
  <2> QED
    BY <2>2, <2>3 DEF InRoot, CurrentRoot, RootsInOrder
<1>3. ~FinishRoot
  <2>1. SUFFICES ASSUME FinishRoot PROVE FALSE
    OBVIOUS
  <2>2. /\ rootQueue' = Tail(rootQueue) /\ scanGeneration' = scanGeneration
        /\ rootQueue # <<>> /\ Tail(rootQueue) # <<>>
        /\ rootQueue \in Seq(RootId)
    BY <2>1 DEF FinishRoot, InRoot, IngestInv, IngestionTypeOK
  <2>3. Head(Tail(rootQueue)) = rootQueue[2] /\ 2 \in 2 .. Len(rootQueue)
    <3>1. Tail(rootQueue) \in Seq(RootId)
      BY <2>2, TailParts
    <3>2. Head(Tail(rootQueue)) = Tail(rootQueue)[1] /\ 1 \in 1 .. Len(Tail(rootQueue))
      BY <2>2, <3>1, TailParts
    <3>3. /\ 1 + 1 \in 2 .. Len(rootQueue)
          /\ Tail(rootQueue)[1] = rootQueue[1 + 1]
      BY <2>2, <3>2, TailParts
    <3> QED
      BY <3>2, <3>3
  <2>4. scanGeneration[rootQueue[2]] = 0
    BY <2>3 DEF RootsInOrder
  <2> QED
    BY <2>2, <2>3, <2>4 DEF InRoot, CurrentRoot
<1>4. ~IngestStep
  <2>1. SUFFICES ASSUME IngestStep PROVE FALSE
    OBVIOUS
  <2>2. phase' # "scanning"
    BY <1>1, <2>1
    DEF IngestStep, ReadPendingCandidates, SkipDiscovery, MatchDiscovery, Propose, Create,
        CreateFails, Identify, AtDiscovery, AtStep
  <2> QED
    BY <2>2 DEF InRoot
<1>5. ASSUME rootQueue # <<>> PROVE CurrentRoot \in RootId
  BY <1>5, RootParts DEF IngestInv
<1>6. CASE BeginRoot
  <2>1. ~InRoot /\ rootQueue # <<>> /\ phase = "scanning" /\ UNCHANGED <<batch, rootQueue>>
    BY <1>6 DEF BeginRoot, AtRootStart, InRoot
  <2> QED
    BY <1>5, <1>6, <2>1 DEF RootsInOrder, CurrentRoot
<1>7. CASE \/ Cancel \/ UNCHANGED vars \/ DiskStep
           \/ \E id \in ProposalId : Review(id)
  <2>1. UNCHANGED <<unvisited, batch, listing, phase, rootQueue, scanGeneration>>
    BY <1>7
    DEF Cancel, vars, Review, DiskStep, WriteFile, RemoveFile, RenameFile, LinkFile, DiskChange
  <2> QED
    BY <1>5, <2>1 DEF InRoot, CurrentRoot
<1>8. CASE PublishOne \/ \E p \in Path : List(p) \/ Skip(p)
  <2>1. InRoot /\ UNCHANGED <<phase, rootQueue>>
    BY <1>8 DEF PublishOne, List, Skip
  <2> QED
    BY <1>5, <1>8, <2>1 DEF InRoot, CurrentRoot
<1> QED
  BY <1>1, <1>2, <1>3, <1>4, <1>6, <1>7, <1>8 DEF Next, ScanStep, Disturbance

LEMMA AppendParts ==
    ASSUME NEW S, NEW s \in Seq(S), NEW x \in S
    PROVE  /\ Len(s) \in Nat /\ Len(Append(s, x)) = Len(s) + 1
           /\ \A i \in 1 .. Len(s) : Append(s, x)[i] = s[i]
           /\ Append(s, x)[Len(s) + 1] = x
BY AppendProperties, LenProperties

LEMMA PathsKept ==
    ASSUME IngestInv, RootsInOrder, PathsLieBelowRoots, [Next]_vars
    PROVE  PathsLieBelowRoots'
<1>0. Len(<<>>) = 0
  BY EmptySeq
<1>1. ASSUME discoveries # <<>> PROVE LiesBelow(Current.place) /\ Current.place \in Place
  <2>1. Current = discoveries[1] /\ 1 \in 1 .. Len(discoveries)
    BY <1>1, TailParts DEF Current, IngestInv, IngestionTypeOK
  <2> QED
    BY <1>1, <2>1, DiscoveryParts DEF PathsLieBelowRoots, IngestInv
<1>2. ASSUME NEW pl \in Linked' PROVE LiesBelow(pl)
  <2>1. CASE UNCHANGED owner
    BY <1>2, <2>1 DEF PathsLieBelowRoots, Linked
  <2>2. ASSUME NEW d \in DocId, Create(d) PROVE LiesBelow(pl)
    <3>1. discoveries # <<>>
      BY <2>2, WorkParts DEF Create, IngestInv
    <3>2. owner' = [owner EXCEPT ![Current.place] = d]
      BY <2>2 DEF Create, UpsertRecord
    <3>3. pl = Current.place \/ pl \in Linked
      BY <1>1, <1>2, <3>1, <3>2 DEF Linked, IngestInv, IngestionTypeOK, TypeOK
    <3> QED
      BY <1>1, <3>1, <3>3 DEF PathsLieBelowRoots
  <2>3. ASSUME NEW id \in ProposalId, ApplyReconciliation(id) PROVE LiesBelow(pl)
    <3>1. /\ proposal[id].to \in Place /\ id \in Pending
          /\ owner'[proposal[id].from] = NoDoc
          /\ \A other \in Place \ {proposal[id].from, proposal[id].to} :
                owner'[other] = owner[other]
      BY <2>3, ApplyEffect DEF IngestInv, StoreInv
    <3>2. pl = proposal[id].to \/ pl \in Linked
      BY <1>2, <3>1 DEF Linked
    <3> QED
      BY <3>1, <3>2 DEF PathsLieBelowRoots, Pending
  <2> QED
    BY <2>1, <2>2, <2>3, PlaceWriters
<1>3. ASSUME NEW id \in ProposalId, proposalState'[id] # "none"
      PROVE  LiesBelow(proposal'[id].to)
  <2>1. CASE UNCHANGED <<proposal, proposalState>>
    BY <1>3, <2>1 DEF PathsLieBelowRoots
  <2>2. ASSUME NEW new \in ProposalId, Propose(new) PROVE LiesBelow(proposal'[id].to)
    <3>1. discoveries # <<>>
      BY <2>2, WorkParts DEF Propose, IngestInv
    <3>2. /\ proposal'[new].to = Current.place
          /\ \A other \in ProposalId \ {new} :
                 /\ proposal'[other] = proposal[other]
                 /\ proposalState'[other] = proposalState[other]
      BY <2>2, ProposeEffect
    <3> QED
      BY <1>1, <1>3, <3>1, <3>2 DEF PathsLieBelowRoots
  <2>3. ASSUME NEW old \in ProposalId, ApplyReconciliation(old) \/ DismissReconciliation(old)
        PROVE  LiesBelow(proposal'[id].to)
    <3>1. UNCHANGED proposal /\ proposalState[id] # "none"
      BY <1>3, <2>3
      DEF ApplyReconciliation, DismissReconciliation, ProvenSafeMove, IngestInv, StoreInv, TypeOK
    <3> QED
      BY <3>1 DEF PathsLieBelowRoots
  <2> QED
    BY <2>1, <2>2, <2>3, ProposalWriters
<1>4. \A i \in 1 .. Len(discoveries') : LiesBelow(discoveries'[i].place)
  <2>1. CASE UNCHANGED discoveries
    BY <2>1 DEF PathsLieBelowRoots
  <2>2. CASE discoveries # <<>> /\ discoveries' = Tail(discoveries)
    <3>1. \A i \in 1 .. Len(Tail(discoveries)) :
             i + 1 \in 1 .. Len(discoveries) /\ Tail(discoveries)[i] = discoveries[i + 1]
      BY <2>2, TailParts DEF IngestInv, IngestionTypeOK
    <3> QED
      BY <2>2, <3>1 DEF PathsLieBelowRoots
  <2>3. CASE discoveries' = <<>>
    BY <1>0, <2>3
  <2>4. ASSUME NEW f \in FsId \union {NoFsId}, InRoot, batch # <<>>,
               HandedOn(f) \in Discovery, discoveries' = Append(discoveries, HandedOn(f))
        PROVE  \A i \in 1 .. Len(discoveries') : LiesBelow(discoveries'[i].place)
    <3>1. HandedOn(f).place = <<CurrentRoot, Head(batch)>>
      BY DEF HandedOn, Found
    <3>2. Head(batch) = batch[1] /\ 1 \in 1 .. Len(batch)
      BY <2>4, TailParts DEF IngestInv, IngestionTypeOK
    <3>3. LiesBelow(HandedOn(f).place)
      BY <2>4, <3>1, <3>2 DEF LiesBelow, PathsLieBelowRoots
    <3>4. discoveries \in Seq(Discovery)
      BY DEF IngestInv, IngestionTypeOK
    <3>5. \A i \in 1 .. Len(discoveries') :
             \/ i \in 1 .. Len(discoveries) /\ discoveries'[i] = discoveries[i]
             \/ discoveries'[i] = HandedOn(f)
      BY <2>4, <3>4, AppendParts
    <3> QED
      BY <3>3, <3>5 DEF PathsLieBelowRoots
  <2> QED
    BY <2>1, <2>2, <2>3, <2>4, DiscoveryWriters
<1>5. ASSUME InRoot'
      PROVE  /\ unvisited' \subseteq PathsOf[CurrentRoot]
             /\ \A i \in 1 .. Len(batch') : batch'[i] \in PathsOf[CurrentRoot]
  <2>1. CASE BeginRoot /\ batch' = <<>>
    BY <1>0, <2>1 DEF BeginRoot
  <2>2. CASE InRoot /\ UNCHANGED <<unvisited, batch>>
    BY <2>2 DEF PathsLieBelowRoots
  <2>3. CASE InRoot /\ PublishOne
    <3>1. batch # <<>> /\ batch' = Tail(batch) /\ UNCHANGED unvisited
      BY <2>3 DEF PublishOne
    <3>2. \A i \in 1 .. Len(Tail(batch)) :
             i + 1 \in 1 .. Len(batch) /\ Tail(batch)[i] = batch[i + 1]
      BY <3>1, TailParts DEF IngestInv, IngestionTypeOK
    <3> QED
      BY <2>3, <3>1, <3>2 DEF PathsLieBelowRoots
  <2>4. ASSUME NEW p \in Path, InRoot, List(p) \/ Skip(p)
        PROVE  /\ unvisited' \subseteq PathsOf[CurrentRoot]
               /\ \A i \in 1 .. Len(batch') : batch'[i] \in PathsOf[CurrentRoot]
    <3>1. /\ p \in unvisited /\ unvisited' = unvisited \ {p}
          /\ batch' = Append(batch, p) \/ batch' = batch
      BY <2>4 DEF List, Skip
    <3>2. batch \in Seq(Path)
      BY DEF IngestInv, IngestionTypeOK
    <3>3. \A i \in 1 .. Len(batch') :
             \/ i \in 1 .. Len(batch) /\ batch'[i] = batch[i]
             \/ batch'[i] = p
      BY <3>1, <3>2, AppendParts
    <3> QED
      BY <2>4, <3>1, <3>3 DEF PathsLieBelowRoots
  <2> QED
    BY <1>5, <2>1, <2>2, <2>3, <2>4, InsideRoot
<1>6. InRoot' => CurrentRoot' = CurrentRoot
  BY InsideRoot
<1> QED
  BY <1>2, <1>3, <1>4, <1>5, <1>6 DEF PathsLieBelowRoots, LiesBelow

LEMMA DiscoveredOnceKept ==
    ASSUME IngestInv, DiscoveredOnce, [Next]_vars
    PROVE  DiscoveredOnce'
<1>0. Len(<<>>) = 0 /\ discoveries \in Seq(Discovery)
  BY EmptySeq DEF IngestInv, IngestionTypeOK
<1>1. CASE UNCHANGED <<discoveries, published>>
  BY <1>1 DEF DiscoveredOnce, PathOf
<1>2. CASE discoveries # <<>> /\ discoveries' = Tail(discoveries) /\ UNCHANGED published
  <2>1. \A i \in 1 .. Len(Tail(discoveries)) :
           i \in Int /\ i + 1 \in 1 .. Len(discoveries)
           /\ Tail(discoveries)[i] = discoveries[i + 1]
    BY <1>0, <1>2, TailParts
  <2>2. \A i \in 1 .. Len(discoveries') :
           i \in Int /\ i + 1 \in 1 .. Len(discoveries) /\ PathOf(i)' = PathOf(i + 1)
    BY <1>2, <2>1 DEF PathOf
  <2> QED
    BY <1>2, <2>2 DEF DiscoveredOnce
<1>3. CASE discoveries' = <<>>
  BY <1>0, <1>3 DEF DiscoveredOnce
<1>4. ASSUME NEW f \in FsId \union {NoFsId}, Head(batch) \notin published,
             HandedOn(f) \in Discovery, discoveries' = Append(discoveries, HandedOn(f)),
             published' = published \union {Head(batch)}
      PROVE  DiscoveredOnce'
  <2>1. HandedOn(f).place[2] = Head(batch)
    BY DEF HandedOn, Found
  <2>2. \A i \in 1 .. Len(discoveries') :
           \/ i \in 1 .. Len(discoveries) /\ PathOf(i)' = PathOf(i)
           \/ i = Len(discoveries) + 1 /\ PathOf(i)' = Head(batch)
    <3>1. Len(discoveries') = Len(discoveries) + 1 /\ Len(discoveries) \in Nat
          /\ (\A i \in 1 .. Len(discoveries) : discoveries'[i] = discoveries[i])
          /\ discoveries'[Len(discoveries) + 1] = HandedOn(f)
      BY <1>0, <1>4, AppendParts
    <3> QED
      BY <2>1, <3>1 DEF PathOf
  <2> QED
    BY <1>4, <2>2 DEF DiscoveredOnce
<1> QED
  BY <1>1, <1>2, <1>3, <1>4, DiscoveryWriters

-----------------------------------------------------------------------------
(* An ingestion nobody disturbs.                                           *)

Quiet == undisturbed /\ phase # "idle"

Discovered(p) == \E i \in 1 .. Len(discoveries) : PathOf(i) = p
Listed(p) == \E i \in 1 .. Len(batch) : batch[i] = p
Accounted(p) == Settled(p) \/ Discovered(p)

(* The scan of r, or what has been done of it, is past p.                  *)
Passed(r, p) ==
    \/ outcome[r] = "complete"
    \/ InRoot /\ r = CurrentRoot /\ listing = "complete" /\ p \notin unvisited /\ ~Listed(p)

(* A book that was at its place when this was scanned is marked as seen;   *)
(* one that has been shelved since is no longer awaiting anything.         *)
Seen(r, p) ==
    <<r, p>> \in Linked /\ identity[<<r, p>>] = file[p] =>
        \/ lastSeen[<<r, p>>] = scanGeneration[r]
        \/ phase = "ingesting" /\ ~Discovered(p)

AllCompleteSoFar == \A r \in RootId : outcome[r] \in {"none", "complete"}

Candidates == {proposal[id].to : id \in Pending}

RunsAsPlanned ==
    /\ ~cancelled
    /\ \A r \in RootId :
          /\ outcome[r] # "cancelled"
          /\ outcome[r] = "none" => \E i \in 1 .. Len(rootQueue) : rootQueue[i] = r

IsOnDisk(d) == OnDisk(d.place[2]) /\ d.identity = file[d.place[2]]

DiskIsKnown ==
    /\ \A i \in 1 .. Len(batch) : OnDisk(batch[i])
    /\ \A p \in published : OnDisk(p)
    /\ \A i \in 1 .. Len(discoveries) : IsOnDisk(discoveries[i])

PlacesAreSeen ==
    \A r \in RootId : \A p \in PathsOf[r] : OnDisk(p) /\ Passed(r, p) => Seen(r, p)

AllIsAccounted ==
    /\ \A p \in published : Accounted(p)
    /\ \A r \in RootId : \A p \in PathsOf[r] : OnDisk(p) /\ Passed(r, p) => Accounted(p)

(* While nobody disturbs it, an ingestion knows the disk; a scanned path   *)
(* whose file is there is settled, or handed on and not handled yet.       *)
QuietInv ==
    Quiet =>
        /\ RunsAsPlanned
        /\ DiskIsKnown
        /\ phase = "ingesting" => pendingCandidates \subseteq Candidates
        /\ PlacesAreSeen
        /\ AllCompleteSoFar => AllIsAccounted

(* The inductive invariant of what an undisturbed ingestion achieves.      *)
ShelfInv ==
    /\ IngestInv
    /\ RootsInOrder
    /\ PathsLieBelowRoots
    /\ DiscoveredOnce
    /\ QuietInv

(* Of its steps, those that leave it undisturbed.                          *)
QuietStep ==
    \/ BeginRoot \/ FinishRoot
    \/ PublishOne /\ Publish(Head(batch), file[Head(batch)])
    \/ \E p \in Path : List(p) \/ Skip(p)
    \/ ReadPendingCandidates \/ SkipDiscovery \/ MatchDiscovery
    \/ \E id \in ProposalId : Propose(id)
    \/ \E d \in DocId : Create(d)
    \/ Identify
    \/ UNCHANGED vars

LEMMA QuietSteps ==
    ASSUME ShelfInv, [Next]_vars, Quiet'
    PROVE  \/ StartIngest
           \/ /\ Quiet /\ UNCHANGED file /\ QuietStep
              /\ RunsAsPlanned /\ DiskIsKnown /\ PlacesAreSeen
              /\ AllCompleteSoFar => AllIsAccounted
<1> USE DEF diskVars, scanVars, ingestVars
<1>1. CASE ScanStep
  <2>1. undisturbed /\ UNCHANGED file /\ phase = "scanning"
    BY <1>1
    DEF ScanStep, BeginRoot, PublishOne, FinishRoot, CancelRoot, List, Skip, InRoot, AtRootStart,
        Quiet
  <2>2. Quiet /\ ~CancelRoot
    BY <2>1 DEF Quiet, CancelRoot, ShelfInv, QuietInv, RunsAsPlanned
  <2> QED
    BY <1>1, <2>1, <2>2 DEF ScanStep, PublishOne, QuietStep, ShelfInv, QuietInv, Quiet
<1>2. CASE IngestStep
  <2>1. ~EndIngest /\ ~CreateFails
    BY DEF EndIngest, GoIdle, CreateFails, Quiet
  <2>2. undisturbed /\ UNCHANGED file /\ phase # "idle"
    BY <1>2, <2>1
    DEF IngestStep, ReadPendingCandidates, SkipDiscovery, MatchDiscovery, Propose, Create,
        Identify, AtDiscovery, AtStep, Quiet
  <2> QED
    BY <1>2, <2>1, <2>2 DEF IngestStep, QuietStep, ShelfInv, QuietInv, Quiet
<1>3. ~Disturbance /\ ~DiskStep
  BY DEF Disturbance, Throw, Stop, Cancel, Review, DiskStep, WriteFile, RemoveFile, RenameFile,
         LinkFile, DiskChange, Quiet
<1>4. CASE UNCHANGED vars
  BY <1>4 DEF vars, Quiet, QuietStep, ShelfInv, QuietInv
<1> QED
  BY <1>1, <1>2, <1>3, <1>4 DEF Next

-----------------------------------------------------------------------------
(* What an undisturbed step leaves as it is in the store.                  *)

LEMMA QuietStore ==
    ASSUME ShelfInv, [Next]_vars, Quiet' , ~StartIngest
    PROVE  /\ \A pl \in Linked : pl \in Linked' /\ owner'[pl] = owner[pl]
           /\ \A pl \in Place : identity[pl] # NoFsId => identity'[pl] = identity[pl]
           /\ \A id \in Pending : id \in Pending' /\ proposal'[id] = proposal[id]
<1> USE DEF rootVars, documentVars, locationVars, proposalVars, indexVars
<1>1. QuietStep /\ IngestInv /\ StoreInv
  BY QuietSteps DEF ShelfInv, IngestInv
<1>2. ~\E id \in ProposalId : ApplyReconciliation(id) \/ DismissReconciliation(id)
  BY <1>1
  DEF QuietStep, BeginRoot, BeginRootScan, FinishRoot, FinishRootScan, Publish,
      ObserveLocation, List, Skip, ReadPendingCandidates, SkipDiscovery, MatchDiscovery,
      Propose, ProposeReconciliation, Create, UpsertRecord, Identify,
      SetLocationFilesystemIdentity, vars, ApplyReconciliation, DismissReconciliation,
      StoreInv, TypeOK, ProvenSafeMove
<1>3. \A pl \in Linked : pl \in Linked' /\ owner'[pl] = owner[pl]
  <2>1. CASE UNCHANGED owner
    BY <2>1 DEF Linked
  <2>2. ASSUME NEW d \in DocId, Create(d)
        PROVE  \A pl \in Linked : pl \in Linked' /\ owner'[pl] = owner[pl]
    <3>1. PICK to \in Place : to = Current.place
      BY <1>1, <2>2, WorkParts, DiscoveryParts DEF Create, IngestInv
    <3>2. to \notin Linked /\ \A pl \in Place \ {to} : owner'[pl] = owner[pl]
      BY <1>1, <2>2, <3>1, CreateEffect, UpsertEffect DEF StoreInv
    <3> QED
      BY <3>1, <3>2 DEF Linked
  <2> QED
    BY <1>2, <2>1, <2>2, PlaceWriters
<1>4. \A id \in Pending : id \in Pending' /\ proposal'[id] = proposal[id]
  <2>1. CASE UNCHANGED <<proposal, proposalState>>
    BY <2>1 DEF Pending
  <2>2. ASSUME NEW new \in ProposalId, Propose(new)
        PROVE  \A id \in Pending : id \in Pending' /\ proposal'[id] = proposal[id]
    BY <1>1, <2>2, ProposeEffect DEF Pending
  <2> QED
    BY <1>2, <2>1, <2>2, ProposalWriters
<1>5. ASSUME NEW pl \in Place, identity[pl] # NoFsId PROVE identity'[pl] = identity[pl]
  <2>1. CASE UNCHANGED identity
    BY <2>1
  <2>2. CASE ScanStep
    BY <1>1, <1>5, <2>2, ScanKeepsIdentity
  <2>3. CASE Identify
    <3>1. PICK at \in Place : at = Current.place
      BY <1>1, <2>3, IdentifyCallsTheStore
    <3>2. identity' = [identity EXCEPT ![at] = Current.identity]
      BY <2>3, <3>1 DEF Identify, SetLocationFilesystemIdentity
    <3>3. identity[at] = NoFsId
      BY <1>1, <2>3, <3>1
      DEF Identify, AtStep, IngestInv, WorkIsCurrent, JustCreated
    <3> QED
      BY <1>1, <1>5, <3>2, <3>3 DEF StoreInv, TypeOK
  <2> QED
    BY <1>1, <2>1, <2>2, <2>3
    DEF QuietStep, ScanStep, ReadPendingCandidates, SkipDiscovery, MatchDiscovery, Propose,
        ProposeReconciliation, Create, UpsertRecord, vars
<1> QED
  BY <1>3, <1>4, <1>5

LEMMA SettledStays ==
    ASSUME ShelfInv, [Next]_vars, Quiet', ~StartIngest, NEW p \in Path, OnDisk(p), Settled(p)
    PROVE  Settled(p)'
<1>1. UNCHANGED file
  BY QuietSteps
<1>2. PICK r \in RootId : \/ <<r, p>> \in Linked /\ identity[<<r, p>>] = file[p]
                          \/ \E id \in Pending : proposal[id].to = <<r, p>>
  BY DEF Settled
<1>3. CASE <<r, p>> \in Linked /\ identity[<<r, p>>] = file[p]
  <2>1. <<r, p>> \in Place /\ identity[<<r, p>>] # NoFsId
    BY <1>3 DEF Linked, OnDisk
  <2>2. <<r, p>> \in Linked' /\ identity'[<<r, p>>] = file'[p]
    BY <1>1, <1>3, <2>1, QuietStore
  <2> QED
    BY <2>2 DEF Settled
<1>4. ASSUME NEW id \in Pending, proposal[id].to = <<r, p>> PROVE Settled(p)'
  <2>1. id \in Pending' /\ proposal'[id].to = <<r, p>>
    BY <1>4, QuietStore
  <2> QED
    BY <2>1 DEF Settled
<1> QED
  BY <1>2, <1>3, <1>4

-----------------------------------------------------------------------------
(* Discoveries by their paths.                                             *)

LEMMA DiscoveredHead ==
    ASSUME IngestInv, DiscoveredOnce, discoveries # <<>>, discoveries' = Tail(discoveries)
    PROVE  /\ Discovered(Current.place[2])
           /\ \A p : Discovered(p)' <=> Discovered(p) /\ p # Current.place[2]
<1>1. discoveries \in Seq(Discovery)
  BY DEF IngestInv, IngestionTypeOK
<1>2. Current = discoveries[1] /\ 1 \in 1 .. Len(discoveries)
  BY <1>1, TailParts DEF Current
<1>3. /\ \A i \in 1 .. Len(discoveries') :
            i + 1 \in 2 .. Len(discoveries) /\ PathOf(i)' = PathOf(i + 1)
      /\ \A i \in 2 .. Len(discoveries) :
            i - 1 \in 1 .. Len(discoveries') /\ PathOf(i - 1)' = PathOf(i)
  BY <1>1, TailParts DEF PathOf
<1>4. \A i \in 1 .. Len(discoveries) : i = 1 \/ i \in 2 .. Len(discoveries)
  OBVIOUS
<1>5. \A i \in 2 .. Len(discoveries) : i \in 1 .. Len(discoveries) /\ i # 1
  OBVIOUS
<1>6. PathOf(1) = Current.place[2]
  BY <1>2 DEF PathOf
<1>7. Discovered(Current.place[2])
  BY <1>2, <1>6 DEF Discovered
<1>8. ASSUME NEW p, Discovered(p)' PROVE Discovered(p) /\ p # Current.place[2]
  <2>1. PICK i \in 2 .. Len(discoveries) : PathOf(i) = p
    BY <1>3, <1>8 DEF Discovered
  <2> QED
    BY <1>2, <1>5, <1>6, <2>1 DEF Discovered, DiscoveredOnce
<1>9. ASSUME NEW p, Discovered(p), p # Current.place[2] PROVE Discovered(p)'
  <2>1. PICK i \in 2 .. Len(discoveries) : PathOf(i) = p
    BY <1>4, <1>6, <1>9 DEF Discovered
  <2> QED
    BY <1>3, <2>1 DEF Discovered
<1> QED
  BY <1>7, <1>8, <1>9

LEMMA ListedHead ==
    ASSUME IngestInv, batch # <<>>, batch' = Tail(batch), NEW p, Listed(p), p # Head(batch)
    PROVE  Listed(p)'
<1>1. batch \in Seq(Path)
  BY DEF IngestInv, IngestionTypeOK
<1>2. PICK i \in 1 .. Len(batch) : batch[i] = p
  BY DEF Listed
<1>3. i = 1 \/ i \in 2 .. Len(batch)
  OBVIOUS
<1>4. i \in 2 .. Len(batch)
  BY <1>1, <1>2, <1>3, TailParts
<1> QED
  BY <1>1, <1>2, <1>4, TailParts DEF Listed

(* A discovery leaves the list only when its path is settled.              *)
LEMMA AccountedStays ==
    ASSUME ShelfInv, [Next]_vars, Quiet', ~StartIngest, NEW p \in Path, OnDisk(p),
           Accounted(p),
           discoveries # <<>> /\ discoveries' = Tail(discoveries) /\ p = Current.place[2]
               => Settled(p)'
    PROVE  Accounted(p)'
<1>1. CASE Settled(p)
  BY <1>1, SettledStays DEF Accounted
<1>2. CASE Discovered(p)
  <2>1. CASE UNCHANGED discoveries
    BY <1>2, <2>1 DEF Accounted, Discovered, PathOf
  <2>2. CASE discoveries # <<>> /\ discoveries' = Tail(discoveries)
    BY <1>2, <2>2, DiscoveredHead DEF Accounted, ShelfInv
  <2>3. ASSUME NEW x \in Discovery, discoveries' = Append(discoveries, x)
        PROVE  Discovered(p)'
    <3>1. discoveries \in Seq(Discovery)
      BY DEF ShelfInv, IngestInv, IngestionTypeOK
    <3>2. \A i \in 1 .. Len(discoveries) :
             i \in 1 .. Len(discoveries') /\ discoveries'[i] = discoveries[i]
      BY <2>3, <3>1, AppendParts
    <3> QED
      BY <1>2, <3>2 DEF Discovered, PathOf
  <2>4. CASE discoveries' = <<>> /\ published' = {}
    <3>1. QuietStep /\ IngestInv
      BY QuietSteps DEF ShelfInv
    <3>2. PICK i \in 1 .. Len(discoveries) : PathOf(i) = p
      BY <1>2 DEF Discovered
    <3>3. published # {}
      BY <3>2 DEF ShelfInv, DiscoveredOnce
    <3>4. UNCHANGED published \/ published' # {}
      BY <3>1
      DEF QuietStep, BeginRoot, FinishRoot, Publish, List, Skip, ReadPendingCandidates,
          SkipDiscovery, MatchDiscovery, Propose, Create, Identify, vars, scanVars
    <3> QED
      BY <2>4, <3>3, <3>4
  <2> QED
    BY <2>1, <2>2, <2>3, <2>4, DiscoveryWriters DEF Accounted, ShelfInv
<1> QED
  BY <1>1, <1>2 DEF Accounted

-----------------------------------------------------------------------------
(* The steps of a scan and of an ingestion nobody disturbs.                *)

LEMMA HandledIsSettled ==
    ASSUME ShelfInv, [Next]_vars, Quiet', ~StartIngest, AllCompleteSoFar,
           discoveries # <<>>, discoveries' = Tail(discoveries),
           NEW p \in Path, p = Current.place[2]
    PROVE  Settled(p)'
<1>1. /\ QuietStep /\ Quiet /\ UNCHANGED file /\ IngestInv /\ RunsAsPlanned
      /\ discoveries \in Seq(Discovery)
  BY QuietSteps DEF ShelfInv, IngestInv, IngestionTypeOK
<1>2. /\ Current = discoveries[1] /\ 1 \in 1 .. Len(discoveries)
      /\ Len(Tail(discoveries)) # Len(discoveries)
      /\ \A x \in Discovery : Len(Append(discoveries, x)) # Len(Tail(discoveries))
  <2>1. Len(discoveries) \in Nat /\ Len(Tail(discoveries)) = Len(discoveries) - 1
        /\ \A x \in Discovery : Len(Append(discoveries, x)) = Len(discoveries) + 1
    BY <1>1, TailParts, AppendParts
  <2>2. Current = discoveries[1] /\ 1 \in 1 .. Len(discoveries)
    BY <1>1, TailParts DEF Current
  <2>3. \A n \in Nat : n - 1 # n /\ n + 1 # n - 1
    OBVIOUS
  <2> QED
    BY <2>1, <2>2, <2>3
<1>3. PICK place \in Place : place = Current.place
  BY <1>1, DiscoveryParts DEF IngestInv
<1>4. place = <<place[1], p>> /\ place[1] \in RootId /\ place[2] = p
  BY <1>3, PlaceParts
<1>5. OnDisk(p) /\ Current.identity = file[p]
  BY <1>1, <1>2, <1>3 DEF ShelfInv, QuietInv, DiskIsKnown, IsOnDisk
<1>6. CASE SkipDiscovery
  <2>1. phase = "ingesting" /\ ~Ingestible(Current)
    BY <1>6 DEF SkipDiscovery, AtDiscovery
  <2>2. rootQueue = <<>> /\ Len(<<>>) = 0
    BY <2>1, EmptySeq DEF ShelfInv, RootsInOrder
  <2>3. outcome[place[1]] = "complete"
    BY <1>1, <1>4, <2>2 DEF RunsAsPlanned, AllCompleteSoFar
  <2>4. place \in Candidates
    BY <1>1, <1>3, <2>1, <2>3 DEF Ingestible, ShelfInv, QuietInv
  <2>5. Settled(p)
    BY <1>4, <2>4 DEF Settled, Candidates
  <2> QED
    BY <1>5, <2>5, SettledStays
<1>7. ASSUME NEW id \in ProposalId, Propose(id) PROVE Settled(p)'
  <2>1. id \in Pending' /\ proposal'[id].to = place
    BY <1>1, <1>3, <1>7, ProposeEffect
    DEF Propose, ProposeReconciliation, Pending, IngestInv, StoreInv, TypeOK
  <2> QED
    BY <1>4, <2>1 DEF Settled
<1>8. CASE Identify
  <2>1. identity'[place] = file[p] /\ UNCHANGED owner
    BY <1>1, <1>3, <1>5, <1>8, IdentifyCallsTheStore
    DEF SetLocationFilesystemIdentity, IngestInv, StoreInv, TypeOK
  <2>2. owner[place] = work.document /\ work.document \in DocId
    BY <1>1, <1>3, <1>8, IdentifyCallsTheStore DEF SetLocationFilesystemIdentity
  <2>3. place \in Linked'
    BY <2>1, <2>2, IndexAssumption DEF Linked
  <2>4. <<place[1], p>> \in Linked' /\ identity'[<<place[1], p>>] = file'[p]
    BY <1>1, <1>4, <2>1, <2>3
  <2> QED
    BY <1>4, <2>4 DEF Settled
<1>9. ASSUME NEW d \in DocId PROVE ~Create(d)
  BY <1>2, <1>5 DEF Create, OnDisk
<1>10. ~PublishOne \/ ~Publish(Head(batch), file[Head(batch)])
  <2>1. SUFFICES ASSUME PublishOne, Publish(Head(batch), file[Head(batch)]) PROVE FALSE
    OBVIOUS
  <2>2. CurrentRoot \in RootId /\ Head(batch) \in Path
        /\ file[Head(batch)] \in FsId \union {NoFsId}
    BY <1>1, <2>1, RootParts, BatchParts DEF PublishOne, InRoot, IngestInv, IngestionTypeOK
  <2>3. <<CurrentRoot, Head(batch)>> \in Place
        /\ owner[<<CurrentRoot, Head(batch)>>] \in DocId \union {NoDoc}
    BY <1>1, <2>2 DEF Place, IngestInv, IngestionTypeOK, TypeOK
  <2>4. Found(<<CurrentRoot, Head(batch)>>, file[Head(batch)]) \in Discovery
    BY <2>2, <2>3 DEF Found, Discovery
  <2>5. discoveries' = discoveries
        \/ discoveries' = Append(discoveries, Found(<<CurrentRoot, Head(batch)>>, file[Head(batch)]))
    BY <2>1 DEF Publish
  <2> QED
    BY <1>2, <2>4, <2>5
<1>11. ~(BeginRoot \/ FinishRoot \/ (\E q \in Path : List(q) \/ Skip(q))
         \/ ReadPendingCandidates \/ MatchDiscovery \/ UNCHANGED vars)
  BY <1>2
  DEF BeginRoot, FinishRoot, List, Skip, ReadPendingCandidates, MatchDiscovery, vars, ingestVars
<1> QED
  BY <1>1, <1>3, <1>6, <1>7, <1>8, <1>9, <1>10, <1>11 DEF QuietStep

-----------------------------------------------------------------------------
(* The scan of a root.                                                     *)

LEMMA PassedSteps ==
    ASSUME ShelfInv, [Next]_vars, Quiet', ~StartIngest,
           NEW r \in RootId, NEW p \in Path, p \in PathsOf[r], OnDisk(p), Passed(r, p)'
    PROVE  \/ Passed(r, p)
           \/ /\ r = CurrentRoot /\ InRoot /\ batch # <<>> /\ p = Head(batch)
              /\ PublishOne /\ Publish(p, file[p])
<1>1. QuietStep /\ IngestInv /\ RootsInOrder
  BY QuietSteps DEF ShelfInv
<1>2. CASE outcome'[r] = "complete"
  <2>1. CASE FinishRoot
    <3>1. /\ InRoot /\ batch = <<>> /\ unvisited = {}
          /\ outcome' = [outcome EXCEPT ![CurrentRoot] = listing]
      BY <2>1 DEF FinishRoot
    <3>2. ~Listed(p)
      BY <3>1, EmptySeq DEF Listed
    <3> QED
      BY <1>1, <1>2, <3>1, <3>2 DEF Passed, IngestInv, IngestionTypeOK
  <2>2. CASE UNCHANGED outcome
    BY <1>2, <2>2 DEF Passed
  <2> QED
    BY <1>1, <2>1, <2>2
    DEF QuietStep, BeginRoot, PublishOne, List, Skip, ReadPendingCandidates, SkipDiscovery,
        MatchDiscovery, Propose, Create, Identify, vars, scanVars
<1>3. CASE /\ InRoot' /\ r = CurrentRoot' /\ listing' = "complete"
           /\ p \notin unvisited' /\ ~Listed(p)'
  <2>1. r = CurrentRoot
    BY <1>1, <1>3, InsideRoot
  <2>2. ~BeginRoot
    BY <1>3, <2>1 DEF BeginRoot
  <2>3. CASE InRoot /\ UNCHANGED <<unvisited, batch, listing>>
    BY <1>3, <2>1, <2>3 DEF Passed, Listed
  <2>4. CASE InRoot /\ PublishOne
    <3>1. batch # <<>> /\ batch' = Tail(batch) /\ UNCHANGED <<unvisited, listing>>
      BY <2>4 DEF PublishOne
    <3>2. CASE p # Head(batch)
      BY <1>1, <1>3, <2>1, <2>4, <3>1, <3>2, ListedHead DEF Passed
    <3>3. CASE p = Head(batch)
      <4>1. Publish(p, file[p])
        <5>1. CASE UNCHANGED unvisited /\ ~Publish(Head(batch), file[Head(batch)])
          <6>1. Publish(Head(batch), NoFsId) /\ undisturbed' = FALSE
            BY <2>4, <5>1 DEF PublishOne
          <6> QED
            BY <6>1 DEF Quiet
        <5> QED
          BY <3>1, <3>3, <5>1
      <4> QED
        BY <2>1, <2>4, <3>1, <3>3, <4>1
    <3> QED
      BY <3>2, <3>3
  <2>5. ASSUME NEW q \in Path, InRoot, List(q) PROVE Passed(r, p)
    <3>1. /\ unvisited' = unvisited \ {q} /\ UNCHANGED listing
          /\ batch' = IF OnDisk(q) THEN Append(batch, q) ELSE batch
          /\ batch \in Seq(Path)
      BY <1>1, <2>5 DEF List, IngestInv, IngestionTypeOK
    <3>2. Len(Append(batch, q)) = Len(batch) + 1 /\ Len(batch) \in Nat
          /\ (\A i \in 1 .. Len(batch) : Append(batch, q)[i] = batch[i])
          /\ Append(batch, q)[Len(batch) + 1] = q
      BY <3>1, AppendParts
    <3>3. ~Listed(p)
      BY <1>3, <3>1, <3>2 DEF Listed
    <3>4. p # q
      <4>1. SUFFICES ASSUME p = q PROVE FALSE
        OBVIOUS
      <4>2. batch' = Append(batch, p)
        BY <3>1, <4>1
      <4>3. Len(batch) + 1 \in 1 .. Len(batch') /\ batch'[Len(batch) + 1] = p
        BY <3>2, <4>1, <4>2
      <4> QED
        BY <1>3, <4>3 DEF Listed
    <3> QED
      BY <1>3, <2>1, <2>5, <3>1, <3>3, <3>4 DEF Passed
  <2>6. \A q \in Path : ~Skip(q)
    BY <1>3 DEF Skip
  <2> QED
    BY <1>1, <1>3, <2>2, <2>3, <2>4, <2>5, <2>6, InsideRoot
<1> QED
  BY <1>2, <1>3 DEF Passed

(* What publishing a path does, once its file was on the disk.             *)
LEMMA PublishEffect ==
    ASSUME ShelfInv, InRoot, batch # <<>>, PublishOne,
           NEW p \in Path, p = Head(batch), Publish(p, file[p]), OnDisk(p),
           NEW pl \in Place, pl = <<CurrentRoot, p>>
    PROVE  /\ UNCHANGED <<owner, file, scanGeneration>>
           /\ \A other \in Place \ {pl} :
                 lastSeen'[other] = lastSeen[other] /\ identity'[other] = identity[other]
           /\ \/ /\ pl \in Linked /\ identity'[pl] = file[p]
                 /\ lastSeen'[pl] = scanGeneration[CurrentRoot]
                 /\ UNCHANGED <<discoveries, published>>
              \/ /\ UNCHANGED <<lastSeen, identity>>
                 /\ pl \notin Linked \/ identity[pl] # file[p]
                 /\ \/ p \in published /\ UNCHANGED <<discoveries, published>>
                    \/ /\ discoveries' = Append(discoveries, Found(pl, file[p]))
                       /\ published' = published \union {p}
                       /\ Found(pl, file[p]) \in Discovery
<1>1. /\ lastSeen \in [Place -> Generation] /\ identity \in [Place -> FsId \union {NoFsId}]
      /\ owner \in [Place -> DocId \union {NoDoc}]
      /\ file[p] \in FsId
  BY DEF ShelfInv, IngestInv, IngestionTypeOK, StoreInv, TypeOK, OnDisk
<1>2. UNCHANGED <<owner, file, scanGeneration>>
  BY DEF Publish, ObserveLocation, PublishOne, diskVars
<1>3. CASE IsKnown(pl, file[p])
  <2>1. pl \in Linked /\ (identity[pl] = file[p] \/ identity[pl] = NoFsId)
    BY <1>1, <1>3, IndexAssumption DEF IsKnown, Observation, Linked
  <2>2. /\ lastSeen' = [lastSeen EXCEPT ![pl] = scanGeneration[CurrentRoot]]
        /\ identity' = [identity EXCEPT ![pl] = IF @ = NoFsId THEN file[p] ELSE @]
        /\ UNCHANGED <<discoveries, published>>
    BY <1>3 DEF Publish, ObserveLocation, IsKnown
  <2>3. identity'[pl] = file[p]
    BY <1>1, <2>1, <2>2
  <2> QED
    BY <1>1, <1>2, <2>1, <2>2, <2>3
<1>4. CASE ~IsKnown(pl, file[p])
  <2>1. pl \notin Linked \/ identity[pl] # file[p]
    BY <1>1, <1>4 DEF IsKnown, Observation, Linked
  <2>2. UNCHANGED <<lastSeen, identity>>
    BY <1>4 DEF Publish, ObserveLocation, IsKnown
  <2>3. Found(pl, file[p]) \in Discovery
    BY <1>1 DEF Found, Discovery
  <2>4. \/ p \in published /\ UNCHANGED <<discoveries, published>>
        \/ /\ discoveries' = Append(discoveries, Found(pl, file[p]))
           /\ published' = published \union {p}
    BY <1>4 DEF Publish
  <2> QED
    BY <1>2, <2>1, <2>2, <2>3, <2>4
<1> QED
  BY <1>3, <1>4

LEMMA PublishedPlace ==
    ASSUME ShelfInv, InRoot, batch # <<>>
    PROVE  /\ CurrentRoot \in RootId /\ Head(batch) \in Path
           /\ <<CurrentRoot, Head(batch)>> \in Place
           /\ Quiet => OnDisk(Head(batch))
<1>1. CurrentRoot \in RootId /\ Head(batch) \in Path
  BY RootParts, BatchParts DEF InRoot, ShelfInv, IngestInv
<1>2. Head(batch) = batch[1] /\ 1 \in 1 .. Len(batch)
  BY TailParts DEF ShelfInv, IngestInv, IngestionTypeOK
<1> QED
  BY <1>1, <1>2 DEF Place, ShelfInv, QuietInv, DiskIsKnown

LEMMA SeenStays ==
    ASSUME ShelfInv, [Next]_vars, Quiet', ~StartIngest,
           NEW r \in RootId, NEW p \in Path, OnDisk(p), Passed(r, p), Seen(r, p)
    PROVE  Seen(r, p)'
<1> DEFINE pl == <<r, p>>
<1>1. /\ QuietStep /\ Quiet /\ UNCHANGED file /\ IngestInv
      /\ pl \in Place /\ file[p] # NoFsId
  BY QuietSteps DEF ShelfInv, Place, OnDisk
<1>2. SUFFICES ASSUME pl \in Linked', identity'[pl] = file[p]
               PROVE  \/ lastSeen'[pl] = scanGeneration'[r]
                      \/ phase' = "ingesting" /\ ~Discovered(p)'
  BY <1>1 DEF Seen
<1> HIDE DEF pl
<1>3. scanGeneration'[r] = scanGeneration[r]
  <2>1. CASE BeginRoot
    <3>1. /\ scanGeneration' = [scanGeneration EXCEPT ![CurrentRoot] = generation'[CurrentRoot]]
          /\ scanGeneration[CurrentRoot] = 0 /\ ~InRoot
      BY <2>1 DEF BeginRoot, AtRootStart, InRoot
    <3>2. r # CurrentRoot
      BY <3>1 DEF Passed, ShelfInv, RootsInOrder
    <3> QED
      BY <1>1, <3>1, <3>2 DEF IngestInv, IngestionTypeOK
  <2> QED
    BY <1>1, <2>1
    DEF QuietStep, FinishRoot, PublishOne, List, Skip, ReadPendingCandidates, SkipDiscovery,
        MatchDiscovery, Propose, Create, Identify, vars, scanVars
<1>4. CASE \/ BeginRoot \/ FinishRoot \/ (\E q \in Path : List(q) \/ Skip(q))
           \/ ReadPendingCandidates \/ SkipDiscovery \/ MatchDiscovery
           \/ (\E id \in ProposalId : Propose(id)) \/ UNCHANGED vars
  <2>1. UNCHANGED <<owner, identity, lastSeen>>
    BY <1>4
    DEF BeginRoot, BeginRootScan, FinishRoot, FinishRootScan, List, Skip, ReadPendingCandidates,
        SkipDiscovery, MatchDiscovery, Propose, ProposeReconciliation, vars, indexVars, locationVars
  <2>2. \/ lastSeen[pl] = scanGeneration[r]
        \/ phase = "ingesting" /\ ~Discovered(p)
    BY <1>2, <2>1 DEF Seen, pl, Linked
  <2>3. CASE phase = "ingesting" /\ ~Discovered(p)
    <3>1. phase' = "ingesting"
      BY <1>4, <2>3
      DEF BeginRoot, AtRootStart, FinishRoot, InRoot, List, Skip, ReadPendingCandidates,
          SkipDiscovery, MatchDiscovery, Propose, vars
    <3>2. CASE UNCHANGED discoveries
      BY <2>3, <3>1, <3>2 DEF Discovered, PathOf
    <3>3. CASE discoveries # <<>> /\ discoveries' = Tail(discoveries)
      BY <2>3, <3>1, <3>3, <1>1, DiscoveredHead DEF ShelfInv
    <3>4. discoveries' = discoveries \/ (discoveries # <<>> /\ discoveries' = Tail(discoveries))
      <4>1. \A step : AtStep(step) => discoveries # <<>>
        BY <1>1, WorkParts DEF IngestInv
      <4> QED
        BY <1>4, <2>3, <4>1
        DEF BeginRoot, AtRootStart, FinishRoot, InRoot, List, Skip, ReadPendingCandidates,
            SkipDiscovery, AtDiscovery, NextDiscovery, MatchDiscovery, Propose, vars, ingestVars
    <3> QED
      BY <3>2, <3>3, <3>4
  <2> QED
    BY <1>3, <2>1, <2>2, <2>3
<1>5. CASE PublishOne /\ Publish(Head(batch), file[Head(batch)])
  <2>1. InRoot /\ batch # <<>>
    BY <1>5 DEF PublishOne
  <2>2. PICK h \in Path, at \in Place :
           h = Head(batch) /\ at = <<CurrentRoot, h>> /\ OnDisk(h)
    BY <1>1, <2>1, PublishedPlace
  <2>3. /\ UNCHANGED owner
        /\ \A other \in Place \ {at} :
              lastSeen'[other] = lastSeen[other] /\ identity'[other] = identity[other]
        /\ \/ lastSeen'[at] = scanGeneration[CurrentRoot]
           \/ UNCHANGED <<lastSeen, identity>>
    BY <1>5, <2>1, <2>2, PublishEffect
  <2>4. phase = "scanning"
    BY <2>1 DEF InRoot
  <2>5. CASE pl # at \/ UNCHANGED <<lastSeen, identity>>
    <3>1. lastSeen'[pl] = lastSeen[pl] /\ identity'[pl] = identity[pl] /\ pl \in Linked
      BY <1>1, <1>2, <2>3, <2>5 DEF Linked
    <3>2. lastSeen[pl] = scanGeneration[r]
      BY <1>2, <2>4, <3>1 DEF Seen, pl
    <3> QED
      BY <1>3, <3>1, <3>2
  <2>6. CASE pl = at /\ lastSeen'[at] = scanGeneration[CurrentRoot]
    <3>1. r = CurrentRoot
      BY <2>2, <2>6 DEF pl
    <3> QED
      BY <1>3, <2>6, <3>1
  <2> QED
    BY <2>3, <2>5, <2>6
<1>6. ASSUME NEW d \in DocId, Create(d)
      PROVE  \/ lastSeen'[pl] = scanGeneration'[r]
             \/ phase' = "ingesting" /\ ~Discovered(p)'
  <2>1. PICK at \in Place : at = Current.place
    BY <1>1, <1>6, WorkParts, DiscoveryParts DEF Create, IngestInv
  <2>2. /\ identity[at] = NoFsId /\ at \notin Linked
        /\ UNCHANGED <<identity, lastSeen>>
        /\ \A other \in Place \ {at} : owner'[other] = owner[other]
    BY <1>1, <1>6, <2>1, CreateEffect, UpsertEffect DEF UpsertRecord, IngestInv, StoreInv
  <2>3. pl # at
    BY <1>1, <1>2, <2>2
  <2>4. pl \in Linked
    BY <1>1, <1>2, <2>2, <2>3 DEF Linked
  <2>5. \/ lastSeen[pl] = scanGeneration[r]
        \/ ~Discovered(p)
    BY <1>2, <2>2, <2>4 DEF Seen, pl
  <2>6. phase' = "ingesting" /\ discoveries # <<>>
        /\ (UNCHANGED discoveries \/ discoveries' = Tail(discoveries))
    BY <1>1, <1>6, WorkParts DEF Create, AtStep, NextDiscovery, IngestInv
  <2>7. ~Discovered(p) => ~Discovered(p)'
    <3>1. CASE UNCHANGED discoveries
      BY <3>1 DEF Discovered, PathOf
    <3>2. CASE discoveries' = Tail(discoveries)
      BY <1>1, <2>6, <3>2, DiscoveredHead DEF ShelfInv
    <3> QED
      BY <2>6, <3>1, <3>2
  <2> QED
    BY <1>3, <2>2, <2>5, <2>6, <2>7
<1>7. CASE Identify
  <2>1. PICK at \in Place : at = Current.place
    BY <1>1, <1>7, IdentifyCallsTheStore
  <2>2. /\ identity' = [identity EXCEPT ![at] = Current.identity]
        /\ UNCHANGED <<owner, lastSeen>>
        /\ phase' = "ingesting" /\ discoveries # <<>> /\ discoveries' = Tail(discoveries)
    BY <1>1, <1>7, <2>1, WorkParts
    DEF Identify, SetLocationFilesystemIdentity, AtStep, NextDiscovery, IngestInv
  <2>3. \A q : Discovered(q)' <=> Discovered(q) /\ q # Current.place[2]
    BY <1>1, <2>2, DiscoveredHead DEF ShelfInv
  <2>4. CASE pl = at
    <3>1. p = Current.place[2]
      BY <2>1, <2>4 DEF pl
    <3> QED
      BY <2>2, <2>3, <3>1
  <2>5. CASE pl # at
    <3>1. identity'[pl] = identity[pl] /\ pl \in Linked
      BY <1>1, <1>2, <2>2, <2>5 DEF Linked, IngestInv, StoreInv, TypeOK
    <3>2. lastSeen[pl] = scanGeneration[r] \/ ~Discovered(p)
      BY <1>2, <3>1 DEF Seen, pl
    <3> QED
      BY <1>3, <2>2, <2>3, <3>2
  <2> QED
    BY <2>4, <2>5
<1> QED
  BY <1>1, <1>4, <1>5, <1>6, <1>7 DEF QuietStep

(* A path that is being published is seen, and known or handed on.         *)
LEMMA PublishSees ==
    ASSUME ShelfInv, [Next]_vars, Quiet', ~StartIngest,
           InRoot, batch # <<>>, PublishOne,
           NEW p \in Path, p = Head(batch), Publish(p, file[p])
    PROVE  /\ Seen(CurrentRoot, p)'
           /\ (\A q \in published : Accounted(q)) => Accounted(p)'
<1>1. Quiet /\ UNCHANGED file /\ OnDisk(p) /\ CurrentRoot \in RootId
  BY QuietSteps, PublishedPlace
<1>2. PICK pl \in Place : pl = <<CurrentRoot, p>>
  BY PublishedPlace
<1>3. /\ UNCHANGED <<owner, file, scanGeneration>>
      /\ \/ /\ pl \in Linked /\ identity'[pl] = file[p]
            /\ lastSeen'[pl] = scanGeneration[CurrentRoot]
         \/ /\ UNCHANGED <<lastSeen, identity>>
            /\ pl \notin Linked \/ identity[pl] # file[p]
            /\ \/ p \in published /\ UNCHANGED <<discoveries, published>>
               \/ /\ discoveries' = Append(discoveries, Found(pl, file[p]))
                  /\ Found(pl, file[p]) \in Discovery
  BY <1>1, <1>2, PublishEffect
<1>4. PICK root \in RootId : root = CurrentRoot /\ root = CurrentRoot'
  BY <1>1 DEF PublishOne, CurrentRoot
<1>5. Seen(root, p)'
  BY <1>2, <1>3, <1>4 DEF Seen, Linked
<1>6. ASSUME \A q \in published : Accounted(q) PROVE Accounted(p)'
  <2>1. CASE pl \in Linked /\ identity'[pl] = file[p]
    <3>1. <<root, p>> \in Linked' /\ identity'[<<root, p>>] = file'[p]
      BY <1>2, <1>3, <1>4, <2>1 DEF Linked
    <3> QED
      BY <3>1 DEF Accounted, Settled
  <2>2. CASE p \in published /\ UNCHANGED <<discoveries, published>>
    <3>1. discoveries # <<>> => discoveries' # Tail(discoveries)
      <4>1. SUFFICES ASSUME discoveries # <<>>, discoveries' = Tail(discoveries) PROVE FALSE
        OBVIOUS
      <4>2. Len(Tail(discoveries)) = Len(discoveries) - 1 /\ Len(discoveries) \in Nat
        BY <4>1, TailParts DEF ShelfInv, IngestInv, IngestionTypeOK
      <4> QED
        BY <2>2, <4>1, <4>2
    <3> QED
      BY <1>1, <1>6, <2>2, <3>1, AccountedStays
  <2>3. CASE discoveries' = Append(discoveries, Found(pl, file[p]))
             /\ Found(pl, file[p]) \in Discovery
    <3>1. Found(pl, file[p]).place[2] = p
      BY <1>2 DEF Found
    <3>2. discoveries \in Seq(Discovery)
      BY DEF ShelfInv, IngestInv, IngestionTypeOK
    <3>3. Len(discoveries) + 1 \in 1 .. Len(discoveries')
          /\ discoveries'[Len(discoveries) + 1] = Found(pl, file[p])
      BY <2>3, <3>2, AppendParts
    <3> QED
      BY <3>1, <3>3 DEF Accounted, Discovered, PathOf
  <2> QED
    BY <1>3, <2>1, <2>2, <2>3
<1> QED
  BY <1>4, <1>5, <1>6

LEMMA PlacesSeenKept ==
    ASSUME ShelfInv, [Next]_vars, Quiet', ~StartIngest
    PROVE  PlacesAreSeen'
<1>1. UNCHANGED file /\ PlacesAreSeen
  BY QuietSteps
<1>2. SUFFICES ASSUME NEW r \in RootId, NEW p \in PathsOf[r], OnDisk(p), Passed(r, p)'
               PROVE  Seen(r, p)'
  BY <1>1 DEF PlacesAreSeen, OnDisk
<1>3. p \in Path
  BY IngestionAssumption
<1>4. CASE Passed(r, p)
  BY <1>1, <1>2, <1>3, <1>4, SeenStays DEF PlacesAreSeen
<1>5. CASE /\ r = CurrentRoot /\ InRoot /\ batch # <<>> /\ p = Head(batch)
           /\ PublishOne /\ Publish(p, file[p])
  <2>1. CurrentRoot' = CurrentRoot
    BY <1>5 DEF PublishOne, CurrentRoot
  <2>2. Seen(CurrentRoot, p)'
    BY <1>3, <1>5, PublishSees
  <2> QED
    BY <1>5, <2>1, <2>2 DEF Seen
<1> QED
  BY <1>2, <1>3, <1>4, <1>5, PassedSteps

LEMMA AllAccountedKept ==
    ASSUME ShelfInv, [Next]_vars, Quiet', ~StartIngest, AllCompleteSoFar'
    PROVE  AllIsAccounted'
<1>1. /\ UNCHANGED file /\ QuietStep /\ IngestInv /\ RootsInOrder /\ DiskIsKnown /\ Quiet
      /\ AllCompleteSoFar => AllIsAccounted
  BY QuietSteps DEF ShelfInv
<1>2. AllCompleteSoFar
  <2>1. CASE UNCHANGED outcome
    BY <2>1 DEF AllCompleteSoFar
  <2>2. CASE FinishRoot
    <3>1. /\ outcome' = [outcome EXCEPT ![CurrentRoot] = listing]
          /\ rootQueue # <<>> /\ rootQueue \in Seq(RootId)
      BY <1>1, <2>2 DEF FinishRoot, InRoot, IngestInv, IngestionTypeOK
    <3>2. CurrentRoot = rootQueue[1] /\ 1 \in 1 .. Len(rootQueue)
      BY <3>1, TailParts DEF CurrentRoot
    <3>3. outcome[CurrentRoot] = "none"
      BY <1>1, <3>2 DEF RootsInOrder
    <3> QED
      BY <1>1, <3>1, <3>3 DEF AllCompleteSoFar, IngestInv, IngestionTypeOK
  <2> QED
    BY <1>1, <2>1, <2>2
    DEF QuietStep, BeginRoot, PublishOne, List, Skip, ReadPendingCandidates, SkipDiscovery,
        MatchDiscovery, Propose, Create, Identify, vars, scanVars
<1>3. AllIsAccounted
  BY <1>1, <1>2
<1>4. ASSUME NEW p \in Path, OnDisk(p), Accounted(p) PROVE Accounted(p)'
  <2>1. ASSUME discoveries # <<>> /\ discoveries' = Tail(discoveries) /\ p = Current.place[2]
        PROVE  Settled(p)'
    BY <1>2, <2>1, HandledIsSettled
  <2> QED
    BY <1>4, <2>1, AccountedStays
<1>5. ASSUME NEW r \in RootId, NEW p \in PathsOf[r], OnDisk(p), Passed(r, p)'
      PROVE  Accounted(p)'
  <2>1. p \in Path
    BY IngestionAssumption
  <2>2. CASE Passed(r, p)
    BY <1>3, <1>4, <1>5, <2>1, <2>2 DEF AllIsAccounted
  <2>3. CASE /\ r = CurrentRoot /\ InRoot /\ batch # <<>> /\ p = Head(batch)
             /\ PublishOne /\ Publish(p, file[p])
    BY <1>3, <2>1, <2>3, PublishSees DEF AllIsAccounted
  <2> QED
    BY <1>5, <2>1, <2>2, <2>3, PassedSteps
<1>6. ASSUME NEW p \in published' PROVE Accounted(p)'
  <2>1. CASE p \in published
    <3>1. p \in Path /\ OnDisk(p)
      BY <2>1, <1>1 DEF IngestInv, IngestionTypeOK, DiskIsKnown
    <3> QED
      BY <1>3, <1>4, <2>1, <3>1 DEF AllIsAccounted
  <2>2. CASE p \notin published
    <3>1. PublishOne /\ Publish(Head(batch), file[Head(batch)])
      BY <1>1, <1>6, <2>2
      DEF QuietStep, BeginRoot, FinishRoot, List, Skip, ReadPendingCandidates, SkipDiscovery,
          MatchDiscovery, Propose, Create, Identify, vars, scanVars
    <3>2. p = Head(batch) /\ InRoot /\ batch # <<>>
      BY <1>6, <2>2, <3>1 DEF Publish, PublishOne
    <3>3. p \in Path
      BY <1>1, <3>2, PublishedPlace
    <3> QED
      BY <1>3, <3>1, <3>2, <3>3, PublishSees DEF AllIsAccounted
  <2> QED
    BY <2>1, <2>2
<1> QED
  BY <1>1, <1>5, <1>6 DEF AllIsAccounted, OnDisk

LEMMA PlannedKept ==
    ASSUME ShelfInv, [Next]_vars, Quiet', ~StartIngest
    PROVE  RunsAsPlanned'
<1>1. QuietStep /\ RunsAsPlanned /\ IngestInv
  BY QuietSteps DEF ShelfInv
<1>2. UNCHANGED cancelled
  BY <1>1
  DEF QuietStep, BeginRoot, FinishRoot, PublishOne, List, Skip, ReadPendingCandidates,
      SkipDiscovery, MatchDiscovery, Propose, Create, Identify, vars, scanVars
<1>3. CASE UNCHANGED <<outcome, rootQueue>>
  BY <1>1, <1>2, <1>3 DEF RunsAsPlanned
<1>4. CASE FinishRoot
  <2>1. /\ outcome' = [outcome EXCEPT ![CurrentRoot] = listing]
        /\ rootQueue # <<>> /\ rootQueue \in Seq(RootId) /\ rootQueue' = Tail(rootQueue)
        /\ outcome \in [RootId -> Outcome \union {"none"}]
        /\ listing \in {"complete", "partial", "unavailable"}
    BY <1>1, <1>4 DEF FinishRoot, InRoot, IngestInv, IngestionTypeOK
  <2>2. CurrentRoot = rootQueue[1]
        /\ \A i \in 2 .. Len(rootQueue) :
              i - 1 \in 1 .. Len(rootQueue') /\ rootQueue'[i - 1] = rootQueue[i]
    BY <2>1, TailParts DEF CurrentRoot
  <2>3. ASSUME NEW r \in RootId
        PROVE  /\ outcome'[r] # "cancelled"
               /\ outcome'[r] = "none" => \E i \in 1 .. Len(rootQueue') : rootQueue'[i] = r
    <3>1. outcome'[r] # "cancelled"
      BY <1>1, <2>1 DEF RunsAsPlanned
    <3>2. ASSUME outcome'[r] = "none"
          PROVE  \E i \in 1 .. Len(rootQueue') : rootQueue'[i] = r
      <4>1. r # CurrentRoot /\ outcome[r] = "none"
        BY <2>1, <3>2
      <4>2. PICK i \in 1 .. Len(rootQueue) : rootQueue[i] = r
        BY <1>1, <4>1 DEF RunsAsPlanned
      <4>3. i \in 2 .. Len(rootQueue)
        <5>1. i # 1
          BY <2>2, <4>1, <4>2
        <5> QED
          BY <5>1
      <4> QED
        BY <2>2, <4>2, <4>3
    <3> QED
      BY <3>1, <3>2
  <2> QED
    BY <1>1, <1>2, <2>3 DEF RunsAsPlanned
<1> QED
  BY <1>1, <1>3, <1>4
  DEF QuietStep, BeginRoot, PublishOne, List, Skip, ReadPendingCandidates, SkipDiscovery,
      MatchDiscovery, Propose, Create, Identify, vars, scanVars

LEMMA DiskKnownKept ==
    ASSUME ShelfInv, [Next]_vars, Quiet', ~StartIngest
    PROVE  DiskIsKnown'
<1>1. QuietStep /\ DiskIsKnown /\ IngestInv /\ Quiet /\ UNCHANGED file
  BY QuietSteps DEF ShelfInv
<1>2. batch \in Seq(Path) /\ discoveries \in Seq(Discovery)
  BY <1>1 DEF IngestInv, IngestionTypeOK
<1>3. \A i \in 1 .. Len(batch') : OnDisk(batch'[i])
  <2>1. CASE UNCHANGED batch
    BY <1>1, <2>1 DEF DiskIsKnown
  <2>2. CASE PublishOne
    <3>1. batch # <<>> /\ batch' = Tail(batch)
      BY <2>2 DEF PublishOne
    <3>2. \A i \in 1 .. Len(Tail(batch)) :
             i + 1 \in 1 .. Len(batch) /\ Tail(batch)[i] = batch[i + 1]
      BY <1>2, <3>1, TailParts
    <3> QED
      BY <1>1, <3>1, <3>2 DEF DiskIsKnown
  <2>3. ASSUME NEW q \in Path, List(q) PROVE \A i \in 1 .. Len(batch') : OnDisk(batch'[i])
    <3>1. batch' = batch \/ (batch' = Append(batch, q) /\ OnDisk(q))
      BY <2>3 DEF List
    <3>2. ASSUME batch' = Append(batch, q)
          PROVE  \A i \in 1 .. Len(batch') :
                    (i \in 1 .. Len(batch) /\ batch'[i] = batch[i]) \/ batch'[i] = q
      BY <1>2, <3>2, AppendParts
    <3> QED
      BY <1>1, <3>1, <3>2 DEF DiskIsKnown
  <2> QED
    BY <1>1, <2>1, <2>2, <2>3
    DEF QuietStep, BeginRoot, FinishRoot, Skip, ReadPendingCandidates, SkipDiscovery,
        MatchDiscovery, Propose, Create, Identify, vars, scanVars
<1>4. /\ \A p \in published' : OnDisk(p)
      /\ \A i \in 1 .. Len(discoveries') : IsOnDisk(discoveries'[i])
  <2>1. CASE UNCHANGED <<discoveries, published>>
    BY <1>1, <2>1 DEF DiskIsKnown
  <2>2. CASE PublishOne /\ Publish(Head(batch), file[Head(batch)])
    <3>1. InRoot /\ batch # <<>>
      BY <2>2 DEF PublishOne
    <3>2. PICK h \in Path, at \in Place :
             h = Head(batch) /\ at = <<CurrentRoot, h>> /\ OnDisk(h)
      BY <1>1, <3>1, PublishedPlace
    <3>3. \/ UNCHANGED <<discoveries, published>>
          \/ /\ discoveries' = Append(discoveries, Found(at, file[h]))
             /\ published' = published \union {h}
             /\ Found(at, file[h]) \in Discovery
      BY <2>2, <3>1, <3>2, PublishEffect
    <3>4. IsOnDisk(Found(at, file[h]))
      BY <3>2 DEF IsOnDisk, Found
    <3>5. CASE /\ discoveries' = Append(discoveries, Found(at, file[h]))
               /\ published' = published \union {h}
               /\ Found(at, file[h]) \in Discovery
      <4>1. \A i \in 1 .. Len(discoveries') :
               \/ i \in 1 .. Len(discoveries) /\ discoveries'[i] = discoveries[i]
               \/ discoveries'[i] = Found(at, file[h])
        BY <1>2, <3>5, AppendParts
      <4> QED
        BY <1>1, <3>2, <3>4, <3>5, <4>1 DEF DiskIsKnown
    <3> QED
      BY <2>1, <3>3, <3>5
  <2>3. CASE discoveries # <<>> /\ discoveries' = Tail(discoveries) /\ UNCHANGED published
    <3>1. \A i \in 1 .. Len(Tail(discoveries)) :
             i + 1 \in 1 .. Len(discoveries) /\ Tail(discoveries)[i] = discoveries[i + 1]
      BY <1>2, <2>3, TailParts
    <3> QED
      BY <1>1, <2>3, <3>1 DEF DiskIsKnown
  <2>4. CASE discoveries' = <<>> /\ published' = {}
    BY <2>4, EmptySeq
  <2>5. CASE ~PublishOne
    <3>1. UNCHANGED published
      BY <1>1, <2>5
      DEF QuietStep, BeginRoot, FinishRoot, List, Skip, ReadPendingCandidates, SkipDiscovery,
          MatchDiscovery, Propose, Create, Identify, vars, scanVars
    <3>2. \A x : published # published \union {x} \/ x \in published
      OBVIOUS
    <3> QED
      BY <1>1, <2>1, <2>3, <2>4, <3>1, <3>2, DiscoveryWriters
  <2>6. CASE PublishOne
    <3>1. Publish(Head(batch), file[Head(batch)])
      BY <2>6 DEF PublishOne, Quiet
    <3> QED
      BY <2>2, <2>6, <3>1
  <2> QED
    BY <2>5, <2>6
<1>5. \A q : OnDisk(q) <=> OnDisk(q)'
  BY <1>1 DEF OnDisk
<1>6. \A d : IsOnDisk(d) <=> IsOnDisk(d)'
  BY <1>1 DEF IsOnDisk, OnDisk
<1> QED
  BY <1>3, <1>4, <1>5, <1>6 DEF DiskIsKnown

LEMMA CandidatesKept ==
    ASSUME ShelfInv, [Next]_vars, Quiet', ~StartIngest, phase' = "ingesting"
    PROVE  pendingCandidates' \subseteq Candidates'
<1>1. QuietStep /\ Quiet /\ IngestInv
      /\ (phase = "ingesting" => pendingCandidates \subseteq Candidates)
  BY QuietSteps DEF ShelfInv, QuietInv
<1>2. Candidates \subseteq Candidates'
  <2>1. ASSUME NEW id \in Pending PROVE proposal[id].to \in Candidates'
    <3>1. id \in Pending' /\ proposal'[id].to = proposal[id].to
      BY QuietStore
    <3> QED
      BY <3>1 DEF Candidates
  <2> QED
    BY <2>1 DEF Candidates
<1>3. CASE ReadPendingCandidates
  BY <1>2, <1>3 DEF ReadPendingCandidates, Candidates
<1>4. ASSUME NEW id \in ProposalId, Propose(id) PROVE pendingCandidates' \subseteq Candidates'
  <2>1. id \in Pending' /\ proposal'[id].to = Current.place
    BY <1>1, <1>4, ProposeEffect
    DEF Propose, ProposeReconciliation, Pending, IngestInv, StoreInv, TypeOK
  <2>2. pendingCandidates' = pendingCandidates \union {Current.place}
        /\ phase = "ingesting"
    BY <1>4 DEF Propose, AtStep
  <2>3. Current.place \in Candidates'
    <3>1. PICK place : place = Current.place
      OBVIOUS
    <3>2. place \in Candidates'
      BY <2>1, <3>1 DEF Candidates
    <3> QED
      BY <3>1, <3>2
  <2> QED
    BY <1>1, <1>2, <2>2, <2>3
<1>5. CASE UNCHANGED <<phase, pendingCandidates>>
  BY <1>1, <1>2, <1>5
<1> QED
  BY <1>1, <1>3, <1>4, <1>5
  DEF QuietStep, BeginRoot, AtRootStart, FinishRoot, InRoot, PublishOne, List, Skip,
      SkipDiscovery, MatchDiscovery, Create, Identify, vars, ingestVars, CreateFails

LEMMA QuietInvKept ==
    ASSUME ShelfInv, [Next]_vars
    PROVE  QuietInv'
<1>1. SUFFICES ASSUME Quiet'
               PROVE  /\ RunsAsPlanned'
                      /\ DiskIsKnown'
                      /\ phase' = "ingesting" => pendingCandidates' \subseteq Candidates'
                      /\ PlacesAreSeen'
                      /\ AllCompleteSoFar' => AllIsAccounted'
  BY DEF QuietInv
<1>2. CASE StartIngest
  <2>1. /\ phase = "idle" /\ phase' = "scanning" /\ rootQueue' = RootOrder
        /\ UNCHANGED <<cancelled, outcome, batch, discoveries, published>>
    BY <1>2 DEF StartIngest, ingestVars
  <2>2. /\ ~cancelled /\ published = {} /\ discoveries = <<>> /\ batch = <<>>
        /\ Len(<<>>) = 0
        /\ \A r \in RootId : outcome[r] = "none"
    BY <2>1, EmptySeq DEF ShelfInv, RootsInOrder, InRoot
  <2>3. ~InRoot'
    BY <2>1, InsideRoot DEF ShelfInv
  <2>4. RunsAsPlanned'
    BY <2>1, <2>2, IngestionAssumption DEF RunsAsPlanned
  <2>5. DiskIsKnown'
    BY <2>1, <2>2 DEF DiskIsKnown
  <2>6. \A r \in RootId : \A p : ~Passed(r, p)'
    BY <2>1, <2>2, <2>3 DEF Passed
  <2> QED
    BY <2>1, <2>2, <2>4, <2>5, <2>6 DEF PlacesAreSeen, AllIsAccounted
<1>3. CASE ~StartIngest
  BY <1>1, <1>3, PlannedKept, DiskKnownKept, CandidatesKept, PlacesSeenKept, AllAccountedKept
<1> QED
  BY <1>2, <1>3

LEMMA ShelfInvariance == Spec => []ShelfInv
<1>1. Init => RootsInOrder /\ PathsLieBelowRoots /\ DiscoveredOnce /\ QuietInv
  <2>1. Len(<<>>) = 0
    BY EmptySeq
  <2> QED
    BY <2>1
    DEF Init, Idle, RootsInOrder, Distinct, PathsLieBelowRoots, Linked, InRoot, DiscoveredOnce,
        QuietInv, Quiet
<1>2. ShelfInv /\ [Next]_vars => ShelfInv'
  BY IngestInvStep, RootsKept, PathsKept, DiscoveredOnceKept, QuietInvKept DEF ShelfInv
<1> QED
  BY <1>1, <1>2, IngestInvInit, PTL DEF Spec, ShelfInv

(* An ingestion that nobody disturbed and that read every root to its end  *)
(* leaves every PDF on the disk indexed as the object it is, or under      *)
(* review, whatever was interrupted before (LibraryScanService::scan and   *)
(* LibraryIngestionService::ingest).                                       *)
THEOREM QuietIngestionsSettle == Spec => QuietIngestSettlesTheDisk
<1>1. ASSUME ShelfInv, [Next]_vars, EndsUndisturbed,
             \A r \in RootId : outcome[r] = "complete",
             NEW r \in RootId, NEW p \in PathsOf[r], OnDisk(p)
      PROVE  Settled(p)
  <2>1. phase = "ingesting" /\ phase' = "idle" /\ undisturbed'
    BY <1>1 DEF EndsUndisturbed
  <2>2. EndIngest
    BY <1>1, <2>1
    DEF Next, StartIngest, ScanStep, BeginRoot, AtRootStart, PublishOne, FinishRoot, CancelRoot,
        List, Skip, InRoot, IngestStep, ReadPendingCandidates, SkipDiscovery, MatchDiscovery,
        AtDiscovery, Propose, Create, CreateFails, Identify, AtStep, Disturbance, Throw, Stop,
        Cancel, Review, DiskStep, WriteFile, RemoveFile, RenameFile, LinkFile, DiskChange,
        vars, scanVars
  <2>3. undisturbed /\ Quiet
    BY <2>1, <2>2 DEF EndIngest, Quiet
  <2>4. RunsAsPlanned /\ (AllCompleteSoFar => AllIsAccounted)
    BY <1>1, <2>3 DEF ShelfInv, QuietInv
  <2>5. discoveries = <<>> /\ Len(<<>>) = 0
    BY <2>2, <2>4, EmptySeq DEF EndIngest, RunsAsPlanned
  <2>6. ~Discovered(p) /\ Passed(r, p) /\ AllCompleteSoFar
    BY <1>1, <2>5 DEF Discovered, Passed, AllCompleteSoFar
  <2> QED
    BY <1>1, <2>4, <2>6 DEF AllIsAccounted, Accounted
<1>2. ShelfInv /\ [Next]_vars =>
        (EndsUndisturbed /\ (\A r \in RootId : outcome[r] = "complete")
          => \A r \in RootId : \A p \in PathsOf[r] : OnDisk(p) => Settled(p))
  BY <1>1
<1> QED
  BY <1>2, ShelfInvariance, PTL DEF Spec, QuietIngestSettlesTheDisk

(* A move is confident only for a book that is missing from where it was   *)
(* and an object of the same identity.                                     *)
LEMMA ConfidentMoves ==
    ASSUME NEW from \in Place, NEW to \in Place, NEW f \in FsId \union {NoFsId},
           availability \in [RootId -> RootAvailability],
           Resolve(from, to, f).decision = "confidentMove"
    PROVE  /\ from # to /\ identity[from] = f /\ f # NoFsId
           /\ availability[from[1]] = "available"
           /\ completed[from[1]] > lastSeen[from]
<1> DEFINE e == EvidenceFor(from, to, f)
<1>1. Resolve(from, to, f).mayRelinkAutomatically
  BY DEF Resolve, ReconcileDocumentIdentity
<1>2. e \in Evidence
  <2>1. PreviousState(from) \in PreviousLocationState
    BY DEF PreviousState, PreviousLocationState
  <2> QED
    BY <2>1 DEF EvidenceFor, Evidence, Signal
<1>3. e.previousLocation = "missingAfterCompleteScan"
  BY <1>1, <1>2, OnlyProvenMovesRelink DEF Resolve
<1>4. PreviousState(from) = "missingAfterCompleteScan"
  BY <1>3 DEF EvidenceFor
<1>5. availability[from[1]] \in RootAvailability
  BY PlaceParts
<1>6. /\ availability[from[1]] = "available"
      /\ completed[from[1]] > lastSeen[from]
  BY <1>4, <1>5 DEF PreviousState, RootAvailability
<1> QED
  BY <1>1, <1>6, AuthorityOfResolve

(* No undisturbed ingestion proposes a move away from a path at which the  *)
(* book's file still is, except to another name of the same object: every  *)
(* scan that could count as evidence has marked the book as seen           *)
(* (SqliteLibraryIndex::proposeReconciliation, observeLocation).           *)
THEOREM SurvivorsStay == Spec => SurvivorsMoveOnlyToLinks
<1>1. ASSUME ShelfInv, [Next]_vars, NEW id \in ProposalId, ProposesMove(id),
             StillThere(proposal'[id]), proposal'[id].from[2] = proposal'[id].to[2]
      PROVE  FALSE
  <2>1. Propose(id)
    BY <1>1, ProposalWriters, ProposeEffect
    DEF ProposesMove, ShelfInv, IngestInv, StoreInv, TypeOK, ApplyReconciliation,
        DismissReconciliation, ProvenSafeMove
  <2>2. /\ ProposeReconciliation(id, work.document, work.from, Current.place,
                  scanGeneration[Current.place[1]], Current.identity)
        /\ work.document \in DocId /\ work.from \in Place /\ Current.place \in Place
    BY <1>1, <2>1, ProposeCallsTheStore DEF ShelfInv
  <2>3. PICK from \in Place, to \in Place : from = work.from /\ to = Current.place
    BY <2>2
  <2>4. /\ proposal'[id].from = from /\ proposal'[id].to = to
        /\ proposal'[id].decision = Resolve(from, to, Current.identity).decision
        /\ owner[from] = work.document
    BY <1>1, <2>2, <2>3
    DEF ProposeReconciliation, CanPropose, ShelfInv, IngestInv, StoreInv, TypeOK
  <2>5. /\ phase = "ingesting" /\ discoveries # <<>> /\ Quiet
    BY <1>1, <2>1, WorkParts
    DEF Propose, AtStep, StillThere, Quiet, ShelfInv, IngestInv
  <2>6. Current = discoveries[1] /\ 1 \in 1 .. Len(discoveries)
    BY <1>1, <2>5, TailParts DEF Current, ShelfInv, IngestInv, IngestionTypeOK
  <2>7. /\ from # to /\ identity[from] = Current.identity
        /\ availability[from[1]] = "available" /\ completed[from[1]] > lastSeen[from]
    <3>1. Current.identity \in FsId \union {NoFsId}
      <4>1. discoveries \in Seq(Discovery)
        BY <1>1 DEF ShelfInv, IngestInv, IngestionTypeOK
      <4>2. Head(discoveries) \in Discovery
        BY <2>5, <4>1, TailParts
      <4> QED
        BY <4>2 DEF Current, Discovery
    <3>2. availability \in [RootId -> RootAvailability]
      BY <1>1 DEF ShelfInv, IngestInv, StoreInv, TypeOK
    <3> QED
      BY <1>1, <2>4, <3>1, <3>2, ConfidentMoves DEF ProposesMove
  <2>8. PICK r \in RootId, p \in Path : from = <<r, p>> /\ p = to[2]
    BY <1>1, <2>4, PlaceParts
  <2>9. from \in Linked /\ LiesBelow(from)
    BY <1>1, <2>2, <2>4, IndexAssumption DEF Linked, ShelfInv, PathsLieBelowRoots
  <2>10. Discovered(p) /\ OnDisk(p) /\ Current.identity = file[p]
    BY <1>1, <2>3, <2>8, <2>5, <2>6
    DEF ShelfInv, QuietInv, DiskIsKnown, IsOnDisk, Discovered, PathOf
  <2>11. rootQueue = <<>> /\ Len(<<>>) = 0
    BY <1>1, <2>5, EmptySeq DEF ShelfInv, RootsInOrder
  <2>12. outcome[r] \in {"complete", "partial", "unavailable"}
    BY <1>1, <2>5, <2>11
    DEF ShelfInv, QuietInv, RunsAsPlanned, IngestInv, IngestionTypeOK, Outcome
  <2>13. outcome[r] = "complete"
    BY <1>1, <2>7, <2>8, <2>12 DEF ShelfInv, RootsInOrder
  <2>14. Seen(r, p)
    BY <1>1, <2>8, <2>9, <2>5, <2>10, <2>13
    DEF ShelfInv, QuietInv, PlacesAreSeen, Passed, LiesBelow
  <2>15. lastSeen[from] = scanGeneration[r]
    BY <2>7, <2>8, <2>9, <2>10, <2>14 DEF Seen
  <2>16. scanGeneration[r] = generation[r] /\ completed[r] <= generation[r]
    BY <1>1, <2>13 DEF ShelfInv, RootsInOrder, IngestInv, StoreInv, ScanEvidenceOrdered
  <2>17. completed[r] \in Nat /\ generation[r] \in Nat
    BY <1>1, IndexAssumption DEF ShelfInv, IngestInv, StoreInv, TypeOK, Generation
  <2> QED
    BY <2>7, <2>8, <2>15, <2>16, <2>17
<1>2. ShelfInv /\ [Next]_vars =>
        \A id \in ProposalId :
          ProposesMove(id) /\ StillThere(proposal'[id])
              => proposal'[id].from[2] # proposal'[id].to[2]
  BY <1>1
<1> QED
  BY <1>2, ShelfInvariance, PTL DEF Spec, SurvivorsMoveOnlyToLinks
=============================================================================
