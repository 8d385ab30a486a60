------------------------- MODULE LibraryIndexProofs -------------------------
(***************************************************************************)
(* Proofs about the library store, for every set of roots, paths, books    *)
(* and proposals and every bound on scan generations, and about the        *)
(* identity policy it asks, for every combination of signals.              *)
(***************************************************************************)
EXTENDS LibraryIndex, TLAPS

(* The rules ADR-0005 states about the identity policy.                    *)

LEMMA DecisionType ==
    ASSUME NEW e
    PROVE  SamePathDecision(e) \in IdentityDecision /\ NewPathDecision(e) \in IdentityDecision
<1>1. SamePathDecision(e) \in IdentityDecision
  BY DEF SamePathDecision, IdentityDecision
<1>2. NewPathDecision(e) \in IdentityDecision
  BY DEF NewPathDecision, IdentityDecision
<1> QED
  BY <1>1, <1>2

(* The policy always answers (reconcileDocumentIdentity has no case left). *)
THEOREM PolicyAnswers ==
    ASSUME NEW e
    PROVE  ReconcileDocumentIdentity(e) \in Resolution
BY DecisionType DEF ReconcileDocumentIdentity, Resolution

(* Relinking is authorized by exactly one kind of evidence: another path,  *)
(* the previous one proven missing by a complete scan, and the filesystem  *)
(* object preserved.  No revision, PDF identifier or fingerprint and no    *)
(* offline root adds to it or takes from it (reconcileDocumentIdentity).   *)
THEOREM OnlyProvenMovesRelink ==
    ASSUME NEW e \in Evidence
    PROVE  ReconcileDocumentIdentity(e).mayRelinkAutomatically =
             (/\ ~e.samePath
              /\ e.previousLocation = "missingAfterCompleteScan"
              /\ e.sameFilesystemIdentity = "yes")
<1>1. e.samePath \in BOOLEAN /\ e.previousLocation \in PreviousLocationState
  BY DEF Evidence
<1>2. SamePathDecision(e) # "confidentMove"
  BY DEF SamePathDecision
<1>3. CASE e.previousLocation = "missingAfterCompleteScan"
  <2>1. (NewPathDecision(e) = "confidentMove") = (e.sameFilesystemIdentity = "yes")
    BY <1>3 DEF NewPathDecision
  <2> QED
    BY <1>1, <1>2, <1>3, <2>1 DEF ReconcileDocumentIdentity
<1>4. CASE e.previousLocation # "missingAfterCompleteScan"
  <2>1. NewPathDecision(e) # "confidentMove"
    BY <1>1, <1>4 DEF NewPathDecision, PreviousLocationState
  <2> QED
    BY <1>1, <1>2, <1>4, <2>1 DEF ReconcileDocumentIdentity
<1> QED
  BY <1>3, <1>4

(* A candidate that resembles a known book in any way is not given an      *)
(* identity of its own: only a complete lack of similarity makes a         *)
(* document new (anySimilarity and its use).                               *)
THEOREM SimilarIsNeverNew ==
    ASSUME NEW e \in Evidence, AnySimilarity(e)
    PROVE  ReconcileDocumentIdentity(e).decision # "newDocument"
<1>1. SamePathDecision(e) # "newDocument"
  BY DEF SamePathDecision
<1>2. NewPathDecision(e) # "newDocument"
  BY DEF NewPathDecision
<1> QED
  BY <1>1, <1>2 DEF ReconcileDocumentIdentity

-----------------------------------------------------------------------------
(* The library store.                                                      *)

(* What the identity policy answers is a resolution, and so is what        *)
(* proposeReconciliation stores.                                           *)
LEMMA ResolveType ==
    ASSUME NEW from, NEW to, NEW f
    PROVE  Resolve(from, to, f) \in Resolution
BY PolicyAnswers DEF Resolve

(* A place is the pair of its root and its path.                           *)
LEMMA PlaceParts ==
    ASSUME NEW pl \in Place
    PROVE  pl[1] \in RootId /\ pl[2] \in Path /\ pl = <<pl[1], pl[2]>>
BY DEF Place

LEMMA TypeOKStep == TypeOK /\ [IndexNext]_indexVars => TypeOK'
<1> SUFFICES ASSUME TypeOK, [IndexNext]_indexVars PROVE TypeOK'
  OBVIOUS
<1> USE DEF rootVars, documentVars, locationVars, proposalVars
<1>1. ASSUME NEW r \in RootId, NEW s \in Source, NEW a \in RootAvailability,
             RegisterRoot(r, s, a)
      PROVE  TypeOK'
  BY <1>1 DEF TypeOK, RegisterRoot
<1>2. ASSUME NEW r \in RootId, NEW a \in RootAvailability,
             SetRootAvailability(r, a)
      PROVE  TypeOK'
  BY <1>2 DEF TypeOK, SetRootAvailability
<1>3. ASSUME NEW r \in RootId, BeginRootScan(r)
      PROVE  TypeOK'
  BY <1>3, IndexAssumption DEF TypeOK, BeginRootScan, Generation
<1>4. ASSUME NEW r \in RootId, NEW g \in Generation, NEW a \in RootAvailability,
             FinishRootScan(r, g, a)
      PROVE  TypeOK'
  BY <1>4 DEF TypeOK, FinishRootScan
<1>5. ASSUME NEW d \in DocId, NEW p \in Path, UpsertRecordWithoutRoot(d, p)
      PROVE  TypeOK'
  BY <1>5, IndexAssumption DEF TypeOK, UpsertRecordWithoutRoot, WriteText
<1>6. ASSUME NEW d \in DocId, NEW favorite \in BOOLEAN, SetFavorite(d, favorite)
      PROVE  TypeOK'
  BY <1>6 DEF TypeOK, SetFavorite
<1>7. ASSUME NEW d \in DocId, RecordOpened(d)
      PROVE  TypeOK'
  BY <1>7 DEF TypeOK, RecordOpened
<1>8. CASE RebuildSearchIndex
  BY <1>8 DEF TypeOK, RebuildSearchIndex
<1>9. ASSUME NEW pl \in Place, NEW g \in Generation, NEW f \in FsId \union {NoFsId},
             ObserveLocation(pl, g, f)
      PROVE  TypeOK'
  BY <1>9 DEF TypeOK, ObserveLocation
<1>10. ASSUME NEW pl \in Place, NEW d \in DocId, UpsertRecord(d, pl)
       PROVE  TypeOK'
  BY <1>10, PlaceParts, IndexAssumption DEF TypeOK, UpsertRecord, WriteText
<1>11. ASSUME NEW pl \in Place, NEW d \in DocId, NEW f \in FsId,
              SetLocationFilesystemIdentity(d, pl, f)
       PROVE  TypeOK'
  BY <1>11 DEF TypeOK, SetLocationFilesystemIdentity
<1>12. ASSUME NEW id \in ProposalId, NEW d \in DocId, NEW from \in Place, NEW to \in Place,
              NEW g \in Generation, NEW f \in FsId \union {NoFsId},
              ProposeReconciliation(id, d, from, to, g, f)
       PROVE  TypeOK'
  <2>1. Resolve(from, to, f).decision \in IdentityDecision
        /\ Resolve(from, to, f).mayRelinkAutomatically \in BOOLEAN
    BY ResolveType DEF Resolution
  <2>2. proposal'[id] \in Proposal
    BY <1>12, <2>1 DEF TypeOK, ProposeReconciliation, Proposal
  <2>3. \A other \in ProposalId \ {id} :
           proposal'[other] = proposal[other] /\ proposalState'[other] = proposalState[other]
    BY <1>12 DEF TypeOK, ProposeReconciliation
  <2>4. proposalState' \in [ProposalId -> ProposalState] /\ DOMAIN proposal' = ProposalId
    BY <1>12 DEF TypeOK, ProposeReconciliation, ProposalState
  <2> QED
    BY <1>12, <2>2, <2>3, <2>4 DEF TypeOK, ProposeReconciliation
<1>13. ASSUME NEW id \in ProposalId, ApplyReconciliation(id)
       PROVE  TypeOK'
  <2>1. proposal[id] \in Proposal
    BY <1>13 DEF TypeOK, ApplyReconciliation, ProvenSafeMove
  <2>2. /\ owner' \in [Place -> DocId \union {NoDoc}]
        /\ identity' \in [Place -> FsId \union {NoFsId}]
    BY <1>13, <2>1 DEF TypeOK, ApplyReconciliation, Proposal
  <2>3. lastSeen' \in [Place -> Generation]
    BY <1>13, <2>1, IndexAssumption DEF TypeOK, ApplyReconciliation, Proposal, Generation
  <2>4. /\ fileName' \in [DocId -> Name \union {NoName}]
        /\ searchName' \in [DocId -> Name \union {NoName}]
    BY <1>13, <2>1, PlaceParts, IndexAssumption
    DEF TypeOK, ApplyReconciliation, WriteText, Proposal
  <2>5. proposalState' \in [ProposalId -> ProposalState]
    BY <1>13 DEF TypeOK, ApplyReconciliation, ProposalState
  <2>6. \A other \in ProposalId :
           proposalState'[other] # "none" => proposal'[other] \in Proposal
    BY <1>13, <2>1 DEF TypeOK, ApplyReconciliation
  <2> QED
    BY <1>13, <2>2, <2>3, <2>4, <2>5, <2>6 DEF TypeOK, ApplyReconciliation
<1>14. ASSUME NEW id \in ProposalId, DismissReconciliation(id)
       PROVE  TypeOK'
  BY <1>14 DEF TypeOK, DismissReconciliation, ProposalState
<1>15. CASE UNCHANGED indexVars
  BY <1>15 DEF TypeOK, indexVars
<1> QED
  BY <1>1, <1>2, <1>3, <1>4, <1>5, <1>6, <1>7, <1>8, <1>9, <1>10, <1>11,
     <1>12, <1>13, <1>14, <1>15
  DEF IndexNext, RootNext, DocumentNext, LocationNext, ProposalNext

LEMMA TypeOKInit == IndexInit => TypeOK
BY IndexAssumption DEF IndexInit, TypeOK, RootAvailability, ProposalState, Generation

(* Every column of every table keeps its type under every operation.       *)
THEOREM TypeCorrect == IndexSpec => []TypeOK
BY TypeOKInit, TypeOKStep, PTL DEF IndexSpec

-----------------------------------------------------------------------------
(* Scan evidence.                                                          *)

(* Operations on documents alone leave every other table as it is.         *)
LEMMA DocumentStep ==
    DocumentNext =>
        UNCHANGED <<rootSource, availability, generation, completed,
                    owner, identity, lastSeen, proposal, proposalState>>
BY DEF DocumentNext, UpsertRecordWithoutRoot, SetFavorite, RecordOpened,
       RebuildSearchIndex, rootVars, locationVars, proposalVars

LEMMA ScanEvidenceStep ==
    TypeOK /\ ScanEvidenceOrdered /\ [IndexNext]_indexVars => ScanEvidenceOrdered'
<1> SUFFICES ASSUME TypeOK, ScanEvidenceOrdered, [IndexNext]_indexVars
             PROVE  ScanEvidenceOrdered'
  OBVIOUS
<1> USE DEF rootVars, documentVars, locationVars, proposalVars
<1>1. ASSUME NEW r \in RootId, BeginRootScan(r)
      PROVE  ScanEvidenceOrdered'
  <2>1. /\ \A q \in RootId : generation'[q] >= generation[q] /\ generation'[q] \in Int
        /\ UNCHANGED <<completed, lastSeen, proposal, proposalState>>
    BY <1>1, IndexAssumption DEF TypeOK, BeginRootScan, Generation
  <2>2. \A q \in RootId : completed'[q] <= generation'[q]
    BY <2>1, IndexAssumption DEF TypeOK, ScanEvidenceOrdered, Generation
  <2>3. \A pl \in Place : lastSeen'[pl] <= generation'[pl[1]]
    BY <2>1, PlaceParts, IndexAssumption DEF TypeOK, ScanEvidenceOrdered, Generation
  <2> QED
    BY <2>1, <2>2, <2>3 DEF ScanEvidenceOrdered
<1>2. ASSUME NEW r \in RootId, NEW g \in Generation, NEW a \in RootAvailability,
             FinishRootScan(r, g, a)
      PROVE  ScanEvidenceOrdered'
  <2>1. /\ \A q \in RootId : completed'[q] >= completed[q] /\ completed'[q] <= generation[q]
        /\ UNCHANGED <<generation, lastSeen, proposal, proposalState>>
    BY <1>2, IndexAssumption DEF TypeOK, FinishRootScan, ScanEvidenceOrdered, Generation
  <2>2. ASSUME NEW id \in ProposalId, proposalState[id] # "none"
        PROVE  proposal[id].generation <= completed'[proposal[id].to[1]]
    <3>1. proposal[id].to[1] \in RootId /\ proposal[id].generation \in Generation
      BY <2>2, PlaceParts DEF TypeOK, Proposal
    <3>2. completed'[proposal[id].to[1]] \in Generation
      BY <1>2, <3>1 DEF TypeOK, FinishRootScan
    <3> QED
      BY <2>1, <2>2, <3>1, <3>2, IndexAssumption DEF TypeOK, ScanEvidenceOrdered, Generation
  <2> QED
    BY <2>1, <2>2 DEF ScanEvidenceOrdered
<1>3. ASSUME NEW pl \in Place, NEW g \in Generation, NEW f \in FsId \union {NoFsId},
             ObserveLocation(pl, g, f)
      PROVE  ScanEvidenceOrdered'
  <2>1. \A other \in Place : lastSeen'[other] = lastSeen[other]
                              \/ lastSeen'[other] = generation[other[1]]
    BY <1>3 DEF TypeOK, ObserveLocation
  <2>2. \A other \in Place : generation[other[1]] \in Int
    BY PlaceParts, IndexAssumption DEF TypeOK, Generation
  <2>3. \A other \in Place : lastSeen'[other] <= generation[other[1]]
    BY <2>1, <2>2 DEF ScanEvidenceOrdered
  <2> QED
    BY <1>3, <2>3 DEF ObserveLocation, ScanEvidenceOrdered
<1>4. ASSUME NEW id \in ProposalId, NEW d \in DocId, NEW from \in Place, NEW to \in Place,
             NEW g \in Generation, NEW f \in FsId \union {NoFsId},
             ProposeReconciliation(id, d, from, to, g, f)
      PROVE  ScanEvidenceOrdered'
  <2>1. proposal'[id].generation = g /\ proposal'[id].to = to
    BY <1>4 DEF TypeOK, ProposeReconciliation
  <2>2. g > 0 /\ g <= completed[to[1]]
    BY <1>4, PlaceParts, IndexAssumption
    DEF TypeOK, ProposeReconciliation, CanPropose, CurrentCompleteScan, Generation
  <2>3. \A other \in ProposalId \ {id} :
           proposal'[other] = proposal[other] /\ proposalState'[other] = proposalState[other]
    BY <1>4 DEF TypeOK, ProposeReconciliation
  <2> QED
    BY <1>4, <2>1, <2>2, <2>3 DEF ProposeReconciliation, ScanEvidenceOrdered
<1>5. ASSUME NEW id \in ProposalId, ApplyReconciliation(id)
      PROVE  ScanEvidenceOrdered'
  <2>1. proposalState[id] # "none" /\ proposal[id] \in Proposal
    BY <1>5 DEF TypeOK, ApplyReconciliation, ProvenSafeMove
  <2>2. /\ proposal[id].to \in Place /\ proposal[id].to[1] \in RootId
        /\ proposal[id].generation \in Generation
    BY <2>1, PlaceParts DEF Proposal
  <2>3. proposal[id].generation <= generation[proposal[id].to[1]]
    BY <2>1, <2>2, IndexAssumption DEF TypeOK, ScanEvidenceOrdered, Generation
  <2>4. \A pl \in Place :
           \/ lastSeen'[pl] \in {lastSeen[pl], 0}
           \/ pl = proposal[id].to /\ lastSeen'[pl] = proposal[id].generation
    BY <1>5, <2>2 DEF TypeOK, ApplyReconciliation
  <2>5. \A pl \in Place : 0 <= generation[pl[1]]
    BY PlaceParts, IndexAssumption DEF TypeOK, Generation
  <2>6. \A pl \in Place : lastSeen'[pl] <= generation[pl[1]]
    BY <2>3, <2>4, <2>5 DEF ScanEvidenceOrdered
  <2>7. \A other \in ProposalId : proposalState'[other] # "none" => proposalState[other] # "none"
    BY <1>5, <2>1 DEF TypeOK, ApplyReconciliation
  <2> QED
    BY <1>5, <2>6, <2>7 DEF ApplyReconciliation, ScanEvidenceOrdered
<1>6. ASSUME NEW id \in ProposalId, DismissReconciliation(id)
      PROVE  ScanEvidenceOrdered'
  <2>1. \A other \in ProposalId : proposalState'[other] # "none" => proposalState[other] # "none"
    BY <1>6 DEF TypeOK, DismissReconciliation
  <2> QED
    BY <1>6, <2>1 DEF DismissReconciliation, ScanEvidenceOrdered
<1>7. CASE UNCHANGED <<generation, completed, lastSeen, proposal, proposalState>>
  BY <1>7 DEF ScanEvidenceOrdered
<1> QED
  BY <1>1, <1>2, <1>3, <1>4, <1>5, <1>6, <1>7, DocumentStep
  DEF IndexNext, RootNext, LocationNext, ProposalNext, indexVars,
      RegisterRoot, SetRootAvailability, UpsertRecord, SetLocationFilesystemIdentity

(* Completed scans never run ahead of begun ones, places never ahead of    *)
(* their root's scans, proposals never ahead of completed scans: stale and *)
(* superseded callers cannot disorder the evidence (observeLocation,       *)
(* finishRootScan, proposeReconciliation, applyReconciliation).            *)
THEOREM EvidenceOrder == IndexSpec => []ScanEvidenceOrdered
<1>1. IndexInit => ScanEvidenceOrdered
  BY PlaceParts DEF IndexInit, ScanEvidenceOrdered
<1> QED
  BY <1>1, TypeCorrect, ScanEvidenceStep, PTL DEF IndexSpec

-----------------------------------------------------------------------------
(* Referential integrity and authority.                                    *)

LEMMA RowsReferStep ==
    TypeOK /\ RowsRefer /\ [IndexNext]_indexVars => RowsRefer'
<1> SUFFICES ASSUME TypeOK, RowsRefer, [IndexNext]_indexVars
             PROVE  RowsRefer'
  OBVIOUS
<1> USE DEF rootVars, documentVars, locationVars, proposalVars
<1>1. ASSUME NEW r \in RootId, NEW s \in Source, NEW a \in RootAvailability,
             RegisterRoot(r, s, a)
      PROVE  RowsRefer'
  <2>1. Registered \subseteq Registered'
    BY <1>1, IndexAssumption DEF TypeOK, RegisterRoot, Registered
  <2> QED
    BY <1>1, <2>1 DEF RegisterRoot, RowsRefer, Linked
<1>2. CASE UNCHANGED <<rootSource, owner, identity, lastSeen, proposal, proposalState>>
           /\ documents \subseteq documents'
           /\ favorites' \union opened' \subseteq documents'
  BY <1>2 DEF RowsRefer, Linked, Registered
<1>3. ASSUME NEW pl \in Place, NEW g \in Generation, NEW f \in FsId \union {NoFsId},
             ObserveLocation(pl, g, f)
      PROVE  RowsRefer'
  <2>1. UNCHANGED <<Linked, Registered>>
    BY <1>3 DEF ObserveLocation, Linked, Registered
  <2>2. ASSUME NEW other \in Place \ Linked
        PROVE  identity'[other] = NoFsId /\ lastSeen'[other] = 0
    <3>1. CASE other = pl
      BY <1>3, <2>2, <3>1 DEF ObserveLocation, Observation, Linked, RowsRefer
    <3>2. CASE other # pl
      BY <1>3, <2>2, <3>2 DEF TypeOK, ObserveLocation, RowsRefer
    <3> QED
      BY <3>1, <3>2
  <2> QED
    BY <1>3, <2>1, <2>2 DEF ObserveLocation, RowsRefer
<1>4. ASSUME NEW pl \in Place, NEW d \in DocId, UpsertRecord(d, pl)
      PROVE  RowsRefer'
  <2>1. \A other \in Place : other # pl => owner'[other] = owner[other]
    BY <1>4 DEF TypeOK, UpsertRecord
  <2>2. owner'[pl] = d /\ d \in documents' /\ pl[1] \in Registered'
    BY <1>4 DEF TypeOK, UpsertRecord, Registered
  <2>3. UNCHANGED Registered /\ documents \subseteq documents' /\ d # NoDoc
    BY <1>4, IndexAssumption DEF UpsertRecord, Registered
  <2>4. Linked \subseteq Linked'
    BY <2>1, <2>2, <2>3 DEF Linked
  <2>5. \A other \in Linked' : other = pl \/ other \in Linked
    BY <2>1 DEF Linked
  <2> QED
    BY <1>4, <2>1, <2>2, <2>3, <2>4, <2>5 DEF UpsertRecord, RowsRefer
<1>5. ASSUME NEW pl \in Place, NEW d \in DocId, NEW f \in FsId,
             SetLocationFilesystemIdentity(d, pl, f)
      PROVE  RowsRefer'
  <2>1. UNCHANGED <<Linked, Registered>>
    BY <1>5 DEF SetLocationFilesystemIdentity, Linked, Registered
  <2>2. pl \in Linked
    BY <1>5, IndexAssumption DEF SetLocationFilesystemIdentity, Linked
  <2>3. \A other \in Place : other # pl => identity'[other] = identity[other]
    BY <1>5 DEF TypeOK, SetLocationFilesystemIdentity
  <2> QED
    BY <1>5, <2>1, <2>2, <2>3 DEF SetLocationFilesystemIdentity, RowsRefer
<1>6. ASSUME NEW id \in ProposalId, NEW d \in DocId, NEW from \in Place, NEW to \in Place,
             NEW g \in Generation, NEW f \in FsId \union {NoFsId},
             ProposeReconciliation(id, d, from, to, g, f)
      PROVE  RowsRefer'
  <2>1. /\ proposal'[id].document = d
        /\ proposal'[id].from = from /\ proposal'[id].to = to
    BY <1>6 DEF TypeOK, ProposeReconciliation
  <2>2. d \in documents /\ {from[1], to[1]} \subseteq Registered
    BY <1>6, IndexAssumption DEF ProposeReconciliation, CanPropose, RowsRefer, Linked
  <2>3. \A other \in ProposalId \ {id} :
           proposal'[other] = proposal[other] /\ proposalState'[other] = proposalState[other]
    BY <1>6 DEF TypeOK, ProposeReconciliation
  <2>4. UNCHANGED <<Linked, Registered>>
    BY <1>6 DEF ProposeReconciliation, Linked, Registered
  <2> QED
    BY <1>6, <2>1, <2>2, <2>3, <2>4 DEF ProposeReconciliation, RowsRefer
<1>7. ASSUME NEW id \in ProposalId, ApplyReconciliation(id)
      PROVE  RowsRefer'
  <2> DEFINE p == proposal[id]
  <2>1. p \in Proposal /\ proposalState[id] # "none"
    BY <1>7 DEF TypeOK, ApplyReconciliation, ProvenSafeMove
  <2>2. p.from \in Place /\ p.to \in Place /\ p.document \in DocId
    BY <2>1 DEF Proposal
  <2>3. p.from # p.to /\ p.document # NoDoc
    BY <1>7, <2>2, IndexAssumption DEF ApplyReconciliation, ProvenSafeMove, TargetFree
  <2>4. /\ owner'[p.to] = p.document
        /\ owner'[p.from] = NoDoc /\ identity'[p.from] = NoFsId /\ lastSeen'[p.from] = 0
        /\ \A pl \in Place \ {p.from, p.to} :
              /\ owner'[pl] = owner[pl]
              /\ identity'[pl] = identity[pl]
              /\ lastSeen'[pl] = lastSeen[pl]
    BY <1>7, <2>2, <2>3 DEF TypeOK, ApplyReconciliation
  <2>5. UNCHANGED <<Registered, documents, favorites, opened, proposal>>
    BY <1>7 DEF ApplyReconciliation, Registered
  <2>6. p.document \in documents /\ p.to[1] \in Registered
    BY <2>1 DEF RowsRefer
  <2>7. \A pl \in Linked' : pl = p.to \/ (pl \in Linked /\ owner'[pl] = owner[pl])
    BY <2>4 DEF Linked
  <2>8. \A pl \in Linked' : owner'[pl] \in documents /\ pl[1] \in Registered
    BY <2>4, <2>6, <2>7 DEF RowsRefer
  <2>9. \A pl \in Place \ Linked' : identity'[pl] = NoFsId /\ lastSeen'[pl] = 0
    BY <2>3, <2>4 DEF Linked, RowsRefer
  <2>10. \A other \in ProposalId : proposalState'[other] # "none" => proposalState[other] # "none"
    BY <1>7, <2>1 DEF TypeOK, ApplyReconciliation
  <2> HIDE DEF p
  <2> QED
    BY <2>5, <2>8, <2>9, <2>10 DEF RowsRefer
<1>8. ASSUME NEW id \in ProposalId, DismissReconciliation(id)
      PROVE  RowsRefer'
  <2>1. \A other \in ProposalId : proposalState'[other] # "none" => proposalState[other] # "none"
    BY <1>8 DEF TypeOK, DismissReconciliation
  <2> QED
    BY <1>8, <2>1 DEF DismissReconciliation, RowsRefer, Linked, Registered
<1>9. CASE RootNext
  BY <1>1, <1>2, <1>9
  DEF RootNext, SetRootAvailability, BeginRootScan, FinishRootScan, RowsRefer
<1>10. CASE DocumentNext
  BY <1>2, <1>10
  DEF DocumentNext, UpsertRecordWithoutRoot, SetFavorite, RecordOpened,
      RebuildSearchIndex, RowsRefer
<1>11. CASE UNCHANGED indexVars
  BY <1>2, <1>11 DEF indexVars, RowsRefer
<1> QED
  BY <1>3, <1>4, <1>5, <1>6, <1>7, <1>8, <1>9, <1>10, <1>11
  DEF IndexNext, LocationNext, ProposalNext

(* Foreign keys hold and a place without a row keeps no scan evidence:     *)
(* a move takes all of it along (applyReconciliation, upsertRecord).       *)
THEOREM RowsAreReferred == IndexSpec => []RowsRefer
<1>1. IndexInit => RowsRefer
  BY DEF IndexInit, RowsRefer, Linked
<1> QED
  BY <1>1, TypeCorrect, RowsReferStep, PTL DEF IndexSpec

(* What the policy authorizes, it authorizes on a matching identity and    *)
(* for another place.                                                      *)
LEMMA AuthorityOfResolve ==
    ASSUME NEW from \in Place, NEW to \in Place, NEW f \in FsId \union {NoFsId},
           Resolve(from, to, f).mayRelinkAutomatically
    PROVE  /\ Resolve(from, to, f).decision = "confidentMove"
           /\ f # NoFsId /\ identity[from] = f
           /\ from # to
<1> DEFINE e == EvidenceFor(from, to, f)
<1>1. PreviousState(from) \in PreviousLocationState
  BY DEF PreviousState, PreviousLocationState
<1>2. e \in Evidence
  BY <1>1 DEF EvidenceFor, Evidence, Signal
<1>3. ~e.samePath /\ e.sameFilesystemIdentity = "yes"
  BY <1>2, OnlyProvenMovesRelink DEF Resolve
<1>4. f # NoFsId /\ identity[from] = f /\ from # to
  BY <1>3 DEF EvidenceFor
<1>5. Resolve(from, to, f).decision = "confidentMove"
  BY DEF Resolve, ReconcileDocumentIdentity
<1> QED
  BY <1>4, <1>5

LEMMA RelinkAuthorityStep ==
    TypeOK /\ RelinkAuthorityIsBacked /\ [IndexNext]_indexVars => RelinkAuthorityIsBacked'
<1> SUFFICES ASSUME TypeOK, RelinkAuthorityIsBacked, [IndexNext]_indexVars
             PROVE  RelinkAuthorityIsBacked'
  OBVIOUS
<1> USE DEF rootVars, documentVars, locationVars, proposalVars
<1>1. ASSUME NEW id \in ProposalId, NEW d \in DocId, NEW from \in Place, NEW to \in Place,
             NEW g \in Generation, NEW f \in FsId \union {NoFsId},
             ProposeReconciliation(id, d, from, to, g, f)
      PROVE  RelinkAuthorityIsBacked'
  <2>1. /\ proposal'[id].from = from /\ proposal'[id].to = to
        /\ proposal'[id].filesystemIdentity = f
        /\ proposal'[id].decision = Resolve(from, to, f).decision
        /\ proposal'[id].mayRelinkAutomatically = Resolve(from, to, f).mayRelinkAutomatically
    BY <1>1 DEF TypeOK, ProposeReconciliation
  <2>2. \A other \in ProposalId \ {id} :
           proposal'[other] = proposal[other] /\ proposalState'[other] = proposalState[other]
    BY <1>1 DEF TypeOK, ProposeReconciliation
  <2> QED
    BY <2>1, <2>2, AuthorityOfResolve DEF RelinkAuthorityIsBacked
<1>2. CASE /\ UNCHANGED proposal
           /\ \A id \in ProposalId : proposalState'[id] # "none" => proposalState[id] # "none"
  BY <1>2 DEF RelinkAuthorityIsBacked
<1>3. ASSUME NEW id \in ProposalId, ApplyReconciliation(id) \/ DismissReconciliation(id)
      PROVE  RelinkAuthorityIsBacked'
  BY <1>2, <1>3 DEF TypeOK, ApplyReconciliation, ProvenSafeMove, DismissReconciliation
<1>4. CASE RootNext \/ DocumentNext \/ LocationNext \/ UNCHANGED indexVars
  BY <1>2, <1>4, DocumentStep
  DEF RootNext, LocationNext, indexVars, RegisterRoot, SetRootAvailability,
      BeginRootScan, FinishRootScan, ObserveLocation, UpsertRecord,
      SetLocationFilesystemIdentity
<1>5. CASE ProposalNext
  BY <1>1, <1>3, <1>5 DEF ProposalNext
<1> QED
  BY <1>4, <1>5 DEF IndexNext

(* No proposal, however its evidence came about, carries authority that    *)
(* applyReconciliation could not recheck (proposeReconciliation over       *)
(* reconcileDocumentIdentity).                                             *)
THEOREM AuthorityIsBacked == IndexSpec => []RelinkAuthorityIsBacked
<1>1. IndexInit => RelinkAuthorityIsBacked
  BY DEF IndexInit, RelinkAuthorityIsBacked
<1> QED
  BY <1>1, TypeCorrect, RelinkAuthorityStep, PTL DEF IndexSpec

LEMMA SearchStep ==
    /\ TypeOK /\ RowsRefer /\ SearchMatchesDocuments
    /\ [IndexNext]_indexVars
    => SearchMatchesDocuments'
<1> SUFFICES ASSUME TypeOK, RowsRefer, SearchMatchesDocuments, [IndexNext]_indexVars
             PROVE  SearchMatchesDocuments'
  OBVIOUS
<1> USE DEF rootVars, documentVars, locationVars, proposalVars
<1>1. ASSUME NEW d \in DocId, NEW p \in Path, WriteText(d, p),
             documents' = documents \union {d}
      PROVE  SearchMatchesDocuments'
  BY <1>1 DEF TypeOK, WriteText, SearchMatchesDocuments
<1>2. ASSUME NEW id \in ProposalId, ApplyReconciliation(id)
      PROVE  SearchMatchesDocuments'
  <2>1. proposal[id] \in Proposal /\ proposalState[id] # "none"
    BY <1>2 DEF TypeOK, ApplyReconciliation, ProvenSafeMove
  <2>2. proposal[id].document \in DocId /\ proposal[id].to[2] \in Path
    BY <2>1, PlaceParts DEF Proposal
  <2>3. documents' = documents \union {proposal[id].document}
    BY <1>2, <2>1 DEF ApplyReconciliation, RowsRefer
  <2> QED
    BY <1>1, <1>2, <2>2, <2>3 DEF ApplyReconciliation
<1>3. CASE RebuildSearchIndex
  BY <1>3 DEF RebuildSearchIndex, SearchMatchesDocuments
<1>4. CASE UNCHANGED <<documents, fileName, searchName>>
  BY <1>4 DEF SearchMatchesDocuments
<1>5. CASE RootNext \/ UNCHANGED indexVars
  BY <1>4, <1>5
  DEF RootNext, RegisterRoot, SetRootAvailability, BeginRootScan, FinishRootScan, indexVars
<1>6. CASE DocumentNext
  BY <1>1, <1>3, <1>4, <1>6
  DEF DocumentNext, UpsertRecordWithoutRoot, SetFavorite, RecordOpened
<1>7. CASE LocationNext
  BY <1>1, <1>4, <1>7, PlaceParts
  DEF LocationNext, ObserveLocation, UpsertRecord, SetLocationFilesystemIdentity
<1>8. CASE ProposalNext
  BY <1>2, <1>4, <1>8
  DEF ProposalNext, ProposeReconciliation, DismissReconciliation
<1> QED
  BY <1>5, <1>6, <1>7, <1>8 DEF IndexNext

(* Full-text search answers by the current file names, moves included: the *)
(* FTS triggers fire in every statement that writes them.                  *)
THEOREM SearchIsCurrent == IndexSpec => []SearchMatchesDocuments
<1>1. IndexInit => SearchMatchesDocuments
  BY DEF IndexInit, SearchMatchesDocuments
<1> QED
  BY <1>1, TypeCorrect, RowsAreReferred, SearchStep, PTL DEF IndexSpec

-----------------------------------------------------------------------------
(* A store that is opened again is what an earlier run has left: not       *)
(* empty, but sound.  What follows holds from any such store on, so that   *)
(* it holds also for a module whose behaviours begin in one.               *)
StoreInv ==
    /\ TypeOK
    /\ ScanEvidenceOrdered
    /\ RowsRefer
    /\ RelinkAuthorityIsBacked
    /\ SearchMatchesDocuments

SoundStore == StoreInv /\ [][IndexNext]_indexVars

LEMMA StoreInvStep == StoreInv /\ [IndexNext]_indexVars => StoreInv'
BY TypeOKStep, ScanEvidenceStep, RowsReferStep, RelinkAuthorityStep, SearchStep
DEF StoreInv

LEMMA StoreStaysSound == SoundStore => []StoreInv
BY StoreInvStep, PTL DEF SoundStore

LEMMA EmptyStoreIsSound == IndexSpec => SoundStore
<1>1. IndexSpec => []StoreInv
  BY TypeCorrect, EvidenceOrder, RowsAreReferred, AuthorityIsBacked,
     SearchIsCurrent, PTL DEF StoreInv
<1> QED
  BY <1>1, PTL DEF IndexSpec, SoundStore

-----------------------------------------------------------------------------
(* What a step may never do.                                               *)

(* What an applied move does to the places.                                *)
LEMMA ApplyEffect ==
    ASSUME TypeOK, NEW id \in ProposalId, ApplyReconciliation(id)
    PROVE  /\ id \in Pending /\ proposalState'[id] = "applied"
           /\ proposal[id] \in Proposal
           /\ proposal[id].from \in Linked
           /\ proposal[id].to \in Place \ Linked
           /\ owner[proposal[id].from] = proposal[id].document
           /\ owner'[proposal[id].from] = NoDoc
           /\ owner'[proposal[id].to] = proposal[id].document
           /\ identity'[proposal[id].to] = proposal[id].filesystemIdentity
           /\ \A pl \in Place \ {proposal[id].from, proposal[id].to} :
                 /\ owner'[pl] = owner[pl]
                 /\ identity'[pl] = identity[pl]
                 /\ lastSeen'[pl] = lastSeen[pl]
<1>1. id \in Pending /\ proposalState'[id] = "applied" /\ proposal[id] \in Proposal
  BY DEF TypeOK, ApplyReconciliation, ProvenSafeMove, Pending
<1>2. /\ proposal[id].from \in Place /\ proposal[id].to \in Place
      /\ proposal[id].document \in DocId
  BY <1>1 DEF Proposal
<1>3. owner[proposal[id].from] = proposal[id].document /\ owner[proposal[id].to] = NoDoc
  BY DEF ApplyReconciliation, ProvenSafeMove, TargetFree
<1>4. /\ proposal[id].from \in Linked /\ proposal[id].to \in Place \ Linked
      /\ proposal[id].from # proposal[id].to
  BY <1>2, <1>3, IndexAssumption DEF Linked
<1> QED
  BY <1>1, <1>2, <1>3, <1>4 DEF TypeOK, ApplyReconciliation

(* Only three operations write what a place holds.                         *)
LEMMA OwnerWriters ==
    ASSUME [IndexNext]_indexVars
    PROVE  \/ owner' = owner
           \/ \E d \in DocId, pl \in Place : UpsertRecord(d, pl)
           \/ \E id \in ProposalId : ApplyReconciliation(id)
BY DocumentStep
DEF IndexNext, RootNext, LocationNext, ProposalNext, indexVars,
    rootVars, documentVars, locationVars, proposalVars,
    RegisterRoot, SetRootAvailability, BeginRootScan, FinishRootScan,
    ObserveLocation, SetLocationFilesystemIdentity,
    ProposeReconciliation, DismissReconciliation

(* A record is stored only at a free place or at its own.                  *)
LEMMA UpsertEffect ==
    ASSUME TypeOK, NEW d \in DocId, NEW pl \in Place, UpsertRecord(d, pl)
    PROVE  /\ owner[pl] \in {NoDoc, d} /\ owner'[pl] = d
           /\ \A other \in Place \ {pl} : owner'[other] = owner[other]
BY DEF TypeOK, UpsertRecord

LEMMA MoveStep ==
    ASSUME TypeOK, [IndexNext]_indexVars,
           NEW pl \in Linked, owner'[pl] # owner[pl]
    PROVE  \E id \in Pending :
               /\ ApplyReconciliation(id)
               /\ proposal[id].from = pl
<1>1. PICK id \in ProposalId : ApplyReconciliation(id)
  BY OwnerWriters, UpsertEffect DEF Linked
<1>2. pl = proposal[id].from
  BY <1>1, ApplyEffect DEF Linked
<1> QED
  BY <1>1, <1>2, ApplyEffect

LEMMA SoundMovesAreProven == SoundStore => BooksMoveOnlyWhenProven
<1> DEFINE Proven(pl) ==
        \E id \in Pending :
            LET to == proposal[id].to IN
            /\ proposalState'[id] = "applied"
            /\ proposal[id].from = pl
            /\ to \notin Linked
            /\ owner'[to] = owner[pl]
            /\ identity[pl] # NoFsId
            /\ identity'[to] = identity[pl]
            /\ availability[pl[1]] = "available"
            /\ availability[to[1]] = "available"
            /\ completed[pl[1]] > lastSeen[pl]
            /\ generation[to[1]] = proposal[id].generation
<1>1. ASSUME TypeOK, [IndexNext]_indexVars, NEW pl \in Linked, owner'[pl] # owner[pl]
      PROVE  Proven(pl)
  <2>1. PICK id \in Pending : ApplyReconciliation(id) /\ proposal[id].from = pl
    BY <1>1, MoveStep
  <2>2. id \in ProposalId
    BY DEF Pending
  <2>3. /\ identity[pl] # NoFsId /\ identity[pl] = proposal[id].filesystemIdentity
        /\ availability[pl[1]] = "available"
        /\ availability[proposal[id].to[1]] = "available"
        /\ completed[pl[1]] > lastSeen[pl]
        /\ generation[proposal[id].to[1]] = proposal[id].generation
    BY <2>1 DEF ApplyReconciliation, ProvenSafeMove, CurrentCompleteScan
  <2>4. /\ proposalState'[id] = "applied"
        /\ proposal[id].to \notin Linked
        /\ owner'[proposal[id].to] = owner[pl]
        /\ identity'[proposal[id].to] = proposal[id].filesystemIdentity
    BY <1>1, <2>1, <2>2, ApplyEffect
  <2> QED
    BY <2>1, <2>3, <2>4
<1>2. TypeOK /\ [IndexNext]_indexVars
        => [\A pl \in Linked : owner'[pl] # owner[pl] => Proven(pl)]_indexVars
  BY <1>1
<1> QED
  BY <1>2, StoreStaysSound, PTL DEF SoundStore, StoreInv, BooksMoveOnlyWhenProven

(* Whatever the callers do and however stale their arguments, a book       *)
(* leaves its place only through a reviewed, currently proven move that    *)
(* preserves its filesystem object (applyReconciliation's rechecks and     *)
(* upsertRecord's refusal to take a place over).                           *)
THEOREM MovesAreProven == IndexSpec => BooksMoveOnlyWhenProven
BY SoundMovesAreProven, EmptyStoreIsSound


LEMMA SoundBooksStayLinked == SoundStore => LinkedBooksStayLinked
<1>1. ASSUME TypeOK, [IndexNext]_indexVars, NEW pl \in Linked
      PROVE  \E new \in Place : owner'[new] = owner[pl]
  <2>1. CASE owner'[pl] = owner[pl]
    BY <2>1 DEF Linked
  <2>2. CASE owner'[pl] # owner[pl]
    BY <1>1, <2>2, MoveStep, ApplyEffect DEF Pending, Linked
  <2> QED
    BY <2>1, <2>2
<1>2. TypeOK /\ [IndexNext]_indexVars
        => [\A pl \in Linked : \E new \in Place : owner'[new] = owner[pl]]_indexVars
  BY <1>1
<1> QED
  BY <1>2, StoreStaysSound, PTL DEF SoundStore, StoreInv, LinkedBooksStayLinked

(* A book that has a place keeps one (applyReconciliation updates one row  *)
(* in place; nothing deletes a row).                                       *)
THEOREM BooksStayLinked == IndexSpec => LinkedBooksStayLinked
BY SoundBooksStayLinked, EmptyStoreIsSound


LEMMA SoundNewerScansWin == SoundStore => NewerScanWins
<1> DEFINE RootsForward ==
        \A r \in RootId : completed'[r] # completed[r] =>
            completed'[r] > completed[r] /\ completed'[r] = generation[r]
    PlacesForward ==
        \A pl \in Linked : owner'[pl] = owner[pl] => lastSeen'[pl] >= lastSeen[pl]
<1> USE DEF rootVars, documentVars, locationVars, proposalVars
<1>1. ASSUME TypeOK, ScanEvidenceOrdered, [IndexNext]_indexVars
      PROVE  RootsForward
  <2>1. CASE UNCHANGED completed
    BY <2>1
  <2>2. ASSUME NEW r \in RootId, NEW g \in Generation, NEW a \in RootAvailability,
               FinishRootScan(r, g, a)
        PROVE  RootsForward
    BY <1>1, <2>2, IndexAssumption DEF TypeOK, ScanEvidenceOrdered, FinishRootScan, Generation
  <2> QED
    BY <1>1, <2>1, <2>2, DocumentStep
    DEF IndexNext, RootNext, LocationNext, ProposalNext, indexVars,
        RegisterRoot, SetRootAvailability, BeginRootScan,
        ObserveLocation, UpsertRecord, SetLocationFilesystemIdentity,
        ProposeReconciliation, ApplyReconciliation, DismissReconciliation
<1>2. ASSUME TypeOK, ScanEvidenceOrdered, [IndexNext]_indexVars
      PROVE  PlacesForward
  <2>1. CASE UNCHANGED lastSeen
    <3>1. \A pl \in Linked : lastSeen[pl] \in Int
      BY <1>2, IndexAssumption DEF TypeOK, Linked, Generation
    <3> QED
      BY <2>1, <3>1
  <2>2. ASSUME NEW pl \in Place, NEW g \in Generation, NEW f \in FsId \union {NoFsId},
               ObserveLocation(pl, g, f)
        PROVE  PlacesForward
    <3>1. \A other \in Place : lastSeen'[other] = lastSeen[other]
                                \/ lastSeen'[other] = generation[other[1]]
      BY <1>2, <2>2 DEF TypeOK, ObserveLocation
    <3>2. \A other \in Place : lastSeen[other] \in Int /\ generation[other[1]] \in Int
      BY <1>2, PlaceParts, IndexAssumption DEF TypeOK, Generation
    <3> QED
      BY <1>2, <3>1, <3>2 DEF ScanEvidenceOrdered, Linked
  <2>3. ASSUME NEW id \in ProposalId, ApplyReconciliation(id)
        PROVE  PlacesForward
    <3>1. ASSUME NEW pl \in Linked, owner'[pl] = owner[pl]
          PROVE  lastSeen'[pl] = lastSeen[pl] /\ lastSeen[pl] \in Int
      BY <1>2, <2>3, <3>1, ApplyEffect, IndexAssumption DEF TypeOK, Linked, Generation
    <3> QED
      BY <3>1
  <2> QED
    BY <1>2, <2>1, <2>2, <2>3, DocumentStep
    DEF IndexNext, RootNext, LocationNext, ProposalNext, indexVars,
        RegisterRoot, SetRootAvailability, BeginRootScan, FinishRootScan,
        UpsertRecord, SetLocationFilesystemIdentity,
        ProposeReconciliation, DismissReconciliation
<1>3. TypeOK /\ ScanEvidenceOrdered /\ [IndexNext]_indexVars
        => [RootsForward /\ PlacesForward]_indexVars
  BY <1>1, <1>2
<1> QED
  BY <1>3, StoreStaysSound, PTL DEF SoundStore, StoreInv, NewerScanWins

(* No order of scans, however late their calls arrive, moves a completed   *)
(* generation or a book's last sighting backwards (observeLocation and     *)
(* finishRootScan compare with the current generation).                    *)
THEOREM NewerScansWin == IndexSpec => NewerScanWins
BY SoundNewerScansWin, EmptyStoreIsSound


LEMMA SoundSupersededIsFinal == SoundStore => SupersededMovesNeverApply
<1> USE DEF rootVars, documentVars, locationVars, proposalVars
<1> DEFINE Final(id) == Superseded(id) => Superseded(id)' \/ proposalState'[id] = "dismissed"
<1>1. ASSUME TypeOK, [IndexNext]_indexVars, NEW id \in ProposalId, Superseded(id)
      PROVE  Superseded(id)' \/ proposalState'[id] = "dismissed"
  <2>1. /\ proposal[id].to[1] \in RootId
        /\ proposal[id].generation \in Int
    BY <1>1, PlaceParts, IndexAssumption DEF TypeOK, Superseded, Pending, Proposal, Generation
  <2>2. CASE UNCHANGED <<generation, proposal, proposalState>>
    BY <1>1, <2>2 DEF Superseded, Pending
  <2>3. ASSUME NEW r \in RootId, BeginRootScan(r)
        PROVE  Superseded(id)'
    BY <1>1, <2>1, <2>3, IndexAssumption
    DEF TypeOK, BeginRootScan, Superseded, Pending, Generation
  <2>4. ASSUME NEW other \in ProposalId, NEW d \in DocId, NEW from \in Place, NEW to \in Place,
               NEW g \in Generation, NEW f \in FsId \union {NoFsId},
               ProposeReconciliation(other, d, from, to, g, f)
        PROVE  Superseded(id)'
    <3>1. other # id
      BY <1>1, <2>4 DEF ProposeReconciliation, CanPropose, Superseded, Pending
    <3>2. proposal'[id] = proposal[id] /\ proposalState'[id] = proposalState[id]
      BY <1>1, <2>4, <3>1 DEF TypeOK, ProposeReconciliation
    <3> QED
      BY <1>1, <2>4, <3>2 DEF ProposeReconciliation, Superseded, Pending
  <2>5. ASSUME NEW other \in ProposalId, ApplyReconciliation(other)
        PROVE  Superseded(id)'
    <3>1. other # id
      BY <1>1, <2>1, <2>5, IndexAssumption
      DEF TypeOK, ApplyReconciliation, ProvenSafeMove, CurrentCompleteScan, Superseded, Generation
    <3>2. proposalState'[id] = proposalState[id] /\ UNCHANGED <<proposal, generation>>
      BY <1>1, <2>5, <3>1 DEF TypeOK, ApplyReconciliation
    <3> QED
      BY <1>1, <3>2 DEF Superseded, Pending
  <2>6. ASSUME NEW other \in ProposalId, DismissReconciliation(other)
        PROVE  Superseded(id)' \/ proposalState'[id] = "dismissed"
    BY <1>1, <2>6 DEF TypeOK, DismissReconciliation, Superseded, Pending
  <2> QED
    BY <1>1, <2>2, <2>3, <2>4, <2>5, <2>6, DocumentStep
    DEF IndexNext, RootNext, LocationNext, ProposalNext, indexVars,
        RegisterRoot, SetRootAvailability, FinishRootScan,
        ObserveLocation, UpsertRecord, SetLocationFilesystemIdentity
<1>2. TypeOK /\ [IndexNext]_indexVars => [\A id \in ProposalId : Final(id)]_indexVars
  BY <1>1
<1> QED
  BY <1>2, StoreStaysSound, PTL DEF SoundStore, StoreInv, SupersededMovesNeverApply

(* Once its candidate root is rescanned, a pending proposal can only be    *)
(* dismissed: generations never come back (beginRootScan, and the check in *)
(* applyReconciliation).                                                   *)
THEOREM SupersededIsFinal == IndexSpec => SupersededMovesNeverApply
BY SoundSupersededIsFinal, EmptyStoreIsSound

-----------------------------------------------------------------------------
(* The store implements BookShelf: every operation is one allowed move of  *)
(* the shelf or invisible to it.                                           *)


LEMMA ShelfDiffIsDiff ==
    ASSUME TypeOK, NEW id \in ProposalId, proposalState[id] # "none"
    PROVE  /\ ShelfDiff(id) \in Shelf!Diff
           /\ ShelfDiff(id) # NoProposal
BY IndexAssumption DEF TypeOK, ShelfDiff, Shelf!Diff, Proposal, Place

LEMMA ShelfInit == IndexInit => Shelf!Init
BY DEF IndexInit, Shelf!Init, ShelfDiff, ShelfDecision

(* The variables of the shelf that an operation's unchanged groups leave.  *)
LEMMA ShelfDiffsKept ==
    ASSUME UNCHANGED <<proposal, proposalState>>
    PROVE  /\ UNCHANGED [id \in ProposalId |-> ShelfDiff(id)]
           /\ UNCHANGED [id \in ProposalId |-> ShelfDecision(id)]
BY DEF ShelfDiff, ShelfDecision

LEMMA ShelfKept ==
    ASSUME UNCHANGED <<documents, favorites, opened, owner, proposal, proposalState>>
    PROVE  UNCHANGED Shelf!vars
BY ShelfDiffsKept DEF Shelf!vars

LEMMA ShelfStep ==
    TypeOK /\ RowsRefer /\ RelinkAuthorityIsBacked /\ [IndexNext]_indexVars
        => [Shelf!Next]_(Shelf!vars)
<1> SUFFICES ASSUME TypeOK, RowsRefer, RelinkAuthorityIsBacked, [IndexNext]_indexVars
             PROVE  Shelf!Next \/ UNCHANGED Shelf!vars
  OBVIOUS
<1> USE DEF rootVars, documentVars, locationVars, proposalVars
<1>1. CASE UNCHANGED <<documents, favorites, opened, owner, proposal, proposalState>>
  BY <1>1, ShelfKept
<1>2. ASSUME NEW d \in DocId, documents' = documents \union {d},
             UNCHANGED <<favorites, opened, owner, proposal, proposalState>>
      PROVE  Shelf!Next
  <2>1. Shelf!Learn(d)
    BY <1>2, ShelfDiffsKept DEF Shelf!Learn
  <2> QED
    BY <2>1 DEF Shelf!Next
<1>3. ASSUME NEW d \in DocId, NEW favorite \in BOOLEAN, SetFavorite(d, favorite)
      PROVE  Shelf!Next
  <2>1. Shelf!SetMark("favorite", d)
    BY <1>3, ShelfDiffsKept DEF SetFavorite, Shelf!SetMark
  <2> QED
    BY <2>1 DEF Shelf!Next
<1>4. ASSUME NEW d \in DocId, RecordOpened(d)
      PROVE  Shelf!Next
  <2>1. Shelf!SetMark("opened", d)
    BY <1>4, ShelfDiffsKept DEF RecordOpened, Shelf!SetMark
  <2> QED
    BY <2>1 DEF Shelf!Next
<1>5. ASSUME NEW d \in DocId, NEW pl \in Place, UpsertRecord(d, pl)
      PROVE  Shelf!Next
  <2>1. CASE owner[pl] = NoDoc
    <3>1. Shelf!Shelve(d, pl)
      BY <1>5, <2>1, ShelfDiffsKept DEF UpsertRecord, Shelf!Shelve
    <3> QED
      BY <3>1 DEF Shelf!Next, Place
  <2>2. CASE owner[pl] = d
    <3>1. owner' = owner
      BY <1>5, <2>2 DEF TypeOK, UpsertRecord
    <3> QED
      BY <1>2, <1>5, <3>1 DEF UpsertRecord
  <2> QED
    BY <1>5, <2>1, <2>2 DEF UpsertRecord
<1>6. ASSUME NEW id \in ProposalId, NEW d \in DocId, NEW from \in Place, NEW to \in Place,
             NEW g \in Generation, NEW f \in FsId \union {NoFsId},
             ProposeReconciliation(id, d, from, to, g, f)
      PROVE  Shelf!Next
  <2> DEFINE new == [book |-> d, from |-> from, to |-> to,
                     relinkable |-> Resolve(from, to, f).mayRelinkAutomatically]
  <2>1. new \in Shelf!Diff /\ owner[from] = d /\ (new.relinkable => from # to)
    BY <1>6, ResolveType, AuthorityOfResolve
    DEF ProposeReconciliation, CanPropose, Shelf!Diff, Resolution
  <2>2. ShelfDiff(id) = NoProposal /\ ShelfDiff(id)' = new
    BY <1>6 DEF TypeOK, ProposeReconciliation, CanPropose, ShelfDiff
  <2>3. \A other \in ProposalId \ {id} : ShelfDiff(other)' = ShelfDiff(other)
    BY <1>6 DEF TypeOK, ProposeReconciliation, ShelfDiff
  <2>4. \A other \in ProposalId : ShelfDecision(other)' = ShelfDecision(other)
    BY <1>6 DEF TypeOK, ProposeReconciliation, CanPropose, ShelfDecision
  <2>5. [other \in ProposalId |-> ShelfDiff(other)']
          = [[other \in ProposalId |-> ShelfDiff(other)] EXCEPT ![id] = new]
    BY <2>2, <2>3
  <2>6. Shelf!Review(id)
    BY <1>6, <2>1, <2>2, <2>4, <2>5 DEF ProposeReconciliation, Shelf!Review
  <2> QED
    BY <2>6 DEF Shelf!Next
<1>7. ASSUME NEW id \in ProposalId, ApplyReconciliation(id)
      PROVE  Shelf!Next
  <2>1. /\ proposalState[id] = "pending" /\ proposal[id] \in Proposal
        /\ ShelfDiff(id) = [book |-> proposal[id].document,
                            from |-> proposal[id].from, to |-> proposal[id].to,
                            relinkable |-> proposal[id].mayRelinkAutomatically]
        /\ ShelfDiff(id) # NoProposal
    BY <1>7, ApplyEffect, ShelfDiffIsDiff DEF Pending, ShelfDiff
  <2>2. Shelf!Open(id)
    BY <2>1 DEF Shelf!Open, ShelfDecision
  <2>3. \A other \in ProposalId :
           /\ ShelfDiff(other)' = ShelfDiff(other)
           /\ ShelfDecision(other)' = IF other = id THEN "relinked" ELSE ShelfDecision(other)
    BY <1>7, <2>1 DEF TypeOK, ApplyReconciliation, ShelfDiff, ShelfDecision
  <2>4. UNCHANGED [other \in ProposalId |-> ShelfDiff(other)]
        /\ [other \in ProposalId |-> ShelfDecision(other)']
             = [[other \in ProposalId |-> ShelfDecision(other)] EXCEPT ![id] = "relinked"]
    BY <2>3
  <2>5. /\ ShelfDiff(id).relinkable
        /\ owner[ShelfDiff(id).from] = ShelfDiff(id).book
        /\ owner[ShelfDiff(id).to] = NoDoc
        /\ owner' = [owner EXCEPT ![ShelfDiff(id).from] = NoDoc,
                                  ![ShelfDiff(id).to] = ShelfDiff(id).book]
        /\ UNCHANGED <<documents, favorites, opened>>
    BY <1>7, <2>1 DEF ApplyReconciliation, ProvenSafeMove, TargetFree
  <2>6. Shelf!Relink(id)
    BY <2>2, <2>4, <2>5 DEF Shelf!Relink
  <2> QED
    BY <2>6 DEF Shelf!Next
<1>8. ASSUME NEW id \in ProposalId, DismissReconciliation(id)
      PROVE  Shelf!Next
  <2>1. proposalState[id] = "pending"
    BY <1>8 DEF DismissReconciliation
  <2>2. Shelf!Open(id)
    BY <2>1, ShelfDiffIsDiff DEF Shelf!Open, ShelfDecision
  <2>3. \A other \in ProposalId :
           /\ ShelfDiff(other)' = ShelfDiff(other)
           /\ ShelfDecision(other)' = IF other = id THEN "dismissed" ELSE ShelfDecision(other)
    BY <1>8, <2>1 DEF TypeOK, DismissReconciliation, ShelfDiff, ShelfDecision
  <2>4. Shelf!Dismiss(id)
    BY <1>8, <2>2, <2>3 DEF DismissReconciliation, Shelf!Dismiss
  <2> QED
    BY <2>4 DEF Shelf!Next
<1>9. CASE RootNext \/ UNCHANGED indexVars
  BY <1>1, <1>9
  DEF RootNext, RegisterRoot, SetRootAvailability, BeginRootScan, FinishRootScan, indexVars
<1>10. CASE DocumentNext
  BY <1>1, <1>2, <1>3, <1>4, <1>10
  DEF DocumentNext, UpsertRecordWithoutRoot, RebuildSearchIndex
<1>11. CASE LocationNext
  BY <1>1, <1>5, <1>11
  DEF LocationNext, ObserveLocation, SetLocationFilesystemIdentity
<1> QED
  BY <1>6, <1>7, <1>8, <1>9, <1>10, <1>11 DEF IndexNext, ProposalNext

LEMMA SoundImplementsShelf == Shelf!Init /\ SoundStore => ImplementsBookShelf
BY ShelfStep, StoreStaysSound, PTL
DEF SoundStore, StoreInv, ImplementsBookShelf, Shelf!Spec

(* The store keeps the promise of the shelf whatever its callers do: every *)
(* operation of SqliteLibraryIndex maps to one step of BookShelf or none.  *)
THEOREM StoreImplementsShelf == IndexSpec => ImplementsBookShelf
BY ShelfInit, SoundImplementsShelf, EmptyStoreIsSound DEF IndexSpec
=============================================================================
