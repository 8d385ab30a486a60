---------------------------- MODULE LibraryIndex ----------------------------
(***************************************************************************)
(* The durable library store (app/index/SqliteLibraryIndex): the roots,    *)
(* documents, document_locations, reconciliation_proposals and FTS tables  *)
(* with one action per public operation.                                   *)
(*                                                                         *)
(* Every operation holds the index mutex for its whole duration and is     *)
(* one SQL statement or one BEGIN IMMEDIATE transaction, so each is one    *)
(* atomic step.  An operation that throws changes nothing: its guard is    *)
(* false.  Callers are unconstrained here - any caller, at any time, with  *)
(* any scan generation it may still hold; LibraryIngestion adds the        *)
(* callers the program has.                                                *)
(*                                                                         *)
(* A table is kept by columns.  A (root_id, source_path) pair is a Place;  *)
(* a place with no row has the defaults an INSERT gives a new row.         *)
(*                                                                         *)
(* A definition named Operation_Defect is that operation with a plausible  *)
(* defect.  No specification uses it: it is what a property is tried       *)
(* against to show that the property can fail (PROJECT.json, "mutants").   *)
(***************************************************************************)
EXTENDS Integers, DocumentIdentity

CONSTANTS
    RootId,          \* library_roots.root_id
    Source,          \* library_roots.source_path
    Path,            \* document_locations.source_path
    Name,            \* searchable text of a document
    FileName,        \* the file name of a path
    DocId,           \* documents.document_id
    FsId,            \* opaque filesystem identities
    ProposalId,      \* reconciliation_proposals.proposal_id
    MaxGeneration,   \* the largest scan generation the column holds
    NoSource, NoName, NoDoc, NoFsId, NoProposal

ASSUME IndexAssumption ==
    /\ MaxGeneration \in Nat
    /\ FileName \in [Path -> Name]
    /\ NoSource \notin Source
    /\ NoName \notin Name
    /\ NoDoc \notin DocId
    /\ NoFsId \notin FsId
    /\ NoProposal \notin [book : DocId, from : RootId \X Path, to : RootId \X Path,
                          relinkable : BOOLEAN]

VARIABLES
    rootSource,      \* root -> its source path, or NoSource: not registered
    availability,    \* root -> library_roots.availability
    generation,      \* root -> scan_generation
    completed,       \* root -> last_completed_scan_generation
    documents,       \* the ids in the documents table
    fileName,        \* document -> documents.file_name
    searchName,      \* document -> its row in documents_fts, or NoName
    favorites,       \* documents with is_favorite = 1
    opened,          \* documents with a last_opened_utc_ms
    owner,           \* place -> document linked to it, or NoDoc: no row
    identity,        \* place -> filesystem_identity, or NoFsId: NULL
    lastSeen,        \* place -> last_seen_scan_generation
    proposal,        \* proposal id -> its row
    proposalState    \* proposal id -> "none" (no row) or its state

rootVars == <<rootSource, availability, generation, completed>>
documentVars == <<documents, fileName, searchName, favorites, opened>>
locationVars == <<owner, identity, lastSeen>>
proposalVars == <<proposal, proposalState>>
indexVars == <<rootSource, availability, generation, completed,
               documents, fileName, searchName, favorites, opened,
               owner, identity, lastSeen, proposal, proposalState>>

Place == RootId \X Path
Generation == 0 .. MaxGeneration

RootAvailability == {"available", "offline", "partial", "permissionDenied"}
ProposalState == {"none", "pending", "applied", "dismissed"}

Proposal ==
    [document : DocId, from : Place, to : Place,
     generation : Generation, filesystemIdentity : FsId \union {NoFsId},
     decision : IdentityDecision, mayRelinkAutomatically : BOOLEAN]

Registered == {r \in RootId : rootSource[r] # NoSource}
Linked == {pl \in Place : owner[pl] # NoDoc}
Pending == {id \in ProposalId : proposalState[id] = "pending"}

TypeOK ==
    /\ rootSource \in [RootId -> Source \union {NoSource}]
    /\ availability \in [RootId -> RootAvailability]
    /\ generation \in [RootId -> Generation]
    /\ completed \in [RootId -> Generation]
    /\ documents \subseteq DocId
    /\ fileName \in [DocId -> Name \union {NoName}]
    /\ searchName \in [DocId -> Name \union {NoName}]
    /\ favorites \subseteq DocId
    /\ opened \subseteq DocId
    /\ owner \in [Place -> DocId \union {NoDoc}]
    /\ identity \in [Place -> FsId \union {NoFsId}]
    /\ lastSeen \in [Place -> Generation]
    /\ proposalState \in [ProposalId -> ProposalState]
    /\ DOMAIN proposal = ProposalId
    /\ \A id \in ProposalId :
          proposalState[id] # "none" => proposal[id] \in Proposal

IndexInit ==
    /\ rootSource = [r \in RootId |-> NoSource]
    /\ availability = [r \in RootId |-> "available"]
    /\ generation = [r \in RootId |-> 0]
    /\ completed = [r \in RootId |-> 0]
    /\ documents = {}
    /\ fileName = [d \in DocId |-> NoName]
    /\ searchName = [d \in DocId |-> NoName]
    /\ favorites = {}
    /\ opened = {}
    /\ owner = [pl \in Place |-> NoDoc]
    /\ identity = [pl \in Place |-> NoFsId]
    /\ lastSeen = [pl \in Place |-> 0]
    /\ proposal = [id \in ProposalId |-> NoProposal]
    /\ proposalState = [id \in ProposalId |-> "none"]

-----------------------------------------------------------------------------
(* Roots and scans.                                                        *)

(* An id keeps its source path forever and a source path has one id.       *)
RegisterRoot(r, s, a) ==
    /\ \/ rootSource[r] = s
       \/ /\ rootSource[r] = NoSource
          /\ \A q \in RootId : rootSource[q] # s
    /\ rootSource' = [rootSource EXCEPT ![r] = s]
    /\ availability' = [availability EXCEPT ![r] = a]
    /\ UNCHANGED <<generation, completed, documentVars, locationVars, proposalVars>>

SetRootAvailability(r, a) ==
    /\ r \in Registered
    /\ availability' = [availability EXCEPT ![r] = a]
    /\ UNCHANGED <<rootSource, generation, completed, documentVars, locationVars, proposalVars>>

BeginRootScan_NoCeiling(r) ==
    /\ r \in Registered
    /\ generation' = [generation EXCEPT ![r] = @ + 1]
    /\ UNCHANGED <<rootSource, availability, completed, documentVars, locationVars, proposalVars>>

(* The generation a caller gets is generation'[r].                         *)
BeginRootScan(r) ==
    /\ r \in Registered
    /\ generation[r] < MaxGeneration
    /\ generation' = [generation EXCEPT ![r] = @ + 1]
    /\ UNCHANGED <<rootSource, availability, completed, documentVars, locationVars, proposalVars>>

(* What observing place pl with filesystem identity f reports.             *)
Observation(pl, f) ==
    CASE owner[pl] = NoDoc -> "unlinked"
      [] owner[pl] # NoDoc /\ NoFsId \notin {f, identity[pl]} /\ identity[pl] # f
            -> "replaced"
      [] owner[pl] # NoDoc /\ f # NoFsId /\ identity[pl] = NoFsId
            -> "identityInitialized"
      [] OTHER -> "unchanged"

ObserveLocation_AnyGeneration(pl, g, f) ==
    /\ pl[1] \in Registered
    /\ Observation(pl, f) \in {"unchanged", "identityInitialized"}
    /\ lastSeen' = [lastSeen EXCEPT ![pl] = g]
    /\ identity' = [identity EXCEPT ![pl] = IF @ = NoFsId THEN f ELSE @]
    /\ UNCHANGED <<owner, rootVars, documentVars, proposalVars>>

ObserveLocation_TakesIdentity(pl, g, f) ==
    /\ pl[1] \in Registered
    /\ g > 0
    /\ generation[pl[1]] = g
    /\ IF owner[pl] # NoDoc
       THEN /\ lastSeen' = [lastSeen EXCEPT ![pl] = g]
            /\ identity' = [identity EXCEPT ![pl] = IF f = NoFsId THEN @ ELSE f]
       ELSE UNCHANGED <<lastSeen, identity>>
    /\ UNCHANGED <<owner, rootVars, documentVars, proposalVars>>

(* A superseded scan is refused.  Only a place that is linked and not      *)
(* replaced is marked as seen; a missing identity is filled in, a stored   *)
(* one is never overwritten.                                               *)
ObserveLocation(pl, g, f) ==
    /\ pl[1] \in Registered
    /\ g > 0
    /\ generation[pl[1]] = g
    /\ IF Observation(pl, f) \in {"unchanged", "identityInitialized"}
       THEN /\ lastSeen' = [lastSeen EXCEPT ![pl] = g]
            /\ identity' = [identity EXCEPT ![pl] = IF @ = NoFsId THEN f ELSE @]
       ELSE UNCHANGED <<lastSeen, identity>>
    /\ UNCHANGED <<owner, rootVars, documentVars, proposalVars>>

FinishRootScan_AnyGeneration(r, g, a) ==
    /\ r \in Registered
    /\ availability' = [availability EXCEPT ![r] = a]
    /\ completed' = [completed EXCEPT ![r] = IF a = "available" THEN g ELSE @]
    /\ UNCHANGED <<rootSource, generation, documentVars, locationVars, proposalVars>>

(* Only an outcome of "available" moves the completed generation.          *)
FinishRootScan(r, g, a) ==
    /\ r \in Registered
    /\ g > 0
    /\ generation[r] = g
    /\ availability' = [availability EXCEPT ![r] = a]
    /\ completed' = [completed EXCEPT ![r] = IF a = "available" THEN g ELSE @]
    /\ UNCHANGED <<rootSource, generation, documentVars, locationVars, proposalVars>>

-----------------------------------------------------------------------------
(* Documents and locations.                                                *)

(* The FTS triggers run inside the statement that writes the text columns. *)
WriteText_NoUpdateTrigger(d, p) ==
    /\ fileName' = [fileName EXCEPT ![d] = FileName[p]]
    /\ searchName' = [searchName EXCEPT ![d] = IF @ = NoName THEN FileName[p] ELSE @]

WriteText(d, p) ==
    /\ fileName' = [fileName EXCEPT ![d] = FileName[p]]
    /\ searchName' = [searchName EXCEPT ![d] = FileName[p]]

UpsertRecord_TakesOver(d, pl) ==
    /\ pl[1] \in Registered
    /\ documents' = documents \union {d}
    /\ WriteText(d, pl[2])
    /\ owner' = [owner EXCEPT ![pl] = d]
    /\ UNCHANGED <<favorites, opened, identity, lastSeen, rootVars, proposalVars>>

UpsertRecord_NoForeignKeys(d, pl) ==
    /\ owner[pl] \in {NoDoc, d}
    /\ documents' = documents \union {d}
    /\ WriteText(d, pl[2])
    /\ owner' = [owner EXCEPT ![pl] = d]
    /\ UNCHANGED <<favorites, opened, identity, lastSeen, rootVars, proposalVars>>

(* With a root: the document and its location in one transaction, refused  *)
(* when the place belongs to another book.                                 *)
UpsertRecord(d, pl) ==
    /\ pl[1] \in Registered
    /\ owner[pl] \in {NoDoc, d}
    /\ documents' = documents \union {d}
    /\ WriteText(d, pl[2])
    /\ owner' = [owner EXCEPT ![pl] = d]
    /\ UNCHANGED <<favorites, opened, identity, lastSeen, rootVars, proposalVars>>

(* Without a root: the document alone.                                     *)
UpsertRecordWithoutRoot(d, p) ==
    /\ documents' = documents \union {d}
    /\ WriteText(d, p)
    /\ UNCHANGED <<favorites, opened, rootVars, locationVars, proposalVars>>

SetLocationFilesystemIdentity(d, pl, f) ==
    /\ owner[pl] = d
    /\ identity' = [identity EXCEPT ![pl] = f]
    /\ UNCHANGED <<owner, lastSeen, rootVars, documentVars, proposalVars>>

(* locationsByFilesystemIdentity: a query for no identity matches nothing. *)
LocationsByFilesystemIdentity(f) ==
    {pl \in Linked : f # NoFsId /\ identity[pl] = f}

SetFavorite(d, favorite) ==
    /\ d \in documents
    /\ favorites' = IF favorite THEN favorites \union {d} ELSE favorites \ {d}
    /\ UNCHANGED <<documents, fileName, searchName, opened, rootVars, locationVars, proposalVars>>

RecordOpened(d) ==
    /\ d \in documents
    /\ opened' = opened \union {d}
    /\ UNCHANGED <<documents, fileName, searchName, favorites, rootVars, locationVars, proposalVars>>

RebuildSearchIndex ==
    /\ searchName' = [d \in DocId |-> IF d \in documents THEN fileName[d] ELSE NoName]
    /\ UNCHANGED <<documents, fileName, favorites, opened, rootVars, locationVars, proposalVars>>

-----------------------------------------------------------------------------
(* Reconciliation.                                                         *)

CurrentCompleteScan_AnyNewer(r, g) ==
    /\ availability[r] = "available"
    /\ completed[r] >= g

(* The candidate comes from the current, successfully completed scan.      *)
CurrentCompleteScan(r, g) ==
    /\ availability[r] = "available"
    /\ generation[r] = g
    /\ completed[r] >= g

PreviousState_OffByOne(pl) ==
    CASE availability[pl[1]] = "offline" -> "rootOffline"
      [] availability[pl[1]] \in {"partial", "permissionDenied"} -> "scanIncomplete"
      [] OTHER -> IF completed[pl[1]] >= lastSeen[pl]
                  THEN "missingAfterCompleteScan" ELSE "available"

(* With its root available, a place that the newest completed scan did not *)
(* mark as seen counts as missing - also one that was linked only after    *)
(* that scan, whose last_seen_scan_generation is still 0.                  *)
PreviousState(pl) ==
    CASE availability[pl[1]] = "offline" -> "rootOffline"
      [] availability[pl[1]] \in {"partial", "permissionDenied"} -> "scanIncomplete"
      [] OTHER -> IF completed[pl[1]] > lastSeen[pl]
                  THEN "missingAfterCompleteScan" ELSE "available"

EvidenceFor_EmptyMatches(from, to, f) ==
    [samePath |-> from = to,
     previousLocation |-> PreviousState(from),
     sameFilesystemIdentity |-> IF identity[from] = f THEN "yes" ELSE "no",
     sameRevision |-> "unknown",
     samePdfIdentifier |-> "unknown",
     sameContentFingerprint |-> "unknown"]

EvidenceFor(from, to, f) ==
    [samePath |-> from = to,
     previousLocation |-> PreviousState(from),
     sameFilesystemIdentity |->
        IF NoFsId \in {identity[from], f} THEN "unknown"
        ELSE IF identity[from] = f THEN "yes" ELSE "no",
     sameRevision |-> "unknown",
     samePdfIdentifier |-> "unknown",
     sameContentFingerprint |-> "unknown"]

Resolve(from, to, f) == ReconcileDocumentIdentity(EvidenceFor(from, to, f))

CanPropose(id, d, from, to, g) ==
    /\ proposalState[id] = "none"
    /\ d # NoDoc
    /\ owner[from] = d
    /\ from[1] \in Registered
    /\ to[1] \in Registered
    /\ g > 0
    /\ CurrentCompleteScan(to[1], g)

ProposeReconciliation(id, d, from, to, g, f) ==
    /\ CanPropose(id, d, from, to, g)
    /\ LET resolution == Resolve(from, to, f)
       IN  proposal' = [proposal EXCEPT ![id] =
               [document |-> d, from |-> from, to |-> to,
                generation |-> g, filesystemIdentity |-> f,
                decision |-> resolution.decision,
                mayRelinkAutomatically |-> resolution.mayRelinkAutomatically]]
    /\ proposalState' = [proposalState EXCEPT ![id] = "pending"]
    /\ UNCHANGED <<rootVars, documentVars, locationVars>>

ProvenSafeMove_TrustsProposal(id) ==
    LET p == proposal[id] IN
    /\ proposalState[id] = "pending"
    /\ owner[p.from] = p.document
    /\ p.mayRelinkAutomatically
    /\ CurrentCompleteScan(p.to[1], p.generation)

(* What applyReconciliation re-reads and re-checks inside its transaction. *)
ProvenSafeMove(id) ==
    LET p == proposal[id] IN
    /\ proposalState[id] = "pending"
    /\ owner[p.from] = p.document
    /\ p.decision = "confidentMove"
    /\ p.mayRelinkAutomatically
    /\ availability[p.from[1]] = "available"
    /\ completed[p.from[1]] > lastSeen[p.from]
    /\ CurrentCompleteScan(p.to[1], p.generation)
    /\ identity[p.from] # NoFsId
    /\ identity[p.from] = p.filesystemIdentity

TargetFree_Replaces(id) == TRUE

(* The target must be free (UNIQUE (root_id, source_path)).                *)
TargetFree(id) == owner[proposal[id].to] = NoDoc

ApplyReconciliation(id) ==
    LET p == proposal[id] IN
    /\ ProvenSafeMove(id)
    /\ TargetFree(id)
    /\ owner' = [owner EXCEPT ![p.from] = NoDoc, ![p.to] = p.document]
    /\ identity' = [identity EXCEPT ![p.from] = NoFsId, ![p.to] = p.filesystemIdentity]
    /\ lastSeen' = [lastSeen EXCEPT ![p.from] = 0, ![p.to] = p.generation]
    /\ WriteText(p.document, p.to[2])
    /\ proposalState' = [proposalState EXCEPT ![id] = "applied"]
    /\ UNCHANGED <<proposal, documents, favorites, opened, rootVars>>

DismissReconciliation(id) ==
    /\ proposalState[id] = "pending"
    /\ proposalState' = [proposalState EXCEPT ![id] = "dismissed"]
    /\ UNCHANGED <<proposal, rootVars, documentVars, locationVars>>

-----------------------------------------------------------------------------

RootNext ==
    \E r \in RootId :
        \/ \E s \in Source, a \in RootAvailability : RegisterRoot(r, s, a)
        \/ \E a \in RootAvailability : SetRootAvailability(r, a)
        \/ BeginRootScan(r)
        \/ \E g \in Generation, a \in RootAvailability : FinishRootScan(r, g, a)

DocumentNext ==
    \/ \E d \in DocId, p \in Path : UpsertRecordWithoutRoot(d, p)
    \/ \E d \in DocId, favorite \in BOOLEAN : SetFavorite(d, favorite)
    \/ \E d \in DocId : RecordOpened(d)
    \/ RebuildSearchIndex

LocationNext ==
    \E pl \in Place :
        \/ \E g \in Generation, f \in FsId \union {NoFsId} : ObserveLocation(pl, g, f)
        \/ \E d \in DocId : UpsertRecord(d, pl)
        \/ \E d \in DocId, f \in FsId : SetLocationFilesystemIdentity(d, pl, f)

ProposalNext ==
    \E id \in ProposalId :
        \/ \E d \in DocId, from, to \in Place, g \in Generation, f \in FsId \union {NoFsId} :
              ProposeReconciliation(id, d, from, to, g, f)
        \/ ApplyReconciliation(id)
        \/ DismissReconciliation(id)

IndexNext == RootNext \/ DocumentNext \/ LocationNext \/ ProposalNext

IndexSpec == IndexInit /\ [][IndexNext]_indexVars

-----------------------------------------------------------------------------
(* Properties.                                                             *)

(* Scan evidence is ordered: a root never claims a completed scan newer    *)
(* than the newest it began, a linked place was never seen by a scan that  *)
(* has not begun, and every proposal names a scan of its candidate root    *)
(* that began and completed.                                               *)
ScanEvidenceOrdered ==
    /\ \A r \in RootId : completed[r] <= generation[r]
    /\ \A pl \in Place : lastSeen[pl] <= generation[pl[1]]
    /\ \A id \in ProposalId :
          proposalState[id] # "none" =>
              /\ proposal[id].generation > 0
              /\ proposal[id].generation <= completed[proposal[id].to[1]]

(* The rows a row refers to exist: foreign keys, favorites and recents,    *)
(* and no evidence is left behind at a place whose row moved away.         *)
RowsRefer ==
    /\ \A pl \in Linked : owner[pl] \in documents /\ pl[1] \in Registered
    /\ \A pl \in Place \ Linked : identity[pl] = NoFsId /\ lastSeen[pl] = 0
    /\ favorites \union opened \subseteq documents
    /\ \A id \in ProposalId :
          proposalState[id] # "none" =>
              /\ proposal[id].document \in documents
              /\ {proposal[id].from[1], proposal[id].to[1]} \subseteq Registered

(* Authority to relink is never recorded without a filesystem identity to  *)
(* recheck it by, nor for a candidate at the place the book already has.   *)
RelinkAuthorityIsBacked ==
    \A id \in ProposalId :
        proposalState[id] # "none" /\ proposal[id].mayRelinkAutomatically =>
            /\ proposal[id].decision = "confidentMove"
            /\ proposal[id].filesystemIdentity # NoFsId
            /\ proposal[id].from # proposal[id].to

(* Search finds every document under its current file name and finds       *)
(* nothing else.                                                           *)
SearchMatchesDocuments ==
    \A d \in DocId : searchName[d] = IF d \in documents THEN fileName[d] ELSE NoName

(* A book leaves a place only by an applied move.  When it does, the move  *)
(* had been pending as a reviewable row, both roots were available, the    *)
(* newest completed scan of the old root had not seen the book there, the  *)
(* new place was free, and the book keeps its filesystem object.           *)
BooksMoveOnlyWhenProven ==
    [][\A pl \in Linked :
          owner'[pl] # owner[pl] =>
              \E id \in Pending :
                  LET to == proposal[id].to IN
                  /\ proposalState'[id] = "applied"
                  /\ proposal[id].from = pl
                  /\ to \notin Linked
                  /\ owner'[to] = owner[pl]
                  /\ identity[pl] # NoFsId
                  /\ identity'[to] = identity[pl]
                  /\ availability[pl[1]] = "available"
                  /\ availability[to[1]] = "available"
                  /\ completed[pl[1]] > lastSeen[pl]
                  /\ generation[to[1]] = proposal[id].generation]_indexVars

(* No operation leaves a book that had a place without any.                *)
LinkedBooksStayLinked ==
    [][\A pl \in Linked : \E new \in Place : owner'[new] = owner[pl]]_indexVars

(* An older scan never overwrites a newer one: completion only moves to    *)
(* the newest generation begun, and while a book stays at a place the scan *)
(* that last saw it there only gets newer.                                 *)
NewerScanWins ==
    [][/\ \A r \in RootId :
             completed'[r] # completed[r] =>
                 completed'[r] > completed[r] /\ completed'[r] = generation[r]
       /\ \A pl \in Linked : owner'[pl] = owner[pl] => lastSeen'[pl] >= lastSeen[pl]
      ]_indexVars

(* A newer scan of its candidate root retires a proposal for good: from    *)
(* then on it can only be dismissed.                                       *)
Superseded(id) ==
    /\ id \in Pending
    /\ generation[proposal[id].to[1]] > proposal[id].generation

SupersededMovesNeverApply ==
    [][\A id \in ProposalId :
          Superseded(id) => Superseded(id)' \/ proposalState'[id] = "dismissed"]_indexVars

-----------------------------------------------------------------------------
(* Refinement: the tables implement the promise of BookShelf.              *)

ShelfDiff(id) ==
    IF proposalState[id] = "none" THEN NoProposal
    ELSE [book |-> proposal[id].document,
          from |-> proposal[id].from, to |-> proposal[id].to,
          relinkable |-> proposal[id].mayRelinkAutomatically]

ShelfDecision(id) ==
    CASE proposalState[id] = "applied" -> "relinked"
      [] proposalState[id] = "dismissed" -> "dismissed"
      [] OTHER -> "open"

Shelf == INSTANCE BookShelf WITH
    Book <- DocId, DiffId <- ProposalId, Mark <- {"favorite", "opened"},
    NoBook <- NoDoc, NoDiff <- NoProposal,
    books <- documents, shelf <- owner,
    diff <- [id \in ProposalId |-> ShelfDiff(id)],
    decided <- [id \in ProposalId |-> ShelfDecision(id)],
    marks <- [m \in {"favorite", "opened"} |-> IF m = "favorite" THEN favorites ELSE opened]

(* Every operation on the store is one allowed move of the book shelf, or  *)
(* invisible to it.                                                        *)
ImplementsBookShelf == Shelf!Spec
=============================================================================
