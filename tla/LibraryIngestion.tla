-------------------------- MODULE LibraryIngestion --------------------------
(***************************************************************************)
(* One ingestion at a time (app/index/LibraryIngestionService, running     *)
(* LibraryScanService over LibraryScanner) over the library store, while   *)
(* the disk changes under it, the person reviews proposals from another    *)
(* thread, and the program may stop at any point.  The store is            *)
(* LibraryIndex: what survives a stop.  The rest of the program's state is *)
(* volatile.                                                               *)
(*                                                                         *)
(* One step is one call of the store with the disk reads just before it.   *)
(* The scanner is abstracted to a listing of the PDF paths under a root in *)
(* any order, some of which it may fail to read.                           *)
(***************************************************************************)
EXTENDS LibraryIndex, Sequences, FiniteSets

CONSTANTS
    PathsOf,         \* root -> the PDF paths below it; roots may overlap
    RootOrder,       \* the roots in the order of their ids, each of them once
    IdentityCanFail, \* the filesystem may not tell the identity of a file
    BatchSize,       \* listed paths that are published together
    MaxDiskChanges,  \* bound: changes of the disk in a behaviour
    NoWork           \* no discovery is between two calls

ASSUME IngestionAssumption ==
    /\ PathsOf \in [RootId -> SUBSET Path]
    /\ RootOrder \in Seq(RootId)
    /\ \A i, j \in 1 .. Len(RootOrder) : RootOrder[i] = RootOrder[j] => i = j
    /\ \A r \in RootId : \E i \in 1 .. Len(RootOrder) : RootOrder[i] = r
    /\ IdentityCanFail \in BOOLEAN
    /\ BatchSize \in Nat \ {0}
    /\ MaxDiskChanges \in Nat

VARIABLES
    file,            \* path -> the filesystem object there, or NoFsId
    diskChanges,     \* how often the disk has changed
    phase,           \* "idle", "scanning" or "ingesting"
    cancelled,       \* the cancellation flag
    rootQueue,       \* roots still to scan; the head is being scanned
    scanGeneration,  \* root -> the generation this ingestion began, or 0
    outcome,         \* root -> how its scan ended, or "none"
    listing,         \* what of the current root could be read so far
    unvisited,       \* paths of the current root not reached yet
    batch,           \* listed paths not yet published
    publishing,      \* the full batch is being published
    published,       \* newPathsPublished
    discoveries,     \* found files awaiting ingestion
    pendingCandidates, \* places with a pending proposal, as last read
    work,            \* the discovery between two calls, or NoWork
    undisturbed      \* history: nobody interfered since the ingestion began

diskVars == <<file, diskChanges>>
scanVars == <<cancelled, rootQueue, scanGeneration, outcome, listing,
              unvisited, batch, publishing, published>>
ingestVars == <<discoveries, pendingCandidates, work>>
vars == <<indexVars, diskVars, phase, scanVars, ingestVars, undisturbed>>

Outcome == {"complete", "partial", "unavailable", "cancelled"}

Discovery ==
    [place : Place, identity : FsId \union {NoFsId},
     kind : {"newPath", "replacementAtKnownPath"},
     previous : DocId \union {NoDoc}]

Work ==
    [step : {"propose", "create", "identify"},
     document : DocId \union {NoDoc}, from : Place]

OnDisk(p) == file[p] # NoFsId

IngestionTypeOK ==
    /\ TypeOK
    /\ file \in [Path -> FsId \union {NoFsId}]
    /\ diskChanges \in 0 .. MaxDiskChanges
    /\ phase \in {"idle", "scanning", "ingesting"}
    /\ cancelled \in BOOLEAN
    /\ rootQueue \in Seq(RootId)
    /\ scanGeneration \in [RootId -> Generation]
    /\ outcome \in [RootId -> Outcome \union {"none"}]
    /\ listing \in {"complete", "partial", "unavailable"}
    /\ unvisited \subseteq Path
    /\ batch \in Seq(Path) /\ Len(batch) <= BatchSize
    /\ publishing \in BOOLEAN
    /\ published \subseteq Path
    /\ discoveries \in Seq(Discovery)
    /\ pendingCandidates \subseteq Place
    /\ work \in Work \union {NoWork}
    /\ undisturbed \in BOOLEAN

(* Nothing volatile is left: before the first ingestion, after each, and   *)
(* when the program starts again.                                          *)
Idle ==
    /\ phase = "idle"
    /\ cancelled = FALSE
    /\ rootQueue = <<>>
    /\ scanGeneration = [r \in RootId |-> 0]
    /\ outcome = [r \in RootId |-> "none"]
    /\ listing = "complete"
    /\ unvisited = {}
    /\ batch = <<>>
    /\ publishing = FALSE
    /\ published = {}
    /\ discoveries = <<>>
    /\ pendingCandidates = {}
    /\ work = NoWork

(* The roots have just been registered and nothing has been scanned.       *)
Init ==
    /\ \E source \in [RootId -> Source] :
          /\ \A r, q \in RootId : source[r] = source[q] => r = q
          /\ rootSource = source
    /\ availability = [r \in RootId |-> "available"]
    /\ generation = [r \in RootId |-> 0]
    /\ completed = [r \in RootId |-> 0]
    /\ documents = {} /\ favorites = {} /\ opened = {}
    /\ fileName = [d \in DocId |-> NoName]
    /\ searchName = [d \in DocId |-> NoName]
    /\ owner = [pl \in Place |-> NoDoc]
    /\ identity = [pl \in Place |-> NoFsId]
    /\ lastSeen = [pl \in Place |-> 0]
    /\ proposal = [id \in ProposalId |-> NoProposal]
    /\ proposalState = [id \in ProposalId |-> "none"]
    /\ file \in [Path -> FsId \union {NoFsId}]
    /\ diskChanges = 0
    /\ Idle
    /\ undisturbed = FALSE

-----------------------------------------------------------------------------
(* The scan service.                                                       *)

CurrentRoot == Head(rootQueue)
AtRootStart ==
    phase = "scanning" /\ rootQueue # <<>> /\ scanGeneration[CurrentRoot] = 0
InRoot ==
    phase = "scanning" /\ rootQueue # <<>> /\ scanGeneration[CurrentRoot] > 0

StartIngest ==
    /\ phase = "idle"
    /\ phase' = "scanning"
    /\ rootQueue' = RootOrder
    /\ undisturbed' = TRUE
    /\ UNCHANGED <<indexVars, diskVars, cancelled, scanGeneration, outcome,
                   listing, unvisited, batch, publishing, published, ingestVars>>

(* The root directory itself may be unreadable.                            *)
BeginRoot ==
    /\ AtRootStart
    /\ BeginRootScan(CurrentRoot)
    /\ scanGeneration' =
          [scanGeneration EXCEPT ![CurrentRoot] = generation'[CurrentRoot]]
    /\ \/ listing' = "complete" /\ unvisited' = PathsOf[CurrentRoot]
       \/ ~cancelled /\ listing' = "unavailable" /\ unvisited' = {}
    /\ UNCHANGED <<diskVars, phase, cancelled, rootQueue, outcome, batch,
                   publishing, published, ingestVars, undisturbed>>

(* Reaching a path: only what is on the disk at that moment is listed.     *)
List(p) ==
    /\ InRoot /\ ~cancelled /\ ~publishing
    /\ p \in unvisited
    /\ unvisited' = unvisited \ {p}
    /\ batch' = IF OnDisk(p) THEN Append(batch, p) ELSE batch
    /\ publishing' = (Len(batch') = BatchSize)
    /\ UNCHANGED <<indexVars, diskVars, phase, cancelled, rootQueue, listing,
                   scanGeneration, outcome, published, ingestVars, undisturbed>>

(* A path below a directory that cannot be read, or beyond a scan limit.   *)
Skip(p) ==
    /\ InRoot /\ ~cancelled /\ ~publishing
    /\ p \in unvisited
    /\ unvisited' = unvisited \ {p}
    /\ listing' = "partial"
    /\ UNCHANGED <<indexVars, diskVars, phase, cancelled, rootQueue,
                   scanGeneration, outcome, batch, publishing, published,
                   ingestVars, undisturbed>>

Found(pl, f) ==
    LET replaced == Observation(pl, f) = "replaced" IN
    [place |-> pl, identity |-> f,
     kind |-> IF replaced THEN "replacementAtKnownPath" ELSE "newPath",
     previous |-> owner[pl]]

IsKnown(pl, f) == Observation(pl, f) \in {"unchanged", "identityInitialized"}

ListingEnded_IgnoresCancel == unvisited = {}

ListingEnded == unvisited = {} \/ cancelled

(* Publication of one listed path, inspected with identity f, then         *)
(* observed.  A full batch goes out at once, the rest when listing ends    *)
(* for whatever reason.  Across roots, a path that is not known is handed  *)
(* on once.                                                                *)
Publish(p, f) ==
    LET pl == <<CurrentRoot, p>> IN
    /\ ObserveLocation(pl, scanGeneration[CurrentRoot], f)
    /\ IF IsKnown(pl, f) \/ p \in published
       THEN UNCHANGED <<discoveries, published>>
       ELSE /\ discoveries' = Append(discoveries, Found(pl, f))
            /\ published' = published \union {p}

(* The identity is read as the disk is now: none once the file has gone.   *)
PublishOne ==
    /\ InRoot /\ batch # <<>> /\ (publishing \/ ListingEnded)
    /\ \/ Publish(Head(batch), file[Head(batch)]) /\ UNCHANGED undisturbed
       \/ /\ IdentityCanFail /\ OnDisk(Head(batch))
          /\ Publish(Head(batch), NoFsId)
          /\ undisturbed' = FALSE
    /\ batch' = Tail(batch)
    /\ publishing' = (publishing /\ batch' # <<>>)
    /\ UNCHANGED <<diskVars, phase, cancelled, rootQueue, scanGeneration, outcome,
                   listing, unvisited, pendingCandidates, work>>

FinishedAvailability ==
    [complete |-> "available", partial |-> "partial", unavailable |-> "offline"]

(* A scan that ran to its end records its outcome in the store.            *)
FinishRoot ==
    /\ InRoot /\ batch = <<>> /\ unvisited = {}
    /\ FinishRootScan(CurrentRoot, scanGeneration[CurrentRoot],
                      FinishedAvailability[listing])
    /\ outcome' = [outcome EXCEPT ![CurrentRoot] = listing]
    /\ rootQueue' = Tail(rootQueue)
    /\ UNCHANGED <<diskVars, phase, cancelled, scanGeneration, listing, unvisited,
                   batch, publishing, published, ingestVars, undisturbed>>

(* A cancelled one records nothing, and no further root is scanned.        *)
CancelRoot ==
    /\ InRoot /\ batch = <<>> /\ cancelled
    /\ outcome' = [outcome EXCEPT ![CurrentRoot] = "cancelled"]
    /\ rootQueue' = <<>>
    /\ unvisited' = {}
    /\ UNCHANGED <<indexVars, diskVars, phase, cancelled, scanGeneration, listing,
                   batch, publishing, published, ingestVars, undisturbed>>

-----------------------------------------------------------------------------
(* Ingestion of the discoveries.                                           *)

ReadPendingCandidates_Forgets ==
    /\ phase = "scanning" /\ rootQueue = <<>>
    /\ phase' = "ingesting"
    /\ UNCHANGED <<indexVars, diskVars, scanVars, ingestVars, undisturbed>>

ReadPendingCandidates_AnyState ==
    /\ phase = "scanning" /\ rootQueue = <<>>
    /\ pendingCandidates' =
          {proposal[id].to : id \in {i \in ProposalId : proposalState[i] # "none"}}
    /\ phase' = "ingesting"
    /\ UNCHANGED <<indexVars, diskVars, scanVars, discoveries, work, undisturbed>>

ReadPendingCandidates ==
    /\ phase = "scanning" /\ rootQueue = <<>>
    /\ pendingCandidates' = {proposal[id].to : id \in Pending}
    /\ phase' = "ingesting"
    /\ UNCHANGED <<indexVars, diskVars, scanVars, discoveries, work, undisturbed>>

Current == Head(discoveries)

AtDiscovery ==
    phase = "ingesting" /\ work = NoWork /\ discoveries # <<>> /\ ~cancelled

(* Only a complete scan is evidence, and a candidate under review waits.   *)
Ingestible(d) ==
    /\ outcome[d.place[1]] = "complete"
    /\ d.place \notin pendingCandidates

NextDiscovery == discoveries' = Tail(discoveries) /\ work' = NoWork

SkipDiscovery ==
    /\ AtDiscovery /\ ~Ingestible(Current)
    /\ NextDiscovery
    /\ UNCHANGED <<indexVars, diskVars, phase, scanVars, pendingCandidates, undisturbed>>

(* A replacement is compared with the book at its own path; a new path     *)
(* with the one location that has its filesystem identity, if there is     *)
(* exactly one.                                                            *)
MatchDiscovery ==
    /\ AtDiscovery /\ Ingestible(Current)
    /\ LET matches == LocationsByFilesystemIdentity(Current.identity) IN
       work' = IF Current.kind = "replacementAtKnownPath"
               THEN [step |-> "propose", document |-> Current.previous,
                     from |-> Current.place]
               ELSE IF Cardinality(matches) = 1
               THEN LET pl == CHOOSE pl \in matches : TRUE IN
                    [step |-> "propose", document |-> owner[pl], from |-> pl]
               ELSE [step |-> "create", document |-> NoDoc, from |-> Current.place]
    /\ UNCHANGED <<indexVars, diskVars, phase, scanVars, discoveries,
                   pendingCandidates, undisturbed>>

AtStep(step) == phase = "ingesting" /\ work # NoWork /\ work.step = step

CreatesDocument(resolution) == resolution.decision \in {"newDocument", "distinctCopy"}

(* Stable ids are fresh ones; which fresh ones makes no difference.        *)
FreshProposal == CHOOSE id \in ProposalId : proposalState[id] = "none"
FreshDocument == CHOOSE d \in DocId : d \notin documents

Propose(id) ==
    /\ AtStep("propose")
    /\ proposalState[id] = "none" /\ id = FreshProposal
    /\ ProposeReconciliation(id, work.document, work.from, Current.place,
                             scanGeneration[Current.place[1]], Current.identity)
    /\ pendingCandidates' = pendingCandidates \union {Current.place}
    /\ IF CreatesDocument(Resolve(work.from, Current.place, Current.identity))
       THEN work' = [work EXCEPT !.step = "create"] /\ UNCHANGED discoveries
       ELSE NextDiscovery
    /\ UNCHANGED <<diskVars, phase, scanVars, undisturbed>>

Create_UnderMatchedId(d) ==
    /\ AtStep("create")
    /\ IF work.document = NoDoc THEN d \notin documents /\ d = FreshDocument
       ELSE d = work.document
    /\ UpsertRecord(d, Current.place)
    /\ IF Current.identity # NoFsId
       THEN work' = [work EXCEPT !.step = "identify", !.document = d]
            /\ UNCHANGED discoveries
       ELSE NextDiscovery
    /\ UNCHANGED <<diskVars, phase, scanVars, pendingCandidates, undisturbed>>

Create(d) ==
    /\ AtStep("create")
    /\ d \notin documents /\ d = FreshDocument
    /\ UpsertRecord(d, Current.place)
    /\ IF Current.identity # NoFsId
       THEN work' = [work EXCEPT !.step = "identify", !.document = d]
            /\ UNCHANGED discoveries
       ELSE NextDiscovery
    /\ UNCHANGED <<diskVars, phase, scanVars, pendingCandidates, undisturbed>>

(* Inspecting the PDF or storing its record throws: counted, and the next  *)
(* discovery is taken.                                                     *)
CreateFails ==
    /\ AtStep("create")
    /\ NextDiscovery
    /\ undisturbed' = FALSE
    /\ UNCHANGED <<indexVars, diskVars, phase, scanVars, pendingCandidates>>

Identify ==
    /\ AtStep("identify")
    /\ SetLocationFilesystemIdentity(work.document, Current.place, Current.identity)
    /\ NextDiscovery
    /\ UNCHANGED <<diskVars, phase, scanVars, pendingCandidates, undisturbed>>

(* Back to Idle: what is volatile is gone.                                 *)
GoIdle ==
    /\ phase' = "idle"
    /\ cancelled' = FALSE
    /\ rootQueue' = <<>>
    /\ scanGeneration' = [r \in RootId |-> 0]
    /\ outcome' = [r \in RootId |-> "none"]
    /\ listing' = "complete"
    /\ unvisited' = {}
    /\ batch' = <<>>
    /\ publishing' = FALSE
    /\ published' = {}
    /\ discoveries' = <<>>
    /\ pendingCandidates' = {}
    /\ work' = NoWork
    /\ UNCHANGED <<indexVars, diskVars>>

EndIngest ==
    /\ phase = "ingesting" /\ work = NoWork
    /\ discoveries = <<>> \/ cancelled
    /\ GoIdle
    /\ UNCHANGED undisturbed

-----------------------------------------------------------------------------
(* Everything else that happens meanwhile.                                 *)

(* An exception leaves ingest(): a root has no scan generation left, or    *)
(* the matched location moved away before the proposal was made.           *)
Throw ==
    /\ \/ AtRootStart /\ generation[CurrentRoot] = MaxGeneration
       \/ AtStep("propose") /\ owner[work.from] # work.document
    /\ GoIdle
    /\ undisturbed' = FALSE

(* The program ends at any point; the next start opens the same store.     *)
Stop ==
    /\ phase # "idle"
    /\ GoIdle
    /\ undisturbed' = FALSE

Cancel ==
    /\ phase # "idle" /\ ~cancelled
    /\ cancelled' = TRUE
    /\ undisturbed' = FALSE
    /\ UNCHANGED <<indexVars, diskVars, phase, rootQueue, scanGeneration, outcome,
                   listing, unvisited, batch, publishing, published, ingestVars>>

(* The person reviews a proposal, on the worker thread.                    *)
Review(id) ==
    /\ ApplyReconciliation(id) \/ DismissReconciliation(id)
    /\ undisturbed' = FALSE
    /\ UNCHANGED <<diskVars, phase, scanVars, ingestVars>>

DiskChange(new) ==
    /\ diskChanges < MaxDiskChanges
    /\ new # file
    /\ file' = new
    /\ diskChanges' = diskChanges + 1
    /\ undisturbed' = FALSE
    /\ UNCHANGED <<indexVars, phase, scanVars, ingestVars>>

(* Written anew (or replaced by another object), removed, renamed, linked. *)
WriteFile(p, f) ==
    (\A q \in Path : file[q] # f) /\ DiskChange([file EXCEPT ![p] = f])
RemoveFile(p) == DiskChange([file EXCEPT ![p] = NoFsId])
RenameFile(p, q) ==
    OnDisk(p) /\ p # q /\ DiskChange([file EXCEPT ![p] = NoFsId, ![q] = file[p]])
LinkFile(p, q) ==
    OnDisk(p) /\ ~OnDisk(q) /\ DiskChange([file EXCEPT ![q] = file[p]])

-----------------------------------------------------------------------------

ScanStep ==
    \/ BeginRoot \/ PublishOne \/ FinishRoot \/ CancelRoot
    \/ \E p \in Path : List(p) \/ Skip(p)

IngestStep ==
    \/ ReadPendingCandidates \/ SkipDiscovery \/ MatchDiscovery
    \/ \E id \in ProposalId : Propose(id)
    \/ \E d \in DocId : Create(d)
    \/ CreateFails \/ Identify \/ EndIngest

Disturbance ==
    \/ Throw \/ Stop \/ Cancel
    \/ \E id \in ProposalId : Review(id)

DiskStep ==
    \E p \in Path :
        \/ \E f \in FsId : WriteFile(p, f)
        \/ RemoveFile(p)
        \/ \E q \in Path : RenameFile(p, q) \/ LinkFile(p, q)

Next == StartIngest \/ ScanStep \/ IngestStep \/ Disturbance \/ DiskStep

Spec == Init /\ [][Next]_vars

(* The thread pool runs an ingestion to its end: its own steps, and the    *)
(* exception that may take their place.                                    *)
Fairness == WF_vars(ScanStep \/ IngestStep \/ Throw)

FairSpec == Spec /\ Fairness

-----------------------------------------------------------------------------
(* Properties.                                                             *)

(* Ingestion gives every book exactly one place, and search knows the book *)
(* by the file name at that place - also between the calls that create it, *)
(* after a stop between them, and after its move.                          *)
EveryBookHasItsPlace ==
    \A d \in documents :
        \E pl \in Linked :
            /\ \A other \in Linked : owner[other] = d <=> other = pl
            /\ searchName[d] = FileName[pl[2]]

(* Nobody is asked twice about one candidate: no two pending proposals     *)
(* share a place, however many ingestions, stops and reviews there were.   *)
OnePendingPerCandidate ==
    \A id, other \in Pending : proposal[id].to = proposal[other].to => id = other

(* A file object found later at a book's place never becomes that book's:  *)
(* once stored, the identity of a book at its place does not change.       *)
StoredIdentityIsFixed ==
    [][\A pl \in Linked :
          owner'[pl] = owner[pl] /\ identity[pl] # NoFsId
              => identity'[pl] = identity[pl]]_vars

(* When an ingestion nobody interfered with has read every root to its     *)
(* end, each PDF on the disk is accounted for: it is the object indexed at *)
(* its path, or its path awaits review.  Stops and cancellations before it *)
(* leave nothing behind that it does not heal.                             *)
Settled(p) ==
    \E r \in RootId :
        LET pl == <<r, p>> IN
        \/ pl \in Linked /\ identity[pl] = file[p]
        \/ \E id \in Pending : proposal[id].to = pl

EndsUndisturbed == phase = "ingesting" /\ phase' = "idle" /\ undisturbed'

QuietIngestSettlesTheDisk ==
    [][EndsUndisturbed /\ (\A r \in RootId : outcome[r] = "complete")
          => \A r \in RootId : \A p \in PathsOf[r] : OnDisk(p) => Settled(p)]_vars

(* No ingestion proposes to move a book away from a file that is still     *)
(* there under the name it had, unless the candidate is another name of    *)
(* the same object: an offline root, a nested root or an interrupted scan  *)
(* never makes a surviving file look moved.                                *)
ProposesMove(id) ==
    /\ proposalState[id] = "none" /\ proposalState'[id] = "pending"
    /\ proposal'[id].decision = "confidentMove"

StillThere(p) == undisturbed /\ file[p.from[2]] = p.filesystemIdentity

SurvivorsMoveOnlyToLinks ==
    [][\A id \in ProposalId :
          ProposesMove(id) /\ StillThere(proposal'[id])
              => proposal'[id].from[2] # proposal'[id].to[2]]_vars

(* Every ingestion ends, cancelled or not, whatever happens to the disk.   *)
IngestionEnds == phase # "idle" ~> phase = "idle"

-----------------------------------------------------------------------------
(* What the documents say and the code does not do.                        *)

(* "When the original location still exists, an identical-looking          *)
(* candidate is a distinct copy": no move is proposed away from a path     *)
(* that has held the candidate's object since the ingestion began.         *)
SurvivorsAreNeverMoved ==
    [][\A id \in ProposalId : ProposesMove(id) => ~StillThere(proposal'[id])]_vars

(* "Overlapping/nested roots without duplicate logical rows": a path has   *)
(* one book, whichever roots contain it.                                   *)
OneBookPerPath ==
    \A pl, other \in Linked : pl[2] = other[2] => owner[pl] = owner[other]

(* "Treat permission-denied children independently from successful         *)
(* enumeration elsewhere": what a scan has found and published is indexed  *)
(* or under review when an undisturbed ingestion ends, also if some other  *)
(* part of the root could not be read.                                     *)
FoundFilesAreIndexed ==
    [][EndsUndisturbed => \A p \in published : Settled(p)]_vars

(* "Press F5, open Review changes, ... then apply the move": a move that   *)
(* is offered after an undisturbed, complete ingestion can be applied.     *)
OfferedMovesCanBeApplied ==
    [][EndsUndisturbed /\ (\A r \in RootId : outcome[r] = "complete")
          => \A id \in Pending :
                /\ proposal[id].mayRelinkAutomatically
                /\ ~OnDisk(proposal[id].from[2])
                /\ file[proposal[id].to[2]] = proposal[id].filesystemIdentity
                => ProvenSafeMove(id) /\ TargetFree(id)]_vars
=============================================================================
