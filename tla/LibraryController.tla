------------------------- MODULE LibraryController -------------------------
(***************************************************************************)
(* app/library/LibraryController: the interface thread with its event      *)
(* queue, the worker thread with its task queue, and the pool thread that  *)
(* runs an ingestion, from construction to the end of the destructor.      *)
(*                                                                         *)
(* What the store holds is abstracted to a version that every write makes  *)
(* newer, and to which roots are registered.  Each call of the store is    *)
(* atomic and may throw; a snapshot is several calls.                      *)
(***************************************************************************)
EXTENDS Naturals, Sequences

CONSTANTS
    RootId,       \* library roots, one for each folder a person may choose
    Query,        \* normalized search texts
    MarkModes,    \* the view modes Favorites and Recent, which differ in what
                  \* is read only
    NoQuery,      \* the empty text
    NoRoot,       \* no root is selected
    NoSnapshot,   \* the worker is not reading a snapshot
    MaxRequests,  \* bound: what a person does in a behaviour
    MaxVersion    \* bound: versions an ingestion may reach

ASSUME ControllerAssumption ==
    /\ NoRoot \notin RootId
    /\ NoQuery \notin Query
    /\ MarkModes \subseteq {"Favorites", "Recent"}
    /\ MaxRequests \in Nat
    /\ MaxVersion \in Nat

VARIABLES
    view,          \* query_, viewMode_ and selectedRootId_
    revision,      \* refreshRevision_
    scanPreparationPending,
    statusKey,
    shown,         \* the view and the versions of the model's data
    guiQueue,      \* events posted to the interface thread
    workerQueue,   \* tasks posted to the worker thread
    snapshot,      \* the snapshot the worker is reading, or NoSnapshot
    ingestions,    \* ingestions that are running
    future,        \* scanWatcher_'s future: "none", "running", "finished", or
                   \* "threw" when it has finished and holds an exception
    unreported,    \* it has finished but not said so yet
    cancelled,
    closing,       \* how far the destructor is
    store,         \* the version of the store
    registered,    \* the roots in it
    requests,      \* how much the person has done
    untried,       \* history: writes asked for but not yet tried
    failed         \* history: some call of the store has thrown

guiVars == <<view, revision, scanPreparationPending, statusKey, shown>>
poolVars == <<ingestions, future, unreported>>
storeVars == <<store, registered>>
histories == <<requests, untried, failed>>
vars == <<guiVars, guiQueue, workerQueue, snapshot, poolVars, cancelled,
          closing, storeVars, histories>>

ViewMode == {"AllBooks"} \union MarkModes
View == [query : Query \union {NoQuery}, mode : ViewMode,
         root : RootId \union {NoRoot}]

(* The calls of one snapshot, in their order.                              *)
PartOrder == <<"records", "favorites", "roots", "proposals">>
Part == {PartOrder[i] : i \in 1 .. Len(PartOrder)}
Versions == [Part -> Nat]

Task ==
    [type : {"refresh"}, revision : Nat, view : View]
      \union [type : {"addRoot"}, root : RootId]
      \union [type : {"startScan", "write", "deleteContext"}]

Event ==
    [type : {"requestRefresh", "preparationFailed"}]
      \union [type : {"beginScan"}, roots : SUBSET RootId]
      \union [type : {"snapshot"}, revision : Nat, view : View, seen : Versions]
      \union [type : {"finished"}, status : {"complete", "completeWithErrors", "error"}]

TypeOK ==
    /\ view \in View
    /\ revision \in Nat
    /\ scanPreparationPending \in BOOLEAN
    /\ statusKey \in {"ready", "scanning", "complete", "completeWithErrors",
                      "noRoots", "error"}
    /\ shown \in [view : View, seen : Versions]
    /\ guiQueue \in Seq(Event)
    /\ workerQueue \in Seq(Task)
    /\ snapshot \in [revision : Nat, view : View, seen : Versions,
                     next : 1 .. Len(PartOrder) + 1] \union {NoSnapshot}
    /\ ingestions \in Nat
    /\ future \in {"none", "running", "finished", "threw"}
    /\ unreported \in BOOLEAN
    /\ cancelled \in BOOLEAN
    /\ closing \in {"open", "waiting", "draining", "closed", "terminated"}
    /\ store \in Nat
    /\ registered \subseteq RootId
    /\ requests \in 0 .. MaxRequests
    /\ untried \in Nat
    /\ failed \in BOOLEAN
-----------------------------------------------------------------------------
(* Defect: a scan that is being prepared does not count.                   *)
Scanning_OnlyRunning == future = "running"
Scanning == scanPreparationPending \/ future = "running"

(* An exception that leaves a destructor ends the process, all threads at  *)
(* once.                                                                   *)
Alive == closing # "terminated"

RunOnWorker(task) == workerQueue' = Append(workerQueue, task)
PostToGui(event) == guiQueue' = Append(guiQueue, event)

InitialView == [query |-> NoQuery, mode |-> "AllBooks", root |-> NoRoot]
Refresh(r, v) == [type |-> "refresh", revision |-> r, view |-> v]

(* requestRefresh, with the view as it is from then on.                    *)
RequestRefresh ==
    /\ revision' = revision + 1
    /\ RunOnWorker(Refresh(revision', view'))

(* The constructor has run and asked for a first refresh of a store that   *)
(* may already hold roots.                                                 *)
Init ==
    /\ view = InitialView
    /\ revision = 1
    /\ scanPreparationPending = FALSE
    /\ statusKey = "ready"
    /\ shown = [view |-> InitialView, seen |-> [p \in Part |-> 0]]
    /\ guiQueue = <<>>
    /\ workerQueue = <<Refresh(1, InitialView)>>
    /\ snapshot = NoSnapshot
    /\ ingestions = 0
    /\ future = "none"
    /\ unreported = FALSE
    /\ cancelled = FALSE
    /\ closing = "open"
    /\ registered \in SUBSET RootId
    /\ store = 1
    /\ requests = 0
    /\ untried = 0
    /\ failed = FALSE
-----------------------------------------------------------------------------
(* What a person does: a call on the interface thread.                     *)
Person ==
    /\ closing = "open"
    /\ requests < MaxRequests
    /\ requests' = requests + 1
    /\ UNCHANGED <<shown, guiQueue, snapshot, poolVars, cancelled, closing,
                   storeVars, failed>>

ChangeView(v) ==
    /\ Person
    /\ view' = v
    /\ RequestRefresh
    /\ UNCHANGED <<scanPreparationPending, statusKey, untried>>

SetQuery(q) ==
    /\ q # view.query
    /\ ChangeView([view EXCEPT !.query = q])

SetViewMode(m) ==
    /\ m # view.mode
    /\ ChangeView([view EXCEPT !.mode = m,
                     !.root = IF m # "AllBooks" THEN NoRoot ELSE @])

SetSelectedRootId(r) ==
    /\ r # view.root
    /\ ChangeView([view EXCEPT !.root = r,
                     !.mode = IF r # NoRoot THEN "AllBooks" ELSE @])

PrepareScan(task) ==
    /\ Person
    /\ ~Scanning
    /\ scanPreparationPending' = TRUE
    /\ statusKey' = "scanning"
    /\ RunOnWorker(task)
    /\ UNCHANGED <<view, revision, untried>>

AddRoot(r) == PrepareScan([type |-> "addRoot", root |-> r])
StartScan == PrepareScan([type |-> "startScan"])

(* setFavorite, openExternally, applyProposal, dismissProposal.            *)
AskForWrite ==
    /\ Person
    /\ RunOnWorker([type |-> "write"])
    /\ untried' = untried + 1
    /\ UNCHANGED <<view, revision, scanPreparationPending, statusKey>>
-----------------------------------------------------------------------------
(* The interface thread takes its next event.                              *)
NextEvent(type) ==
    /\ closing = "open"
    /\ guiQueue # <<>>
    /\ Head(guiQueue).type = type
    /\ UNCHANGED <<view, snapshot, closing, storeVars, histories>>

HandleRequestRefresh ==
    /\ NextEvent("requestRefresh")
    /\ guiQueue' = Tail(guiQueue)
    /\ RequestRefresh
    /\ UNCHANGED <<scanPreparationPending, statusKey, shown, poolVars, cancelled>>

(* Defect: every snapshot that arrives is shown.                           *)
HandleSnapshot_ShowsAll ==
    /\ NextEvent("snapshot")
    /\ guiQueue' = Tail(guiQueue)
    /\ shown' = [view |-> Head(guiQueue).view, seen |-> Head(guiQueue).seen]
    /\ UNCHANGED <<revision, scanPreparationPending, statusKey, workerQueue,
                   poolVars, cancelled>>

(* A refresh that is not the last one requested is dropped.                *)
HandleSnapshot ==
    /\ NextEvent("snapshot")
    /\ guiQueue' = Tail(guiQueue)
    /\ LET event == Head(guiQueue) IN
          shown' = IF event.revision = revision
                   THEN [view |-> event.view, seen |-> event.seen]
                   ELSE shown
    /\ UNCHANGED <<revision, scanPreparationPending, statusKey, workerQueue,
                   poolVars, cancelled>>

(* The events of q that are not for the watcher.                           *)
WithoutFinished(q) ==
    LET kept[i \in 0 .. Len(q)] ==
            IF i = 0 THEN <<>>
            ELSE IF q[i].type = "finished" THEN kept[i - 1]
            ELSE Append(kept[i - 1], q[i])
    IN  kept[Len(q)]

(* The watcher turns to the new future: what the last one has still to     *)
(* report is lost.                                                         *)
HandleBeginScan ==
    /\ NextEvent("beginScan")
    /\ scanPreparationPending' = FALSE
    /\ \/ /\ Head(guiQueue).roots = {}
          /\ statusKey' = "noRoots"
          /\ guiQueue' = Tail(guiQueue)
          /\ UNCHANGED <<poolVars, cancelled>>
       \/ /\ Head(guiQueue).roots # {}
          /\ cancelled' = FALSE
          /\ ingestions' = ingestions + 1
          /\ future' = "running"
          /\ unreported' = FALSE
          /\ guiQueue' = WithoutFinished(Tail(guiQueue))
          /\ UNCHANGED statusKey
    /\ UNCHANGED <<revision, shown, workerQueue>>

(* Defect: a failed preparation does not say so.                           *)
HandlePreparationFailed_KeepsStatus ==
    /\ NextEvent("preparationFailed")
    /\ guiQueue' = Tail(guiQueue)
    /\ scanPreparationPending' = FALSE
    /\ UNCHANGED <<statusKey, revision, shown, workerQueue, poolVars, cancelled>>

(* Defect: a status the interface has no text for.                          *)
HandlePreparationFailed_UnknownStatus ==
    /\ NextEvent("preparationFailed")
    /\ guiQueue' = Tail(guiQueue)
    /\ scanPreparationPending' = FALSE
    /\ statusKey' = "failed"
    /\ UNCHANGED <<revision, shown, workerQueue, poolVars, cancelled>>

HandlePreparationFailed ==
    /\ NextEvent("preparationFailed")
    /\ guiQueue' = Tail(guiQueue)
    /\ scanPreparationPending' = FALSE
    /\ statusKey' = "error"
    /\ UNCHANGED <<revision, shown, workerQueue, poolVars, cancelled>>

(* Defect: the end of a scan only changes the status.                      *)
HandleFinished_NoRefresh ==
    /\ NextEvent("finished")
    /\ guiQueue' = Tail(guiQueue)
    /\ statusKey' = Head(guiQueue).status
    /\ UNCHANGED <<revision, workerQueue, scanPreparationPending, shown, poolVars,
                   cancelled>>

HandleFinished ==
    /\ NextEvent("finished")
    /\ guiQueue' = Tail(guiQueue)
    /\ statusKey' = Head(guiQueue).status
    /\ RequestRefresh
    /\ UNCHANGED <<scanPreparationPending, shown, poolVars, cancelled>>

HandleEvent ==
    \/ HandleRequestRefresh
    \/ HandleSnapshot
    \/ HandleBeginScan
    \/ HandlePreparationFailed
    \/ HandleFinished
-----------------------------------------------------------------------------
(* Defect: the worker does nothing once the program is closing.             *)
NextTask_UnlessCancelled(type) ==
    /\ Alive /\ snapshot = NoSnapshot
    /\ ~cancelled
    /\ workerQueue # <<>>
    /\ Head(workerQueue).type = type
    /\ workerQueue' = Tail(workerQueue)
    /\ UNCHANGED <<guiVars, poolVars, cancelled, requests>>

(* The worker thread takes its next task.                                  *)
NextTask(type) ==
    /\ Alive /\ snapshot = NoSnapshot
    /\ workerQueue # <<>>
    /\ Head(workerQueue).type = type
    /\ workerQueue' = Tail(workerQueue)
    /\ UNCHANGED <<guiVars, poolVars, cancelled, requests>>

(* A mark or a review: it reports an error or asks for a refresh.          *)
RunWrite ==
    /\ NextTask("write")
    /\ untried' = untried - 1
    /\ \/ /\ store' = store + 1
          /\ PostToGui([type |-> "requestRefresh"])
          /\ UNCHANGED failed
       \/ /\ failed' = TRUE
          /\ UNCHANGED <<store, guiQueue>>
    /\ UNCHANGED <<registered, snapshot, closing>>

(* addRoot's task: registers the folder's root unless it exists and reads  *)
(* the roots to scan.  The second call may throw after the first.          *)
RunAddRoot ==
    /\ NextTask("addRoot")
    /\ LET r == Head(workerQueue).root IN
          \/ /\ registered' = registered \union {r}
             /\ store' = IF r \in registered THEN store ELSE store + 1
             /\ \/ /\ PostToGui([type |-> "beginScan", roots |-> registered'])
                   /\ UNCHANGED failed
                \/ /\ PostToGui([type |-> "preparationFailed"])
                   /\ failed' = TRUE
          \/ /\ PostToGui([type |-> "preparationFailed"])
             /\ failed' = TRUE
             /\ UNCHANGED storeVars
    /\ UNCHANGED <<snapshot, closing, untried>>

RunStartScan ==
    /\ NextTask("startScan")
    /\ \/ /\ PostToGui([type |-> "beginScan", roots |-> registered])
          /\ UNCHANGED failed
       \/ /\ PostToGui([type |-> "preparationFailed"])
          /\ failed' = TRUE
    /\ UNCHANGED <<storeVars, snapshot, closing, untried>>

(* The next call of a snapshot.                                            *)
Read(s) ==
    [s EXCEPT !.seen = [@ EXCEPT ![PartOrder[s.next]] = store], !.next = @ + 1]

(* The task starts with the first call of its snapshot.                    *)
RunRefresh ==
    /\ NextTask("refresh")
    /\ \/ /\ LET task == Head(workerQueue) IN
                snapshot' = Read([revision |-> task.revision, view |-> task.view,
                                  seen |-> [p \in Part |-> 0], next |-> 1])
          /\ UNCHANGED failed
       \/ /\ failed' = TRUE
          /\ UNCHANGED snapshot
    /\ UNCHANGED <<guiQueue, storeVars, closing, untried>>

Reading ==
    /\ Alive /\ snapshot # NoSnapshot
    /\ UNCHANGED <<guiVars, workerQueue, poolVars, cancelled, closing,
                   storeVars, requests, untried>>

ReadPart ==
    /\ Reading
    /\ snapshot.next <= Len(PartOrder)
    /\ \/ /\ snapshot' = Read(snapshot)
          /\ UNCHANGED failed
       \/ /\ snapshot' = NoSnapshot
          /\ failed' = TRUE
    /\ UNCHANGED guiQueue

PostSnapshot ==
    /\ Reading
    /\ snapshot.next > Len(PartOrder)
    /\ PostToGui([type |-> "snapshot", revision |-> snapshot.revision,
                  view |-> snapshot.view, seen |-> snapshot.seen])
    /\ snapshot' = NoSnapshot
    /\ UNCHANGED failed

(* The destructor's last call: the task's context is deleted, the thread   *)
(* quits and is waited for, and with the object go the events posted to it.*)
RunDeleteContext ==
    /\ NextTask("deleteContext")
    /\ closing' = "closed"
    /\ guiQueue' = <<>>
    /\ UNCHANGED <<storeVars, snapshot, untried, failed>>

WorkerStep ==
    \/ RunWrite
    \/ RunAddRoot
    \/ RunStartScan
    \/ RunRefresh
    \/ ReadPart
    \/ PostSnapshot
    \/ RunDeleteContext
-----------------------------------------------------------------------------
(* The pool thread: an ingestion writes to the store, and ends, with or    *)
(* without an exception, which the future then holds until the next scan.  *)
Ingesting ==
    /\ Alive /\ ingestions > 0
    /\ UNCHANGED <<guiVars, guiQueue, workerQueue, snapshot, cancelled, closing,
                   registered, histories>>

IngestWrite ==
    /\ Ingesting
    /\ store < MaxVersion
    /\ store' = store + 1
    /\ UNCHANGED poolVars

EndIngest ==
    /\ Ingesting
    /\ ingestions' = ingestions - 1
    /\ future' \in {"finished", "threw"}
    /\ unreported' = TRUE
    /\ UNCHANGED store

(* The future tells its watcher, through the interface thread's queue.     *)
ReportFinished ==
    /\ Alive /\ unreported
    /\ unreported' = FALSE
    /\ \/ closing = "closed" /\ UNCHANGED guiQueue
       \/ /\ closing # "closed"
          /\ \E status \in IF future = "threw" THEN {"error"}
                           ELSE {"complete", "completeWithErrors"} :
                PostToGui([type |-> "finished", status |-> status])
    /\ UNCHANGED <<guiVars, workerQueue, snapshot, ingestions, future, cancelled,
                   closing, storeVars, histories>>

PoolStep == IngestWrite \/ EndIngest \/ ReportFinished
-----------------------------------------------------------------------------
(* The destructor.  The interface thread handles no event from here on.    *)
Quit ==
    /\ closing = "open"
    /\ closing' = "waiting"
    /\ cancelled' = TRUE
    /\ UNCHANGED <<guiVars, guiQueue, workerQueue, snapshot, poolVars,
                   storeVars, histories>>

(* Defect: the destructor does not wait for the scan.                      *)
WaitForScan_NoWait ==
    /\ closing = "waiting"
    /\ closing' = "draining"
    /\ RunOnWorker([type |-> "deleteContext"])
    /\ UNCHANGED <<guiVars, guiQueue, snapshot, poolVars, cancelled, storeVars,
                   histories>>

(* The scan has finished: a blocking call is queued behind all tasks.      *)
WaitForScan ==
    /\ closing = "waiting"
    /\ future \in {"none", "finished"}
    /\ closing' = "draining"
    /\ RunOnWorker([type |-> "deleteContext"])
    /\ UNCHANGED <<guiVars, guiQueue, snapshot, poolVars, cancelled, storeVars,
                   histories>>

(* waitForFinished throws again what the last ingestion threw, even when   *)
(* the watcher has long reported it, and nothing in the destructor catches *)
(* it.                                                                     *)
Rethrow ==
    /\ closing = "waiting"
    /\ future = "threw"
    /\ closing' = "terminated"
    /\ UNCHANGED <<guiVars, guiQueue, workerQueue, snapshot, poolVars, cancelled,
                   storeVars, histories>>

PersonStep ==
    \/ \E q \in Query \union {NoQuery} : SetQuery(q)
    \/ \E m \in ViewMode : SetViewMode(m)
    \/ \E r \in RootId \union {NoRoot} : SetSelectedRootId(r)
    \/ \E r \in RootId : AddRoot(r)
    \/ StartScan
    \/ AskForWrite
    \/ Quit

GuiStep == HandleEvent \/ WaitForScan \/ Rethrow

Next == PersonStep \/ GuiStep \/ WorkerStep \/ PoolStep

Spec == Init /\ [][Next]_vars

(* The event loop, the worker's event loop and the pool keep running.      *)
FairSpec ==
    Spec /\ WF_vars(GuiStep) /\ WF_vars(WorkerStep) /\ WF_vars(PoolStep)
-----------------------------------------------------------------------------
(* There is never a second ingestion, not even while one is prepared: two  *)
(* would interleave their scan generations in one store.                   *)
AtMostOneIngestion ==
    /\ ingestions <= 1
    /\ scanPreparationPending => ingestions = 0

(* A snapshot is shown only for the view the person has asked for last: a  *)
(* refresh that was overtaken changes nothing.                             *)
OvertakenRefreshesAreDropped == [][shown' # shown => shown'.view = view]_vars

Current ==
    /\ shown.view = view
    /\ \A p \in Part : shown.seen[p] = store

(* Unless the store fails, everything the person and ingestions have done  *)
(* is in the end shown, consistently, in the view last asked for.          *)
ShownInTheEnd == <>[](closing = "open" /\ ~failed => Current)

(* Nothing is under way any more.                                          *)
Quiet ==
    /\ guiQueue = <<>>
    /\ workerQueue = <<>>
    /\ snapshot = NoSnapshot
    /\ ~Scanning
    /\ ~unreported

(* Whatever fails, the status does not stay at scanning when nothing is    *)
(* scanned or prepared: scanning can be asked for again.                   *)
StatusSettles == closing = "open" /\ Quiet => statusKey # "scanning"

(* Quitting always comes to an end, whatever the threads are doing: to the *)
(* destructor's, or, only if the last ingestion threw, to the process's.   *)
QuitEnds ==
    closing # "open" ~>
        \/ closing = "closed"
        \/ closing = "terminated" /\ future = "threw"

(* No thread is left at work on the destroyed object, and every write that *)
(* was asked for has been tried.                                           *)
NothingLeft ==
    /\ ingestions = 0
    /\ workerQueue = <<>> /\ snapshot = NoSnapshot
    /\ untried = 0

(* A destructor that returns has left nothing; one that does not return    *)
(* found the exception of the last ingestion, which has ended; and         *)
(* cancellation was never taken back.                                      *)
QuitIsOrderly ==
    /\ closing # "open" => cancelled
    /\ closing = "closed" => NothingLeft /\ future # "threw"
    /\ closing = "terminated" => ingestions = 0 /\ future = "threw"
=============================================================================
