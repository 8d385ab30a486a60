----------------------- MODULE LibraryControllerProofs -----------------------
(***************************************************************************)
(* Proofs about the controller of the library: for any folders, searches   *)
(* and number of requests, whatever the three threads do and whichever     *)
(* calls of the store fail.                                                *)
(***************************************************************************)
EXTENDS LibraryController, FiniteSetTheorems, SequenceTheorems,
        WellFoundedInduction, TLAPS

(* Where in a queue there is something of the given types.                 *)
Of(types, q) == {i \in 1 .. Len(q) : q[i].type \in types}
Has(types, q) == Of(types, q) # {}
HasAtMostOne(types, q) == \A i, j \in Of(types, q) : i = j

ScanTask == {"addRoot", "startScan"}
ScanAnswer == {"beginScan", "preparationFailed"}

(* While a scan is being prepared its task or the task's answer is queued, *)
(* and there is no other.                                                  *)
OnePreparation ==
    closing # "closed" =>
        /\ HasAtMostOne(ScanTask, workerQueue)
        /\ HasAtMostOne(ScanAnswer, guiQueue)
        /\ ~Has(ScanTask, workerQueue) \/ ~Has(ScanAnswer, guiQueue)
        /\ scanPreparationPending <=>
              (Has(ScanTask, workerQueue) \/ Has(ScanAnswer, guiQueue))

OneIngestion ==
    /\ ingestions = IF future = "running" THEN 1 ELSE 0
    /\ scanPreparationPending => future # "running"

(* Whoever will change a status of "scanning" is still there.              *)
StatusIsOwed ==
    closing # "closed" /\ statusKey = "scanning" =>
        Scanning \/ unreported \/ Has({"finished"}, guiQueue)

(* A refresh that bears the last revision was requested for this view.     *)
Requested(x, r, v) == x.revision \in 0 .. r /\ (x.revision = r => x.view = v)
AllRequested(types, q, r, v) == \A i \in Of(types, q) : Requested(q[i], r, v)

RevisionsNameViews ==
    /\ AllRequested({"refresh"}, workerQueue, revision, view)
    /\ snapshot # NoSnapshot => Requested(snapshot, revision, view)
    /\ AllRequested({"snapshot"}, guiQueue, revision, view)

(* The destructor's task is the worker's last, and it gets that far only if *)
(* no exception is held.                                                   *)
QuitsInOrder ==
    /\ closing # "open" => cancelled
    /\ closing \in {"draining", "closed"} => future \in {"none", "finished"}
    /\ closing = "terminated" => future = "threw"
    /\ Of({"deleteContext"}, workerQueue) =
          IF closing = "draining" THEN {Len(workerQueue)} ELSE {}
    /\ closing = "closed" => workerQueue = <<>> /\ snapshot = NoSnapshot

WritesAreQueued == untried = Cardinality(Of({"write"}, workerQueue))

ControlInv ==
    /\ TypeOK
    /\ OnePreparation
    /\ OneIngestion
    /\ StatusIsOwed
    /\ RevisionsNameViews
    /\ QuitsInOrder
    /\ WritesAreQueued

-----------------------------------------------------------------------------
(* Queues.                                                                 *)

LEMMA OfAppend ==
    ASSUME NEW S, NEW q \in Seq(S), NEW x \in S, NEW types
    PROVE  /\ Len(q) + 1 \notin Of(types, q)
           /\ Of(types, Append(q, x)) =
                 IF x.type \in types THEN Of(types, q) \union {Len(q) + 1} ELSE Of(types, q)
BY DEF Of

LEMMA QueueParts ==
    ASSUME NEW S, NEW q \in Seq(S), q # <<>>
    PROVE  /\ Head(q) \in S /\ Head(q) = q[1]
           /\ Tail(q) \in Seq(S)
           /\ Len(q) \in Nat /\ Len(q) > 0 /\ Len(Tail(q)) = Len(q) - 1
           /\ \A i \in 1 .. Len(q) - 1 : Tail(q)[i] = q[i + 1]
BY HeadTailProperties, LenProperties, EmptySeq

LEMMA OfTail ==
    ASSUME NEW S, NEW q \in Seq(S), q # <<>>, NEW types
    PROVE  /\ \A i \in Nat \ {0} : i \in Of(types, Tail(q)) <=> i + 1 \in Of(types, q)
           /\ 1 \in Of(types, q) <=> Head(q).type \in types
           /\ Of(types, q) \subseteq Nat \ {0}
           /\ Of(types, Tail(q)) \subseteq Nat \ {0}
BY QueueParts DEF Of

(* How many of a type are queued goes up with an appended one and down     *)
(* with the head that is taken.                                            *)
LEMMA CountAppend ==
    ASSUME NEW S, NEW q \in Seq(S), NEW x \in S, NEW types
    PROVE  /\ Cardinality(Of(types, q)) \in Nat
           /\ Cardinality(Of(types, Append(q, x))) =
                 Cardinality(Of(types, q)) + IF x.type \in types THEN 1 ELSE 0
<1>1. IsFiniteSet(Of(types, q))
  <2>1. Len(q) \in Nat
    BY LenProperties
  <2>2. IsFiniteSet(1 .. Len(q))
    BY <2>1, FS_Interval
  <2> QED
    BY <2>2, FS_Subset DEF Of
<1>2. Cardinality(Of(types, q)) \in Nat
  BY <1>1, FS_CardinalityType
<1> QED
  BY <1>1, <1>2, OfAppend, FS_AddElement

LEMMA CountTail ==
    ASSUME NEW S, NEW q \in Seq(S), q # <<>>, NEW types
    PROVE  Cardinality(Of(types, Tail(q))) =
              Cardinality(Of(types, q)) - IF Head(q).type \in types THEN 1 ELSE 0
<1> DEFINE all == Of(types, q)
           later == all \ {1}
           tail == Of(types, Tail(q))
<1>1. IsFiniteSet(all)
  <2>1. Len(q) \in Nat
    BY LenProperties
  <2>2. IsFiniteSet(1 .. Len(q))
    BY <2>1, FS_Interval
  <2> QED
    BY <2>2, FS_Subset DEF Of
<1>2. /\ Cardinality(all) \in Nat /\ IsFiniteSet(later)
      /\ Cardinality(later) = IF 1 \in all THEN Cardinality(all) - 1 ELSE Cardinality(all)
  BY <1>1, FS_CardinalityType, FS_RemoveElement
<1>3. Cardinality(tail) = Cardinality(later)
  <2> DEFINE f == [i \in later |-> i - 1]
  <2>1. /\ \A i \in Nat \ {0} : i \in tail <=> i + 1 \in all
        /\ all \subseteq Nat \ {0} /\ tail \subseteq Nat \ {0}
    BY OfTail
  <2> HIDE DEF all, tail
  <2>2. f \in [later -> tail]
    BY <2>1
  <2>3. \A i, j \in later : f[i] = f[j] => i = j
    BY <2>1
  <2>4. \A j \in tail : \E i \in later : f[i] = j
    <3> SUFFICES ASSUME NEW j \in tail PROVE j + 1 \in later /\ f[j + 1] = j
      OBVIOUS
    <3> QED
      BY <2>1
  <2>5. f \in Bijection(later, tail)
    BY <2>2, <2>3, <2>4 DEF Bijection, Injection, Surjection, IsInjective
  <2> QED
    BY <1>2, <2>5, FS_Bijection DEF ExistsBijection
<1>4. 1 \in all <=> Head(q).type \in types
  BY OfTail
<1> QED
  BY <1>2, <1>3, <1>4

LEMMA OfNothing == ASSUME NEW types PROVE Of(types, <<>>) = {}
BY EmptySeq DEF Of

(* The least-number principle, for sets: induction over a queue's length.  *)
LEMMA LeastNumber ==
    ASSUME NEW T \in SUBSET Nat, T # {}
    PROVE  \E n \in T : \A m \in T : n <= m
<1> DEFINE R == OpToRel(<, Nat)
<1>1. IsWellFoundedOn(R, Nat)
  BY NatLessThanWellFounded, Zenon
<1>2. \A m, n \in Nat : <<m, n>> \in R <=> m < n
  BY DEF OpToRel
<1> HIDE DEF R
<1>3. PICK n \in T : \A m \in T : <<m, n>> \notin R
  BY <1>1, WFMin
<1>4. \A m \in T : ~ (m < n)
  BY <1>2, <1>3
<1> QED
  BY <1>4

LEMMA SetInduction ==
    ASSUME NEW S, 0 \in S, \A n \in Nat : n \in S => n + 1 \in S
    PROVE  Nat \subseteq S
<1> SUFFICES ASSUME Nat \ S # {} PROVE FALSE
  OBVIOUS
<1>1. PICK n \in Nat \ S : \A m \in Nat \ S : n <= m
  <2>1. Nat \ S \in SUBSET Nat
    OBVIOUS
  <2> QED
    BY <2>1, LeastNumber
<1>2. n # 0 /\ n - 1 \in Nat
  BY <1>1
<1>3. n - 1 \in S
  BY <1>1, <1>2
<1> QED
  BY <1>1, <1>2, <1>3

(* What the watcher's new future removes: the recursion is well defined,   *)
(* and leaves events that were queued.                                     *)
KeepUpTo(q, i, kept) ==
    IF i = 0 THEN <<>>
    ELSE IF q[i].type = "finished" THEN kept[i - 1]
    ELSE Append(kept[i - 1], q[i])

LEMMA KeptExists ==
    ASSUME NEW q, NEW n \in Nat
    PROVE  \E kept : kept = [i \in 0 .. n |-> KeepUpTo(q, i, kept)]
<1> DEFINE S == {m \in Nat : \E kept : kept = [i \in 0 .. m |-> KeepUpTo(q, i, kept)]}
<1>1. 0 \in S
  <2>1. [i \in 0 .. 0 |-> <<>>] =
           [i \in 0 .. 0 |-> KeepUpTo(q, i, [j \in 0 .. 0 |-> <<>>])]
    BY DEF KeepUpTo
  <2> QED
    BY <2>1
<1>2. ASSUME NEW m \in Nat, m \in S PROVE m + 1 \in S
  <2>1. PICK kept : kept = [i \in 0 .. m |-> KeepUpTo(q, i, kept)]
    BY <1>2
  <2> DEFINE more == [i \in 0 .. m + 1 |->
                         IF i \in 0 .. m THEN kept[i] ELSE KeepUpTo(q, m + 1, kept)]
  <2>2. \A i \in 0 .. m + 1 : more[i] = KeepUpTo(q, i, more)
    <3>1. \A i \in 0 .. m : more[i] = kept[i]
      OBVIOUS
    <3>2. ASSUME NEW i \in 0 .. m PROVE more[i] = KeepUpTo(q, i, more)
      <4>1. kept[i] = KeepUpTo(q, i, kept)
        BY <2>1
      <4>2. i # 0 => i - 1 \in 0 .. m
        OBVIOUS
      <4> HIDE DEF more
      <4> QED
        BY <3>1, <4>1, <4>2 DEF KeepUpTo
    <3>3. more[m + 1] = KeepUpTo(q, m + 1, more)
      <4>1. more[m + 1] = KeepUpTo(q, m + 1, kept)
        OBVIOUS
      <4>2. m + 1 # 0 /\ (m + 1) - 1 = m /\ more[m] = kept[m]
        BY <3>1
      <4> HIDE DEF more
      <4> QED
        BY <4>1, <4>2 DEF KeepUpTo
    <3> QED
      BY <3>2, <3>3
  <2>3. more = [i \in 0 .. m + 1 |-> KeepUpTo(q, i, more)]
    BY <2>2
  <2> HIDE DEF more
  <2> QED
    BY <2>3
<1> HIDE DEF S
<1>3. n \in S
  BY <1>1, <1>2, SetInduction
<1> QED
  BY <1>3 DEF S

LEMMA WithoutFinishedParts ==
    ASSUME NEW S, NEW q \in Seq(S)
    PROVE  /\ WithoutFinished(q) \in Seq(S)
           /\ \A i \in 1 .. Len(WithoutFinished(q)) :
                 \E j \in 1 .. Len(q) : WithoutFinished(q)[i] = q[j]
<1> DEFINE kept == CHOOSE kept : kept = [i \in 0 .. Len(q) |-> KeepUpTo(q, i, kept)]
           All == {q[j] : j \in 1 .. Len(q)}
           T == {n \in Nat : n <= Len(q) => kept[n] \in Seq(All)}
<1>1. Len(q) \in Nat
  BY LenProperties
<1>2. kept = [i \in 0 .. Len(q) |-> KeepUpTo(q, i, kept)]
  BY <1>1, KeptExists
<1>3. WithoutFinished(q) = kept[Len(q)]
  BY DEF WithoutFinished, KeepUpTo
<1> HIDE DEF kept
<1>4. 0 \in T
  <2>1. kept[0] = <<>>
    BY <1>1, <1>2 DEF KeepUpTo
  <2> QED
    BY <2>1, EmptySeq
<1>5. ASSUME NEW n \in Nat, n \in T PROVE n + 1 \in T
  <2>1. ASSUME n + 1 <= Len(q) PROVE kept[n + 1] \in Seq(All)
    <3>1. kept[n] \in Seq(All)
      BY <1>1, <1>5, <2>1
    <3>2. kept[n + 1] = KeepUpTo(q, n + 1, kept)
      BY <1>1, <1>2, <2>1
    <3>3. q[n + 1] \in All /\ n + 1 # 0 /\ (n + 1) - 1 = n
      BY <1>1, <2>1
    <3> HIDE DEF All
    <3>4. kept[n + 1] = kept[n] \/ kept[n + 1] = Append(kept[n], q[n + 1])
      BY <3>2, <3>3 DEF KeepUpTo
    <3> QED
      BY <3>1, <3>3, <3>4, AppendProperties, Zenon
  <2> HIDE DEF All
  <2> QED
    BY <2>1
<1> HIDE DEF T
<1>6. Len(q) \in T
  BY <1>1, <1>4, <1>5, SetInduction
<1>7. WithoutFinished(q) \in Seq(All)
  BY <1>1, <1>3, <1>6 DEF T
<1>8. All \subseteq S
  OBVIOUS
<1>9. ASSUME NEW s \in Seq(All)
      PROVE  s \in Seq(S) /\ \A i \in 1 .. Len(s) : \E j \in 1 .. Len(q) : s[i] = q[j]
  <2>1. \A i \in 1 .. Len(s) : s[i] \in All
    OBVIOUS
  <2>2. s \in Seq(S)
    <3> HIDE DEF All
    <3> QED
      BY <1>8
  <2> QED
    BY <2>1, <2>2
<1> QED
  BY <1>7, <1>9

-----------------------------------------------------------------------------
(* Types.                                                                  *)

LEMMA RefreshIsTask ==
    ASSUME NEW r \in Nat, NEW v \in View
    PROVE  Refresh(r, v) \in Task /\ Refresh(r, v).type = "refresh"
           /\ Refresh(r, v).revision = r /\ Refresh(r, v).view = v
BY DEF Refresh, Task

LEMMA TaskKinds ==
    ASSUME NEW task \in Task
    PROVE  /\ task.type = "refresh" => task.revision \in Nat /\ task.view \in View
           /\ task.type = "addRoot" => task.root \in RootId
BY DEF Task

LEMMA EventKinds ==
    ASSUME NEW event \in Event
    PROVE  /\ event.type = "snapshot" =>
                 event.revision \in Nat /\ event.view \in View /\ event.seen \in Versions
           /\ event.type = "beginScan" => event.roots \in SUBSET RootId
           /\ event.type = "finished" =>
                 event.status \in {"complete", "completeWithErrors", "error"}
BY DEF Event

LEMMA SimpleTasks ==
    /\ [type |-> "startScan"] \in Task /\ [type |-> "write"] \in Task
    /\ [type |-> "deleteContext"] \in Task
    /\ \A r \in RootId : [type |-> "addRoot", root |-> r] \in Task
BY DEF Task

LEMMA Events ==
    /\ [type |-> "requestRefresh"] \in Event /\ [type |-> "preparationFailed"] \in Event
    /\ \A roots \in SUBSET RootId : [type |-> "beginScan", roots |-> roots] \in Event
    /\ \A r \in Nat, v \in View, seen \in Versions :
          [type |-> "snapshot", revision |-> r, view |-> v, seen |-> seen] \in Event
    /\ \A status \in {"complete", "completeWithErrors", "error"} :
          [type |-> "finished", status |-> status] \in Event
BY DEF Event

LEMMA Posted ==
    ASSUME TypeOK, NEW event \in Event, PostToGui(event)
    PROVE  guiQueue' \in Seq(Event)
BY AppendProperties DEF PostToGui, TypeOK

LEMMA Parts == Len(PartOrder) = 4 /\ \A i \in 1 .. 4 : PartOrder[i] \in Part
<1>1. Len(PartOrder) = 4
  BY DEF PartOrder
<1> QED
  BY <1>1 DEF Part

Snapshot == [revision : Nat, view : View, seen : Versions, next : 1 .. Len(PartOrder) + 1]

LEMMA ReadKeepsType ==
    ASSUME NEW s \in Snapshot, s.next <= Len(PartOrder), store \in Nat
    PROVE  Read(s) \in Snapshot /\ Read(s).revision = s.revision /\ Read(s).view = s.view
<1>1. s.next \in 1 .. 4 /\ s.seen \in Versions /\ PartOrder[s.next] \in Part
  BY Parts DEF Snapshot
<1>2. PICK newer \in Versions : newer = [s.seen EXCEPT ![PartOrder[s.next]] = store]
  BY <1>1 DEF Versions
<1>3. PICK after \in 1 .. 5 : after = s.next + 1
  BY <1>1
<1>4. Read(s) = [s EXCEPT !.seen = newer, !.next = after]
  BY <1>2, <1>3 DEF Read
<1>5. [s EXCEPT !.seen = newer, !.next = after] \in Snapshot
  <2>1. Snapshot = [revision : Nat, view : View, seen : Versions, next : 1 .. 5]
    BY Parts DEF Snapshot
  <2>2. \A t \in Snapshot, seen \in Versions : [t EXCEPT !.seen = seen] \in Snapshot
    BY <2>1
  <2>3. \A t \in Snapshot, n \in 1 .. 5 : [t EXCEPT !.next = n] \in Snapshot
    BY <2>1
  <2> QED
    BY <2>2, <2>3
<1>6. /\ [s EXCEPT !.seen = newer, !.next = after].revision = s.revision
      /\ [s EXCEPT !.seen = newer, !.next = after].view = s.view
  BY DEF Snapshot
<1> QED
  BY <1>4, <1>5, <1>6

LEMMA TypeInit == Init => TypeOK
<1> SUFFICES ASSUME Init PROVE TypeOK
  OBVIOUS
<1>1. InitialView \in View
  BY DEF InitialView, View, ViewMode
<1>2. workerQueue \in Seq(Task) /\ guiQueue \in Seq(Event)
  <2>1. Refresh(1, InitialView) \in Task
    BY <1>1, RefreshIsTask
  <2> QED
    BY <2>1, EmptySeq DEF Init
<1>3. shown \in [view : View, seen : Versions]
  BY <1>1 DEF Init, Versions
<1>4. requests \in 0 .. MaxRequests
  BY ControllerAssumption DEF Init
<1> QED
  BY <1>1, <1>2, <1>3, <1>4 DEF Init, TypeOK

LEMMA PersonTypes == ASSUME TypeOK, PersonStep PROVE TypeOK'
<1> USE DEF Person, poolVars, storeVars, guiVars, histories
<1>1. ASSUME Person PROVE requests' \in 0 .. MaxRequests
  BY <1>1, ControllerAssumption DEF TypeOK
<1>2. ASSUME NEW v \in View, ChangeView(v)
      PROVE  TypeOK'
  <2>1. revision' \in Nat /\ view' \in View
    BY <1>2 DEF ChangeView, RequestRefresh, TypeOK
  <2>2. workerQueue' \in Seq(Task)
    BY <1>2, <2>1, RefreshIsTask DEF ChangeView, RequestRefresh, RunOnWorker, TypeOK
  <2> QED
    BY <1>1, <1>2, <2>1, <2>2 DEF ChangeView, TypeOK
<1>3. ASSUME NEW task \in Task, PrepareScan(task)
      PROVE  TypeOK'
  BY <1>1, <1>3 DEF PrepareScan, RunOnWorker, TypeOK
<1>4. CASE AskForWrite
  <2>1. workerQueue' \in Seq(Task)
    BY <1>4, SimpleTasks DEF AskForWrite, RunOnWorker, TypeOK
  <2> QED
    BY <1>1, <1>4, <2>1 DEF AskForWrite, TypeOK
<1>5. CASE Quit
  BY <1>5 DEF Quit, TypeOK
<1>6. CASE \E q \in Query \union {NoQuery} : SetQuery(q)
  <2>1. \A q \in Query \union {NoQuery} : [view EXCEPT !.query = q] \in View
    BY DEF TypeOK, View
  <2> QED
    BY <1>2, <1>6, <2>1 DEF SetQuery
<1>7. CASE \E m \in ViewMode : SetViewMode(m)
  <2>1. \A m \in ViewMode : [view EXCEPT !.mode = m,
                               !.root = IF m # "AllBooks" THEN NoRoot ELSE @] \in View
    BY DEF TypeOK, View
  <2> QED
    BY <1>2, <1>7, <2>1 DEF SetViewMode
<1>8. CASE \E r \in RootId \union {NoRoot} : SetSelectedRootId(r)
  <2>1. \A r \in RootId \union {NoRoot} :
           [view EXCEPT !.root = r, !.mode = IF r # NoRoot THEN "AllBooks" ELSE @] \in View
    BY DEF TypeOK, View, ViewMode
  <2> QED
    BY <1>2, <1>8, <2>1 DEF SetSelectedRootId
<1> QED
  BY <1>3, <1>4, <1>5, <1>6, <1>7, <1>8, SimpleTasks DEF PersonStep, AddRoot, StartScan

LEMMA GuiTypes == ASSUME TypeOK, GuiStep PROVE TypeOK'
<1> USE DEF poolVars, storeVars, guiVars, histories, NextEvent
<1>1. ASSUME HandleEvent
      PROVE  /\ Head(guiQueue) \in Event /\ Tail(guiQueue) \in Seq(Event)
             /\ guiQueue' \in Seq(Event)
  <2>1. Head(guiQueue) \in Event /\ Tail(guiQueue) \in Seq(Event)
    BY <1>1, QueueParts
    DEF TypeOK, HandleEvent, HandleRequestRefresh, HandleSnapshot, HandleBeginScan,
        HandlePreparationFailed, HandleFinished
  <2>2. guiQueue' = Tail(guiQueue) \/ guiQueue' = WithoutFinished(Tail(guiQueue))
    BY <1>1
    DEF HandleEvent, HandleRequestRefresh, HandleSnapshot, HandleBeginScan,
        HandlePreparationFailed, HandleFinished
  <2> QED
    BY <2>1, <2>2, WithoutFinishedParts
<1>2. ASSUME RequestRefresh, view' = view
      PROVE  revision' \in Nat /\ workerQueue' \in Seq(Task)
  <2>1. revision' \in Nat /\ view' \in View
    BY <1>2 DEF RequestRefresh, TypeOK
  <2> QED
    BY <1>2, <2>1, RefreshIsTask DEF RequestRefresh, RunOnWorker, TypeOK
<1>3. CASE HandleRequestRefresh
  BY <1>1, <1>2, <1>3 DEF HandleRequestRefresh, HandleEvent, TypeOK
<1>4. CASE HandleSnapshot
  <2>1. shown' \in [view : View, seen : Versions]
    BY <1>1, <1>4, EventKinds DEF HandleSnapshot, HandleEvent, TypeOK
  <2> QED
    BY <1>1, <1>4, <2>1 DEF HandleSnapshot, HandleEvent, TypeOK
<1>5. CASE HandleBeginScan
  <2>1. guiQueue' \in Seq(Event)
    BY <1>1, <1>5 DEF HandleEvent
  <2>2. /\ ingestions' \in Nat /\ future' \in {"none", "running", "finished", "threw"}
        /\ statusKey' \in {"ready", "scanning", "complete", "completeWithErrors",
                           "noRoots", "error"}
    BY <1>5 DEF HandleBeginScan, TypeOK
  <2>3. unreported' \in BOOLEAN /\ cancelled' \in BOOLEAN
    BY <1>5, Zenon DEF HandleBeginScan, TypeOK
  <2> QED
    BY <1>5, <2>1, <2>2, <2>3 DEF HandleBeginScan, TypeOK
<1>6. CASE HandlePreparationFailed
  BY <1>1, <1>6 DEF HandlePreparationFailed, HandleEvent, TypeOK
<1>7. CASE HandleFinished
  BY <1>1, <1>2, <1>7, EventKinds DEF HandleFinished, HandleEvent, TypeOK
<1>8. CASE WaitForScan
  BY <1>8, SimpleTasks DEF WaitForScan, RunOnWorker, TypeOK
<1>9. CASE Rethrow
  BY <1>9 DEF Rethrow, TypeOK
<1> QED
  BY <1>3, <1>4, <1>5, <1>6, <1>7, <1>8, <1>9 DEF GuiStep, HandleEvent

LEMMA WorkerTypes ==
    ASSUME TypeOK, WritesAreQueued, WorkerStep
    PROVE  TypeOK'
<1> USE DEF poolVars, storeVars, guiVars, histories
<1>1. ASSUME NEW type, NextTask(type)
      PROVE  /\ Head(workerQueue) \in Task /\ workerQueue' \in Seq(Task)
             /\ Head(workerQueue).type = type
  BY <1>1, QueueParts DEF NextTask, TypeOK
<1>2. CASE RunWrite
  <2>1. untried \in Nat /\ untried - 1 \in Nat
    <3>1. workerQueue # <<>> /\ Head(workerQueue).type \in {"write"}
      BY <1>2 DEF RunWrite, NextTask
    <3>2. /\ Cardinality(Of({"write"}, Tail(workerQueue))) =
                Cardinality(Of({"write"}, workerQueue)) - 1
          /\ Tail(workerQueue) \in Seq(Task)
      BY <3>1, CountTail, QueueParts DEF TypeOK
    <3>3. Cardinality(Of({"write"}, Tail(workerQueue))) \in Nat
      BY <3>2, CountAppend, SimpleTasks
    <3> QED
      BY <3>2, <3>3 DEF WritesAreQueued, TypeOK
  <2>2. guiQueue' \in Seq(Event)
    BY <1>2, Events, Posted DEF RunWrite, TypeOK
  <2>3. untried' \in Nat /\ store' \in Nat
    BY <1>2, <2>1 DEF RunWrite, TypeOK
  <2>4. failed' \in BOOLEAN
    BY <1>2, Zenon DEF RunWrite, TypeOK
  <2> QED
    BY <1>1, <1>2, <2>2, <2>3, <2>4 DEF RunWrite, NextTask, TypeOK
<1>3. CASE RunAddRoot
  <2>1. Head(workerQueue).root \in RootId
    BY <1>1, <1>3, TaskKinds DEF RunAddRoot
  <2>2. registered' \subseteq RootId /\ store' \in Nat
    BY <1>3, <2>1 DEF RunAddRoot, TypeOK
  <2>3. guiQueue' \in Seq(Event)
    BY <1>3, <2>2, Events, Posted DEF RunAddRoot, TypeOK
  <2>4. failed' \in BOOLEAN
    BY <1>3 DEF RunAddRoot, TypeOK
  <2> QED
    BY <1>1, <1>3, <2>2, <2>3, <2>4 DEF RunAddRoot, NextTask, TypeOK
<1>4. CASE RunStartScan
  <2>1. guiQueue' \in Seq(Event)
    BY <1>4, Events, Posted DEF RunStartScan, TypeOK
  <2>2. failed' \in BOOLEAN
    BY <1>4, Zenon DEF RunStartScan, TypeOK
  <2> QED
    BY <1>1, <1>4, <2>1, <2>2 DEF RunStartScan, NextTask, TypeOK
<1>5. CASE RunRefresh
  <2>1. Head(workerQueue).revision \in Nat /\ Head(workerQueue).view \in View
    BY <1>1, <1>5, TaskKinds DEF RunRefresh
  <2>2. [revision |-> Head(workerQueue).revision, view |-> Head(workerQueue).view,
         seen |-> [p \in Part |-> 0], next |-> 1] \in Snapshot
    BY <2>1, Parts DEF Snapshot, Versions
  <2>3. snapshot' \in Snapshot \union {NoSnapshot}
    BY <1>5, <2>2, Parts, ReadKeepsType DEF RunRefresh, TypeOK, Snapshot
  <2>4. failed' \in BOOLEAN
    BY <1>5, Zenon DEF RunRefresh, TypeOK
  <2> QED
    BY <1>1, <1>5, <2>3, <2>4 DEF RunRefresh, NextTask, TypeOK, Snapshot
<1>6. CASE ReadPart
  <2>1. snapshot' \in Snapshot \union {NoSnapshot}
    BY <1>6, ReadKeepsType DEF ReadPart, Reading, TypeOK, Snapshot
  <2>2. failed' \in BOOLEAN
    BY <1>6, Zenon DEF ReadPart, TypeOK
  <2>3. /\ UNCHANGED <<view, revision, scanPreparationPending, statusKey, shown>>
        /\ UNCHANGED <<guiQueue, workerQueue, ingestions, future, unreported>>
        /\ UNCHANGED <<cancelled, closing, store, registered, requests, untried>>
    BY <1>6 DEF ReadPart, Reading
  <2> QED
    BY <2>1, <2>2, <2>3, SMTT(20) DEF TypeOK, Snapshot
<1>7. CASE PostSnapshot
  <2>1. snapshot \in Snapshot
    BY <1>7 DEF PostSnapshot, Reading, TypeOK, Snapshot
  <2>2. guiQueue' \in Seq(Event)
    BY <1>7, <2>1, Events, Posted DEF PostSnapshot, TypeOK, Snapshot
  <2>3. /\ UNCHANGED <<view, revision, scanPreparationPending, statusKey, shown>>
        /\ UNCHANGED <<workerQueue, ingestions, future, unreported, failed>>
        /\ UNCHANGED <<cancelled, closing, store, registered, requests, untried>>
        /\ snapshot' = NoSnapshot
    BY <1>7 DEF PostSnapshot, Reading
  <2> QED
    BY <2>2, <2>3, SMTT(20) DEF TypeOK
<1>8. CASE RunDeleteContext
  BY <1>1, <1>8, EmptySeq DEF RunDeleteContext, NextTask, TypeOK
<1> QED
  BY <1>2, <1>3, <1>4, <1>5, <1>6, <1>7, <1>8 DEF WorkerStep

LEMMA PoolTypes == ASSUME TypeOK, PoolStep PROVE TypeOK'
<1> USE DEF poolVars, storeVars, guiVars, histories
<1>1. CASE IngestWrite
  BY <1>1 DEF IngestWrite, Ingesting, TypeOK
<1>2. CASE EndIngest
  BY <1>2 DEF EndIngest, Ingesting, TypeOK
<1>3. CASE ReportFinished
  <2>1. guiQueue' \in Seq(Event)
    BY <1>3, Events, Posted DEF ReportFinished, TypeOK
  <2> QED
    BY <1>3, <2>1 DEF ReportFinished, TypeOK
<1> QED
  BY <1>1, <1>2, <1>3 DEF PoolStep

-----------------------------------------------------------------------------
(* What an action does to a queue.                                         *)

LEMMA TailHas ==
    ASSUME NEW S, NEW q \in Seq(S), q # <<>>, NEW types
    PROVE  /\ Head(q).type \notin types => (Has(types, Tail(q)) <=> Has(types, q))
           /\ Head(q).type \in types => Has(types, q)
           /\ Head(q).type \in types /\ HasAtMostOne(types, q) => ~Has(types, Tail(q))
           /\ HasAtMostOne(types, q) => HasAtMostOne(types, Tail(q))
<1> DEFINE all == Of(types, q)
           tail == Of(types, Tail(q))
<1>1. /\ \A i \in Nat \ {0} : i \in tail <=> i + 1 \in all
      /\ 1 \in all <=> Head(q).type \in types
      /\ all \subseteq Nat \ {0} /\ tail \subseteq Nat \ {0}
  BY OfTail
<1> HIDE DEF all, tail
<1>2. Head(q).type \notin types => (tail # {} <=> all # {})
  <2>1. \A i \in tail : i + 1 \in all
    BY <1>1
  <2>2. \A i \in all : i # 1 => i - 1 \in tail
    BY <1>1
  <2> QED
    BY <1>1, <2>1, <2>2
<1>3. Head(q).type \in types /\ (\A i, j \in all : i = j) => tail = {}
  <2>1. \A i \in tail : i + 1 \in all /\ i + 1 # 1
    BY <1>1
  <2> QED
    BY <1>1, <2>1
<1>4. (\A i, j \in all : i = j) => \A i, j \in tail : i = j
  <2>1. \A i \in tail : i + 1 \in all /\ i \in Nat
    BY <1>1
  <2>2. \A i, j \in Nat : i + 1 = j + 1 => i = j
    OBVIOUS
  <2> QED
    BY <2>1, <2>2
<1> QED
  BY <1>1, <1>2, <1>3, <1>4 DEF all, tail, Has, HasAtMostOne

LEMMA AppendHas ==
    ASSUME NEW S, NEW q \in Seq(S), NEW x \in S, NEW types
    PROVE  /\ x.type \notin types =>
                 /\ Has(types, Append(q, x)) <=> Has(types, q)
                 /\ HasAtMostOne(types, q) => HasAtMostOne(types, Append(q, x))
           /\ x.type \in types =>
                 /\ Has(types, Append(q, x))
                 /\ ~Has(types, q) => HasAtMostOne(types, Append(q, x))
BY OfAppend DEF Has, HasAtMostOne

LEMMA FilterHas ==
    ASSUME NEW S, NEW q \in Seq(S), NEW types
    PROVE  Has(types, WithoutFinished(q)) => Has(types, q)
BY WithoutFinishedParts DEF Has, Of

LEMMA NothingHas == \A types : ~Has(types, <<>>) /\ HasAtMostOne(types, <<>>)
BY OfNothing DEF Has, HasAtMostOne

-----------------------------------------------------------------------------
(* One preparation, one ingestion.                                         *)

LEMMA RefreshRequested ==
    ASSUME TypeOK, RequestRefresh, view' \in View
    PROVE  \E task \in Task :
              /\ task.type = "refresh"
              /\ task.revision = revision' /\ task.view = view'
              /\ workerQueue' = Append(workerQueue, task)
<1>1. revision' \in Nat
  BY DEF RequestRefresh, TypeOK
<1> QED
  BY <1>1, RefreshIsTask DEF RequestRefresh, RunOnWorker

LEMMA OthersPosted ==
    ASSUME TypeOK, NEW types,
           \/ UNCHANGED guiQueue
           \/ \E event \in Event : /\ event.type \notin types
                                   /\ guiQueue' = Append(guiQueue, event)
    PROVE  /\ HasAtMostOne(types, guiQueue) => HasAtMostOne(types, guiQueue)'
           /\ Has(types, guiQueue)' <=> Has(types, guiQueue)
<1>1. CASE UNCHANGED guiQueue
  BY <1>1 DEF Has, HasAtMostOne
<1>2. ASSUME NEW event \in Event, event.type \notin types,
             guiQueue' = Append(guiQueue, event)
      PROVE  /\ HasAtMostOne(types, guiQueue) => HasAtMostOne(types, guiQueue)'
             /\ Has(types, guiQueue)' <=> Has(types, guiQueue)
  BY <1>2, AppendHas DEF TypeOK
<1> QED
  BY <1>1, <1>2

LEMMA PersonPrepares ==
    ASSUME TypeOK, TypeOK', OnePreparation, OneIngestion, PersonStep
    PROVE  OnePreparation' /\ OneIngestion'
<1> USE DEF guiVars, poolVars, storeVars, histories
<1>1. /\ closing # "closed" /\ closing' # "closed"
      /\ UNCHANGED <<guiQueue, ingestions, future>>
  BY DEF PersonStep, SetQuery, SetViewMode, SetSelectedRootId, ChangeView, AddRoot,
         StartScan, PrepareScan, AskForWrite, Person, Quit
<1>2. CASE UNCHANGED <<workerQueue, scanPreparationPending>>
  BY <1>1, <1>2 DEF OnePreparation, OneIngestion
<1>3. ASSUME NEW task \in Task, task.type \notin ScanTask,
             workerQueue' = Append(workerQueue, task),
             UNCHANGED scanPreparationPending
      PROVE  OnePreparation' /\ OneIngestion'
  BY <1>1, <1>3, AppendHas DEF OnePreparation, OneIngestion, TypeOK
<1>4. ASSUME NEW task \in Task, task.type \in ScanTask, PrepareScan(task)
      PROVE  OnePreparation' /\ OneIngestion'
  <2>1. /\ ~scanPreparationPending /\ future # "running" /\ scanPreparationPending'
        /\ workerQueue' = Append(workerQueue, task)
    BY <1>4 DEF PrepareScan, Scanning, RunOnWorker
  <2> QED
    BY <1>1, <1>4, <2>1, AppendHas DEF OnePreparation, OneIngestion, TypeOK
<1>5. ASSUME NEW v, ChangeView(v)
      PROVE  OnePreparation' /\ OneIngestion'
  <2>1. view' \in View /\ UNCHANGED scanPreparationPending /\ RequestRefresh
    BY <1>5 DEF ChangeView, TypeOK
  <2>2. PICK task \in Task :
           task.type = "refresh" /\ workerQueue' = Append(workerQueue, task)
    BY <2>1, RefreshRequested
  <2> QED
    BY <1>3, <2>1, <2>2 DEF ScanTask
<1>6. CASE AskForWrite
  BY <1>3, <1>6, SimpleTasks DEF AskForWrite, RunOnWorker, ScanTask
<1> QED
  BY <1>2, <1>4, <1>5, <1>6, SimpleTasks
  DEF PersonStep, SetQuery, SetViewMode, SetSelectedRootId, AddRoot, StartScan,
      Quit, ScanTask

LEMMA GuiPrepares ==
    ASSUME TypeOK, TypeOK', OnePreparation, OneIngestion, GuiStep
    PROVE  OnePreparation' /\ OneIngestion'
<1> USE DEF guiVars, poolVars, storeVars, histories
<1>1. closing # "closed" /\ closing' # "closed" /\ view' = view
  BY DEF GuiStep, HandleEvent, HandleRequestRefresh, HandleSnapshot, HandleBeginScan,
         HandlePreparationFailed, HandleFinished, NextEvent, WaitForScan, Rethrow
<1>2. ASSUME HandleEvent
      PROVE  guiQueue # <<>> /\ guiQueue \in Seq(Event) /\ Tail(guiQueue) \in Seq(Event)
  BY <1>2, QueueParts
  DEF HandleEvent, HandleRequestRefresh, HandleSnapshot, HandleBeginScan,
      HandlePreparationFailed, HandleFinished, NextEvent, TypeOK
<1>3. ASSUME RequestRefresh \/ UNCHANGED workerQueue
      PROVE  /\ HasAtMostOne(ScanTask, workerQueue) => HasAtMostOne(ScanTask, workerQueue)'
             /\ Has(ScanTask, workerQueue)' <=> Has(ScanTask, workerQueue)
  <2>1. CASE RequestRefresh
    <3>1. PICK task \in Task :
             task.type = "refresh" /\ workerQueue' = Append(workerQueue, task)
      BY <2>1, RefreshRequested DEF TypeOK
    <3> QED
      BY <3>1, AppendHas DEF TypeOK, ScanTask
  <2>2. CASE UNCHANGED workerQueue
    BY <2>2
  <2> QED
    BY <1>3, <2>1, <2>2
<1>4. CASE HandleRequestRefresh \/ HandleSnapshot \/ HandleFinished
  <2>1. /\ guiQueue' = Tail(guiQueue) /\ Head(guiQueue).type \notin ScanAnswer
        /\ RequestRefresh \/ UNCHANGED workerQueue
        /\ UNCHANGED <<scanPreparationPending, ingestions, future>>
    BY <1>4
    DEF HandleRequestRefresh, HandleSnapshot, HandleFinished, NextEvent, ScanAnswer
  <2> QED
    BY <1>1, <1>2, <1>3, <1>4, <2>1, TailHas DEF HandleEvent, OnePreparation, OneIngestion
<1>5. CASE HandleBeginScan \/ HandlePreparationFailed
  <2>1. /\ Head(guiQueue).type \in ScanAnswer
        /\ guiQueue' = Tail(guiQueue) \/ guiQueue' = WithoutFinished(Tail(guiQueue))
        /\ ~scanPreparationPending' /\ UNCHANGED workerQueue
    BY <1>5 DEF HandleBeginScan, HandlePreparationFailed, NextEvent, ScanAnswer
  <2>2. /\ Has(ScanAnswer, guiQueue) /\ ~Has(ScanAnswer, Tail(guiQueue))
        /\ ~Has(ScanTask, workerQueue) /\ scanPreparationPending
    BY <1>1, <1>2, <1>5, <2>1, TailHas DEF HandleEvent, OnePreparation
  <2>3. ~Has(ScanAnswer, guiQueue')
    BY <1>2, <1>5, <2>1, <2>2, FilterHas DEF HandleEvent
  <2>4. OnePreparation'
    BY <1>1, <2>1, <2>2, <2>3 DEF OnePreparation, Has, HasAtMostOne
  <2>5. ingestions = 0 /\ future # "running"
    BY <2>2 DEF OneIngestion
  <2>6. OneIngestion'
    BY <1>5, <2>1, <2>5 DEF HandleBeginScan, HandlePreparationFailed, OneIngestion
  <2> QED
    BY <2>4, <2>6
<1>6. CASE WaitForScan
  <2>1. workerQueue' = Append(workerQueue, [type |-> "deleteContext"])
        /\ UNCHANGED <<guiQueue, scanPreparationPending, ingestions, future>>
    BY <1>6 DEF WaitForScan, RunOnWorker
  <2> QED
    BY <1>1, <2>1, AppendHas, SimpleTasks
    DEF OnePreparation, OneIngestion, ScanTask, TypeOK
<1>7. CASE Rethrow
  BY <1>1, <1>7 DEF Rethrow, OnePreparation, OneIngestion
<1> QED
  BY <1>4, <1>5, <1>6, <1>7 DEF GuiStep, HandleEvent

LEMMA WorkerPrepares ==
    ASSUME TypeOK, TypeOK', OnePreparation, OneIngestion, WorkerStep
    PROVE  OnePreparation' /\ OneIngestion'
<1> USE DEF guiVars, poolVars, storeVars, histories
<1>1. UNCHANGED <<scanPreparationPending, ingestions, future>>
  BY DEF WorkerStep, RunWrite, RunAddRoot, RunStartScan, RunRefresh, ReadPart,
         PostSnapshot, RunDeleteContext, NextTask, Reading
<1>2. OneIngestion'
  BY <1>1 DEF OneIngestion
<1>3. CASE RunWrite \/ RunRefresh \/ ReadPart \/ PostSnapshot
  <2>1. /\ UNCHANGED closing
        /\ \/ UNCHANGED workerQueue
           \/ /\ workerQueue # <<>> /\ Head(workerQueue).type \notin ScanTask
              /\ workerQueue' = Tail(workerQueue)
    BY <1>3
    DEF RunWrite, RunRefresh, ReadPart, PostSnapshot, NextTask, Reading, ScanTask
  <2>2. UNCHANGED guiQueue
        \/ \E event \in Event : /\ event.type \notin ScanAnswer
                                /\ guiQueue' = Append(guiQueue, event)
    <3>1. CASE PostSnapshot
      <4>1. snapshot \in Snapshot
        BY <3>1 DEF PostSnapshot, Reading, TypeOK, Snapshot
      <4>2. [type |-> "snapshot", revision |-> snapshot.revision,
             view |-> snapshot.view, seen |-> snapshot.seen] \in Event
        BY <4>1, Events DEF Snapshot
      <4> QED
        BY <3>1, <4>2 DEF PostSnapshot, PostToGui, ScanAnswer
    <3> QED
      BY <1>3, <3>1, Events DEF RunWrite, RunRefresh, ReadPart, PostToGui, ScanAnswer
  <2>3. /\ HasAtMostOne(ScanTask, workerQueue) => HasAtMostOne(ScanTask, workerQueue)'
        /\ Has(ScanTask, workerQueue)' <=> Has(ScanTask, workerQueue)
    <3>1. CASE UNCHANGED workerQueue
      BY <3>1 DEF Has, HasAtMostOne
    <3>2. CASE /\ workerQueue # <<>> /\ Head(workerQueue).type \notin ScanTask
               /\ workerQueue' = Tail(workerQueue)
      BY <3>2, TailHas DEF TypeOK
    <3> QED
      BY <2>1, <3>1, <3>2
  <2>4. /\ HasAtMostOne(ScanAnswer, guiQueue) => HasAtMostOne(ScanAnswer, guiQueue)'
        /\ Has(ScanAnswer, guiQueue)' <=> Has(ScanAnswer, guiQueue)
    BY <2>2, OthersPosted
  <2> QED
    BY <1>1, <1>2, <2>1, <2>3, <2>4 DEF OnePreparation
<1>4. CASE RunAddRoot \/ RunStartScan
  <2>1. /\ UNCHANGED closing
        /\ workerQueue # <<>> /\ Head(workerQueue).type \in ScanTask
        /\ workerQueue' = Tail(workerQueue)
    BY <1>4 DEF RunAddRoot, RunStartScan, NextTask, ScanTask
  <2>2. PICK event \in Event : /\ event.type \in ScanAnswer
                               /\ guiQueue' = Append(guiQueue, event)
    <3>1. registered' \subseteq RootId /\ registered \subseteq RootId
      BY DEF TypeOK
    <3> QED
      BY <1>4, <3>1, Events DEF RunAddRoot, RunStartScan, PostToGui, ScanAnswer
  <2>3. /\ Has(ScanTask, workerQueue)
        /\ HasAtMostOne(ScanTask, workerQueue) =>
              ~Has(ScanTask, workerQueue)' /\ HasAtMostOne(ScanTask, workerQueue)'
    BY <2>1, TailHas DEF TypeOK
  <2>4. /\ Has(ScanAnswer, guiQueue)'
        /\ ~Has(ScanAnswer, guiQueue) => HasAtMostOne(ScanAnswer, guiQueue)'
    BY <2>2, AppendHas DEF TypeOK
  <2> QED
    BY <1>1, <1>2, <2>1, <2>3, <2>4 DEF OnePreparation
<1>5. CASE RunDeleteContext
  BY <1>2, <1>5 DEF RunDeleteContext, OnePreparation
<1> QED
  BY <1>3, <1>4, <1>5 DEF WorkerStep

LEMMA PoolPrepares ==
    ASSUME TypeOK, TypeOK', OnePreparation, OneIngestion, PoolStep
    PROVE  OnePreparation' /\ OneIngestion'
<1> USE DEF guiVars, poolVars, storeVars, histories
<1>1. UNCHANGED <<scanPreparationPending, workerQueue, closing>>
  BY DEF PoolStep, IngestWrite, EndIngest, ReportFinished, Ingesting
<1>2. OneIngestion'
  BY <1>1 DEF PoolStep, IngestWrite, EndIngest, ReportFinished, Ingesting, OneIngestion
<1>3. UNCHANGED guiQueue
      \/ \E event \in Event : /\ event.type \notin ScanAnswer
                              /\ guiQueue' = Append(guiQueue, event)
  BY Events
  DEF PoolStep, IngestWrite, EndIngest, ReportFinished, Ingesting, PostToGui, ScanAnswer
<1>4. /\ HasAtMostOne(ScanAnswer, guiQueue) => HasAtMostOne(ScanAnswer, guiQueue)'
      /\ Has(ScanAnswer, guiQueue)' <=> Has(ScanAnswer, guiQueue)
  BY <1>3, OthersPosted
<1> QED
  BY <1>1, <1>2, <1>4 DEF OnePreparation

-----------------------------------------------------------------------------
(* The status is owed a change.                                            *)

LEMMA StatusOwed ==
    ASSUME TypeOK, TypeOK', StatusIsOwed, Next
    PROVE  StatusIsOwed'
<1> USE DEF guiVars, poolVars, storeVars, histories
<1>1. CASE PersonStep
  <2>1. /\ UNCHANGED <<guiQueue, future, unreported>>
        /\ closing' # "closed" => closing # "closed"
        /\ scanPreparationPending' \/ UNCHANGED <<scanPreparationPending, statusKey>>
    BY <1>1, Zenon
    DEF PersonStep, SetQuery, SetViewMode, SetSelectedRootId, ChangeView, AddRoot,
        StartScan, PrepareScan, AskForWrite, Person, Quit
  <2>2. CASE scanPreparationPending'
    BY <2>2 DEF StatusIsOwed, Scanning
  <2>3. CASE UNCHANGED <<scanPreparationPending, statusKey>>
    BY <2>1, <2>3 DEF StatusIsOwed, Scanning, Has
  <2> QED
    BY <2>1, <2>2, <2>3
<1>2. CASE HandleRequestRefresh \/ HandleSnapshot
  <2>1. /\ guiQueue # <<>> /\ Head(guiQueue).type \notin {"finished"}
        /\ guiQueue' = Tail(guiQueue)
        /\ UNCHANGED <<closing, statusKey, scanPreparationPending, future, unreported>>
    BY <1>2 DEF HandleRequestRefresh, HandleSnapshot, NextEvent
  <2>2. Has({"finished"}, guiQueue') <=> Has({"finished"}, guiQueue)
    BY <2>1, TailHas DEF TypeOK
  <2> QED
    BY <2>1, <2>2 DEF StatusIsOwed, Scanning
<1>3. CASE HandleBeginScan \/ HandlePreparationFailed
  BY <1>3 DEF HandleBeginScan, HandlePreparationFailed, StatusIsOwed, Scanning
<1>4. CASE HandleFinished
  <2>1. Head(guiQueue) \in Event /\ Head(guiQueue).type = "finished"
    BY <1>4, QueueParts DEF HandleFinished, NextEvent, TypeOK
  <2>2. statusKey' # "scanning"
    BY <1>4, <2>1, EventKinds DEF HandleFinished
  <2> QED
    BY <2>2 DEF StatusIsOwed
<1>5. CASE WaitForScan \/ Rethrow
  BY <1>5 DEF WaitForScan, Rethrow, StatusIsOwed, Scanning
<1>6. ASSUME UNCHANGED <<statusKey, scanPreparationPending, future, unreported>>,
             closing' # "closed" => closing # "closed",
             \/ UNCHANGED guiQueue
             \/ \E event \in Event : guiQueue' = Append(guiQueue, event)
      PROVE  StatusIsOwed'
  <2>1. Has({"finished"}, guiQueue) => Has({"finished"}, guiQueue')
    <3>1. ASSUME NEW event \in Event, Has({"finished"}, guiQueue)
          PROVE  Has({"finished"}, Append(guiQueue, event))
      <4>1. CASE event.type \in {"finished"}
        BY <4>1, AppendHas DEF TypeOK
      <4>2. CASE event.type \notin {"finished"}
        BY <3>1, <4>2, AppendHas DEF TypeOK
      <4> QED
        BY <4>1, <4>2
    <3> QED
      BY <1>6, <3>1
  <2> QED
    BY <1>6, <2>1 DEF StatusIsOwed, Scanning
<1>7. CASE WorkerStep
  <2>1. /\ UNCHANGED <<statusKey, scanPreparationPending, future, unreported>>
        /\ closing' # "closed" => closing # "closed"
    BY <1>7
    DEF WorkerStep, RunWrite, RunAddRoot, RunStartScan, RunRefresh, ReadPart,
        PostSnapshot, RunDeleteContext, NextTask, Reading
  <2>2. CASE RunDeleteContext
    BY <2>2 DEF RunDeleteContext, StatusIsOwed
  <2>3. CASE PostSnapshot
    <3>1. snapshot \in Snapshot
      BY <2>3 DEF PostSnapshot, Reading, TypeOK, Snapshot
    <3>2. [type |-> "snapshot", revision |-> snapshot.revision,
           view |-> snapshot.view, seen |-> snapshot.seen] \in Event
      BY <3>1, Events DEF Snapshot
    <3> QED
      BY <1>6, <2>1, <2>3, <3>2 DEF PostSnapshot, PostToGui
  <2>4. CASE RunWrite \/ RunAddRoot \/ RunStartScan \/ RunRefresh \/ ReadPart
    <3>1. registered \subseteq RootId /\ registered' \subseteq RootId
      BY DEF TypeOK
    <3> QED
      BY <1>6, <2>1, <2>4, <3>1, Events
      DEF RunWrite, RunAddRoot, RunStartScan, RunRefresh, ReadPart, PostToGui
  <2> QED
    BY <1>7, <2>2, <2>3, <2>4 DEF WorkerStep
<1>8. CASE IngestWrite
  BY <1>6, <1>8 DEF IngestWrite, Ingesting
<1>9. CASE EndIngest
  BY <1>9 DEF EndIngest, StatusIsOwed
<1>10. CASE ReportFinished
  <2>1. CASE closing = "closed"
    BY <1>10, <2>1 DEF ReportFinished, StatusIsOwed
  <2>2. ASSUME closing # "closed" PROVE Has({"finished"}, guiQueue')
    <3>1. PICK event \in Event :
             event.type \in {"finished"} /\ guiQueue' = Append(guiQueue, event)
      BY <1>10, <2>2, Events DEF ReportFinished, PostToGui
    <3> QED
      BY <3>1, AppendHas DEF TypeOK
  <2> QED
    BY <2>1, <2>2 DEF StatusIsOwed
<1> QED
  BY <1>1, <1>2, <1>3, <1>4, <1>5, <1>7, <1>8, <1>9, <1>10
  DEF Next, GuiStep, HandleEvent, PoolStep

-----------------------------------------------------------------------------
(* Revisions name views.                                                   *)

LEMMA RequestedQueue ==
    ASSUME NEW S, NEW q \in Seq(S), NEW types, NEW r \in Nat, NEW v,
           AllRequested(types, q, r, v)
    PROVE  /\ q # <<>> => AllRequested(types, Tail(q), r, v)
           /\ q # <<>> /\ Head(q).type \in types => Requested(Head(q), r, v)
           /\ \A x \in S : (x.type \in types => Requested(x, r, v))
                 => AllRequested(types, Append(q, x), r, v)
           /\ AllRequested(types, WithoutFinished(q), r, v)
           /\ \A w : AllRequested(types, q, r + 1, w)
<1>1. ASSUME q # <<>> PROVE AllRequested(types, Tail(q), r, v)
  <2>1. \A i \in Of(types, Tail(q)) : i + 1 \in Of(types, q) /\ Tail(q)[i] = q[i + 1]
    BY <1>1, QueueParts DEF Of
  <2> QED
    BY <2>1 DEF AllRequested
<1>2. ASSUME q # <<>>, Head(q).type \in types PROVE Requested(Head(q), r, v)
  BY <1>2, QueueParts, OfTail DEF AllRequested
<1>3. ASSUME NEW x \in S, x.type \in types => Requested(x, r, v)
      PROVE  AllRequested(types, Append(q, x), r, v)
  <2>1. \A i \in Of(types, Append(q, x)) :
           \/ i \in Of(types, q) /\ Append(q, x)[i] = q[i]
           \/ Append(q, x)[i] = x /\ x.type \in types
    BY DEF Of
  <2> QED
    BY <1>3, <2>1 DEF AllRequested
<1>4. AllRequested(types, WithoutFinished(q), r, v)
  <2>1. \A i \in Of(types, WithoutFinished(q)) :
           \E j \in Of(types, q) : WithoutFinished(q)[i] = q[j]
    BY WithoutFinishedParts DEF Of
  <2> QED
    BY <2>1 DEF AllRequested
<1>5. ASSUME NEW w PROVE AllRequested(types, q, r + 1, w)
  <2>1. \A x : Requested(x, r, v) => Requested(x, r + 1, w)
    BY DEF Requested
  <2> QED
    BY <2>1 DEF AllRequested
<1> QED
  BY <1>1, <1>2, <1>3, <1>4, <1>5

(* A new request is the only one of its revision.                          *)
LEMMA RequestNamesView ==
    ASSUME TypeOK, RevisionsNameViews, RequestRefresh, view' \in View,
           UNCHANGED snapshot, UNCHANGED guiQueue \/ guiQueue' = Tail(guiQueue),
           guiQueue # <<>> \/ UNCHANGED guiQueue
    PROVE  RevisionsNameViews'
<1>1. revision \in Nat /\ revision' = revision + 1 /\ revision' \in Nat
  BY DEF RequestRefresh, TypeOK
<1>2. PICK task \in Task :
         /\ task.type = "refresh"
         /\ task.revision = revision' /\ task.view = view'
         /\ workerQueue' = Append(workerQueue, task)
  BY RefreshRequested
<1>3. AllRequested({"refresh"}, workerQueue', revision', view')
  <2>1. AllRequested({"refresh"}, workerQueue, revision', view')
    BY <1>1, RequestedQueue DEF RevisionsNameViews, TypeOK
  <2>2. Requested(task, revision', view')
    BY <1>1, <1>2 DEF Requested
  <2> QED
    BY <1>1, <1>2, <2>1, <2>2, RequestedQueue DEF TypeOK
<1>4. snapshot # NoSnapshot => Requested(snapshot, revision', view')
  BY <1>1 DEF RevisionsNameViews, Requested
<1>5. AllRequested({"snapshot"}, guiQueue', revision', view')
  <2>1. AllRequested({"snapshot"}, guiQueue, revision', view')
    BY <1>1, RequestedQueue DEF RevisionsNameViews, TypeOK
  <2>2. guiQueue # <<>> => AllRequested({"snapshot"}, Tail(guiQueue), revision', view')
    BY <1>1, <2>1, RequestedQueue DEF TypeOK
  <2>3. CASE UNCHANGED guiQueue
    BY <2>1, <2>3
  <2> QED
    BY <2>2, <2>3
<1> QED
  BY <1>3, <1>4, <1>5 DEF RevisionsNameViews, AllRequested, Requested

LEMMA ViewsNamed ==
    ASSUME TypeOK, TypeOK', RevisionsNameViews, Next
    PROVE  RevisionsNameViews'
<1> USE DEF guiVars, poolVars, storeVars, histories
<1>a. revision \in Nat /\ workerQueue \in Seq(Task) /\ guiQueue \in Seq(Event)
      /\ view' \in View
  BY DEF TypeOK
<1>1. CASE \/ \E v : ChangeView(v)
           \/ HandleRequestRefresh \/ HandleFinished
  <2>1. /\ RequestRefresh /\ UNCHANGED snapshot
        /\ UNCHANGED guiQueue \/ guiQueue' = Tail(guiQueue)
        /\ guiQueue # <<>> \/ UNCHANGED guiQueue
    BY <1>1 DEF ChangeView, Person, HandleRequestRefresh, HandleFinished, NextEvent
  <2> QED
    BY <1>a, <2>1, RequestNamesView
<1>2. ASSUME UNCHANGED <<view, revision, guiQueue, snapshot>>,
             \/ UNCHANGED workerQueue
             \/ \E task \in Task : /\ task.type \notin {"refresh"}
                                   /\ workerQueue' = Append(workerQueue, task)
      PROVE  RevisionsNameViews'
  <2>1. AllRequested({"refresh"}, workerQueue', revision, view)
    BY <1>a, <1>2, RequestedQueue DEF RevisionsNameViews
  <2> QED
    BY <1>2, <2>1 DEF RevisionsNameViews, AllRequested, Requested
<1>3. CASE \/ AskForWrite \/ StartScan \/ Quit \/ WaitForScan \/ Rethrow
           \/ \E r \in RootId : AddRoot(r)
  BY <1>2, <1>3, SimpleTasks
  DEF AskForWrite, StartScan, AddRoot, PrepareScan, Person, Quit, WaitForScan, Rethrow,
      RunOnWorker
<1>4. CASE HandleSnapshot \/ HandleBeginScan \/ HandlePreparationFailed
  <2>1. /\ guiQueue # <<>> /\ UNCHANGED <<view, revision, workerQueue, snapshot>>
        /\ guiQueue' = Tail(guiQueue) \/ guiQueue' = WithoutFinished(Tail(guiQueue))
    BY <1>4 DEF HandleSnapshot, HandleBeginScan, HandlePreparationFailed, NextEvent
  <2>2. Tail(guiQueue) \in Seq(Event)
    BY <1>a, <2>1, QueueParts
  <2>3. AllRequested({"snapshot"}, Tail(guiQueue), revision, view)
    BY <1>a, <2>1, RequestedQueue DEF RevisionsNameViews
  <2>4. AllRequested({"snapshot"}, guiQueue', revision, view)
    BY <1>a, <2>1, <2>2, <2>3, RequestedQueue
  <2> QED
    BY <2>1, <2>4 DEF RevisionsNameViews, AllRequested, Requested
<1>5. CASE WorkerStep
  <2>1. UNCHANGED <<view, revision>>
    BY <1>5
    DEF WorkerStep, RunWrite, RunAddRoot, RunStartScan, RunRefresh, ReadPart,
        PostSnapshot, RunDeleteContext, NextTask, Reading
  <2>2. AllRequested({"refresh"}, workerQueue', revision, view)
    <3>1. \/ UNCHANGED workerQueue
          \/ workerQueue # <<>> /\ workerQueue' = Tail(workerQueue)
      BY <1>5
      DEF WorkerStep, RunWrite, RunAddRoot, RunStartScan, RunRefresh, ReadPart,
          PostSnapshot, RunDeleteContext, NextTask, Reading
    <3> QED
      BY <1>a, <3>1, RequestedQueue DEF RevisionsNameViews
  <2>3. snapshot' # NoSnapshot => Requested(snapshot', revision, view)
    <3>1. CASE RunRefresh
      <4>1. workerQueue # <<>> /\ Head(workerQueue).type \in {"refresh"}
        BY <3>1 DEF RunRefresh, NextTask
      <4>2. /\ Head(workerQueue) \in Task
            /\ Requested(Head(workerQueue), revision, view)
        BY <1>a, <4>1, QueueParts, RequestedQueue DEF RevisionsNameViews
      <4>3. PICK s \in Snapshot :
               /\ s.revision = Head(workerQueue).revision
               /\ s.view = Head(workerQueue).view
               /\ s.next <= Len(PartOrder)
               /\ snapshot' = Read(s) \/ UNCHANGED snapshot
        <5>1. Head(workerQueue).revision \in Nat /\ Head(workerQueue).view \in View
          BY <4>1, <4>2, TaskKinds
        <5>2. [revision |-> Head(workerQueue).revision, view |-> Head(workerQueue).view,
               seen |-> [p \in Part |-> 0], next |-> 1] \in Snapshot
          BY <5>1, Parts DEF Snapshot, Versions
        <5> QED
          BY <3>1, <5>2, Parts DEF RunRefresh
      <4>4. Read(s).revision = s.revision /\ Read(s).view = s.view
        BY <4>3, ReadKeepsType DEF TypeOK
      <4> QED
        BY <3>1, <4>2, <4>3, <4>4 DEF RunRefresh, NextTask, Requested
    <3>2. CASE ReadPart
      <4>1. snapshot \in Snapshot /\ snapshot.next <= Len(PartOrder)
        BY <3>2 DEF ReadPart, Reading, TypeOK, Snapshot
      <4>2. Read(snapshot).revision = snapshot.revision /\ Read(snapshot).view = snapshot.view
        BY <4>1, ReadKeepsType DEF TypeOK
      <4> QED
        BY <3>2, <4>2 DEF ReadPart, Reading, RevisionsNameViews, Requested
    <3>3. CASE snapshot' = NoSnapshot \/ UNCHANGED snapshot
      BY <3>3 DEF RevisionsNameViews
    <3> QED
      BY <1>5, <3>1, <3>2, <3>3
      DEF WorkerStep, RunWrite, RunAddRoot, RunStartScan, PostSnapshot, RunDeleteContext
  <2>4. AllRequested({"snapshot"}, guiQueue', revision, view)
    <3>1. CASE PostSnapshot
      <4>1. snapshot \in Snapshot /\ Requested(snapshot, revision, view)
        BY <3>1 DEF PostSnapshot, Reading, TypeOK, Snapshot, RevisionsNameViews
      <4>2. PICK event \in Event :
               /\ event.revision = snapshot.revision /\ event.view = snapshot.view
               /\ guiQueue' = Append(guiQueue, event)
        <5>1. [type |-> "snapshot", revision |-> snapshot.revision,
               view |-> snapshot.view, seen |-> snapshot.seen] \in Event
          BY <4>1, Events DEF Snapshot
        <5> QED
          BY <3>1, <5>1 DEF PostSnapshot, PostToGui
      <4>3. Requested(event, revision, view)
        BY <4>1, <4>2 DEF Requested
      <4> QED
        BY <1>a, <4>2, <4>3, RequestedQueue DEF RevisionsNameViews
    <3>2. CASE RunDeleteContext
      BY <3>2, OfNothing DEF RunDeleteContext, AllRequested
    <3>3. CASE RunWrite \/ RunAddRoot \/ RunStartScan \/ RunRefresh \/ ReadPart
      <4>1. \/ UNCHANGED guiQueue
            \/ \E event \in Event : /\ event.type \notin {"snapshot"}
                                    /\ guiQueue' = Append(guiQueue, event)
        <5>1. registered \subseteq RootId /\ registered' \subseteq RootId
          BY DEF TypeOK
        <5> QED
          BY <3>3, <5>1, Events
          DEF RunWrite, RunAddRoot, RunStartScan, RunRefresh, ReadPart, PostToGui
      <4> QED
        BY <1>a, <4>1, RequestedQueue DEF RevisionsNameViews
    <3> QED
      BY <1>5, <3>1, <3>2, <3>3 DEF WorkerStep
  <2> QED
    BY <2>1, <2>2, <2>3, <2>4 DEF RevisionsNameViews, AllRequested, Requested
<1>6. CASE PoolStep
  <2>1. /\ UNCHANGED <<view, revision, workerQueue, snapshot>>
        /\ \/ UNCHANGED guiQueue
           \/ \E event \in Event : /\ event.type \notin {"snapshot"}
                                   /\ guiQueue' = Append(guiQueue, event)
    BY <1>6, Events
    DEF PoolStep, IngestWrite, EndIngest, ReportFinished, Ingesting, PostToGui
  <2>2. AllRequested({"snapshot"}, guiQueue', revision, view)
    BY <1>a, <2>1, RequestedQueue DEF RevisionsNameViews
  <2> QED
    BY <2>1, <2>2 DEF RevisionsNameViews, AllRequested, Requested
<1> QED
  BY <1>1, <1>3, <1>4, <1>5, <1>6
  DEF Next, PersonStep, SetQuery, SetViewMode, SetSelectedRootId, GuiStep, HandleEvent

-----------------------------------------------------------------------------
(* The order of quitting, and the writes that are still queued.            *)

(* What a step does to the worker's queue.                                 *)
LEMMA WorkerQueueSteps ==
    ASSUME TypeOK, TypeOK', Next
    PROVE  \/ UNCHANGED <<workerQueue, untried, closing, snapshot>>
           \/ UNCHANGED <<workerQueue, untried, snapshot>> /\ (Quit \/ Rethrow)
           \/ UNCHANGED <<workerQueue, untried, closing>> /\ (ReadPart \/ PostSnapshot)
           \/ /\ UNCHANGED <<closing, snapshot>> /\ closing = "open"
              /\ \E task \in Task :
                    /\ task.type # "deleteContext"
                    /\ workerQueue' = Append(workerQueue, task)
                    /\ untried' = untried + IF task.type = "write" THEN 1 ELSE 0
           \/ WaitForScan
           \/ /\ workerQueue # <<>> /\ workerQueue' = Tail(workerQueue)
              /\ snapshot = NoSnapshot
              /\ \/ Head(workerQueue).type = "deleteContext" /\ RunDeleteContext
                 \/ /\ Head(workerQueue).type # "deleteContext" /\ UNCHANGED closing
                    /\ \/ Head(workerQueue).type = "write" /\ untried' = untried - 1
                       \/ Head(workerQueue).type # "write" /\ UNCHANGED untried
<1> USE DEF guiVars, poolVars, storeVars, histories
<1>1. untried \in Nat
  BY DEF TypeOK
<1>2. CASE \/ \E v : ChangeView(v)
           \/ HandleRequestRefresh \/ HandleFinished
  <2>1. /\ RequestRefresh /\ view' \in View
        /\ UNCHANGED <<closing, snapshot, untried>> /\ closing = "open"
    BY <1>2
    DEF ChangeView, Person, HandleRequestRefresh, HandleFinished, NextEvent, TypeOK
  <2>2. PICK task \in Task :
           task.type = "refresh" /\ workerQueue' = Append(workerQueue, task)
    BY <2>1, RefreshRequested
  <2> QED
    BY <1>1, <2>1, <2>2
<1>3. CASE AskForWrite
  BY <1>1, <1>3, SimpleTasks DEF AskForWrite, Person, RunOnWorker
<1>4. CASE StartScan \/ \E r \in RootId : AddRoot(r)
  <2>1. PICK task \in Task : task.type \in ScanTask /\ PrepareScan(task)
    BY <1>4, SimpleTasks DEF StartScan, AddRoot, ScanTask
  <2> QED
    BY <1>1, <2>1 DEF PrepareScan, Person, RunOnWorker, ScanTask
<1>5. CASE HandleSnapshot \/ HandleBeginScan \/ HandlePreparationFailed \/ PoolStep
  BY <1>5
  DEF HandleSnapshot, HandleBeginScan, HandlePreparationFailed, NextEvent,
      PoolStep, IngestWrite, EndIngest, ReportFinished, Ingesting
<1>6. CASE Quit \/ Rethrow
  BY <1>6 DEF Quit, Rethrow
<1>7. CASE ReadPart \/ PostSnapshot
  BY <1>7 DEF ReadPart, PostSnapshot, Reading
<1>8. CASE RunWrite \/ RunAddRoot \/ RunStartScan \/ RunRefresh
  BY <1>8 DEF RunWrite, RunAddRoot, RunStartScan, RunRefresh, NextTask
<1>9. CASE RunDeleteContext
  BY <1>9 DEF RunDeleteContext, NextTask
<1> QED
  BY <1>2, <1>3, <1>4, <1>5, <1>6, <1>7, <1>8, <1>9
  DEF Next, PersonStep, SetQuery, SetViewMode, SetSelectedRootId, GuiStep,
      HandleEvent, WorkerStep

LEMMA WritesStayQueued ==
    ASSUME TypeOK, TypeOK', WritesAreQueued, Next
    PROVE  WritesAreQueued'
<1> DEFINE writes(q) == Cardinality(Of({"write"}, q))
<1>1. workerQueue \in Seq(Task) /\ untried \in Nat
  BY DEF TypeOK
<1>2. CASE UNCHANGED <<workerQueue, untried>>
  BY <1>2 DEF WritesAreQueued
<1>3. ASSUME NEW task \in Task, workerQueue' = Append(workerQueue, task),
             untried' = untried + IF task.type = "write" THEN 1 ELSE 0
      PROVE  WritesAreQueued'
  BY <1>1, <1>3, CountAppend DEF WritesAreQueued
<1>4. CASE WaitForScan
  <2>1. PICK task \in Task :
           task.type = "deleteContext" /\ workerQueue' = Append(workerQueue, task)
    BY <1>4, SimpleTasks DEF WaitForScan, RunOnWorker
  <2>2. UNCHANGED untried
    BY <1>4 DEF WaitForScan, histories
  <2> QED
    BY <1>1, <1>3, <2>1, <2>2
<1>5. CASE /\ workerQueue # <<>> /\ workerQueue' = Tail(workerQueue)
           /\ \/ Head(workerQueue).type = "write" /\ untried' = untried - 1
              \/ Head(workerQueue).type # "write" /\ UNCHANGED untried
  <2>1. writes(Tail(workerQueue)) =
           writes(workerQueue) - IF Head(workerQueue).type \in {"write"} THEN 1 ELSE 0
    BY <1>1, <1>5, CountTail
  <2> QED
    BY <1>1, <1>5, <2>1 DEF WritesAreQueued
<1>6. CASE RunDeleteContext
  BY <1>5, <1>6 DEF RunDeleteContext, NextTask
<1> QED
  BY <1>2, <1>3, <1>4, <1>5, <1>6, WorkerQueueSteps

LEMMA QuittingStaysInOrder ==
    ASSUME TypeOK, TypeOK', OneIngestion, QuitsInOrder, Next
    PROVE  QuitsInOrder'
<1> USE DEF guiVars, poolVars, storeVars, histories
<1> DEFINE last(q) == Of({"deleteContext"}, q)
<1>1. workerQueue \in Seq(Task) /\ Len(workerQueue) \in Nat
  BY LenProperties DEF TypeOK
<1>2. closing' # "open" => cancelled'
  <2>1. CASE closing = "open" /\ closing' = "open"
    BY <2>1
  <2>2. CASE closing # "open"
    <3>1. closing' # "open" /\ UNCHANGED cancelled
      BY <2>2, Zenon
      DEF Next, PersonStep, SetQuery, SetViewMode, SetSelectedRootId, ChangeView,
          AddRoot, StartScan, PrepareScan, AskForWrite, Person, Quit, GuiStep,
          HandleEvent, HandleRequestRefresh, HandleSnapshot, HandleBeginScan,
          HandlePreparationFailed, HandleFinished, NextEvent, WaitForScan, Rethrow,
          WorkerStep, RunWrite, RunAddRoot, RunStartScan, RunRefresh, ReadPart, PostSnapshot,
          RunDeleteContext, NextTask, Reading, PoolStep, IngestWrite, EndIngest,
          ReportFinished, Ingesting
    <3> QED
      BY <2>2, <3>1 DEF QuitsInOrder
  <2>3. CASE closing = "open" /\ closing' # "open"
    <3>1. CASE Quit
      BY <3>1 DEF Quit
    <3>2. CASE RunDeleteContext
      <4>1. 1 \in last(workerQueue)
        BY <1>1, <3>2, OfTail DEF RunDeleteContext, NextTask
      <4> QED
        BY <2>3, <4>1 DEF QuitsInOrder
    <3> QED
      BY <2>3, <3>1, <3>2, WorkerQueueSteps
      DEF WaitForScan, Rethrow, ReadPart, PostSnapshot, Reading
  <2> QED
    BY <2>1, <2>2, <2>3
<1>3. /\ closing' \in {"draining", "closed"} => future' \in {"none", "finished"}
      /\ closing' = "terminated" => future' = "threw"
  <2>1. CASE HandleBeginScan
    BY <2>1 DEF HandleBeginScan, NextEvent
  <2>2. CASE RunDeleteContext
    <3>1. 1 \in last(workerQueue)
      BY <1>1, <2>2, OfTail DEF RunDeleteContext, NextTask
    <3>2. closing = "draining"
      BY <3>1 DEF QuitsInOrder
    <3> QED
      BY <2>2, <3>2 DEF RunDeleteContext, NextTask, QuitsInOrder
  <2>3. CASE WaitForScan
    BY <2>3 DEF WaitForScan
  <2>4. CASE Quit \/ Rethrow
    BY <2>4 DEF Quit, Rethrow
  <2>5. CASE PoolStep
    <3>1. CASE IngestWrite \/ ReportFinished
      BY <3>1 DEF IngestWrite, ReportFinished, Ingesting, QuitsInOrder
    <3>2. CASE EndIngest
      <4>1. future = "running" /\ UNCHANGED closing /\ closing # "terminated"
        BY <3>2 DEF EndIngest, Ingesting, Alive, OneIngestion
      <4> QED
        BY <4>1 DEF QuitsInOrder
    <3> QED
      BY <2>5, <3>1, <3>2 DEF PoolStep
  <2>6. CASE UNCHANGED <<closing, future>>
    BY <2>6 DEF QuitsInOrder
  <2> QED
    BY <2>1, <2>2, <2>3, <2>4, <2>5, <2>6
    DEF Next, PersonStep, SetQuery, SetViewMode, SetSelectedRootId, ChangeView,
        AddRoot, StartScan, PrepareScan, AskForWrite, Person, GuiStep, HandleEvent,
        HandleRequestRefresh, HandleSnapshot, HandlePreparationFailed, HandleFinished,
        NextEvent, WorkerStep, RunWrite, RunAddRoot, RunStartScan, RunRefresh,
        ReadPart, PostSnapshot, NextTask, Reading
<1>4. /\ last(workerQueue') = IF closing' = "draining" THEN {Len(workerQueue')} ELSE {}
      /\ closing' = "closed" => workerQueue' = <<>> /\ snapshot' = NoSnapshot
  <2>1. CASE UNCHANGED <<workerQueue, closing, snapshot>>
    BY <2>1 DEF QuitsInOrder
  <2>2. CASE UNCHANGED <<workerQueue, snapshot>> /\ (Quit \/ Rethrow)
    BY <2>2 DEF Quit, Rethrow, QuitsInOrder
  <2>3. CASE UNCHANGED <<workerQueue, closing>> /\ (ReadPart \/ PostSnapshot)
    <3>1. closing # "closed"
      BY <2>3 DEF ReadPart, PostSnapshot, Reading, QuitsInOrder
    <3> QED
      BY <2>3, <3>1 DEF QuitsInOrder
  <2>4. ASSUME UNCHANGED <<closing, snapshot>>, closing = "open",
               NEW task \in Task, task.type # "deleteContext",
               workerQueue' = Append(workerQueue, task)
        PROVE  <1>4!1 /\ <1>4!2
    BY <1>1, <2>4, OfAppend DEF QuitsInOrder
  <2>5. CASE WaitForScan
    <3>1. PICK task \in Task :
             task.type = "deleteContext" /\ workerQueue' = Append(workerQueue, task)
      BY <2>5, SimpleTasks DEF WaitForScan, RunOnWorker
    <3>2. closing = "waiting" /\ closing' = "draining" /\ last(workerQueue) = {}
      BY <2>5 DEF WaitForScan, QuitsInOrder
    <3>3. Len(workerQueue') = Len(workerQueue) + 1
      BY <1>1, <3>1
    <3>4. last(workerQueue') = {Len(workerQueue) + 1}
      BY <1>1, <3>1, <3>2, OfAppend
    <3> QED
      BY <3>2, <3>3, <3>4
  <2>6. CASE /\ workerQueue # <<>> /\ workerQueue' = Tail(workerQueue)
             /\ snapshot = NoSnapshot
             /\ Head(workerQueue).type = "deleteContext" /\ RunDeleteContext
    <3>1. 1 \in last(workerQueue)
      BY <1>1, <2>6, OfTail
    <3>2. closing = "draining" /\ Len(workerQueue) = 1
      BY <3>1 DEF QuitsInOrder
    <3>3. workerQueue' \in Seq(Task) /\ Len(workerQueue') = 0
      BY <1>1, <2>6, <3>2, QueueParts
    <3>4. workerQueue' = <<>>
      BY <3>3, EmptySeq
    <3> QED
      BY <2>6, <3>4, OfNothing DEF RunDeleteContext
  <2>7. CASE /\ workerQueue # <<>> /\ workerQueue' = Tail(workerQueue)
             /\ snapshot = NoSnapshot
             /\ Head(workerQueue).type # "deleteContext" /\ UNCHANGED closing
    <3> DEFINE all == last(workerQueue)
               tail == last(Tail(workerQueue))
    <3>1. /\ \A i \in Nat \ {0} : i \in tail <=> i + 1 \in all
          /\ 1 \notin all
          /\ all \subseteq Nat \ {0} /\ tail \subseteq Nat \ {0}
      BY <1>1, <2>7, OfTail
    <3>2. closing # "closed" /\ Len(Tail(workerQueue)) = Len(workerQueue) - 1
      BY <1>1, <2>7, QueueParts DEF QuitsInOrder
    <3>3. all = IF closing = "draining" THEN {Len(workerQueue)} ELSE {}
      BY DEF QuitsInOrder
    <3> HIDE DEF all, tail
    <3>4. tail = IF closing = "draining" THEN {Len(workerQueue) - 1} ELSE {}
      <4>1. CASE closing = "draining"
        <5>1. PICK n \in Nat : n = Len(workerQueue)
          BY <1>1
        <5>2. n \in all /\ n # 1 /\ n - 1 \in Nat \ {0}
          BY <3>1, <3>3, <4>1, <5>1
        <5>3. n - 1 \in tail
          BY <3>1, <5>2
        <5>4. \A i \in tail : i = n - 1
          BY <3>1, <3>3, <4>1, <5>1
        <5> QED
          BY <4>1, <5>1, <5>3, <5>4
      <4>2. CASE closing # "draining"
        BY <3>1, <3>3, <4>2
      <4> QED
        BY <4>1, <4>2
    <3> QED
      BY <2>7, <3>2, <3>4 DEF tail
  <2> QED
    BY <2>1, <2>2, <2>3, <2>4, <2>5, <2>6, <2>7, WorkerQueueSteps
<1> QED
  BY <1>2, <1>3, <1>4 DEF QuitsInOrder

-----------------------------------------------------------------------------
(* Theorems.                                                               *)

LEMMA ControlInvInit == Init => ControlInv
<1> SUFFICES ASSUME Init PROVE ControlInv
  OBVIOUS
<1>1. TypeOK
  BY TypeInit
<1>2. PICK first \in Task :
         /\ first.type = "refresh" /\ first.revision = 1 /\ first.view = InitialView
         /\ workerQueue = Append(<<>>, first)
  <2>1. InitialView \in View
    BY DEF InitialView, View, ViewMode
  <2> QED
    BY <2>1, RefreshIsTask DEF Init
<1>3. <<>> \in Seq(Task)
  BY EmptySeq
<1>4. /\ ~Has(ScanTask, workerQueue) /\ HasAtMostOne(ScanTask, workerQueue)
      /\ Of({"deleteContext"}, workerQueue) = {}
      /\ Of({"write"}, workerQueue) = {}
  BY <1>2, <1>3, NothingHas, AppendHas, OfAppend, OfNothing DEF ScanTask
<1>5. AllRequested({"refresh"}, workerQueue, revision, view)
  <2>1. AllRequested({"refresh"}, <<>>, revision, view)
    BY OfNothing DEF AllRequested
  <2>2. Requested(first, revision, view) /\ revision \in Nat
    BY <1>2 DEF Requested, Init
  <2> QED
    BY <1>2, <1>3, <2>1, <2>2, RequestedQueue
<1>6. guiQueue = <<>> /\ ~Has(ScanAnswer, guiQueue) /\ HasAtMostOne(ScanAnswer, guiQueue)
      /\ AllRequested({"snapshot"}, guiQueue, revision, view)
  BY NothingHas, OfNothing DEF Init, AllRequested
<1> QED
  BY <1>1, <1>4, <1>5, <1>6, FS_EmptySet
  DEF Init, ControlInv, OnePreparation, OneIngestion, StatusIsOwed,
      RevisionsNameViews, QuitsInOrder, WritesAreQueued

LEMMA ControlInvStep == ControlInv /\ [Next]_vars => ControlInv'
<1> SUFFICES ASSUME ControlInv, [Next]_vars PROVE ControlInv'
  OBVIOUS
<1>1. CASE UNCHANGED vars
  BY <1>1
  DEF vars, guiVars, poolVars, storeVars, histories, ControlInv, TypeOK,
      OnePreparation, OneIngestion, StatusIsOwed, Scanning, RevisionsNameViews,
      AllRequested, Requested, QuitsInOrder, WritesAreQueued, Has, HasAtMostOne
<1>2. CASE Next
  <2>1. TypeOK'
    BY <1>2, PersonTypes, GuiTypes, WorkerTypes, PoolTypes DEF ControlInv, Next
  <2>2. OnePreparation' /\ OneIngestion'
    BY <1>2, <2>1, PersonPrepares, GuiPrepares, WorkerPrepares, PoolPrepares
    DEF ControlInv, Next
  <2> QED
    BY <1>2, <2>1, <2>2, StatusOwed, ViewsNamed, QuittingStaysInOrder, WritesStayQueued
    DEF ControlInv
<1> QED
  BY <1>1, <1>2

LEMMA ControlInvariance == Spec => []ControlInv
BY ControlInvInit, ControlInvStep, PTL DEF Spec

(* Every event, task and snapshot keeps its type; the number of untried    *)
(* writes is never taken below zero, as each was queued before it is tried *)
(* (runOnWorker, invokeMethod).                                            *)
THEOREM ControllerTypes == Spec => []TypeOK
BY ControlInvariance, PTL DEF ControlInv

(* There is never a second ingestion, not even while one is prepared:      *)
(* scanPreparationPending_ is set exactly as long as one task, or its one  *)
(* answer, is queued (addRoot, startScan, beginScan).                      *)
THEOREM NeverTwoIngestions == Spec => []AtMostOneIngestion
<1>1. ControlInv => AtMostOneIngestion
  BY DEF ControlInv, OneIngestion, AtMostOneIngestion
<1> QED
  BY <1>1, ControlInvariance, PTL

(* When nothing is under way any more the status says so, whichever calls  *)
(* have thrown and whichever report of a finished scan was lost            *)
(* (setScanPreparationFailed, beginScan and the watcher's handler).        *)
THEOREM StatusNeverSticks == Spec => []StatusSettles
<1>1. ControlInv => StatusSettles
  BY NothingHas DEF ControlInv, StatusIsOwed, StatusSettles, Quiet
<1> QED
  BY <1>1, ControlInvariance, PTL

(* A destructor that returns leaves no ingestion on the destroyed object,  *)
(* a worker with nothing left to do, and no write untried that was asked   *)
(* for.  One that does not return has found the exception of the last      *)
(* ingestion, which waitForFinished throws again; no other ending exists,  *)
(* and cancellation is never taken back (~LibraryController).              *)
THEOREM QuittingIsOrderly == Spec => []QuitIsOrderly
<1>1. ControlInv => QuitIsOrderly
  <2> SUFFICES ASSUME ControlInv PROVE QuitIsOrderly
    OBVIOUS
  <2>1. workerQueue = <<>> => untried = 0
    BY OfNothing, FS_EmptySet DEF ControlInv, WritesAreQueued
  <2> QED
    BY <2>1 DEF ControlInv, OneIngestion, QuitsInOrder, QuitIsOrderly, NothingLeft
<1> QED
  BY <1>1, ControlInvariance, PTL

(* What is shown next is always for the view the person has asked for      *)
(* last, however late a snapshot arrives: no two requests share a revision *)
(* (requestRefresh, refreshRevision_).                                     *)
THEOREM OvertakenIsDropped == Spec => OvertakenRefreshesAreDropped
<1>1. ASSUME ControlInv, [Next]_vars PROVE shown' # shown => shown'.view = view
  <2>1. CASE HandleSnapshot
    <3>1. /\ guiQueue # <<>> /\ Head(guiQueue).type \in {"snapshot"}
          /\ shown' = IF Head(guiQueue).revision = revision
                      THEN [view |-> Head(guiQueue).view, seen |-> Head(guiQueue).seen]
                      ELSE shown
      BY <2>1 DEF HandleSnapshot, NextEvent
    <3>2. Requested(Head(guiQueue), revision, view)
      BY <1>1, <3>1, RequestedQueue DEF ControlInv, TypeOK, RevisionsNameViews
    <3> QED
      BY <3>1, <3>2 DEF Requested
  <2>2. HandleSnapshot \/ UNCHANGED shown
    BY <1>1
    DEF guiVars, poolVars, storeVars, histories, vars,
        Next, PersonStep, SetQuery, SetViewMode, SetSelectedRootId, ChangeView,
        AddRoot, StartScan, PrepareScan, AskForWrite, Person, Quit, GuiStep,
        HandleEvent, HandleRequestRefresh, HandleBeginScan,
        HandlePreparationFailed, HandleFinished, NextEvent, WaitForScan, Rethrow,
        WorkerStep, RunWrite, RunAddRoot, RunStartScan, RunRefresh, ReadPart, PostSnapshot,
        RunDeleteContext, NextTask, Reading, PoolStep, IngestWrite, EndIngest,
        ReportFinished, Ingesting
  <2> QED
    BY <2>1, <2>2
<1>2. ControlInv /\ [Next]_vars => [shown' # shown => shown'.view = view]_vars
  BY <1>1
<1> QED
  BY <1>2, ControlInvariance, PTL DEF Spec, OvertakenRefreshesAreDropped
=============================================================================
