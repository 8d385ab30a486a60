------------------------ MODULE QualificationProofs ------------------------
(***************************************************************************)
(* Proofs about the tools that qualify the PDF engines, for any number of  *)
(* producers, requests and iterations, any outline and any windows: that   *)
(* the stress tool's verdict is about the requests it made, that the loops *)
(* that wait for hits miss none, that an outline is listed whole, that     *)
(* the shell's metrics tell of the run they were measured in, and that     *)
(* every tool's engine handles nest and its verdict covers every refusal.  *)
(***************************************************************************)
EXTENDS QualificationEvidence, PdfEngineProofs, FiniteSetTheorems,
        SequenceTheorems, TLAPS

-----------------------------------------------------------------------------
(* The stress tool.  Every request is, from the moment it is pushed, in    *)
(* exactly one place: in the queue, in the worker's hands, or finished     *)
(* (OnePlace).  The counters count what they are named for (Counters), and *)
(* each thread can be past a join only if those it joined have ended       *)
(* (Phases).                                                               *)

StressTypeOK ==
    /\ mainAt \in {"awaitLifetime", "asleep", "spawn", "close", "notifyWorker", "join",
                   "reported", "notRun"}
    /\ workerAt \in {"lifetime", "notifyMain", "awaitWork", "asleep", "taken",
                     "working", "ended", "notRun"}
    /\ lifetime \in [left : Nat, completed : Nat, failures : Nat]
    /\ lifetimeDone \in BOOLEAN
    /\ producerAt \in [Producers -> {"none", "push", "count", "notify", "ended"}]
    /\ sent \in [Producers -> Nat]
    /\ queue \in Seq(Tasks)
    /\ submitted \in Nat
    /\ producersDone \in BOOLEAN
    /\ task \in Tasks
    /\ activeApi \in Nat /\ maxActiveApi \in Nat
    /\ completed \in Nat /\ failed \in Nat
    /\ finished \in SUBSET Tasks

(* Who may be where, by who has ended.                                     *)
Phases ==
    /\ \A p \in Producers :
          /\ sent[p] <= RequestsPerProducer
          /\ producerAt[p] = "count" => sent[p] > 0
          /\ producerAt[p] = "ended" => sent[p] = RequestsPerProducer
    /\ mainAt \in {"close", "notifyWorker", "join", "reported"} =>
          \A p \in Producers : producerAt[p] = "ended"
    /\ producersDone => mainAt \in {"notifyWorker", "join", "reported"}
    /\ workerAt = "ended" => producersDone /\ queue = <<>>
    /\ mainAt = "reported" => workerAt = "ended"

LifetimeCounts ==
    /\ lifetime.left + lifetime.completed + lifetime.failures = LifetimeIterations
    /\ workerAt \notin {"lifetime", "notRun"} => lifetime.left = 0

OneApiCall ==
    /\ activeApi = IF workerAt = "working" THEN 1 ELSE 0
    /\ maxActiveApi <= 1
    /\ finished # {} \/ workerAt = "working" => maxActiveApi = 1

Pushed == {t \in Tasks : t[2] < sent[t[1]]}
Members(s) == {s[i] : i \in 1 .. Len(s)}
NoRepeats(s) == \A i, j \in 1 .. Len(s) : s[i] = s[j] => i = j
Queued == Members(queue)
InHand == IF workerAt \in {"taken", "working"} THEN {task} ELSE {}

OnePlace ==
    /\ Pushed = finished \union Queued \union InHand
    /\ finished \cap Queued = {}
    /\ InHand \cap (finished \union Queued) = {}
    /\ NoRepeats(queue)

(* A pushed request is counted by a later step of its producer.            *)
Counted ==
    {t \in Tasks : IF producerAt[t[1]] = "count" THEN t[2] + 1 < sent[t[1]]
                                                 ELSE t[2] < sent[t[1]]}

Counters ==
    /\ completed + failed = Cardinality(finished)
    /\ submitted = Cardinality(Counted)

LEMMA FiniteTasks ==
    /\ IsFiniteSet(Tasks)
    /\ Cardinality(Tasks) = ProducerCount * RequestsPerProducer
<1>1. IsFiniteSet(Producers) /\ Cardinality(Producers) = ProducerCount
  BY FS_Interval, StressAssumption DEF Producers
<1>2. IsFiniteSet(Requests) /\ Cardinality(Requests) = RequestsPerProducer
  BY FS_Interval, StressAssumption DEF Requests
<1> QED
  BY <1>1, <1>2, FS_Product DEF Tasks

LEMMA FiniteSubsets == \A S \in SUBSET Tasks : IsFiniteSet(S)
  BY FiniteTasks, FS_Subset

(* The fields of a request.                                                *)
LEMMA TaskFields ==
    \A t \in Tasks : t[1] \in Producers /\ t[2] \in Requests /\ t[2] \in Nat
                     /\ t[2] < RequestsPerProducer /\ t = <<t[1], t[2]>>
  BY StressAssumption DEF Tasks, Requests

LEMMA TypeStep ==
    ASSUME StressTypeOK, OneApiCall, [StressNext]_stressVars
    PROVE  StressTypeOK'
<1> USE StressAssumption DEF StressTypeOK
<1>1. CASE LifetimeIteration
  <2>1. lifetime' \in [left : Nat, completed : Nat, failures : Nat]
    BY <1>1 DEF LifetimeIteration
  <2> QED
    BY <1>1, <2>1 DEF LifetimeIteration, lifetimeVars, producerVars, workVars
<1>2. CASE PublishLifetime
  BY <1>2 DEF PublishLifetime, lifetimeVars, producerVars, workVars
<1>3. CASE NotifyMain
  BY <1>3 DEF NotifyMain, lifetimeVars, producerVars, workVars
<1>4. CASE SleepForWork
  BY <1>4 DEF SleepForWork, lifetimeVars, producerVars, workVars
<1>5. CASE TakeTask
  <2>1. Head(queue) \in Tasks /\ Tail(queue) \in Seq(Tasks)
    BY <1>5 DEF TakeTask
  <2> QED
    BY <1>5, <2>1 DEF TakeTask, lifetimeVars, producerVars, workVars
<1>6. CASE BeginWork
  BY <1>6 DEF BeginWork, lifetimeVars, producerVars, workVars
<1>7. CASE EndWork
  <2>1. activeApi' = 0
    BY <1>7 DEF EndWork, OneApiCall
  <2> QED
    BY <1>7, <2>1 DEF EndWork, lifetimeVars, producerVars, workVars
<1>8. CASE WorkerEnds
  BY <1>8 DEF WorkerEnds, lifetimeVars, producerVars, workVars
<1>9. ASSUME NEW p \in Producers, Push(p) PROVE StressTypeOK'
  <2>1. <<p, sent[p]>> \in Tasks
    BY <1>9 DEF Push, Tasks, Requests
  <2>2. queue' \in Seq(Tasks)
    BY <1>9, <2>1 DEF Push
  <2> QED
    BY <1>9, <2>2 DEF Push, lifetimeVars, producerVars, workVars
<1>10. ASSUME NEW p \in Producers, CountSubmitted(p) PROVE StressTypeOK'
  BY <1>10 DEF CountSubmitted, lifetimeVars, producerVars, workVars
<1>11. ASSUME NEW p \in Producers, NotifyWorker(p) PROVE StressTypeOK'
  BY <1>11 DEF NotifyWorker, Woken, lifetimeVars, producerVars, workVars
<1>12. ASSUME NEW p \in Producers, ProducerEnds(p) PROVE StressTypeOK'
  BY <1>12 DEF ProducerEnds, lifetimeVars, producerVars, workVars
<1>13. CASE AwaitLifetime
  BY <1>13 DEF AwaitLifetime, lifetimeVars, producerVars, workVars
<1>14. CASE Spawn
  BY <1>14 DEF Spawn, lifetimeVars, producerVars, workVars
<1>15. CASE JoinProducers
  BY <1>15 DEF JoinProducers, lifetimeVars, producerVars, workVars
<1>16. CASE CloseQueue
  BY <1>16 DEF CloseQueue, lifetimeVars, producerVars, workVars
<1>17. CASE NotifyClosed
  BY <1>17 DEF NotifyClosed, Woken, lifetimeVars, producerVars, workVars
<1>18. CASE JoinWorker
  BY <1>18 DEF JoinWorker, lifetimeVars, producerVars, workVars
<1>19. CASE WakeSpuriously
  BY <1>19 DEF WakeSpuriously, lifetimeVars, producerVars, workVars
<1>20. CASE UNCHANGED stressVars
  BY <1>20 DEF stressVars, lifetimeVars, producerVars, workVars
<1> QED
  BY <1>1, <1>2, <1>3, <1>4, <1>5, <1>6, <1>7, <1>8, <1>9, <1>10, <1>11, <1>12,
     <1>13, <1>14, <1>15, <1>16, <1>17, <1>18, <1>19, <1>20
  DEF StressNext, WorkerStep, ProducerStep, MainStep

(* Appending a new element, and taking the head, of a sequence without     *)
(* repetitions.                                                            *)
LEMMA AppendedMember ==
    ASSUME NEW S, NEW s \in Seq(S), NEW e \in S, NoRepeats(s), e \notin Members(s)
    PROVE  /\ Members(Append(s, e)) = Members(s) \union {e}
           /\ NoRepeats(Append(s, e))
<1> DEFINE a == Append(s, e)
<1>1. /\ Len(a) = Len(s) + 1 /\ Len(s) \in Nat
      /\ \A i \in 1 .. Len(s) : a[i] = s[i]
      /\ a[Len(s) + 1] = e
  OBVIOUS
<1> HIDE DEF a
<1>2. Members(a) = Members(s) \union {e}
  BY <1>1 DEF Members
<1>3. NoRepeats(a)
  BY <1>1 DEF NoRepeats, Members
<1> QED
  BY <1>2, <1>3 DEF a

LEMMA HeadAndTail ==
    ASSUME NEW S, NEW s \in Seq(S), s # <<>>, NoRepeats(s)
    PROVE  /\ Members(s) = Members(Tail(s)) \union {Head(s)}
           /\ Head(s) \notin Members(Tail(s))
           /\ NoRepeats(Tail(s))
<1> DEFINE t == Tail(s)
<1>1. /\ Len(s) \in Nat /\ Len(s) > 0 /\ Len(t) = Len(s) - 1
      /\ Head(s) = s[1]
      /\ \A i \in 1 .. Len(t) : t[i] = s[i + 1]
  OBVIOUS
<1> HIDE DEF t
<1>2. \A i \in 2 .. Len(s) : s[i] = t[i - 1] /\ i - 1 \in 1 .. Len(t)
  BY <1>1
<1>3. Members(s) = Members(t) \union {s[1]}
  <2>1. ASSUME NEW i \in 1 .. Len(s) PROVE s[i] \in Members(t) \union {s[1]}
    BY <1>1, <1>2 DEF Members
  <2>2. ASSUME NEW i \in 1 .. Len(t) PROVE t[i] \in Members(s)
    BY <1>1 DEF Members
  <2>3. s[1] \in Members(s)
    BY <1>1 DEF Members
  <2> QED
    BY <2>1, <2>2, <2>3 DEF Members
<1>4. s[1] \notin Members(t)
  <2>1. ASSUME NEW i \in 1 .. Len(t) PROVE s[1] # t[i]
    <3>1. t[i] = s[i + 1] /\ i + 1 \in 1 .. Len(s) /\ 1 \in 1 .. Len(s) /\ i + 1 # 1
      BY <1>1
    <3> QED
      BY <3>1 DEF NoRepeats
  <2> QED
    BY <2>1 DEF Members
<1>5. NoRepeats(t)
  BY <1>1 DEF NoRepeats
<1> QED
  BY <1>1, <1>3, <1>4, <1>5 DEF t

LEMMA PhasesStep ==
    ASSUME StressTypeOK, Phases, LifetimeCounts, [StressNext]_stressVars
    PROVE  Phases'
<1> USE StressAssumption DEF StressTypeOK, Phases
<1>1. CASE LifetimeIteration
  BY <1>1 DEF LifetimeIteration, producerVars
<1>2. CASE PublishLifetime
  BY <1>2 DEF PublishLifetime, producerVars
<1>3. CASE NotifyMain
  BY <1>3 DEF NotifyMain, producerVars
<1>4. CASE SleepForWork
  BY <1>4 DEF SleepForWork, producerVars
<1>5. CASE TakeTask
  BY <1>5 DEF TakeTask, producerVars
<1>6. CASE BeginWork
  BY <1>6 DEF BeginWork, producerVars
<1>7. CASE EndWork
  BY <1>7 DEF EndWork, producerVars
<1>8. CASE WorkerEnds
  BY <1>8 DEF WorkerEnds, producerVars
<1>9. ASSUME NEW p \in Producers, Push(p) PROVE Phases'
  <2>1. /\ sent' = [sent EXCEPT ![p] = sent[p] + 1]
        /\ producerAt' = [producerAt EXCEPT ![p] = "count"]
        /\ producerAt[p] = "push" /\ sent[p] < RequestsPerProducer
        /\ UNCHANGED <<mainAt, workerAt, producersDone>>
    BY <1>9 DEF Push
  <2>2. mainAt \notin {"close", "notifyWorker", "join", "reported"}
    BY <2>1
  <2>3. workerAt # "ended"
    BY <2>2
  <2>4. \A q \in Producers : /\ sent'[q] = IF q = p THEN sent[p] + 1 ELSE sent[q]
                             /\ producerAt'[q] = IF q = p THEN "count" ELSE producerAt[q]
    BY <2>1
  <2> QED
    BY <2>1, <2>2, <2>3, <2>4
<1>10. ASSUME NEW p \in Producers, CountSubmitted(p) PROVE Phases'
  BY <1>10 DEF CountSubmitted
<1>11. ASSUME NEW p \in Producers, NotifyWorker(p) PROVE Phases'
  BY <1>11 DEF NotifyWorker, Woken
<1>12. ASSUME NEW p \in Producers, ProducerEnds(p) PROVE Phases'
  BY <1>12 DEF ProducerEnds
<1>13. CASE AwaitLifetime
  BY <1>13 DEF AwaitLifetime, producerVars
<1>14. CASE Spawn
  BY <1>14 DEF Spawn
<1>15. CASE JoinProducers
  BY <1>15 DEF JoinProducers, producerVars
<1>16. CASE CloseQueue
  BY <1>16 DEF CloseQueue, producerVars
<1>17. CASE NotifyClosed
  BY <1>17 DEF NotifyClosed, Woken, producerVars
<1>18. CASE JoinWorker
  BY <1>18 DEF JoinWorker, producerVars
<1>19. CASE WakeSpuriously
  BY <1>19 DEF WakeSpuriously, producerVars
<1>20. CASE UNCHANGED stressVars
  BY <1>20 DEF stressVars, producerVars
<1> QED
  BY <1>1, <1>2, <1>3, <1>4, <1>5, <1>6, <1>7, <1>8, <1>9, <1>10, <1>11, <1>12,
     <1>13, <1>14, <1>15, <1>16, <1>17, <1>18, <1>19, <1>20
  DEF StressNext, WorkerStep, ProducerStep, MainStep

(* The counters of the lifetime iterations and of the engine's calls move  *)
(* only with the worker.                                                   *)
LEMMA WorkerStepsCount ==
    ASSUME StressTypeOK, LifetimeCounts, OneApiCall, [StressNext]_stressVars
    PROVE  LifetimeCounts' /\ OneApiCall'
<1> USE StressAssumption DEF StressTypeOK, LifetimeCounts, OneApiCall
<1>1. CASE LifetimeIteration
  <2>1. /\ lifetime'.left + lifetime'.completed + lifetime'.failures = LifetimeIterations
        /\ workerAt' = "lifetime"
    BY <1>1 DEF LifetimeIteration
  <2> QED
    BY <1>1, <2>1 DEF LifetimeIteration, workVars
<1>2. CASE PublishLifetime
  BY <1>2 DEF PublishLifetime, workVars
<1>3. CASE NotifyMain
  BY <1>3 DEF NotifyMain, lifetimeVars, workVars
<1>4. CASE SleepForWork
  BY <1>4 DEF SleepForWork, lifetimeVars, workVars
<1>5. CASE TakeTask
  BY <1>5 DEF TakeTask, lifetimeVars
<1>6. CASE BeginWork
  BY <1>6 DEF BeginWork, lifetimeVars
<1>7. CASE EndWork
  BY <1>7 DEF EndWork, lifetimeVars
<1>8. CASE WorkerEnds
  BY <1>8 DEF WorkerEnds, lifetimeVars, workVars
<1>9. ASSUME NEW p \in Producers, ProducerStep(p) PROVE LifetimeCounts' /\ OneApiCall'
  BY <1>9 DEF ProducerStep, Push, CountSubmitted, NotifyWorker, ProducerEnds, Woken,
              lifetimeVars, workVars
<1>10. CASE MainStep
  BY <1>10 DEF MainStep, AwaitLifetime, Spawn, JoinProducers, CloseQueue, NotifyClosed,
               JoinWorker, Woken, lifetimeVars, workVars
<1>11. CASE WakeSpuriously
  BY <1>11 DEF WakeSpuriously, lifetimeVars, workVars
<1>12. CASE UNCHANGED stressVars
  BY <1>12 DEF stressVars, lifetimeVars, workVars
<1> QED
  BY <1>1, <1>2, <1>3, <1>4, <1>5, <1>6, <1>7, <1>8, <1>9, <1>10, <1>11, <1>12
  DEF StressNext, WorkerStep

(* A step that takes no request from one place to another.                 *)
LEMMA OnePlaceKept ==
    ASSUME OnePlace, UNCHANGED <<sent, queue, finished, task>>,
           InHand' = InHand
    PROVE  OnePlace'
<1>1. Pushed' = Pushed /\ Queued' = Queued
  BY DEF Pushed, Queued, Members
<1> QED
  BY <1>1 DEF OnePlace, NoRepeats

LEMMA OnePlaceStep ==
    ASSUME StressTypeOK, Phases, OnePlace, [StressNext]_stressVars
    PROVE  OnePlace'
<1> USE DEF StressTypeOK
<1>1. CASE LifetimeIteration \/ PublishLifetime \/ NotifyMain \/ SleepForWork
           \/ BeginWork \/ WorkerEnds
  BY <1>1, OnePlaceKept
  DEF LifetimeIteration, PublishLifetime, NotifyMain, SleepForWork, BeginWork, WorkerEnds,
      InHand, producerVars, workVars
<1>2. CASE TakeTask
  <2>1. /\ queue # <<>> /\ task' = Head(queue) /\ queue' = Tail(queue)
        /\ InHand = {} /\ InHand' = {Head(queue)}
        /\ UNCHANGED <<sent, finished>>
    BY <1>2 DEF TakeTask, InHand, producerVars
  <2>2. /\ Queued = Queued' \union {Head(queue)}
        /\ Head(queue) \notin Queued'
        /\ NoRepeats(queue')
    <3>1. /\ Members(queue) = Members(Tail(queue)) \union {Head(queue)}
          /\ Head(queue) \notin Members(Tail(queue))
          /\ NoRepeats(Tail(queue))
      BY <2>1, HeadAndTail DEF OnePlace
    <3> QED
      BY <2>1, <3>1 DEF Queued, Members
  <2>3. Pushed' = Pushed
    BY <2>1 DEF Pushed
  <2> QED
    BY <2>1, <2>2, <2>3 DEF OnePlace
<1>3. CASE EndWork
  <2>1. /\ InHand = {task} /\ InHand' = {}
        /\ finished' = finished \union {task}
        /\ UNCHANGED <<sent, queue>>
    BY <1>3 DEF EndWork, InHand, producerVars
  <2>2. Pushed' = Pushed /\ Queued' = Queued /\ (NoRepeats(queue))' = NoRepeats(queue)
    BY <2>1 DEF Pushed, Queued, Members, NoRepeats
  <2> QED
    BY <2>1, <2>2 DEF OnePlace
<1>4. ASSUME NEW p \in Producers, Push(p) PROVE OnePlace'
  <2> DEFINE e == <<p, sent[p]>>
  <2>1. /\ queue' = Append(queue, e)
        /\ sent' = [sent EXCEPT ![p] = sent[p] + 1]
        /\ sent[p] < RequestsPerProducer
        /\ UNCHANGED <<finished, task, workerAt>>
    BY <1>4 DEF Push, workVars
  <2>2. e \in Tasks
    BY <2>1, StressAssumption DEF Tasks, Requests
  <2>3. Pushed' = Pushed \union {e} /\ e \notin Pushed
    <3>1. ASSUME NEW t \in Tasks
          PROVE  t[2] < sent'[t[1]] <=> t[2] < sent[t[1]] \/ t = e
      <4>1. t[1] \in Producers /\ t[2] \in Nat /\ t = <<t[1], t[2]>>
        BY TaskFields
      <4>2. t = e <=> t[1] = p /\ t[2] = sent[p]
        BY <4>1
      <4>3. sent'[t[1]] = IF t[1] = p THEN sent[p] + 1 ELSE sent[t[1]]
        BY <2>1, <4>1
      <4> QED
        BY <4>1, <4>2, <4>3
    <3> QED
      BY <3>1, <2>2 DEF Pushed
  <2>4. e \notin Queued
    BY <2>3 DEF OnePlace
  <2>5. Queued' = Queued \union {e} /\ (NoRepeats(queue))'
    <3>1. NoRepeats(queue) /\ e \notin Members(queue)
      BY <2>4 DEF OnePlace, Queued
    <3>2. /\ Members(Append(queue, e)) = Members(queue) \union {e}
          /\ NoRepeats(Append(queue, e))
      BY <2>2, <3>1, AppendedMember
    <3>3. Queued' = Members(Append(queue, e)) /\ Queued = Members(queue)
      BY <2>1 DEF Queued, Members
    <3>4. (NoRepeats(queue))' <=> NoRepeats(Append(queue, e))
      BY <2>1 DEF NoRepeats
    <3> QED
      BY <3>2, <3>3, <3>4
  <2>6. InHand' = InHand
    BY <2>1 DEF InHand
  <2> QED
    BY <2>1, <2>3, <2>5, <2>6 DEF OnePlace
<1>5. ASSUME NEW p \in Producers, CountSubmitted(p) \/ NotifyWorker(p) \/ ProducerEnds(p)
      PROVE  OnePlace'
  BY <1>5, OnePlaceKept
  DEF CountSubmitted, NotifyWorker, ProducerEnds, Woken, InHand, workVars
<1>6. CASE MainStep
  BY <1>6, OnePlaceKept
  DEF MainStep, AwaitLifetime, Spawn, JoinProducers, CloseQueue, NotifyClosed, JoinWorker,
      Woken, InHand, producerVars, workVars
<1>7. CASE WakeSpuriously
  BY <1>7, OnePlaceKept DEF WakeSpuriously, InHand, producerVars, workVars
<1>8. CASE UNCHANGED stressVars
  BY <1>8, OnePlaceKept DEF stressVars, InHand, producerVars, workVars
<1> QED
  BY <1>1, <1>2, <1>3, <1>4, <1>5, <1>6, <1>7, <1>8
  DEF StressNext, WorkerStep, ProducerStep

(* A step that neither ends a request nor counts one.                      *)
LEMMA CountersKept ==
    ASSUME Counters, UNCHANGED <<completed, failed, finished, submitted>>,
           Counted' = Counted
    PROVE  Counters'
  BY DEF Counters

LEMMA CountersStep ==
    ASSUME StressTypeOK, Phases, OnePlace, Counters, [StressNext]_stressVars
    PROVE  Counters'
<1> USE StressAssumption DEF StressTypeOK
<1>1. CASE EndWork
  <2>1. /\ finished' = finished \union {task}
        /\ completed' + failed' = completed + failed + 1
        /\ task \notin finished
        /\ UNCHANGED <<submitted, sent, producerAt>>
    BY <1>1 DEF EndWork, OnePlace, InHand, producerVars
  <2>2. Cardinality(finished') = Cardinality(finished) + 1
    BY <2>1, FiniteSubsets, FS_AddElement
  <2>3. Counted' = Counted
    BY <2>1 DEF Counted
  <2> QED
    BY <2>1, <2>2, <2>3 DEF Counters
<1>2. CASE WorkerStep /\ ~EndWork
  BY <1>2, CountersKept
  DEF WorkerStep, LifetimeIteration, PublishLifetime, NotifyMain, SleepForWork, TakeTask,
      BeginWork, WorkerEnds, Counted, producerVars, workVars
<1>3. ASSUME NEW p \in Producers, Push(p) PROVE Counters'
  <2>1. /\ sent' = [sent EXCEPT ![p] = sent[p] + 1]
        /\ producerAt' = [producerAt EXCEPT ![p] = "count"]
        /\ producerAt[p] = "push"
        /\ UNCHANGED <<completed, failed, finished, submitted>>
    BY <1>3 DEF Push, workVars
  <2>2. Counted' = Counted
    <3>1. ASSUME NEW t \in Tasks
          PROVE  (IF producerAt'[t[1]] = "count" THEN t[2] + 1 < sent'[t[1]]
                                                 ELSE t[2] < sent'[t[1]])
                 <=> (IF producerAt[t[1]] = "count" THEN t[2] + 1 < sent[t[1]]
                                                    ELSE t[2] < sent[t[1]])
      <4>1. t[1] \in Producers /\ t[2] \in Nat
        BY TaskFields
      <4>2. CASE t[1] = p
        BY <4>1, <4>2, <2>1
      <4>3. CASE t[1] # p
        BY <4>1, <4>3, <2>1
      <4> QED
        BY <4>2, <4>3
    <3> QED
      BY <3>1 DEF Counted
  <2> QED
    BY <2>1, <2>2, CountersKept
<1>4. ASSUME NEW p \in Producers, CountSubmitted(p) PROVE Counters'
  <2> DEFINE e == <<p, sent[p] - 1>>
  <2>1. /\ producerAt[p] = "count"
        /\ producerAt' = [producerAt EXCEPT ![p] = "notify"]
        /\ submitted' = submitted + 1
        /\ UNCHANGED <<sent, completed, failed, finished>>
    BY <1>4 DEF CountSubmitted, workVars
  <2>2. sent[p] > 0 /\ sent[p] <= RequestsPerProducer /\ sent[p] \in Nat
    BY <2>1 DEF Phases
  <2>3. e \in Tasks
    BY <2>2 DEF Tasks, Requests
  <2>4. Counted' = Counted \union {e} /\ e \notin Counted
    <3>1. ASSUME NEW t \in Tasks
          PROVE  (IF producerAt'[t[1]] = "count" THEN t[2] + 1 < sent'[t[1]]
                                                 ELSE t[2] < sent'[t[1]])
                 <=> \/ IF producerAt[t[1]] = "count" THEN t[2] + 1 < sent[t[1]]
                                                      ELSE t[2] < sent[t[1]]
                     \/ t = e
      <4>1. t[1] \in Producers /\ t[2] \in Nat /\ t = <<t[1], t[2]>>
        BY TaskFields
      <4>2. t = e <=> t[1] = p /\ t[2] = sent[p] - 1
        BY <4>1
      <4>3. CASE t[1] = p
        <5>1. producerAt'[t[1]] = "notify" /\ sent'[t[1]] = sent[p]
          BY <4>3, <2>1 DEF StressTypeOK
        <5>2. \A i, n \in Nat : i < n <=> (i + 1 < n \/ i = n - 1)
          OBVIOUS
        <5> QED
          BY <4>1, <4>2, <4>3, <5>1, <5>2, <2>1, <2>2
      <4>4. CASE t[1] # p
        <5>1. producerAt'[t[1]] = producerAt[t[1]] /\ sent'[t[1]] = sent[t[1]]
          BY <4>1, <4>4, <2>1 DEF StressTypeOK
        <5> QED
          BY <4>2, <4>4, <5>1
      <4> QED
        BY <4>3, <4>4
    <3>2. e \notin Counted
      BY <2>1, <2>2 DEF Counted
    <3> QED
      BY <3>1, <3>2, <2>3 DEF Counted
  <2>5. Cardinality(Counted') = Cardinality(Counted) + 1
    <3>1. Counted \in SUBSET Tasks
      BY DEF Counted
    <3> QED
      BY <3>1, <2>4, FiniteSubsets, FS_AddElement
  <2> QED
    BY <2>1, <2>5 DEF Counters
<1>5. ASSUME NEW p \in Producers, NotifyWorker(p) \/ ProducerEnds(p) PROVE Counters'
  <2>1. /\ UNCHANGED <<completed, failed, finished, submitted, sent>>
        /\ \A q \in Producers : producerAt'[q] = "count" <=> producerAt[q] = "count"
    BY <1>5 DEF NotifyWorker, ProducerEnds, workVars
  <2>2. Counted' = Counted
    BY <2>1, TaskFields DEF Counted
  <2> QED
    BY <2>1, <2>2, CountersKept
<1>6. CASE Spawn
  <2>1. /\ UNCHANGED <<completed, failed, finished, submitted, sent>>
        /\ \A q \in Producers : producerAt'[q] = "count" <=> producerAt[q] = "count"
    BY <1>6 DEF Spawn, workVars
  <2>2. Counted' = Counted
    BY <2>1, TaskFields DEF Counted
  <2> QED
    BY <2>1, <2>2, CountersKept
<1>7. CASE MainStep /\ ~Spawn
  BY <1>7, CountersKept
  DEF MainStep, AwaitLifetime, JoinProducers, CloseQueue, NotifyClosed, JoinWorker,
      Counted, producerVars, workVars
<1>8. CASE WakeSpuriously
  BY <1>8, CountersKept DEF WakeSpuriously, Counted, producerVars, workVars
<1>9. CASE UNCHANGED stressVars
  BY <1>9, CountersKept DEF stressVars, Counted, producerVars, workVars
<1> QED
  BY <1>1, <1>2, <1>3, <1>4, <1>5, <1>6, <1>7, <1>8, <1>9
  DEF StressNext, ProducerStep

-----------------------------------------------------------------------------
StressInductive ==
    StressTypeOK /\ Phases /\ LifetimeCounts /\ OneApiCall /\ OnePlace /\ Counters

LEMMA StressBeginsInductive ==
    ASSUME NEW main, NEW worker, StressBegins(main, worker),
           \/ main = "awaitLifetime" /\ worker = "lifetime"
           \/ main = "notRun" /\ worker = "notRun"
    PROVE  StressInductive
<1> USE StressAssumption DEF StressBegins
<1>1. StressTypeOK
  <2>1. task \in Tasks
    BY DEF Producers, Requests, Tasks
  <2>2. queue \in Seq(Tasks) /\ finished \in SUBSET Tasks
    OBVIOUS
  <2>3. lifetime \in [left : Nat, completed : Nat, failures : Nat]
    OBVIOUS
  <2>4. /\ producerAt \in [Producers -> {"none", "push", "count", "notify", "ended"}]
        /\ sent \in [Producers -> Nat]
    OBVIOUS
  <2> QED
    BY <2>1, <2>2, <2>3, <2>4 DEF StressTypeOK
<1>2. Phases /\ LifetimeCounts /\ OneApiCall
  BY DEF Phases, LifetimeCounts, OneApiCall
<1>3. Pushed = {} /\ Counted = {}
  BY TaskFields DEF Pushed, Counted
<1>4. Queued = {} /\ NoRepeats(queue) /\ InHand = {}
  BY DEF Queued, Members, NoRepeats, InHand
<1>5. OnePlace
  BY <1>3, <1>4 DEF OnePlace
<1>6. Counters
  BY <1>3, FS_EmptySet DEF Counters
<1> QED
  BY <1>1, <1>2, <1>5, <1>6 DEF StressInductive

LEMMA StressStepInductive == StressInductive /\ [StressNext]_stressVars => StressInductive'
  BY TypeStep, PhasesStep, WorkerStepsCount, OnePlaceStep, CountersStep DEF StressInductive

(* The worker ends with every request of every producer finished.          *)
LEMMA EndedMeansAll ==
    ASSUME StressInductive, workerAt = "ended"
    PROVE  finished = Tasks /\ submitted = ProducerCount * RequestsPerProducer
<1> USE StressAssumption DEF StressInductive
<1>1. queue = <<>> /\ \A p \in Producers : /\ producerAt[p] = "ended"
                                           /\ sent[p] = RequestsPerProducer
  BY DEF Phases, StressTypeOK
<1>2. Pushed = Tasks /\ Counted = Tasks
  BY <1>1, TaskFields DEF Pushed, Counted
<1>3. Queued = {} /\ InHand = {}
  BY <1>1 DEF Queued, Members, InHand
<1> QED
  BY <1>2, <1>3, FiniteTasks DEF OnePlace, Counters

LEMMA InductiveMeansAccounts == StressInductive => StressAccounts
<1> SUFFICES ASSUME StressInductive PROVE StressAccounts
  OBVIOUS
<1> USE StressAssumption DEF StressInductive
<1>1. completed + failed = Cardinality(finished)
  BY DEF Counters
<1>2. workerAt = "ended" => finished = Tasks
  BY EndedMeansAll
<1>3. ASSUME mainAt = "reported" PROVE Passed <=> failed = 0 /\ lifetime.failures = 0
  <2>1. workerAt = "ended"
    BY <1>3 DEF Phases
  <2> DEFINE total == ProducerCount * RequestsPerProducer
  <2>2. submitted = total /\ completed + failed = total /\ finished = Tasks
    BY <1>1, <2>1, EndedMeansAll, FiniteTasks
  <2>3. maxActiveApi = 1
    <3>1. <<0, 0>> \in Tasks
      BY DEF Tasks, Producers, Requests
    <3> QED
      BY <3>1, <2>2 DEF OneApiCall
  <2>4. lifetime.completed + lifetime.failures = LifetimeIterations
    BY <2>1 DEF LifetimeCounts, StressTypeOK
  <2>5. failed = 0 => completed = total
    BY <2>2 DEF StressTypeOK
  <2>6. lifetime.failures = 0 => lifetime.completed = LifetimeIterations
    BY <2>4 DEF StressTypeOK
  <2> QED
    BY <2>2, <2>3, <2>5, <2>6 DEF Passed
<1> QED
  BY <1>1, <1>2, <1>3 DEF StressAccounts

LEMMA EvidenceOfStress ==
    /\ Init => StressInductive
    /\ StressInductive /\ [Next]_vars => StressInductive'
<1>1. Init => StressInductive
  <2>1. StressInit => StressInductive
    BY StressBeginsInductive DEF StressInit
  <2>2. StressIdle => StressInductive
    BY StressBeginsInductive DEF StressIdle
  <2> QED
    BY <2>1, <2>2 DEF Init
<1>2. [Next]_vars => [StressNext]_stressVars
  BY DEF Next, vars
<1> QED
  BY <1>1, <1>2, StressStepInductive

(* The variables of the stress tool keep their types, whatever its         *)
(* arguments.                                                              *)
THEOREM StressTypes == Spec => []StressTypeOK
<1>1. StressInductive => StressTypeOK
  BY DEF StressInductive
<1> QED
  BY <1>1, EvidenceOfStress, PTL DEF Spec

(* The verdict of atlas_pdfium_stress accounts for every request, whatever *)
(* the numbers of producers, requests and iterations.                      *)
THEOREM VerdictAccounts == Spec => []StressAccounts
  BY EvidenceOfStress, InductiveMeansAccounts, PTL DEF Spec

(* A request is in the queue, in the worker's hands or finished, never in  *)
(* two of these places, and the engine is never entered twice at once.     *)
THEOREM RequestsHaveOnePlace == Spec => [](OnePlace /\ OneApiCall)
<1>1. StressInductive => OnePlace /\ OneApiCall
  BY DEF StressInductive
<1> QED
  BY <1>1, EvidenceOfStress, PTL DEF Spec

-----------------------------------------------------------------------------
(* The loops that wait for hits.  Nothing is assumed of the engine or of   *)
(* the time a turn takes.  What was shown when the counts were compared    *)
(* was found by lastChange, so a window since then has nothing shown in it *)
(* (Stamped); what is found and not shown came after the turn had begun    *)
(* (Fresh).                                                                *)

PollTypeOK ==
    /\ waitsFor \in {"all", "settled", "both"}
    /\ pollAt \in {"notRun", "test", "events", "compare", "settle", "sleep",
                   "lastEvents", "ended"}
    /\ hits \in 0 .. Answers /\ expected \in Nat
    /\ now \in Nat /\ turnBegan \in Nat
    /\ ready \in Nat /\ foundAt \in [1 .. Answers -> Nat]
    /\ shown \in Nat /\ lastCount \in Nat /\ lastChange \in Nat
    /\ accepted \in BOOLEAN

Clocks ==
    /\ turnBegan <= now /\ lastChange <= now
    /\ \A i \in 1 .. ready : foundAt[i] <= now
    /\ lastCount <= shown /\ shown <= ready /\ ready <= hits

Stamped ==
    /\ \A i \in 1 .. lastCount : foundAt[i] <= lastChange
    /\ pollAt = "settle" => lastCount = shown

Fresh ==
    pollAt \in {"compare", "settle"} =>
        \A i \in shown + 1 .. ready : foundAt[i] >= turnBegan

(* A wait for a number takes its last events when the number or the        *)
(* timeout is reached; the other two have none.                            *)
Waiting ==
    /\ accepted => pollAt = "ended"
    /\ pollAt \in {"compare", "settle"} => waitsFor # "all"
    /\ pollAt = "lastEvents" => waitsFor = "all" /\ (now >= Timeout \/ shown >= expected)

PollInductive ==
    PollTypeOK /\ Clocks /\ Stamped /\ Fresh /\ Waiting /\ OnlyLateHitsAreMissed

LEMMA Windows ==
    /\ Timeout \in Nat /\ MinimumObservation \in Nat /\ StableWindow \in Nat
    /\ LastTick \in Nat /\ Answers \in Nat
  BY PollingAssumption DEF PollingAssumption

LEMMA PollBeginsInductive == PollInit \/ PollIdle => PollInductive
<1> SUFFICES ASSUME PollInit \/ PollIdle PROVE PollInductive
  OBVIOUS
<1>1. /\ pollAt \in {"test", "notRun"} /\ now = 0 /\ turnBegan = 0 /\ ready = 0
      /\ foundAt = [i \in 1 .. Answers |-> 0]
      /\ shown = 0 /\ lastCount = 0 /\ lastChange = 0 /\ accepted = FALSE
      /\ waitsFor \in {"all", "settled", "both"}
      /\ hits \in 0 .. Answers /\ expected \in Nat
  BY Windows DEF PollInit, PollIdle, PollBegins
<1>2. PollTypeOK
  BY <1>1 DEF PollTypeOK
<1>3. Clocks /\ Stamped /\ Fresh
  BY <1>1, Windows DEF Clocks, Stamped, Fresh
<1>4. Waiting /\ OnlyLateHitsAreMissed
  BY <1>1 DEF Waiting, OnlyLateHitsAreMissed
<1> QED
  BY <1>2, <1>3, <1>4 DEF PollInductive

LEMMA PollStepInductive ==
    ASSUME PollInductive, [PollNext]_pollVars
    PROVE  PollInductive'
<1> USE Windows
    DEF PollInductive, PollTypeOK, Clocks, Stamped, Fresh, Waiting,
        OnlyLateHitsAreMissed, WindowWasQuiet, CountMatches
<1>1. CASE Find
  <2>1. /\ pollAt \notin {"notRun", "ended"} /\ ready < hits /\ ready' = ready + 1
        /\ foundAt' = [foundAt EXCEPT ![ready + 1] = now]
        /\ UNCHANGED <<waitsFor, pollAt, now, turnBegan, hits, expected, shown,
                       lastCount, lastChange, accepted>>
    BY <1>1 DEF Find, PollRuns
  <2>2. /\ ready + 1 \in 1 .. Answers
        /\ foundAt' \in [1 .. Answers -> Nat]
        /\ foundAt'[ready + 1] = now
        /\ \A i \in 1 .. ready : foundAt'[i] = foundAt[i]
    BY <2>1
  <2>3. PollTypeOK' /\ Waiting' /\ OnlyLateHitsAreMissed'
    BY <2>1, <2>2
  <2>4. Clocks' /\ Stamped' /\ Fresh'
    BY <2>1, <2>2
  <2> QED
    BY <2>3, <2>4
<1>2. CASE Tick
  BY <1>2 DEF Tick, PollRuns
<1>3. CASE TestLoop
  <2>1. /\ pollAt = "test" /\ turnBegan' = now
        /\ pollAt' \in {"events", "lastEvents", "ended"}
        /\ UNCHANGED <<waitsFor, now, hits, expected, ready, foundAt, shown,
                       lastCount, lastChange, accepted>>
    BY <1>3 DEF TestLoop, GoOn
  <2>2. /\ pollAt' = "lastEvents" =>
              waitsFor = "all" /\ (now >= Timeout \/ shown >= expected)
        /\ pollAt' = "ended" => waitsFor # "all" /\ now >= Timeout
    BY <1>3 DEF TestLoop, Enough, GoOn
  <2> QED
    BY <2>1, <2>2
<1>4. CASE ProcessEvents
  BY <1>4 DEF ProcessEvents, GoOn
<1>5. CASE Compare
  BY <1>5 DEF Compare, GoOn
<1>6. CASE Settle
  <2>1. /\ pollAt = "settle" /\ waitsFor # "all" /\ lastCount = shown
        /\ UNCHANGED <<waitsFor, now, hits, expected, ready, foundAt, turnBegan,
                       shown, lastCount, lastChange>>
    BY <1>6 DEF Settle, GoOn
  <2>2. CASE CountMatches /\ now >= MinimumObservation /\ now - lastChange >= StableWindow
    <3>1. accepted' = TRUE /\ pollAt' = "ended"
      BY <1>6, <2>2 DEF Settle, GoOn
    <3>2. \A i \in 1 .. shown : foundAt[i] + StableWindow <= now
      BY <2>1, <2>2
    <3> QED
      BY <2>1, <2>2, <3>1, <3>2
  <2>3. CASE ~(CountMatches /\ now >= MinimumObservation
               /\ now - lastChange >= StableWindow)
    <3>1. accepted' = accepted /\ pollAt' = "sleep"
      BY <1>6, <2>3 DEF Settle, GoOn
    <3> QED
      BY <2>1, <3>1
  <2> QED
    BY <2>2, <2>3
<1>7. CASE Sleep
  BY <1>7 DEF Sleep, GoOn
<1>8. CASE LastEvents
  <2>1. /\ pollAt = "lastEvents" /\ pollAt' = "ended" /\ shown' = ready
        /\ UNCHANGED <<waitsFor, now, hits, expected, ready, foundAt, turnBegan,
                       lastCount, lastChange>>
    BY <1>8 DEF LastEvents, GoOn
  <2>2. accepted' \in BOOLEAN /\ (accepted' <=> shown' = expected)
    BY <1>8 DEF LastEvents
  <2> QED
    BY <2>1, <2>2
<1>9. CASE UNCHANGED pollVars
  BY <1>9 DEF pollVars
<1> QED
  BY <1>1, <1>2, <1>3, <1>4, <1>5, <1>6, <1>7, <1>8, <1>9 DEF PollNext, PollStep

(* Only hits found after the last turn had begun are missed by a wait that *)
(* ends settled, and none is counted that came within its window; a wait   *)
(* for a number misses none: for any timeout and windows, and however long *)
(* the engine pauses or a turn takes.                                      *)
THEOREM HitsInTimeAreCounted == Spec => []OnlyLateHitsAreMissed
<1>1. Init => PollInductive
  BY PollBeginsInductive DEF Init
<1>2. PollInductive /\ [Next]_vars => PollInductive'
  <2>1. [Next]_vars => [PollNext]_pollVars
    BY DEF Next, vars
  <2> QED
    BY <2>1, PollStepInductive
<1>3. PollInductive => OnlyLateHitsAreMissed
  BY DEF PollInductive
<1> QED
  BY <1>1, <1>2, <1>3, PTL DEF Spec

-----------------------------------------------------------------------------
(* The walk of an outline.  Every reference of a listed bookmark is one of *)
(* three: the one the cursor came by, the next sibling of a bookmark whose *)
(* loop is suspended, or followed.  The followed ones account for what is  *)
(* listed and for whether a cycle was reported (Accounts).                 *)

OutlineTypeOK ==
    /\ firstOfOutline \in Reference
    /\ firstChild \in [Bookmark -> Reference]
    /\ nextSibling \in [Bookmark -> Reference]
    /\ cursor \in Reference
    /\ enclosing \in Seq(Bookmark)
    /\ visited \in SUBSET Bookmark
    /\ outline \in Seq([bookmark : Bookmark, depth : Nat])
    /\ cycleReported \in BOOLEAN

ListedOnce ==
    /\ \A i, j \in 1 .. Len(outline) : outline[i].bookmark = outline[j].bookmark => i = j
    /\ visited = {outline[i].bookmark : i \in 1 .. Len(outline)}

Nested == NoRepeats(enclosing) /\ Members(enclosing) \subseteq visited

NextOf(b) == <<"next", b, nextSibling[b]>>
Suspended == {NextOf(b) : b \in Members(enclosing)}

LeadTo(F, seen) ==
    /\ \A r \in F : r[3] \in seen \union {NoBookmark}
    /\ \A b \in seen : \E r \in F : r[3] = b

SomeTwice(F) == \E r, s \in F : r # s /\ r[3] = s[3] /\ r[3] # NoBookmark

Accounts(F) == LeadTo(F, visited) /\ (cycleReported <=> SomeTwice(F))

Following ==
    \/ \E c \in References \ Suspended :
          /\ c[3] = cursor
          /\ Accounts((References \ Suspended) \ {c})
    \/ Walked /\ Accounts(References)

OutlineInductive == OutlineTypeOK /\ ListedOnce /\ Nested /\ Following

(* One more reference is followed: to nothing, to a bookmark that is       *)
(* listed already, or to one that is listed now.                           *)
LEMMA FollowedToNothing ==
    ASSUME NEW F, NEW c \in F, NEW seen, LeadTo(F \ {c}, seen), c[3] = NoBookmark
    PROVE  LeadTo(F, seen) /\ (SomeTwice(F) <=> SomeTwice(F \ {c}))
  BY DEF LeadTo, SomeTwice

LEMMA FollowedAgain ==
    ASSUME NEW F, NEW c \in F, NEW seen, LeadTo(F \ {c}, seen),
           c[3] \in seen, NoBookmark \notin seen
    PROVE  LeadTo(F, seen) /\ SomeTwice(F)
  BY DEF LeadTo, SomeTwice

LEMMA FollowedToNew ==
    ASSUME NEW F, NEW c \in F, NEW seen, LeadTo(F \ {c}, seen),
           c[3] \notin seen, c[3] # NoBookmark
    PROVE  LeadTo(F, seen \union {c[3]}) /\ (SomeTwice(F) <=> SomeTwice(F \ {c}))
  BY DEF LeadTo, SomeTwice

LEMMA LastAndFront ==
    ASSUME NEW S, NEW s \in Seq(S), s # <<>>, NoRepeats(s)
    PROVE  LET f == SubSeq(s, 1, Len(s) - 1) IN
           /\ f \in Seq(S) /\ NoRepeats(f) /\ s[Len(s)] \in S
           /\ Members(s) = Members(f) \union {s[Len(s)]}
           /\ s[Len(s)] \notin Members(f)
<1> DEFINE f == SubSeq(s, 1, Len(s) - 1)
<1>1. /\ Len(s) \in Nat /\ Len(s) > 0 /\ Len(f) = Len(s) - 1
      /\ f \in Seq(S) /\ s[Len(s)] \in S
      /\ \A i \in 1 .. Len(f) : f[i] = s[i]
  <2>1. Len(s) \in Nat /\ Len(s) > 0 /\ s[Len(s)] \in S
    OBVIOUS
  <2>2. /\ f \in Seq(S)
        /\ Len(f) = IF 1 <= Len(s) - 1 THEN Len(s) - 1 - 1 + 1 ELSE 0
        /\ \A i \in 1 .. Len(s) - 1 - 1 + 1 : f[i] = s[1 + i - 1]
    <3>1. \A i \in 1 .. Len(s) - 1 : s[i] \in S
      OBVIOUS
    <3>2. 1 \in Int /\ Len(s) - 1 \in Int
      BY <2>1
    <3> QED
      BY <3>1, <3>2, SubSeqProperties
  <2> HIDE DEF f
  <2>3. Len(f) = Len(s) - 1
    <3> DEFINE n == Len(s)
    <3>1. n \in Nat /\ n > 0 /\ Len(f) = IF 1 <= n - 1 THEN n - 1 - 1 + 1 ELSE 0
      BY <2>1, <2>2
    <3> HIDE DEF n
    <3>2. Len(f) = n - 1
      BY <3>1
    <3> QED
      BY <3>2 DEF n
  <2>4. \A i \in 1 .. Len(f) : f[i] = s[i]
    <3>1. ASSUME NEW i \in 1 .. Len(f) PROVE f[i] = s[i]
      <4>1. 1 + i - 1 = i /\ i \in 1 .. Len(s) - 1 - 1 + 1
        BY <2>1, <2>3
      <4> QED
        BY <2>2, <4>1
    <3> QED
      BY <3>1
  <2> QED
    BY <2>1, <2>2, <2>3, <2>4
<1> HIDE DEF f
<1>2. NoRepeats(f) /\ s[Len(s)] \notin Members(f)
  BY <1>1 DEF NoRepeats, Members
<1>3. Members(s) = Members(f) \union {s[Len(s)]}
  BY <1>1 DEF Members
<1> QED
  BY <1>1, <1>2, <1>3 DEF f

LEMMA OutlineBeginsInductive == OutlineInit \/ OutlineIdle => OutlineInductive
<1> SUFFICES ASSUME OutlineInit \/ OutlineIdle PROVE OutlineInductive
  OBVIOUS
<1>1. /\ firstOfOutline \in Reference
      /\ firstChild \in [Bookmark -> Reference]
      /\ nextSibling \in [Bookmark -> Reference]
      /\ OutlineBegins
  BY DEF OutlineInit, OutlineIdle, Reference
<1>2. OutlineTypeOK /\ ListedOnce /\ Nested
  <2>1. /\ cursor \in Reference /\ enclosing = <<>> /\ outline = <<>> /\ visited = {}
        /\ cycleReported = FALSE
    BY <1>1 DEF OutlineBegins
  <2>2. OutlineTypeOK
    <3>1. outline \in Seq([bookmark : Bookmark, depth : Nat])
      <4>1. \A S : <<>> \in Seq(S)
        OBVIOUS
      <4> QED
        BY <2>1, <4>1
    <3>2. enclosing \in Seq(Bookmark) /\ visited \in SUBSET Bookmark
      BY <2>1
    <3> QED
      BY <1>1, <2>1, <3>1, <3>2 DEF OutlineTypeOK
  <2>3. ListedOnce
    BY <2>1 DEF ListedOnce
  <2>4. Nested
    BY <2>1 DEF Nested, NoRepeats, Members
  <2> QED
    BY <2>2, <2>3, <2>4
<1>3. Following
  <2> DEFINE c == <<"first", NoBookmark, firstOfOutline>>
  <2>1. References = {c} /\ Suspended = {}
    BY <1>1 DEF References, Suspended, Members, OutlineBegins
  <2>2. Accounts({})
    BY <1>1 DEF Accounts, LeadTo, SomeTwice, OutlineBegins
  <2>3. c[3] = cursor
    BY <1>1 DEF OutlineBegins
  <2>4. (References \ Suspended) \ {c} = {}
    BY <2>1
  <2> QED
    BY <2>1, <2>2, <2>3, <2>4 DEF Following
<1> QED
  BY <1>2, <1>3 DEF OutlineInductive

(* The innermost loop ends and every reference but the suspended ones has  *)
(* been followed: the next sibling of the bookmark around it is next.      *)
LEMMA LevelLeft ==
    ASSUME OutlineInductive, LeaveLevel, UNCHANGED <<file, visited>>,
           LeadTo(References \ Suspended, visited),
           cycleReported' <=> SomeTwice(References \ Suspended)
    PROVE  Following' /\ Nested' /\ enclosing' \in Seq(Bookmark) /\ cursor' \in Reference
<1> USE DEF OutlineInductive, OutlineTypeOK, Nested
<1> DEFINE around == enclosing[Len(enclosing)]
<1>1. /\ enclosing # <<>> /\ cursor' = nextSibling[around]
      /\ enclosing' = SubSeq(enclosing, 1, Len(enclosing) - 1)
  BY DEF LeaveLevel
<1>2. /\ enclosing' \in Seq(Bookmark) /\ (NoRepeats(enclosing))' /\ around \in Bookmark
      /\ Members(enclosing) = Members(enclosing)' \union {around}
      /\ around \notin Members(enclosing)'
  <2> DEFINE f == SubSeq(enclosing, 1, Len(enclosing) - 1)
  <2>1. /\ f \in Seq(Bookmark) /\ NoRepeats(f) /\ around \in Bookmark
        /\ Members(enclosing) = Members(f) \union {around}
        /\ around \notin Members(f)
    BY <1>1, LastAndFront
  <2>2. enclosing' = f
    BY <1>1
  <2> HIDE DEF f, around
  <2>3. Members(enclosing)' = Members(f) /\ ((NoRepeats(enclosing))' <=> NoRepeats(f))
    BY <2>2 DEF Members, NoRepeats
  <2> QED
    BY <2>1, <2>2, <2>3
<1> HIDE DEF around
<1>3. References' = References
  BY DEF References, file
<1>4. /\ Suspended = Suspended' \union {NextOf(around)}
      /\ NextOf(around) \notin Suspended'
  BY <1>2 DEF Suspended, NextOf, file
<1>5. NextOf(around) \in References' \ Suspended' /\ NextOf(around)[3] = cursor'
  BY <1>1, <1>2, <1>3, <1>4 DEF References, NextOf
<1>6. (References' \ Suspended') \ {NextOf(around)} = References \ Suspended
  BY <1>3, <1>4
<1>7. /\ LeadTo((References' \ Suspended') \ {NextOf(around)}, visited')
      /\ cycleReported' <=> SomeTwice((References' \ Suspended') \ {NextOf(around)})
  BY <1>6
<1> QED
  <2>1. Following'
    BY <1>5, <1>7 DEF Following, Accounts, LeadTo, SomeTwice
  <2>2. cursor' \in Reference
    BY <1>1, <1>2
  <2>3. Nested'
    BY <1>2 DEF Nested
  <2> QED
    BY <1>2, <2>1, <2>2, <2>3

LEMMA OutlineStepInductive ==
    ASSUME OutlineInductive, [OutlineNext]_outlineVars
    PROVE  OutlineInductive'
<1> USE DEF OutlineInductive, OutlineTypeOK
<1>1. CASE ListBookmark
  <2> DEFINE b == cursor
             child == <<"child", b, firstChild[b]>>
  <2>1. /\ b \in Bookmark /\ b \notin visited /\ b # NoBookmark
        /\ visited' = visited \union {b}
        /\ outline' = Append(outline, [bookmark |-> b, depth |-> Len(enclosing)])
        /\ enclosing' = Append(enclosing, b)
        /\ cursor' = firstChild[b]
        /\ UNCHANGED <<firstOfOutline, firstChild, nextSibling, cycleReported>>
    BY <1>1, OutlineAssumption DEF ListBookmark, file
  <2>2. OutlineTypeOK'
    <3>1. Len(enclosing) \in Nat
      OBVIOUS
    <3>2. outline' \in Seq([bookmark : Bookmark, depth : Nat])
      BY <2>1, <3>1
    <3> QED
      BY <2>1, <3>2
  <2>3. ListedOnce'
    <3>1. /\ Len(outline) \in Nat /\ Len(outline') = Len(outline) + 1
          /\ \A i \in 1 .. Len(outline) : outline'[i] = outline[i]
          /\ outline'[Len(outline) + 1].bookmark = b
      BY <2>1
    <3>2. \A i \in 1 .. Len(outline) : outline[i].bookmark # b
      BY <2>1 DEF ListedOnce
    <3> QED
      BY <2>1, <3>1, <3>2 DEF ListedOnce
  <2>4. /\ Nested' /\ Members(enclosing)' = Members(enclosing) \union {b}
    <3>1. b \notin Members(enclosing)
      BY <2>1 DEF Nested
    <3>2. /\ Members(Append(enclosing, b)) = Members(enclosing) \union {b}
          /\ NoRepeats(Append(enclosing, b))
      BY <2>1, <3>1, AppendedMember DEF Nested
    <3> QED
      BY <2>1, <3>2 DEF Nested, Members, NoRepeats
  <2>5. Following'
    <3>1. PICK c \in References \ Suspended :
             /\ c[3] = b
             /\ Accounts((References \ Suspended) \ {c})
      BY <2>1 DEF Following, Walked
    <3>2. /\ LeadTo(References \ Suspended, visited \union {b})
          /\ cycleReported <=> SomeTwice(References \ Suspended)
      BY <2>1, <3>1, FollowedToNew DEF Accounts
    <3>3. References' = References \union {child, NextOf(b)}
      BY <2>1 DEF References, NextOf
    <3>4. Suspended' = Suspended \union {NextOf(b)}
      BY <2>1, <2>4 DEF Suspended, NextOf
    <3>5. child \notin References /\ NextOf(b) \notin References
      BY <2>1 DEF References, NextOf
    <3>6. child \notin Suspended' /\ NextOf(b) # child
      BY DEF Suspended, NextOf
    <3>7. (References' \ Suspended') \ {child} = References \ Suspended
      BY <3>3, <3>4, <3>5, <3>6
    <3>8. child \in References' \ Suspended' /\ child[3] = cursor'
      BY <2>1, <3>3, <3>6
    <3>9. /\ LeadTo((References' \ Suspended') \ {child}, visited')
          /\ cycleReported' <=> SomeTwice((References' \ Suspended') \ {child})
      BY <2>1, <3>2, <3>7
    <3> QED
      BY <3>8, <3>9 DEF Following, Accounts, LeadTo, SomeTwice
  <2> QED
    BY <2>2, <2>3, <2>4, <2>5
<1>2. CASE EndOfSiblings
  <2>1. /\ cursor = NoBookmark /\ enclosing # <<>> /\ LeaveLevel
        /\ UNCHANGED <<file, visited, outline, cycleReported>>
    BY <1>2 DEF EndOfSiblings, LeaveLevel
  <2>2. PICK c \in References \ Suspended :
           /\ c[3] = NoBookmark
           /\ Accounts((References \ Suspended) \ {c})
    BY <2>1 DEF Following, Walked
  <2>3. /\ LeadTo(References \ Suspended, visited)
        /\ cycleReported <=> SomeTwice(References \ Suspended)
    BY <2>2, FollowedToNothing DEF Accounts
  <2>4. Following' /\ Nested' /\ enclosing' \in Seq(Bookmark) /\ cursor' \in Reference
    BY <2>1, <2>3, LevelLeft
  <2>5. OutlineTypeOK' /\ ListedOnce'
    BY <2>1, <2>4 DEF ListedOnce, file
  <2> QED
    BY <2>4, <2>5
<1>3. CASE ReportCycle
  <2>1. /\ cursor \in visited /\ cursor # NoBookmark /\ NoBookmark \notin visited
        /\ cycleReported' = TRUE
        /\ UNCHANGED <<file, visited, outline>>
    BY <1>3, OutlineAssumption DEF ReportCycle
  <2>2. PICK c \in References \ Suspended :
           /\ c[3] = cursor
           /\ Accounts((References \ Suspended) \ {c})
    BY <2>1 DEF Following, Walked
  <2>3. LeadTo(References \ Suspended, visited) /\ SomeTwice(References \ Suspended)
    BY <2>1, <2>2, FollowedAgain DEF Accounts
  <2>4. CASE LeaveLevel
    <3>1. Following' /\ Nested' /\ enclosing' \in Seq(Bookmark) /\ cursor' \in Reference
      BY <2>1, <2>3, <2>4, LevelLeft
    <3> QED
      BY <2>1, <3>1 DEF ListedOnce, file
  <2>5. CASE enclosing = <<>> /\ cursor' = NoBookmark /\ UNCHANGED enclosing
    <3>1. Suspended = {}
      BY <2>5 DEF Suspended, Members
    <3>2. LeadTo(References, visited) /\ SomeTwice(References)
      BY <2>3, <3>1
    <3>3. References' = References
      BY <2>1 DEF References, file
    <3>4. LeadTo(References', visited') /\ SomeTwice(References')
      BY <2>1, <3>2, <3>3
    <3>5. Following'
      BY <2>1, <2>5, <3>4 DEF Following, Walked, Accounts, LeadTo, SomeTwice
    <3> QED
      BY <2>1, <2>5, <3>5 DEF ListedOnce, Nested, NoRepeats, Members, file, Reference
  <2> QED
    BY <1>3, <2>4, <2>5 DEF ReportCycle
<1>4. CASE UNCHANGED outlineVars
  BY <1>4
  DEF outlineVars, ListedOnce, Nested, NoRepeats, Members, Following, Accounts, LeadTo, SomeTwice,
      Walked, References, Suspended, NextOf
<1> QED
  BY <1>1, <1>2, <1>3, <1>4 DEF OutlineNext

(* Every bookmark that can be reached is listed once, and a cycle is       *)
(* reported exactly when a bookmark is referred to twice, for any outline  *)
(* of any size.                                                            *)
THEOREM OutlinesAreListedWhole == Spec => []OutlineIsWhole
<1>1. Init => OutlineInductive
  BY OutlineBeginsInductive DEF Init
<1>2. OutlineInductive /\ [Next]_vars => OutlineInductive'
  <2>1. [Next]_vars => [OutlineNext]_outlineVars
    BY DEF Next, vars
  <2> QED
    BY <2>1, OutlineStepInductive
<1>3. OutlineInductive => OutlineIsWhole
  <2> SUFFICES ASSUME OutlineInductive PROVE OutlineIsWhole
    OBVIOUS
  <2> USE DEF OutlineInductive
  <2>1. DOMAIN outline = 1 .. Len(outline)
    BY DEF OutlineTypeOK
  <2>2. Walked => Accounts(References)
    <3>1. SUFFICES ASSUME Walked, NEW c \in References \ Suspended, c[3] = cursor,
                          Accounts((References \ Suspended) \ {c})
                   PROVE  Accounts(References)
      BY DEF Following
    <3>2. Suspended = {} /\ c[3] = NoBookmark
      BY <3>1 DEF Suspended, Members, Walked
    <3> QED
      BY <3>1, <3>2, FollowedToNothing DEF Accounts
  <2> QED
    BY <2>1, <2>2 DEF OutlineIsWhole, ListedOnce, Accounts, LeadTo, SomeTwice
<1> QED
  BY <1>1, <1>2, <1>3, PTL DEF Spec

-----------------------------------------------------------------------------
(* The metrics of the shell.  Every metric has its place in the order of   *)
(* the run, and what the shell may still write lies behind what it has     *)
(* written: which part of the order that is, the stage, the first frame    *)
(* and the state of the resize exercise tell (Reached).  The exercise is   *)
(* armed at the first frame only, runs while it is active, and is finished *)
(* by a single shot that its timer arms after the last step (Exercise).    *)

Named(s) == {s[i] : i \in DOMAIN s}
Metric == Named(MetricOrder)

ShellTypeOK ==
    /\ options \in Options /\ metricsFileOpen \in BOOLEAN
    /\ metrics \in Seq(Metric)
    /\ stage \in {"arguments", "engine", "load", "loaded", "events", "exited"}
    /\ exitCode \in {"none", "failure", "success"}
    /\ firstFrameRecorded \in BOOLEAN
    /\ resizeTimer \in BOOLEAN /\ resizeActive \in BOOLEAN
    /\ resizeStep \in Nat /\ frameSamples \in Nat

Starting == stage \in {"arguments", "engine", "load", "loaded"}

InOrder(s) == \A i, j \in DOMAIN s : i < j => PlaceOf(s[i]) < PlaceOf(s[j])
Between(low, s, high) == \A i \in DOMAIN s : PlaceOf(s[i]) \in low + 1 .. high

Reached ==
    /\ InOrder(metrics)
    /\ stage = "arguments" => Between(0, metrics, 0)
    /\ stage = "engine" => Between(0, metrics, 3)
    /\ stage = "load" => Between(0, metrics, 4)
    /\ stage = "loaded" \/ exitCode = "failure" => Between(0, metrics, 6)
    /\ stage = "events" => Between(0, metrics, 10)
    /\ stage = "events" /\ ~firstFrameRecorded => Between(0, metrics, 7)
    /\ stage = "events" /\ ("startResize" \in singleShots \/ resizeActive)
          => Between(0, metrics, 8)
    /\ firstFrameRecorded /\ metricsFileOpen => "first_frame" \in Recorded
    /\ exitCode = "success" /\ metricsFileOpen => "shutdown" \in Recorded
    /\ exitCode # "none" => stage = "exited"

Exercise ==
    /\ Starting => ~firstFrameRecorded /\ ~resizeActive /\ singleShots = {}
    /\ "startResize" \in singleShots =>
          /\ firstFrameRecorded /\ options.benchmark /\ ~resizeActive
          /\ "finishResize" \notin singleShots
    /\ resizeActive => firstFrameRecorded /\ options.benchmark
    /\ "finishResize" \in singleShots => firstFrameRecorded
    /\ resizeTimer =>
          /\ resizeActive /\ resizeStep <= ResizeOperations
          /\ "finishResize" \notin singleShots
    /\ "finishResize" \in singleShots /\ resizeActive => resizeStep = ResizeOperations

SamplesStand ==
    "frame_samples" \in Recorded =>
        /\ options.benchmark /\ resizeStep = ResizeOperations
        /\ "first_frame" \in Recorded
        /\ "frame_percentiles" \in Recorded <=> frameSamples > 0

ShellInductive == ShellTypeOK /\ Reached /\ Exercise /\ SamplesStand

LEMMA Places ==
    /\ PlaceOf("qgui_application_ready") = 1 /\ PlaceOf("arguments_ready") = 2
    /\ PlaceOf("metrics_ready") = 3 /\ PlaceOf("qml_engine_ready") = 4
    /\ PlaceOf("before_qml_load") = 5 /\ PlaceOf("qml_loaded") = 6
    /\ PlaceOf("display") = 7 /\ PlaceOf("first_frame") = 8
    /\ PlaceOf("frame_samples") = 9 /\ PlaceOf("frame_percentiles") = 10
    /\ PlaceOf("shutdown") = 11
    /\ \A x \in Metric : PlaceOf(x) \in 1 .. 11
    /\ {"qgui_application_ready", "arguments_ready", "metrics_ready", "qml_engine_ready",
        "before_qml_load", "qml_loaded", "display", "first_frame", "frame_samples",
        "frame_percentiles", "shutdown"} \subseteq Metric
<1>1. DOMAIN MetricOrder = 1 .. 11
  BY DEF MetricOrder
<1>2. \A i, j \in 1 .. 11 : MetricOrder[i] = MetricOrder[j] => i = j
  BY DEF MetricOrder
<1>3. \A i \in 1 .. 11 : PlaceOf(MetricOrder[i]) = i
  BY <1>1, <1>2 DEF PlaceOf
<1>4. /\ MetricOrder[1] = "qgui_application_ready" /\ MetricOrder[2] = "arguments_ready"
      /\ MetricOrder[3] = "metrics_ready" /\ MetricOrder[4] = "qml_engine_ready"
      /\ MetricOrder[5] = "before_qml_load" /\ MetricOrder[6] = "qml_loaded"
      /\ MetricOrder[7] = "display" /\ MetricOrder[8] = "first_frame"
      /\ MetricOrder[9] = "frame_samples" /\ MetricOrder[10] = "frame_percentiles"
      /\ MetricOrder[11] = "shutdown"
  BY DEF MetricOrder
<1> QED
  BY <1>1, <1>3, <1>4 DEF Metric, Named

(* What is written behind all that was recorded keeps the order.           *)
LEMMA Wrote ==
    ASSUME NEW t \in Seq(Metric), NEW mid \in Nat, NEW high \in Nat, mid <= high,
           metrics \in Seq(Metric), metricsFileOpen \in BOOLEAN,
           InOrder(metrics), Between(0, metrics, mid),
           InOrder(t), Between(mid, t, high), Write(t)
    PROVE  /\ metrics' \in Seq(Metric)
           /\ InOrder(metrics') /\ Between(0, metrics', high)
           /\ Recorded' = IF metricsFileOpen THEN Recorded \union Named(t) ELSE Recorded
<1>1. CASE ~metricsFileOpen
  BY <1>1 DEF Write, Between, Recorded
<1>2. CASE metricsFileOpen
  <2> DEFINE both == metrics \o t
  <2>1. /\ both \in Seq(Metric) /\ DOMAIN both = 1 .. Len(metrics) + Len(t)
        /\ DOMAIN metrics = 1 .. Len(metrics) /\ DOMAIN t = 1 .. Len(t)
        /\ Len(metrics) \in Nat /\ Len(t) \in Nat
        /\ \A i \in DOMAIN metrics : both[i] = metrics[i]
        /\ \A i \in DOMAIN t : both[Len(metrics) + i] = t[i]
    OBVIOUS
  <2>2. metrics' = both
    BY <1>2 DEF Write
  <2> HIDE DEF both
  <2>3. \A i \in DOMAIN both :
           \/ i \in DOMAIN metrics /\ both[i] = metrics[i]
           \/ /\ i - Len(metrics) \in DOMAIN t /\ i > Len(metrics)
              /\ both[i] = t[i - Len(metrics)]
    <3> SUFFICES ASSUME NEW i \in DOMAIN both, i \notin DOMAIN metrics
                 PROVE  /\ i - Len(metrics) \in DOMAIN t /\ i > Len(metrics)
                        /\ both[i] = t[i - Len(metrics)]
      BY <2>1
    <3>1. i - Len(metrics) \in DOMAIN t /\ i > Len(metrics)
      BY <2>1
    <3>2. Len(metrics) + (i - Len(metrics)) = i
      BY <2>1
    <3> QED
      BY <2>1, <3>1, <3>2
  <2>4. Between(0, both, high)
    BY <2>3 DEF Between
  <2>5. InOrder(both)
    <3> SUFFICES ASSUME NEW i \in DOMAIN both, NEW j \in DOMAIN both, i < j
                 PROVE  PlaceOf(both[i]) < PlaceOf(both[j])
      BY DEF InOrder
    <3>1. i \in Nat /\ j \in Nat
      BY <2>1
    <3>2. CASE i \in DOMAIN metrics /\ j \in DOMAIN metrics
      BY <2>1, <3>2 DEF InOrder
    <3>3. CASE i \in DOMAIN metrics /\ j \notin DOMAIN metrics
      <4>1. PlaceOf(both[i]) \in 0 + 1 .. mid
        BY <2>1, <3>3 DEF Between
      <4>2. PlaceOf(both[j]) \in mid + 1 .. high
        BY <2>3, <3>3 DEF Between
      <4> QED
        BY <4>1, <4>2
    <3>4. CASE i \notin DOMAIN metrics
      <4>1. j \notin DOMAIN metrics
        BY <2>1, <3>1, <3>4
      <4>2. i - Len(metrics) < j - Len(metrics)
        BY <2>1, <3>1
      <4> QED
        BY <2>3, <3>4, <4>1, <4>2 DEF InOrder
    <3> QED
      BY <3>2, <3>3, <3>4
  <2>6. Named(both) = Named(metrics) \union Named(t)
    <3>1. \A i \in DOMAIN metrics : i \in DOMAIN both
      BY <2>1
    <3>2. \A i \in DOMAIN t : Len(metrics) + i \in DOMAIN both
      BY <2>1
    <3> QED
      BY <2>1, <2>3, <3>1, <3>2 DEF Named
  <2> QED
    BY <1>2, <2>1, <2>2, <2>4, <2>5, <2>6 DEF Recorded, Named
<1> QED
  BY <1>1, <1>2

(* No metric beyond what was reached is recorded.                          *)
LEMMA NotReached ==
    ASSUME NEW high \in Nat, Between(0, metrics, high)
    PROVE  \A x \in Recorded : PlaceOf(x) \in Nat /\ PlaceOf(x) <= high
BY DEF Between, Recorded

LEMMA ShellBeginsInductive == ShellInit \/ ShellIdle => ShellInductive
<1> SUFFICES ASSUME ShellInit \/ ShellIdle PROVE ShellInductive
  OBVIOUS
<1>1. /\ metrics = <<>> /\ exitCode = "none" /\ singleShots = {}
      /\ stage \in {"arguments", "exited"}
      /\ firstFrameRecorded = FALSE /\ resizeTimer = FALSE /\ resizeActive = FALSE
      /\ resizeStep = 0 /\ frameSamples = 0
      /\ options \in Options /\ metricsFileOpen \in BOOLEAN
  <2>1. CASE ShellInit
    BY <2>1 DEF ShellInit, ShellBegins
  <2>2. CASE ShellIdle
    <3>1. options \in Options /\ metricsFileOpen \in BOOLEAN
      BY <2>2 DEF ShellIdle, Options
    <3> QED
      BY <2>2, <3>1 DEF ShellIdle, ShellBegins
  <2> QED
    BY <2>1, <2>2
<1>2. metrics \in Seq(Metric) /\ DOMAIN metrics = {}
  BY <1>1
<1>3. Reached
  BY <1>1, <1>2 DEF Reached, InOrder, Between
<1> QED
  BY <1>1, <1>2, <1>3 DEF ShellInductive, ShellTypeOK, Exercise, SamplesStand, Recorded

(* The names that each stage writes are in the order of the run.           *)
LEMMA StageNames ==
    /\ LET t == <<"qgui_application_ready", "arguments_ready", "metrics_ready">>
       IN  t \in Seq(Metric) /\ InOrder(t) /\ Between(0, t, 3)
    /\ LET t == <<"qml_engine_ready">>
       IN  t \in Seq(Metric) /\ InOrder(t) /\ Between(3, t, 4)
    /\ LET t == <<"before_qml_load", "qml_loaded">>
       IN  t \in Seq(Metric) /\ InOrder(t) /\ Between(4, t, 6)
    /\ LET t == <<"display">>
       IN  t \in Seq(Metric) /\ InOrder(t) /\ Between(6, t, 7)
    /\ LET t == <<"first_frame">>
       IN  t \in Seq(Metric) /\ InOrder(t) /\ Between(7, t, 8) /\ "first_frame" \in Named(t)
    /\ LET t == <<"shutdown">>
       IN  t \in Seq(Metric) /\ InOrder(t) /\ Between(10, t, 11) /\ "shutdown" \in Named(t)
<1> USE DEF InOrder, Between, Named
<1>1. LET t == <<"qgui_application_ready", "arguments_ready", "metrics_ready">>
      IN  t \in Seq(Metric) /\ InOrder(t) /\ Between(0, t, 3)
  BY Places
<1>2. LET t == <<"qml_engine_ready">>
      IN  t \in Seq(Metric) /\ InOrder(t) /\ Between(3, t, 4)
  BY Places
<1>3. LET t == <<"before_qml_load", "qml_loaded">>
      IN  t \in Seq(Metric) /\ InOrder(t) /\ Between(4, t, 6)
  BY Places
<1>4. LET t == <<"display">>
      IN  t \in Seq(Metric) /\ InOrder(t) /\ Between(6, t, 7)
  BY Places
<1>5. LET t == <<"first_frame">>
      IN  t \in Seq(Metric) /\ InOrder(t) /\ Between(7, t, 8) /\ "first_frame" \in Named(t)
  BY Places
<1>6. LET t == <<"shutdown">>
      IN  t \in Seq(Metric) /\ InOrder(t) /\ Between(10, t, 11) /\ "shutdown" \in Named(t)
  BY Places
<1> QED
  BY <1>1, <1>2, <1>3, <1>4, <1>5, <1>6

(* The result of the exercise: how many samples, and percentiles of them   *)
(* if there are any.                                                       *)
LEMMA ResultNames ==
    ASSUME NEW some \in BOOLEAN
    PROVE  LET t == <<"frame_samples">>
                      \o IF some THEN <<"frame_percentiles">> ELSE <<>>
           IN  /\ t \in Seq(Metric) /\ InOrder(t) /\ Between(8, t, 10)
               /\ "frame_samples" \in Named(t)
               /\ "frame_percentiles" \in Named(t) <=> some
<1> DEFINE u == IF some THEN <<"frame_percentiles">> ELSE <<>>
           t == <<"frame_samples">> \o u
<1>1. u \in Seq(Metric) /\ Len(u) = IF some THEN 1 ELSE 0
  BY Places
<1>2. <<"frame_samples">> \in Seq(Metric) /\ Len(<<"frame_samples">>) = 1
  BY Places
<1> HIDE DEF u
<1>3. /\ t \in Seq(Metric) /\ Len(t) = 1 + Len(u)
      /\ \A i \in 1 .. 1 + Len(u) :
            t[i] = IF i <= 1 THEN <<"frame_samples">>[i] ELSE u[i - 1]
  BY <1>1, <1>2, ConcatProperties
<1> HIDE DEF t
<1>4. DOMAIN t = 1 .. 1 + Len(u) /\ t[1] = "frame_samples"
  <2>1. Len(u) \in Nat
    BY <1>1
  <2>2. DOMAIN t = 1 .. Len(t)
    BY <1>3
  <2>3. t[1] = <<"frame_samples">>[1]
    BY <1>3, <2>1
  <2> QED
    BY <1>3, <2>2, <2>3
<1>5. some => t[2] = "frame_percentiles"
  BY <1>1, <1>3 DEF u
<1>6. InOrder(t) /\ Between(8, t, 10)
  <2>1. PlaceOf(t[1]) = 9
    BY <1>4, Places
  <2>2. some => PlaceOf(t[2]) = 10
    BY <1>5, Places
  <2>3. \A i \in DOMAIN t : i = 1 \/ (i = 2 /\ some)
    BY <1>1, <1>4
  <2> QED
    BY <2>1, <2>2, <2>3 DEF InOrder, Between
<1>7. /\ "frame_samples" \in Named(t)
      /\ "frame_percentiles" \in Named(t) <=> some
  <2>1. some => 2 \in DOMAIN t
    BY <1>1, <1>4
  <2>2. ~some => DOMAIN t = {1}
    BY <1>1, <1>4
  <2>3. 1 \in DOMAIN t
    BY <1>1, <1>4
  <2> QED
    BY <1>4, <1>5, <2>1, <2>2, <2>3 DEF Named
<1> QED
  BY <1>3, <1>6, <1>7 DEF t, u

LEMMA ShellStepInductive == ShellInductive /\ [ShellNext]_shellVars => ShellInductive'
<1> SUFFICES ASSUME ShellInductive, [ShellNext]_shellVars PROVE ShellInductive'
  OBVIOUS
<1> USE DEF startVars, frameVars, screenshotVars, resizeVars
<1>0. /\ ShellTypeOK /\ Reached /\ Exercise /\ SamplesStand
      /\ metrics \in Seq(Metric) /\ metricsFileOpen \in BOOLEAN /\ InOrder(metrics)
  BY DEF ShellInductive, ShellTypeOK, Reached
<1> USE ShellAssumption
<1>1. CASE RecordStart
  <2> DEFINE t == <<"qgui_application_ready", "arguments_ready", "metrics_ready">>
  <2>1. /\ Write(t) /\ Between(0, metrics, 0)
        /\ t \in Seq(Metric) /\ InOrder(t) /\ Between(0, t, 3)
    BY <1>0, <1>1, StageNames DEF RecordStart, Reached
  <2> HIDE DEF t
  <2>2. metrics' \in Seq(Metric) /\ InOrder(metrics') /\ Between(0, metrics', 3)
    BY <1>0, <2>1, Wrote
  <2>3. "frame_samples" \notin Recorded'
    BY <2>2, Places DEF Between, Recorded
  <2> QED
    BY <1>0, <1>1, <2>2, <2>3
    DEF RecordStart, ShellInductive, ShellTypeOK, Reached, Exercise, SamplesStand, Starting
<1>2. CASE CreateEngine
  <2> DEFINE t == <<"qml_engine_ready">>
  <2>1. /\ Write(t) /\ Between(0, metrics, 3)
        /\ t \in Seq(Metric) /\ InOrder(t) /\ Between(3, t, 4)
    BY <1>0, <1>2, StageNames DEF CreateEngine, Reached
  <2> HIDE DEF t
  <2>2. metrics' \in Seq(Metric) /\ InOrder(metrics') /\ Between(0, metrics', 4)
    BY <1>0, <2>1, Wrote
  <2>3. "frame_samples" \notin Recorded'
    BY <2>2, Places DEF Between, Recorded
  <2> QED
    BY <1>0, <1>2, <2>2, <2>3
    DEF CreateEngine, ShellInductive, ShellTypeOK, Reached, Exercise, SamplesStand, Starting
<1>3. CASE LoadQml
  <2> DEFINE t == <<"before_qml_load", "qml_loaded">>
  <2>1. /\ Write(t) /\ Between(0, metrics, 4)
        /\ t \in Seq(Metric) /\ InOrder(t) /\ Between(4, t, 6)
    BY <1>0, <1>3, StageNames DEF LoadQml, Reached
  <2> HIDE DEF t
  <2>2. metrics' \in Seq(Metric) /\ InOrder(metrics') /\ Between(0, metrics', 6)
    BY <1>0, <2>1, Wrote
  <2>3. "frame_samples" \notin Recorded'
    BY <2>2, Places DEF Between, Recorded
  <2> QED
    BY <1>0, <1>3, <2>2, <2>3
    DEF LoadQml, ShellInductive, ShellTypeOK, Reached, Exercise, SamplesStand, Starting
<1>4. CASE NoWindow
  BY <1>0, <1>4
  DEF NoWindow, ShellInductive, ShellTypeOK, Reached, Exercise, SamplesStand, Starting,
      Recorded
<1>5. CASE Attach
  <2> DEFINE t == <<"display">>
  <2>1. /\ Write(t) /\ Between(0, metrics, 6)
        /\ t \in Seq(Metric) /\ InOrder(t) /\ Between(6, t, 7)
    BY <1>0, <1>5, StageNames DEF Attach, Reached
  <2> HIDE DEF t
  <2>2. metrics' \in Seq(Metric) /\ InOrder(metrics') /\ Between(0, metrics', 7)
    BY <1>0, <2>1, Wrote
  <2>3. "frame_samples" \notin Recorded'
    BY <2>2, Places DEF Between, Recorded
  <2>4. Between(0, metrics', 10)
    BY <2>2 DEF Between
  <2>5. ~firstFrameRecorded /\ ~resizeActive /\ ~resizeTimer
    BY <1>0, <1>5 DEF Attach, Exercise, Starting
  <2>6. "startResize" \notin singleShots' /\ "finishResize" \notin singleShots'
    BY <1>5 DEF Attach
  <2> QED
    BY <1>0, <1>5, <2>2, <2>3, <2>4, <2>5, <2>6
    DEF Attach, ShellInductive, ShellTypeOK, Reached, Exercise, SamplesStand, Starting
<1>6. CASE SwapFrame \/ CloseWindow \/ DeleteWindow \/ TakeScreenshot \/ QuitAfter
  <2>1. /\ UNCHANGED <<options, metricsFileOpen, metrics, stage, exitCode,
                       firstFrameRecorded, resizeVars>>
        /\ singleShots' \subseteq singleShots
        /\ \A shot \in {"startResize", "finishResize"} :
              shot \in singleShots' <=> shot \in singleShots
        /\ stage = "events"
    BY <1>6 DEF SwapFrame, CloseWindow, DeleteWindow, TakeScreenshot, QuitAfter, Fires
  <2> QED
    BY <1>0, <2>1
    DEF ShellInductive, ShellTypeOK, Reached, Exercise, SamplesStand, Starting, Recorded
<1>7. CASE OnFrameSwapped
  <2>1. /\ UNCHANGED <<options, metricsFileOpen, stage, exitCode, resizeTimer,
                       resizeActive, resizeStep>>
        /\ stage = "events" /\ firstFrameRecorded' = TRUE
        /\ "finishResize" \in singleShots' <=> "finishResize" \in singleShots
        /\ "startResize" \in singleShots' <=>
              \/ "startResize" \in singleShots
              \/ options.benchmark /\ ~firstFrameRecorded
        /\ frameSamples' \in Nat
        /\ ~resizeActive => frameSamples' = frameSamples
    BY <1>0, <1>7 DEF OnFrameSwapped, ShellTypeOK
  <2>2. CASE firstFrameRecorded
    <3>1. metrics' = metrics
      BY <1>7, <2>2 DEF OnFrameSwapped
    <3>2. resizeActive => "frame_samples" \notin Recorded
      BY <1>0, <2>1, NotReached, Places DEF Reached
    <3> QED
      BY <1>0, <2>1, <2>2, <3>1, <3>2
      DEF ShellInductive, ShellTypeOK, Reached, Exercise, SamplesStand, Starting, Recorded
  <2>3. CASE ~firstFrameRecorded
    <3> DEFINE t == <<"first_frame">>
    <3>1. /\ Write(t) /\ Between(0, metrics, 7)
          /\ t \in Seq(Metric) /\ InOrder(t) /\ Between(7, t, 8)
          /\ "first_frame" \in Named(t)
      BY <1>0, <1>7, <2>3, StageNames DEF OnFrameSwapped, Reached
    <3> HIDE DEF t
    <3>2. /\ metrics' \in Seq(Metric) /\ InOrder(metrics') /\ Between(0, metrics', 8)
          /\ metricsFileOpen => "first_frame" \in Recorded'
      BY <1>0, <3>1, Wrote
    <3>3. "frame_samples" \notin Recorded'
      BY <3>2, Places DEF Between, Recorded
    <3>4. Between(0, metrics', 10)
      BY <3>2 DEF Between
    <3>5. ~resizeActive /\ "startResize" \notin singleShots /\ ~resizeTimer
      BY <1>0, <2>3 DEF Exercise
    <3> QED
      BY <1>0, <2>1, <2>3, <3>2, <3>3, <3>4, <3>5
      DEF ShellInductive, ShellTypeOK, Reached, Exercise, SamplesStand, Starting
  <2> QED
    BY <2>2, <2>3
<1>8. CASE StartResizeBenchmark
  <2>1. /\ UNCHANGED <<options, metricsFileOpen, metrics, stage, exitCode,
                       firstFrameRecorded>>
        /\ "startResize" \in singleShots /\ stage = "events"
        /\ "startResize" \notin singleShots'
        /\ "finishResize" \in singleShots' <=> "finishResize" \in singleShots
    BY <1>8 DEF StartResizeBenchmark, Fires
  <2>2. Between(0, metrics, 8) /\ "frame_samples" \notin Recorded
    BY <1>0, <2>1, NotReached, Places DEF Reached
  <2>3. CASE UNCHANGED resizeVars
    BY <1>0, <2>1, <2>2, <2>3
    DEF ShellInductive, ShellTypeOK, Reached, Exercise, SamplesStand, Starting, Recorded
  <2>4. CASE /\ frameSamples' = 0 /\ resizeStep' = 0
             /\ resizeActive' = TRUE /\ resizeTimer' = TRUE
    BY <1>0, <2>1, <2>2, <2>4
    DEF ShellInductive, ShellTypeOK, Reached, Exercise, SamplesStand, Starting, Recorded
  <2> QED
    BY <1>8, <2>3, <2>4 DEF StartResizeBenchmark
<1>9. CASE ResizeTick
  <2>1. /\ UNCHANGED <<options, metricsFileOpen, metrics, stage, exitCode,
                       firstFrameRecorded, frameSamples>>
        /\ resizeTimer /\ stage = "events"
        /\ "startResize" \in singleShots' <=> "startResize" \in singleShots
    BY <1>9 DEF ResizeTick
  <2>2. /\ resizeActive /\ "finishResize" \notin singleShots
        /\ resizeStep \in Nat /\ resizeStep <= ResizeOperations
        /\ "frame_samples" \notin Recorded
    BY <1>0, <2>1, NotReached, Places DEF Reached, Exercise, ShellTypeOK
  <2> USE DEF ShellInductive, ShellTypeOK, Reached, Exercise, SamplesStand, Starting,
              Recorded
  <2>3. CASE /\ resizeTimer' = FALSE /\ resizeActive' = FALSE
             /\ UNCHANGED <<resizeStep, singleShots>>
    BY <1>0, <2>1, <2>2, <2>3
  <2>4. CASE /\ resizeStep >= ResizeOperations /\ resizeTimer' = FALSE
             /\ singleShots' = singleShots \union {"finishResize"}
             /\ UNCHANGED <<resizeActive, resizeStep>>
    <3>1. resizeStep = ResizeOperations /\ firstFrameRecorded
      BY <1>0, <2>2, <2>4
    <3>2. "startResize" \notin singleShots
      BY <1>0, <2>2
    <3> QED
      BY <1>0, <2>1, <2>2, <2>4, <3>1, <3>2
  <2>5. CASE /\ resizeStep < ResizeOperations /\ resizeStep' = resizeStep + 1
             /\ UNCHANGED <<resizeTimer, resizeActive, singleShots>>
    <3>1. resizeStep' \in Nat /\ resizeStep' <= ResizeOperations
      BY <2>2, <2>5
    <3> QED
      BY <1>0, <2>1, <2>2, <2>5, <3>1
  <2> QED
    BY <1>9, <2>3, <2>4, <2>5 DEF ResizeTick
<1>10. CASE FinishResizeBenchmark
  <2>1. /\ UNCHANGED <<options, metricsFileOpen, stage, exitCode, firstFrameRecorded,
                       resizeTimer, resizeStep, frameSamples>>
        /\ "finishResize" \in singleShots /\ stage = "events"
        /\ "startResize" \in singleShots' <=> "startResize" \in singleShots
        /\ "finishResize" \notin singleShots'
    BY <1>10 DEF FinishResizeBenchmark, Fires
  <2>2. "startResize" \notin singleShots /\ ~resizeTimer
    BY <1>0, <2>1 DEF Exercise
  <2>3. CASE ~resizeActive
    BY <1>0, <1>10, <2>1, <2>2, <2>3
    DEF FinishResizeBenchmark, ShellInductive, ShellTypeOK, Reached, Exercise, SamplesStand,
        Starting, Recorded
  <2>4. CASE resizeActive
    <3> DEFINE some == frameSamples > 0
               t == <<"frame_samples">>
                       \o IF some THEN <<"frame_percentiles">> ELSE <<>>
    <3>1. /\ Write(t) /\ Between(0, metrics, 8) /\ resizeActive' = FALSE
      BY <1>0, <1>10, <2>1, <2>4 DEF FinishResizeBenchmark, Reached
    <3>2. some \in BOOLEAN
      OBVIOUS
    <3>3. /\ t \in Seq(Metric) /\ InOrder(t) /\ Between(8, t, 10)
          /\ "frame_samples" \in Named(t)
          /\ "frame_percentiles" \in Named(t) <=> some
      BY <3>2, ResultNames
    <3> HIDE DEF t
    <3>4. /\ metrics' \in Seq(Metric) /\ InOrder(metrics') /\ Between(0, metrics', 10)
          /\ Recorded' = IF metricsFileOpen THEN Recorded \union Named(t) ELSE Recorded
      BY <1>0, <3>1, <3>3, Wrote
    <3>5. firstFrameRecorded /\ options.benchmark /\ resizeStep = ResizeOperations
      BY <1>0, <2>1, <2>4 DEF Exercise
    <3>6. "frame_samples" \notin Recorded /\ "frame_percentiles" \notin Recorded
      BY <3>1, NotReached, Places
    <3>7. SamplesStand'
      BY <1>0, <2>1, <3>3, <3>4, <3>5, <3>6 DEF SamplesStand, Reached
    <3> QED
      BY <1>0, <2>1, <2>2, <3>1, <3>4, <3>5, <3>7
      DEF ShellInductive, ShellTypeOK, Reached, Exercise, Starting
  <2> QED
    BY <2>3, <2>4
<1>11. CASE Exit
  <2> DEFINE t == <<"shutdown">>
  <2>1. /\ Write(t) /\ Between(0, metrics, 10)
        /\ t \in Seq(Metric) /\ InOrder(t) /\ Between(10, t, 11)
        /\ "shutdown" \in Named(t)
    BY <1>0, <1>11, StageNames DEF Exit, Reached
  <2>2. Named(t) = {"shutdown"}
    BY DEF Named
  <2> HIDE DEF t
  <2>3. /\ metrics' \in Seq(Metric) /\ InOrder(metrics')
        /\ Recorded' = IF metricsFileOpen THEN Recorded \union {"shutdown"} ELSE Recorded
    BY <1>0, <2>1, <2>2, Wrote
  <2>4. SamplesStand'
    BY <1>0, <1>11, <2>3 DEF Exit, SamplesStand
  <2> QED
    BY <1>0, <1>11, <2>3, <2>4
    DEF Exit, ShellInductive, ShellTypeOK, Reached, Exercise, Starting
<1>12. CASE UNCHANGED shellVars
  BY <1>0, <1>12
  DEF shellVars, ShellInductive, ShellTypeOK, Reached, Exercise, SamplesStand, Starting,
      Recorded
<1> QED
  BY <1>1, <1>2, <1>3, <1>4, <1>5, <1>6, <1>7, <1>8, <1>9, <1>10, <1>11, <1>12
  DEF ShellNext, Startup

(* However frames, timers, a deleted window and a quit interleave, for any *)
(* number of frames and resize steps, the metrics file tells what was      *)
(* done: each metric once and in order, and results of the exercise only   *)
(* for one made to its end (ShellMetrics.cpp, main.cpp).                   *)
THEOREM MetricsAreTrue == Spec => []MetricsTellTheRun
<1>1. Init => ShellInductive
  BY ShellBeginsInductive DEF Init
<1>2. ShellInductive /\ [Next]_vars => ShellInductive'
  <2>1. [Next]_vars => [ShellNext]_shellVars
    BY DEF Next, vars
  <2> QED
    BY <2>1, ShellStepInductive
<1>3. ShellInductive => MetricsTellTheRun
  <2> SUFFICES ASSUME ShellInductive PROVE MetricsTellTheRun
    OBVIOUS
  <2>1. exitCode = "failure" => {"display", "shutdown"} \cap Recorded = {}
    BY NotReached, Places DEF ShellInductive, Reached
  <2> QED
    BY <2>1
    DEF ShellInductive, Reached, InOrder, SamplesStand, MetricsTellTheRun
<1> QED
  BY <1>1, <1>2, <1>3, PTL DEF Spec

-----------------------------------------------------------------------------
(* The tools over engine handles (PdfEngineProofs).                        *)

LEMMA EvidenceOfCalls == Spec => []CallsInv
<1>1. Init => CallsInv
  BY CallsStart DEF Init
<1>2. CallsInv /\ [Next]_vars => CallsInv'
  <2>1. [Next]_vars => [CallsNext]_callVars
    BY DEF Next, vars
  <2> QED
    BY <2>1, CallsStep
<1> QED
  BY <1>1, <1>2, PTL DEF Spec

(* On every path of every tool, whatever the engine refuses and however    *)
(* many pages, hits and iterations there are, a handle is opened from one  *)
(* that is open, never twice, is closed before what it was opened from,    *)
(* and nothing is open when the tool exits.                                *)
THEOREM HandlesAreNested == Spec => []HandlesNest
  BY EvidenceOfCalls, CallsInvNests, PTL

(* A tool that exits and says it passed was refused nothing that it should *)
(* have reported, at any depth of its calls.                               *)
THEOREM PassesAreComplete == Spec => []PassMeansComplete
  BY EvidenceOfCalls, CallsInvReports, PTL
=============================================================================
