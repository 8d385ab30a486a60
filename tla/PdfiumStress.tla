---------------------------- MODULE PdfiumStress ----------------------------
(***************************************************************************)
(* The threads of atlas_pdfium_stress: a worker that owns the engine and   *)
(* first does its lifetime iterations, producers that then fill a queue    *)
(* for it, and the main thread that starts the producers, closes the queue *)
(* and reports whether everything passed.                                  *)
(*                                                                         *)
(* A section under queueMutex or lifetimeMutex is one step.  Each of the   *)
(* two condition variables has one waiter, which checks its predicate and  *)
(* falls asleep in one step, and may wake for no reason.                   *)
(***************************************************************************)
EXTENDS Naturals, Sequences, FiniteSets

CONSTANTS
    LifetimeIterations,    \* lifetime-iterations, an argument
    ProducerCount,         \* producer-count, an argument
    RequestsPerProducer    \* requests-per-producer, an argument

ASSUME StressAssumption ==
    /\ LifetimeIterations \in Nat \ {0}
    /\ ProducerCount \in Nat \ {0}
    /\ RequestsPerProducer \in Nat \ {0}

Producers == 0 .. ProducerCount - 1
Requests == 0 .. RequestsPerProducer - 1
Tasks == Producers \X Requests

VARIABLES
    mainAt,          \* where the main thread is
    workerAt,        \* where the worker is
    lifetime,        \* iterations left, completed and failed
    lifetimeDone,
    producerAt,      \* where each producer is
    sent,            \* requests each producer has pushed
    queue,
    submitted,
    producersDone,
    task,            \* the request the worker took last
    activeApi, maxActiveApi,
    completed, failed,
    finished         \* history: the requests whose work is over

workVars == <<task, activeApi, maxActiveApi, completed, failed, finished>>
producerVars == <<producerAt, sent, submitted>>
lifetimeVars == <<lifetime, lifetimeDone>>
stressVars ==
    <<mainAt, workerAt, lifetimeVars, producerVars, queue, producersDone, workVars>>

StressBegins(main, worker) ==
    /\ mainAt = main /\ workerAt = worker
    /\ lifetime = [left |-> LifetimeIterations, completed |-> 0, failures |-> 0]
    /\ lifetimeDone = FALSE
    /\ producerAt = [p \in Producers |-> "none"]
    /\ sent = [p \in Producers |-> 0]
    /\ queue = <<>> /\ submitted = 0 /\ producersDone = FALSE
    /\ task = <<0, 0>> /\ activeApi = 0 /\ maxActiveApi = 0
    /\ completed = 0 /\ failed = 0 /\ finished = {}

StressInit == StressBegins("awaitLifetime", "lifetime")
StressIdle == StressBegins("notRun", "notRun")

-----------------------------------------------------------------------------
(* The worker.                                                             *)

LifetimeIteration ==
    /\ workerAt = "lifetime" /\ lifetime.left > 0
    /\ \E ok \in BOOLEAN :
          lifetime' = [left |-> lifetime.left - 1,
                       completed |-> lifetime.completed + (IF ok THEN 1 ELSE 0),
                       failures |-> lifetime.failures + (IF ok THEN 0 ELSE 1)]
    /\ UNCHANGED <<mainAt, workerAt, lifetimeDone, producerVars, queue,
                   producersDone, workVars>>

PublishLifetime ==
    /\ workerAt = "lifetime" /\ lifetime.left = 0
    /\ lifetimeDone' = TRUE
    /\ workerAt' = "notifyMain"
    /\ UNCHANGED <<mainAt, lifetime, producerVars, queue, producersDone, workVars>>

NotifyMain ==
    /\ workerAt = "notifyMain"
    /\ mainAt' = IF mainAt = "asleep" THEN "awaitLifetime" ELSE mainAt
    /\ workerAt' = "awaitWork"
    /\ UNCHANGED <<lifetimeVars, producerVars, queue, producersDone, workVars>>

SleepForWork ==
    /\ workerAt = "awaitWork" /\ queue = <<>> /\ ~producersDone
    /\ workerAt' = "asleep"
    /\ UNCHANGED <<mainAt, lifetimeVars, producerVars, queue, producersDone, workVars>>

TakeTask ==
    /\ workerAt = "awaitWork" /\ queue # <<>>
    /\ task' = Head(queue)
    /\ queue' = Tail(queue)
    /\ workerAt' = "taken"
    /\ UNCHANGED <<mainAt, lifetimeVars, producerVars, producersDone, activeApi,
                   maxActiveApi, completed, failed, finished>>

BeginWork ==
    /\ workerAt = "taken"
    /\ activeApi' = activeApi + 1
    /\ maxActiveApi' = IF activeApi' > maxActiveApi THEN activeApi' ELSE maxActiveApi
    /\ workerAt' = "working"
    /\ UNCHANGED <<mainAt, lifetimeVars, producerVars, queue, producersDone, task,
                   completed, failed, finished>>

EndWork ==
    /\ workerAt = "working"
    /\ activeApi' = activeApi - 1
    /\ \/ completed' = completed + 1 /\ UNCHANGED failed
       \/ failed' = failed + 1 /\ UNCHANGED completed
    /\ finished' = finished \union {task}
    /\ workerAt' = "awaitWork"
    /\ UNCHANGED <<mainAt, lifetimeVars, producerVars, queue, producersDone, task,
                   maxActiveApi>>

(* Defect: the worker stops as soon as the queue is closed.                *)
WorkerEnds_LeavesQueue ==
    /\ workerAt = "awaitWork" /\ producersDone
    /\ workerAt' = "ended"
    /\ UNCHANGED <<mainAt, lifetimeVars, producerVars, queue, producersDone, workVars>>

WorkerEnds ==
    /\ workerAt = "awaitWork" /\ queue = <<>> /\ producersDone
    /\ workerAt' = "ended"
    /\ UNCHANGED <<mainAt, lifetimeVars, producerVars, queue, producersDone, workVars>>

WorkerStep ==
    \/ LifetimeIteration \/ PublishLifetime \/ NotifyMain \/ SleepForWork
    \/ TakeTask \/ BeginWork \/ EndWork \/ WorkerEnds

-----------------------------------------------------------------------------
(* A producer: push under the lock, count, notify.                         *)

Woken == IF workerAt = "asleep" THEN "awaitWork" ELSE workerAt

Push(p) ==
    /\ producerAt[p] = "push" /\ sent[p] < RequestsPerProducer
    /\ queue' = Append(queue, <<p, sent[p]>>)
    /\ sent' = [sent EXCEPT ![p] = @ + 1]
    /\ producerAt' = [producerAt EXCEPT ![p] = "count"]
    /\ UNCHANGED <<mainAt, workerAt, lifetimeVars, submitted, producersDone, workVars>>

CountSubmitted(p) ==
    /\ producerAt[p] = "count"
    /\ submitted' = submitted + 1
    /\ producerAt' = [producerAt EXCEPT ![p] = "notify"]
    /\ UNCHANGED <<mainAt, workerAt, lifetimeVars, sent, queue, producersDone, workVars>>

NotifyWorker(p) ==
    /\ producerAt[p] = "notify"
    /\ workerAt' = Woken
    /\ producerAt' = [producerAt EXCEPT ![p] = "push"]
    /\ UNCHANGED <<mainAt, lifetimeVars, sent, submitted, queue, producersDone, workVars>>

ProducerEnds(p) ==
    /\ producerAt[p] = "push" /\ sent[p] = RequestsPerProducer
    /\ producerAt' = [producerAt EXCEPT ![p] = "ended"]
    /\ UNCHANGED <<mainAt, workerAt, lifetimeVars, sent, submitted, queue,
                   producersDone, workVars>>

ProducerStep(p) ==
    Push(p) \/ CountSubmitted(p) \/ NotifyWorker(p) \/ ProducerEnds(p)

-----------------------------------------------------------------------------
(* The main thread.                                                        *)

AwaitLifetime ==
    /\ mainAt = "awaitLifetime"
    /\ mainAt' = IF lifetimeDone THEN "spawn" ELSE "asleep"
    /\ UNCHANGED <<workerAt, lifetimeVars, producerVars, queue, producersDone, workVars>>

Spawn ==
    /\ mainAt = "spawn"
    /\ \E p \in Producers :
          /\ producerAt[p] = "none"
          /\ \A earlier \in 0 .. p - 1 : producerAt[earlier] # "none"
          /\ producerAt' = [producerAt EXCEPT ![p] = "push"]
    /\ UNCHANGED <<mainAt, workerAt, lifetimeVars, sent, submitted, queue,
                   producersDone, workVars>>

JoinProducers ==
    /\ mainAt = "spawn"
    /\ \A p \in Producers : producerAt[p] = "ended"
    /\ mainAt' = "close"
    /\ UNCHANGED <<workerAt, lifetimeVars, producerVars, queue, producersDone, workVars>>

CloseQueue ==
    /\ mainAt = "close"
    /\ producersDone' = TRUE
    /\ mainAt' = "notifyWorker"
    /\ UNCHANGED <<workerAt, lifetimeVars, producerVars, queue, workVars>>

(* Defect: closing the queue wakes nobody.                                 *)
NotifyClosed_NoWake ==
    /\ mainAt = "notifyWorker"
    /\ mainAt' = "join"
    /\ UNCHANGED <<workerAt, lifetimeVars, producerVars, queue, producersDone, workVars>>

NotifyClosed ==
    /\ mainAt = "notifyWorker"
    /\ workerAt' = Woken
    /\ mainAt' = "join"
    /\ UNCHANGED <<lifetimeVars, producerVars, queue, producersDone, workVars>>

JoinWorker ==
    /\ mainAt = "join" /\ workerAt = "ended"
    /\ mainAt' = "reported"
    /\ UNCHANGED <<workerAt, lifetimeVars, producerVars, queue, producersDone, workVars>>

MainStep ==
    \/ AwaitLifetime \/ Spawn \/ JoinProducers \/ CloseQueue \/ NotifyClosed
    \/ JoinWorker

(* Either waiter may wake for no reason.                                   *)
WakeSpuriously ==
    /\ \/ workerAt = "asleep" /\ workerAt' = "awaitWork" /\ UNCHANGED mainAt
       \/ mainAt = "asleep" /\ mainAt' = "awaitLifetime" /\ UNCHANGED workerAt
    /\ UNCHANGED <<lifetimeVars, producerVars, queue, producersDone, workVars>>

StressNext ==
    \/ WorkerStep \/ MainStep \/ WakeSpuriously
    \/ \E p \in Producers : ProducerStep(p)

(* The threads are scheduled by the operating system.                      *)
StressFairness ==
    /\ WF_stressVars(WorkerStep) /\ WF_stressVars(MainStep)
    /\ \A p \in Producers : WF_stressVars(ProducerStep(p))

StressSpec == StressInit /\ [][StressNext]_stressVars /\ StressFairness

-----------------------------------------------------------------------------
(* What the program reports when both joins are over.                      *)

Passed ==
    /\ lifetime.failures = 0 /\ lifetime.completed = LifetimeIterations
    /\ submitted = ProducerCount * RequestsPerProducer
    /\ completed = ProducerCount * RequestsPerProducer
    /\ failed = 0
    /\ maxActiveApi = 1

(* The worker ends only with every request of every producer executed, and *)
(* the counters it leaves are the requests': the program then says that it *)
(* passed exactly when no iteration and no request failed, whatever the    *)
(* order in which pushes, counts and wake-ups interleaved.                 *)
StressAccounts ==
    /\ completed + failed = Cardinality(finished)
    /\ workerAt = "ended" => finished = Tasks
    /\ mainAt = "reported" => (Passed <=> failed = 0 /\ lifetime.failures = 0)
=============================================================================
