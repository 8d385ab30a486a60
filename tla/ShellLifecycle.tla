--------------------------- MODULE ShellLifecycle ---------------------------
(***************************************************************************)
(* The shell from start to exit (main.cpp) and its metrics (ShellMetrics): *)
(* the stages of the start, the first frame, the resize exercise driven by *)
(* timers, the screenshot, and the shutdown record, against a render       *)
(* thread whose frameSwapped signals are queued, a person who closes the   *)
(* window and a quit that may come at any moment.                          *)
(*                                                                         *)
(* Delays are left out: an armed single shot fires at any later moment.    *)
(***************************************************************************)
EXTENDS Naturals, Sequences

CONSTANTS
    ResizeOperations,   \* resizeOperations
    MaxFrames           \* bound: frames that the window swaps

ASSUME ShellAssumption == ResizeOperations \in Nat \ {0} /\ MaxFrames \in Nat

VARIABLES
    options,          \* what the command line asks for
    metricsFileOpen,
    metrics,          \* the lines of the metrics file, by name
    stage,            \* where main() is
    exitCode,
    window,           \* "none", "open", or "gone": deleted
    quitting,         \* the event loop was told to end
    singleShots,      \* the single shots that are armed
    swapped,          \* frames swapped so far
    queuedFrames,     \* frameSwapped signals not yet handled
    firstFrameRecorded,
    screenshotWaits,  \* the screenshot's own connection to frameSwapped
    screenshotSaved,
    resizeTimer, resizeActive, resizeStep,
    frameSamples      \* resizeFrameIntervalsMs_, its size

startVars == <<options, metricsFileOpen>>
frameVars == <<swapped, queuedFrames, firstFrameRecorded>>
screenshotVars == <<screenshotWaits, screenshotSaved>>
resizeVars == <<resizeTimer, resizeActive, resizeStep, frameSamples>>
shellVars ==
    <<startVars, metrics, stage, exitCode, window, quitting, singleShots, frameVars,
      screenshotVars, resizeVars>>

Write(names) == metrics' = IF metricsFileOpen THEN metrics \o names ELSE metrics

Options == [benchmark : BOOLEAN, screenshot : BOOLEAN, quitAfter : BOOLEAN]

ShellBegins(place) ==
    /\ metrics = <<>> /\ stage = place /\ exitCode = "none"
    /\ window = "none" /\ quitting = FALSE /\ singleShots = {}
    /\ swapped = 0 /\ queuedFrames = 0 /\ firstFrameRecorded = FALSE
    /\ screenshotWaits = FALSE /\ screenshotSaved = FALSE
    /\ resizeTimer = FALSE /\ resizeActive = FALSE /\ resizeStep = 0
    /\ frameSamples = 0

ShellInit ==
    /\ ShellBegins("arguments")
    /\ options \in Options /\ metricsFileOpen \in BOOLEAN

ShellIdle ==
    /\ ShellBegins("exited")
    /\ options = [benchmark |-> FALSE, screenshot |-> FALSE, quitAfter |-> FALSE]
    /\ metricsFileOpen = FALSE

-----------------------------------------------------------------------------
(* main(), up to the event loop.                                           *)

RecordStart ==
    /\ stage = "arguments"
    /\ Write(<<"qgui_application_ready", "arguments_ready", "metrics_ready">>)
    /\ stage' = "engine"
    /\ UNCHANGED <<startVars, exitCode, window, quitting, singleShots, frameVars,
                   screenshotVars, resizeVars>>

CreateEngine ==
    /\ stage = "engine"
    /\ Write(<<"qml_engine_ready">>)
    /\ stage' = "load"
    /\ UNCHANGED <<startVars, exitCode, window, quitting, singleShots, frameVars,
                   screenshotVars, resizeVars>>

(* A failed load queues an exit that no event loop will handle.            *)
LoadQml ==
    /\ stage = "load"
    /\ Write(<<"before_qml_load", "qml_loaded">>)
    /\ \/ window' = "open" /\ quitting' = FALSE
       \/ window' = "none" /\ quitting' \in BOOLEAN
    /\ stage' = "loaded"
    /\ UNCHANGED <<startVars, exitCode, singleShots, frameVars, screenshotVars,
                   resizeVars>>

NoWindow ==
    /\ stage = "loaded" /\ window = "none"
    /\ stage' = "exited" /\ exitCode' = "failure"
    /\ UNCHANGED <<startVars, metrics, window, quitting, singleShots, frameVars,
                   screenshotVars, resizeVars>>

Attach ==
    /\ stage = "loaded" /\ window = "open"
    /\ Write(<<"display">>)
    /\ screenshotWaits' = options.screenshot
    /\ singleShots' = IF options.quitAfter THEN {"quit"} ELSE {}
    /\ stage' = "events"
    /\ UNCHANGED <<startVars, exitCode, window, quitting, frameVars,
                   screenshotSaved, resizeVars>>

-----------------------------------------------------------------------------
(* The render thread and the world.                                        *)

SwapFrame ==
    /\ stage = "events" /\ window = "open" /\ swapped < MaxFrames
    /\ swapped' = swapped + 1 /\ queuedFrames' = queuedFrames + 1
    /\ UNCHANGED <<startVars, metrics, stage, exitCode, window, quitting, singleShots,
                   firstFrameRecorded, screenshotVars, resizeVars>>

(* Closing the last window ends the event loop.                            *)
CloseWindow ==
    /\ stage = "events" /\ ~quitting
    /\ quitting' = TRUE
    /\ UNCHANGED <<startVars, metrics, stage, exitCode, window, singleShots, frameVars,
                   screenshotVars, resizeVars>>

DeleteWindow ==
    /\ stage = "events" /\ window = "open"
    /\ window' = "gone"
    /\ singleShots' = singleShots \ {"screenshot"}
    /\ screenshotWaits' = FALSE
    /\ UNCHANGED <<startVars, metrics, stage, exitCode, quitting, frameVars,
                   screenshotSaved, resizeVars>>

-----------------------------------------------------------------------------
(* The event loop.                                                         *)

Fires(shot) == stage = "events" /\ shot \in singleShots

(* Defect: every frame is recorded as the first.                           *)
OnFrameSwapped_EveryFrame ==
    /\ stage = "events" /\ queuedFrames > 0
    /\ queuedFrames' = queuedFrames - 1
    /\ firstFrameRecorded' = TRUE
    /\ Write(<<"first_frame">>)
    /\ singleShots' = singleShots
          \union (IF options.benchmark THEN {"startResize"} ELSE {})
          \union (IF screenshotWaits THEN {"screenshot"} ELSE {})
    /\ screenshotWaits' = FALSE
    /\ frameSamples' = IF resizeActive THEN frameSamples + 1 ELSE frameSamples
    /\ UNCHANGED <<startVars, stage, exitCode, window, quitting, swapped,
                   screenshotSaved, resizeTimer, resizeActive, resizeStep>>

OnFrameSwapped ==
    /\ stage = "events" /\ queuedFrames > 0
    /\ queuedFrames' = queuedFrames - 1
    /\ firstFrameRecorded' = TRUE
    /\ IF firstFrameRecorded THEN UNCHANGED metrics ELSE Write(<<"first_frame">>)
    /\ singleShots' = singleShots
          \union (IF options.benchmark /\ ~firstFrameRecorded THEN {"startResize"} ELSE {})
          \union (IF screenshotWaits THEN {"screenshot"} ELSE {})
    /\ screenshotWaits' = FALSE
    /\ frameSamples' = IF resizeActive THEN frameSamples + 1 ELSE frameSamples
    /\ UNCHANGED <<startVars, stage, exitCode, window, quitting, swapped,
                   screenshotSaved, resizeTimer, resizeActive, resizeStep>>

StartResizeBenchmark ==
    /\ Fires("startResize")
    /\ singleShots' = singleShots \ {"startResize"}
    /\ IF window # "open" \/ resizeActive THEN UNCHANGED resizeVars
       ELSE /\ frameSamples' = 0 /\ resizeStep' = 0
            /\ resizeActive' = TRUE /\ resizeTimer' = TRUE
    /\ UNCHANGED <<startVars, metrics, stage, exitCode, window, quitting, frameVars,
                   screenshotVars>>

ResizeTick ==
    /\ stage = "events" /\ resizeTimer
    /\ \/ /\ window # "open"
          /\ resizeTimer' = FALSE /\ resizeActive' = FALSE
          /\ UNCHANGED <<resizeStep, singleShots>>
       \/ /\ window = "open" /\ resizeStep >= ResizeOperations
          /\ resizeTimer' = FALSE
          /\ singleShots' = singleShots \union {"finishResize"}
          /\ UNCHANGED <<resizeActive, resizeStep>>
       \/ /\ window = "open" /\ resizeStep < ResizeOperations
          /\ resizeStep' = resizeStep + 1
          /\ UNCHANGED <<resizeTimer, resizeActive, singleShots>>
    /\ UNCHANGED <<startVars, metrics, stage, exitCode, window, quitting, frameVars,
                   screenshotVars, frameSamples>>

FinishResizeBenchmark ==
    /\ Fires("finishResize")
    /\ singleShots' = singleShots \ {"finishResize"}
    /\ IF ~resizeActive THEN UNCHANGED <<metrics, resizeActive>>
       ELSE /\ resizeActive' = FALSE
            /\ Write(<<"frame_samples">>
                     \o IF frameSamples > 0 THEN <<"frame_percentiles">> ELSE <<>>)
    /\ UNCHANGED <<startVars, stage, exitCode, window, quitting, frameVars,
                   screenshotVars, resizeTimer, resizeStep, frameSamples>>

TakeScreenshot ==
    /\ Fires("screenshot")
    /\ singleShots' = singleShots \ {"screenshot"}
    /\ screenshotSaved' \in BOOLEAN
    /\ UNCHANGED <<startVars, metrics, stage, exitCode, window, quitting, frameVars,
                   screenshotWaits, resizeVars>>

QuitAfter ==
    /\ Fires("quit")
    /\ singleShots' = singleShots \ {"quit"}
    /\ quitting' = TRUE
    /\ UNCHANGED <<startVars, metrics, stage, exitCode, window, frameVars,
                   screenshotVars, resizeVars>>

(* aboutToQuit; nothing is handled after it.                               *)
Exit ==
    /\ stage = "events" /\ quitting
    /\ Write(<<"shutdown">>)
    /\ stage' = "exited" /\ exitCode' = "success"
    /\ UNCHANGED <<startVars, window, quitting, singleShots, frameVars, screenshotVars,
                   resizeVars>>

Startup == RecordStart \/ CreateEngine \/ LoadQml \/ NoWindow \/ Attach

ShellNext ==
    \/ Startup \/ SwapFrame \/ CloseWindow \/ DeleteWindow
    \/ OnFrameSwapped \/ StartResizeBenchmark \/ ResizeTick
    \/ FinishResizeBenchmark \/ TakeScreenshot \/ QuitAfter \/ Exit

(* The event loop handles every event and timer in the end; nobody has to  *)
(* close the window and no frame has to be swapped.                        *)
ShellFairness ==
    /\ WF_shellVars(Startup) /\ WF_shellVars(OnFrameSwapped)
    /\ WF_shellVars(StartResizeBenchmark) /\ WF_shellVars(ResizeTick)
    /\ WF_shellVars(FinishResizeBenchmark) /\ WF_shellVars(TakeScreenshot)
    /\ WF_shellVars(QuitAfter) /\ WF_shellVars(Exit)

ShellSpec == ShellInit /\ [][ShellNext]_shellVars /\ ShellFairness

-----------------------------------------------------------------------------

MetricOrder ==
    <<"qgui_application_ready", "arguments_ready", "metrics_ready",
      "qml_engine_ready", "before_qml_load", "qml_loaded", "display", "first_frame",
      "frame_samples", "frame_percentiles", "shutdown">>

PlaceOf(name) == CHOOSE i \in DOMAIN MetricOrder : MetricOrder[i] = name
Recorded == {metrics[i] : i \in DOMAIN metrics}

(* However frames, timers, a deleted window and a quit interleave, the     *)
(* metrics file has each metric at most once and in the order of the run:  *)
(* results of the resize exercise stand only for an exercise made to its   *)
(* end after a first frame, percentiles only for samples that were taken,  *)
(* and a run that failed to start claims neither display nor shutdown.     *)
MetricsTellTheRun ==
    /\ \A i, j \in DOMAIN metrics : i < j => PlaceOf(metrics[i]) < PlaceOf(metrics[j])
    /\ "frame_samples" \in Recorded =>
          /\ options.benchmark /\ resizeStep = ResizeOperations
          /\ "first_frame" \in Recorded
          /\ "frame_percentiles" \in Recorded <=> frameSamples > 0
    /\ exitCode = "failure" => {"display", "shutdown"} \cap Recorded = {}
    /\ exitCode = "success" /\ metricsFileOpen => "shutdown" \in Recorded

(* An exercise that was asked for ends, unless its window or the program   *)
(* goes first, and a program told to quit exits.                           *)
ShellSettles ==
    /\ firstFrameRecorded /\ options.benchmark
          ~> \/ resizeStep = ResizeOperations /\ ~resizeActive
             \/ window = "gone" \/ stage = "exited"
    /\ options.quitAfter ~> stage = "exited"
=============================================================================
