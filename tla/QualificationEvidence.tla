----------------------- MODULE QualificationEvidence -----------------------
(***************************************************************************)
(* The programs whose output the repository takes for evidence: the PDF    *)
(* tools (tools/pdf) and the shell when it writes metrics.  A behaviour    *)
(* runs one of them: a tool by its engine calls, by its threads, by its    *)
(* walk of an outline or by its waiting for hits, or the shell; the others *)
(* are not run.                                                            *)
(***************************************************************************)
EXTENDS PdfEngineCalls, PdfiumStress, OutlineWalk, QtPolling, ShellLifecycle

vars == <<callVars, stressVars, outlineVars, pollVars, shellVars>>

Init ==
    \/ CallsInit /\ StressIdle /\ OutlineIdle /\ PollIdle /\ ShellIdle
    \/ CallsIdle /\ StressInit /\ OutlineIdle /\ PollIdle /\ ShellIdle
    \/ CallsIdle /\ StressIdle /\ OutlineInit /\ PollIdle /\ ShellIdle
    \/ CallsIdle /\ StressIdle /\ OutlineIdle /\ PollInit /\ ShellIdle
    \/ CallsIdle /\ StressIdle /\ OutlineIdle /\ PollIdle /\ ShellInit

Next ==
    \/ CallsNext /\ UNCHANGED <<stressVars, outlineVars, pollVars, shellVars>>
    \/ StressNext /\ UNCHANGED <<callVars, outlineVars, pollVars, shellVars>>
    \/ OutlineNext /\ UNCHANGED <<callVars, stressVars, pollVars, shellVars>>
    \/ PollNext /\ UNCHANGED <<callVars, stressVars, outlineVars, shellVars>>
    \/ ShellNext /\ UNCHANGED <<callVars, stressVars, outlineVars, pollVars>>

(* The operating system runs every thread and the event loop every timer;  *)
(* time passes in a loop that sleeps.  That the engine finds a hit, or a   *)
(* waiter wakes for no reason, is not assumed.                             *)
Spec ==
    /\ Init /\ [][Next]_vars
    /\ CallsFairness /\ StressFairness /\ OutlineFairness /\ PollFairness
    /\ ShellFairness

(* Every tool comes to its end: no wake-up of the worker or of the main    *)
(* thread is lost, no join waits for ever, no outline is walked in circles *)
(* and no wait outlasts its timeout; and the shell comes to the end of what*)
(* it was asked for.                                                       *)
EvidenceEnds ==
    /\ <>(frames = <<>> \/ Exited)
    /\ <>(mainAt \in {"notRun", "reported"})
    /\ <>Walked
    /\ <>~PollRuns
    /\ ShellSettles
=============================================================================
