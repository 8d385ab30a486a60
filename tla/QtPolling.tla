----------------------------- MODULE QtPolling -----------------------------
(***************************************************************************)
(* The loops in which the Qt PDF tools wait for the hits of a search, which*)
(* QPdfSearchModel delivers through the event loop: until an expected      *)
(* number is there (qt_pdf_bench), until they have stopped changing        *)
(* (qt_pdf_search_probe, qt_pdf_content_probe), or both (settleSearch of   *)
(* qt_pdf_coordinate_probe).  Time is counted in ticks.                    *)
(*                                                                         *)
(* The engine may find a hit at any moment, or be quiet for as long as it  *)
(* likes, and a turn of a loop may take any time.                          *)
(***************************************************************************)
EXTENDS Naturals

CONSTANTS
    Answers,              \* bound: hits of a search
    Timeout,              \* timeoutMs
    MinimumObservation,   \* minimumObservationMs
    StableWindow,         \* stableWindowMs
    LastTick              \* bound: the time until which the clock runs

ASSUME PollingAssumption ==
    /\ {Answers, Timeout, MinimumObservation, StableWindow, LastTick} \subseteq Nat \ {0}
    /\ Timeout <= LastTick

VARIABLES
    waitsFor,       \* "all", "settled" or "both": the loop that is run
    pollAt,         \* where the loop is, or "notRun"
    now,            \* the elapsed time
    turnBegan,      \* when this turn of the loop began
    hits,           \* what the engine will find in all
    expected,       \* what the tool waits for
    ready,          \* found by the engine
    foundAt,        \* history: when each of them was found
    shown,          \* delivered by processEvents
    lastCount, lastChange,
    accepted        \* settled, or completed

pollVars ==
    <<waitsFor, pollAt, now, turnBegan, hits, expected, ready, foundAt, shown,
      lastCount, lastChange, accepted>>

PollBegins(place) ==
    /\ pollAt = place /\ now = 0 /\ turnBegan = 0
    /\ ready = 0 /\ foundAt = [i \in 1 .. Answers |-> 0]
    /\ shown = 0 /\ lastCount = 0 /\ lastChange = 0 /\ accepted = FALSE

PollInit ==
    /\ PollBegins("test")
    /\ waitsFor \in {"all", "settled", "both"}
    /\ hits \in 0 .. Answers
    /\ expected \in 1 .. Answers

PollIdle ==
    /\ PollBegins("notRun")
    /\ waitsFor = "all" /\ hits = 0 /\ expected = 1

-----------------------------------------------------------------------------
(* The engine and the clock.                                               *)

PollRuns == pollAt \notin {"notRun", "ended"}

Find ==
    /\ PollRuns /\ ready < hits
    /\ ready' = ready + 1
    /\ foundAt' = [foundAt EXCEPT ![ready + 1] = now]
    /\ UNCHANGED <<waitsFor, pollAt, now, turnBegan, hits, expected, shown,
                   lastCount, lastChange, accepted>>

Tick ==
    /\ PollRuns /\ now < LastTick
    /\ now' = now + 1
    /\ UNCHANGED <<waitsFor, pollAt, turnBegan, hits, expected, ready, foundAt,
                   shown, lastCount, lastChange, accepted>>

-----------------------------------------------------------------------------
(* The loops.                                                              *)

Enough == waitsFor = "all" /\ shown >= expected

GoOn(place) ==
    /\ pollAt' = place
    /\ UNCHANGED <<waitsFor, now, hits, expected, ready, foundAt>>

TestLoop ==
    /\ pollAt = "test"
    /\ IF now < Timeout /\ ~Enough THEN GoOn("events")
       ELSE IF waitsFor = "all" THEN GoOn("lastEvents") ELSE GoOn("ended")
    /\ turnBegan' = now
    /\ UNCHANGED <<shown, lastCount, lastChange, accepted>>

ProcessEvents ==
    /\ pollAt = "events"
    /\ shown' = ready
    /\ GoOn(IF waitsFor = "all" THEN "sleep" ELSE "compare")
    /\ UNCHANGED <<turnBegan, lastCount, lastChange, accepted>>

(* Defect: a new count does not restart the window.                        *)
Compare_NoStamp ==
    /\ pollAt = "compare"
    /\ lastCount' = shown
    /\ GoOn("settle")
    /\ UNCHANGED <<turnBegan, shown, lastChange, accepted>>

Compare ==
    /\ pollAt = "compare"
    /\ lastCount' = shown
    /\ lastChange' = IF shown # lastCount THEN now ELSE lastChange
    /\ GoOn("settle")
    /\ UNCHANGED <<turnBegan, shown, accepted>>

CountMatches == waitsFor = "both" => shown = expected

Settle ==
    /\ pollAt = "settle"
    /\ IF CountMatches /\ now >= MinimumObservation /\ now - lastChange >= StableWindow
       THEN accepted' = TRUE /\ GoOn("ended")
       ELSE UNCHANGED accepted /\ GoOn("sleep")
    /\ UNCHANGED <<turnBegan, shown, lastCount, lastChange>>

(* msleep: some time passes.                                               *)
Sleep ==
    /\ pollAt = "sleep" /\ now > turnBegan
    /\ GoOn("test")
    /\ UNCHANGED <<turnBegan, shown, lastCount, lastChange, accepted>>

LastEvents ==
    /\ pollAt = "lastEvents"
    /\ shown' = ready
    /\ accepted' = (shown' = expected)
    /\ GoOn("ended")
    /\ UNCHANGED <<turnBegan, lastCount, lastChange>>

PollStep == TestLoop \/ ProcessEvents \/ Compare \/ Settle \/ Sleep \/ LastEvents

PollNext == Find \/ Tick \/ PollStep

PollFairness == WF_pollVars(PollStep) /\ WF_pollVars(Tick)

PollSpec == PollInit /\ [][PollNext]_pollVars /\ PollFairness

-----------------------------------------------------------------------------
(* Properties.                                                             *)

(* The last window was a quiet one: what is shown was found before it, and *)
(* what is not was found after the last turn of the loop had begun.        *)
WindowWasQuiet ==
    /\ \A i \in 1 .. shown : foundAt[i] + StableWindow <= now
    /\ \A i \in shown + 1 .. ready : foundAt[i] >= turnBegan

(* A search whose hits have settled was quiet for a whole window: no hit   *)
(* that came in time is missed, and none that is counted came within the   *)
(* window, however long the turns of the loop take; where a number is      *)
(* expected, that many are shown.  A wait for a number counts all that has *)
(* been found when it ends, even as the time runs out, and succeeds with   *)
(* exactly that number.  No wait gives up before its timeout.              *)
OnlyLateHitsAreMissed ==
    pollAt = "ended" =>
        IF waitsFor = "all"
        THEN /\ shown = ready
             /\ accepted <=> shown = expected
             /\ shown < expected => now >= Timeout
        ELSE /\ accepted => WindowWasQuiet /\ CountMatches
             /\ ~accepted => now >= Timeout
=============================================================================
