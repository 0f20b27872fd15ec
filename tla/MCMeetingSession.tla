-------------------------- MODULE MCMeetingSession --------------------------
(***************************************************************************)
(* Instances of MeetingSession for TLC.  Sessions and workers are model    *)
(* values; ids and goroutines are interchangeable in the safety runs.      *)
(***************************************************************************)
EXTENDS MeetingSession, TLC

Symmetry == Permutations(Sessions) \cup Permutations(Workers)

\* The bot reports that differ in effect: the call runs, is over, has failed.
ReportsOfACall == {"recording", "ended", "failed"}

\* Fewer reports for the runs with two sessions and for liveness: the report
\* that the call runs, and the one that it is over.
ReportsInCall == {"recording", "ended"}
ReportsRecording == {"recording"}

\* One disturbance per behaviour: a failing statement or a restart.
OneDisturbance == faults + crashes <= 1

\* What a restart leaves: rows in any stage and bots, but no goroutine.  The
\* liveness run starts from these states, which stand for every restart.
AfterRestart ==
    /\ row \in [Sessions -> {"unborn", "command_sent", "recording", "ending"}]
    /\ bot \in [Sessions -> {"none", "live", "gone"}]
    /\ \A s \in Sessions : row[s] = "unborn" <=> bot[s] = "none"
    /\ seen = [s \in Sessions |-> IF bot[s] = "none" THEN "never" ELSE "fresh"]
    /\ old = [s \in Sessions |-> FALSE]
    /\ analyses = [s \in Sessions |-> FALSE]
    /\ proc = [p \in Procs |-> Idle]
    /\ fin = [s \in Sessions |-> "none"]
    /\ todo = {}
    /\ faults = 0 /\ crashes = 0

FairAfterRestart == AfterRestart /\ [][Next]_vars /\ Fairness
=============================================================================
