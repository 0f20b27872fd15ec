-------------------------- MODULE CoverageRegister --------------------------
(***************************************************************************)
(* What the live analysis of a meeting promises: a versioned register of   *)
(* the final transcripts the analysis has seen.  Every new version is the  *)
(* previous one plus one round of stored finals; a reorganization of the   *)
(* tree is a round that adds none.  Nothing a version covers is ever lost  *)
(* and no version is written twice.                                        *)
(***************************************************************************)
EXTENDS Naturals

CONSTANT Segs        \* the final transcripts of one meeting

VARIABLES
    stored,   \* finals committed to the transcript table
    version,  \* version of the persisted analysis, 0 before the first
    covered   \* finals the persisted analysis has seen

vars == <<stored, version, covered>>

Init ==
    /\ stored = {}
    /\ version = 0
    /\ covered = {}

Store(s) ==
    /\ stored' = stored \cup {s}
    /\ UNCHANGED <<version, covered>>

Advance(round) ==
    /\ version' = version + 1
    /\ covered' = covered \cup round
    /\ UNCHANGED stored

Next == \/ \E s \in Segs : Store(s)
        \/ \E round \in SUBSET stored : Advance(round)

Spec == Init /\ [][Next]_vars
=============================================================================
