-------------------------- MODULE MCLiveFinalization --------------------------
(***************************************************************************)
(* Instances of LiveFinalization for TLC.  The goroutines that run rounds  *)
(* are interchangeable.                                                    *)
(***************************************************************************)
EXTENDS LiveFinalization, TLC

Symmetry == Permutations(Slots)

\* Two attempts, or one attempt with a fault or a restart.
TwoTroubles == attempts + faults + crashes <= 2 /\ faults <= attempts

\* Finals left for another try make no difference to a finalization.  Restarts
\* and a planning still under way are combined with one final only.
Plain ==
    /\ \A r \in Slots : round[r].next.retry = NoRetry
    /\ 1 \in stored \/ fin.upTo = 1 =>
          /\ crashes = 0 /\ recovery.pc = "idle"
          /\ attempts > 0 => context = "ready"

Bounded == TwoTroubles /\ Plain
=============================================================================
