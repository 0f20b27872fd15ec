--------------------------- MODULE MCLiveAnalysis ---------------------------
(***************************************************************************)
(* Instances of LiveAnalysis for TLC.  The goroutines that run rounds are  *)
(* interchangeable.                                                        *)
(***************************************************************************)
EXTENDS LiveAnalysis, TLC

Symmetry == Permutations(Slots)

\* One disturbance per behaviour: a fault, a restart, or the end of the session.
OneDisturbance == faults + crashes + (IF session = "closed" THEN 1 ELSE 0) <= 1
=============================================================================
