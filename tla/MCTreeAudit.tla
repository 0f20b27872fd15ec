----------------------------- MODULE MCTreeAudit -----------------------------
(***************************************************************************)
(* Instances of TreeAudit for TLC.                                         *)
(***************************************************************************)
EXTENDS TreeAudit

\* A fault, a restart, an hour that passes or a final that arrives.
OneDisturbance ==
    heard + faults + crashes + (IF \A i \in DOMAIN runs : runs[i].recent THEN 0 ELSE 1) <= 1
=============================================================================
