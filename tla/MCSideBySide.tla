----------------------------- MODULE MCSideBySide -----------------------------
(***************************************************************************)
(* Three graphs in one run: two sessions of one meeting, the discussion    *)
(* tree, and one browser with goroutines that append its events and a      *)
(* reset under both.  They share no state; the initial state chooses one,  *)
(* and the others keep their initial state.                                *)
(***************************************************************************)
EXTENDS MCMeetingSession, DiscussionTree, EventHub

VARIABLE subject

allVars == <<vars, treeVars, eventVars, subject>>

SideInit == Init /\ TreeInit /\ EventInit /\ subject \in {"sessions", "tree", "events"}

SideNext ==
    \/ subject = "sessions" /\ Next /\ UNCHANGED <<subject, treeVars, eventVars>>
    \/ subject = "tree" /\ TreeNext /\ UNCHANGED <<subject, vars, eventVars>>
    \/ subject = "events" /\ EventNext /\ UNCHANGED <<subject, vars, treeVars>>

SideSpec == SideInit /\ [][SideNext]_allVars

\* No definition tells one session, worker, item or appender from another.  The
\* appenders are the workers' values, so that one permutation serves both.
Alike == Symmetry \cup Permutations(Items)
=============================================================================
