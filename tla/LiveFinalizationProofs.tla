------------------------ MODULE LiveFinalizationProofs ------------------------
(***************************************************************************)
(* Proofs about the finalization, for any number of finals, rounds,        *)
(* attempts, failing statements and restarts.  The steps of the live       *)
(* analysis are those of LiveAnalysis, whose lemmas are used here.         *)
(***************************************************************************)
EXTENDS LiveFinalization, LiveAnalysisProofs, FiniteSetTheorems

-----------------------------------------------------------------------------
(* The largest final of a set. *)

\* Of the finals above each of a set, the fewest are above the largest.
LEMMA LargestExists ==
  ASSUME NEW segs \in SUBSET Segs, segs # {}
  PROVE  \E s \in segs : ~ \E t \in segs : t > s
  <1> DEFINE Above(s) == {t \in Segs : t > s}
             Sets == {Above(s) : s \in segs}
  <1>1. IsFiniteSet(Segs)
    BY ConstantsAssumption, FS_Interval DEF Segs
  <1>2. IsWellFoundedOn(StrictSubsetOrdering(Segs), SUBSET Segs)
    BY <1>1, FS_StrictSubsetOrderingWellFounded, FS_FiniteSubsetsOfFinite
  <1>3. Sets \subseteq SUBSET Segs /\ Sets # {}
    OBVIOUS
  <1>4. PICK x \in Sets : \A y \in Sets : <<y, x>> \notin StrictSubsetOrdering(Segs)
    <2> HIDE DEF Sets
    <2> QED
      BY <1>2, <1>3, WFMin
  <1>5. PICK s \in segs : x = Above(s)
    BY <1>4
  <1>6. ASSUME NEW t \in segs, t > s PROVE FALSE
    <2>1. Above(t) \subseteq Above(s)
      BY <1>6, ConstantsAssumption DEF Segs
    <2>2. t \in Above(s) /\ t \notin Above(t)
      BY <1>6, ConstantsAssumption DEF Segs
    <2>3. <<Above(t), Above(s)>> \in StrictSubsetOrdering(Segs)
      BY <2>1, <2>2 DEF StrictSubsetOrdering
    <2> QED
      BY <2>3, <1>4, <1>5
  <1> QED
    BY <1>6

LEMMA ThroughType ==
  ASSUME NEW segs \in SUBSET Segs
  PROVE  Through(segs) \in 0..N
  <1>1. CASE segs = {}
    BY <1>1, ConstantsAssumption DEF Through
  <1>2. CASE segs # {}
    <2>1. \E s \in segs : ~ \E t \in segs : t > s
      BY <1>2, LargestExists
    <2>2. Through(segs) \in segs
      BY <1>2, <2>1 DEF Through
    <2>3. Through(segs) \in Segs
      BY <2>2
    <2> QED
      BY <2>3, ConstantsAssumption DEF Segs
  <1> QED
    BY <1>1, <1>2

-----------------------------------------------------------------------------
(* Types. *)

\* The tries of a flush are counted from the plan on, and stay in their bound.
TriesBounded ==
    /\ fin.pc \in {"start", "barrier", "enter", "await", "list", "read", "adopt"} => fin.tries = 0
    /\ fin.pc = "plan" => fin.tries < MaxFlushes
    /\ fin.pc = "flush" => fin.flush \in Slots

FTypes == FinalizationTypeOK /\ TriesBounded

LEMMA NoFinalizerType == NoFinalizer \in Finalizer
  <1>1. Empty \in Snapshot
    BY DEF Snapshot, Empty, NoRetry
  <1>2. 0 \in 0..N /\ 0 \in 0..MaxFlushes
    BY ConstantsAssumption, FinalizationAssumption
  <1> QED
    BY <1>1, <1>2 DEF NoFinalizer, Finalizer, FinPCs

LEMMA GoalType ==
  ASSUME fin \in Finalizer
  PROVE  Goal \in 0..N
  <1>1. fin.snap.done \in SUBSET Segs /\ fin.target \in 0..N
    BY DEF Finalizer, Snapshot
  <1> QED
    BY <1>1, ThroughType DEF Goal

\* What a stage makes of the goroutine's locals.
LEMMA FinalizerStep ==
  ASSUME FTypes, FinStep
  PROVE  fin' \in Finalizer /\ TriesBounded'
  <1>0. fin \in Finalizer /\ TriesBounded /\ TypeOK
    BY DEF FTypes, FinalizationTypeOK
  <1>p. /\ {"leave", "barrier", "enter", "await", "list", "read", "adopt", "plan"} \subseteq FinPCs
        /\ {"readopt", "open", "reread", "flush", "complete", "project"} \subseteq FinPCs
        /\ {"fail", "remember", "summarize", "save"} \subseteq FinPCs
    BY DEF FinPCs
  <1> USE DEF FinAt, FinGoto
  <1>1. CASE FinStarts
    <2>1. fin' \in Finalizer
      BY <1>0, <1>p, <1>1 DEF FinStarts, Finalizer
    <2>2. TriesBounded'
      BY <1>0, <1>1 DEF FinStarts, Finalizer, TriesBounded
    <2> QED
      BY <2>1, <2>2
  <1>2. CASE FinRaisesBarrier
    <2>1. fin' \in Finalizer
      BY <1>0, <1>p, <1>2 DEF FinRaisesBarrier, Finalizer
    <2>2. TriesBounded'
      BY <1>0, <1>2 DEF FinRaisesBarrier, Finalizer, TriesBounded
    <2> QED
      BY <2>1, <2>2
  <1>3. CASE FinEntersWait
    <2>1. fin' \in Finalizer
      <3>1. owner \in Slots \cup {NoRound}
        BY <1>0 DEF TypeOK
      <3> QED
        BY <1>0, <1>p, <1>3, <3>1 DEF FinEntersWait, Finalizer
    <2>2. TriesBounded'
      BY <1>0, <1>3 DEF FinEntersWait, Finalizer, TriesBounded
    <2> QED
      BY <2>1, <2>2
  <1>4. CASE FinAwaits
    <2>1. fin' \in Finalizer
      BY <1>0, <1>p, <1>4 DEF FinAwaits, Finalizer
    <2>2. TriesBounded'
      BY <1>0, <1>4 DEF FinAwaits, Finalizer, TriesBounded
    <2> QED
      BY <2>1, <2>2
  <1>5. CASE FinGivesUpRound
    <2>1. fin' \in Finalizer
      BY <1>0, <1>p, <1>5 DEF FinGivesUpRound, Finalizer
    <2>2. TriesBounded'
      BY <1>0, <1>5 DEF FinGivesUpRound, Finalizer, TriesBounded
    <2> QED
      BY <2>1, <2>2
  <1>6. CASE FinLists
    <2>1. PICK segs \in SUBSET Segs, target \in 0..N, gap \in BOOLEAN, blind \in BOOLEAN :
             fin' = [fin EXCEPT !.pc = "read", !.upTo = 0, !.segs = segs,
                                !.target = target, !.gap = gap, !.blind = blind]
      <3>1. stored \in SUBSET Segs /\ fin.upTo \in 0..N /\ fin.gap \in BOOLEAN
        BY <1>0 DEF TypeOK, Finalizer
      <3>2. Through(stored) \in 0..N
        BY <3>1, ThroughType
      <3>3. \A t \in 0..N : {s \in stored : s <= t} \in SUBSET Segs
        BY <3>1
      <3>4. CASE \E segs \in SUBSET Segs, target \in 0..N, gap \in BOOLEAN :
                   Listed(segs, target, gap)
        <4>0. PICK segs \in SUBSET Segs, target \in 0..N, gap \in BOOLEAN :
                 Listed(segs, target, gap)
          BY <3>4
        <4>1. fin' = [fin EXCEPT !.pc = "read", !.upTo = 0, !.segs = segs, !.target = target,
                                 !.gap = fin.gap \/ gap, !.blind = fin.blind]
          BY <1>0, <4>0 DEF Listed, Finalizer
        <4>2. (fin.gap \/ gap) \in BOOLEAN /\ fin.blind \in BOOLEAN
          BY <1>0 DEF Finalizer
        <4> QED
          BY <4>1, <4>2
      <3>5. CASE fin' = [fin EXCEPT !.pc = "read", !.upTo = 0, !.target = fin.upTo,
                                    !.gap = TRUE, !.blind = TRUE]
        <4>1. fin' = [fin EXCEPT !.pc = "read", !.upTo = 0, !.segs = fin.segs,
                                 !.target = fin.upTo, !.gap = TRUE, !.blind = TRUE]
          BY <1>0, <3>5 DEF Finalizer
        <4>2. fin.segs \in SUBSET Segs
          BY <1>0 DEF Finalizer
        <4> QED
          BY <3>1, <4>1, <4>2
      <3> QED
        BY <1>6, <3>1, <3>2, <3>3, <3>4, <3>5 DEF FinLists
    <2>2. 0 \in 0..N /\ fin.pc = "list"
      BY <1>6, ConstantsAssumption DEF FinLists
    <2>3. fin' \in Finalizer
      BY <1>0, <1>p, <2>1, <2>2 DEF Finalizer
    <2>4. TriesBounded'
      BY <1>0, <2>1, <2>2 DEF Finalizer, TriesBounded
    <2> QED
      BY <2>3, <2>4
  <1>7. CASE FinReadsRow
    <2>1. live \in Snapshot /\ last \in Snapshot /\ Took(live) \in Snapshot
            /\ Took(last) \in Snapshot
      BY <1>0 DEF TypeOK, Finalizer, Took
    <2>2. ASSUME NEW pc \in {"read", "reread"}, NEW adopt \in {"adopt", "readopt"},
                 NEW next \in {"plan", "open"}, FinReads(pc, adopt, next),
                 pc = "reread" => adopt = "readopt" /\ next = "open"
          PROVE  fin' \in Finalizer /\ TriesBounded'
      <3>0. /\ fin.pc = pc
            /\ \/ fin' = [fin EXCEPT !.pc = adopt, !.got = live, !.snap = Took(live)]
               \/ fin' = [fin EXCEPT !.pc = next, !.snap = Took(last)]
        BY <2>2 DEF FinReads
      <3>p. adopt \in FinPCs /\ next \in FinPCs
        BY <1>p
      <3>1. fin' \in Finalizer
        <4>1. CASE fin' = [fin EXCEPT !.pc = adopt, !.got = live, !.snap = Took(live)]
          BY <1>0, <2>1, <3>p, <4>1 DEF Finalizer
        <4>2. CASE fin' = [fin EXCEPT !.pc = next, !.snap = Took(last)]
          BY <1>0, <2>1, <3>p, <4>2 DEF Finalizer
        <4> QED
          BY <3>0, <4>1, <4>2
      <3>f. fin'.tries = fin.tries /\ fin'.pc \in {adopt, next} /\ fin'.flush = fin.flush
        BY <1>0, <3>0 DEF Finalizer
      <3>2. TriesBounded'
        BY <1>0, <2>2, <3>0, <3>f, FinalizationAssumption DEF TriesBounded
      <3> QED
        BY <3>1, <3>2
    <2> QED
      BY <1>7, <2>2 DEF FinReadsRow
  <1>8. CASE FinAdoptsRow
    <2>1. Empty \in Snapshot
      BY DEF Snapshot, Empty, NoRetry
    <2>2. ASSUME NEW pc \in {"adopt", "readopt"}, NEW next \in {"plan", "open"},
                 FinAdopts(pc, next), pc = "readopt" => next = "open"
          PROVE  fin' \in Finalizer /\ TriesBounded'
      <3>1. fin' \in Finalizer
        BY <1>0, <1>p, <2>1, <2>2 DEF FinAdopts, Finalizer
      <3>2. TriesBounded'
        BY <1>0, <2>2, FinalizationAssumption DEF FinAdopts, Finalizer, TriesBounded
      <3> QED
        BY <3>1, <3>2
    <2> QED
      BY <1>8, <2>2 DEF FinAdoptsRow
  <1>9. CASE FinPlansNoFlush
    <2>1. fin' \in Finalizer
      BY <1>0, <1>p, <1>9, GoalType DEF FinPlansNoFlush, Finalizer
    <2>2. TriesBounded'
      BY <1>0, <1>9 DEF FinPlansNoFlush, Finalizer, TriesBounded
    <2> QED
      BY <2>1, <2>2
  <1>10. CASE \E r \in Slots : FinFlushes(r)
    <2>0. fin.tries + 1 \in 0..MaxFlushes
      BY <1>0, <1>10, FinalizationAssumption DEF FinFlushes, Finalizer, TriesBounded
    <2>f. PICK r \in Slots : fin' = [fin EXCEPT !.pc = "flush", !.flush = r,
                                       !.tries = fin.tries + 1, !.schema = FALSE]
      BY <1>0, <1>10 DEF FinFlushes, Finalizer
    <2>1. fin' \in Finalizer
      BY <1>0, <1>p, <2>f, <2>0 DEF Finalizer
    <2>2. TriesBounded'
      BY <1>0, <1>10 DEF FinFlushes, Finalizer, TriesBounded
    <2> QED
      BY <2>1, <2>2
  <1>11. CASE FinOpensSummary
    <2>0. Uncovered \in BOOLEAN
      BY <1>0 DEF Uncovered, Finalizer
    <2>1. fin' \in Finalizer
      <3>1. CASE fin' = [fin EXCEPT !.pc = "complete", !.gap = Uncovered, !.late = FALSE]
        BY <1>0, <1>p, <2>0, <3>1 DEF Finalizer
      <3>2. CASE fin' = [fin EXCEPT !.pc = "project", !.gap = Uncovered, !.late = FALSE,
                                    !.blind = FALSE]
        BY <1>0, <1>p, <2>0, <3>2 DEF Finalizer
      <3>3. CASE fin' = [fin EXCEPT !.pc = "fail"]
        BY <1>0, <1>p, <3>3 DEF Finalizer
      <3> QED
        BY <1>11, <3>1, <3>2, <3>3 DEF FinOpensSummary
    <2>2. TriesBounded'
      BY <1>0, <1>11 DEF FinOpensSummary, Finalizer, TriesBounded
    <2> QED
      BY <2>1, <2>2
  <1>12. CASE FinProjects
    <2>0. \E pc \in {"remember", "summarize", "project"}, pass \in 1..2 :
               fin' = [fin EXCEPT !.pc = pc, !.pass = pass]
      <3>1. fin.pass \in 1..2 /\ [fin EXCEPT !.pass = fin.pass] = fin
        BY <1>0 DEF Finalizer
      <3>2. \A pc : [fin EXCEPT !.pc = pc] = [fin EXCEPT !.pc = pc, !.pass = fin.pass]
        BY <1>0 DEF Finalizer
      <3>3. CASE fin' = Unprojected
        <4>1. \/ fin' = [fin EXCEPT !.pc = "project", !.pass = 2]
              \/ fin' = [fin EXCEPT !.pc = "summarize", !.pass = 2]
          BY <3>3 DEF Unprojected
        <4> QED
          BY <4>1
      <3> QED
        BY <1>12, <3>1, <3>2, <3>3 DEF FinProjects
    <2>1. fin' \in Finalizer
      <3>1. PICK pc \in {"remember", "summarize", "project"}, pass \in 1..2 :
               fin' = [fin EXCEPT !.pc = pc, !.pass = pass]
        BY <2>0
      <3>2. pc \in FinPCs
        BY <1>p
      <3> QED
        BY <1>0, <3>1, <3>2 DEF Finalizer
    <2>2. TriesBounded'
      BY <1>0, <2>0 DEF Finalizer, TriesBounded
    <2> QED
      BY <2>1, <2>2
  <1>13. CASE FinRemembers
    <2>0. PICK pc \in {"project", "save"} :
               fin' = [fin EXCEPT !.pc = pc, !.pass = 2]
      BY <1>13 DEF FinRemembers
    <2>p. pc \in FinPCs
      BY <1>p
    <2>1. fin' \in Finalizer
      <3>1. 2 \in 1..2
        OBVIOUS
      <3> QED
        BY <1>0, <2>p, <2>0, <3>1 DEF Finalizer
    <2>2. TriesBounded'
      BY <1>0, <1>13 DEF FinRemembers, Finalizer, TriesBounded
    <2> QED
      BY <2>1, <2>2
  <1>14. CASE FinSavesTree
    <2>0. \/ fin' = [fin EXCEPT !.pc = "summarize", !.saved = TRUE]
          \/ fin' = [fin EXCEPT !.pc = "summarize"]
      BY <1>14 DEF FinSavesTree
    <2>1. fin' \in Finalizer
      BY <1>0, <1>p, <2>0 DEF Finalizer
    <2>2. TriesBounded'
      BY <1>0, <1>14 DEF FinSavesTree, Finalizer, TriesBounded
    <2> QED
      BY <2>1, <2>2
  <1>15. CASE FinSummarizes
    <2>1. fin' \in Finalizer
      BY <1>0, <1>p, <1>15 DEF FinSummarizes, Finalizer
    <2>2. TriesBounded'
      BY <1>0, <1>15 DEF FinSummarizes, Finalizer, TriesBounded
    <2> QED
      BY <2>1, <2>2
  <1>16. CASE FinFails
    <2>1. fin' \in Finalizer
      BY <1>0, <1>p, <1>16 DEF FinFails, Finalizer
    <2>2. TriesBounded'
      BY <1>0, <1>16 DEF FinFails, Finalizer, TriesBounded
    <2> QED
      BY <2>1, <2>2
  <1>17. CASE FinCompletes
    <2>1. fin' \in Finalizer
      BY <1>0, <1>p, <1>17 DEF FinCompletes, Finalizer
    <2>2. TriesBounded'
      BY <1>0, <1>17 DEF FinCompletes, Finalizer, TriesBounded
    <2> QED
      BY <2>1, <2>2
  <1>18. CASE FinLeaves
    BY <1>18, NoFinalizerType DEF FinLeaves, TriesBounded, NoFinalizer
  <1> QED
    BY <1>1, <1>2, <1>3, <1>4, <1>5, <1>6, <1>7, <1>8, <1>9, <1>10, <1>11, <1>12,
       <1>13, <1>14, <1>15, <1>16, <1>17, <1>18 DEF FinStep

\* The rows and flags of the finalization, but for the goroutine itself.
RowsOK ==
    /\ progress \in {"none", "running", "completed", "short", "failed"}
    /\ summary \in {"none", "running", "completed", "failed"}
    /\ tree \subseteq Segs
    /\ projected \in BOOLEAN /\ leaving \in BOOLEAN
    /\ retry \in {"none", "checked", "reopened"}
    /\ attempts \in 0..MaxAttempts

LEMMA FTypeParts ==
    /\ FTypes <=> TypeOK /\ RowsOK /\ fin \in Finalizer /\ TriesBounded
    /\ FTypes' <=> TypeOK' /\ RowsOK' /\ fin' \in Finalizer /\ TriesBounded'
  BY DEF FTypes, FinalizationTypeOK, RowsOK

Clients == FinalizationArrives \/ FinReleasesBarrier \/ RetryArrives \/ RetryStep

LEMMA RowsStep == FTypes /\ (FinStep \/ Clients) => RowsOK'
  <1> SUFFICES ASSUME FTypes, FinStep \/ Clients PROVE RowsOK'
    OBVIOUS
  <1>0. RowsOK /\ fin.snap.done \in SUBSET Segs
    BY FTypeParts DEF Finalizer, Snapshot
  <1>1. CASE FinStep
    <2> USE DEF FinStep, FinStarts, FinRaisesBarrier, FinEntersWait, FinAwaits, FinGivesUpRound,
                FinLists, FinReadsRow, FinReads, FinAdoptsRow, FinAdopts, FinPlansNoFlush,
                FinFlushes, FinOpensSummary, FinProjects, FinRemembers, FinSavesTree,
                FinSummarizes, FinFails, FinCompletes, FinLeaves
    <2>1. progress' \in {"none", "running", "completed", "short", "failed"}
      BY <1>0, <1>1 DEF RowsOK, fdurable
    <2>2. summary' \in {"none", "running", "completed", "failed"}
      BY <1>0, <1>1 DEF RowsOK, fdurable
    <2>3. tree' \subseteq Segs
      BY <1>0, <1>1 DEF RowsOK, fdurable
    <2>4. projected' \in BOOLEAN /\ leaving' \in BOOLEAN
      BY <1>0, <1>1 DEF RowsOK, fdurable
    <2>5. retry' = retry /\ attempts' = attempts
      BY <1>1
    <2> QED
      BY <1>0, <2>1, <2>2, <2>3, <2>4, <2>5 DEF RowsOK
  <1>2. CASE Clients
    <2>1. attempts' \in 0..MaxAttempts
      <3>1. attempts' = attempts \/ (attempts < MaxAttempts /\ attempts' = attempts + 1)
        BY <1>2 DEF Clients, FinalizationArrives, FinReleasesBarrier, RetryArrives, RetryStep,
                    RetryReopens, RetryEnters
      <3> QED
        BY <1>0, <3>1, FinalizationAssumption DEF RowsOK
    <2>2. /\ UNCHANGED fdurable
          /\ leaving' \in {leaving, FALSE}
          /\ retry' \in {retry, "none", "checked", "reopened"}
      BY <1>2 DEF Clients, FinalizationArrives, FinReleasesBarrier, RetryArrives, RetryStep,
                  RetryReopens, RetryEnters
    <2> QED
      BY <1>0, <2>1, <2>2 DEF RowsOK, fdurable
  <1> QED
    BY <1>1, <1>2

\* A step that leaves the live analysis alone.
LEMMA LiveUnchangedTypes == TypeOK /\ LiveUnchanged /\ (Healthy \/ Fault) => TypeOK'
  <1> SUFFICES ASSUME TypeOK, LiveUnchanged, Healthy \/ Fault PROVE TypeOK'
    OBVIOUS
  <1>1. faults' \in 0..MaxFaults /\ crashes' \in 0..MaxCrashes
    BY BoundsType DEF TypeOK
  <1> QED
    BY <1>1 DEF TypeOK, LiveUnchanged, durable, memory

\* What the steps that do not leave it alone change of the live analysis.
LiveEffect ==
    \/ LiveUnchanged /\ (Healthy \/ Fault)
    \/ FinGivesUpRound
    \/ \E r \in Slots : FinFlushes(r)
    \/ /\ UNCHANGED <<stored, session, publishing, memory, recovery, round, booting>>
       /\ live' \in {live, fin.snap} /\ (Healthy \/ Fault)
    \/ /\ UNCHANGED <<durable, publishing, pending, deferred, running, owner, blocked, context,
                      recovery, round, booting, bounds>>
       /\ last' \in {last, fin.got, fin.snap}
       /\ timer' \in {timer, "off"}
       /\ known' = TRUE /\ seeded' \in {seeded, TRUE}
       /\ finalizing' \in {finalizing, TRUE, FALSE} /\ stopped' \in {stopped, TRUE, FALSE}

LEMMA LiveEffects == FinStep \/ Clients => LiveEffect
  <1> SUFFICES ASSUME FinStep \/ Clients PROVE LiveEffect
    OBVIOUS
  <1>1. CASE Clients
    BY <1>1 DEF Clients, FinalizationArrives, FinReleasesBarrier, RetryArrives, RetryStep,
                RetryReopens, RetryEnters, LiveEffect
  <1>2. CASE FinStarts \/ FinEntersWait \/ FinAwaits \/ FinLists \/ FinReadsRow
              \/ FinPlansNoFlush \/ FinOpensSummary \/ FinSavesTree \/ FinSummarizes
              \/ FinFails \/ FinCompletes \/ FinLeaves
    <2>1. LiveUnchanged /\ (Healthy \/ Fault)
      BY <1>2 DEF FinStarts, FinEntersWait, FinAwaits, FinLists, FinReadsRow, FinReads,
         FinPlansNoFlush, FinOpensSummary, FinSavesTree, FinSummarizes, FinFails, FinCompletes,
         FinLeaves
    <2> QED
      BY <2>1 DEF LiveEffect
  <1>3. CASE FinGivesUpRound \/ \E r \in Slots : FinFlushes(r)
    BY <1>3 DEF LiveEffect
  <1>4. CASE FinProjects
    BY <1>4 DEF FinProjects, LiveEffect
  <1>5. CASE FinRaisesBarrier \/ FinAdoptsRow \/ FinRemembers
    BY <1>5 DEF FinRaisesBarrier, FinAdoptsRow, FinAdopts, FinRemembers, LiveEffect
  <1> QED
    BY <1>1, <1>2, <1>3, <1>4, <1>5 DEF FinStep

LEMMA LiveEffectTypes == FTypes /\ LiveEffect => TypeOK'
  <1> SUFFICES ASSUME FTypes, LiveEffect PROVE TypeOK'
    OBVIOUS
  <1>0. TypeOK /\ fin.got \in Snapshot /\ fin.snap \in Snapshot
    BY FTypeParts DEF Finalizer
  <1>1. CASE LiveUnchanged /\ (Healthy \/ Fault)
    BY <1>0, <1>1, LiveUnchangedTypes
  <1>2. CASE FinGivesUpRound
    <2>1. round' \in [Slots -> Round]
      BY <1>0, <1>2 DEF FinGivesUpRound, TypeOK, Round, At
    <2> QED
      BY <1>0, <1>2, <2>1 DEF FinGivesUpRound, TypeOK, durable, memory, bounds
  <1>3. CASE \E r \in Slots : FinFlushes(r)
    <2>1. PICK r \in Slots : FinFlushes(r)
      BY <1>3
    <2>2. fin.segs \ fin.snap.done \in SUBSET Segs
      BY FTypeParts DEF Finalizer
    <2>3. [IdleRound EXCEPT !.pc = "start", !.segs = fin.segs \ fin.snap.done] \in Round
      BY <2>2, IdleTypes DEF Round, RoundPCs
    <2>4. round' \in [Slots -> Round]
      BY <1>0, <2>1, <2>3 DEF FinFlushes, TypeOK
    <2> QED
      BY <1>0, <2>1, <2>4 DEF FinFlushes, TypeOK, durable, bounds
  <1>4. CASE /\ UNCHANGED <<stored, session, publishing, memory, recovery, round, booting>>
             /\ live' \in {live, fin.snap} /\ (Healthy \/ Fault)
    <2>1. faults' \in 0..MaxFaults /\ crashes' \in 0..MaxCrashes
      BY <1>0, <1>4, BoundsType DEF TypeOK
    <2> QED
      BY <1>0, <1>4, <2>1 DEF TypeOK, memory
  <1>5. CASE /\ UNCHANGED <<durable, publishing, pending, deferred, running, owner, blocked,
                            context, recovery, round, booting, bounds>>
             /\ last' \in {last, fin.got, fin.snap}
             /\ timer' \in {timer, "off"}
             /\ known' = TRUE /\ seeded' \in {seeded, TRUE}
             /\ finalizing' \in {finalizing, TRUE, FALSE}
             /\ stopped' \in {stopped, TRUE, FALSE}
    BY <1>0, <1>5 DEF TypeOK, durable, bounds
  <1> QED
    BY <1>1, <1>2, <1>3, <1>4, <1>5 DEF LiveEffect

LEMMA LiveTypes == FTypes /\ Live => FTypes'
  <1> SUFFICES ASSUME FTypes, Live PROVE FTypes'
    OBVIOUS
  <1>1. TypeOK'
    BY TypeStep DEF Live, Next, FTypes, FinalizationTypeOK
  <1>2. RowsOK'
    BY DEF Live, RowsOK, FTypes, FinalizationTypeOK
  <1>3. fin' \in Finalizer /\ TriesBounded'
    <2>0. fin \in Finalizer /\ TriesBounded
      BY DEF FTypes, FinalizationTypeOK
    <2>1. CASE fin' = fin
      BY <2>0, <2>1 DEF TriesBounded
    <2>2. CASE fin.pc = "flush" /\ fin' = FlushReturns(fin.flush)
      <3>p. {"plan", "reread"} \subseteq FinPCs /\ 0 \in 0..MaxFlushes
        BY FinalizationAssumption DEF FinPCs
      <3>1. CASE /\ fin.tries < MaxFlushes
                 /\ fin' = [fin EXCEPT !.pc = "plan", !.flush = NoRound]
        <4>1. fin' \in Finalizer
          BY <2>0, <3>p, <3>1 DEF Finalizer
        <4> QED
          BY <2>0, <3>1, <4>1 DEF Finalizer, TriesBounded
      <3>2. CASE \E gap \in BOOLEAN :
                    fin' = [fin EXCEPT !.pc = "reread", !.gap = gap, !.flush = NoRound,
                                       !.tries = 0, !.schema = FALSE]
        <4>0. PICK gap \in BOOLEAN :
                 fin' = [fin EXCEPT !.pc = "reread", !.gap = gap, !.flush = NoRound,
                                    !.tries = 0, !.schema = FALSE]
          BY <3>2
        <4>1. fin' \in Finalizer
          BY <2>0, <3>p, <4>0 DEF Finalizer
        <4> QED
          BY <2>0, <3>2, <4>1 DEF Finalizer, TriesBounded
      <3>3. (fin.gap \/ round[fin.flush].pc # "complete") \in BOOLEAN
        OBVIOUS
      <3> QED
        BY <2>2, <3>1, <3>2, <3>3 DEF FlushReturns, Flushed
    <2>3. CASE fin.pc = "flush" /\ fin' = [fin EXCEPT !.schema = blocked']
      <3>1. blocked' \in BOOLEAN
        BY <1>1 DEF TypeOK
      <3> QED
        BY <2>0, <2>3, <3>1 DEF Finalizer, TriesBounded
    <2> QED
      BY <2>1, <2>2, <2>3 DEF Live, FlushWatches, FinAt
  <1> QED
    BY <1>1, <1>2, <1>3, FTypeParts

LEMMA FTypesStep == FTypes /\ [FNext]_fvars => FTypes'
  <1> SUFFICES ASSUME FTypes, [FNext]_fvars PROVE FTypes'
    OBVIOUS
  <1>0. TypeOK /\ RowsOK /\ fin \in Finalizer /\ TriesBounded
    BY FTypeParts
  <1>1. CASE Live
    BY <1>1, LiveTypes
  <1>2. CASE FinStep
    BY <1>2, FinalizerStep, RowsStep, LiveEffects, LiveEffectTypes, FTypeParts
  <1>3. CASE Clients
    <2>1. \/ fin' = fin
          \/ \E t \in 0..N : fin' = [NoFinalizer EXCEPT !.pc = "start", !.upTo = t]
          \/ fin' = [NoFinalizer EXCEPT !.pc = "start"]
      BY <1>3 DEF Clients, FinalizationArrives, FinReleasesBarrier, RetryArrives, RetryStep,
                  RetryReopens, RetryEnters
    <2>2. fin' \in Finalizer
      <3>1. "start" \in FinPCs
        BY DEF FinPCs
      <3>2. CASE \E t \in 0..N : fin' = [NoFinalizer EXCEPT !.pc = "start", !.upTo = t]
        <4>1. PICK t \in 0..N : fin' = [NoFinalizer EXCEPT !.pc = "start", !.upTo = t]
          BY <3>2
        <4> QED
          BY <3>1, <4>1, NoFinalizerType DEF Finalizer
      <3>3. CASE fin' = [NoFinalizer EXCEPT !.pc = "start"]
        BY <3>1, <3>3, NoFinalizerType DEF Finalizer
      <3> QED
        BY <1>0, <2>1, <3>2, <3>3
    <2>3. TriesBounded'
      <3>1. NoFinalizer.tries = 0
        BY DEF NoFinalizer
      <3> QED
        BY <1>0, <2>1, <3>1, NoFinalizerType DEF Finalizer, TriesBounded
    <2> QED
      BY <1>3, <2>2, <2>3, RowsStep, LiveEffects, LiveEffectTypes, FTypeParts
  <1>4. CASE FRestart
    <2>1. TypeOK'
      BY <1>0, <1>4, TypeStep DEF FRestart, Next
    <2>2. TriesBounded'
      BY <1>4 DEF FRestart, TriesBounded, NoFinalizer
    <2> QED
      BY <1>0, <1>4, <2>1, <2>2, NoFinalizerType, FTypeParts DEF FRestart, RowsOK, fdurable
  <1>5. CASE UNCHANGED fvars
    <2>1. TypeOK'
      BY <1>0, <1>5, TypeStep DEF fvars
    <2> QED
      BY <1>0, <1>5, <2>1, FTypeParts DEF fvars, fdurable, fmemory, RowsOK, TriesBounded
  <1> QED
    BY <1>1, <1>2, <1>3, <1>4, <1>5 DEF FNext, Clients

LEMMA FInitTypes == FInit => FTypes
  <1> SUFFICES ASSUME FInit PROVE FTypes
    OBVIOUS
  <1>1. TypeOK
    BY InitType DEF FInit
  <1>2. TriesBounded
    BY DEF FInit, TriesBounded, NoFinalizer
  <1>3. 0 \in 0..MaxAttempts
    BY FinalizationAssumption
  <1>4. RowsOK /\ fin \in Finalizer
    BY <1>3, NoFinalizerType DEF FInit, RowsOK
  <1> QED
    BY <1>1, <1>2, <1>4, FTypeParts

\* Every variable keeps its domain, the goroutine's locals included, and no flush
\* is tried more than finalFlushMaxAttempts times.
THEOREM FinalizationTypeCorrect == FSpec => []FinalizationTypeOK
  <1>1. FTypes => FinalizationTypeOK
    BY DEF FTypes
  <1> QED
    BY FInitTypes, FTypesStep, <1>1, PTL DEF FSpec

-----------------------------------------------------------------------------
(* The rounds in flight. *)

Wanted(r) == InFlight(r) /\ ~round[r].superseded

\* A round that is still wanted has the single-flight flag.
WantedOwnsFlag == \A r \in Slots : Wanted(r) => running /\ owner = r

\* Only a session that is over is finalized.
FinalizedIsClosed ==
    fin.pc # "idle" \/ retry # "none" \/ projected => session = "closed"

\* From the list of the finals to the terminal row.
Sealed == {"list", "read", "adopt", "plan", "flush", "reread", "readopt", "open", "project",
           "remember", "save", "summarize", "fail", "complete"}

\* Once the barrier was raised, no callback finds that it may seal a round; a
\* retry that lowers the barrier does not change that.
NothingDispatched ==
    fin.pc \in {"enter", "await"} \/ fin.pc \in Sealed \/ projected => timer # "allowed"

\* The flag does not change hands while the round in flight is awaited.
AwaitsOwner == fin.pc = "await" => owner = fin.flush

\* After the wait, only the flush has a round that is wanted.
OnlyFlushWanted ==
    fin.pc \in Sealed \/ projected =>
       \A r \in Slots : Wanted(r) => fin.pc = "flush" /\ fin.flush = r

WantedIInv ==
    /\ FTypes
    /\ WantedOwnsFlag /\ FinalizedIsClosed /\ NothingDispatched /\ AwaitsOwner
    /\ OnlyFlushWanted

\* What a step of a round does to the flag and to the mark of a round given up.
GivenUpEffect(r) ==
    /\ \A q \in Slots \ {r} : round'[q] = round[q]
    /\ owner' = owner /\ session' = session /\ timer' \in {timer, "armed", "off"}
    /\ running' = running \/ (owner = r /\ round'[r].pc \in {"idle", "fail"})
    /\ round'[r].pc = "idle" \/ round'[r].superseded = round[r].superseded
    /\ ~InFlight(r) => round'[r].pc \in {"idle", "failStale"}

LEMMA GivenUpEffects ==
  ASSUME TypeOK, NEW r \in Slots, RoundStep(r)
  PROVE  GivenUpEffect(r)
  <1>0. round \in [Slots -> Round] /\ round[r] \in Round /\ running \in BOOLEAN
    BY DEF TypeOK
  <1>t. \A waiting, busy, failed, planning :
           Evaluate(waiting, busy, failed, planning) => timer' \in {timer, "armed", "off"}
    BY DEF Evaluate
  <1>f. Finish(r) => running' = running \/ owner = r
    BY <1>0 DEF Finish
  <1>1. (\A q \in Slots \ {r} : round'[q] = round[q]) /\ FlagEffect(r)
    BY RoundEffects, FlagEffects DEF RoundEffect
  <1>2. session' = session
    BY DEF RoundStep, RoundStarts, RoundLooksUp, RoundSeeds, ProviderAnswers, ProviderFails,
       RoundPersistsFailure, RoundReloadsAfterFailure, RoundChecksBarrier, RoundPersists,
       RoundReloads, RoundReorganizes, RoundCompletes, durable
  <1>3. timer' \in {timer, "armed", "off"}
    BY <1>t DEF RoundStep, RoundStarts, RoundLooksUp, RoundSeeds, ProviderAnswers, ProviderFails,
       RoundPersistsFailure, RoundReloadsAfterFailure, RoundChecksBarrier, RoundPersists,
       RoundReloads, RoundReorganizes, RoundCompletes, memory
  <1>4. running' = running \/ owner = r
    BY <1>f DEF RoundStep, RoundStarts, RoundLooksUp, RoundSeeds, ProviderAnswers, ProviderFails,
       RoundPersistsFailure, RoundReloadsAfterFailure, RoundChecksBarrier, RoundPersists,
       RoundReloads, RoundReorganizes, RoundCompletes, memory
  <1>5. round'[r].pc = "idle" \/ round'[r].superseded = round[r].superseded
    <2> USE DEF Round, IdleRound
    <2>1. CASE RoundStarts(r) \/ RoundLooksUp(r) \/ RoundSeeds(r)
      BY <1>0, <2>1 DEF RoundStarts, RoundLooksUp, RoundSeeds, Goto
    <2>2. CASE ProviderAnswers(r) \/ ProviderFails(r)
      BY <1>0, <2>2 DEF ProviderAnswers, ProviderFails, Goto
    <2>3. CASE RoundPersistsFailure(r) \/ RoundReloadsAfterFailure(r)
      BY <1>0, <2>3 DEF RoundPersistsFailure, RoundReloadsAfterFailure, Goto, Leave
    <2>4. CASE RoundChecksBarrier(r) \/ RoundPersists(r)
      BY <1>0, <2>4 DEF RoundChecksBarrier, RoundPersists, Goto, Leave
    <2>5. CASE RoundReloads(r) \/ RoundCompletes(r)
      BY <1>0, <2>5 DEF RoundReloads, RoundCompletes, Leave
    <2>6. CASE RoundReorganizes(r)
      BY <1>0, <2>6 DEF RoundReorganizes
    <2> QED
      BY <2>1, <2>2, <2>3, <2>4, <2>5, <2>6 DEF RoundStep
  <1> QED
    BY <1>1, <1>2, <1>3, <1>4, <1>5 DEF GivenUpEffect, FlagEffect

\* What a step of the live analysis does to the rounds that are wanted, when the
\* session is over.
WantedEffect ==
    /\ session = "closed" => session' = "closed"
    /\ session = "closed" /\ timer # "allowed" => timer' # "allowed"
    /\ \/ owner' = owner
       \/ timer = "allowed" /\ ~running
    /\ \A q \in Slots : Wanted(q)' =>
          \/ Wanted(q) /\ (running /\ owner = q => running' /\ owner' = q)
          \/ timer = "allowed" /\ ~running /\ running' /\ owner' = q

LEMMA WantedEffects == TypeOK /\ LiveStep => WantedEffect
  <1> SUFFICES ASSUME TypeOK, LiveStep PROVE WantedEffect
    OBVIOUS
  <1>0. round \in [Slots -> Round]
    BY DEF TypeOK
  <1> USE DEF Wanted, InFlight, WantedEffect
  <1>t. \A waiting, busy, failed, planning :
           Evaluate(waiting, busy, failed, planning) => timer' \in {timer, "armed", "off"}
    BY DEF Evaluate
  <1>1. CASE QuietStep
    <2>1. UNCHANGED <<round, running, owner>>
      BY <1>1, QuietSteps
    <2>2. session = "closed" => session' = "closed"
      BY <1>1 DEF QuietStep, IngestStores, PublishTranscriptSegment, ContextPlanned,
         SessionCloses, TimerFires, DispatchTooEarly, DispatchReturns, BootRecovers, vars, durable
    <2>3. session = "closed" /\ timer # "allowed" => timer' # "allowed"
      BY <1>1, <1>t DEF QuietStep, IngestStores, PublishTranscriptSegment, ContextPlanned,
         SessionCloses, TimerFires, DispatchTooEarly, DispatchReturns, BootRecovers, vars, memory
    <2> QED
      BY <2>1, <2>2, <2>3
  <1>2. ASSUME NEW r \in Slots, DispatchSeals(r) PROVE WantedEffect
    <2>1. timer = "allowed" /\ ~running /\ running' /\ owner' = r /\ timer' = "off"
          /\ session' = session
      BY <1>2 DEF DispatchSeals, Sealable, durable
    <2>2. \A q \in Slots \ {r} : round'[q] = round[q]
      BY <1>2, SealEffect
    <2> QED
      BY <2>1, <2>2
  <1>3. ASSUME NEW r \in Slots, RoundStep(r) PROVE WantedEffect
    <2>1. GivenUpEffect(r)
      BY <1>3, GivenUpEffects
    <2>2. ASSUME NEW q \in Slots, Wanted(q)'
          PROVE  Wanted(q) /\ (running /\ owner = q => running' /\ owner' = q)
      <3>1. CASE q = r
        BY <2>1, <2>2, <3>1 DEF GivenUpEffect
      <3>2. CASE q # r
        BY <2>1, <2>2, <3>2 DEF GivenUpEffect
      <3> QED
        BY <3>1, <3>2
    <2> QED
      BY <2>1, <2>2 DEF GivenUpEffect
  <1>4. CASE RecoveryStarts \/ RecoveryStep
    <2>1. UNCHANGED <<round, running, owner>>
      BY <1>4, RecoveryEffects
    <2>2. session' = session /\ timer' \in {timer, "armed", "off"}
      BY <1>4, <1>t DEF RecoveryStarts, RecoveryStep, RecoveryLooksUp, RecoverySeeds,
         RecoveryLists, RecoveryMerges, durable, memory
    <2> QED
      BY <2>1, <2>2
  <1> QED
    BY <1>1, <1>2, <1>3, <1>4 DEF LiveStep, Dispatch, QuietStep

\* Where a stage that neither gives the awaited round up nor starts a flush goes.
StageEffect ==
    /\ UNCHANGED <<round, running, owner, session, retry>>
    /\ timer' \in {timer, "off"}
    /\ \/ fin.pc = "start" /\ fin'.pc \in {"leave", "barrier"}
       \/ fin.pc = "barrier" /\ fin'.pc = "enter" /\ timer' = "off"
       \/ fin.pc = "enter" /\ fin'.pc = "await" /\ fin'.flush = owner
       \/ fin.pc = "enter" /\ fin'.pc = "list" /\ ~running
       \/ fin.pc = "await" /\ fin'.pc = "list" /\ ~(running /\ owner = fin.flush)
       \/ fin.pc \in Sealed \ {"flush"} /\ fin'.pc \in (Sealed \ {"flush"}) \cup {"leave"}
       \/ fin.pc = "leave" /\ fin'.pc = "idle"
    /\ projected' = projected \/ fin.pc = "project"

LEMMA StageEffects ==
  ASSUME fin \in Finalizer, FinStep,
         ~FinGivesUpRound, ~ \E r \in Slots : FinFlushes(r)
  PROVE  StageEffect
  <1> USE DEF StageEffect, FinAt, FinGoto, LiveUnchanged, durable, memory, fdurable, Sealed
  <1>1. CASE FinStarts \/ FinRaisesBarrier
    BY <1>1 DEF FinStarts, FinRaisesBarrier, Finalizer
  <1>2. CASE FinEntersWait
    BY <1>2 DEF FinEntersWait, Finalizer
  <1>3. CASE FinAwaits
    BY <1>3 DEF FinAwaits, AwaitedIsDone, Finalizer
  <1>4. CASE FinLists
    <2>1. fin.pc = "list" /\ fin'.pc = "read"
      BY <1>4 DEF FinLists, Listed, Finalizer
    <2> QED
      BY <1>4, <2>1 DEF FinLists
  <1>5. CASE FinReadsRow
    <2>1. \/ fin.pc = "read" /\ fin'.pc \in {"adopt", "plan"}
          \/ fin.pc = "reread" /\ fin'.pc \in {"readopt", "open"}
      BY <1>5 DEF FinReadsRow, FinReads, Finalizer
    <2> QED
      BY <1>5, <2>1 DEF FinReadsRow, FinReads
  <1>6. CASE FinAdoptsRow
    <2>1. \/ fin.pc = "adopt" /\ fin'.pc = "plan"
          \/ fin.pc = "readopt" /\ fin'.pc = "open"
      BY <1>6 DEF FinAdoptsRow, FinAdopts, Finalizer
    <2> QED
      BY <1>6, <2>1 DEF FinAdoptsRow, FinAdopts
  <1>7. CASE FinPlansNoFlush
    <2>1. fin.pc = "plan" /\ fin'.pc = "reread"
      BY <1>7 DEF FinPlansNoFlush, Finalizer
    <2> QED
      BY <1>7, <2>1 DEF FinPlansNoFlush
  <1>8. CASE FinOpensSummary
    <2>1. fin.pc = "open" /\ fin'.pc \in {"complete", "project", "fail"}
      BY <1>8 DEF FinOpensSummary, Finalizer
    <2> QED
      BY <1>8, <2>1 DEF FinOpensSummary
  <1>9. CASE FinProjects
    <2>1. fin.pc = "project" /\ fin'.pc \in {"remember", "project", "summarize"}
      BY <1>9 DEF FinProjects, Unprojected, Finalizer
    <2> QED
      BY <1>9, <2>1 DEF FinProjects
  <1>10. CASE FinRemembers
    <2>1. fin.pc = "remember" /\ fin'.pc \in {"project", "save"}
      BY <1>10 DEF FinRemembers, Finalizer
    <2> QED
      BY <1>10, <2>1 DEF FinRemembers
  <1>11. CASE FinSavesTree \/ FinSummarizes
    <2>1. \/ fin.pc = "save" /\ fin'.pc = "summarize"
          \/ fin.pc = "summarize" /\ fin'.pc \in {"complete", "fail"}
      BY <1>11 DEF FinSavesTree, FinSummarizes, Finalizer
    <2> QED
      BY <1>11, <2>1 DEF FinSavesTree, FinSummarizes
  <1>12. CASE FinFails \/ FinCompletes
    BY <1>12 DEF FinFails, FinCompletes, Finalizer
  <1>13. CASE FinLeaves
    BY <1>13 DEF FinLeaves, NoFinalizer
  <1> QED
    BY <1>1, <1>2, <1>3, <1>4, <1>5, <1>6, <1>7, <1>8, <1>9, <1>10, <1>11, <1>12, <1>13
    DEF FinStep

\* One conjunct of the invariant at a time would repeat the same cases, so each
\* kind of step keeps them together.
WantedParts == WantedOwnsFlag /\ FinalizedIsClosed /\ NothingDispatched /\ AwaitsOwner
                  /\ OnlyFlushWanted

LEMMA StageKeepsWanted == WantedParts /\ StageEffect => WantedParts'
  <1> SUFFICES ASSUME WantedParts, StageEffect PROVE WantedParts'
    OBVIOUS
  <1>1. \A r \in Slots : Wanted(r)' <=> Wanted(r)
    BY DEF StageEffect, Wanted, InFlight
  <1>2. WantedOwnsFlag'
    BY <1>1 DEF WantedParts, WantedOwnsFlag, StageEffect
  <1>3. FinalizedIsClosed'
    BY DEF WantedParts, FinalizedIsClosed, StageEffect, Sealed
  <1>4. NothingDispatched'
    BY DEF WantedParts, NothingDispatched, StageEffect, Sealed
  <1>5. AwaitsOwner'
    BY DEF WantedParts, AwaitsOwner, StageEffect, Sealed
  <1>6. OnlyFlushWanted'
    <2> SUFFICES ASSUME fin'.pc \in Sealed \/ projected', NEW r \in Slots, Wanted(r)
                 PROVE  FALSE
      BY <1>1 DEF OnlyFlushWanted
    <2>1. running /\ owner = r
      BY DEF WantedParts, WantedOwnsFlag
    <2>2. CASE fin.pc \in Sealed \/ projected
      BY <2>2 DEF WantedParts, OnlyFlushWanted, StageEffect, Sealed
    <2>3. CASE fin.pc \notin Sealed /\ ~projected
      BY <2>1, <2>3 DEF WantedParts, AwaitsOwner, StageEffect, Sealed
    <2> QED
      BY <2>2, <2>3
  <1> QED
    BY <1>2, <1>3, <1>4, <1>5, <1>6 DEF WantedParts

LEMMA GivingUpKeepsWanted ==
    TypeOK /\ WantedParts /\ fin \in Finalizer /\ FinGivesUpRound => WantedParts'
  <1> SUFFICES ASSUME TypeOK, WantedParts, fin \in Finalizer, FinGivesUpRound PROVE WantedParts'
    OBVIOUS
  <1>1. fin.pc = "await" /\ fin'.pc = "list"
    BY DEF FinGivesUpRound, FinAt, Finalizer
  <1>2. \A r \in Slots : ~Wanted(r)'
    BY DEF FinGivesUpRound, Wanted, InFlight, TypeOK, Round, At
  <1>3. UNCHANGED <<session, timer, retry, projected>>
    BY DEF FinGivesUpRound, durable, memory, fdurable
  <1> QED
    BY <1>1, <1>2, <1>3
    DEF WantedParts, WantedOwnsFlag, FinalizedIsClosed, NothingDispatched, AwaitsOwner,
        OnlyFlushWanted, Sealed

LEMMA FlushKeepsWanted ==
  ASSUME TypeOK, WantedParts, fin \in Finalizer, NEW r \in Slots, FinFlushes(r)
  PROVE  WantedParts'
  <1>1. fin.pc = "plan" /\ fin'.pc = "flush" /\ fin'.flush = r
    BY DEF FinFlushes, FinAt, Finalizer
  <1>2. \A q \in Slots : ~Wanted(q)
    BY <1>1 DEF WantedParts, OnlyFlushWanted, Sealed
  <1>3. \A q \in Slots \ {r} : ~Wanted(q)'
    BY <1>2 DEF FinFlushes, Wanted, InFlight, TypeOK
  <1>4. UNCHANGED <<session, timer, retry, projected>> /\ running' /\ owner' = r
    BY DEF FinFlushes, durable, fdurable
  <1> QED
    BY <1>1, <1>3, <1>4
    DEF WantedParts, WantedOwnsFlag, FinalizedIsClosed, NothingDispatched, AwaitsOwner,
        OnlyFlushWanted, Sealed

LEMMA LiveKeepsWanted ==
  ASSUME TypeOK, WantedParts, fin \in Finalizer, TriesBounded, Live
  PROVE  WantedParts'
  <1>0. WantedEffect
    BY WantedEffects DEF Live
  <1>1. /\ UNCHANGED retry
        /\ projected' => projected
        /\ \/ fin'.pc = fin.pc /\ fin'.flush = fin.flush
           \/ fin.pc = "flush" /\ fin'.pc \in {"plan", "reread"} /\ Returns(fin.flush)
    BY DEF Live, FlushWatches, FlushReturns, Flushed, FinAt, Finalizer
  <1>2. WantedOwnsFlag'
    BY <1>0 DEF WantedEffect, WantedParts, WantedOwnsFlag
  <1>3. FinalizedIsClosed'
    BY <1>0, <1>1 DEF WantedEffect, WantedParts, FinalizedIsClosed
  <1>4. NothingDispatched'
    BY <1>0, <1>1 DEF WantedEffect, WantedParts, NothingDispatched, FinalizedIsClosed, Sealed
  <1>5. AwaitsOwner'
    BY <1>0, <1>1 DEF WantedEffect, WantedParts, NothingDispatched, AwaitsOwner
  <1>6. OnlyFlushWanted'
    <2> SUFFICES ASSUME fin'.pc \in Sealed \/ projected', NEW r \in Slots, Wanted(r)'
                 PROVE  fin'.pc = "flush" /\ fin'.flush = r
      BY DEF OnlyFlushWanted
    <2>1. fin.pc \in Sealed \/ projected
      BY <1>1 DEF Sealed
    <2>2. Wanted(r)
      BY <1>0, <2>1 DEF WantedEffect, WantedParts, NothingDispatched
    <2>3. fin.pc = "flush" /\ fin.flush = r
      BY <2>1, <2>2 DEF WantedParts, OnlyFlushWanted
    <2>4. ~Returns(r)
      BY DEF Returns, Wanted, InFlight
    <2> QED
      BY <1>1, <2>3, <2>4
  <1> QED
    BY <1>2, <1>3, <1>4, <1>5, <1>6 DEF WantedParts

LEMMA ClientsKeepWanted == ~RetryOpen /\ WantedParts /\ Clients => WantedParts'
  <1> SUFFICES ASSUME ~RetryOpen, WantedParts, Clients PROVE WantedParts'
    OBVIOUS
  <1>1. UNCHANGED <<round, running, owner, session, projected>> /\ timer' \in {timer, "off"}
    BY DEF Clients, FinalizationArrives, FinReleasesBarrier, RetryArrives, RetryStep,
           RetryReopens, RetryEnters, LiveUnchanged, durable, memory, fdurable
  <1>2. \/ fin' = fin
        \/ fin.pc = "idle" /\ fin'.pc = "start" /\ (session = "closed" \/ retry # "none")
    BY DEF Clients, FinalizationArrives, FinReleasesBarrier, RetryArrives, RetryStep,
           RetryReopens, RetryEnters, FinAt, NoFinalizer
  <1>3. retry' # "none" => retry # "none" \/ session = "closed"
    BY DEF Clients, FinalizationArrives, FinReleasesBarrier, RetryArrives, RetryStep,
           RetryReopens, RetryEnters
  <1>4. \A r \in Slots : Wanted(r)' <=> Wanted(r)
    BY <1>1 DEF Wanted, InFlight
  <1>5. WantedOwnsFlag' /\ AwaitsOwner'
    BY <1>1, <1>2, <1>4 DEF WantedParts, WantedOwnsFlag, AwaitsOwner
  <1>6. FinalizedIsClosed'
    BY <1>1, <1>2, <1>3 DEF WantedParts, FinalizedIsClosed
  <1>7. NothingDispatched'
    BY <1>1, <1>2 DEF WantedParts, NothingDispatched, Sealed
  <1>8. OnlyFlushWanted'
    BY <1>1, <1>2, <1>4 DEF WantedParts, OnlyFlushWanted, Sealed
  <1> QED
    BY <1>5, <1>6, <1>7, <1>8 DEF WantedParts

LEMMA WantedStep == ~RetryOpen /\ WantedIInv /\ [FNext]_fvars => WantedIInv'
  <1> SUFFICES ASSUME ~RetryOpen, WantedIInv, [FNext]_fvars PROVE WantedIInv'
    OBVIOUS
  <1>0. FTypes /\ WantedParts /\ TypeOK /\ fin \in Finalizer /\ TriesBounded
    BY FTypeParts DEF WantedIInv, WantedParts
  <1>1. FTypes'
    BY <1>0, FTypesStep
  <1> SUFFICES WantedParts'
    BY <1>1 DEF WantedIInv, WantedParts
  <1>2. CASE Live
    BY <1>0, <1>2, LiveKeepsWanted
  <1>3. CASE FinStep
    <2>1. CASE FinGivesUpRound
      BY <1>0, <2>1, GivingUpKeepsWanted
    <2>2. CASE \E r \in Slots : FinFlushes(r)
      BY <1>0, <2>2, FlushKeepsWanted
    <2>3. CASE ~FinGivesUpRound /\ ~ \E r \in Slots : FinFlushes(r)
      BY <1>0, <1>3, <2>3, StageEffects, StageKeepsWanted
    <2> QED
      BY <2>1, <2>2, <2>3
  <1>4. CASE Clients
    BY <1>0, <1>4, ClientsKeepWanted
  <1>5. CASE FRestart
    <2>1. \A r \in Slots : ~Wanted(r)'
      BY <1>5, RestartEffect DEF FRestart, Wanted, InFlight
    <2>2. timer' = "off" /\ fin'.pc = "idle" /\ retry' = "none" /\ UNCHANGED <<session, projected>>
      BY <1>5 DEF FRestart, Restart, ForgetMemory, NoFinalizer, durable, fdurable
    <2> QED
      BY <1>0, <2>1, <2>2
      DEF WantedParts, WantedOwnsFlag, FinalizedIsClosed, NothingDispatched, AwaitsOwner,
          OnlyFlushWanted, Sealed
  <1>6. CASE UNCHANGED fvars
    <2>1. \A r \in Slots : Wanted(r)' <=> Wanted(r)
      BY <1>6 DEF fvars, vars, Wanted, InFlight
    <2> QED
      BY <1>0, <1>6, <2>1
      DEF fvars, vars, durable, memory, fdurable, fmemory, WantedParts, WantedOwnsFlag,
          FinalizedIsClosed, NothingDispatched, AwaitsOwner, OnlyFlushWanted, Sealed
  <1> QED
    BY <1>2, <1>3, <1>4, <1>5, <1>6 DEF FNext, Clients

LEMMA WantedInitially == FInit => WantedIInv
  <1> SUFFICES ASSUME FInit PROVE WantedIInv
    OBVIOUS
  <1>1. FTypes
    BY FInitTypes
  <1>2. \A r \in Slots : ~Wanted(r)
    BY DEF FInit, Init, Wanted, InFlight, IdleRound
  <1> QED
    BY <1>1, <1>2
    DEF FInit, NoFinalizer, WantedIInv, WantedOwnsFlag, FinalizedIsClosed, NothingDispatched,
        AwaitsOwner, OnlyFlushWanted, Sealed

\* ai_analysis.go:2145: although the flush takes the flag from a round that was
\* given up, no two rounds that are wanted are in flight, if clients ask for a
\* retry of sessions that are over only.
THEOREM OnlyOneIsWanted ==
  ASSUME ~RetryOpen
  PROVE  FSpec => []OneWantedRound
  <1>1. WantedIInv /\ [FNext]_fvars => WantedIInv'
    BY WantedStep
  <1>2. WantedIInv => OneWantedRound
    BY DEF WantedIInv, WantedOwnsFlag, Wanted, OneWantedRound
  <1> QED
    BY WantedInitially, <1>1, <1>2, PTL DEF FSpec

\* Which round writes over the finalized projection.
LEMMA OnlyUnawaitedWrite ==
  ASSUME ~RetryOpen, WantedIInv, [FNext]_fvars, projected, ~projected'
  PROVE  \E r \in Slots : Unawaited(r) /\ round'[r] # round[r]
  <1>0. TypeOK /\ fin \in Finalizer /\ projected \in BOOLEAN
    BY FTypeParts DEF WantedIInv, RowsOK
  <1>1. Live
    <2>1. CASE FinStep
      BY <2>1 DEF FinStep, FinStarts, FinRaisesBarrier, FinEntersWait, FinAwaits,
         FinGivesUpRound, FinLists, FinReadsRow, FinReads, FinAdoptsRow, FinAdopts,
         FinPlansNoFlush, FinFlushes, FinOpensSummary, FinProjects, FinRemembers, FinSavesTree,
         FinSummarizes, FinFails, FinCompletes, FinLeaves, fdurable
    <2>2. CASE Clients \/ FRestart \/ UNCHANGED fvars
      BY <2>2 DEF Clients, FinalizationArrives, FinReleasesBarrier, RetryArrives, RetryStep,
         RetryReopens, RetryEnters, FRestart, fdurable, fvars
    <2> QED
      BY <2>1, <2>2 DEF FNext, Clients
  <1>2. PICK r \in Slots : RoundWrites(r)
    BY <1>1 DEF Live
  <1>3. CASE At(r, "fail") /\ Returns(r)
    BY <1>3 DEF Unawaited, Returns
  <1>4. CASE live' # live
    <2>1. PICK q \in Slots : RoundStep(q)
      <3>1. ~QuietStep
        BY <1>4, QuietSteps
      <3>2. \A q \in Slots : ~DispatchSeals(q)
        BY <1>0, <1>4, SealEffect
      <3>3. ~(RecoveryStarts \/ RecoveryStep)
        BY <1>0, <1>4, RecoveryEffects
      <3> QED
        BY <1>1, <3>1, <3>2, <3>3 DEF Live, LiveStep, Dispatch, QuietStep
    <2>2. round[q].pc \in {"fail", "persist", "reorganize"}
      BY <1>4, <2>1 DEF RoundStep, RoundStarts, RoundLooksUp, RoundSeeds, ProviderAnswers,
         ProviderFails, RoundPersistsFailure, RoundReloadsAfterFailure, RoundChecksBarrier,
         RoundPersists, RoundReloads, RoundReorganizes, RoundCompletes, At, durable
    <2>3. round'[q].pc # round[q].pc
      <3>0. round \in [Slots -> Round]
        BY <1>0 DEF TypeOK
      <3>1. RoundPersistsFailure(q) \/ RoundPersists(q) \/ RoundReorganizes(q)
        BY <2>1, <2>2 DEF RoundStep, RoundStarts, RoundLooksUp, RoundSeeds, ProviderAnswers,
           ProviderFails, RoundReloadsAfterFailure, RoundChecksBarrier, RoundReloads,
           RoundCompletes, At
      <3> QED
        BY <3>0, <3>1 DEF RoundPersistsFailure, RoundPersists, RoundReorganizes, Goto, Leave,
           IdleRound, Round, At
    <2>4. Unawaited(q)
      BY <2>2 DEF WantedIInv, OnlyFlushWanted, Wanted, InFlight, Unawaited, At
    <2> QED
      BY <2>3, <2>4
  <1> QED
    BY <1>2, <1>3, <1>4 DEF RoundWrites

\* The finalized projection is written over only by a round the barrier gave up
\* on or that had failed before, or by the flush of another attempt
\* (persistFinalizedLiveProjection, awaitSealedLiveRound).
THEOREM ProjectionStays ==
  ASSUME ~RetryOpen
  PROVE  FSpec => ProjectionOutlivesRounds
  <1>1. WantedIInv /\ [FNext]_fvars => WantedIInv'
    BY WantedStep
  <1>2. WantedIInv /\ [FNext]_fvars
           => (projected /\ ~projected' => \E r \in Slots : Unawaited(r) /\ round'[r] # round[r])
    BY OnlyUnawaitedWrite
  <1> QED
    BY WantedInitially, <1>1, <1>2, PTL DEF FSpec, ProjectionOutlivesRounds

-----------------------------------------------------------------------------
(* The first finalization of a session.                                    *)

\* The payloads that the row, memory or a goroutine holds.
KnownSnapshots ==
    {Empty, live, last, recovery.got, fin.snap, fin.got}
       \cup {round[r].base : r \in Slots}
       \cup {round[r].next : r \in {q \in Slots : At(q, "reorganize")}}

\* Of two of them the one of the higher version has seen more.
Ordered ==
    /\ \A x \in KnownSnapshots : x.v = 0 => x = Empty
    /\ \A x, y \in KnownSnapshots : x.v <= y.v => x.done \subseteq y.done

\* And none is ahead of the row.
Chained == Ordered /\ \A x \in KnownSnapshots : Names(x, live)

\* A second one, if it comes, has to be asked for.
OneAttempt ==
    /\ attempts = 0 => fin.pc = "idle" /\ retry = "none" /\ ~leaving
    /\ attempts <= 1 /\ retry # "none" => fin.pc = "idle" /\ ~leaving
    /\ attempts <= 1 /\ fin.pc # "idle" => ~leaving

BeforeProjection == {"start", "barrier", "enter", "await", "list", "read", "adopt", "plan", "flush",
                     "reread", "readopt", "open"}

\* The projection has not been written yet, and will be by this attempt at most.
Unwritten ==
    \/ attempts = 0
    \/ /\ attempts = 1
       /\ \/ retry # "none"
          \/ fin.pc \in BeforeProjection
          \/ fin.pc = "project" /\ fin.pass = 1

\* Until then every write of the row is one of a round that read it as it is.
RowIsChained == Unwritten => IInv /\ Chained

\* No round is sealed after the barrier was raised.
Barred == attempts <= 1 /\ fin.pc \in {"enter", "await"} \cup Sealed => finalizing

\* What the goroutine knows of the finals it listed, whatever the attempt.
ListOK ==
    /\ fin.segs \subseteq stored
    /\ fin.pc \in {"idle", "start", "barrier", "enter", "await"} => ~fin.gap
    /\ ~fin.gap => ~fin.blind /\ (fin.target = 0 => fin.segs = {})
    /\ fin.saved => fin.pc \in {"summarize", "complete", "fail", "leave"} /\ tree = fin.snap.done
    /\ fin.pc \in {"start", "barrier", "enter", "await", "list", "read"} => fin.snap = Empty
    /\ fin.pc = "adopt" => fin.snap.v <= fin.got.v

\* A finalization that gave nothing up has waited for the round in flight.
AllAwaited ==
    Unwritten /\ ~fin.gap =>
       /\ OneRoundInFlight
       /\ fin.pc = "await" => owner = fin.flush
       /\ fin.pc \in Sealed =>
             \A r \in Slots : InFlight(r) => fin.pc = "flush" /\ fin.flush = r

\* The flush round starts from no less than the snapshot the flush was planned
\* with and brings the rest.
FlushBrings(r) ==
    /\ ~At(r, "idle")
    /\ InFlight(r) => round[r].segs = fin.segs \ fin.snap.done
    /\ round[r].pc \in {"call", "check", "persist"} => fin.snap.v <= round[r].base.v
    /\ At(r, "reorganize") => fin.segs \subseteq round[r].next.done
    /\ At(r, "complete") => fin.segs \subseteq round[r].base.done

FlushCovers ==
    Unwritten /\ ~fin.gap =>
       /\ fin.pc \in {"plan", "flush"} => fin.snap.v <= last.v
       /\ fin.pc = "flush" => FlushBrings(fin.flush)
       /\ fin.pc = "reread" => \/ fin.segs \subseteq fin.snap.done
                               \/ fin.segs \subseteq last.done

SnapshotCovers ==
    attempts <= 1 /\ ~fin.gap
       /\ fin.pc \in {"readopt", "open", "project", "remember", "save", "summarize", "complete"}
    => fin.segs \subseteq fin.snap.done

CoverIInv ==
    /\ FTypes
    /\ OneAttempt /\ RowIsChained /\ Barred /\ ListOK
    /\ AllAwaited /\ FlushCovers /\ SnapshotCovers

-----------------------------------------------------------------------------
(* What the stages do to the goroutine's locals.                           *)

\* Where each stage goes.
StageMove ==
    /\ UNCHANGED <<attempts, retry>>
    /\ \/ fin.pc = "start" /\ fin'.pc \in {"leave", "barrier"}
       \/ fin.pc = "barrier" /\ fin'.pc = "enter" /\ finalizing'
       \/ fin.pc = "enter" /\ fin'.pc = "await" /\ fin'.flush = owner
       \/ fin.pc = "enter" /\ fin'.pc = "list" /\ ~running
       \/ fin.pc = "await" /\ fin'.pc = "list"
       \/ fin.pc = "list" /\ fin'.pc = "read"
       \/ fin.pc = "read" /\ fin'.pc \in {"adopt", "plan"}
       \/ fin.pc = "adopt" /\ fin'.pc = "plan"
       \/ fin.pc = "plan" /\ fin'.pc \in {"reread", "flush"}
       \/ fin.pc = "reread" /\ fin'.pc \in {"readopt", "open"}
       \/ fin.pc = "readopt" /\ fin'.pc = "open"
       \/ fin.pc = "open" /\ fin'.pc \in {"complete", "project", "fail"}
       \/ fin.pc = "project" /\ fin'.pc \in {"remember", "summarize"}
       \/ fin.pc = "project" /\ fin'.pc = "project" /\ fin'.pass = 2
       \/ fin.pc = "remember" /\ fin'.pc \in {"project", "save"} /\ fin'.pass = 2
       \/ fin.pc = "save" /\ fin'.pc = "summarize"
       \/ fin.pc = "summarize" /\ fin'.pc \in {"complete", "fail"}
       \/ fin.pc \in {"fail", "complete"} /\ fin'.pc = "leave"
       \/ fin.pc = "leave" /\ fin' = NoFinalizer /\ leaving'

\* What it keeps.  What was given up stays given up.
StageKeeps ==
    /\ stored' = stored
    /\ fin.pc \notin {"barrier"} => finalizing' = finalizing
    /\ fin.pc = "leave" \/ leaving' = leaving
    /\ fin.pc \notin {"read", "reread"} => fin'.snap = fin.snap
    /\ fin.pc \notin {"read", "adopt", "reread", "readopt"} => fin'.got = fin.got
    /\ fin.pc # "list" => fin'.segs = fin.segs
    /\ fin.pc \notin {"list", "plan"} => fin'.target = fin.target
    /\ fin.pc # "list" => fin'.blind = fin.blind \/ ~fin'.blind
    /\ fin.pc # "save" => fin'.saved = fin.saved /\ tree' = tree
    /\ fin.gap => fin'.gap
    /\ fin.pc \in {"start", "barrier", "enter"} => fin'.gap = fin.gap

LEMMA StageLocals ==
  ASSUME FTypes, FinStep
  PROVE  StageMove /\ (fin.pc = "leave" \/ StageKeeps)
  <1>0. fin \in Finalizer
    BY FTypeParts
  <1> USE DEF StageMove, StageKeeps, FinAt, FinGoto, LiveUnchanged, durable, memory, fdurable
  <1>1. CASE FinStarts \/ FinRaisesBarrier
    BY <1>0, <1>1 DEF FinStarts, FinRaisesBarrier, Finalizer
  <1>2. CASE FinEntersWait \/ FinAwaits
    BY <1>0, <1>2 DEF FinEntersWait, FinAwaits, Finalizer
  <1>3. CASE FinGivesUpRound
    BY <1>0, <1>3 DEF FinGivesUpRound, Finalizer
  <1>4. CASE FinLists
    <2>1. fin.pc = "list" /\ fin'.pc = "read" /\ (fin.gap => fin'.gap) /\ fin'.snap = fin.snap
          /\ fin'.got = fin.got /\ fin'.saved = fin.saved
      BY <1>0, <1>4 DEF FinLists, Listed, Finalizer
    <2> QED
      BY <1>4, <2>1 DEF FinLists
  <1>5. CASE FinReadsRow
    <2>1. \/ fin.pc = "read" /\ fin'.pc \in {"adopt", "plan"}
          \/ fin.pc = "reread" /\ fin'.pc \in {"readopt", "open"}
      BY <1>0, <1>5 DEF FinReadsRow, FinReads, Finalizer
    <2>2. fin'.segs = fin.segs /\ fin'.target = fin.target /\ fin'.blind = fin.blind
          /\ fin'.saved = fin.saved /\ fin'.gap = fin.gap
      BY <1>0, <1>5 DEF FinReadsRow, FinReads, Finalizer
    <2> QED
      BY <1>5, <2>1, <2>2 DEF FinReadsRow, FinReads
  <1>6. CASE FinAdoptsRow
    <2>1. \/ fin.pc = "adopt" /\ fin'.pc = "plan"
          \/ fin.pc = "readopt" /\ fin'.pc = "open"
      BY <1>0, <1>6 DEF FinAdoptsRow, FinAdopts, Finalizer
    <2>2. fin'.segs = fin.segs /\ fin'.target = fin.target /\ fin'.blind = fin.blind
          /\ fin'.saved = fin.saved /\ fin'.gap = fin.gap /\ fin'.snap = fin.snap
      BY <1>0, <1>6 DEF FinAdoptsRow, FinAdopts, Finalizer
    <2> QED
      BY <1>6, <2>1, <2>2 DEF FinAdoptsRow, FinAdopts
  <1>7. CASE FinPlansNoFlush
    BY <1>0, <1>7 DEF FinPlansNoFlush, Finalizer
  <1>8. CASE \E r \in Slots : FinFlushes(r)
    BY <1>0, <1>8 DEF FinFlushes, Finalizer
  <1>9. CASE FinOpensSummary
    <2>1. /\ fin.pc = "open" /\ fin'.pc \in {"complete", "project", "fail"}
          /\ fin.gap => fin'.gap
          /\ fin'.blind = fin.blind \/ ~fin'.blind
          /\ fin'.segs = fin.segs /\ fin'.target = fin.target /\ fin'.snap = fin.snap
          /\ fin'.saved = fin.saved /\ fin'.got = fin.got
      BY <1>0, <1>9 DEF FinOpensSummary, Uncovered, Finalizer
    <2> QED
      BY <1>9, <2>1 DEF FinOpensSummary
  <1>10. CASE FinProjects
    <2>1. /\ fin.pc = "project"
          /\ fin'.pc \in {"remember", "summarize"} \/ (fin'.pc = "project" /\ fin'.pass = 2)
          /\ fin'.segs = fin.segs /\ fin'.target = fin.target /\ fin'.blind = fin.blind
          /\ fin'.saved = fin.saved /\ fin'.gap = fin.gap /\ fin'.snap = fin.snap
          /\ fin'.got = fin.got
      BY <1>0, <1>10 DEF FinProjects, Unprojected, Finalizer
    <2> QED
      BY <1>10, <2>1 DEF FinProjects
  <1>11. CASE FinRemembers
    BY <1>0, <1>11 DEF FinRemembers, Finalizer
  <1>12. CASE FinSavesTree
    BY <1>0, <1>12 DEF FinSavesTree, Finalizer
  <1>13. CASE FinSummarizes \/ FinFails \/ FinCompletes
    BY <1>0, <1>13 DEF FinSummarizes, FinFails, FinCompletes, Finalizer
  <1>14. CASE FinLeaves
    BY <1>0, <1>14 DEF FinLeaves
  <1> QED
    BY <1>1, <1>2, <1>3, <1>4, <1>5, <1>6, <1>7, <1>8, <1>9, <1>10, <1>11, <1>12, <1>13, <1>14
    DEF FinStep

\* The steps of the live analysis move the goroutine when its flush returns.
LiveMove ==
    /\ UNCHANGED <<tree, leaving, retry, attempts, finalizing>>
    /\ stored \subseteq stored'
    /\ /\ fin'.snap = fin.snap /\ fin'.got = fin.got /\ fin'.segs = fin.segs
       /\ fin'.target = fin.target /\ fin'.blind = fin.blind /\ fin'.saved = fin.saved
       /\ fin'.pass = fin.pass
       /\ fin.gap => fin'.gap
    /\ \/ fin'.pc = fin.pc /\ fin'.flush = fin.flush /\ fin'.gap = fin.gap
          /\ (fin.pc = "flush" => ~Returns(fin.flush))
       \/ fin.pc = "flush" /\ Returns(fin.flush) /\ fin'.pc = "plan" /\ fin'.gap = fin.gap
          /\ ~At(fin.flush, "complete")
       \/ fin.pc = "flush" /\ Returns(fin.flush) /\ fin'.pc = "reread"
          /\ fin'.gap = (fin.gap \/ ~At(fin.flush, "complete"))

LEMMA LiveLocals ==
  ASSUME FTypes, Live
  PROVE  LiveMove
  <1>0. fin \in Finalizer
    BY FTypeParts
  <1>1. finalizing' = finalizing /\ stored \subseteq stored'
    BY DEF Live, LiveStep, IngestStores, PublishTranscriptSegment, ContextPlanned, SessionCloses,
       TimerFires, DispatchTooEarly, Dispatch, DispatchReturns, DispatchSeals, RoundStep,
       RoundStarts, RoundLooksUp, RoundSeeds, ProviderAnswers, ProviderFails,
       RoundPersistsFailure, RoundReloadsAfterFailure, RoundChecksBarrier, RoundPersists,
       RoundReloads, RoundReorganizes, RoundCompletes, RecoveryStarts, RecoveryStep,
       RecoveryLooksUp, RecoverySeeds, RecoveryLists, RecoveryMerges, BootRecovers, durable, memory
  <1>2. UNCHANGED <<tree, leaving, retry, attempts>>
    BY DEF Live
  <1>3. CASE fin' = fin /\ ~(fin.pc = "flush" /\ Returns(fin.flush))
    BY <1>1, <1>2, <1>3 DEF LiveMove
  <1>4. CASE /\ fin.pc = "flush" /\ ~Returns(fin.flush)
             /\ fin' = [fin EXCEPT !.schema = blocked']
    BY <1>0, <1>1, <1>2, <1>4 DEF LiveMove, Finalizer
  <1>5. CASE fin.pc = "flush" /\ Returns(fin.flush) /\ fin' = FlushReturns(fin.flush)
    BY <1>0, <1>1, <1>2, <1>5 DEF LiveMove, FlushReturns, Flushed, Finalizer, At
  <1> QED
    BY <1>3, <1>4, <1>5 DEF Live, FlushWatches, FinAt

\* What the service, the clients and the end of a finalization do to it.
ClientMove ==
    /\ UNCHANGED <<tree, live, last, recovery, round, running, owner, stored>>
    /\ \/ /\ fin.pc = "idle" /\ retry' = retry /\ leaving' = leaving /\ attempts' = attempts + 1
          /\ fin' = [NoFinalizer EXCEPT !.pc = "start", !.upTo = fin'.upTo]
          /\ finalizing' = finalizing
       \/ /\ leaving /\ ~leaving' /\ UNCHANGED <<fin, retry, attempts>> /\ ~finalizing'
       \/ /\ retry = "none" /\ retry' # "none" /\ attempts' = attempts + 1
          /\ UNCHANGED <<fin, leaving, finalizing>>
       \/ /\ retry # "none" /\ retry' # "none" /\ UNCHANGED <<fin, leaving, attempts>>
       \/ /\ retry # "none" /\ retry' = "none" /\ UNCHANGED <<leaving, attempts, finalizing>>
          /\ fin' = fin \/ fin' = [NoFinalizer EXCEPT !.pc = "start"]
          /\ fin.pc = "idle" => fin' # fin

LEMMA ClientMoves == Clients => ClientMove
  <1> USE DEF ClientMove, LiveUnchanged, durable, memory, fdurable, FinAt
  <1>1. FinalizationArrives => ClientMove
    <2> SUFFICES ASSUME FinalizationArrives PROVE ClientMove
      OBVIOUS
    <2>1. PICK t \in 0..N : fin' = [NoFinalizer EXCEPT !.pc = "start", !.upTo = t]
      BY DEF FinalizationArrives
    <2>2. fin'.upTo = t
      BY <2>1 DEF NoFinalizer
    <2> QED
      BY <2>1, <2>2 DEF FinalizationArrives
  <1>2. FinReleasesBarrier => ClientMove
    BY DEF FinReleasesBarrier
  <1>3. RetryArrives => ClientMove
    BY DEF RetryArrives
  <1>4. RetryReopens => ClientMove
    BY DEF RetryReopens
  <1>5. RetryEnters => ClientMove
    <2>1. [NoFinalizer EXCEPT !.pc = "start"].pc = "start"
      BY DEF NoFinalizer
    <2> QED
      BY <2>1 DEF RetryEnters
  <1> QED
    BY <1>1, <1>2, <1>3, <1>4, <1>5 DEF Clients, RetryStep

-----------------------------------------------------------------------------
(* The invariant is kept, conjunct by conjunct.                            *)

\* Every step is one of these.
LEMMA FinalizationSteps ==
  ASSUME [FNext]_fvars
  PROVE  Live \/ FinStep \/ Clients \/ FRestart \/ UNCHANGED fvars
  BY DEF FNext, Clients

LEMMA OneAttemptStep ==
  ASSUME FTypes, OneAttempt, [FNext]_fvars
  PROVE  OneAttempt'
  <1> USE DEF OneAttempt
  <1>0. attempts \in Nat /\ attempts \in 0..MaxAttempts
    BY FTypeParts, FinalizationAssumption DEF RowsOK
  <1>1. CASE Live
    BY <1>1, LiveLocals DEF LiveMove
  <1>2. CASE FinStep
    <2>1. StageMove /\ (fin.pc = "leave" \/ StageKeeps)
      BY <1>2, StageLocals
    <2>2. fin.pc # "idle"
      BY <2>1 DEF StageMove
    <2>3. UNCHANGED <<attempts, retry>>
      BY <2>1 DEF StageMove
    <2>4. fin'.pc = "idle" \/ leaving' = leaving
      BY <2>1 DEF StageMove, StageKeeps, NoFinalizer
    <2> QED
      BY <1>0, <2>2, <2>3, <2>4
  <1>3. CASE Clients
    <2>1. ClientMove
      BY <1>3, ClientMoves
    <2> QED
      BY <1>0, <2>1 DEF ClientMove, NoFinalizer
  <1>4. CASE FRestart
    BY <1>4 DEF FRestart, NoFinalizer
  <1>5. CASE UNCHANGED fvars
    BY <1>5 DEF fvars, fmemory
  <1> QED
    BY <1>1, <1>2, <1>3, <1>4, <1>5, FinalizationSteps

\* The projection is not unwritten.
LEMMA UnwrittenBefore ==
  ASSUME FTypes, OneAttempt, [FNext]_fvars, Unwritten'
  PROVE  Unwritten
  <1> USE DEF Unwritten, OneAttempt
  <1>0. attempts \in Nat
    BY FTypeParts, FinalizationAssumption DEF RowsOK
  <1>1. CASE Live
    BY <1>1, LiveLocals DEF LiveMove, BeforeProjection
  <1>2. CASE FinStep
    <2>1. StageMove /\ (fin.pc = "leave" \/ StageKeeps)
      BY <1>2, StageLocals
    <2>2. CASE fin.pc = "leave"
      <3>1. fin'.pc = "idle" /\ fin.pc # "idle" /\ UNCHANGED <<attempts, retry>>
        BY <2>1, <2>2 DEF StageMove, NoFinalizer
      <3> QED
        BY <3>1 DEF BeforeProjection
    <2>3. CASE fin.pc # "leave"
      BY <2>1, <2>3 DEF StageMove, StageKeeps, BeforeProjection
    <2> QED
      BY <2>2, <2>3
  <1>3. CASE Clients
    <2>1. ClientMove
      BY <1>3, ClientMoves
    <2> QED
      BY <1>0, <2>1 DEF ClientMove
  <1>4. CASE FRestart
    BY <1>4 DEF FRestart, NoFinalizer, BeforeProjection
  <1>5. CASE UNCHANGED fvars
    BY <1>5 DEF fvars, fmemory
  <1> QED
    BY <1>1, <1>2, <1>3, <1>4, <1>5, FinalizationSteps

LEMMA BarredStep ==
  ASSUME FTypes, OneAttempt, Barred, [FNext]_fvars
  PROVE  Barred'
  <1> USE DEF Barred
  <1>0. attempts \in Nat
    BY FTypeParts, FinalizationAssumption DEF RowsOK
  <1>1. CASE Live
    BY <1>1, LiveLocals DEF LiveMove, Sealed
  <1>2. CASE FinStep
    <2>1. StageMove /\ (fin.pc = "leave" \/ StageKeeps)
      BY <1>2, StageLocals
    <2> QED
      BY <2>1 DEF StageMove, StageKeeps, Sealed, NoFinalizer
  <1>3. CASE Clients
    <2>1. ClientMove
      BY <1>3, ClientMoves
    <2>2. CASE fin' = fin
      BY <1>0, <2>1, <2>2 DEF ClientMove, Sealed, OneAttempt
    <2>3. CASE fin' # fin
      <3>1. fin'.pc = "start"
        BY <2>1, <2>3 DEF ClientMove, NoFinalizer
      <3> QED
        BY <3>1 DEF Sealed
    <2> QED
      BY <2>2, <2>3
  <1>4. CASE FRestart
    BY <1>4 DEF FRestart, NoFinalizer, Sealed
  <1>5. CASE UNCHANGED fvars
    BY <1>5 DEF fvars, fmemory, vars, memory
  <1> QED
    BY <1>1, <1>2, <1>3, <1>4, <1>5, FinalizationSteps

\* A listing that gives nothing up has a target unless nothing is stored.
LEMMA ListingStep ==
  ASSUME FTypes, ListOK, FinLists
  PROVE  fin'.segs \subseteq stored /\ (~fin'.gap => ~fin'.blind /\ (fin'.target = 0 => fin'.segs = {}))
  <1>0. fin \in Finalizer /\ stored \in SUBSET Segs
    BY FTypeParts DEF TypeOK
  <1>1. Through(stored) = 0 => stored = {}
    <2>1. SUFFICES ASSUME stored # {} PROVE Through(stored) \in stored
      BY <1>0, ConstantsAssumption DEF Segs
    <2>2. \E s \in stored : ~ \E t \in stored : t > s
      BY <1>0, <2>1, LargestExists
    <2> QED
      BY <2>1, <2>2 DEF Through
  <1>2. ASSUME NEW segs, NEW target, NEW gap, segs \subseteq stored,
               gap \/ (target = 0 => segs = {}), Listed(segs, target, gap)
        PROVE  fin'.segs \subseteq stored
                 /\ (~fin'.gap => ~fin'.blind /\ (fin'.target = 0 => fin'.segs = {}))
    <2>1. fin'.segs = segs /\ fin'.target = target /\ fin'.blind = fin.blind
            /\ fin'.gap = (fin.gap \/ gap)
      BY <1>0, <1>2 DEF Listed, Finalizer
    <2> QED
      BY <1>2, <2>1 DEF ListOK
  <1>3. CASE fin' = [fin EXCEPT !.pc = "read", !.upTo = 0, !.target = fin.upTo,
                                !.gap = TRUE, !.blind = TRUE]
    <2>1. fin'.segs = fin.segs /\ fin'.gap
      BY <1>0, <1>3 DEF Finalizer
    <2> QED
      BY <2>1 DEF ListOK
  <1>4. CASE Listed(stored, Through(stored), FALSE)
    BY <1>1, <1>2, <1>4
  <1>5. CASE fin.upTo \in stored /\ Listed({s \in stored : s <= fin.upTo}, fin.upTo, FALSE)
    <2>1. fin.upTo # 0
      BY <1>0, <1>5, ConstantsAssumption DEF Segs
    <2> QED
      BY <1>2, <1>5, <2>1
  <1>6. ASSUME NEW t, Listed({s \in stored : s <= t}, t, TRUE)
        PROVE  fin'.segs \subseteq stored
                 /\ (~fin'.gap => ~fin'.blind /\ (fin'.target = 0 => fin'.segs = {}))
    BY <1>2, <1>6
  <1> QED
    BY <1>3, <1>4, <1>5, <1>6 DEF FinLists

\* What a reading takes.
LEMMA ReadingStep ==
  ASSUME FTypes, fin.pc \in {"read", "reread"}, FinStep
  PROVE  /\ UNCHANGED <<live, last>>
         /\ \/ /\ UsesRow /\ fin'.got = live /\ fin'.snap = Took(live)
               /\ fin'.pc = (IF fin.pc = "read" THEN "adopt" ELSE "readopt")
            \/ /\ fin'.got = fin.got /\ fin'.snap = Took(last)
               /\ fin'.pc = (IF fin.pc = "read" THEN "plan" ELSE "open")
  <1>0. fin \in Finalizer
    BY FTypeParts
  <1>1. FinReadsRow
    BY DEF FinStep, FinStarts, FinRaisesBarrier, FinEntersWait, FinAwaits, FinGivesUpRound,
       FinLists, FinAdoptsRow, FinAdopts, FinPlansNoFlush, FinFlushes, FinOpensSummary,
       FinProjects, FinRemembers, FinSavesTree, FinSummarizes, FinFails, FinCompletes, FinLeaves,
       FinAt
  <1>2. FinReads("read", "adopt", "plan") \/ FinReads("reread", "readopt", "open")
    BY <1>1 DEF FinReadsRow
  <1>3. UNCHANGED <<live, last>>
    BY <1>2 DEF FinReads, LiveUnchanged, durable, memory
  <1>4. ASSUME NEW pc, NEW adopt, NEW next, FinReads(pc, adopt, next)
        PROVE  /\ fin.pc = pc
               /\ \/ /\ UsesRow /\ fin'.got = live /\ fin'.snap = Took(live) /\ fin'.pc = adopt
                  \/ /\ fin'.got = fin.got /\ fin'.snap = Took(last) /\ fin'.pc = next
    BY <1>0, <1>4 DEF FinReads, FinAt, Finalizer
  <1>5. CASE FinReads("read", "adopt", "plan")
    <2>1. fin.pc = "read"
      BY <1>5, <1>4
    <2> QED
      BY <1>3, <1>4, <1>5, <2>1
  <1>6. CASE FinReads("reread", "readopt", "open")
    <2>1. fin.pc = "reread"
      BY <1>6, <1>4
    <2> QED
      BY <1>3, <1>4, <1>6, <2>1
  <1> QED
    BY <1>2, <1>5, <1>6

LEMMA ListOKStep ==
  ASSUME FTypes, FTypes', OneAttempt, ListOK, [FNext]_fvars
  PROVE  ListOK'
  <1>0. fin \in Finalizer /\ NoFinalizer.snap = Empty /\ ~NoFinalizer.saved /\ ~NoFinalizer.gap
        /\ NoFinalizer.segs = {} /\ ~NoFinalizer.blind /\ NoFinalizer.pc = "idle"
        /\ live \in Snapshot /\ fin'.snap \in Snapshot /\ fin'.got \in Snapshot
    BY FTypeParts DEF NoFinalizer, Finalizer, TypeOK
  <1>1. CASE Live
    BY <1>1, LiveLocals DEF LiveMove, ListOK
  <1>2. CASE FinStep
    <2>1. StageMove /\ (fin.pc = "leave" \/ StageKeeps)
      BY <1>2, StageLocals
    <2>2. CASE fin.pc = "leave"
      <3>1. fin' = NoFinalizer
        BY <2>1, <2>2 DEF StageMove
      <3> QED
        BY <1>0, <3>1 DEF ListOK
    <2>3. CASE fin.pc = "list"
      <3>1. FinLists
        BY <1>2, <2>3 DEF FinStep, FinStarts, FinRaisesBarrier, FinEntersWait, FinAwaits,
           FinGivesUpRound, FinReadsRow, FinReads, FinAdoptsRow, FinAdopts, FinPlansNoFlush,
           FinFlushes, FinOpensSummary, FinProjects, FinRemembers, FinSavesTree, FinSummarizes,
           FinFails, FinCompletes, FinLeaves, FinAt
      <3> QED
        BY <2>1, <2>3, <3>1, ListingStep DEF StageMove, StageKeeps, ListOK
    <2>4. CASE fin.pc \in {"read", "reread"}
      <3>1. fin.pc = "read" => fin.snap = Empty
        BY DEF ListOK
      <3>2. fin'.pc = "adopt" => fin'.snap.v <= fin'.got.v
        <4>1. SUFFICES ASSUME fin.pc = "read", fin'.got = live, fin'.snap = Took(live)
                       PROVE  fin'.snap.v <= fin'.got.v
          BY <1>2, <2>4, ReadingStep
        <4> QED
          BY <1>0, <3>1, <4>1 DEF Took, Empty, Snapshot
      <3> QED
        BY <2>1, <2>4, <3>2 DEF StageMove, StageKeeps, ListOK
    <2>5. CASE fin.pc = "plan"
      <3>1. fin'.target = fin.target \/ (fin'.target = Goal /\ fin.pc = "plan")
        BY <1>0, <1>2, <2>5 DEF FinStep, FinStarts, FinRaisesBarrier, FinEntersWait, FinAwaits,
           FinGivesUpRound, FinLists, FinReadsRow, FinReads, FinAdoptsRow, FinAdopts,
           FinPlansNoFlush, FinFlushes, FinOpensSummary, FinProjects, FinRemembers, FinSavesTree,
           FinSummarizes, FinFails, FinCompletes, FinLeaves, FinAt, Finalizer
      <3>2. fin.gap = fin'.gap /\ fin'.blind = fin.blind
        BY <1>0, <1>2, <2>5 DEF FinStep, FinStarts, FinRaisesBarrier, FinEntersWait, FinAwaits,
           FinGivesUpRound, FinLists, FinReadsRow, FinReads, FinAdoptsRow, FinAdopts,
           FinPlansNoFlush, FinFlushes, FinOpensSummary, FinProjects, FinRemembers, FinSavesTree,
           FinSummarizes, FinFails, FinCompletes, FinLeaves, FinAt, Finalizer
      <3> QED
        BY <2>1, <2>5, <3>1, <3>2 DEF StageMove, StageKeeps, ListOK, Goal
    <2>6. CASE fin.pc = "save"
      <3>1. FinSavesTree
        BY <1>2, <2>6 DEF FinStep, FinStarts, FinRaisesBarrier, FinEntersWait, FinAwaits,
           FinGivesUpRound, FinLists, FinReadsRow, FinReads, FinAdoptsRow, FinAdopts,
           FinPlansNoFlush, FinFlushes, FinOpensSummary, FinProjects, FinRemembers,
           FinSummarizes, FinFails, FinCompletes, FinLeaves, FinAt
      <3>2. fin'.saved => tree' = fin'.snap.done
        BY <1>0, <2>6, <3>1 DEF FinSavesTree, FinGoto, ListOK, Finalizer
      <3> QED
        BY <2>1, <2>6, <3>2 DEF StageMove, StageKeeps, ListOK
    <2>7. CASE fin.pc \notin {"leave", "list", "read", "reread", "plan", "save"}
      BY <2>1, <2>7 DEF StageMove, StageKeeps, ListOK
    <2> QED
      BY <2>2, <2>3, <2>4, <2>5, <2>6, <2>7
  <1>3. CASE Clients
    <2>1. ClientMove
      BY <1>3, ClientMoves
    <2>2. CASE fin' = fin
      BY <2>1, <2>2 DEF ClientMove, ListOK
    <2>3. CASE fin' # fin
      <3>1. fin'.snap = Empty /\ ~fin'.saved /\ fin'.segs = {} /\ ~fin'.blind /\ fin'.pc = "start"
            /\ ~fin'.gap
        BY <2>1, <2>3 DEF ClientMove, NoFinalizer
      <3> QED
        BY <3>1 DEF ListOK
    <2> QED
      BY <2>2, <2>3
  <1>4. CASE FRestart
    BY <1>0, <1>4 DEF FRestart, ListOK
  <1>5. CASE UNCHANGED fvars
    BY <1>5 DEF fvars, fmemory, fdurable, vars, durable, ListOK
  <1> QED
    BY <1>1, <1>2, <1>3, <1>4, <1>5, FinalizationSteps

\* Payloads are only handed on, and the row only advances.
LEMMA ChainKept ==
  ASSUME IInv, Chained, RowStep, FTypes, FTypes',
         KnownSnapshots' \subseteq KnownSnapshots \cup {live'}
  PROVE  Chained'
  <1>0. /\ live \in Snapshot /\ live' \in Snapshot
        /\ \A x \in KnownSnapshots : x \in Snapshot
    <2>1. TypeOK /\ TypeOK' /\ fin \in Finalizer /\ Empty \in Snapshot
      BY FTypeParts DEF Empty, Snapshot, NoRetry
    <2> QED
      BY <2>1 DEF KnownSnapshots, TypeOK, Finalizer, Recovery, Round
  <1>1. (live' = live \/ live'.v > live.v) /\ live.done \subseteq live'.done
    <2>1. live' = live \/ live'.v > live.v
      BY RowGrows
    <2>2. ASSUME NEW r \in Slots, At(r, "persist"), live = round[r].base, live' = round[r].next
          PROVE  live.done \subseteq live'.done
      BY <2>2 DEF IInv, NextExtendsBase, Extends, At
    <2>3. ASSUME live' = [live EXCEPT !.v = live.v + 1] PROVE live.done \subseteq live'.done
      BY <1>0, <2>3 DEF Snapshot
    <2> QED
      BY <2>1, <2>2, <2>3 DEF RowStep
  <1>2. live \in KnownSnapshots
    BY DEF KnownSnapshots
  <1>3. \A x \in KnownSnapshots : Names(x, live') /\ x.done \subseteq live'.done /\ x.v <= live'.v
    <2> SUFFICES ASSUME NEW x \in KnownSnapshots
                 PROVE  Names(x, live') /\ x.done \subseteq live'.done /\ x.v <= live'.v
      OBVIOUS
    <2>1. Names(x, live) /\ x \in Snapshot /\ x.v <= live.v
      BY <1>0 DEF Chained, Ordered, Names
    <2>2. Names(x, live')
      BY <1>0, <1>1, <2>1, NamesKept
    <2>3. x.done \subseteq live.done
      BY <1>2, <2>1 DEF Chained, Ordered
    <2> QED
      BY <1>1, <2>2, <2>3 DEF Names
  <1>4. \A x \in KnownSnapshots : live'.v <= x.v => live'.done \subseteq x.done
    <2> SUFFICES ASSUME NEW x \in KnownSnapshots, live'.v <= x.v PROVE live'.done \subseteq x.done
      OBVIOUS
    <2>1. Names(x, live') /\ x \in Snapshot
      BY <1>0, <1>3
    <2> QED
      BY <1>0, <2>1 DEF Names, Snapshot
  <1>5. Names(live', live')
    BY <1>0 DEF Names, Snapshot
  <1>6. \A x \in KnownSnapshots' : Names(x, live')
    BY <1>3, <1>5
  <1>7. \A x, y \in KnownSnapshots' : x.v <= y.v => x.done \subseteq y.done
    <2> SUFFICES ASSUME NEW x \in KnownSnapshots', NEW y \in KnownSnapshots', x.v <= y.v
                 PROVE  x.done \subseteq y.done
      OBVIOUS
    <2>1. CASE x \in KnownSnapshots /\ y \in KnownSnapshots
      BY <2>1 DEF Chained, Ordered
    <2>2. CASE y = live'
      BY <1>3, <2>2
    <2>3. CASE x = live' /\ y \in KnownSnapshots
      BY <1>4, <2>3
    <2> QED
      BY <2>1, <2>2, <2>3
  <1>8. \A x \in KnownSnapshots' : x.v = 0 => x = Empty
    <2>1. live'.v = 0 => live' = live
      BY <1>0, <1>1 DEF Snapshot
    <2> QED
      BY <1>2, <2>1 DEF Chained, Ordered
  <1> QED
    BY <1>6, <1>7, <1>8 DEF Chained, Ordered

\* The payloads a step of the live analysis hands on.
LEMMA LiveHandsOn ==
  ASSUME TypeOK, [Next]_vars, fin'.snap \in {fin.snap, Empty}, fin'.got \in {fin.got, Empty}
  PROVE  KnownSnapshots' \subseteq KnownSnapshots \cup {live'}
  <1> DEFINE K == KnownSnapshots \cup {live'}
  <1>0. /\ {Empty, live, last, recovery.got, fin.snap, fin.got, live'} \subseteq K
        /\ \A r \in Slots : round[r].base \in K
        /\ \A r \in Slots : At(r, "reorganize") => round[r].next \in K
    BY DEF KnownSnapshots
  <1> HIDE DEF K
  <1> SUFFICES /\ last' \in K /\ recovery'.got \in K
               /\ \A q \in Slots : round'[q].base \in K
               /\ \A q \in Slots : round'[q].pc = "reorganize" => round'[q].next \in K
    <2>1. fin'.snap \in K /\ fin'.got \in K
      BY <1>0
    <2>2. KnownSnapshots' = {Empty, live', last', recovery'.got, fin'.snap, fin'.got}
                              \cup {round'[r].base : r \in Slots}
                              \cup {round'[r].next : r \in {q \in Slots : round'[q].pc = "reorganize"}}
      BY DEF KnownSnapshots, At
    <2>3. KnownSnapshots' \subseteq K
      BY <1>0, <2>1, <2>2
    <2> QED
      BY <2>3 DEF K
  <1>1. CASE QuietStep
    BY <1>0, <1>1, QuietSteps DEF At
  <1>2. CASE \E r \in Slots : DispatchSeals(r)
    BY <1>0, <1>2, SealEffect DEF At
  <1>3. CASE \E r \in Slots : RoundStep(r)
    BY <1>0, <1>3, RoundEffects DEF RoundEffect, At
  <1>4. CASE RecoveryStarts \/ RecoveryStep
    BY <1>0, <1>4, RecoveryEffects DEF At
  <1>5. CASE Restart
    BY <1>0, <1>5, RestartEffect
  <1> QED
    BY <1>1, <1>2, <1>3, <1>4, <1>5, StepKinds

\* Where a step of the finalization takes its payloads from.
StageHandsOn ==
    /\ fin'.snap \in {fin.snap, live, last, Empty}
    /\ fin'.got \in {fin.got, live, Empty}
    /\ fin.pc = "project" \/ live' = live

LEMMA StagesHandOn ==
  ASSUME FTypes, FinStep \/ Clients
  PROVE  StageHandsOn
  <1>0. fin \in Finalizer /\ NoFinalizer.snap = Empty /\ NoFinalizer.got = Empty
    BY FTypeParts DEF NoFinalizer
  <1>1. CASE Clients
    <2>1. ClientMove
      BY <1>1, ClientMoves
    <2> QED
      BY <1>0, <2>1 DEF ClientMove, StageHandsOn, NoFinalizer
  <1>2. CASE FinStep
    <2>0. StageMove /\ (fin.pc = "leave" \/ StageKeeps)
      BY <1>2, StageLocals
    <2>1. fin'.snap \in {fin.snap, live, last, Empty}
      <3>1. CASE fin.pc = "leave"
        BY <1>0, <2>0, <3>1 DEF StageMove
      <3>2. CASE fin.pc \in {"read", "reread"}
        BY <1>2, <3>2, ReadingStep DEF Took
      <3> QED
        BY <2>0, <3>1, <3>2 DEF StageKeeps
    <2>2. fin'.got \in {fin.got, live, Empty}
      <3>1. CASE fin.pc = "leave"
        BY <1>0, <2>0, <3>1 DEF StageMove
      <3>2. CASE fin.pc \in {"read", "reread"}
        BY <1>2, <3>2, ReadingStep
      <3>3. CASE fin.pc \in {"adopt", "readopt"}
        <4>1. fin'.got = Empty
          BY <1>0, <1>2, <3>3 DEF FinStep, FinStarts, FinRaisesBarrier, FinEntersWait, FinAwaits,
             FinGivesUpRound, FinLists, FinReadsRow, FinReads, FinAdoptsRow, FinAdopts,
             FinPlansNoFlush, FinFlushes, FinOpensSummary, FinProjects, FinRemembers,
             FinSavesTree, FinSummarizes, FinFails, FinCompletes, FinLeaves, FinAt, Finalizer
        <4> QED
          BY <4>1
      <3> QED
        BY <2>0, <3>1, <3>2, <3>3 DEF StageKeeps
    <2>3. fin.pc = "project" \/ live' = live
      BY <1>2, LiveEffects DEF FinStep, FinStarts, FinRaisesBarrier, FinEntersWait, FinAwaits,
         FinGivesUpRound, FinLists, FinReadsRow, FinReads, FinAdoptsRow, FinAdopts,
         FinPlansNoFlush, FinFlushes, FinOpensSummary, FinProjects, FinRemembers, FinSavesTree,
         FinSummarizes, FinFails, FinCompletes, FinLeaves, FinAt, LiveUnchanged, durable
    <2> QED
      BY <2>1, <2>2, <2>3 DEF StageHandsOn
  <1> QED
    BY <1>1, <1>2

\* What a stage does to memory and to the rounds: it starts one at most.
StageRounds ==
    /\ recovery' = recovery /\ UNCHANGED <<stored, publishing, pending, deferred>>
    /\ \/ last' = last
       \/ fin.pc \in {"adopt", "readopt"} /\ last' = fin.got
       \/ fin.pc = "remember" /\ last' = fin.snap
    /\ \A q \in Slots :
          \/ /\ round'[q].pc = round[q].pc /\ round'[q].base = round[q].base
             /\ round'[q].next = round[q].next /\ round'[q].segs = round[q].segs
          \/ /\ At(q, "idle") /\ round'[q].pc = "start" /\ round'[q].base = Empty
             /\ round'[q].segs \subseteq fin.segs
             /\ fin'.pc = "flush" /\ fin'.flush = q

LEMMA StageRoundsMove ==
  ASSUME FTypes, FinStep \/ Clients
  PROVE  StageRounds
  <1>t. TypeOK /\ fin \in Finalizer
    BY FTypeParts
  <1>1. recovery' = recovery /\ UNCHANGED <<stored, publishing, pending, deferred>>
    BY LiveEffects DEF LiveEffect, LiveUnchanged, FinGivesUpRound, FinFlushes, durable, memory
  <1>2. \/ last' = last
        \/ fin.pc \in {"adopt", "readopt"} /\ last' = fin.got
        \/ fin.pc = "remember" /\ last' = fin.snap
    BY DEF FinStep, FinStarts, FinRaisesBarrier, FinEntersWait, FinAwaits, FinGivesUpRound,
       FinLists, FinReadsRow, FinReads, FinAdoptsRow, FinAdopts, FinPlansNoFlush, FinFlushes,
       FinOpensSummary, FinProjects, FinRemembers, FinSavesTree, FinSummarizes, FinFails,
       FinCompletes, FinLeaves, FinAt, Clients, FinalizationArrives, FinReleasesBarrier,
       RetryArrives, RetryStep, RetryReopens, RetryEnters, LiveUnchanged, memory
  <1>3. CASE FinGivesUpRound
    BY <1>t, <1>1, <1>2, <1>3 DEF StageRounds, FinGivesUpRound, TypeOK, Round
  <1>4. ASSUME NEW r \in Slots, FinFlushes(r)
        PROVE  \A q \in Slots : \/ round'[q] = round[q]
                                \/ /\ At(q, "idle") /\ round'[q].pc = "start"
                                   /\ round'[q].base = Empty
                                   /\ round'[q].segs \subseteq fin.segs
                                   /\ fin'.pc = "flush" /\ fin'.flush = q
    BY <1>t, <1>4 DEF FinFlushes, TypeOK, IdleRound, Finalizer
  <1>5. CASE round' = round
    BY <1>1, <1>2, <1>5 DEF StageRounds
  <1> QED
    BY <1>1, <1>2, <1>3, <1>4, <1>5, LiveEffects DEF StageRounds, LiveEffect, LiveUnchanged

\* It hands payloads on, and makes none.
LEMMA StageKnows ==
  ASSUME FTypes, FinStep \/ Clients, live' \in {live, fin.snap}
  PROVE  KnownSnapshots' \subseteq KnownSnapshots
  <1> DEFINE K == KnownSnapshots
  <1>0. /\ {Empty, live, last, recovery.got, fin.snap, fin.got} \subseteq K
        /\ \A r \in Slots : round[r].base \in K
        /\ \A r \in Slots : At(r, "reorganize") => round[r].next \in K
    BY DEF KnownSnapshots
  <1>1. StageRounds /\ StageHandsOn
    BY StageRoundsMove, StagesHandOn
  <1>2. KnownSnapshots' = {Empty, live', last', recovery'.got, fin'.snap, fin'.got}
                            \cup {round'[r].base : r \in Slots}
                            \cup {round'[r].next : r \in {q \in Slots : round'[q].pc = "reorganize"}}
    BY DEF KnownSnapshots, At
  <1> HIDE DEF K
  <1>3. {Empty, live', last', recovery'.got, fin'.snap, fin'.got} \subseteq K
    BY <1>0, <1>1 DEF StageRounds, StageHandsOn
  <1>4. \A q \in Slots : round'[q].base \in K
    BY <1>0, <1>1 DEF StageRounds
  <1>5. \A q \in Slots : round'[q].pc = "reorganize" => round'[q].next \in K
    BY <1>0, <1>1 DEF StageRounds, At
  <1>6. KnownSnapshots' \subseteq K
    BY <1>2, <1>3, <1>4, <1>5
  <1> QED
    BY <1>6 DEF K

\* So before its projection the row and what is known of it stay chained.
LEMMA StageChained ==
  ASSUME FTypes, FTypes', IInv, Chained, ListOK, FinStep \/ Clients, live' = live
  PROVE  IInv' /\ Chained'
  <1>t. TypeOK'
    BY FTypeParts
  <1>1. StageRounds
    BY StageRoundsMove
  <1>2. KnownSnapshots' \subseteq KnownSnapshots
    BY StageKnows
  <1>3. Chained'
    BY <1>2, ChainKept DEF RowStep
  <1>4. KnownVersions'
    BY <1>3 DEF Chained, KnownSnapshots, KnownVersions, VersionNamesPayload
  <1>5. NextExtendsBase'
    BY <1>1 DEF StageRounds, IInv, NextExtendsBase
  <1>6. OnlyStored'
    <2>1. \A q \in Slots : round'[q].segs \subseteq stored
      BY <1>1 DEF StageRounds, IInv, OnlyStored, ListOK
    <2> QED
      BY <1>1, <2>1 DEF StageRounds, IInv, OnlyStored
  <1> QED
    BY <1>t, <1>3, <1>4, <1>5, <1>6 DEF IInv

LEMMA ChainedStep ==
  ASSUME FTypes, FTypes', IInv, Chained, ListOK,
         Live \/ FRestart \/ UNCHANGED fvars \/ ((FinStep \/ Clients) /\ live' = live)
  PROVE  IInv' /\ Chained'
  <1>0. TypeOK
    BY DEF IInv
  <1>1. ASSUME [Next]_vars, fin'.snap \in {fin.snap, Empty}, fin'.got \in {fin.got, Empty}
        PROVE  IInv' /\ Chained'
    BY <1>0, <1>1, InvStep, RowSteps, LiveHandsOn, ChainKept
  <1>2. CASE Live
    <2>1. Next
      BY <1>2 DEF Live, Next
    <2> QED
      BY <1>1, <1>2, <2>1, LiveLocals DEF LiveMove
  <1>3. CASE FRestart
    <2>1. Next /\ fin' = NoFinalizer
      BY <1>3 DEF FRestart, Next
    <2> QED
      BY <1>1, <2>1 DEF NoFinalizer
  <1>4. CASE UNCHANGED fvars
    BY <1>1, <1>4 DEF fvars, fmemory
  <1> QED
    BY <1>2, <1>3, <1>4, StageChained

LEMMA RowIsChainedStep ==
  ASSUME FTypes, FTypes', OneAttempt, RowIsChained, ListOK, [FNext]_fvars
  PROVE  RowIsChained'
  <1> SUFFICES ASSUME Unwritten' PROVE IInv' /\ Chained'
    BY DEF RowIsChained
  <1>0. Unwritten /\ IInv /\ Chained
    BY UnwrittenBefore DEF RowIsChained
  <1>1. CASE FinStep \/ Clients
    <2>1. live' = live
      <3>1. SUFFICES ASSUME fin.pc = "project" PROVE live' = live
        BY <1>1, StagesHandOn DEF StageHandsOn
      <3>2. CASE Clients
        BY <3>2, ClientMoves DEF ClientMove
      <3>3. CASE FinStep
        <4>1. StageMove /\ StageKeeps
          BY <3>1, <3>3, StageLocals
        <4>2. ~Unwritten'
          BY <1>0, <3>1, <4>1, FTypeParts, FinalizationAssumption
          DEF StageMove, StageKeeps, Unwritten, OneAttempt, BeforeProjection, RowsOK
        <4> QED
          BY <4>2
      <3> QED
        BY <1>1, <3>2, <3>3
    <2> QED
      BY <1>0, <1>1, <2>1, ChainedStep
  <1>2. CASE Live \/ FRestart \/ UNCHANGED fvars
    BY <1>0, <1>2, ChainedStep
  <1> QED
    BY <1>1, <1>2, FinalizationSteps

\* An attempt that has given nothing up before its projection has not before.
LEMMA GapBefore ==
  ASSUME FTypes, OneAttempt, ListOK, [FNext]_fvars, Unwritten', ~fin'.gap
  PROVE  Unwritten /\ ~fin.gap
  <1>0. Unwritten
    BY UnwrittenBefore
  <1>1. CASE Live
    BY <1>0, <1>1, LiveLocals DEF LiveMove
  <1>2. CASE FinStep
    <2>1. StageMove /\ (fin.pc = "leave" \/ StageKeeps)
      BY <1>2, StageLocals
    <2>2. fin.pc # "leave"
      <3> SUFFICES ASSUME fin.pc = "leave" PROVE FALSE
        OBVIOUS
      <3>1. fin'.pc = "idle" /\ UNCHANGED <<attempts, retry>>
        BY <2>1 DEF StageMove, NoFinalizer
      <3> QED
        BY <1>0, <3>1 DEF Unwritten, OneAttempt, BeforeProjection
    <2> QED
      BY <1>0, <2>1, <2>2 DEF StageKeeps
  <1>3. CASE Clients
    <2>1. ClientMove
      BY <1>3, ClientMoves
    <2> QED
      BY <1>0, <2>1 DEF ClientMove, NoFinalizer, ListOK, Unwritten, OneAttempt
  <1>4. CASE FRestart
    <2>1. attempts' = attempts /\ fin'.pc = "idle" /\ retry' = "none"
      BY <1>4 DEF FRestart, NoFinalizer
    <2> QED
      BY <1>0, <2>1 DEF ListOK, Unwritten, OneAttempt, BeforeProjection
  <1>5. CASE UNCHANGED fvars
    BY <1>0, <1>5 DEF fvars, fmemory
  <1> QED
    BY <1>1, <1>2, <1>3, <1>4, <1>5, FinalizationSteps

\* Behind the barrier no round starts but the flush.
LEMMA BarrierHolds ==
  ASSUME TypeOK, LiveStep, finalizing \/ stopped
  PROVE  owner' = owner /\ \A r \in Slots : InFlight(r)' => InFlight(r)
  <1>1. CASE QuietStep
    BY <1>1, QuietSteps DEF InFlight
  <1>2. \A r \in Slots : ~DispatchSeals(r)
    BY DEF DispatchSeals, Sealable
  <1>3. ASSUME NEW r \in Slots, RoundStep(r)
        PROVE  owner' = owner /\ \A q \in Slots : InFlight(q)' => InFlight(q)
    <2>1. FlagEffect(r) /\ \A q \in Slots \ {r} : round'[q] = round[q]
      BY <1>3, FlagEffects, RoundEffects DEF RoundEffect
    <2> QED
      BY <2>1 DEF FlagEffect, InFlight
  <1>4. CASE RecoveryStarts \/ RecoveryStep
    BY <1>4, RecoveryEffects DEF InFlight
  <1> QED
    BY <1>1, <1>2, <1>3, <1>4 DEF LiveStep, Dispatch, QuietStep

LEMMA AllAwaitedStep ==
  ASSUME FTypes, OneAttempt, Barred, ListOK, AllAwaited, [FNext]_fvars
  PROVE  AllAwaited'
  <1> SUFFICES ASSUME Unwritten', ~fin'.gap
               PROVE  /\ OneRoundInFlight'
                      /\ fin'.pc = "await" => owner' = fin'.flush
                      /\ fin'.pc \in Sealed =>
                            \A r \in Slots : InFlight(r)' => fin'.pc = "flush" /\ fin'.flush = r
    BY DEF AllAwaited
  <1>0. Unwritten /\ ~fin.gap /\ TypeOK /\ fin \in Finalizer
        /\ attempts <= 1
    BY GapBefore, FTypeParts DEF Unwritten
  <1>a. /\ OneRoundInFlight
        /\ fin.pc = "await" => owner = fin.flush
        /\ fin.pc \in Sealed =>
              \A r \in Slots : InFlight(r) => fin.pc = "flush" /\ fin.flush = r
    BY <1>0 DEF AllAwaited
  <1>b. fin.pc \in {"enter", "await"} \cup Sealed => finalizing
    BY <1>0 DEF Barred
  <1>1. CASE Live
    <2>1. OneRoundInFlight'
      BY <1>0, <1>1, <1>a, FlightStep DEF Live, Next
    <2>2. LiveMove
      BY <1>1, LiveLocals
    <2>3. finalizing => owner' = owner /\ \A r \in Slots : InFlight(r)' => InFlight(r)
      BY <1>0, <1>1, BarrierHolds DEF Live
    <2>4. fin'.pc = "await" => owner' = fin'.flush
      BY <1>a, <1>b, <2>2, <2>3 DEF LiveMove
    <2>5. ASSUME fin'.pc \in Sealed, NEW r \in Slots, InFlight(r)'
          PROVE  fin'.pc = "flush" /\ fin'.flush = r
      <3>1. fin.pc \in Sealed
        BY <2>2, <2>5 DEF LiveMove, Sealed
      <3>2. fin.pc = "flush" /\ fin.flush = r
        BY <1>a, <1>b, <2>3, <2>5, <3>1
      <3>3. ~Returns(r)
        BY <2>5 DEF Returns, InFlight
      <3> QED
        BY <2>2, <3>2, <3>3 DEF LiveMove
    <2> QED
      BY <2>1, <2>4, <2>5
  <1>2. CASE FinGivesUpRound
    BY <1>0, <1>2 DEF FinGivesUpRound, Finalizer
  <1>3. ASSUME NEW r \in Slots, FinFlushes(r)
        PROVE  /\ OneRoundInFlight'
               /\ fin'.pc = "await" => owner' = fin'.flush
               /\ fin'.pc \in Sealed =>
                     \A q \in Slots : InFlight(q)' => fin'.pc = "flush" /\ fin'.flush = q
    <2>1. fin.pc = "plan" /\ fin'.pc = "flush" /\ fin'.flush = r /\ running' /\ owner' = r
      BY <1>0, <1>3 DEF FinFlushes, FinAt, Finalizer
    <2>2. \A q \in Slots : InFlight(q)' => q = r
      BY <1>0, <1>3, <1>a, <2>1 DEF FinFlushes, InFlight, TypeOK, Sealed
    <2> QED
      BY <2>1, <2>2 DEF OneRoundInFlight
  <1>4. CASE FinStep /\ ~FinGivesUpRound /\ ~ \E r \in Slots : FinFlushes(r)
    <2>1. StageEffect /\ StageMove
      BY <1>0, <1>4, StageEffects, StageLocals
    <2>2. \A r \in Slots : InFlight(r)' <=> InFlight(r)
      BY <2>1 DEF StageEffect, InFlight
    <2>3. OneRoundInFlight'
      BY <1>a, <2>1, <2>2 DEF StageEffect, OneRoundInFlight
    <2>4. fin'.pc = "await" => owner' = fin'.flush
      BY <2>1 DEF StageEffect, Sealed, StageMove
    <2>5. ASSUME fin'.pc \in Sealed, NEW r \in Slots, InFlight(r) PROVE FALSE
      <3>1. running /\ owner = r
        BY <1>a, <2>5 DEF OneRoundInFlight
      <3>2. CASE fin.pc \in Sealed
        BY <1>a, <2>1, <2>5, <3>2 DEF StageEffect, Sealed
      <3>3. CASE fin.pc \notin Sealed
        BY <1>a, <2>1, <2>5, <3>1, <3>3 DEF StageEffect, Sealed
      <3> QED
        BY <3>2, <3>3
    <2> QED
      BY <2>2, <2>3, <2>4, <2>5
  <1>5. CASE Clients
    <2>1. ClientMove
      BY <1>5, ClientMoves
    <2>2. OneRoundInFlight' /\ \A r \in Slots : InFlight(r)' <=> InFlight(r)
      BY <1>a, <2>1 DEF ClientMove, OneRoundInFlight, InFlight
    <2>3. fin' = fin \/ fin'.pc = "start"
      BY <2>1 DEF ClientMove, NoFinalizer
    <2> QED
      BY <1>a, <2>1, <2>2, <2>3 DEF ClientMove, Sealed
  <1>6. CASE FRestart
    <2>1. OneRoundInFlight'
      BY <1>0, <1>6, <1>a, FlightStep DEF FRestart, Next
    <2>2. fin'.pc = "idle"
      BY <1>6 DEF FRestart, NoFinalizer
    <2> QED
      BY <2>1, <2>2 DEF Sealed
  <1>7. CASE UNCHANGED fvars
    <2>1. OneRoundInFlight'
      BY <1>0, <1>7, <1>a, FlightStep DEF fvars
    <2> QED
      BY <1>a, <1>7, <2>1 DEF fvars, fmemory, vars, memory, InFlight
  <1> QED
    BY <1>1, <1>2, <1>3, <1>4, <1>5, <1>6, <1>7, FinalizationSteps

\* What memory holds advances, but for a round that completes.
LEMMA LastAdvances ==
  ASSUME TypeOK, LiveStep
  PROVE  \/ last'.v >= last.v /\ last' \in KnownSnapshots
         \/ \E r \in Slots : RoundCompletes(r)
  <1>0. /\ last \in Snapshot /\ live \in Snapshot /\ recovery.got \in Snapshot
        /\ round \in [Slots -> Round]
        /\ {last, live, recovery.got} \subseteq KnownSnapshots
        /\ \A r \in Slots : round[r].base \in Snapshot /\ round[r].base \in KnownSnapshots
    BY DEF TypeOK, Recovery, Round, KnownSnapshots
  <1>s. last.v \in Nat /\ live.v \in Nat /\ recovery.got.v \in Nat
        /\ \A r \in Slots : round[r].base.v \in Nat
    BY <1>0 DEF Snapshot
  <1>1. CASE last' = last
    BY <1>0, <1>1, <1>s
  <1>2. ASSUME NEW r \in Slots, RoundStep(r), ~RoundCompletes(r), last' # last
        PROVE  last'.v >= last.v /\ last' \in KnownSnapshots
    <2>1. CASE RoundSeeds(r)
      BY <1>0, <1>s, <2>1 DEF RoundSeeds, Newest
    <2>2. CASE RoundReloadsAfterFailure(r) \/ RoundReloads(r)
      BY <1>0, <1>s, <2>2 DEF RoundReloadsAfterFailure, RoundReloads
    <2> QED
      BY <1>2, <2>1, <2>2 DEF RoundStep, RoundStarts, RoundLooksUp, ProviderAnswers,
         ProviderFails, RoundPersistsFailure, RoundChecksBarrier, RoundPersists,
         RoundReorganizes, memory
  <1>3. CASE RecoveryStarts \/ RecoveryStep
    <2>1. CASE RecoverySeeds
      BY <1>0, <1>s, <2>1 DEF RecoverySeeds, Newest
    <2>2. CASE RecoveryMerges
      BY <1>0, <1>s, <2>2 DEF RecoveryMerges
    <2>3. CASE RecoveryStarts \/ RecoveryLooksUp \/ RecoveryLists
      BY <1>1, <2>3 DEF RecoveryStarts, RecoveryLooksUp, RecoveryLists, memory
    <2> QED
      BY <1>3, <2>1, <2>2, <2>3 DEF RecoveryStep
  <1>4. CASE QuietStep \/ \E r \in Slots : DispatchSeals(r)
    BY <1>1, <1>4, QuietSteps, SealEffect
  <1> QED
    BY <1>1, <1>2, <1>3, <1>4 DEF LiveStep, Dispatch, QuietStep

\* A flush round completes with a payload that covers what was listed.
LEMMA FlushRoundStep ==
  ASSUME FTypes, IInv, Chained, NEW r \in Slots, FlushBrings(r), RoundStep(r),
         fin.snap.v <= last.v, fin'.segs = fin.segs, fin'.snap = fin.snap
  PROVE  /\ At(r, "idle")' \/ FlushBrings(r)'
         /\ RoundCompletes(r) => At(r, "complete") /\ fin.segs \subseteq last'.done
  <1>0. /\ TypeOK /\ fin \in Finalizer /\ round \in [Slots -> Round] /\ round[r] \in Round
        /\ {fin.snap, live, round[r].base} \subseteq KnownSnapshots
        /\ At(r, "reorganize") => round[r].next \in KnownSnapshots
    BY FTypeParts DEF TypeOK, KnownSnapshots
  <1>s. /\ fin.snap.v \in Nat /\ last.v \in Nat /\ live.v \in Nat /\ round[r].base.v \in Nat
        /\ round[r].next.v \in Nat
    BY <1>0 DEF TypeOK, Finalizer, Round, Snapshot
  <1> USE DEF FlushBrings, At, InFlight, Round
  <1>1. CASE RoundStarts(r)
    BY <1>0, <1>1 DEF RoundStarts, RoundCompletes
  <1>2. CASE RoundLooksUp(r)
    BY <1>0, <1>2 DEF RoundLooksUp, Goto, RoundCompletes
  <1>3. CASE RoundSeeds(r)
    <2>1. Newest(round[r].base).v >= last.v
      BY <1>s DEF Newest
    <2>2. fin.snap.v <= Newest(round[r].base).v
      BY <1>s, <2>1 DEF Newest
    <2> QED
      BY <1>0, <1>3, <2>2 DEF RoundSeeds, RoundCompletes
  <1>4. CASE ProviderAnswers(r)
    BY <1>0, <1>4 DEF ProviderAnswers, RoundCompletes
  <1>5. CASE ProviderFails(r)
    BY <1>0, <1>5 DEF ProviderFails, Goto, RoundCompletes
  <1>6. CASE RoundPersistsFailure(r) \/ RoundReloadsAfterFailure(r)
    BY <1>0, <1>6
    DEF RoundPersistsFailure, RoundReloadsAfterFailure, Goto, Leave, IdleRound, RoundCompletes
  <1>7. CASE RoundChecksBarrier(r)
    BY <1>0, <1>7 DEF RoundChecksBarrier, Goto, Leave, IdleRound, RoundCompletes
  <1>8. CASE RoundPersists(r)
    <2>1. round[r].next.done = round[r].base.done \cup round[r].segs
      BY <1>8 DEF RoundPersists, IInv, NextExtendsBase, Extends
    <2>2. fin.snap.done \subseteq round[r].base.done
      BY <1>0, <1>8 DEF RoundPersists, Chained, Ordered
    <2>3. fin.segs \subseteq round[r].next.done
      BY <1>8, <2>1, <2>2 DEF RoundPersists
    <2> QED
      BY <1>0, <1>8, <2>3 DEF RoundPersists, Goto, Leave, IdleRound, RoundCompletes
  <1>9. CASE RoundReloads(r)
    BY <1>0, <1>9 DEF RoundReloads, Leave, IdleRound, RoundCompletes
  <1>10. CASE RoundReorganizes(r)
    <2>1. fin.segs \subseteq round[r].next.done
      BY <1>10 DEF RoundReorganizes
    <2>2. PICK base \in {round[r].next, [round[r].next EXCEPT !.v = round[r].next.v + 1], live} :
             /\ round' = [round EXCEPT ![r].pc = "complete", ![r].base = base]
             /\ base = live => round[r].next = live \/ live.v > round[r].next.v
                               \/ base = [round[r].next EXCEPT !.v = round[r].next.v + 1]
      BY <1>10 DEF RoundReorganizes
    <2>3. fin.segs \subseteq base.done
      <3>1. [round[r].next EXCEPT !.v = round[r].next.v + 1].done = round[r].next.done
        BY <1>0 DEF Snapshot
      <3>2. live.v > round[r].next.v => round[r].next.done \subseteq live.done
        BY <1>0, <1>s, <1>10 DEF Chained, Ordered, RoundReorganizes
      <3> QED
        BY <2>1, <2>2, <3>1, <3>2
    <2> QED
      BY <1>0, <1>10, <2>2, <2>3 DEF RoundReorganizes, RoundCompletes
  <1>11. CASE RoundCompletes(r)
    BY <1>0, <1>11 DEF RoundCompletes, Leave, IdleRound
  <1> QED
    BY <1>1, <1>2, <1>3, <1>4, <1>5, <1>6, <1>7, <1>8, <1>9, <1>10, <1>11 DEF RoundStep

LEMMA FlushCoversLive ==
  ASSUME FTypes, IInv, Chained, AllAwaited, FlushCovers, Unwritten, ~fin.gap, ~fin'.gap, Live
  PROVE  /\ fin'.pc \in {"plan", "flush"} => fin'.snap.v <= last'.v
         /\ fin'.pc = "flush" => FlushBrings(fin.flush)'
         /\ fin'.pc = "reread" => \/ fin'.segs \subseteq fin'.snap.done
                                  \/ fin'.segs \subseteq last'.done
  <1>0. /\ TypeOK /\ fin \in Finalizer /\ round \in [Slots -> Round]
        /\ {last, live, fin.snap} \subseteq KnownSnapshots /\ TriesBounded
    BY FTypeParts DEF TypeOK, KnownSnapshots
  <1>a. LiveMove
    BY LiveLocals
  <1>b. fin.pc \in Sealed => \A r \in Slots : InFlight(r) => fin.pc = "flush" /\ fin.flush = r
    BY DEF AllAwaited
  <1>c. /\ fin.pc \in {"plan", "flush"} => fin.snap.v <= last.v
        /\ fin.pc = "flush" => FlushBrings(fin.flush)
        /\ fin.pc = "reread" => fin.segs \subseteq fin.snap.done \/ fin.segs \subseteq last.done
    BY DEF FlushCovers
  <1>d. \/ last'.v >= last.v /\ last' \in KnownSnapshots
        \/ \E r \in Slots : RoundCompletes(r)
    BY <1>0, LastAdvances DEF Live
  <1>e. \A r \in Slots : RoundCompletes(r) => InFlight(r)
    BY DEF RoundCompletes, At, InFlight
  <1>s. fin.snap.v \in Nat /\ last.v \in Nat /\ (last' \in KnownSnapshots => last'.v \in Nat)
    <2>1. TypeOK'
      BY LiveTypes, FTypeParts
    <2> QED
      BY <1>0, <2>1 DEF TypeOK, Finalizer, Snapshot
  <1>1. CASE fin.pc \in {"plan", "reread"}
    <2>1. \A r \in Slots : ~RoundCompletes(r)
      BY <1>1, <1>b, <1>e DEF Sealed
    <2>2. last.done \subseteq last'.done /\ (fin.pc = "plan" => fin.snap.v <= last'.v)
      BY <1>0, <1>c, <1>d, <1>s, <1>1, <2>1 DEF Chained, Ordered
    <2>3. last.done \subseteq last'.done
      BY <1>0, <1>d, <1>s, <2>1 DEF Chained, Ordered
    <2>4. fin'.pc = fin.pc
      BY <1>1, <1>a DEF LiveMove
    <2> QED
      BY <1>1, <1>a, <1>c, <2>2, <2>3, <2>4 DEF LiveMove
  <1>2. CASE fin.pc = "flush"
    <2>0. PICK f \in Slots : f = fin.flush
      BY <1>0, <1>2 DEF TriesBounded
    <2>1. CASE RoundStep(f)
      <3>1. /\ At(f, "idle")' \/ FlushBrings(f)'
            /\ RoundCompletes(f) => At(f, "complete") /\ fin.segs \subseteq last'.done
        BY <1>0, <1>2, <1>a, <1>c, <2>0, <2>1, FlushRoundStep DEF LiveMove
      <3>2. \A r \in Slots \ {f} : ~RoundCompletes(r)
        BY <1>2, <1>b, <1>e, <2>0 DEF Sealed
      <3>3. At(f, "idle")' <=> Returns(f)
        BY <1>2, <1>c, <2>0 DEF FlushBrings, Returns, At
      <3>4. CASE RoundCompletes(f)
        <4>1. At(f, "idle")'
          BY <1>0, <2>0, <3>4 DEF RoundCompletes, Leave, IdleRound, At
        <4>2. fin'.pc = "reread"
          BY <1>2, <2>0, <1>a, <3>1, <3>3, <3>4, <4>1 DEF LiveMove
        <4> QED
          BY <1>a, <3>1, <3>4, <4>2 DEF LiveMove
      <3>5. CASE ~RoundCompletes(f)
        <4>1. fin.snap.v <= last'.v
          BY <1>2, <1>c, <1>d, <1>s, <3>2, <3>5
        <4>2. fin'.pc # "reread"
          <5>1. SUFFICES ASSUME At(f, "complete") PROVE FALSE
            BY <1>2, <2>0, <1>a DEF LiveMove
          <5>2. RoundCompletes(f)
            BY <2>1, <5>1 DEF RoundStep, RoundStarts, RoundLooksUp, RoundSeeds, ProviderAnswers,
               ProviderFails, RoundPersistsFailure, RoundReloadsAfterFailure, RoundChecksBarrier,
               RoundPersists, RoundReloads, RoundReorganizes, At
          <5> QED
            BY <3>5, <5>2
        <4>3. fin'.pc = "flush" => fin'.flush = f /\ ~Returns(f)
          BY <1>2, <2>0, <1>a DEF LiveMove
        <4> QED
          BY <1>a, <2>0, <3>1, <3>3, <4>1, <4>2, <4>3 DEF LiveMove
      <3> QED
        BY <3>4, <3>5
    <2>2. CASE ~RoundStep(f)
      <3>1. round'[f] = round[f]
        <4>1. CASE QuietStep
          BY <4>1, QuietSteps
        <4>2. ASSUME NEW r \in Slots, DispatchSeals(r) PROVE round'[f] = round[f]
          <5>1. r # f
            BY <1>2, <1>c, <2>0, <4>2 DEF FlushBrings, DispatchSeals
          <5> QED
            BY <1>0, <2>0, <4>2, <5>1, SealEffect
        <4>3. ASSUME NEW r \in Slots, RoundStep(r) PROVE round'[f] = round[f]
          <5>1. r # f
            BY <2>2, <4>3
          <5> QED
            BY <1>0, <2>0, <4>3, <5>1, RoundEffects DEF RoundEffect
        <4>4. CASE RecoveryStarts \/ RecoveryStep
          BY <1>0, <4>4, RecoveryEffects
        <4> QED
          BY <4>1, <4>2, <4>3, <4>4 DEF Live, LiveStep, Dispatch, QuietStep
      <3>2. ~Returns(f)
        BY <3>1 DEF Returns
      <3>3. fin'.pc = "flush" /\ fin'.flush = f
        BY <1>2, <2>0, <1>a, <3>2 DEF LiveMove
      <3>4. FlushBrings(f)'
        BY <1>2, <2>0, <1>a, <1>c, <3>1 DEF LiveMove, FlushBrings, At, InFlight
      <3>5. \A r \in Slots : ~RoundCompletes(r)
        <4>1. ~RoundCompletes(f)
          BY <2>2 DEF RoundStep
        <4> QED
          BY <1>2, <1>b, <1>e, <2>0, <4>1 DEF Sealed
      <3>6. fin.snap.v <= last'.v
        BY <1>2, <1>c, <1>d, <1>s, <3>5
      <3> QED
        BY <1>a, <2>0, <3>3, <3>4, <3>6 DEF LiveMove
    <2> QED
      BY <2>1, <2>2
  <1>3. CASE fin.pc \notin {"plan", "reread", "flush"}
    BY <1>3, <1>a DEF LiveMove
  <1> QED
    BY <1>1, <1>2, <1>3

LEMMA FlushCoversStep ==
  ASSUME FTypes, FTypes', OneAttempt, RowIsChained, ListOK, AllAwaited, FlushCovers, [FNext]_fvars
  PROVE  FlushCovers'
  <1> SUFFICES ASSUME Unwritten', ~fin'.gap
               PROVE  /\ fin'.pc \in {"plan", "flush"} => fin'.snap.v <= last'.v
                      /\ fin'.pc = "flush" => FlushBrings(fin.flush)'
                      /\ fin'.pc = "reread" => \/ fin'.segs \subseteq fin'.snap.done
                                               \/ fin'.segs \subseteq last'.done
    BY DEF FlushCovers
  <1>0. Unwritten /\ ~fin.gap /\ fin \in Finalizer /\ TypeOK
    BY GapBefore, FTypeParts
  <1>a. IInv /\ Chained
    BY <1>0 DEF RowIsChained
  <1>c. /\ fin.pc \in {"plan", "flush"} => fin.snap.v <= last.v
        /\ fin.pc = "flush" => FlushBrings(fin.flush)
        /\ fin.pc = "reread" => fin.segs \subseteq fin.snap.done \/ fin.segs \subseteq last.done
    BY <1>0 DEF FlushCovers
  <1>1. CASE Live
    BY <1>0, <1>1, <1>a, FlushCoversLive
  <1>2. CASE FinStep
    <2>1. StageMove /\ (fin.pc = "leave" \/ StageKeeps)
      BY <1>2, StageLocals
    <2>2. CASE fin'.pc = "plan"
      <3>1. CASE fin.pc = "read"
        <4>1. fin'.snap = Took(last) /\ last' = last /\ fin.snap = Empty
          BY <1>2, <2>2, <3>1, ReadingStep DEF ListOK
        <4> QED
          BY <1>0, <2>2, <4>1 DEF Took, Empty, TypeOK, Snapshot
      <3>2. CASE fin.pc = "adopt"
        <4>1. last' = fin.got
          BY <1>2, <3>2 DEF FinStep, FinStarts, FinRaisesBarrier, FinEntersWait, FinAwaits,
             FinGivesUpRound, FinLists, FinReadsRow, FinReads, FinAdoptsRow, FinAdopts,
             FinPlansNoFlush, FinFlushes, FinOpensSummary, FinProjects, FinRemembers,
             FinSavesTree, FinSummarizes, FinFails, FinCompletes, FinLeaves, FinAt
        <4> QED
          BY <2>1, <2>2, <3>2, <4>1 DEF StageKeeps, ListOK
      <3> QED
        BY <2>1, <2>2, <3>1, <3>2 DEF StageMove, NoFinalizer
    <2>3. CASE fin'.pc = "flush"
      <3>0. fin.pc = "plan"
        BY <2>1, <2>3 DEF StageMove, NoFinalizer
      <3>n. ~FinPlansNoFlush
        BY <1>0, <2>3 DEF FinPlansNoFlush, Finalizer
      <3>1. PICK r \in Slots : FinFlushes(r)
        BY <1>2, <3>0, <3>n DEF FinStep, FinStarts, FinRaisesBarrier, FinEntersWait, FinAwaits,
           FinGivesUpRound, FinLists, FinReadsRow, FinReads, FinAdoptsRow, FinAdopts,
           FinOpensSummary, FinProjects, FinRemembers, FinSavesTree, FinSummarizes, FinFails,
           FinCompletes, FinLeaves, FinAt
      <3>2. /\ fin.pc = "plan" /\ last' = last /\ fin'.snap = fin.snap /\ fin'.flush = r
            /\ fin'.segs = fin.segs
            /\ round'[r].pc = "start" /\ round'[r].segs = fin.segs \ fin.snap.done
        BY <1>0, <3>1 DEF FinFlushes, FinAt, Finalizer, TypeOK, IdleRound
      <3>3. FlushBrings(r)'
        BY <3>2 DEF FlushBrings, At, InFlight
      <3> QED
        BY <1>c, <2>3, <3>2, <3>3
    <2>4. CASE fin'.pc = "reread"
      <3>1. fin.pc = "plan"
        BY <2>1, <2>4 DEF StageMove, NoFinalizer
      <3>2. FinPlansNoFlush
        BY <1>0, <1>2, <2>4, <3>1 DEF FinStep, FinStarts, FinRaisesBarrier, FinEntersWait,
           FinAwaits, FinGivesUpRound, FinLists, FinReadsRow, FinReads, FinAdoptsRow, FinAdopts,
           FinFlushes, FinOpensSummary, FinProjects, FinRemembers, FinSavesTree, FinSummarizes,
           FinFails, FinCompletes, FinLeaves, FinAt, Finalizer
      <3> QED
        BY <2>1, <2>4, <3>1, <3>2 DEF FinPlansNoFlush, StageKeeps
    <2> QED
      BY <2>2, <2>3, <2>4
  <1>3. CASE Clients
    <2>1. ClientMove
      BY <1>3, ClientMoves
    <2>2. fin' = fin \/ fin'.pc = "start"
      BY <2>1 DEF ClientMove, NoFinalizer
    <2> QED
      BY <1>c, <2>1, <2>2 DEF ClientMove, FlushBrings, At, InFlight
  <1>4. CASE FRestart
    <2>1. fin'.pc = "idle"
      BY <1>4 DEF FRestart, NoFinalizer
    <2> QED
      BY <2>1
  <1>5. CASE UNCHANGED fvars
    BY <1>c, <1>5 DEF fvars, fmemory, vars, memory, FlushBrings, At, InFlight
  <1> QED
    BY <1>1, <1>2, <1>3, <1>4, <1>5, FinalizationSteps

\* Whichever of the row and memory it takes after the flush covers the list.
LEMMA RereadCovers ==
  ASSUME FTypes, IInv, Chained, fin.pc = "reread", FinStep,
         fin.segs \subseteq fin.snap.done \/ fin.segs \subseteq last.done
  PROVE  fin.segs \subseteq fin'.snap.done
  <1>0. /\ {live, last, fin.snap} \subseteq KnownSnapshots
        /\ live.v \in Nat /\ last.v \in Nat /\ fin.snap.v \in Nat
    BY FTypeParts DEF KnownSnapshots, TypeOK, Finalizer, Snapshot
  <1>1. fin.snap.v <= live.v /\ last.v <= live.v
    BY <1>0 DEF Chained, Ordered, Names
  <1>2. CASE fin'.snap = Took(live)
    BY <1>0, <1>1, <1>2 DEF Took, Chained, Ordered
  <1>3. CASE fin'.snap = Took(last)
    <2>1. CASE last.v >= fin.snap.v
      BY <1>0, <1>3, <2>1 DEF Took, Chained, Ordered
    <2>2. CASE last.v < fin.snap.v
      BY <1>0, <1>3, <2>2 DEF Took, Chained, Ordered
    <2> QED
      BY <1>0, <2>1, <2>2
  <1> QED
    BY <1>2, <1>3, ReadingStep

LEMMA SnapshotCoversStep ==
  ASSUME FTypes, OneAttempt, RowIsChained, ListOK, FlushCovers, SnapshotCovers, [FNext]_fvars
  PROVE  SnapshotCovers'
  <1> DEFINE Later == {"readopt", "open", "project", "remember", "save", "summarize", "complete"}
  <1> SUFFICES ASSUME attempts' <= 1, ~fin'.gap, fin'.pc \in Later
               PROVE  fin'.segs \subseteq fin'.snap.done
    BY DEF SnapshotCovers
  <1>0. attempts \in Nat
    BY FTypeParts, FinalizationAssumption DEF RowsOK
  <1>1. CASE Live
    BY <1>1, LiveLocals DEF LiveMove, SnapshotCovers
  <1>2. CASE FinStep
    <2>1. StageMove /\ (fin.pc = "leave" \/ StageKeeps)
      BY <1>2, StageLocals
    <2>2. fin.pc # "leave"
      BY <2>1 DEF StageMove, NoFinalizer
    <2>3. CASE fin.pc = "reread"
      <3>1. Unwritten /\ ~fin.gap
        BY <1>0, <2>1, <2>3 DEF StageMove, StageKeeps, Unwritten, OneAttempt, BeforeProjection
      <3>2. IInv /\ Chained /\ (fin.segs \subseteq fin.snap.done \/ fin.segs \subseteq last.done)
        BY <2>3, <3>1 DEF RowIsChained, FlushCovers
      <3> QED
        BY <1>2, <2>1, <2>3, <3>2, RereadCovers DEF StageKeeps
    <2>4. CASE fin.pc # "reread"
      <3>1. fin.pc \in Later
        BY <2>1, <2>2, <2>4 DEF StageMove
      <3> QED
        BY <2>1, <2>2, <3>1, <2>4 DEF StageMove, StageKeeps, SnapshotCovers
    <2> QED
      BY <2>3, <2>4
  <1>3. CASE Clients
    <2>1. ClientMove
      BY <1>3, ClientMoves
    <2>2. CASE fin' = fin
      <3>1. attempts <= 1
        BY <1>0, <2>1 DEF ClientMove
      <3> QED
        BY <2>2, <3>1 DEF SnapshotCovers
    <2>3. CASE fin' # fin
      BY <2>1, <2>3 DEF ClientMove, NoFinalizer
    <2> QED
      BY <2>2, <2>3
  <1>4. CASE FRestart
    BY <1>4 DEF FRestart, NoFinalizer
  <1>5. CASE UNCHANGED fvars
    BY <1>5 DEF fvars, fmemory, SnapshotCovers
  <1> QED
    BY <1>1, <1>2, <1>3, <1>4, <1>5, FinalizationSteps

LEMMA CoverInitially == FInit => CoverIInv
  <1> SUFFICES ASSUME FInit PROVE CoverIInv
    OBVIOUS
  <1>1. FTypes
    BY FInitTypes
  <1>2. IInv
    BY InitInv DEF FInit
  <1>3. KnownSnapshots = {Empty}
    BY DEF FInit, Init, KnownSnapshots, NoRecovery, NoFinalizer, IdleRound, At
  <1>4. Chained
    BY <1>3 DEF FInit, Init, Chained, Ordered, Names, Empty
  <1>5. OneRoundInFlight /\ fin.pc = "idle" /\ ~fin.gap /\ fin.segs = {} /\ ~fin.blind /\ ~fin.saved
    BY DEF FInit, Init, NoFinalizer, OneRoundInFlight, InFlight, IdleRound
  <1> QED
    BY <1>1, <1>2, <1>4, <1>5
    DEF FInit, CoverIInv, OneAttempt, RowIsChained, Barred, ListOK, AllAwaited, FlushCovers,
        SnapshotCovers, Sealed

LEMMA CoverStep == CoverIInv /\ [FNext]_fvars => CoverIInv'
  <1> SUFFICES ASSUME CoverIInv, [FNext]_fvars PROVE CoverIInv'
    OBVIOUS
  <1> USE DEF CoverIInv
  <1>1. FTypes'
    BY FTypesStep
  <1>2. OneAttempt' /\ Barred'
    BY OneAttemptStep, BarredStep
  <1>3. ListOK' /\ RowIsChained'
    BY <1>1, ListOKStep, RowIsChainedStep
  <1>4. AllAwaited' /\ FlushCovers' /\ SnapshotCovers'
    BY <1>1, AllAwaitedStep, FlushCoversStep, SnapshotCoversStep
  <1> QED
    BY <1>1, <1>2, <1>3, <1>4

\* Only a completion that is not short writes the status.
LEMMA CompletedCovers ==
  ASSUME CoverIInv, [FNext]_fvars, progress' = "completed", progress # "completed", attempts = 1
  PROVE  fin.segs \subseteq tree /\ fin.segs \subseteq fin.snap.done
  <1>0. fin \in Finalizer
    BY FTypeParts DEF CoverIInv
  <1>1. ~Live /\ ~Clients /\ ~FRestart
    BY DEF Live, Clients, FinalizationArrives, FinReleasesBarrier, RetryArrives, RetryStep,
       RetryReopens, RetryEnters, FRestart, fdurable
  <1>2. FinStep
    BY <1>1, FinalizationSteps DEF fvars, fdurable
  <1>3. FinCompletes
    BY <1>2 DEF FinStep, FinStarts, FinRaisesBarrier, FinEntersWait, FinAwaits, FinGivesUpRound,
       FinLists, FinReadsRow, FinReads, FinAdoptsRow, FinAdopts, FinPlansNoFlush, FinFlushes,
       FinOpensSummary, FinProjects, FinRemembers, FinSavesTree, FinSummarizes, FinFails,
       FinLeaves, fdurable
  <1>4. fin.pc = "complete" /\ ~Short
    BY <1>3 DEF FinCompletes, FinAt
  <1>5. ~fin.gap /\ (fin.target = 0 \/ fin.saved)
    BY <1>0, <1>4, ConstantsAssumption DEF Short, Finalizer
  <1>6. fin.segs \subseteq fin.snap.done
    BY <1>4, <1>5 DEF CoverIInv, SnapshotCovers
  <1>7. fin.segs = {} \/ tree = fin.snap.done
    BY <1>5 DEF CoverIInv, ListOK
  <1> QED
    BY <1>6, <1>7

\* ai_analysis.go:2487 and 2835: although only the largest numbers are compared,
\* the first finalization of a session completes without reporting a gap only
\* when its tree is over every final it listed; whatever is asked for, fails,
\* is waited for or restarts.
THEOREM CompletionsAreCovered == FSpec => CompleteMeansCovered
  BY CoverInitially, CoverStep, CompletedCovers, PTL DEF FSpec, CompleteMeansCovered
-----------------------------------------------------------------------------
(* The row after the projection.                                           *)

\* A round the flush of this attempt did not start.
Flushing(r) == fin.pc = "flush" /\ fin.flush = r

Old(r) == InFlight(r) /\ ~Flushing(r)

OneOld == \A r, q \in Slots : Old(r) /\ Old(q) => r = q

\* The payload such a round would write over.
Working(r) == round[r].pc \in {"call", "check", "persist", "reorganize", "complete"}

InHand(r) == IF At(r, "reorganize") THEN round[r].next ELSE round[r].base

AboveFailed(x) ==
    \A q \in Slots : At(q, "fail") /\ ~Flushing(q) => round[q].base.v <= x.v

BeforeList == Unwritten /\ fin.pc \in {"idle", "start", "barrier", "enter", "await"}

\* While an old round may still persist, what failed before it started is older
\* than what it started from, and than what the projection is made of.
FailedAreOlder ==
    BeforeList \/ (\E r \in Slots : Old(r)) =>
       /\ AboveFailed(last)
       /\ \A r \in Slots : Working(r) => AboveFailed(InHand(r))
       /\ \A r \in Slots : BeforeList /\ At(r, "call") => round[r].base.v <= last.v
       /\ fin.pc \in {"adopt", "readopt"} => AboveFailed(fin.got)
       /\ fin.pc \in {"readopt", "open", "project", "remember"} => AboveFailed(fin.snap)

OldsInOrder == OneOld /\ FailedAreOlder

\* The first attempt may still write the row.
FirstRun ==
    \/ attempts = 0
    \/ /\ attempts = 1
       /\ retry # "none" \/ fin.pc \in BeforeProjection \cup {"project", "remember"}

\* No round starts any more.
Shut == attempts = 1 /\ ~Unwritten /\ (finalizing \/ stopped)

Same(x, y) == x.v = y.v => x.done = y.done

ZeroIsEmpty(x) == x.v = 0 => x = Empty

\* Three states of the row: the compare-and-swaps are the only ones that wrote it,
Clean == IInv /\ Chained /\ (FirstRun => OldsInOrder)

\* the projection was the last to,
Rewritten ==
    Shut /\ OldsInOrder /\ Ordered /\ NextExtendsBase /\ fin.snap.v <= live.v

\* or the one old round wrote over it and nothing but its tidying is to come.
Harmless(r) ==
    /\ InFlight(r) => round[r].pc \in {"reorganize", "complete"}
    /\ At(r, "fail") =>
          /\ Same(round[r].base, live) /\ ZeroIsEmpty(round[r].base)
          /\ fin.pc # "idle" => Same(round[r].base, fin.snap)
    /\ At(r, "reorganize") =>
          /\ Same(round[r].next, live) /\ AboveFailed(round[r].next)
          /\ fin.pc # "idle" => Same(round[r].next, fin.snap)

WrittenOver ==
    /\ Shut /\ OneOld /\ \A r \in Slots : Harmless(r)
    /\ ZeroIsEmpty(live) /\ ZeroIsEmpty(fin.snap)

RowIsTracked == attempts <= 1 => Clean \/ Rewritten \/ WrittenOver

RewindIInv == CoverIInv /\ RowIsTracked

-----------------------------------------------------------------------------
(* The first attempt until its projection.                                 *)

\* Until the finals are listed one round is in flight at most.
LEMMA EarlyFlight ==
  ASSUME ListOK, AllAwaited, BeforeList
  PROVE  OneRoundInFlight
  BY DEF ListOK, AllAwaited, BeforeList

\* Once they are, the barrier is up.
LEMMA LaterBarred ==
  ASSUME OneAttempt, Barred, FirstRun, ~BeforeList
  PROVE  finalizing
  BY DEF OneAttempt, Barred, FirstRun, BeforeList, Unwritten, BeforeProjection, Sealed

LEMMA FirstRunBefore ==
  ASSUME FTypes, OneAttempt, [FNext]_fvars, FirstRun'
  PROVE  FirstRun
  <1> USE DEF FirstRun, OneAttempt
  <1>0. attempts \in Nat
    BY FTypeParts, FinalizationAssumption DEF RowsOK
  <1>1. CASE Live
    BY <1>1, LiveLocals DEF LiveMove, BeforeProjection
  <1>2. CASE FinStep
    <2>1. StageMove /\ (fin.pc = "leave" \/ StageKeeps)
      BY <1>2, StageLocals
    <2>2. CASE fin.pc = "leave"
      <3>1. fin'.pc = "idle" /\ fin.pc # "idle" /\ UNCHANGED <<attempts, retry>>
        BY <2>1, <2>2 DEF StageMove, NoFinalizer
      <3> QED
        BY <3>1 DEF BeforeProjection
    <2>3. CASE fin.pc # "leave"
      BY <2>1, <2>3 DEF StageMove, StageKeeps, BeforeProjection
    <2> QED
      BY <2>2, <2>3
  <1>3. CASE Clients
    <2>1. ClientMove
      BY <1>3, ClientMoves
    <2> QED
      BY <1>0, <2>1 DEF ClientMove
  <1>4. CASE FRestart
    BY <1>4 DEF FRestart, NoFinalizer, BeforeProjection
  <1>5. CASE UNCHANGED fvars
    BY <1>5 DEF fvars, fmemory
  <1> QED
    BY <1>1, <1>2, <1>3, <1>4, <1>5, FinalizationSteps

LEMMA BeforeListBefore ==
  ASSUME FTypes, OneAttempt, [FNext]_fvars, BeforeList'
  PROVE  BeforeList
  <1>0. Unwritten /\ Unwritten' /\ fin'.pc \in {"idle", "start", "barrier", "enter", "await"}
        /\ attempts \in Nat
    BY UnwrittenBefore, FTypeParts, FinalizationAssumption DEF BeforeList, RowsOK
  <1> SUFFICES fin.pc \in {"idle", "start", "barrier", "enter", "await"}
    BY <1>0 DEF BeforeList
  <1> USE DEF OneAttempt
  <1>1. CASE Live
    BY <1>0, <1>1, LiveLocals DEF LiveMove
  <1>2. CASE FinStep
    <2>1. StageMove
      BY <1>2, StageLocals
    <2>2. fin.pc # "leave"
      <3> SUFFICES ASSUME fin.pc = "leave" PROVE FALSE
        OBVIOUS
      <3>1. fin'.pc = "idle" /\ UNCHANGED <<attempts, retry>>
        BY <2>1 DEF StageMove, NoFinalizer
      <3> QED
        BY <1>0, <3>1 DEF Unwritten, BeforeProjection
    <2> QED
      BY <1>0, <2>1, <2>2 DEF StageMove
  <1>3. CASE Clients
    <2>1. ClientMove
      BY <1>3, ClientMoves
    <2> QED
      BY <1>0, <2>1 DEF ClientMove, Unwritten
  <1>4. CASE FRestart
    <2>1. attempts' = attempts /\ fin'.pc = "idle" /\ retry' = "none"
      BY <1>4 DEF FRestart, NoFinalizer
    <2>2. attempts = 0
      BY <1>0, <2>1 DEF Unwritten, BeforeProjection
    <2> QED
      BY <2>2
  <1>5. CASE UNCHANGED fvars
    BY <1>0, <1>5 DEF fvars, fmemory
  <1> QED
    BY <1>1, <1>2, <1>3, <1>4, <1>5, FinalizationSteps

LEMMA OneRoundMoves ==
  ASSUME TypeOK, LiveStep
  PROVE  \/ round' = round /\ live' = live /\ last'.v >= last.v
         \/ \E r \in Slots : DispatchSeals(r)
         \/ \E r \in Slots : RoundStep(r)
  <1>1. CASE QuietStep
    BY <1>1, QuietSteps, LastAdvances DEF RoundStep
  <1>2. CASE RecoveryStarts \/ RecoveryStep
    BY <1>2, RecoveryEffects, LastAdvances DEF RoundStep
  <1> QED
    BY <1>1, <1>2 DEF LiveStep, Dispatch, QuietStep

\* What a round has in hand only gets newer, and starts from memory.
RoundAdvance(r) ==
    /\ \A q \in Slots \ {r} : round'[q] = round[q]
    /\ last'.v >= last.v \/ (At(r, "complete") /\ last' = round[r].base)
    /\ At(r, "fail")' => /\ At(r, "call") /\ last' = last /\ round'[r].base = round[r].base
                         /\ Finish(r)
    /\ Working(r)' => \/ Working(r) /\ InHand(r)'.v >= InHand(r).v
                      \/ At(r, "call")' /\ InHand(r)'.v >= last.v
    /\ At(r, "call")' => round'[r].base = last'

LEMMA RoundAdvances ==
  ASSUME TypeOK, NextExtendsBase, NEW r \in Slots, RoundStep(r)
  PROVE  RoundAdvance(r)
  <1>0. /\ round \in [Slots -> Round] /\ round[r] \in Round
        /\ round[r].base \in Snapshot /\ round[r].next \in Snapshot
        /\ last \in Snapshot /\ live \in Snapshot
    BY DEF TypeOK, Round
  <1>s. round[r].base.v \in Nat /\ round[r].next.v \in Nat /\ last.v \in Nat /\ live.v \in Nat
    BY <1>0 DEF Snapshot
  <1> USE DEF RoundAdvance, Working, InHand, At, Round, memory
  <1>1. CASE RoundStarts(r)
    <2>1. round'[r].base = last /\ last' = last /\ round'[r].pc \in {"call", "lookup", "seed"}
          /\ \A q \in Slots \ {r} : round'[q] = round[q]
      BY <1>0, <1>1 DEF RoundStarts
    <2> QED
      BY <1>s, <2>1
  <1>2. CASE RoundLooksUp(r)
    BY <1>0, <1>s, <1>2 DEF RoundLooksUp, Goto
  <1>3. CASE RoundSeeds(r)
    <2>1. Newest(round[r].base).v >= last.v
      BY <1>s DEF Newest
    <2> QED
      BY <1>0, <1>3, <2>1 DEF RoundSeeds
  <1>4. CASE ProviderAnswers(r)
    <2>1. PICK next : round' = [round EXCEPT ![r].pc = "check", ![r].next = next]
      BY <1>4 DEF ProviderAnswers
    <2> QED
      BY <1>0, <1>s, <1>4, <2>1 DEF ProviderAnswers
  <1>5. CASE ProviderFails(r)
    BY <1>0, <1>s, <1>5 DEF ProviderFails, Goto
  <1>6. CASE RoundPersistsFailure(r)
    BY <1>0, <1>s, <1>6 DEF RoundPersistsFailure, Goto, Leave, IdleRound
  <1>7. CASE RoundReloadsAfterFailure(r)
    BY <1>0, <1>s, <1>7 DEF RoundReloadsAfterFailure, Leave, IdleRound
  <1>8. CASE RoundChecksBarrier(r)
    BY <1>0, <1>s, <1>8 DEF RoundChecksBarrier, Goto, Leave, IdleRound
  <1>9. CASE RoundPersists(r)
    <2>1. round[r].next.v = round[r].base.v + 1
      BY <1>9 DEF RoundPersists, NextExtendsBase, Extends
    <2> QED
      BY <1>0, <1>s, <1>9, <2>1 DEF RoundPersists, Goto, Leave, IdleRound
  <1>10. CASE RoundReloads(r)
    BY <1>0, <1>s, <1>10 DEF RoundReloads, Leave, IdleRound
  <1>11. CASE RoundReorganizes(r)
    <2> DEFINE done == round[r].next
               tidy == [done EXCEPT !.v = done.v + 1]
    <2>1. \/ round' = [round EXCEPT ![r].pc = "complete", ![r].base = done]
          \/ round' = [round EXCEPT ![r].pc = "complete", ![r].base = tidy]
          \/ live.v > done.v /\ round' = [round EXCEPT ![r].pc = "complete", ![r].base = live]
      BY <1>11 DEF RoundReorganizes
    <2>2. tidy.v = done.v + 1
      BY <1>0 DEF Snapshot
    <2>3. PICK base : base.v >= done.v /\ round' = [round EXCEPT ![r].pc = "complete", ![r].base = base]
      <3> HIDE DEF tidy
      <3> QED
        BY <1>s, <2>1, <2>2
    <2>4. last' = last /\ round[r].pc = "reorganize"
      BY <1>11 DEF RoundReorganizes
    <2>5. round'[r].pc = "complete" /\ round'[r].base = base
      BY <1>0, <2>3
    <2> HIDE DEF done, tidy
    <2> QED
      BY <1>0, <1>s, <2>3, <2>4, <2>5 DEF done
  <1>12. CASE RoundCompletes(r)
    BY <1>0, <1>12 DEF RoundCompletes, Leave, IdleRound
  <1> QED
    BY <1>1, <1>2, <1>3, <1>4, <1>5, <1>6, <1>7, <1>8, <1>9, <1>10, <1>11, <1>12 DEF RoundStep

\* Which rounds are the flush changes with the flush only.
LEMMA OldsBefore ==
  ASSUME FTypes, OneAttempt, attempts <= 1,
         (Live /\ \A r \in Slots : ~DispatchSeals(r)) \/ FinStep \/ Clients
  PROVE  \A r \in Slots : /\ Old(r)' => Old(r)
                          /\ At(r, "fail")' /\ ~Flushing(r)' =>
                                ~Flushing(r) /\ round[r].pc \in {"fail", "call"}
  <1> USE DEF Old, Flushing, InFlight, At
  <1>0. TypeOK
    BY FTypeParts
  <1>1. CASE Live /\ \A r \in Slots : ~DispatchSeals(r)
    <2>1. LiveMove
      BY <1>1, LiveLocals
    <2>2. \A r \in Slots : InFlight(r)' => InFlight(r)
      <3>1. ASSUME NEW r \in Slots, RoundStep(r)
            PROVE  \A q \in Slots : InFlight(q)' => InFlight(q)
        BY <1>0, <3>1, FlagEffects, RoundEffects DEF RoundEffect, FlagEffect
      <3> QED
        BY <1>0, <1>1, <3>1, OneRoundMoves DEF Live
    <2>3. \A r \in Slots : round'[r].pc = "fail" => round[r].pc \in {"fail", "call"}
      <3>1. ASSUME NEW r \in Slots, RoundStep(r)
            PROVE  round'[r].pc = "fail" => round[r].pc = "call"
        BY <1>0, <3>1 DEF RoundStep, RoundStarts, RoundLooksUp, RoundSeeds, ProviderAnswers,
           ProviderFails, RoundPersistsFailure, RoundReloadsAfterFailure, RoundChecksBarrier,
           RoundPersists, RoundReloads, RoundReorganizes, RoundCompletes, Goto, Leave, IdleRound,
           TypeOK, Round
      <3>2. ASSUME NEW r \in Slots, RoundStep(r), NEW q \in Slots \ {r}
            PROVE  round'[q] = round[q]
        BY <1>0, <3>2, RoundEffects DEF RoundEffect
      <3> QED
        BY <1>0, <1>1, <3>1, <3>2, OneRoundMoves DEF Live
    <2>4. \A r \in Slots : Flushing(r) /\ ~Flushing(r)' => round'[r].pc = "idle"
      BY <2>1 DEF LiveMove, Returns
    <2> QED
      BY <2>2, <2>3, <2>4
  <1>2. CASE FinStep \/ Clients
    <2>1. StageRounds
      BY <1>2, StageRoundsMove
    <2>2. fin.pc = "flush" => fin' = fin
      <3>1. CASE FinStep
        BY <3>1, StageLocals DEF StageMove
      <3>2. CASE Clients
        BY <3>2, ClientMoves DEF ClientMove, OneAttempt
      <3> QED
        BY <1>2, <3>1, <3>2
    <2> QED
      BY <2>1, <2>2 DEF StageRounds
  <1> QED
    BY <1>1, <1>2

LEMMA OldsLive ==
  ASSUME FTypes, FTypes', OneAttempt, attempts <= 1, NextExtendsBase, OldsInOrder, Live,
         BeforeList => OneRoundInFlight, ~BeforeList => finalizing \/ stopped
  PROVE  OldsInOrder'
  <1>0. TypeOK /\ TypeOK'
    BY FTypeParts
  <1>a. LiveMove
    BY LiveLocals
  <1>b. BeforeList' => BeforeList
    BY BeforeListBefore DEF FNext
  <1>s. /\ last.v \in Nat /\ last'.v \in Nat /\ fin.got.v \in Nat /\ fin.snap.v \in Nat
        /\ \A q \in Slots : /\ round[q].base.v \in Nat /\ round'[q].base.v \in Nat
                            /\ InHand(q).v \in Nat /\ InHand(q)'.v \in Nat
    BY <1>0, FTypeParts DEF TypeOK, Round, Snapshot, InHand, Finalizer
  <1>1. CASE \E r \in Slots : DispatchSeals(r)
    <2>0. PICK r \in Slots : DispatchSeals(r)
      BY <1>1
    <2>1. BeforeList /\ OneRoundInFlight /\ ~running
      BY <2>0 DEF DispatchSeals, Sealable
    <2>2. \A q \in Slots : ~InFlight(q) /\ ~Flushing(q)
      BY <2>1 DEF OneRoundInFlight, BeforeList, Flushing
    <2>3. /\ \A q \in Slots \ {r} : round'[q] = round[q]
          /\ round'[r].pc = "start" /\ last' = last
      BY <1>0, <2>0, SealEffect
    <2>4. /\ AboveFailed(last)
          /\ fin.pc \in {"adopt", "readopt"} => AboveFailed(fin.got)
          /\ fin.pc \in {"readopt", "open", "project", "remember"} => AboveFailed(fin.snap)
      BY <2>1 DEF OldsInOrder, FailedAreOlder
    <2>5. \A q \in Slots : ~Flushing(q)' /\ ~Working(q)' /\ (InFlight(q)' => q = r)
                           /\ (At(q, "fail")' => At(q, "fail") /\ round'[q] = round[q])
      BY <1>a, <2>1, <2>2, <2>3 DEF LiveMove, Flushing, Working, InFlight, At, BeforeList
    <2>6. OneOld'
      BY <2>5 DEF OneOld, Old
    <2>7. AboveFailed(last)'
      BY <2>2, <2>3, <2>4, <2>5 DEF AboveFailed
    <2>8. ~At(r, "call")' /\ (\A q \in Slots : ~At(q, "call")')
      BY <2>5 DEF Working, At
    <2>9. fin'.pc = fin.pc /\ fin.pc \notin {"adopt", "readopt", "open", "project", "remember"}
      BY <1>a, <2>1 DEF LiveMove, BeforeList
    <2> QED
      BY <2>5, <2>6, <2>7, <2>8, <2>9 DEF OldsInOrder, FailedAreOlder
  <1>2. CASE \A r \in Slots : ~DispatchSeals(r)
    <2>1. \A r \in Slots : /\ Old(r)' => Old(r)
                           /\ At(r, "fail")' /\ ~Flushing(r)' =>
                                 ~Flushing(r) /\ round[r].pc \in {"fail", "call"}
      BY <1>2, OldsBefore
    <2>2. OneOld'
      BY <2>1 DEF OldsInOrder, OneOld
    <2> SUFFICES ASSUME BeforeList' \/ \E r \in Slots : Old(r)'
                 PROVE  /\ AboveFailed(last)'
                        /\ \A r \in Slots : Working(r)' => AboveFailed(InHand(r))'
                        /\ \A r \in Slots : BeforeList' /\ At(r, "call")'
                                              => round'[r].base.v <= last'.v
                        /\ fin'.pc \in {"adopt", "readopt"} => AboveFailed(fin.got)'
                        /\ fin'.pc \in {"readopt", "open", "project", "remember"}
                              => AboveFailed(fin.snap)'
      BY <2>2 DEF OldsInOrder, FailedAreOlder
    <2>3. /\ AboveFailed(last)
          /\ \A r \in Slots : Working(r) => AboveFailed(InHand(r))
          /\ \A r \in Slots : BeforeList /\ At(r, "call") => round[r].base.v <= last.v
          /\ fin.pc \in {"adopt", "readopt"} => AboveFailed(fin.got)
          /\ fin.pc \in {"readopt", "open", "project", "remember"} => AboveFailed(fin.snap)
      BY <1>b, <2>1 DEF OldsInOrder, FailedAreOlder
    <2>4. \/ \E r \in Slots : RoundStep(r) /\ RoundAdvance(r)
          \/ round' = round /\ last'.v >= last.v
      BY <1>0, <1>2, OneRoundMoves, RoundAdvances DEF Live
    <2>5. \A q \in Slots : At(q, "fail")' => round'[q].base = round[q].base
      BY <2>4 DEF RoundAdvance, At
    \* A round that fails in this step is not the old one that is left.
    <2>6. \A q \in Slots : At(q, "fail")' /\ ~Flushing(q)' /\ At(q, "call") => BeforeList
      <3> SUFFICES ASSUME NEW q \in Slots, At(q, "fail")', ~Flushing(q)', At(q, "call"),
                          NEW r \in Slots, Old(r)'
                   PROVE  FALSE
        BY <1>b
      <3>1. Old(q) /\ Old(r)
        BY <2>1 DEF Old, InFlight, At
      <3>2. q # r
        BY DEF Old, InFlight, At
      <3> QED
        BY <3>1, <3>2 DEF OldsInOrder, OneOld
    <2>7. ASSUME NEW x, x.v \in Nat, AboveFailed(x), NEW y, y.v \in Nat, y.v >= x.v,
                 \A q \in Slots : At(q, "fail")' /\ ~Flushing(q)' /\ At(q, "call")
                    => round[q].base.v <= y.v
          PROVE  \A q \in Slots : At(q, "fail")' /\ ~Flushing(q)' => round'[q].base.v <= y.v
      BY <1>s, <2>1, <2>5, <2>7 DEF AboveFailed, At
    <2>8. \A q \in Slots : At(q, "fail")' /\ ~Flushing(q)' /\ At(q, "call")
             => BeforeList /\ round[q].base.v <= last.v
      BY <2>3, <2>6
    <2>9. \A r, q \in Slots : At(q, "fail")' /\ ~Flushing(q)' /\ At(q, "call") /\ InFlight(r) => r = q
      <3> SUFFICES ASSUME NEW r \in Slots, NEW q \in Slots, At(q, "call"), InFlight(r), BeforeList
                   PROVE  r = q
        BY <2>6
      <3> QED
        BY DEF OneRoundInFlight, InFlight, At
    <2>10. AboveFailed(last)'
      <3>1. CASE last'.v >= last.v
        <4>1. \A q \in Slots : At(q, "fail")' /\ ~Flushing(q)' /\ At(q, "call")
                 => round[q].base.v <= last'.v
          BY <1>s, <2>8, <3>1
        <4> QED
          BY <1>s, <2>3, <2>7, <3>1, <4>1 DEF AboveFailed
      <3>2. CASE ~(last'.v >= last.v)
        <4>1. PICK r \in Slots : /\ At(r, "complete") /\ last' = round[r].base
                                 /\ \A q \in Slots \ {r} : round'[q] = round[q]
                                 /\ At(r, "fail")' => At(r, "call")
          BY <2>4, <3>2 DEF RoundAdvance
        <4>2. AboveFailed(round[r].base)
          BY <2>3, <4>1 DEF Working, InHand, At
        <4>3. \A q \in Slots : At(q, "fail")' => ~At(q, "call")
          BY <4>1 DEF At
        <4>4. \A q \in Slots : At(q, "fail")' /\ ~Flushing(q)' => round'[q].base.v <= round[r].base.v
          BY <1>s, <2>7, <4>2, <4>3
        <4> QED
          BY <4>1, <4>4 DEF AboveFailed
      <3> QED
        BY <3>1, <3>2
    <2>11. ASSUME NEW r \in Slots, Working(r)' PROVE AboveFailed(InHand(r))'
      <3>1. CASE Working(r) /\ InHand(r)'.v >= InHand(r).v
        <4>1. ASSUME NEW q \in Slots, At(q, "fail")', ~Flushing(q)', At(q, "call") PROVE FALSE
          <5>1. r = q
            BY <2>9, <3>1, <4>1 DEF Working, InFlight
          <5> QED
            BY <2>11, <4>1, <5>1 DEF Working, At
        <4>2. AboveFailed(InHand(r))
          BY <2>3, <3>1
        <4>3. \A q \in Slots : At(q, "fail")' /\ ~Flushing(q)' => round'[q].base.v <= InHand(r)'.v
          BY <1>s, <2>7, <3>1, <4>1, <4>2
        <4> QED
          BY <4>3 DEF AboveFailed
      <3>2. CASE InHand(r)'.v >= last.v
        <4>1. \A q \in Slots : At(q, "fail")' /\ ~Flushing(q)' /\ At(q, "call")
                 => round[q].base.v <= InHand(r)'.v
          BY <1>s, <2>8, <3>2
        <4>2. \A q \in Slots : At(q, "fail")' /\ ~Flushing(q)' => round'[q].base.v <= InHand(r)'.v
          BY <1>s, <2>3, <2>7, <3>2, <4>1
        <4> QED
          BY <4>2 DEF AboveFailed
      <3>3. CASE round'[r] = round[r]
        <4>1. Working(r) /\ InHand(r)' = InHand(r)
          BY <2>11, <3>3 DEF Working, InHand, At
        <4> QED
          BY <1>s, <3>1, <4>1
      <3> QED
        BY <2>4, <2>11, <3>1, <3>2, <3>3 DEF RoundAdvance
    <2>12. ASSUME NEW r \in Slots, BeforeList', At(r, "call")' PROVE round'[r].base.v <= last'.v
      <3>0. BeforeList /\ OneRoundInFlight
        BY <1>b, <2>12
      <3>1. CASE round'[r].base = last'
        BY <1>s, <3>1
      <3>2. CASE round'[r] = round[r]
        <4>1. round[r].base.v <= last.v /\ InFlight(r)
          BY <2>3, <2>12, <3>0, <3>2 DEF At, InFlight
        <4>2. last'.v >= last.v
          <5> SUFFICES ASSUME NEW q \in Slots, At(q, "complete") PROVE FALSE
            BY <2>4 DEF RoundAdvance
          <5>1. q = r
            BY <3>0, <4>1 DEF OneRoundInFlight, InFlight, At
          <5> QED
            BY <2>12, <3>2, <5>1 DEF At
        <4> QED
          BY <1>s, <3>2, <4>1, <4>2
      <3> QED
        BY <2>4, <2>12, <3>1, <3>2 DEF RoundAdvance
    <2>13. /\ fin'.pc \in {"adopt", "readopt"} => fin'.pc = fin.pc /\ fin'.got = fin.got
           /\ fin'.pc \in {"readopt", "open", "project", "remember"}
                 => fin'.pc = fin.pc /\ fin'.snap = fin.snap
      BY <1>a DEF LiveMove
    <2>14. fin.pc \in {"adopt", "readopt", "open", "project", "remember"} => ~BeforeList
      BY DEF BeforeList
    <2>15. fin'.pc \in {"adopt", "readopt"} => AboveFailed(fin.got)'
      BY <1>s, <2>3, <2>6, <2>7, <2>13, <2>14 DEF AboveFailed
    <2>16. fin'.pc \in {"readopt", "open", "project", "remember"} => AboveFailed(fin.snap)'
      BY <1>s, <2>3, <2>6, <2>7, <2>13, <2>14 DEF AboveFailed
    <2> QED
      BY <2>10, <2>11, <2>12, <2>15, <2>16
  <1> QED
    BY <1>1, <1>2

LEMMA OldsStage ==
  ASSUME FTypes, OneAttempt, OldsInOrder, FinStep \/ Clients, attempts <= 1,
         fin.pc \in {"read", "reread"} => last.v <= live.v
  PROVE  OldsInOrder'
  <1>0. /\ TypeOK /\ fin \in Finalizer
        /\ last.v \in Nat /\ live.v \in Nat /\ fin.snap.v \in Nat
        /\ \A q \in Slots : round[q].base.v \in Nat
    BY FTypeParts DEF TypeOK, Finalizer, Round, Snapshot
  <1>1. StageRounds
    BY StageRoundsMove
  <1>2. \A r \in Slots : /\ Old(r)' => Old(r)
                         /\ At(r, "fail")' /\ ~Flushing(r)' => At(r, "fail") /\ ~Flushing(r)
                                                                /\ round'[r].base = round[r].base
    BY <1>1, OldsBefore DEF StageRounds, At
  <1>3. BeforeList' => BeforeList
    BY BeforeListBefore DEF FNext, Clients
  <1>4. OneOld'
    BY <1>2 DEF OldsInOrder, OneOld
  <1> SUFFICES ASSUME BeforeList' \/ \E r \in Slots : Old(r)'
               PROVE  /\ AboveFailed(last)'
                      /\ \A r \in Slots : Working(r)' => AboveFailed(InHand(r))'
                      /\ \A r \in Slots : BeforeList' /\ At(r, "call")'
                                            => round'[r].base.v <= last'.v
                      /\ fin'.pc \in {"adopt", "readopt"} => AboveFailed(fin.got)'
                      /\ fin'.pc \in {"readopt", "open", "project", "remember"}
                            => AboveFailed(fin.snap)'
    BY <1>4 DEF OldsInOrder, FailedAreOlder
  <1>5. /\ AboveFailed(last)
        /\ \A r \in Slots : Working(r) => AboveFailed(InHand(r))
        /\ \A r \in Slots : BeforeList /\ At(r, "call") => round[r].base.v <= last.v
        /\ fin.pc \in {"adopt", "readopt"} => AboveFailed(fin.got)
        /\ fin.pc \in {"readopt", "open", "project", "remember"} => AboveFailed(fin.snap)
    BY <1>2, <1>3 DEF OldsInOrder, FailedAreOlder
  <1>6. ASSUME NEW x, AboveFailed(x)
        PROVE  \A q \in Slots : At(q, "fail")' /\ ~Flushing(q)' => round'[q].base.v <= x.v
    BY <1>2, <1>6 DEF AboveFailed
  <1>7. AboveFailed(last)'
    <2>1. AboveFailed(last')
      BY <1>1, <1>5 DEF StageRounds
    <2> QED
      BY <1>6, <2>1 DEF AboveFailed
  <1>8. ASSUME NEW r \in Slots, Working(r)' PROVE AboveFailed(InHand(r))'
    <2>1. Working(r) /\ InHand(r)' = InHand(r)
      BY <1>1, <1>8 DEF StageRounds, Working, InHand, At
    <2> QED
      BY <1>5, <1>6, <2>1 DEF AboveFailed
  <1>9. ASSUME NEW r \in Slots, BeforeList', At(r, "call")' PROVE round'[r].base.v <= last'.v
    <2>1. BeforeList /\ At(r, "call") /\ round'[r].base = round[r].base
      BY <1>1, <1>3, <1>9 DEF StageRounds, At
    <2>2. last' = last
      BY <1>1, <2>1 DEF StageRounds, BeforeList
    <2> QED
      BY <1>5, <2>1, <2>2
  \* What a reading takes is no older than memory.
  <1>10. AboveFailed(live) \/ fin.pc \notin {"read", "reread"}
    BY <1>0, <1>5 DEF AboveFailed
  <1>11. ASSUME fin.pc = "reread", FinStep PROVE AboveFailed(fin'.snap)
    <2>1. PICK got \in {live, last} : fin'.snap = Took(got)
      BY <1>11, ReadingStep
    <2>2. fin'.snap.v >= got.v /\ fin'.snap.v \in Nat
      BY <1>0, <2>1 DEF Took
    <2>3. AboveFailed(got)
      BY <1>5, <1>10, <1>11, <2>1
    <2> QED
      BY <1>0, <2>1, <2>2, <2>3 DEF AboveFailed
  <1>12. CASE FinStep
    <2>1. StageMove /\ (fin.pc = "leave" \/ StageKeeps)
      BY <1>12, StageLocals
    <2>2. fin'.pc \in {"adopt", "readopt"} => AboveFailed(fin'.got)
      <3>1. SUFFICES ASSUME fin'.pc \in {"adopt", "readopt"} PROVE AboveFailed(fin'.got)
        OBVIOUS
      <3>2. fin.pc \in {"read", "reread"}
        BY <2>1, <3>1 DEF StageMove, NoFinalizer
      <3>3. fin'.got = live
        BY <1>12, <3>1, <3>2, ReadingStep
      <3> QED
        BY <1>10, <3>2, <3>3
    <2>3. fin'.pc \in {"readopt", "open", "project", "remember"} => AboveFailed(fin'.snap)
      <3>1. SUFFICES ASSUME fin'.pc \in {"readopt", "open", "project", "remember"},
                            fin.pc # "reread"
                     PROVE  AboveFailed(fin'.snap)
        BY <1>11, <1>12
      <3>2. fin.pc \in {"readopt", "open", "project", "remember"} /\ fin'.snap = fin.snap
        BY <2>1, <3>1 DEF StageMove, StageKeeps, NoFinalizer
      <3> QED
        BY <1>5, <3>2
    <2>4. fin'.pc \in {"adopt", "readopt"} => AboveFailed(fin.got)'
      BY <1>6, <2>2 DEF AboveFailed
    <2>5. fin'.pc \in {"readopt", "open", "project", "remember"} => AboveFailed(fin.snap)'
      BY <1>6, <2>3 DEF AboveFailed
    <2> QED
      BY <1>7, <1>8, <1>9, <2>4, <2>5
  <1>13. CASE Clients
    <2>1. fin' = fin \/ fin'.pc = "start"
      BY <1>13, ClientMoves DEF ClientMove, NoFinalizer
    <2>2. fin'.pc \in {"adopt", "readopt"} => AboveFailed(fin.got)'
      BY <1>5, <1>6, <2>1 DEF AboveFailed
    <2>3. fin'.pc \in {"readopt", "open", "project", "remember"} => AboveFailed(fin.snap)'
      BY <1>5, <1>6, <2>1 DEF AboveFailed
    <2> QED
      BY <1>7, <1>8, <1>9, <2>2, <2>3
  <1> QED
    BY <1>12, <1>13


-----------------------------------------------------------------------------
(* What writes the row.                                                    *)

RowWrite(r) ==
    \/ /\ At(r, "fail") /\ live.v = round[r].base.v /\ live' = round[r].base
       /\ round'[r].pc = "idle"
    \/ /\ At(r, "persist") /\ live.v = round[r].base.v /\ live' = round[r].next
       /\ round'[r].pc \in {"reorganize", "idle"}
    \/ /\ At(r, "reorganize") /\ live.v = round[r].next.v
       /\ live' = [round[r].next EXCEPT !.v = round[r].next.v + 1]
       /\ round'[r].pc = "complete"

LEMMA RowWrites ==
  ASSUME TypeOK, LiveStep
  PROVE  live' = live \/ \E r \in Slots : RoundStep(r) /\ RowWrite(r)
  <1>0. round \in [Slots -> Round]
    BY DEF TypeOK
  <1>1. ASSUME NEW r \in Slots, RoundStep(r), live' # live PROVE RowWrite(r)
    <2> USE DEF RowWrite, At, Round, Swap
    <2>1. CASE RoundPersistsFailure(r)
      BY <1>0, <1>1, <2>1 DEF RoundPersistsFailure, Leave, IdleRound
    <2>2. CASE RoundPersists(r)
      BY <1>0, <1>1, <2>2 DEF RoundPersists, LostSwap, Goto, Leave, IdleRound
    <2>3. CASE RoundReorganizes(r)
      BY <1>0, <1>1, <2>3 DEF RoundReorganizes
    <2> QED
      BY <1>1, <2>1, <2>2, <2>3 DEF RoundStep, RoundStarts, RoundLooksUp, RoundSeeds,
         ProviderAnswers, ProviderFails, RoundReloadsAfterFailure, RoundChecksBarrier,
         RoundReloads, RoundCompletes, durable
  <1> QED
    BY <1>1, OneRoundMoves, SealEffect

\* A stage that does is the projection.
LEMMA StageWrites ==
  ASSUME FTypes, FinStep \/ Clients, live' # live
  PROVE  FinStep /\ fin.pc = "project" /\ live' = fin.snap /\ fin'.snap = fin.snap
  <1>1. FinStep
    BY ClientMoves DEF ClientMove
  <1>2. fin.pc = "project"
    BY StagesHandOn DEF StageHandsOn
  <1>3. FinProjects
    BY <1>1, <1>2 DEF FinStep, FinStarts, FinRaisesBarrier, FinEntersWait, FinAwaits,
       FinGivesUpRound, FinLists, FinReadsRow, FinReads, FinAdoptsRow, FinAdopts,
       FinPlansNoFlush, FinFlushes, FinOpensSummary, FinRemembers, FinSavesTree, FinSummarizes,
       FinFails, FinCompletes, FinLeaves, FinAt
  <1>4. fin'.snap = fin.snap
    BY <1>1, <1>2, StageLocals DEF StageKeeps
  <1> QED
    BY <1>1, <1>2, <1>3, <1>4 DEF FinProjects

LEMMA ShutPlaces ==
  ASSUME FTypes, Shut
  PROVE  /\ retry = "none" /\ fin.pc \notin BeforeProjection /\ ~BeforeList
         /\ fin.pc = "project" => fin.pass = 2
         /\ \A r \in Slots : ~Flushing(r)
  <1>1. fin.pass \in 1..2
    BY FTypeParts DEF Finalizer
  <1> QED
    BY <1>1 DEF Shut, Unwritten, BeforeList, Flushing, BeforeProjection

\* The barrier falls only once the session is stopped.
LEMMA ShutStep ==
  ASSUME FTypes, Shut, Live \/ FinStep \/ Clients, attempts' <= 1
  PROVE  Shut'
  <1>0. /\ attempts = 1 /\ retry = "none" /\ fin.pc \notin BeforeProjection
        /\ fin.pc = "project" => fin.pass = 2
        /\ finalizing \/ stopped
    BY ShutPlaces DEF Shut
  <1>1. CASE Live
    <2>1. stopped => stopped'
      BY <1>1 DEF Live, LiveStep, IngestStores, PublishTranscriptSegment, ContextPlanned,
         SessionCloses, TimerFires, DispatchTooEarly, Dispatch, DispatchReturns, DispatchSeals,
         RoundStep, RoundStarts, RoundLooksUp, RoundSeeds, ProviderAnswers, ProviderFails,
         RoundPersistsFailure, RoundReloadsAfterFailure, RoundChecksBarrier, RoundPersists,
         RoundReloads, RoundReorganizes, RoundCompletes, RecoveryStarts, RecoveryStep,
         RecoveryLooksUp, RecoverySeeds, RecoveryLists, RecoveryMerges, BootRecovers, durable,
         memory
    <2> QED
      BY <1>0, <1>1, <2>1, LiveLocals DEF LiveMove, Shut, Unwritten, BeforeProjection
  <1>2. CASE FinStep
    <2>1. stopped' = stopped
      BY <1>2 DEF FinStep, FinStarts, FinRaisesBarrier, FinEntersWait, FinAwaits,
         FinGivesUpRound, FinLists, FinReadsRow, FinReads, FinAdoptsRow, FinAdopts,
         FinPlansNoFlush, FinFlushes, FinOpensSummary, FinProjects, FinRemembers, FinSavesTree,
         FinSummarizes, FinFails, FinCompletes, FinLeaves, LiveUnchanged, memory
    <2>2. StageMove /\ (fin.pc = "leave" \/ StageKeeps)
      BY <1>2, StageLocals
    <2>3. finalizing' = finalizing
      <3>1. CASE fin.pc = "leave"
        BY <1>2, <3>1 DEF FinStep, FinStarts, FinRaisesBarrier, FinEntersWait, FinAwaits,
           FinGivesUpRound, FinLists, FinReadsRow, FinReads, FinAdoptsRow, FinAdopts,
           FinPlansNoFlush, FinFlushes, FinOpensSummary, FinProjects, FinRemembers,
           FinSavesTree, FinSummarizes, FinFails, FinCompletes, FinLeaves, FinAt,
           LiveUnchanged, memory
      <3> QED
        BY <1>0, <2>2, <3>1 DEF StageKeeps, BeforeProjection
    <2> QED
      BY <1>0, <2>1, <2>2, <2>3 DEF StageMove, NoFinalizer, Shut, Unwritten, BeforeProjection
  <1>3. CASE Clients
    <2>1. ClientMove
      BY <1>3, ClientMoves
    <2>2. UNCHANGED <<fin, retry, attempts>>
      BY <1>0, <2>1 DEF ClientMove
    <2>3. finalizing' \/ stopped'
      BY <1>0, <1>3 DEF Clients, FinalizationArrives, FinReleasesBarrier, RetryArrives,
         RetryStep, RetryReopens, RetryEnters, LiveUnchanged, memory
    <2> QED
      BY <1>0, <2>2, <2>3 DEF Shut, Unwritten
  <1> QED
    BY <1>1, <1>2, <1>3

\* Nothing that a restart leaves is ahead of the row.
LEMMA RestartCleans ==
  ASSUME FTypes', FRestart, ZeroIsEmpty(live)
  PROVE  Clean'
  <1>1. /\ live' = live /\ last' = Empty /\ recovery'.got = Empty
        /\ fin'.snap = Empty /\ fin'.got = Empty
        /\ \A q \in Slots : round'[q].base = Empty /\ round'[q].pc = "idle" /\ round'[q].segs = {}
        /\ pending' = {} /\ publishing' = {} /\ deferred' = NoRetry /\ recovery'.segs = {}
    BY RestartEffect DEF FRestart, NoFinalizer
  <1>t. TypeOK' /\ live' \in Snapshot
    BY FTypeParts DEF TypeOK
  <1>2. KnownSnapshots' \subseteq {Empty, live'}
    BY <1>1 DEF KnownSnapshots, At
  <1>3. \A x \in {Empty, live'} : Names(x, live')
    <2>1. Names(live', live') /\ live'.v \in Nat
      BY <1>t DEF Names, Snapshot
    <2>2. Empty.v = 0
      BY DEF Empty
    <2>3. Names(Empty, live')
      BY <1>1, <2>1, <2>2 DEF Names, ZeroIsEmpty
    <2> QED
      BY <2>1, <2>3
  <1>4. Ordered'
    <2>1. \A x, y \in {Empty, live'} : x.v <= y.v => x.done \subseteq y.done
      BY <1>1, <1>t DEF ZeroIsEmpty, Empty, Snapshot
    <2>2. \A x \in {Empty, live'} : x.v = 0 => x = Empty
      BY <1>1 DEF ZeroIsEmpty
    <2> QED
      BY <1>2, <2>1, <2>2 DEF Ordered
  <1>5. Chained'
    BY <1>2, <1>3, <1>4 DEF Chained
  <1>6. KnownVersions'
    BY <1>1, <1>3 DEF KnownVersions, VersionNamesPayload, At
  <1>7. NextExtendsBase' /\ OnlyStored'
    BY <1>1 DEF NextExtendsBase, OnlyStored, NoRetry
  <1>8. OldsInOrder'
    BY <1>1 DEF OldsInOrder, OneOld, FailedAreOlder, Old, InFlight, AboveFailed, Working, At
  <1> QED
    BY <1>t, <1>5, <1>6, <1>7, <1>8 DEF Clean, IInv

-----------------------------------------------------------------------------
(* The row is tracked, state by state.                                     *)

\* Nothing of it changes in a step that changes nothing.
LEMMA TrackedStutters ==
  ASSUME UNCHANGED fvars
  PROVE  /\ (Clean => Clean') /\ (Rewritten => Rewritten') /\ (WrittenOver => WrittenOver')
  <1>1. /\ UNCHANGED <<stored, live, session, publishing, known, pending, deferred, last, seeded,
                       running, owner, timer, blocked, context, finalizing, stopped, recovery,
                       round, booting, faults, crashes, fin, retry, attempts>>
    BY DEF fvars, vars, durable, memory, bounds, fmemory
  <1>2. KnownSnapshots' = KnownSnapshots
    BY <1>1 DEF KnownSnapshots, At
  <1>3. (Ordered => Ordered') /\ (Chained => Chained')
    BY <1>1, <1>2 DEF Ordered, Chained
  <1>4. (\A r \in Slots : InFlight(r)' = InFlight(r) /\ Flushing(r)' = Flushing(r))
        /\ (OneOld => OneOld')
    BY <1>1 DEF InFlight, Flushing, OneOld, Old
  <1>5. /\ \A x : AboveFailed(x) => AboveFailed(x)'
        /\ AboveFailed(last) => AboveFailed(last)'
        /\ AboveFailed(fin.got) => AboveFailed(fin.got)'
        /\ AboveFailed(fin.snap) => AboveFailed(fin.snap)'
        /\ \A r \in Slots : AboveFailed(InHand(r)) => AboveFailed(InHand(r))'
        /\ \A r \in Slots : AboveFailed(round[r].next) => AboveFailed(round[r].next)'
    BY <1>1, <1>4 DEF AboveFailed, InHand, At
  <1>6. Unwritten' = Unwritten /\ FirstRun' = FirstRun /\ BeforeList' = BeforeList
    BY <1>1 DEF Unwritten, FirstRun, BeforeList
  <1>7. OldsInOrder => OldsInOrder'
    BY <1>1, <1>4, <1>5, <1>6 DEF OldsInOrder, FailedAreOlder, Old, Working, At
  <1>8. IInv => IInv'
    BY <1>1, InvStep DEF vars, durable, memory, bounds
  <1>9. NextExtendsBase => NextExtendsBase'
    BY <1>1 DEF NextExtendsBase
  <1>10. Shut => Shut'
    BY <1>1, <1>6 DEF Shut
  <1>11. Clean => Clean'
    BY <1>3, <1>6, <1>7, <1>8 DEF Clean
  <1>12. Rewritten => Rewritten'
    BY <1>1, <1>3, <1>7, <1>9, <1>10 DEF Rewritten
  <1>13. \A r \in Slots : Harmless(r) => Harmless(r)'
    BY <1>1, <1>4, <1>5 DEF Harmless, Same, ZeroIsEmpty, At
  <1>14. WrittenOver => WrittenOver'
    BY <1>1, <1>4, <1>10, <1>13 DEF WrittenOver, ZeroIsEmpty
  <1> QED
    BY <1>11, <1>12, <1>14

\* Until the projection, the rows are those of the rounds.
LEMMA CleanStep ==
  ASSUME FTypes, FTypes', OneAttempt, Barred, ListOK, AllAwaited, Clean, [FNext]_fvars,
         attempts' <= 1
  PROVE  Clean' \/ Rewritten'
  <1>0. TypeOK /\ IInv /\ Chained /\ Ordered /\ live \in Snapshot /\ attempts \in Nat
    BY FTypeParts, FinalizationAssumption DEF Clean, Chained, TypeOK, RowsOK
  <1>1. CASE Live
    <2>1. IInv' /\ Chained'
      BY <1>0, <1>1, ChainedStep
    <2>2. ASSUME FirstRun' PROVE OldsInOrder'
      <3>1. FirstRun /\ OldsInOrder
        BY <2>2, FirstRunBefore DEF Clean
      <3>2. attempts <= 1
        BY <1>0, <3>1 DEF FirstRun
      <3>3. BeforeList => OneRoundInFlight
        BY EarlyFlight
      <3>4. ~BeforeList => finalizing
        BY <3>1, LaterBarred
      <3> QED
        BY <1>0, <1>1, <3>1, <3>2, <3>3, <3>4, OldsLive DEF IInv
    <2> QED
      BY <2>1, <2>2 DEF Clean
  <1>2. CASE FinStep \/ Clients
    <2>a. attempts <= 1
      <3>1. CASE FinStep
        BY <3>1, StageLocals DEF StageMove
      <3>2. CASE Clients
        BY <1>0, <3>2, ClientMoves DEF ClientMove
      <3> QED
        BY <1>2, <3>1, <3>2
    <2>b. last.v <= live.v
      BY <1>0 DEF Chained, KnownSnapshots, Names
    <2>1. CASE live' = live
      <3>1. IInv' /\ Chained'
        BY <1>0, <1>2, <2>1, ChainedStep
      <3>2. ASSUME FirstRun' PROVE OldsInOrder'
        <4>1. OldsInOrder
          BY <3>2, FirstRunBefore DEF Clean
        <4> QED
          BY <1>2, <2>a, <2>b, <4>1, OldsStage
      <3> QED
        BY <3>1, <3>2 DEF Clean
    <2>2. CASE live' # live
      <3>1. FinStep /\ fin.pc = "project" /\ live' = fin.snap /\ fin'.snap = fin.snap
        BY <1>2, <2>2, StageWrites
      <3>2. StageMove /\ StageKeeps
        BY <3>1, StageLocals
      <3>3. attempts = 1 /\ retry = "none" /\ finalizing
        BY <1>0, <2>a, <3>1 DEF OneAttempt, Barred, Sealed
      <3>4. Shut'
        BY <3>1, <3>2, <3>3 DEF StageMove, StageKeeps, Shut, Unwritten, BeforeProjection
      <3>5. OldsInOrder'
        <4>1. FirstRun
          BY <3>1, <3>3 DEF FirstRun
        <4>2. OldsInOrder
          BY <4>1 DEF Clean
        <4> QED
          BY <1>2, <2>a, <2>b, <4>2, OldsStage
      <3>6. Ordered'
        BY <1>0, <1>2, <3>1, StageKnows DEF Ordered
      <3>7. NextExtendsBase'
        BY <1>0, <1>2, StageRoundsMove DEF StageRounds, IInv, NextExtendsBase
      <3>8. fin'.snap.v <= live'.v
        <4>1. fin'.snap.v \in Nat
          BY FTypeParts DEF Finalizer, Snapshot
        <4> QED
          BY <3>1, <4>1
      <3> QED
        BY <3>4, <3>5, <3>6, <3>7, <3>8 DEF Rewritten
    <2> QED
      BY <2>1, <2>2
  <1>3. CASE FRestart
    <2>1. ZeroIsEmpty(live)
      BY <1>0 DEF Ordered, KnownSnapshots, ZeroIsEmpty
    <2> QED
      BY <1>3, <2>1, RestartCleans
  <1>4. CASE UNCHANGED fvars
    BY <1>4, TrackedStutters
  <1> QED
    BY <1>1, <1>2, <1>3, <1>4, FinalizationSteps

\* After the projection, the row is the same or of a round behind it, unless the
\* one old round takes the projection for what it has read.
LEMMA RewrittenLive ==
  ASSUME FTypes, FTypes', OneAttempt, Rewritten, Live, attempts' <= 1
  PROVE  Rewritten' \/ WrittenOver'
  <1>0. /\ TypeOK /\ TypeOK' /\ LiveMove /\ attempts = 1 /\ LiveStep
        /\ fin.snap \in Snapshot /\ live \in Snapshot
        /\ fin.snap \in KnownSnapshots /\ live \in KnownSnapshots
        /\ \A q \in Slots : round[q].base \in KnownSnapshots
    BY FTypeParts, LiveLocals DEF Rewritten, Shut, Live, Finalizer, TypeOK, KnownSnapshots
  <1>a. Shut' /\ OldsInOrder'
    <2>1. Shut'
      BY ShutStep DEF Rewritten
    <2>2. OldsInOrder'
      BY <1>0, ShutPlaces, OldsLive DEF Rewritten, Shut
    <2> QED
      BY <2>1, <2>2
  <1>b. NextExtendsBase' /\ fin'.snap = fin.snap /\ fin'.got = fin.got
    BY <1>0, NextExtendsBaseStep DEF Rewritten, Next, LiveMove
  <1>s. live.v \in Nat /\ fin.snap.v \in Nat /\ fin.snap.v <= live.v
        /\ \A q \in Slots : round[q].base.v \in Nat /\ round[q].next.v \in Nat
    BY <1>0 DEF Snapshot, Rewritten, TypeOK, Round
  <1>1. ASSUME live' \in KnownSnapshots, live'.v = live.v PROVE Rewritten'
    <2>1. KnownSnapshots' \subseteq KnownSnapshots
      BY <1>0, <1>1, <1>b, LiveHandsOn DEF Next
    <2>2. Ordered'
      BY <2>1 DEF Rewritten, Ordered
    <2> QED
      BY <1>1, <1>a, <1>b, <1>s, <2>2 DEF Rewritten
  <1>2. ASSUME NEW r \in Slots, RoundStep(r), RowWrite(r), ~At(r, "fail") PROVE WrittenOver'
    <2>1. Old(r) /\ \A q \in Slots \ {r} : ~InFlight(q)
      <3>1. \A q \in Slots : ~Flushing(q)
        BY ShutPlaces DEF Rewritten
      <3> QED
        BY <1>2, <3>1 DEF RowWrite, Rewritten, OldsInOrder, OneOld, Old, InFlight, At
    <2>2. \A q \in Slots \ {r} : round'[q] = round[q]
      BY <1>0, <1>2, RoundEffects DEF RoundEffect
    <2>3. AboveFailed(InHand(r))
      BY <1>2, <2>1 DEF RowWrite, Rewritten, OldsInOrder, FailedAreOlder, Working, At
    <2>4. live'.v > InHand(r).v /\ live'.v > live.v /\ InHand(r).v \in Nat /\ live'.v \in Nat
      <3>1. CASE At(r, "persist") /\ live.v = round[r].base.v /\ live' = round[r].next
        <4>1. round[r].next.v = round[r].base.v + 1
          BY <3>1 DEF Rewritten, NextExtendsBase, Extends, At
        <4> QED
          BY <1>s, <3>1, <4>1 DEF InHand, At
      <3>2. CASE /\ At(r, "reorganize") /\ live.v = round[r].next.v
                 /\ live' = [round[r].next EXCEPT !.v = round[r].next.v + 1]
        <4>1. live'.v = round[r].next.v + 1
          BY <1>0, <3>2 DEF TypeOK, Round, Snapshot
        <4> QED
          BY <1>s, <3>2, <4>1 DEF InHand
      <3> QED
        BY <1>2, <3>1, <3>2 DEF RowWrite
    <2>5. \A q \in Slots : ~Flushing(q) /\ ~Flushing(q)'
      BY <1>a, FTypeParts, ShutPlaces DEF Rewritten, Shut, Unwritten, Flushing, BeforeProjection
    <2>6. \A q \in Slots : At(q, "fail")' => q # r /\ At(q, "fail")
      <3>1. round'[r].pc # "fail"
        BY <1>2 DEF RowWrite
      <3> QED
        BY <2>2, <3>1 DEF At
    <2>7. \A q \in Slots \ {r} : At(q, "fail") => round[q].base.v <= InHand(r).v
      BY <2>3, <2>5 DEF AboveFailed
    <2>8. ASSUME NEW q \in Slots \ {r} PROVE Harmless(q)'
      <3>1. ~InFlight(q)' /\ ~At(q, "reorganize")'
        BY <2>1, <2>2 DEF InFlight, At
      <3>2. ASSUME At(q, "fail")
            PROVE  /\ Same(round[q].base, live') /\ ZeroIsEmpty(round[q].base)
                   /\ Same(round[q].base, fin.snap)
        <4>1. round[q].base.v < live'.v
          BY <1>s, <2>4, <2>7, <3>2
        <4>2. Same(round[q].base, live')
          BY <1>s, <2>4, <4>1 DEF Same
        <4>3. ZeroIsEmpty(round[q].base)
          BY <1>0 DEF Rewritten, Ordered, ZeroIsEmpty
        <4>4. Same(round[q].base, fin.snap)
          <5>1. \A x, y \in KnownSnapshots : x.v <= y.v => x.done \subseteq y.done
            BY DEF Rewritten, Ordered
          <5>2. round[q].base \in KnownSnapshots /\ fin.snap \in KnownSnapshots
            BY <1>0
          <5>3. ASSUME round[q].base.v = fin.snap.v PROVE round[q].base.done = fin.snap.done
            <6>1. round[q].base.v <= fin.snap.v /\ fin.snap.v <= round[q].base.v
              BY <1>s, <5>3
            <6>2. round[q].base.done \subseteq fin.snap.done
              BY <5>1, <5>2, <6>1
            <6>3. fin.snap.done \subseteq round[q].base.done
              BY <5>1, <5>2, <6>1
            <6> QED
              BY <6>2, <6>3
          <5> QED
            BY <5>3 DEF Same
        <4> QED
          BY <4>2, <4>3, <4>4
      <3> QED
        BY <1>b, <2>2, <3>1, <3>2 DEF Harmless, At, Same, ZeroIsEmpty
    <2>9. Harmless(r)'
      <3>0. round'[r].pc \in {"reorganize", "idle", "complete"}
        BY <1>2 DEF RowWrite
      <3>1. ASSUME round'[r].pc = "reorganize"
            PROVE  /\ Same(round'[r].next, live') /\ Same(round'[r].next, fin'.snap)
                   /\ AboveFailed(round[r].next)'
        <4>1. round'[r].next = live'
          BY <1>0, <1>2, <3>1, RoundEffects DEF RoundEffect
        <4>2. Same(live', fin'.snap)
          BY <1>b, <1>s, <2>4 DEF Same
        <4>3. \A q \in Slots : At(q, "fail")' => round'[q].base.v <= live'.v
          BY <1>s, <2>2, <2>4, <2>6, <2>7
        <4> QED
          BY <4>1, <4>2, <4>3 DEF Same, AboveFailed
      <3> QED
        BY <3>0, <3>1 DEF Harmless, InFlight, At
    <2>10. ZeroIsEmpty(live)' /\ ZeroIsEmpty(fin.snap)'
      <3>1. ZeroIsEmpty(fin.snap)
        BY <1>0 DEF Rewritten, Ordered, ZeroIsEmpty
      <3> QED
        BY <1>b, <1>s, <2>4, <3>1 DEF ZeroIsEmpty
    <2> QED
      BY <1>a, <2>8, <2>9, <2>10 DEF WrittenOver, OldsInOrder
  <1>3. ASSUME NEW r \in Slots, RowWrite(r), At(r, "fail") PROVE Rewritten'
    BY <1>0, <1>1, <1>3 DEF RowWrite, At
  <1> QED
    BY <1>0, <1>1, <1>2, <1>3, RowWrites

LEMMA RewrittenStep ==
  ASSUME FTypes, FTypes', OneAttempt, Rewritten, [FNext]_fvars, attempts' <= 1
  PROVE  Clean' \/ Rewritten' \/ WrittenOver'
  <1>0. /\ live.v \in Nat /\ fin.snap.v \in Nat /\ fin'.snap \in Snapshot
        /\ fin.snap.v <= live.v /\ attempts = 1 /\ live \in KnownSnapshots
        /\ retry = "none" /\ fin.pc \notin BeforeProjection
    BY FTypeParts, ShutPlaces DEF TypeOK, Finalizer, Snapshot, Rewritten, Shut, KnownSnapshots
  <1>1. CASE Live
    BY <1>1, RewrittenLive
  <1>2. CASE FinStep \/ Clients
    <2>1. Shut'
      BY <1>2, ShutStep DEF Rewritten
    <2>2. OldsInOrder'
      BY <1>0, <1>2, OldsStage DEF Rewritten, BeforeProjection
    <2>3. live' \in {live, fin.snap} /\ (live' # live => fin'.snap = live')
      BY <1>2, StageWrites
    <2>4. Ordered'
      BY <1>2, <2>3, StageKnows DEF Rewritten, Ordered
    <2>5. NextExtendsBase'
      BY <1>2, StageRoundsMove DEF StageRounds, Rewritten, NextExtendsBase
    <2>6. fin'.snap \in {fin.snap, Empty}
      <3>1. CASE FinStep
        <4>1. StageMove /\ (fin.pc = "leave" \/ StageKeeps)
          BY <3>1, StageLocals
        <4> QED
          BY <1>0, <4>1 DEF StageMove, StageKeeps, NoFinalizer, BeforeProjection
      <3>2. CASE Clients
        BY <1>0, <3>2, ClientMoves DEF ClientMove
      <3> QED
        BY <1>2, <3>1, <3>2
    <2>7. fin'.snap.v <= live'.v
      <3>1. CASE live' = live
        BY <1>0, <2>6, <3>1 DEF Empty
      <3>2. CASE live' # live
        BY <1>0, <2>3, <3>2 DEF Snapshot
      <3> QED
        BY <3>1, <3>2
    <2> QED
      BY <2>1, <2>2, <2>4, <2>5, <2>7 DEF Rewritten
  <1>3. CASE FRestart
    <2>1. ZeroIsEmpty(live)
      BY <1>0 DEF Rewritten, Ordered, ZeroIsEmpty
    <2> QED
      BY <1>3, <2>1, RestartCleans
  <1>4. CASE UNCHANGED fvars
    BY <1>4, TrackedStutters
  <1> QED
    BY <1>1, <1>2, <1>3, <1>4, FinalizationSteps

\* A round that wrote the projection over only tidies its own result, and those
\* that had failed write nothing else.
LEMMA WrittenOverRound ==
  ASSUME FTypes, WrittenOver, NEW r \in Slots, RoundStep(r),
         live' = live \/ RowWrite(r), fin'.pc = fin.pc, fin'.snap = fin.snap,
         Shut', OneOld', \A q \in Slots : ~Flushing(q) /\ ~Flushing(q)'
  PROVE  WrittenOver'
  <1>0. TypeOK /\ round \in [Slots -> Round] /\ Harmless(r)
        /\ \A q \in Slots : round[q].base.v \in Nat /\ round[q].next.v \in Nat
    BY FTypeParts DEF TypeOK, Round, Snapshot, WrittenOver
  <1>1. \A q \in Slots \ {r} : round'[q] = round[q]
    BY <1>0, RoundEffects DEF RoundEffect
  <1>2. round[r].pc \in {"reorganize", "complete", "idle", "fail", "failStale"}
    BY <1>0 DEF Harmless, InFlight
  <1>3. /\ round'[r].pc \notin {"fail", "reorganize"}
        /\ InFlight(r)' => round'[r].pc = "complete"
    BY <1>0, <1>2
    DEF RoundStep, RoundStarts, RoundLooksUp, RoundSeeds, ProviderAnswers, ProviderFails,
        RoundPersistsFailure, RoundReloadsAfterFailure, RoundChecksBarrier, RoundPersists,
        RoundReloads, RoundReorganizes, RoundCompletes, Goto, Leave, IdleRound, At, InFlight,
        Round
  <1>4. Harmless(r)'
    BY <1>3 DEF Harmless, At
  <1>5. \A q \in Slots : At(q, "fail")' => q # r /\ At(q, "fail") /\ round'[q] = round[q]
    BY <1>1, <1>3 DEF At
  <1>6. \A q \in Slots \ {r} : AboveFailed(round[q].next) => AboveFailed(round[q].next)'
    <2> SUFFICES ASSUME NEW q \in Slots \ {r}, AboveFailed(round[q].next)
                 PROVE  AboveFailed(round[q].next)'
      OBVIOUS
    <2> QED
      BY <1>1, <1>5 DEF AboveFailed
  \* What the failed and the finished rounds hold is the row whenever it is of its version.
  <1>7. ZeroIsEmpty(live') /\ \A q \in Slots \ {r} :
           /\ At(q, "fail") => Same(round[q].base, live')
           /\ At(q, "reorganize") => Same(round[q].next, live')
    <2>0. ZeroIsEmpty(live) /\ \A q \in Slots :
             /\ At(q, "fail") => Same(round[q].base, live)
             /\ At(q, "reorganize") => Same(round[q].next, live)
      BY DEF WrittenOver, Harmless
    <2>1. CASE live' = live
      BY <2>0, <2>1
    <2>2. CASE At(r, "fail") /\ live.v = round[r].base.v /\ live' = round[r].base
      <3>1. live'.v = live.v /\ live'.done = live.done
        BY <2>0, <2>2 DEF Same
      <3>2. ZeroIsEmpty(live')
        BY <1>0, <2>2 DEF Harmless
      <3> QED
        BY <2>0, <3>1, <3>2 DEF Same
    <2>3. CASE At(r, "persist")
      BY <1>2, <2>3 DEF At
    <2>4. CASE /\ At(r, "reorganize") /\ live.v = round[r].next.v
               /\ live' = [round[r].next EXCEPT !.v = round[r].next.v + 1]
      <3>1. live'.v = round[r].next.v + 1
        BY <1>0, <2>4 DEF Round, Snapshot
      <3>2. \A q \in Slots \ {r} : ~At(q, "reorganize")
        BY <2>4 DEF WrittenOver, OneOld, Old, InFlight, At
      <3>3. \A q \in Slots : At(q, "fail") => round[q].base.v <= round[r].next.v
        BY <1>0, <2>4 DEF Harmless, AboveFailed
      <3>4. \A q \in Slots : At(q, "fail") => round[q].base.v # live'.v
        BY <1>0, <3>1, <3>3
      <3>5. live'.v # 0
        BY <1>0, <3>1
      <3> QED
        BY <3>2, <3>4, <3>5 DEF Same, ZeroIsEmpty
    <2> QED
      BY <2>1, <2>2, <2>3, <2>4 DEF RowWrite
  <1>8. ASSUME NEW q \in Slots \ {r} PROVE Harmless(q)'
    <2>1. round'[q] = round[q] /\ Harmless(q)
      BY <1>1 DEF WrittenOver
    <2> QED
      BY <1>6, <1>7, <2>1 DEF Harmless, InFlight, At, Same, ZeroIsEmpty
  <1>9. ZeroIsEmpty(live)' /\ ZeroIsEmpty(fin.snap)'
    BY <1>7 DEF WrittenOver, ZeroIsEmpty
  <1> QED
    BY <1>4, <1>8, <1>9 DEF WrittenOver

LEMMA WrittenOverLive ==
  ASSUME FTypes, FTypes', WrittenOver, Live, attempts' <= 1
  PROVE  WrittenOver'
  <1>0. TypeOK /\ LiveStep /\ LiveMove
    BY FTypeParts, LiveLocals DEF Live
  <1>1. Shut'
    BY ShutStep DEF WrittenOver
  <1>2. \A q \in Slots : ~Flushing(q) /\ ~Flushing(q)'
    BY <1>1, ShutPlaces DEF WrittenOver, Shut, Unwritten, Flushing, BeforeProjection
  <1>3. fin'.pc = fin.pc /\ fin'.snap = fin.snap
    BY <1>0, <1>2, ShutPlaces DEF LiveMove, WrittenOver, BeforeProjection
  <1>4. OneOld'
    <2>1. \A q \in Slots : InFlight(q)' => InFlight(q)
      BY <1>0, BarrierHolds DEF WrittenOver, Shut
    <2> QED
      BY <1>2, <2>1 DEF WrittenOver, OneOld, Old
  <1>5. CASE round' = round /\ live' = live
    <2>1. \A q \in Slots : /\ InFlight(q)' = InFlight(q)
                           /\ AboveFailed(round[q].next) => AboveFailed(round[q].next)'
      BY <1>2, <1>5 DEF InFlight, AboveFailed, At
    <2>2. \A q \in Slots : Harmless(q)'
      BY <1>3, <1>5, <2>1 DEF WrittenOver, Harmless, Same, ZeroIsEmpty, At
    <2> QED
      BY <1>1, <1>3, <1>4, <1>5, <2>2 DEF WrittenOver, ZeroIsEmpty
  <1>6. ASSUME NEW r \in Slots, RoundStep(r), live' = live \/ RowWrite(r) PROVE WrittenOver'
    BY <1>1, <1>2, <1>3, <1>4, <1>6, WrittenOverRound
  <1>7. \A r \in Slots : ~DispatchSeals(r)
    BY DEF DispatchSeals, Sealable, WrittenOver, Shut
  <1> QED
    BY <1>0, <1>5, <1>6, <1>7, OneRoundMoves, RowWrites

LEMMA WrittenOverStep ==
  ASSUME FTypes, FTypes', WrittenOver, [FNext]_fvars, attempts' <= 1
  PROVE  Clean' \/ WrittenOver'
  <1>1. CASE Live
    BY <1>1, WrittenOverLive
  <1>2. CASE FinStep \/ Clients
    <2>1. Shut'
      BY <1>2, ShutStep DEF WrittenOver
    <2>2. /\ retry = "none" /\ attempts = 1 /\ fin.pc \notin BeforeProjection
          /\ fin'.pc # "flush"
          /\ \A q \in Slots : ~Flushing(q) /\ ~Flushing(q)'
      BY <2>1, ShutPlaces DEF WrittenOver, Shut, Unwritten, Flushing, BeforeProjection
    <2>3. \A q \in Slots : /\ round'[q].pc = round[q].pc /\ round'[q].base = round[q].base
                           /\ round'[q].next = round[q].next
      BY <1>2, <2>2, StageRoundsMove DEF StageRounds
    <2>4. \A q \in Slots : /\ InFlight(q)' = InFlight(q)
                           /\ AboveFailed(round[q].next) => AboveFailed(round[q].next)'
      BY <2>2, <2>3 DEF InFlight, AboveFailed, At
    <2>5. OneOld'
      BY <2>2, <2>4 DEF WrittenOver, OneOld, Old
    <2>6. /\ live' \in {live, fin.snap}
          /\ live' # live => fin.pc # "idle"
      BY <1>2, StageWrites
    <2>7. \/ fin'.pc = "idle" /\ fin'.snap = Empty
          \/ fin.pc # "idle" /\ fin'.snap = fin.snap
          \/ fin' = fin
      <3>1. CASE FinStep
        <4>1. StageMove /\ (fin.pc = "leave" \/ StageKeeps)
          BY <3>1, StageLocals
        <4> QED
          BY <2>2, <4>1 DEF StageMove, StageKeeps, NoFinalizer, BeforeProjection
      <3>2. CASE Clients
        BY <2>2, <3>2, ClientMoves DEF ClientMove
      <3> QED
        BY <1>2, <3>1, <3>2
    <2>8. ASSUME NEW q \in Slots PROVE Harmless(q)'
      <3>0. Harmless(q)
        BY DEF WrittenOver
      <3>1. /\ At(q, "fail") => Same(round[q].base, live')
            /\ At(q, "reorganize") => Same(round[q].next, live')
        BY <2>6, <3>0 DEF Harmless
      <3>2. fin'.pc # "idle" => fin.pc # "idle" /\ fin'.snap = fin.snap
        BY <2>7
      <3> QED
        BY <2>3, <2>4, <3>0, <3>1, <3>2 DEF Harmless, At, Same, ZeroIsEmpty
    <2>9. ZeroIsEmpty(live)' /\ ZeroIsEmpty(fin.snap)'
      BY <2>6, <2>7 DEF WrittenOver, ZeroIsEmpty
    <2> QED
      BY <2>1, <2>5, <2>8, <2>9 DEF WrittenOver
  <1>3. CASE FRestart
    BY <1>3, RestartCleans DEF WrittenOver
  <1>4. CASE UNCHANGED fvars
    BY <1>4, TrackedStutters
  <1> QED
    BY <1>1, <1>2, <1>3, <1>4, FinalizationSteps

LEMMA RowIsTrackedStep ==
  ASSUME FTypes, FTypes', OneAttempt, Barred, ListOK, AllAwaited, RowIsTracked, [FNext]_fvars
  PROVE  RowIsTracked'
  <1> SUFFICES ASSUME attempts' <= 1 PROVE Clean' \/ Rewritten' \/ WrittenOver'
    BY DEF RowIsTracked
  <1>0. attempts \in Nat
    BY FTypeParts, FinalizationAssumption DEF RowsOK
  <1>1. attempts <= 1
    <2>1. CASE Live
      BY <1>0, <2>1 DEF Live
    <2>2. CASE FinStep
      BY <1>0, <2>2, StageLocals DEF StageMove
    <2>3. CASE Clients
      BY <1>0, <2>3, ClientMoves DEF ClientMove
    <2>4. CASE FRestart \/ UNCHANGED fvars
      BY <1>0, <2>4 DEF FRestart, fvars, fmemory
    <2> QED
      BY <2>1, <2>2, <2>3, <2>4, FinalizationSteps
  <1>2. Clean \/ Rewritten \/ WrittenOver
    BY <1>0, <1>1 DEF RowIsTracked
  <1> QED
    BY <1>2, CleanStep, RewrittenStep, WrittenOverStep

LEMMA RewindInitially == FInit => RewindIInv
  <1> SUFFICES ASSUME FInit PROVE RewindIInv
    OBVIOUS
  <1>1. CoverIInv
    BY CoverInitially
  <1>2. IInv /\ Chained
    BY <1>1 DEF FInit, CoverIInv, RowIsChained, Unwritten
  <1>3. \A r \in Slots : round[r].pc = "idle"
    BY DEF FInit, Init, IdleRound
  <1>4. OldsInOrder
    <2>1. fin.pc = "idle"
      BY DEF FInit, NoFinalizer
    <2> QED
      BY <1>3, <2>1 DEF OldsInOrder, OneOld, FailedAreOlder, Old, InFlight, AboveFailed, Working, At
  <1> QED
    BY <1>1, <1>2, <1>4 DEF RewindIInv, RowIsTracked, Clean

LEMMA RewindStep == RewindIInv /\ [FNext]_fvars => RewindIInv'
  <1> SUFFICES ASSUME RewindIInv, [FNext]_fvars PROVE RewindIInv'
    OBVIOUS
  <1>1. CoverIInv /\ CoverIInv'
    BY CoverStep DEF RewindIInv
  <1>2. RowIsTracked'
    BY <1>1, RowIsTrackedStep DEF RewindIInv, CoverIInv
  <1> QED
    BY <1>1, <1>2 DEF RewindIInv

\* No round takes finals from the row while one attempt is all there is.
LEMMA RoundsRewindNothing ==
  ASSUME FTypes, Clean \/ Rewritten \/ WrittenOver, Live
  PROVE  live.done \subseteq live'.done
  <1>0. TypeOK /\ LiveStep /\ Next
    BY FTypeParts DEF Live, Next
  <1>s. live.v \in Nat /\ \A q \in Slots : round[q].base.v \in Nat /\ round[q].next.v \in Nat
    BY <1>0 DEF TypeOK, Round, Snapshot
  <1>1. CASE Clean
    BY <1>0, <1>1, CoverageGrows DEF Clean
  <1>2. ASSUME NEW r \in Slots, RowWrite(r), Rewritten PROVE live.done \subseteq live'.done
    <2>0. /\ live \in KnownSnapshots /\ round[r].base \in KnownSnapshots
          /\ At(r, "reorganize") => round[r].next \in KnownSnapshots
      BY DEF KnownSnapshots
    <2>1. \A x \in KnownSnapshots : live.v = x.v => live.done \subseteq x.done
      BY <1>2, <1>s, <2>0 DEF Rewritten, Ordered
    <2>2. CASE At(r, "fail") /\ live.v = round[r].base.v /\ live' = round[r].base
      BY <2>0, <2>1, <2>2
    <2>3. CASE At(r, "persist") /\ live.v = round[r].base.v /\ live' = round[r].next
      <3>1. round[r].base.done \subseteq round[r].next.done
        BY <1>2, <2>3 DEF Rewritten, NextExtendsBase, Extends, At
      <3> QED
        BY <2>0, <2>1, <2>3, <3>1
    <2>4. CASE /\ At(r, "reorganize") /\ live.v = round[r].next.v
               /\ live' = [round[r].next EXCEPT !.v = round[r].next.v + 1]
      <3>1. live'.done = round[r].next.done
        BY <1>0, <2>4 DEF TypeOK, Round, Snapshot
      <3> QED
        BY <2>0, <2>1, <2>4, <3>1
    <2> QED
      BY <1>2, <2>2, <2>3, <2>4 DEF RowWrite
  <1>3. ASSUME NEW r \in Slots, RowWrite(r), WrittenOver PROVE live.done \subseteq live'.done
    <2>0. Harmless(r)
      BY <1>3 DEF WrittenOver
    <2>1. CASE At(r, "fail") /\ live.v = round[r].base.v /\ live' = round[r].base
      BY <2>0, <2>1 DEF Harmless, Same
    <2>2. CASE At(r, "persist")
      BY <2>0, <2>2 DEF Harmless, InFlight, At
    <2>3. CASE /\ At(r, "reorganize") /\ live.v = round[r].next.v
               /\ live' = [round[r].next EXCEPT !.v = round[r].next.v + 1]
      <3>1. live'.done = round[r].next.done
        BY <1>0, <2>3 DEF TypeOK, Round, Snapshot
      <3> QED
        BY <2>0, <2>3, <3>1 DEF Harmless, Same
    <2> QED
      BY <1>3, <2>1, <2>2, <2>3 DEF RowWrite
  <1> QED
    BY <1>0, <1>1, <1>2, <1>3, RowWrites

LEMMA RewindsReported ==
  ASSUME RewindIInv, [FNext]_fvars, attempts = 1
  PROVE  Rewound = {} \/ fin.gap \/ (FinAt("project") /\ Rewound \cap fin.segs = {})
  <1>0. FTypes /\ (Clean \/ Rewritten \/ WrittenOver)
        /\ (fin.pc = "project" /\ ~fin.gap => fin.segs \subseteq fin.snap.done)
    BY DEF RewindIInv, CoverIInv, RowIsTracked, SnapshotCovers
  <1> USE DEF Rewound
  <1>1. CASE Live
    BY <1>0, <1>1, RoundsRewindNothing
  <1>2. CASE FinStep \/ Clients
    <2>1. CASE live' = live
      BY <2>1
    <2>2. CASE live' # live
      BY <1>0, <1>2, <2>2, StageWrites DEF FinAt
    <2> QED
      BY <2>1, <2>2
  <1>3. CASE FRestart \/ UNCHANGED fvars
    BY <1>3, RestartEffect DEF FRestart, fvars, vars, durable
  <1> QED
    BY <1>1, <1>2, <1>3, FinalizationSteps

\* ai_analysis.go:1766: although the finalized projection is written without
\* comparing versions, no final that the first finalization listed leaves the row,
\* and no round or restart takes one from it, unless that finalization reports
\* itself incomplete; whatever rounds run, fail or are given up on beside it.
THEOREM RewindsAreReported == FSpec => RewindIsReported
  BY RewindInitially, RewindStep, RewindsReported, PTL DEF FSpec, RewindIsReported
=============================================================================
