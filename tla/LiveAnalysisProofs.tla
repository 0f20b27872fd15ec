------------------------- MODULE LiveAnalysisProofs -------------------------
(***************************************************************************)
(* Proofs about LiveAnalysis for any number of finals, rounds, failing     *)
(* statements and restarts.                                                *)
(*                                                                         *)
(* The inductive invariant is IInv: the types, that a version number names *)
(* one payload wherever one was read (KnownVersions), that a round that is *)
(* about to persist extends the payload it read by its own finals          *)
(* (NextExtendsBase), and that whatever waits to be analyzed is stored     *)
(* (OnlyStored).                                                           *)
(***************************************************************************)
EXTENDS LiveAnalysis, TLAPS

Timers == {"off", "armed"} \cup Answers

-----------------------------------------------------------------------------
(* The values the actions build. *)

\* The payloads a round reads, builds and leaves in memory are snapshots.
LEMMA SnapshotTypes ==
  ASSUME NEW base \in Snapshot, NEW segs \in SUBSET Segs, NEW poor \in SUBSET Segs
  PROVE  /\ Empty \in Snapshot /\ NoRetry \in [Segs -> SUBSET Segs]
         /\ Analyzed(base, segs, poor) \in Snapshot
  BY DEF Snapshot, Empty, NoRetry, Analyzed

LEMMA TidyType ==
  ASSUME NEW base \in Snapshot
  PROVE  [base EXCEPT !.v = base.v + 1] \in Snapshot
  BY DEF Snapshot

LEMMA IdleTypes == IdleRound \in Round /\ NoRecovery \in Recovery
  <1>1. Empty \in Snapshot
    BY DEF Snapshot, Empty, NoRetry
  <1> QED
    BY <1>1 DEF IdleRound, Round, RoundPCs, NoRecovery, Recovery

\* Evaluating the trigger keeps the timer in its domain.
LEMMA EvaluateType ==
  ASSUME NEW waiting, NEW busy, NEW schemaFailed, NEW planning,
         timer \in Timers, Evaluate(waiting, busy, schemaFailed, planning)
  PROVE  timer' \in Timers
  BY DEF Evaluate, Timers

\* A goroutine's step is counted when it fails.
LEMMA BoundsType ==
  ASSUME faults \in 0..MaxFaults, crashes \in 0..MaxCrashes, Healthy \/ Fault
  PROVE  faults' \in 0..MaxFaults /\ crashes' \in 0..MaxCrashes
  BY ConstantsAssumption DEF Healthy, Fault, bounds

-----------------------------------------------------------------------------
(* Types. *)

MemoryOK ==
    /\ pending \subseteq Segs
    /\ last \in Snapshot
    /\ deferred \in [Segs -> SUBSET Segs]
    /\ known \in BOOLEAN /\ seeded \in BOOLEAN /\ running \in BOOLEAN
    /\ blocked \in BOOLEAN /\ finalizing \in BOOLEAN /\ stopped \in BOOLEAN
    /\ booting \in BOOLEAN
    /\ owner \in Slots \cup {NoRound}
    /\ timer \in Timers
    /\ context \in {"none", "pending", "ready"}

StoreOK ==
    /\ stored \subseteq Segs /\ publishing \subseteq Segs
    /\ live \in Snapshot
    /\ session \in {"open", "closed"}
    /\ faults \in 0..MaxFaults /\ crashes \in 0..MaxCrashes

LEMMA TypeParts == TypeOK <=> StoreOK /\ MemoryOK /\ recovery \in Recovery
                              /\ round \in [Slots -> Round]
  BY DEF TypeOK, StoreOK, MemoryOK, Timers

LEMMA InitType == Init => TypeOK
  <1> SUFFICES ASSUME Init PROVE TypeOK
    OBVIOUS
  <1>1. StoreOK
    BY SnapshotTypes, ConstantsAssumption DEF Init, StoreOK, Empty, Snapshot, NoRetry
  <1>2. MemoryOK
    BY SnapshotTypes DEF Init, MemoryOK, Timers, Empty, Snapshot, NoRetry
  <1>3. recovery \in Recovery /\ round \in [Slots -> Round]
    BY IdleTypes DEF Init
  <1> QED
    BY <1>1, <1>2, <1>3, TypeParts

\* Finals arrive, are planned for and dispatched.
LEMMA SchedulingType ==
  ASSUME TypeOK,
         \/ \E s \in Segs : IngestStores(s) \/ PublishTranscriptSegment(s)
         \/ ContextPlanned \/ SessionCloses
         \/ TimerFires \/ DispatchTooEarly \/ Dispatch
  PROVE  TypeOK'
  <1> USE DEF TypeOK, durable, memory, bounds
  <1>0. timer \in Timers
    BY DEF Timers
  <1>1. ASSUME NEW s \in Segs, IngestStores(s) PROVE TypeOK'
    BY <1>1 DEF IngestStores
  <1>2. ASSUME NEW s \in Segs, PublishTranscriptSegment(s) PROVE TypeOK'
    <2>1. timer' \in Timers
      BY <1>2, <1>0, EvaluateType DEF PublishTranscriptSegment
    <2>2. pending' \subseteq Segs
      BY <1>2 DEF PublishTranscriptSegment, Requeued
    <2> QED
      BY <1>2, <2>1, <2>2 DEF PublishTranscriptSegment, PlanContext, Timers
  <1>3. CASE ContextPlanned
    <2>1. timer' \in Timers
      BY <1>3, <1>0, EvaluateType DEF ContextPlanned
    <2> QED
      BY <1>3, <2>1 DEF ContextPlanned, Timers
  <1>4. CASE SessionCloses
    BY <1>4 DEF SessionCloses
  <1>5. CASE TimerFires
    BY <1>5, BoundsType DEF TimerFires, Answers
  <1>6. CASE DispatchTooEarly
    BY <1>6 DEF DispatchTooEarly
  <1>7. CASE DispatchReturns
    BY <1>7 DEF DispatchReturns
  <1>8. ASSUME NEW r \in Slots, DispatchSeals(r) PROVE TypeOK'
    <2>1. [IdleRound EXCEPT !.pc = "start", !.segs = pending] \in Round
      BY IdleTypes DEF Round, RoundPCs
    <2> QED
      BY <1>8, <2>1 DEF DispatchSeals
  <1> QED
    BY <1>1, <1>2, <1>3, <1>4, <1>5, <1>6, <1>7, <1>8 DEF Dispatch

\* A round of live analysis.
LEMMA RoundType ==
  ASSUME TypeOK, NEW r \in Slots, RoundStep(r)
  PROVE  TypeOK'
  <1> USE DEF TypeOK, durable, memory, bounds
  <1>0. timer \in Timers /\ round[r] \in Round
    BY DEF Timers
  <1>1. CASE RoundStarts(r)
    BY <1>1, <1>0 DEF RoundStarts, Round, RoundPCs
  <1>2. CASE RoundLooksUp(r)
    BY <1>2, <1>0, BoundsType DEF RoundLooksUp, Goto, Round, RoundPCs
  <1>3. CASE RoundSeeds(r)
    <2>1. Newest(round[r].base) \in Snapshot
      BY <1>0 DEF Newest, Round
    <2> QED
      BY <1>3, <1>0, <2>1 DEF RoundSeeds, Round, RoundPCs
  <1>4. CASE ProviderAnswers(r)
    <2>1. PICK poor \in SUBSET round[r].segs :
            round' = [round EXCEPT ![r].pc = "check",
                        ![r].next = Analyzed(round[r].base, round[r].segs, poor)]
      BY <1>4 DEF ProviderAnswers
    <2>2. Analyzed(round[r].base, round[r].segs, poor) \in Snapshot
      BY <1>0, SnapshotTypes DEF Round
    <2>3. round' \in [Slots -> Round]
      BY <2>1, <2>2, <1>0 DEF Round, RoundPCs
    <2> QED
      BY <1>4, <2>3 DEF ProviderAnswers
  <1>5. CASE ProviderFails(r)
    BY <1>5, <1>0, BoundsType DEF ProviderFails, Finish, Goto, Round, RoundPCs
  <1>6. CASE RoundPersistsFailure(r)
    <2>1. timer' \in Timers
      BY <1>6, <1>0, EvaluateType DEF RoundPersistsFailure
    <2>2. live' \in Snapshot
      BY <1>6, <1>0 DEF RoundPersistsFailure, Swap, Round
    <2>3. round' \in [Slots -> Round]
      BY <1>6, <1>0, IdleTypes DEF RoundPersistsFailure, Goto, Leave, Round, RoundPCs
    <2>4. faults' \in 0..MaxFaults /\ crashes' \in 0..MaxCrashes
      BY <1>6, BoundsType DEF RoundPersistsFailure
    <2> QED
      BY <1>6, <2>1, <2>2, <2>3, <2>4 DEF RoundPersistsFailure, Timers
  <1>7. CASE RoundReloadsAfterFailure(r)
    <2>1. timer' \in Timers
      BY <1>7, <1>0, EvaluateType DEF RoundReloadsAfterFailure
    <2>2. round' \in [Slots -> Round]
      BY <1>7, IdleTypes DEF RoundReloadsAfterFailure, Leave
    <2>3. faults' \in 0..MaxFaults /\ crashes' \in 0..MaxCrashes
      BY <1>7, BoundsType DEF RoundReloadsAfterFailure
    <2>4. last' \in Snapshot /\ seeded' \in BOOLEAN
      BY <1>7 DEF RoundReloadsAfterFailure
    <2> QED
      BY <1>7, <2>1, <2>2, <2>3, <2>4 DEF RoundReloadsAfterFailure, Timers
  <1>8. CASE RoundChecksBarrier(r)
    <2>1. round' \in [Slots -> Round]
      BY <1>8, <1>0, IdleTypes DEF RoundChecksBarrier, Goto, Leave, Round, RoundPCs
    <2>2. running' \in BOOLEAN
      BY <1>8 DEF RoundChecksBarrier, Finish
    <2> QED
      BY <1>8, <2>1, <2>2 DEF RoundChecksBarrier
  <1>9. CASE RoundPersists(r)
    <2>1. timer' \in Timers
      BY <1>9, <1>0, EvaluateType DEF RoundPersists
    <2>2. live' \in Snapshot /\ pending' \subseteq Segs
      BY <1>9, <1>0 DEF RoundPersists, Swap, LostSwap, Round
    <2>3. round' \in [Slots -> Round]
      BY <1>9, <1>0, IdleTypes DEF RoundPersists, Goto, Leave, Round, RoundPCs
    <2>5. running' \in BOOLEAN
      BY <1>9 DEF RoundPersists, Finish
    <2>4. faults' \in 0..MaxFaults /\ crashes' \in 0..MaxCrashes
      BY <1>9, BoundsType DEF RoundPersists
    <2> QED
      BY <1>9, <2>1, <2>2, <2>3, <2>4, <2>5 DEF RoundPersists, Timers
  <1>10. CASE RoundReloads(r)
    <2>1. timer' \in Timers
      BY <1>10, <1>0, EvaluateType DEF RoundReloads
    <2>2. pending' \subseteq Segs /\ last' \in Snapshot /\ seeded' \in BOOLEAN
      BY <1>10, <1>0 DEF RoundReloads, Unanalyzed, Round
    <2>3. round' \in [Slots -> Round] /\ running' \in BOOLEAN
      BY <1>10, IdleTypes DEF RoundReloads, Leave, Finish
    <2>4. faults' \in 0..MaxFaults /\ crashes' \in 0..MaxCrashes
      BY <1>10, BoundsType DEF RoundReloads
    <2> QED
      BY <1>10, <2>1, <2>2, <2>3, <2>4 DEF RoundReloads, Timers
  <1>11. CASE RoundReorganizes(r)
    <2>. DEFINE tidy == [round[r].next EXCEPT !.v = round[r].next.v + 1]
    <2>0. round[r].next \in Snapshot
      BY <1>0 DEF Round
    <2>1. tidy \in Snapshot
      BY <2>0, TidyType
    <2>2. live' \in {live, tidy}
      BY <1>11 DEF RoundReorganizes, Swap
    <2>3. \E base \in {round[r].next, tidy, live} :
             round' = [round EXCEPT ![r].pc = "complete", ![r].base = base]
      BY <1>11 DEF RoundReorganizes
    <2>4. round' \in [Slots -> Round]
      <3>1. PICK base \in {round[r].next, tidy, live} :
              round' = [round EXCEPT ![r].pc = "complete", ![r].base = base]
        BY <2>3
      <3>2. base \in Snapshot
        BY <2>0, <2>1
      <3> QED
        BY <3>1, <3>2, <1>0 DEF Round, RoundPCs
    <2>5. faults' \in 0..MaxFaults /\ crashes' \in 0..MaxCrashes
      BY <1>11, BoundsType DEF RoundReorganizes
    <2>. HIDE DEF tidy
    <2> QED
      BY <1>11, <2>1, <2>2, <2>4, <2>5 DEF RoundReorganizes
  <1>12. CASE RoundCompletes(r)
    <2>1. timer' \in Timers
      BY <1>12, <1>0, EvaluateType DEF RoundCompletes
    <2>2. round' \in [Slots -> Round] /\ running' \in BOOLEAN
      BY <1>12, IdleTypes DEF RoundCompletes, Leave, Finish
    <2>3. deferred' \in [Segs -> SUBSET Segs]
      BY <1>12, <1>0 DEF RoundCompletes, LeftOver, Round, Snapshot
    <2>4. last' \in Snapshot /\ pending' \subseteq Segs
      BY <1>12, <1>0 DEF RoundCompletes, Round
    <2> QED
      BY <1>12, <2>1, <2>2, <2>3, <2>4 DEF RoundCompletes, Timers
  <1> QED
    BY <1>1, <1>2, <1>3, <1>4, <1>5, <1>6, <1>7, <1>8, <1>9, <1>10, <1>11, <1>12
       DEF RoundStep

\* The recovery of durable pending finals, and restarts.
LEMMA RecoveryType ==
  ASSUME TypeOK, RecoveryStarts \/ RecoveryStep \/ BootRecovers \/ Restart
  PROVE  TypeOK'
  <1> USE DEF TypeOK, durable, memory, bounds
  <1>0. timer \in Timers
    BY DEF Timers
  <1>1. CASE RecoveryStarts
    BY <1>1, IdleTypes DEF RecoveryStarts, Recovery
  <1>2. CASE RecoveryLooksUp
    BY <1>2, BoundsType DEF RecoveryLooksUp, Recovery
  <1>3. CASE RecoverySeeds
    <2>1. Newest(recovery.got) \in Snapshot
      BY DEF Newest, Recovery
    <2> QED
      BY <1>3, <2>1 DEF RecoverySeeds, Recovery
  <1>4. CASE RecoveryLists
    <2>1. timer' \in Timers
      BY <1>4, <1>0, EvaluateType DEF RecoveryLists
    <2>2. recovery' \in Recovery
      BY <1>4, IdleTypes DEF RecoveryLists, Recovery
    <2>3. faults' \in 0..MaxFaults /\ crashes' \in 0..MaxCrashes
      BY <1>4, BoundsType DEF RecoveryLists
    <2> QED
      BY <1>4, <2>1, <2>2, <2>3 DEF RecoveryLists, Timers
  <1>5. CASE RecoveryMerges
    <2>1. timer' \in Timers
      BY <1>5, <1>0, EvaluateType DEF RecoveryMerges
    <2>2. pending' \subseteq Segs /\ last' \in Snapshot
      BY <1>5 DEF RecoveryMerges, Unanalyzed, Recovery
    <2>3. blocked' \in BOOLEAN /\ context' \in {"none", "pending", "ready"}
      BY <1>5 DEF RecoveryMerges, PlanContext
    <2>4. recovery' \in Recovery
      BY <1>5, IdleTypes DEF RecoveryMerges
    <2> QED
      BY <1>5, <2>1, <2>2, <2>3, <2>4 DEF RecoveryMerges, Timers
  <1>6. CASE BootRecovers
    BY <1>6, BoundsType DEF BootRecovers, PlanContext
  <1>7. CASE Restart
    <2>1. Empty \in Snapshot /\ NoRetry \in [Segs -> SUBSET Segs]
      BY DEF Snapshot, Empty, NoRetry
    <2>2. crashes' \in 0..MaxCrashes
      BY <1>7, ConstantsAssumption DEF Restart
    <2> QED
      BY <1>7, <2>1, <2>2, IdleTypes DEF Restart, ForgetMemory
  <1> QED
    BY <1>1, <1>2, <1>3, <1>4, <1>5, <1>6, <1>7 DEF RecoveryStep

LEMMA TypeStep == TypeOK /\ [Next]_vars => TypeOK'
  <1> SUFFICES ASSUME TypeOK, [Next]_vars PROVE TypeOK'
    OBVIOUS
  <1>1. CASE UNCHANGED vars
    BY <1>1 DEF vars, durable, memory, bounds, TypeOK
  <1>2. CASE Next
    BY <1>2, SchedulingType, RoundType, RecoveryType DEF Next, LiveStep
  <1> QED
    BY <1>1, <1>2

\* Every variable keeps its type, whatever fails and restarts.
THEOREM TypeCorrect == Spec => []TypeOK
  BY InitType, TypeStep, PTL DEF Spec

-----------------------------------------------------------------------------
(* IInv is inductive. *)

\* A version number names one payload: also the one a round has just written,
\* and the empty one before the first.
KnownVersions ==
    /\ VersionNamesPayload
    /\ Names(Empty, live)
    /\ \A r \in Slots : At(r, "reorganize") => Names(round[r].next, live)

\* A finished round holds the payload it read, one version and its finals on.
Extends(next, base, segs) ==
    /\ next.v = base.v + 1
    /\ next.done = base.done \cup segs
    /\ \A s \in base.done : next.retry[s] \in {base.retry[s], {}}

NextExtendsBase ==
    \A r \in Slots : round[r].pc \in {"check", "persist"} =>
        Extends(round[r].next, round[r].base, round[r].segs)

\* What is published, waits, is deferred, recovered or in a round is stored.
OnlyStored ==
    /\ publishing \subseteq stored /\ pending \subseteq stored
    /\ recovery.segs \subseteq stored
    /\ \A s \in Segs : deferred[s] # {} => s \in stored
    /\ \A r \in Slots : round[r].segs \subseteq stored

IInv == TypeOK /\ KnownVersions /\ NextExtendsBase /\ OnlyStored

LEMMA InitInv == Init => IInv
  <1> SUFFICES ASSUME Init PROVE IInv
    OBVIOUS
  <1>1. KnownVersions
    <2>1. Names(Empty, Empty)
      BY DEF Names, Empty
    <2>2. last = Empty /\ live = Empty /\ recovery.got = Empty
      BY DEF Init, NoRecovery
    <2>3. \A r \in Slots : round[r].base = Empty /\ ~At(r, "reorganize")
      BY DEF Init, IdleRound, At
    <2> QED
      BY <2>1, <2>2, <2>3 DEF KnownVersions, VersionNamesPayload
  <1>2. NextExtendsBase
    BY DEF Init, NextExtendsBase, IdleRound
  <1>3. OnlyStored
    BY DEF Init, OnlyStored, NoRecovery, IdleRound, NoRetry
  <1> QED
    BY <1>1, <1>2, <1>3, InitType DEF IInv

\* What a step may do to the row: nothing, persist a round that read it as it
\* is, or write the same coverage as the next version.
RowStep ==
    \/ live' = live
    \/ \E r \in Slots : /\ At(r, "persist")
                         /\ live = round[r].base /\ live' = round[r].next
    \/ live' = [live EXCEPT !.v = live.v + 1]

LEMMA RowSteps == IInv /\ [Next]_vars => RowStep
  <1> SUFFICES ASSUME IInv, [Next]_vars PROVE RowStep
    OBVIOUS
  <1> USE DEF durable
  <1>1. ASSUME NEW r \in Slots, RoundPersistsFailure(r) PROVE live' = live
    BY <1>1 DEF RoundPersistsFailure, Swap, IInv, KnownVersions, VersionNamesPayload, Names
  <1>2. ASSUME NEW r \in Slots, RoundPersists(r) PROVE RowStep
    BY <1>2 DEF RoundPersists, Swap, LostSwap, RowStep, IInv, KnownVersions,
                VersionNamesPayload, Names
  <1>3. ASSUME NEW r \in Slots, RoundReorganizes(r) PROVE RowStep
    <2>. DEFINE done == round[r].next
    <2>1. done.v = live.v => done = live
      BY <1>3 DEF RoundReorganizes, IInv, KnownVersions, Names
    <2>2. \/ live' = live
          \/ live.v = done.v /\ live' = [done EXCEPT !.v = done.v + 1]
      BY <1>3 DEF RoundReorganizes, Swap
    <2> QED
      BY <2>1, <2>2 DEF RowStep
  <1>4. ASSUME NEW r \in Slots, RoundStep(r) PROVE RowStep
    <2>1. CASE \/ RoundStarts(r) \/ RoundLooksUp(r) \/ RoundSeeds(r)
               \/ ProviderAnswers(r) \/ ProviderFails(r) \/ RoundReloadsAfterFailure(r)
               \/ RoundChecksBarrier(r) \/ RoundReloads(r) \/ RoundCompletes(r)
      BY <2>1 DEF RowStep, RoundStarts, RoundLooksUp, RoundSeeds, ProviderAnswers,
                  ProviderFails, RoundReloadsAfterFailure, RoundChecksBarrier,
                  RoundReloads, RoundCompletes
    <2> QED
      BY <1>4, <1>1, <1>2, <1>3, <2>1 DEF RoundStep, RowStep
  <1>5. CASE \/ \E s \in Segs : IngestStores(s) \/ PublishTranscriptSegment(s)
             \/ ContextPlanned \/ SessionCloses
             \/ TimerFires \/ DispatchTooEarly \/ Dispatch
    BY <1>5 DEF RowStep, IngestStores, PublishTranscriptSegment, ContextPlanned,
                SessionCloses, TimerFires, DispatchTooEarly, Dispatch, DispatchReturns,
                DispatchSeals
  <1>6. CASE RecoveryStarts \/ RecoveryStep \/ BootRecovers \/ Restart
    BY <1>6 DEF RowStep, RecoveryStarts, RecoveryStep, RecoveryLooksUp, RecoverySeeds,
                RecoveryLists, RecoveryMerges, BootRecovers, Restart
  <1>7. CASE UNCHANGED vars
    BY <1>7 DEF RowStep, vars
  <1> QED
    BY <1>4, <1>5, <1>6, <1>7 DEF Next, LiveStep

\* The version only grows, and grows whenever the row changes.
LEMMA RowGrows ==
  ASSUME IInv, RowStep
  PROVE  live' = live \/ live'.v > live.v
  BY DEF RowStep, At, IInv, NextExtendsBase, Extends, TypeOK, Snapshot

\* So a payload that was read still names its version.
LEMMA NamesKept ==
  ASSUME NEW x \in Snapshot, NEW row \in Snapshot, NEW after \in Snapshot,
         Names(x, row), after = row \/ after.v > row.v
  PROVE  Names(x, after)
  BY DEF Names, Snapshot

\* After a step, everything that was known names its version, and so do the
\* row itself and the empty payload.
LEMMA StillNamed ==
  ASSUME IInv, RowStep, TypeOK'
  PROVE  /\ Names(last, live') /\ Names(recovery.got, live')
         /\ Names(live, live') /\ Names(live', live') /\ Names(Empty, live')
         /\ \A q \in Slots : Names(round[q].base, live')
         /\ \A q \in Slots : At(q, "reorganize") => Names(round[q].next, live')
  <1>0. live \in Snapshot /\ live' \in Snapshot /\ last \in Snapshot
        /\ recovery.got \in Snapshot
        /\ \A q \in Slots : round[q].base \in Snapshot /\ round[q].next \in Snapshot
    BY DEF IInv, TypeOK, Recovery, Round
  <1>1. live' = live \/ live'.v > live.v
    BY RowGrows
  <1>2. Names(last, live') /\ Names(recovery.got, live')
    BY <1>0, <1>1, NamesKept DEF IInv, KnownVersions, VersionNamesPayload
  <1>3. Names(live, live) /\ Names(live', live')
    BY <1>0 DEF Names, Snapshot
  <1>4. Names(live, live')
    BY <1>0, <1>1, <1>3, NamesKept
  <1>5. \A q \in Slots : Names(round[q].base, live')
    BY <1>0, <1>1, NamesKept DEF IInv, KnownVersions, VersionNamesPayload
  <1>6. \A q \in Slots : At(q, "reorganize") => Names(round[q].next, live')
    BY <1>0, <1>1, NamesKept DEF IInv, KnownVersions
  <1>7. Names(Empty, live')
    <2>1. Empty \in Snapshot
      BY DEF Empty, Snapshot, NoRetry
    <2> QED
      BY <2>1, <1>0, <1>1, NamesKept DEF IInv, KnownVersions
  <1> QED
    BY <1>2, <1>3, <1>4, <1>5, <1>6, <1>7

\* The steps that read or write neither a payload nor a round.
QuietStep ==
    \/ \E s \in Segs : IngestStores(s) \/ PublishTranscriptSegment(s)
    \/ ContextPlanned \/ SessionCloses
    \/ TimerFires \/ DispatchTooEarly \/ DispatchReturns
    \/ BootRecovers
    \/ UNCHANGED vars

LEMMA QuietSteps ==
  ASSUME QuietStep
  PROVE  UNCHANGED <<live, last, recovery, round, deferred, running, owner>>
  BY DEF QuietStep, IngestStores, PublishTranscriptSegment, ContextPlanned, SessionCloses,
         TimerFires, DispatchTooEarly, DispatchReturns, BootRecovers,
         vars, durable, memory

\* The answer of the provider becomes the next version of what the round read.
LEMMA AnalyzedExtends ==
  ASSUME NEW base \in Snapshot, NEW segs \in SUBSET Segs, NEW poor
  PROVE  Extends(Analyzed(base, segs, poor), base, segs)
  BY DEF Extends, Analyzed, Snapshot

\* What a step of a round does to the round and to memory, in the terms the
\* invariants are about.
RoundEffect(r) ==
    /\ \A q \in Slots \ {r} : round'[q] = round[q]
    /\ recovery' = recovery
    /\ last' \in {last, live, round[r].base}
    /\ \/ round'[r].base \in {Empty, last, live, live', round[r].base}
       \/ At(r, "reorganize") /\ round'[r].base = round[r].next
    /\ \/ round'[r].segs = round[r].segs
       \/ round'[r].segs = {} /\ round'[r].pc = "idle"
    /\ round'[r].pc = "check" =>
          Extends(round'[r].next, round'[r].base, round'[r].segs)
    /\ round'[r].pc = "persist" =>
          /\ At(r, "check")
          /\ round'[r].next = round[r].next /\ round'[r].base = round[r].base
          /\ round'[r].segs = round[r].segs
    /\ round'[r].pc = "reorganize" =>
          At(r, "persist") /\ round'[r].next = live'

LEMMA RoundEffects ==
  ASSUME TypeOK, NEW r \in Slots, RoundStep(r)
  PROVE  RoundEffect(r)
  <1>0. round \in [Slots -> Round] /\ round[r] \in Round
    BY DEF TypeOK
  <1>. USE DEF RoundEffect, At, Round, memory
  <1>1. CASE RoundStarts(r)
    <2>1. \A q \in Slots \ {r} : round'[q] = round[q]
      BY <1>0, <1>1 DEF RoundStarts
    <2>2. recovery' = recovery /\ last' = last
      BY <1>0, <1>1 DEF RoundStarts
    <2>3. round'[r].base = last /\ round'[r].segs = round[r].segs
      BY <1>0, <1>1 DEF RoundStarts
    <2>4. round'[r].pc \in {"call", "lookup", "seed"}
      BY <1>0, <1>1 DEF RoundStarts
    <2> QED
      BY <2>1, <2>2, <2>3, <2>4
  <1>2. CASE RoundLooksUp(r)
    BY <1>0, <1>2 DEF RoundLooksUp, Goto
  <1>3. CASE RoundSeeds(r)
    BY <1>0, <1>3 DEF RoundSeeds, Newest
  <1>4. CASE ProviderAnswers(r)
    <2>1. PICK poor \in SUBSET round[r].segs :
            round' = [round EXCEPT ![r].pc = "check",
                        ![r].next = Analyzed(round[r].base, round[r].segs, poor)]
      BY <1>4 DEF ProviderAnswers
    <2>2. /\ round'[r].pc = "check" /\ round'[r].base = round[r].base
          /\ round'[r].segs = round[r].segs
          /\ round'[r].next = Analyzed(round[r].base, round[r].segs, poor)
          /\ \A q \in Slots \ {r} : round'[q] = round[q]
      BY <1>0, <2>1
    <2>3. Extends(round'[r].next, round'[r].base, round'[r].segs)
      BY <1>0, <2>2, AnalyzedExtends
    <2> QED
      BY <1>4, <2>2, <2>3 DEF ProviderAnswers
  <1>5. CASE ProviderFails(r)
    BY <1>0, <1>5 DEF ProviderFails, Goto
  <1>6. CASE RoundPersistsFailure(r)
    BY <1>0, <1>6 DEF RoundPersistsFailure, Goto, Leave, IdleRound
  <1>7. CASE RoundReloadsAfterFailure(r)
    BY <1>0, <1>7 DEF RoundReloadsAfterFailure, Leave, IdleRound
  <1>8. CASE RoundChecksBarrier(r)
    BY <1>0, <1>8 DEF RoundChecksBarrier, Goto, Leave, IdleRound
  <1>9. CASE RoundPersists(r)
    BY <1>0, <1>9 DEF RoundPersists, Swap, Goto, Leave, IdleRound
  <1>10. CASE RoundReloads(r)
    BY <1>0, <1>10 DEF RoundReloads, Leave, IdleRound
  <1>11. CASE RoundReorganizes(r)
    BY <1>0, <1>11 DEF RoundReorganizes, Swap
  <1>12. CASE RoundCompletes(r)
    BY <1>0, <1>12 DEF RoundCompletes, Leave, IdleRound
  <1> QED
    BY <1>1, <1>2, <1>3, <1>4, <1>5, <1>6, <1>7, <1>8, <1>9, <1>10, <1>11, <1>12
       DEF RoundStep

\* Sealing hands the pending finals to a round.
LEMMA SealEffect ==
  ASSUME TypeOK, NEW r \in Slots, DispatchSeals(r)
  PROVE  /\ \A q \in Slots \ {r} : round'[q] = round[q]
         /\ round'[r] = [IdleRound EXCEPT !.pc = "start", !.segs = pending]
         /\ round'[r].base = Empty /\ round'[r].pc = "start" /\ round'[r].segs = pending
         /\ UNCHANGED <<last, recovery, live, stored, publishing, deferred>>
  BY DEF DispatchSeals, IdleRound, TypeOK, durable

\* What a step of the recovery does to memory.
LEMMA RecoveryEffects ==
  ASSUME TypeOK, RecoveryStarts \/ RecoveryStep
  PROVE  /\ last' \in {last, recovery.got}
         /\ recovery'.got \in {Empty, last, live, recovery.got}
         /\ recovery'.segs \in {{}, stored, recovery.segs}
         /\ UNCHANGED <<round, live, stored, publishing, deferred, running, owner>>
  <1> USE DEF TypeOK, Recovery, durable, memory
  <1>1. CASE RecoveryStarts
    BY <1>1 DEF RecoveryStarts, NoRecovery
  <1>2. CASE RecoveryLooksUp
    BY <1>2 DEF RecoveryLooksUp
  <1>3. CASE RecoverySeeds
    BY <1>3 DEF RecoverySeeds, Newest
  <1>4. CASE RecoveryLists
    <2>1. \/ recovery' = [recovery EXCEPT !.pc = "merge", !.segs = stored]
          \/ recovery' = NoRecovery
      BY <1>4 DEF RecoveryLists
    <2>2. NoRecovery.got = Empty /\ NoRecovery.segs = {}
      BY DEF NoRecovery
    <2>3. recovery'.got \in {Empty, recovery.got} /\ recovery'.segs \in {{}, stored}
      BY <2>1, <2>2
    <2>4. UNCHANGED <<last, round, live, stored, publishing, deferred, running, owner>>
      BY <1>4 DEF RecoveryLists
    <2> QED
      BY <2>3, <2>4
  <1>5. CASE RecoveryMerges
    <2>1. recovery' = NoRecovery
          /\ UNCHANGED <<round, live, stored, publishing, deferred, running, owner>>
      BY <1>5 DEF RecoveryMerges
    <2>2. recovery'.got = Empty /\ recovery'.segs = {}
      BY <2>1 DEF NoRecovery
    <2>3. last' \in {last, recovery.got}
      BY <1>5 DEF RecoveryMerges
    <2> QED
      BY <2>1, <2>2, <2>3
  <1> QED
    BY <1>1, <1>2, <1>3, <1>4, <1>5 DEF RecoveryStep

\* A restart leaves nothing in memory.
LEMMA RestartEffect ==
  ASSUME Restart
  PROVE  /\ last' = Empty /\ recovery'.got = Empty /\ recovery'.segs = {}
         /\ pending' = {} /\ publishing' = {} /\ deferred' = NoRetry
         /\ UNCHANGED <<live, stored>>
         /\ \A q \in Slots : /\ round'[q].base = Empty /\ round'[q].pc = "idle"
                              /\ round'[q].segs = {}
  BY DEF Restart, ForgetMemory, NoRecovery, IdleRound, durable

\* Every step is one of these.
LEMMA StepKinds ==
  ASSUME [Next]_vars
  PROVE  \/ QuietStep
         \/ \E r \in Slots : DispatchSeals(r)
         \/ \E r \in Slots : RoundStep(r)
         \/ RecoveryStarts \/ RecoveryStep
         \/ Restart
  BY DEF Next, LiveStep, Dispatch, QuietStep

LEMMA KnownVersionsStep ==
  ASSUME IInv, [Next]_vars, TypeOK'
  PROVE  KnownVersions'
  <1>0. /\ Names(last, live') /\ Names(recovery.got, live')
        /\ Names(live, live') /\ Names(live', live') /\ Names(Empty, live')
        /\ \A q \in Slots : Names(round[q].base, live')
        /\ \A q \in Slots : At(q, "reorganize") => Names(round[q].next, live')
    BY RowSteps, StillNamed
  <1>. SUFFICES /\ Names(last', live') /\ Names(recovery'.got, live')
                /\ \A q \in Slots : Names(round'[q].base, live')
                /\ \A q \in Slots : round'[q].pc = "reorganize" =>
                                       Names(round'[q].next, live')
    BY <1>0 DEF KnownVersions, VersionNamesPayload, At
  <1>. USE DEF At
  <1>a. TypeOK
    BY DEF IInv
  <1>1. CASE QuietStep
    BY <1>1, <1>0, QuietSteps
  <1>2. CASE \E r \in Slots : DispatchSeals(r)
    BY <1>2, <1>0, <1>a, SealEffect
  <1>3. CASE \E r \in Slots : RoundStep(r)
    BY <1>3, <1>0, <1>a, RoundEffects DEF RoundEffect
  <1>4. CASE RecoveryStarts \/ RecoveryStep
    BY <1>4, <1>0, <1>a, RecoveryEffects
  <1>5. CASE Restart
    BY <1>5, <1>0, RestartEffect
  <1> QED
    BY <1>1, <1>2, <1>3, <1>4, <1>5, StepKinds

LEMMA NextExtendsBaseStep ==
  ASSUME TypeOK, NextExtendsBase, [Next]_vars
  PROVE  NextExtendsBase'
  <1>. USE DEF NextExtendsBase, At
  <1>1. CASE QuietStep
    BY <1>1, QuietSteps
  <1>2. CASE \E r \in Slots : DispatchSeals(r)
    BY <1>2, SealEffect
  <1>3. ASSUME NEW r \in Slots, RoundStep(r) PROVE NextExtendsBase'
    <2>1. RoundEffect(r)
      BY <1>3, RoundEffects
    <2> QED
      BY <2>1 DEF RoundEffect
  <1>4. CASE RecoveryStarts \/ RecoveryStep
    BY <1>4, RecoveryEffects
  <1>5. CASE Restart
    BY <1>5, RestartEffect
  <1> QED
    BY <1>1, <1>2, <1>3, <1>4, <1>5, StepKinds

LEMMA OnlyStoredStep ==
  ASSUME IInv, [Next]_vars
  PROVE  OnlyStored'
  <1>. USE DEF IInv, OnlyStored
  <1>1. ASSUME NEW s \in Segs, IngestStores(s) PROVE OnlyStored'
    BY <1>1 DEF IngestStores, memory
  <1>2. ASSUME NEW s \in Segs, PublishTranscriptSegment(s) PROVE OnlyStored'
    BY <1>2 DEF PublishTranscriptSegment, Requeued, durable
  <1>3. CASE \/ ContextPlanned \/ SessionCloses \/ TimerFires \/ DispatchTooEarly
             \/ DispatchReturns \/ BootRecovers \/ UNCHANGED vars
    BY <1>3 DEF ContextPlanned, SessionCloses, TimerFires, DispatchTooEarly,
                DispatchReturns, BootRecovers, vars, durable, memory
  <1>4. ASSUME NEW r \in Slots, DispatchSeals(r) PROVE OnlyStored'
    BY <1>4, SealEffect DEF DispatchSeals
  <1>5. ASSUME NEW r \in Slots, RoundStep(r) PROVE OnlyStored'
    <2>1. RoundEffect(r)
      BY <1>5, RoundEffects
    <2>2. UNCHANGED <<stored, publishing>> /\ pending' \subseteq pending \cup round[r].segs
      BY <1>5 DEF RoundStep, RoundStarts, RoundLooksUp, RoundSeeds, ProviderAnswers,
                  ProviderFails, RoundPersistsFailure, RoundReloadsAfterFailure,
                  RoundChecksBarrier, RoundPersists, RoundReloads, RoundReorganizes,
                  RoundCompletes, Unanalyzed, durable, memory
    <2>3. deferred' = deferred \/ deferred' = LeftOver(r)
      BY <1>5 DEF RoundStep, RoundStarts, RoundLooksUp, RoundSeeds, ProviderAnswers,
                  ProviderFails, RoundPersistsFailure, RoundReloadsAfterFailure,
                  RoundChecksBarrier, RoundPersists, RoundReloads, RoundReorganizes,
                  RoundCompletes, memory
    <2>4. \A s \in Segs : deferred'[s] # {} => s \in stored
      BY <2>3 DEF LeftOver
    <2> QED
      BY <2>1, <2>2, <2>4 DEF RoundEffect
  <1>6. CASE RecoveryStarts \/ RecoveryStep
    <2>1. pending' \subseteq pending \cup recovery.segs
      BY <1>6 DEF RecoveryStarts, RecoveryStep, RecoveryLooksUp, RecoverySeeds,
                  RecoveryLists, RecoveryMerges, Unanalyzed, memory
    <2> QED
      BY <1>6, <2>1, RecoveryEffects
  <1>7. CASE Restart
    BY <1>7, RestartEffect DEF NoRetry
  <1> QED
    BY <1>1, <1>2, <1>3, <1>4, <1>5, <1>6, <1>7, StepKinds DEF QuietStep

LEMMA InvStep == IInv /\ [Next]_vars => IInv'
  <1> SUFFICES ASSUME IInv, [Next]_vars PROVE IInv'
    OBVIOUS
  <1>1. TypeOK'
    BY TypeStep DEF IInv
  <1> QED
    BY <1>1, KnownVersionsStep, NextExtendsBaseStep, OnlyStoredStep DEF IInv

LEMMA Invariant == Spec => []IInv
  BY InitInv, InvStep, PTL DEF Spec

-----------------------------------------------------------------------------
(* What follows from the invariant. *)

\* Whoever read a payload can tell by its version whether the row has changed.
THEOREM VersionsNamePayloads == Spec => []VersionNamesPayload
  <1>1. IInv => VersionNamesPayload
    BY DEF IInv, KnownVersions
  <1> QED
    BY <1>1, Invariant, PTL

\* Every step of the scheduler is a step of the register of coverage.
LEMMA RegisterStep ==
  ASSUME IInv, [Next]_vars
  PROVE  [Register!Next]_(Register!vars)
  <1>. SUFFICES ASSUME ~UNCHANGED <<stored, live>>
                PROVE  Register!Next
    BY DEF Register!vars
  <1>1. ASSUME NEW s \in Segs, IngestStores(s) PROVE Register!Next
    BY <1>1 DEF IngestStores, Register!Next, Register!Store
  <1>2. CASE stored' = stored
    <2>1. PICK segs \in SUBSET stored : live'.v = live.v + 1 /\ live'.done = live.done \cup segs
      <3>1. ASSUME NEW r \in Slots, At(r, "persist"), live = round[r].base,
                   live' = round[r].next
            PROVE  \E segs \in SUBSET stored :
                      live'.v = live.v + 1 /\ live'.done = live.done \cup segs
        BY <3>1 DEF IInv, NextExtendsBase, OnlyStored, Extends, At
      <3>2. ASSUME live' = [live EXCEPT !.v = live.v + 1]
            PROVE  live'.v = live.v + 1 /\ live'.done = live.done \cup {}
        BY <3>2 DEF IInv, TypeOK, Snapshot
      <3> QED
        BY <3>1, <3>2, <1>2, RowSteps DEF RowStep
    <2> QED
      BY <2>1, <1>2 DEF Register!Next, Register!Advance
  <1>3. (\E s \in Segs : IngestStores(s)) \/ stored' = stored
    BY DEF Next, LiveStep, PublishTranscriptSegment, ContextPlanned, SessionCloses,
           TimerFires, DispatchTooEarly, Dispatch, DispatchReturns,
           DispatchSeals, RoundStep, RoundStarts, RoundLooksUp, RoundSeeds,
           ProviderAnswers, ProviderFails, RoundPersistsFailure,
           RoundReloadsAfterFailure, RoundChecksBarrier, RoundPersists, RoundReloads,
           RoundReorganizes, RoundCompletes, RecoveryStarts, RecoveryStep,
           RecoveryLooksUp, RecoverySeeds, RecoveryLists, RecoveryMerges, BootRecovers,
           Restart, vars, durable
  <1> QED
    BY <1>1, <1>2, <1>3

\* The live row implements the register of coverage: no interleaving of rounds,
\* failures, recoveries and restarts loses or rewinds what a round analyzed.
THEOREM ImplementsRegister == Spec => RegisterSpec
  <1>1. Init => Register!Init
    BY DEF Init, Register!Init, Empty
  <1> QED
    BY <1>1, RegisterStep, Invariant, PTL DEF Spec, RegisterSpec, Register!Spec

\* A final the analysis does not reflect is deferred at most once.
THEOREM DeferralsBounded == Spec => DeferredAtMostOnce
  <1>1. ASSUME IInv, [Next]_vars
        PROVE  [\A s \in live.done : live'.retry[s] \in {live.retry[s], {}}]_vars
    <2>1. ASSUME NEW r \in Slots, At(r, "persist"), live = round[r].base,
                 live' = round[r].next, NEW s \in live.done
          PROVE  live'.retry[s] \in {live.retry[s], {}}
      BY <1>1, <2>1 DEF IInv, NextExtendsBase, Extends, At
    <2>2. ASSUME live' = [live EXCEPT !.v = live.v + 1]
          PROVE  live'.retry = live.retry
      BY <1>1, <2>2 DEF IInv, TypeOK, Snapshot
    <2> QED
      BY <1>1, <2>1, <2>2, RowSteps DEF RowStep
  <1> QED
    BY <1>1, Invariant, PTL DEF Spec, DeferredAtMostOnce

-----------------------------------------------------------------------------
(* The single flight. *)

\* A round keeps the flag while it is in flight, and only then gives it up.
FlagEffect(r) ==
    /\ owner' = owner
    /\ InFlight(r) => running' = running \/ round'[r].pc \in {"idle", "fail"}
    /\ ~InFlight(r) => running' = running /\ round'[r].pc \in {"idle", "failStale"}

LEMMA FlagEffects ==
  ASSUME TypeOK, NEW r \in Slots, RoundStep(r)
  PROVE  FlagEffect(r)
  <1>0. round \in [Slots -> Round] /\ round[r] \in Round
    BY DEF TypeOK
  <1>. USE DEF FlagEffect, InFlight, At, Round, memory
  <1>1. CASE RoundStarts(r) \/ RoundLooksUp(r) \/ RoundSeeds(r)
    BY <1>0, <1>1 DEF RoundStarts, RoundLooksUp, RoundSeeds, Goto
  <1>2. CASE ProviderAnswers(r)
    BY <1>0, <1>2 DEF ProviderAnswers
  <1>3. CASE ProviderFails(r)
    BY <1>0, <1>3 DEF ProviderFails, Goto
  <1>4. CASE RoundPersistsFailure(r)
    BY <1>0, <1>4 DEF RoundPersistsFailure, Goto, Leave, IdleRound
  <1>5. CASE RoundReloadsAfterFailure(r)
    BY <1>0, <1>5 DEF RoundReloadsAfterFailure, Leave, IdleRound
  <1>6. CASE RoundChecksBarrier(r)
    BY <1>0, <1>6 DEF RoundChecksBarrier, Goto, Leave, IdleRound
  <1>7. CASE RoundPersists(r)
    BY <1>0, <1>7 DEF RoundPersists, Goto, Leave, IdleRound
  <1>8. CASE RoundReloads(r) \/ RoundCompletes(r)
    BY <1>0, <1>8 DEF RoundReloads, RoundCompletes, Leave, IdleRound
  <1>9. CASE RoundReorganizes(r)
    BY <1>0, <1>9 DEF RoundReorganizes
  <1> QED
    BY <1>1, <1>2, <1>3, <1>4, <1>5, <1>6, <1>7, <1>8, <1>9 DEF RoundStep

LEMMA FlightStep ==
  ASSUME TypeOK, OneRoundInFlight, [Next]_vars
  PROVE  OneRoundInFlight'
  <1>. USE DEF OneRoundInFlight, InFlight
  <1>1. CASE QuietStep
    BY <1>1, QuietSteps
  <1>2. ASSUME NEW r \in Slots, DispatchSeals(r) PROVE OneRoundInFlight'
    BY <1>2, SealEffect DEF DispatchSeals, Sealable
  <1>3. ASSUME NEW r \in Slots, RoundStep(r) PROVE OneRoundInFlight'
    BY <1>3, RoundEffects, FlagEffects DEF RoundEffect, FlagEffect
  <1>4. CASE RecoveryStarts \/ RecoveryStep
    BY <1>4, RecoveryEffects
  <1>5. CASE Restart
    BY <1>5, RestartEffect
  <1> QED
    BY <1>1, <1>2, <1>3, <1>4, <1>5, StepKinds

\* At most one round of a session calls the provider and persists at a time.
THEOREM SingleFlight == Spec => []OneRoundInFlight
  <1>1. Init => OneRoundInFlight
    BY DEF Init, OneRoundInFlight, InFlight, IdleRound
  <1> QED
    BY <1>1, FlightStep, TypeCorrect, PTL DEF Spec

-----------------------------------------------------------------------------
(* Nothing is dropped. *)

\* A persisted round's finals are in the row, and nothing supersedes a round
\* while the meeting is not being finalized.
RoundsAccounted ==
    \A r \in Slots : /\ ~round[r].superseded
                     /\ round[r].pc \in {"reorganize", "complete"} =>
                           round[r].segs \subseteq live.done

\* NoFinalDropped, final by final.
Accounted(s) ==
    \/ s \in live.done \/ s \in publishing \/ s \in pending
    \/ \E q \in Slots : InFlight(q) /\ s \in round[q].segs

LEMMA DroppedMeans == NoFinalDropped <=> (crashes = 0 => \A s \in stored : Accounted(s))
  BY DEF NoFinalDropped, Held, InRounds, Accounted

\* Coverage only grows.
LEMMA CoverageGrows ==
  ASSUME IInv, [Next]_vars
  PROVE  live.done \subseteq live'.done
  <1>1. ASSUME NEW r \in Slots, At(r, "persist"), live = round[r].base,
               live' = round[r].next
        PROVE  live.done \subseteq live'.done
    BY <1>1 DEF IInv, NextExtendsBase, Extends, At
  <1>2. ASSUME live' = [live EXCEPT !.v = live.v + 1]
        PROVE  live'.done = live.done
    BY <1>2 DEF IInv, TypeOK, Snapshot
  <1> QED
    BY <1>1, <1>2, RowSteps DEF RowStep

\* What becomes of the finals of a round, of the pending ones, and of the
\* claim of a round to be in the row.
AccountEffect(r) ==
    /\ publishing' = publishing /\ stored' = stored /\ crashes' = crashes
    /\ pending \subseteq pending' \cup live'.done
    /\ InFlight(r) =>
          \/ round'[r].segs = round[r].segs /\ InFlight(r)'
          \/ round[r].segs \subseteq pending' \cup live'.done
    /\ round'[r].superseded = FALSE
    /\ round'[r].pc \in {"reorganize", "complete"} => round'[r].segs \subseteq live'.done

LEMMA AccountEffects ==
  ASSUME IInv, RoundsAccounted, NEW r \in Slots, RoundStep(r)
  PROVE  AccountEffect(r)
  <1>0. round \in [Slots -> Round] /\ round[r] \in Round /\ ~round[r].superseded
    BY DEF IInv, TypeOK, RoundsAccounted
  <1>a. live.done \subseteq live'.done
    BY CoverageGrows DEF Next, LiveStep
  <1>b. IdleRound.pc = "idle" /\ IdleRound.segs = {} /\ ~IdleRound.superseded
    BY DEF IdleRound
  <1>c. Healthy \/ Fault => crashes' = crashes
    BY DEF Healthy, Fault, bounds
  <1>. USE DEF AccountEffect, InFlight, At, Round, memory, durable, bounds
  <1>1. CASE RoundStarts(r) \/ RoundLooksUp(r) \/ RoundSeeds(r)
    BY <1>0, <1>1, <1>c DEF RoundStarts, RoundLooksUp, RoundSeeds, Goto
  <1>2. CASE ProviderAnswers(r)
    BY <1>0, <1>2 DEF ProviderAnswers
  <1>3. CASE ProviderFails(r)
    BY <1>0, <1>3, <1>c DEF ProviderFails, Goto
  <1>4. CASE RoundPersistsFailure(r)
    BY <1>0, <1>4, <1>b, <1>c DEF RoundPersistsFailure, Goto, Leave
  <1>5. CASE RoundReloadsAfterFailure(r)
    BY <1>0, <1>5, <1>b, <1>c DEF RoundReloadsAfterFailure, Leave
  <1>6. CASE RoundChecksBarrier(r)
    BY <1>0, <1>6 DEF RoundChecksBarrier, Goto, Leave
  <1>7. CASE RoundPersists(r)
    <2>1. round[r].next.done = round[r].base.done \cup round[r].segs
      BY <1>7 DEF RoundPersists, IInv, NextExtendsBase, Extends
    <2> QED
      BY <1>0, <1>7, <1>b, <1>c, <2>1 DEF RoundPersists, Swap, Goto, Leave
  <1>8. CASE RoundReloads(r)
    <2>1. round[r].segs \subseteq live.done \cup Unanalyzed(round[r].segs, live)
      BY DEF Unanalyzed
    <2> QED
      BY <1>0, <1>8, <1>b, <1>c, <2>1 DEF RoundReloads, Leave
  <1>9. CASE RoundReorganizes(r)
    <2>1. round[r].segs \subseteq live.done
      BY <1>9 DEF RoundReorganizes, RoundsAccounted
    <2> QED
      BY <1>0, <1>9, <1>a, <1>c, <2>1 DEF RoundReorganizes
  <1>10. CASE RoundCompletes(r)
    <2>1. round[r].segs \subseteq live.done
      BY <1>10 DEF RoundCompletes, RoundsAccounted
    <2> QED
      BY <1>0, <1>10, <1>b, <2>1 DEF RoundCompletes, Leave
  <1> QED
    BY <1>1, <1>2, <1>3, <1>4, <1>5, <1>6, <1>7, <1>8, <1>9, <1>10 DEF RoundStep

LEMMA AccountStep ==
  ASSUME IInv, RoundsAccounted, crashes = 0 => \A s \in stored : Accounted(s), [Next]_vars
  PROVE  RoundsAccounted' /\ (crashes' = 0 => \A s \in stored' : Accounted(s)')
  <1>a. live.done \subseteq live'.done
    BY CoverageGrows
  <1>. USE DEF RoundsAccounted, Accounted, InFlight, IInv
  <1>1. CASE QuietStep
    <2>1. UNCHANGED <<live, round>>
      BY <1>1, QuietSteps
    <2>2. /\ stored \cup publishing' \cup pending' = stored' \cup publishing' \cup pending'
          /\ publishing \cup pending \subseteq publishing' \cup pending'
          /\ crashes' = crashes
      BY <1>1 DEF QuietStep, IngestStores, PublishTranscriptSegment, ContextPlanned,
                  SessionCloses, TimerFires, DispatchTooEarly, DispatchReturns,
                  BootRecovers, Healthy, Fault, vars, durable, memory,
                  bounds
    <2> QED
      BY <2>1, <2>2
  <1>2. ASSUME NEW r \in Slots, DispatchSeals(r)
        PROVE  RoundsAccounted' /\ (crashes' = 0 => \A s \in stored' : Accounted(s)')
    <2>1. /\ round'[r].pc = "start" /\ round'[r].segs = pending /\ ~round'[r].superseded
          /\ \A q \in Slots \ {r} : round'[q] = round[q]
          /\ UNCHANGED <<live, stored, publishing>>
      BY <1>2, SealEffect DEF IdleRound
    <2>2. crashes' = crashes /\ At(r, "idle")
      BY <1>2 DEF DispatchSeals, bounds
    <2> QED
      BY <2>1, <2>2 DEF At
  <1>3. ASSUME NEW r \in Slots, RoundStep(r)
        PROVE  RoundsAccounted' /\ (crashes' = 0 => \A s \in stored' : Accounted(s)')
    <2>1. RoundEffect(r) /\ AccountEffect(r)
      BY <1>3, RoundEffects, AccountEffects
    <2>2. RoundsAccounted'
      BY <2>1, <1>a DEF RoundEffect, AccountEffect
    <2>3. ASSUME NEW s \in stored, Accounted(s) PROVE Accounted(s)'
      <3>1. CASE s \in live.done \/ s \in publishing \/ s \in pending
        BY <3>1, <2>1, <1>a DEF AccountEffect
      <3>2. ASSUME NEW q \in Slots, InFlight(q), s \in round[q].segs PROVE Accounted(s)'
        <4>1. CASE q = r
          BY <3>2, <4>1, <2>1 DEF AccountEffect
        <4>2. CASE q # r
          BY <3>2, <4>2, <2>1 DEF RoundEffect
        <4> QED
          BY <4>1, <4>2
      <3> QED
        BY <2>3, <3>1, <3>2
    <2> QED
      BY <2>1, <2>2, <2>3 DEF AccountEffect
  <1>4. CASE RecoveryStarts \/ RecoveryStep
    <2>1. pending \subseteq pending' /\ crashes' = crashes
      BY <1>4 DEF RecoveryStarts, RecoveryStep, RecoveryLooksUp, RecoverySeeds,
                  RecoveryLists, RecoveryMerges, Healthy, Fault, memory, bounds
    <2> QED
      BY <1>4, <2>1, RecoveryEffects
  <1>5. CASE Restart
    <2>1. crashes' # 0
      BY <1>5, ConstantsAssumption DEF Restart, TypeOK
    <2>2. \A r \in Slots : round'[r].pc = "idle" /\ ~round'[r].superseded
      BY <1>5 DEF Restart, ForgetMemory, IdleRound
    <2> QED
      BY <2>1, <2>2
  <1> QED
    BY <1>1, <1>2, <1>3, <1>4, <1>5, StepKinds

\* Failing rounds, conflicts and refused timers put every final back: until a
\* restart it is analyzed, on its way, pending or in a round.
THEOREM NothingDropped == Spec => []NoFinalDropped
  <1>. DEFINE J == RoundsAccounted /\ (crashes = 0 => \A s \in stored : Accounted(s))
  <1>1. Init => J
    BY DEF Init, RoundsAccounted, IdleRound
  <1>2. IInv /\ J /\ [Next]_vars => J'
    BY AccountStep
  <1>3. J => NoFinalDropped
    BY DroppedMeans
  <1>. HIDE DEF J
  <1> QED
    BY <1>1, <1>2, <1>3, Invariant, PTL DEF Spec
=============================================================================
