---------------------------- MODULE TreeAuditProofs ----------------------------
(***************************************************************************)
(* Proofs about the audits of the discussion tree, for any limits, any     *)
(* number of rounds, finals, failing statements and restarts.              *)
(***************************************************************************)
EXTENDS TreeAudit, FiniteSetTheorems, TLAPS

-----------------------------------------------------------------------------
(* The inductive invariant. *)

Working == {"limit", "mark", "call", "allow", "reread", "apply", "save"}

\* A call of scheduleTreeAudit that captured a payload has a class.
JobsClassed == \A s \in Sources : job[s] = NoJob \/ job[s].class \in Classes

\* A row keeps its task, its class and its payload.
SameRow(a, b) == a.task = b.task /\ a.class = b.class /\ a.doc = b.doc

\* The row an audit is about to save is the one it has claimed.
OwnsRow(l) ==
    LET f == flight[l]
    IN  /\ f.pc \in Working \cup {"claim"} => f.row.task = l /\ f.row.doc = f.doc
        /\ f.pc \in Working => /\ f.id \in 1..Len(runs)
                               /\ SameRow(runs[f.id], f.row)

RowsOwned == \A l \in Lanes : OwnsRow(l)

\* A call of the provider is in the history before it is made, and once.
CallIsCounted(l) ==
    LET f == flight[l]
    IN  /\ f.pc \in {"claim", "limit"} => ~f.row.called
        /\ f.pc \in {"limit", "mark"} => ~runs[f.id].called
        /\ f.pc \in {"call", "allow", "reread", "apply", "save"} =>
              f.row.called = runs[f.id].called

CallsCounted ==
    /\ \A l \in Lanes : CallIsCounted(l)
    /\ At("live", "mark") => ~Suppressed(flight["live"].row.class)

\* Only an audit that failed saves a failed row.
StatusKnown ==
    \A l \in Lanes :
       LET f == flight[l]
       IN  /\ f.pc \in {"allow", "reread", "apply"} => f.row.status = "completed"
           /\ f.pc = "save" /\ f.result # "failed" => f.row.status # "failed"

\* A row of a live audit that no audit in flight may still turn into a failed one.
Settled(i, tv) ==
    /\ runs[i].task = "live" /\ tv \in {runs[i].doc.tv, runs[i].res}
    /\ runs[i].status # "failed"
    /\ flight["live"].pc \in Working => flight["live"].id # i

HasRow(tv) == \E i \in 1..Len(runs) : Settled(i, tv)

AuditsHaveRows ==
    /\ audited > 0 => HasRow(audited)
    /\ At("live", "finish") /\ flight["live"].result # "failed" => HasRow(flight["live"].doc.tv)

\* Once the finalizer has cancelled it, no live audit takes effect any more.
Silent == flight["live"].dead \/ flight["live"].pc \in {"idle", "finish"}

FinalizerAlone ==
    /\ fin.pc # "idle" => closed /\ ended
    /\ fin.pc \in {"await", "review", "project", "done"} => Silent
    /\ fin.pc \in {"review", "project", "done"} => round.pc = "idle"
    /\ flight["review"].pc # "idle" => fin.pc = "review"

\* The row of an audit that is still heard is the last one, and carries the
\* streak of the row before.
Carried(l) == IF flight[l].id = 1 THEN 0 ELSE runs[flight[l].id - 1].streak

StreakAfter(verdict, streak) ==
    CASE verdict = "unapplied" -> streak + 1
      [] verdict \in {"clean", "applied"} -> 0
      [] OTHER -> streak

StreakCarried(l) ==
    LET f == flight[l]
    IN  ~f.dead =>
          /\ f.pc = "claim" => f.row.verdict = "none" /\ f.row.streak = CarriedStreak
          /\ f.pc \in Working => f.id = Len(runs)
          /\ f.pc \in {"limit", "mark", "call", "allow"} => f.row.verdict = "none"
          /\ f.pc \in {"reread", "apply"} => f.repair \/ f.row.verdict = "none"
          /\ f.pc \in Working \ {"save"} => f.row.streak = Carried(l)
          /\ f.pc = "save" => f.row.streak = StreakAfter(f.row.verdict, Carried(l))

StreaksCarried == StreakCountsRuns /\ \A l \in Lanes : StreakCarried(l)

\* A version names one payload, until the finalizer has written its own.
Known(d) == d.v <= live.v /\ (d.v = live.v => d.tv = live.tv)

VersionsKnown ==
    /\ live.v > 0 /\ live.tv <= live.v
    /\ fin.pc # "done" =>
          /\ Known(last) /\ Known(round.doc) /\ Known(fin.doc)
          /\ \A s \in Sources : Known(job[s].doc)
          /\ \A l \in Lanes : Known(flight[l].doc)

\* What is written over the live row has been a version of it.
DocsWritten ==
    /\ last = NoPayload \/ last.v > 0
    /\ round.pc # "idle" => round.doc.v > 0
    /\ fin.pc \in {"review", "project"} => fin.doc.v > 0
    /\ \A l \in Lanes : flight[l].pc = "finish" /\ flight[l].applied => flight[l].doc.v > 0

\* While the final review runs, the live row is the one it was given, or the one
\* it has written.
ReviewSeesRow ==
    LET f == flight["review"]
    IN  fin.pc = "review" /\ ~fin.blind =>
          /\ f.pc # "finish" => f.doc = fin.doc
          /\ f.pc \notin {"save", "finish"} => live = fin.doc
          /\ f.pc = "save" /\ f.result # "failed" => live = fin.doc
          /\ f.pc = "finish" /\ f.result # "failed" =>
                live = IF f.applied THEN f.doc ELSE fin.doc

ProjectionSeesRow ==
    fin.pc = "project" /\ ~fin.failed /\ ~fin.blind => live = fin.doc

AuditIInv ==
    /\ AuditTypeOK /\ JobsClassed /\ RowsOwned
    /\ CallsCounted /\ CallsWithinLimits
    /\ StatusKnown /\ AuditsHaveRows
    /\ FinalizerAlone /\ StreaksCarried
    /\ VersionsKnown /\ DocsWritten /\ ReviewSeesRow /\ ProjectionSeesRow

-----------------------------------------------------------------------------
(* The values the steps of an audit build. *)

LEMMA EmptyTypes ==
  /\ NoPayload \in Payload /\ NoRow \in Row /\ NoFlight \in Flight /\ NoJob \in Job
  <1>1. NoPayload \in Payload
    BY DEF NoPayload, Payload
  <1>2. NoRow \in Row
    BY <1>1 DEF NoRow, Row, Lanes, Classes, Verdicts
  <1>3. NoFlight \in Flight
    BY <1>1, <1>2 DEF NoFlight, Flight, FlightPCs, Classes
  <1>4. NoJob \in Job
    BY <1>1 DEF NoJob, Job
  <1> QED
    BY <1>1, <1>2, <1>3, <1>4

LEMMA CoalescedType ==
  ASSUME NEW a, NEW b
  PROVE  /\ Coalesced(a, b) \in Classes \cup {"none"}
         /\ b = "normal" => Coalesced(a, b) # "none"
  BY DEF Coalesced, Classes

LEMMA StreakAfterType ==
  ASSUME NEW verdict, NEW streak \in Nat
  PROVE  StreakAfter(verdict, streak) \in Nat
  <1>1. CASE verdict = "unapplied"
    BY <1>1 DEF StreakAfter
  <1>2. CASE verdict \in {"clean", "applied"}
    BY <1>2 DEF StreakAfter
  <1>3. CASE verdict \notin {"unapplied", "clean", "applied"}
    BY <1>3 DEF StreakAfter
  <1> QED
    BY <1>1, <1>2, <1>3

\* Classification writes the verdict and the streak that follows from it.
LEMMA ClassifiedType ==
  ASSUME NEW row \in Row, NEW verdict \in Verdicts
  PROVE  /\ Classified(row, verdict) \in Row
         /\ Classified(row, verdict) = [row EXCEPT !.verdict = verdict,
                                                   !.streak = StreakAfter(verdict, row.streak)]
  <1>1. row.streak \in Nat
    BY DEF Row
  <1>2. Classified(row, verdict) = [row EXCEPT !.verdict = verdict,
                                               !.streak = StreakAfter(verdict, row.streak)]
    BY DEF Classified, StreakAfter
  <1>3. StreakAfter(verdict, row.streak) \in Nat
    BY <1>1, StreakAfterType
  <1> QED
    BY <1>2, <1>3 DEF Row

LEMMA RowTypes ==
  ASSUME NEW row \in Row, NEW verdict \in Verdicts, NEW status \in {"completed", "skipped", "failed"},
         NEW res \in Nat, NEW called \in BOOLEAN
  PROVE  /\ [row EXCEPT !.status = status] \in Row
         /\ [row EXCEPT !.verdict = verdict] \in Row
         /\ [row EXCEPT !.res = res] \in Row
         /\ [row EXCEPT !.called = called] \in Row
         /\ Failed(row) \in Row
  BY DEF Row, Failed

-----------------------------------------------------------------------------
(* The steps of an audit. *)

\* A step of one lane leaves the flight of the other alone.
LEMMA GoesTo ==
  ASSUME AuditTypeOK, NEW l \in Lanes, NEW f \in Flight, Goes(l, f)
  PROVE  /\ flight' \in [Lanes -> Flight] /\ flight'[l] = f
         /\ \A m \in Lanes \ {l} : flight'[m] = flight[m]
  BY DEF Goes, AuditTypeOK

LEMMA EndsTo ==
  ASSUME AuditTypeOK, NEW l \in Lanes, NEW result \in {"none", "ok", "stale", "failed"},
         Ends(l, result)
  PROVE  /\ flight' \in [Lanes -> Flight]
         /\ \A m \in Lanes \ {l} : flight'[m] = flight[m]
         /\ flight'[l].pc = "finish" /\ flight'[l].result = result
         /\ flight'[l].doc = flight[l].doc /\ ~flight'[l].applied
  <1> DEFINE f == [NoFlight EXCEPT !.pc = "finish", !.class = flight[l].class,
                                   !.doc = flight[l].doc, !.called = flight[l].called,
                                   !.result = result]
  <1>1. flight[l] \in Flight
    BY DEF AuditTypeOK
  <1>2. f \in Flight /\ f.pc = "finish" /\ f.result = result /\ f.doc = flight[l].doc /\ ~f.applied
    BY <1>1, EmptyTypes DEF Flight, FlightPCs, NoFlight
  <1>3. Goes(l, f)
    BY DEF Ends
  <1> QED
    BY <1>2, <1>3, GoesTo

LEMMA SavesTo ==
  ASSUME AuditTypeOK, NEW l \in Lanes, NEW row \in Row,
         NEW result \in {"none", "ok", "stale", "failed"}, Saves(l, row, result)
  PROVE  /\ flight' \in [Lanes -> Flight]
         /\ \A m \in Lanes \ {l} : flight'[m] = flight[m]
         /\ flight'[l].pc = "save" /\ flight'[l].row = row /\ flight'[l].result = result
         /\ flight'[l].id = flight[l].id /\ flight'[l].doc = flight[l].doc
         /\ flight'[l].dead = flight[l].dead /\ flight'[l].applied = flight[l].applied
  <1> DEFINE f == [flight[l] EXCEPT !.pc = "save", !.row = row, !.result = result]
  <1>1. flight[l] \in Flight
    BY DEF AuditTypeOK
  <1>2. /\ f \in Flight /\ f.pc = "save" /\ f.row = row /\ f.result = result
        /\ f.id = flight[l].id /\ f.doc = flight[l].doc /\ f.dead = flight[l].dead
        /\ f.applied = flight[l].applied
    BY <1>1 DEF Flight, FlightPCs
  <1>3. Goes(l, f)
    BY DEF Saves
  <1> QED
    BY <1>2, <1>3, GoesTo

\* What a statement does to the bounds.
LEMMA BoundsType ==
  ASSUME AuditTypeOK, Healthy \/ Fault
  PROVE  faults' \in 0..MaxFaults /\ crashes' \in 0..MaxCrashes
  BY AuditAssumption DEF AuditTypeOK, Healthy, Fault

LEMMA BreaksTo ==
  ASSUME NEW l \in Lanes, NEW effect \in BOOLEAN, Breaks(l, effect)
  PROVE  /\ Healthy \/ Fault
         /\ (~flight[l].dead /\ effect) \/ UNCHANGED <<live, runs>>
  BY DEF Breaks

LEMMA WrittenType ==
  ASSUME AuditTypeOK, NEW l \in Lanes, NEW row \in Row, flight[l].id \in 1..Len(runs)
  PROVE  /\ Written(l, row) \in Seq(Row) /\ Len(Written(l, row)) = Len(runs)
         /\ Written(l, row)[flight[l].id]
               = [row EXCEPT !.recent = runs[flight[l].id].recent]
         /\ \A i \in 1..Len(runs) : i # flight[l].id => Written(l, row)[i] = runs[i]
  <1> DEFINE new == [row EXCEPT !.recent = runs[flight[l].id].recent]
  <1>1. runs \in Seq(Row) /\ runs[flight[l].id] \in Row
    BY DEF AuditTypeOK
  <1>2. new \in Row
    BY <1>1 DEF Row
  <1>3. Written(l, row) = [runs EXCEPT ![flight[l].id] = new]
    BY DEF Written
  <1> HIDE DEF new
  <1>4. [runs EXCEPT ![flight[l].id] = new] \in Seq(Row)
    BY <1>1, <1>2
  <1> QED
    BY <1>1, <1>2, <1>3, <1>4 DEF new

LEMMA OwnedRow ==
  ASSUME AuditTypeOK, RowsOwned, NEW l \in Lanes
  PROVE  /\ flight[l] \in Flight /\ flight[l].row \in Row /\ flight[l].doc \in Payload
         /\ flight[l].row.called \in BOOLEAN /\ flight[l].row.verdict \in Verdicts
         /\ flight[l].row.streak \in Nat
         /\ flight[l].pc \in Working => flight[l].id \in 1..Len(runs)
         /\ flight[l].result \in {"none", "ok", "stale", "failed"}
  BY DEF AuditTypeOK, RowsOwned, OwnsRow, Flight, Row

LEMMA LastRow ==
  ASSUME AuditTypeOK, runs # <<>>
  PROVE  /\ Len(runs) \in 1..Len(runs) /\ runs[Len(runs)] \in Row
         /\ DOMAIN runs = 1..Len(runs)
  <1>1. runs \in Seq(Row) /\ Len(runs) \in Nat /\ Len(runs) # 0
    BY DEF AuditTypeOK
  <1> QED
    BY <1>1

StepTypes(l) ==
    /\ flight' \in [Lanes -> Flight] /\ \A m \in Lanes \ {l} : flight'[m] = flight[m]
    /\ runs' \in Seq(Row) /\ live' \in Payload
    /\ Healthy \/ Fault

LEMMA LoadsTypes ==
  ASSUME AuditTypeOK, RowsOwned, NEW l \in Lanes, AuditLoads(l)
  PROVE  StepTypes(l)
  <1> USE DEF StepTypes
  <1>0. runs' \in Seq(Row) /\ live' \in Payload
    BY DEF AuditTypeOK, AuditLoads
  <1>1. CASE Works(l) /\ Ends(l, "ok")
    BY <1>0, <1>1, EndsTo DEF Works
  <1>2. CASE Breaks(l, FALSE) /\ Ends(l, "failed")
    BY <1>0, <1>2, EndsTo, BreaksTo
  <1> DEFINE row == [NoRow EXCEPT !.task = l, !.class = flight[l].class, !.doc = flight[l].doc,
                                  !.heard = heard, !.streak = CarriedStreak]
             f == [flight[l] EXCEPT !.pc = "claim", !.row = row]
  <1>3. CASE Works(l) /\ Goes(l, f)
    <2>1. flight[l] \in Flight /\ heard \in Nat
      BY DEF AuditTypeOK
    <2>2. CarriedStreak \in Nat
      BY LastRow DEF CarriedStreak, Row
    <2>3. row \in Row
      BY <2>1, <2>2, EmptyTypes DEF Row, Flight
    <2> HIDE DEF row
    <2>4. f \in Flight
      BY <2>1, <2>3 DEF Flight, FlightPCs
    <2> QED
      BY <1>0, <1>3, <2>4, GoesTo DEF Works
  <1> QED
    BY <1>1, <1>2, <1>3 DEF AuditLoads

LEMMA ClaimsTypes ==
  ASSUME AuditTypeOK, RowsOwned, NEW l \in Lanes, AuditClaims(l)
  PROVE  StepTypes(l)
  <1> USE DEF StepTypes
  <1>0. flight[l] \in Flight /\ flight[l].row \in Row /\ live' \in Payload /\ runs \in Seq(Row)
    BY OwnedRow DEF AuditTypeOK, AuditClaims
  <1>1. runs' \in Seq(Row)
    <2>1. runs' = runs \/ runs' = Append(runs, flight[l].row)
      BY DEF AuditClaims, Breaks
    <2> QED
      BY <1>0, <2>1
  <1>2. (Healthy \/ Fault) /\ \/ Ends(l, "ok") \/ Ends(l, "failed")
                              \/ Goes(l, [flight[l] EXCEPT !.pc = "limit", !.id = Len(runs) + 1])
    BY DEF AuditClaims, Breaks, Works
  <1>3. [flight[l] EXCEPT !.pc = "limit", !.id = Len(runs) + 1] \in Flight
    <2>1. Len(runs) + 1 \in Nat
      BY <1>0
    <2> QED
      BY <1>0, <2>1 DEF Flight, FlightPCs
  <1> QED
    BY <1>0, <1>1, <1>2, <1>3, EndsTo, GoesTo

LEMMA LimitTypes ==
  ASSUME AuditTypeOK, RowsOwned, NEW l \in Lanes, AuditIsLimited(l)
  PROVE  StepTypes(l)
  <1> USE DEF StepTypes
  <1> DEFINE row == flight[l].row
             skipped == [row EXCEPT !.status = "skipped"]
             f == [flight[l] EXCEPT !.pc = "mark", !.row.called = TRUE]
  <1>0. flight[l] \in Flight /\ row \in Row /\ live' \in Payload /\ runs' \in Seq(Row)
    BY OwnedRow DEF AuditTypeOK, AuditIsLimited
  <1>1. skipped \in Row /\ Classified(skipped, "clean") \in Row /\ Failed(row) \in Row
    <2>1. skipped \in Row /\ Failed(row) \in Row
      BY <1>0 DEF Row, Failed
    <2> HIDE DEF skipped
    <2> QED
      BY <2>1, ClassifiedType DEF Verdicts
  <1>2. f \in Flight
    <2>1. f = [flight[l] EXCEPT !.pc = "mark", !.row = [row EXCEPT !.called = TRUE]]
      BY <1>0 DEF Flight
    <2>2. [row EXCEPT !.called = TRUE] \in Row
      BY <1>0 DEF Row
    <2> QED
      BY <1>0, <2>1, <2>2 DEF Flight, FlightPCs
  <1>3. (Healthy \/ Fault) /\ \/ Saves(l, skipped, "ok") \/ Saves(l, Classified(skipped, "clean"), "ok")
                              \/ Saves(l, Failed(row), "failed") \/ Goes(l, f)
    BY DEF AuditIsLimited, Breaks, Works
  <1> HIDE DEF skipped, f, row
  <1> QED
    BY <1>0, <1>1, <1>2, <1>3, SavesTo, GoesTo

LEMMA MarksTypes ==
  ASSUME AuditTypeOK, RowsOwned, NEW l \in Lanes, AuditMarksCall(l)
  PROVE  StepTypes(l)
  <1> USE DEF StepTypes
  <1>0. /\ flight[l] \in Flight /\ flight[l].row \in Row /\ flight[l].id \in 1..Len(runs)
        /\ live' \in Payload /\ runs \in Seq(Row)
    BY OwnedRow DEF AuditTypeOK, AuditMarksCall, At, Working
  <1>1. runs' \in Seq(Row)
    <2>1. runs' = runs \/ runs' = Written(l, flight[l].row)
      BY DEF AuditMarksCall, Breaks
    <2>2. Written(l, flight[l].row) \in Seq(Row)
      BY <1>0, WrittenType
    <2> QED
      BY <1>0, <2>1, <2>2
  <1>2. (Healthy \/ Fault) /\ \/ Ends(l, "failed")
                              \/ Goes(l, [flight[l] EXCEPT !.pc = "call", !.called = TRUE])
    BY DEF AuditMarksCall, Breaks, Works
  <1>3. [flight[l] EXCEPT !.pc = "call", !.called = TRUE] \in Flight
    BY <1>0 DEF Flight, FlightPCs
  <1> QED
    BY <1>0, <1>1, <1>2, <1>3, EndsTo, GoesTo

LEMMA CallTypes ==
  ASSUME AuditTypeOK, RowsOwned, NEW l \in Lanes,
         ProviderFails(l) \/ AuditPanics(l) \/ ProviderAnswers(l)
  PROVE  StepTypes(l)
  <1> USE DEF StepTypes
  <1>0. /\ flight[l] \in Flight /\ flight[l].row \in Row
        /\ live' \in Payload /\ runs' \in Seq(Row)
    BY OwnedRow DEF AuditTypeOK, ProviderFails, AuditPanics, ProviderAnswers
  <1>1. CASE ProviderFails(l)
    <2>1. Failed(flight[l].row) \in Row
      BY <1>0 DEF Failed, Row
    <2>2. (Healthy \/ Fault) /\ Saves(l, Failed(flight[l].row), "failed")
      BY <1>1 DEF ProviderFails, Breaks
    <2> QED
      BY <1>0, <2>1, <2>2, SavesTo
  <1>2. CASE AuditPanics(l)
    <2> DEFINE f == [NoFlight EXCEPT !.pc = "finish", !.class = flight[l].class,
                                     !.doc = flight[l].doc, !.result = "failed"]
    <2>1. f \in Flight
      BY <1>0, EmptyTypes DEF Flight, FlightPCs
    <2>2. Goes(l, f) /\ Fault
      BY <1>2 DEF AuditPanics
    <2> HIDE DEF f
    <2> QED
      BY <1>0, <2>1, <2>2, GoesTo
  <1>3. CASE ProviderAnswers(l)
    <2> DEFINE row == [flight[l].row EXCEPT !.status = "completed"]
    <2>1. row \in Row
      BY <1>0, RowTypes DEF Row
    <2> HIDE DEF row
    <2>2. CASE Goes(l, [flight[l] EXCEPT !.pc = "allow", !.row = row])
      <3>1. [flight[l] EXCEPT !.pc = "allow", !.row = row] \in Flight
        BY <1>0, <2>1 DEF Flight, FlightPCs
      <3> QED
        BY <1>0, <1>3, <2>2, <3>1, GoesTo DEF ProviderAnswers, Works
    <2>3. ASSUME NEW verdict \in {"clean", "unapplied"}, Saves(l, Classified(row, verdict), "ok")
          PROVE  StepTypes(l)
      <3>1. Classified(row, verdict) \in Row
        BY <2>1, ClassifiedType DEF Verdicts
      <3> QED
        BY <1>0, <1>3, <2>3, <3>1, SavesTo DEF ProviderAnswers, Works
    <2>4. ASSUME NEW verdict \in {"clean", "unapplied"},
                 Goes(l, [flight[l] EXCEPT !.pc = "reread", !.repair = TRUE,
                                           !.row = [row EXCEPT !.verdict = verdict]])
          PROVE  StepTypes(l)
      <3>1. [row EXCEPT !.verdict = verdict] \in Row
        BY <2>1 DEF Row, Verdicts
      <3>2. [flight[l] EXCEPT !.pc = "reread", !.repair = TRUE,
                              !.row = [row EXCEPT !.verdict = verdict]] \in Flight
        BY <1>0, <3>1 DEF Flight, FlightPCs
      <3> QED
        BY <1>0, <1>3, <2>4, <3>2, GoesTo DEF ProviderAnswers, Works
    <2> QED
      BY <1>3, <2>2, <2>3, <2>4 DEF ProviderAnswers, row
  <1> QED
    BY <1>1, <1>2, <1>3

LEMMA AllowTypes ==
  ASSUME AuditTypeOK, RowsOwned, NEW l \in Lanes, AuditMayApply(l) \/ AuditRereads(l)
  PROVE  StepTypes(l)
  <1> USE DEF StepTypes
  <1> DEFINE row == flight[l].row
  <1>0. /\ flight[l] \in Flight /\ row \in Row
        /\ live' \in Payload /\ runs' \in Seq(Row)
    BY OwnedRow DEF AuditTypeOK, AuditMayApply, AuditRereads
  <1>1. \A pc \in FlightPCs : Step(l, pc) => /\ flight' \in [Lanes -> Flight]
                                             /\ \A m \in Lanes \ {l} : flight'[m] = flight[m]
    <2> SUFFICES ASSUME NEW pc \in FlightPCs, Step(l, pc)
                 PROVE  /\ flight' \in [Lanes -> Flight]
                        /\ \A m \in Lanes \ {l} : flight'[m] = flight[m]
      OBVIOUS
    <2>1. [flight[l] EXCEPT !.pc = pc] \in Flight
      BY <1>0 DEF Flight
    <2> QED
      BY <2>1, GoesTo DEF Step
  <1>2. row.verdict \in Verdicts
    BY <1>0 DEF Row
  <1>3. CASE AuditMayApply(l)
    <2>1. Classified(row, "unapplied") \in Row
      BY <1>0, ClassifiedType DEF Verdicts
    <2>2. Step(l, "reread") \/ Saves(l, Classified(row, "unapplied"), "failed")
             \/ Saves(l, Classified(row, "unapplied"), "ok")
      BY <1>3 DEF AuditMayApply
    <2>3. Healthy
      BY <1>3 DEF AuditMayApply
    <2> QED
      BY <1>0, <1>1, <2>1, <2>2, <2>3, SavesTo DEF FlightPCs
  <1>4. CASE AuditRereads(l)
    <2> DEFINE verdict == IF flight[l].repair THEN row.verdict ELSE "unapplied"
               failed == Failed([row EXCEPT !.verdict = "none"])
    <2>1. verdict \in Verdicts
      BY <1>2 DEF Verdicts
    <2>2. failed \in Row
      BY <1>0 DEF Row, Failed, Verdicts
    <2>3. (Healthy \/ Fault) /\ \/ Saves(l, failed, "failed") \/ Step(l, "apply")
                                \/ Saves(l, Classified(row, verdict), "stale")
                                \/ Saves(l, Classified(row, verdict), "ok")
      BY <1>4 DEF AuditRereads, Breaks, Works
    <2> HIDE DEF verdict, failed, row
    <2>4. Classified(row, verdict) \in Row
      BY <1>0, <2>1, ClassifiedType
    <2> QED
      BY <1>0, <1>1, <2>2, <2>3, <2>4, SavesTo DEF FlightPCs
  <1> QED
    BY <1>3, <1>4

LEMMA SavesTypes ==
  ASSUME AuditTypeOK, RowsOwned, NEW l \in Lanes, AuditSaves(l)
  PROVE  StepTypes(l)
  <1> USE DEF StepTypes
  <1>0. /\ flight[l] \in Flight /\ flight[l].row \in Row /\ flight[l].id \in 1..Len(runs)
        /\ flight[l].result \in {"none", "ok", "stale", "failed"}
        /\ live' \in Payload /\ runs \in Seq(Row)
    BY OwnedRow DEF AuditTypeOK, AuditSaves, At, Working
  <1>1. runs' \in Seq(Row)
    <2>1. runs' = runs \/ runs' = Written(l, flight[l].row)
      BY DEF AuditSaves, Breaks
    <2>2. Written(l, flight[l].row) \in Seq(Row)
      BY <1>0, WrittenType
    <2> QED
      BY <1>0, <2>1, <2>2
  <1>2. (Healthy \/ Fault) /\ (Ends(l, "failed") \/ Ends(l, flight[l].result))
    BY DEF AuditSaves, Breaks, Works
  <1> QED
    BY <1>0, <1>1, <1>2, EndsTo

\* The row an apply writes, and the payload it leaves.
AppliedRow(l) ==
    [Classified(flight[l].row, "applied") EXCEPT !.res = flight[l].doc.tv + 1]

AppliedDoc(l) == [v |-> flight[l].doc.v + 1, tv |-> flight[l].doc.tv + 1]

AppliedFlight(l) ==
    [NoFlight EXCEPT !.pc = "finish", !.class = flight[l].class, !.doc = AppliedDoc(l),
                     !.called = TRUE, !.applied = TRUE, !.result = "ok"]

StaleVerdict(l) == IF flight[l].repair THEN flight[l].row.verdict ELSE "unapplied"

Commits(l) == Apply(l) /\ runs' = Written(l, AppliedRow(l))

LEMMA AppliesCases ==
  ASSUME NEW l, AuditApplies(l)
  PROVE  /\ At(l, "apply") /\ FlightFrame
         /\ \/ Works(l) /\ Commits(l) /\ Goes(l, AppliedFlight(l))
            \/ /\ Works(l) /\ live.v # flight[l].doc.v /\ UNCHANGED <<live, runs>>
               /\ Saves(l, Classified(flight[l].row, StaleVerdict(l)), "stale")
            \/ Breaks(l, Commits(l)) /\ Saves(l, Failed(AppliedRow(l)), "failed")
  BY DEF AuditApplies, Commits, AppliedRow, AppliedDoc, AppliedFlight, StaleVerdict

LEMMA AppliedTypes ==
  ASSUME AuditTypeOK, RowsOwned, NEW l \in Lanes
  PROVE  /\ AppliedRow(l) \in Row /\ AppliedDoc(l) \in Payload /\ AppliedFlight(l) \in Flight
         /\ Failed(AppliedRow(l)) \in Row
         /\ Classified(flight[l].row, StaleVerdict(l)) \in Row
  <1>0. /\ flight[l] \in Flight /\ flight[l].row \in Row /\ flight[l].doc \in Payload
        /\ flight[l].row.verdict \in Verdicts
    BY OwnedRow
  <1>1. AppliedDoc(l) \in Payload /\ flight[l].doc.tv + 1 \in Nat
    BY <1>0 DEF AppliedDoc, Payload
  <1>2. AppliedRow(l) \in Row
    <2>1. Classified(flight[l].row, "applied") \in Row
      BY <1>0, ClassifiedType DEF Verdicts
    <2> QED
      BY <2>1, <1>1 DEF AppliedRow, Row
  <1>3. AppliedFlight(l) \in Flight
    BY <1>0, <1>1, EmptyTypes DEF AppliedFlight, Flight, FlightPCs
  <1>4. Failed(AppliedRow(l)) \in Row
    BY <1>2 DEF Failed, Row
  <1>5. StaleVerdict(l) \in Verdicts
    BY <1>0 DEF StaleVerdict, Verdicts
  <1> QED
    BY <1>0, <1>1, <1>2, <1>3, <1>4, <1>5, ClassifiedType

LEMMA AppliesTypes ==
  ASSUME AuditTypeOK, RowsOwned, NEW l \in Lanes, AuditApplies(l)
  PROVE  StepTypes(l)
  <1> USE DEF StepTypes
  <1>0. /\ flight[l] \in Flight /\ flight[l].id \in 1..Len(runs) /\ flight[l].doc \in Payload
        /\ live \in Payload /\ runs \in Seq(Row)
    BY OwnedRow DEF AuditTypeOK, AuditApplies, At, Working
  <1>1. Commits(l) => runs' \in Seq(Row) /\ live' \in Payload
    <2>1. Commits(l) => runs' = Written(l, AppliedRow(l)) /\ live' = [v |-> live.v + 1, tv |-> flight[l].doc.tv + 1]
      BY DEF Commits, Apply
    <2>2. [v |-> live.v + 1, tv |-> flight[l].doc.tv + 1] \in Payload
      BY <1>0 DEF Payload
    <2>3. AppliedRow(l) \in Row
      BY AppliedTypes
    <2>4. Written(l, AppliedRow(l)) \in Seq(Row)
      BY <1>0, <2>3, WrittenType
    <2> QED
      BY <2>1, <2>2, <2>4
  <1>2. (Healthy \/ Fault) /\ (Commits(l) \/ UNCHANGED <<live, runs>>)
    BY AppliesCases DEF Breaks, Works
  <1>3. \/ Goes(l, AppliedFlight(l)) \/ Saves(l, Classified(flight[l].row, StaleVerdict(l)), "stale")
        \/ Saves(l, Failed(AppliedRow(l)), "failed")
    BY AppliesCases
  <1> QED
    BY <1>0, <1>1, <1>2, <1>3, AppliedTypes, SavesTo, GoesTo

LEMMA AuditStepTypes ==
  ASSUME AuditTypeOK, RowsOwned, NEW l \in Lanes, AuditStep(l)
  PROVE  StepTypes(l) /\ FlightFrame
  <1>1. FlightFrame
    BY DEF AuditStep, AuditLoads, AuditClaims, AuditIsLimited, AuditMarksCall, ProviderFails,
           AuditPanics, ProviderAnswers, AuditMayApply, AuditRereads, AuditApplies, AuditSaves
  <1> QED
    BY <1>1, LoadsTypes, ClaimsTypes, LimitTypes, MarksTypes, CallTypes, AllowTypes,
       AppliesTypes, SavesTypes DEF AuditStep

-----------------------------------------------------------------------------
(* Types. *)

LEMMA InitTypes == AuditInit => AuditTypeOK
  <1> SUFFICES ASSUME AuditInit PROVE AuditTypeOK
    OBVIOUS
  <1>1. live \in Payload /\ last \in Payload /\ NoPayload \in Payload /\ runs \in Seq(Row)
    BY EmptyTypes DEF AuditInit, Payload
  <1>2. job \in [Sources -> Job] /\ flight \in [Lanes -> Flight]
    BY EmptyTypes DEF AuditInit
  <1>3. faults \in 0..MaxFaults /\ crashes \in 0..MaxCrashes
    BY AuditAssumption DEF AuditInit
  <1> QED
    BY <1>1, <1>2, <1>3 DEF AuditInit, AuditTypeOK, IdleRound, IdleFinalizer

LEMMA SameTypes ==
  ASSUME AuditTypeOK, UNCHANGED avars
  PROVE  AuditTypeOK'
  BY DEF AuditTypeOK, avars

LEMMA TickTypes ==
  ASSUME AuditTypeOK, Tick
  PROVE  AuditTypeOK'
  <1>1. [class |-> Coalesced(pending, "normal"), doc |-> last] \in Job
    BY CoalescedType DEF Job, AuditTypeOK
  <1>2. job' \in [Sources -> Job]
    BY <1>1 DEF Tick, AuditTypeOK
  <1> QED
    BY <1>2 DEF Tick, AuditTypeOK, Healthy, durable, schedule

LEMMA ScheduleTypes ==
  ASSUME AuditTypeOK, JobsClassed, NEW s \in Sources, ScheduleTreeAudit(s)
  PROVE  AuditTypeOK'
  <1> DEFINE f == [NoFlight EXCEPT !.pc = "load", !.class = job[s].class, !.doc = job[s].doc,
                                   !.dead = (s = "finish")]
  <1>1. job[s] \in Job /\ job[s] # NoJob /\ job' = [job EXCEPT ![s] = NoJob]
    BY DEF AuditTypeOK, ScheduleTreeAudit
  <1>2. job' \in [Sources -> Job]
    BY <1>1, EmptyTypes DEF AuditTypeOK
  <1>3. \/ UNCHANGED <<pending, flight>>
        \/ Postpones(job[s].class)
        \/ pending' = "none" /\ Goes("live", f) /\ cool \cap {"backoff", job[s].class} = {}
    BY DEF ScheduleTreeAudit
  <1>4. pending' \in Classes \cup {"none"}
    BY <1>3, CoalescedType DEF AuditTypeOK, Postpones
  <1>5. flight' \in [Lanes -> Flight]
    <2>1. CASE UNCHANGED flight
      BY <2>1 DEF AuditTypeOK
    <2>2. CASE Goes("live", f)
      <3>1. f \in Flight
        BY <1>1, EmptyTypes DEF Job, Flight, FlightPCs, JobsClassed
      <3> HIDE DEF f
      <3> QED
        BY <3>1, <2>2, GoesTo DEF Lanes
    <2> QED
      BY <1>3, <2>1, <2>2 DEF Postpones
  <1> QED
    BY <1>2, <1>4, <1>5 DEF ScheduleTreeAudit, AuditTypeOK, Healthy, durable

LEMMA RoundTypes ==
  ASSUME AuditTypeOK, RoundStep
  PROVE  AuditTypeOK'
  <1>1. CASE RoundStarts
    <2>1. last' \in Payload
      BY <1>1 DEF RoundStarts, AuditTypeOK
    <2> QED
      BY <1>1, <2>1 DEF RoundStarts, AuditTypeOK, Healthy, durable
  <1>2. CASE RoundPersists
    <2>1. live' \in Payload /\ last' \in Payload
      <3>1. CASE UNCHANGED live /\ last' = live
        BY <3>1 DEF AuditTypeOK
      <3>2. ASSUME NEW changed \in 0..1, live' = [v |-> live.v + 1, tv |-> live.tv + changed],
                   UNCHANGED last
            PROVE  live' \in Payload /\ last' \in Payload
        BY <3>2 DEF AuditTypeOK, Payload
      <3> QED
        BY <1>2, <3>1, <3>2 DEF RoundPersists, DiscardsStale
    <2>2. round' \in [pc : {"idle", "analyzing", "persisted", "consider"}, doc : Payload]
      BY <1>2, <2>1, EmptyTypes DEF RoundPersists, DiscardsStale, IdleRound
    <2> QED
      BY <1>2, <2>1, <2>2 DEF RoundPersists, DiscardsStale, AuditTypeOK, Healthy
  <1>3. CASE RoundCompletes
    <2>1. round.doc \in Payload
      BY DEF AuditTypeOK
    <2>2. \E class \in Classes \cup {"none"} :
             job' = [job EXCEPT !["round"] = IF class = "none" THEN NoJob
                                             ELSE [class |-> class, doc |-> round.doc]]
      BY <1>3, CoalescedType DEF RoundCompletes
    <2>3. job' \in [Sources -> Job]
      <3>1. PICK class \in Classes \cup {"none"} :
                   job' = [job EXCEPT !["round"] = IF class = "none" THEN NoJob
                                                   ELSE [class |-> class, doc |-> round.doc]]
        BY <2>2
      <3>2. (IF class = "none" THEN NoJob ELSE [class |-> class, doc |-> round.doc]) \in Job
        BY <2>1, EmptyTypes DEF Job
      <3> QED
        BY <3>1, <3>2 DEF AuditTypeOK
    <2>4. round' \in [pc : {"idle", "analyzing", "persisted", "consider"}, doc : Payload]
      BY <1>3, EmptyTypes DEF RoundCompletes, IdleRound
    <2> QED
      BY <1>3, <2>1, <2>3, <2>4 DEF RoundCompletes, AuditTypeOK, Healthy, durable
  <1> QED
    BY <1>1, <1>2, <1>3 DEF RoundStep

LEMMA EnvironmentTypes ==
  ASSUME AuditTypeOK, HourPasses \/ TranscriptArrives \/ Restart \/ \E c \in Classes \cup {"backoff"} : CoolsDown(c)
  PROVE  AuditTypeOK'
  <1>1. CASE HourPasses
    <2>1. runs' = [i \in 1..Len(runs) |-> [runs[i] EXCEPT !.recent = FALSE]]
      BY <1>1 DEF HourPasses, AuditTypeOK
    <2>2. ASSUME NEW i \in 1..Len(runs)
          PROVE  [runs[i] EXCEPT !.recent = FALSE] \in Row
      <3>1. runs[i] \in Row
        BY DEF AuditTypeOK
      <3> QED
        BY <3>1 DEF Row
    <2>3. runs' \in Seq(Row)
      <3>1. Len(runs) \in Nat
        BY DEF AuditTypeOK
      <3> QED
        BY <2>1, <2>2, <3>1
    <2> QED
      BY <1>1, <2>3 DEF HourPasses, AuditTypeOK, Healthy, schedule
  <1>2. CASE TranscriptArrives
    BY <1>2 DEF TranscriptArrives, AuditTypeOK, Healthy, schedule
  <1>3. CASE Restart
    <2>1. job' \in [Sources -> Job] /\ flight' \in [Lanes -> Flight]
      BY <1>3, EmptyTypes DEF Restart
    <2>2. crashes' \in 0..MaxCrashes /\ faults' \in 0..MaxFaults
      BY <1>3, AuditAssumption DEF Restart, AuditTypeOK
    <2> QED
      BY <1>3, <2>1, <2>2, EmptyTypes DEF Restart, AuditTypeOK, durable, IdleRound, IdleFinalizer
  <1>4. ASSUME NEW c \in Classes \cup {"backoff"}, CoolsDown(c)
        PROVE  AuditTypeOK'
    BY <1>4 DEF CoolsDown, AuditTypeOK, Healthy, durable
  <1> QED
    BY <1>1, <1>2, <1>3, <1>4

LEMMA FinishTypes ==
  ASSUME AuditTypeOK, FinishTreeAuditFlight
  PROVE  AuditTypeOK'
  <1> DEFINE f == flight["live"]
  <1>1. f \in Flight /\ f.doc \in Payload /\ f.class \in Classes /\ audited \in Nat /\ last \in Payload
    BY DEF AuditTypeOK, Flight, Lanes
  <1>2. last' \in Payload
    BY <1>1 DEF FinishTreeAuditFlight
  <1>3. audited' \in Nat
    BY <1>1 DEF FinishTreeAuditFlight, Payload
  <1>4. cool' \subseteq Classes \cup {"backoff"}
    <2>1. cool \subseteq Classes \cup {"backoff"}
      BY DEF AuditTypeOK
    <2>2. cool' = cool \cup {"backoff"}
          \/ cool' = (cool \ {"backoff"}) \cup {"normal"} \cup {"high"}
          \/ cool' = (cool \ {"backoff"}) \cup {"normal"} \cup {}
      BY DEF FinishTreeAuditFlight
    <2> QED
      BY <2>1, <2>2 DEF Classes
  <1>5. PICK reason \in Classes \cup {"none"} :
               /\ pending' \in {"none", reason}
               /\ \/ job' = [job EXCEPT !["finish"] = NoJob]
                  \/ reason # "none" /\ job' = [job EXCEPT !["finish"] = [class |-> reason, doc |-> last']]
    <2> DEFINE wanted == f.result = "failed" \/ last'.tv > f.doc.tv
               reason == IF wanted /\ ~closed THEN Coalesced(pending, "normal") ELSE pending
               due == reason # "none" /\ ~closed /\ cool' \cap {"backoff", reason} = {}
    <2>1. reason \in Classes \cup {"none"}
      BY CoalescedType DEF AuditTypeOK
    <2>2. /\ pending' = IF due THEN "none" ELSE reason
          /\ job' = [job EXCEPT !["finish"] = IF due THEN [class |-> reason, doc |-> last'] ELSE NoJob]
      BY DEF FinishTreeAuditFlight
    <2>3. due => reason # "none"
      OBVIOUS
    <2> HIDE DEF reason, due
    <2> QED
      BY <2>1, <2>2, <2>3
  <1>6. job' \in [Sources -> Job] /\ pending' \in Classes \cup {"none"}
    <2>1. [class |-> reason, doc |-> last'] \in Job
      BY <1>2 DEF Job
    <2> QED
      BY <1>5, <2>1, EmptyTypes DEF AuditTypeOK
  <1>7. flight' \in [Lanes -> Flight]
    BY EmptyTypes, GoesTo DEF FinishTreeAuditFlight, Lanes
  <1> QED
    BY <1>2, <1>3, <1>4, <1>6, <1>7 DEF FinishTreeAuditFlight, AuditTypeOK, Healthy, durable

FinPCs == {"idle", "cancel", "await", "review", "project", "done"}

LEMMA FinTypes ==
  ASSUME AuditTypeOK, FinStep
  PROVE  AuditTypeOK'
  <1> DEFINE Fins == [pc : FinPCs, doc : Payload, failed : BOOLEAN, blind : BOOLEAN]
  <1>0. fin \in Fins /\ \A pc \in FinPCs : FinMoves(pc) => fin' \in Fins
    BY DEF AuditTypeOK, FinMoves, FinPCs
  <1>b. faults' \in 0..MaxFaults /\ crashes' \in 0..MaxCrashes
    BY BoundsType DEF FinStep, FinCloses, FinCancels, FinReads, FinIsReviewed, FinProjects
  <1>1. CASE FinCloses
    <2>1. fin' \in Fins
      BY <1>0, <1>1 DEF FinCloses, FinPCs
    <2> QED
      BY <1>1, <1>b, <2>1 DEF FinCloses, FinFrame, AuditTypeOK, FinPCs
  <1>2. CASE FinCancels
    <2>1. fin' \in Fins
      BY <1>0, <1>2 DEF FinCancels, FinPCs
    <2>2. flight' \in [Lanes -> Flight]
      <3>1. flight["live"] \in Flight
        BY DEF AuditTypeOK, Lanes
      <3>2. PICK dead \in BOOLEAN : flight' = [flight EXCEPT !["live"] = [flight["live"] EXCEPT !.dead = dead]]
        <4>1. (flight["live"].dead \/ ~At("live", "idle")) \in BOOLEAN
          BY <3>1 DEF Flight, At
        <4> QED
          BY <1>2, <4>1 DEF FinCancels
      <3>3. [flight["live"] EXCEPT !.dead = dead] \in Flight
        BY <3>1 DEF Flight
      <3> QED
        BY <3>2, <3>3 DEF AuditTypeOK, Lanes
    <2> QED
      BY <1>2, <1>b, <2>1, <2>2 DEF FinCancels, FinFrame, AuditTypeOK, FinPCs
  <1>3. CASE FinReads
    <2>1. last' \in Payload
      BY <1>3 DEF FinReads, AuditTypeOK
    <2>2. fin' \in Fins
      BY <1>0, <1>3, <2>1 DEF FinReads, FinPCs
    <2>3. flight' \in [Lanes -> Flight]
      <3>1. [NoFlight EXCEPT !.pc = "load", !.doc = last'] \in Flight
        BY <2>1, EmptyTypes DEF Flight, FlightPCs
      <3> QED
        BY <1>3, <3>1, GoesTo DEF FinReads, Lanes
    <2> QED
      BY <1>3, <1>b, <2>1, <2>2, <2>3 DEF FinReads, FinFrame, AuditTypeOK, FinPCs
  <1>4. CASE FinIsReviewed
    <2>1. flight["review"] \in Flight /\ flight["review"].doc \in Payload
      BY DEF AuditTypeOK, Lanes, Flight
    <2>2. fin' \in Fins
      BY <1>0, <1>4, <2>1 DEF FinIsReviewed, FinPCs
    <2>3. flight' \in [Lanes -> Flight]
      BY <1>4, EmptyTypes, GoesTo DEF FinIsReviewed, Lanes
    <2> QED
      BY <1>4, <1>b, <2>2, <2>3 DEF FinIsReviewed, FinFrame, AuditTypeOK, FinPCs
  <1>5. CASE FinProjects
    <2>1. fin' \in Fins
      BY <1>0, <1>5 DEF FinProjects, FinPCs
    <2>2. live' \in Payload /\ last' \in Payload
      BY <1>5, <1>0 DEF FinProjects, Payload
    <2> QED
      BY <1>5, <1>b, <2>1, <2>2 DEF FinProjects, FinFrame, AuditTypeOK, FinPCs
  <1> QED
    BY <1>1, <1>2, <1>3, <1>4, <1>5 DEF FinStep

LEMMA AuditTypes ==
  ASSUME AuditTypeOK, RowsOwned, NEW l \in Lanes, AuditStep(l)
  PROVE  AuditTypeOK'
  <1>1. StepTypes(l) /\ FlightFrame
    BY AuditStepTypes
  <1> QED
    BY <1>1, BoundsType DEF StepTypes, FlightFrame, AuditTypeOK, schedule

LEMMA NextTypes ==
  ASSUME AuditTypeOK, JobsClassed, RowsOwned, [AuditNext]_avars
  PROVE  AuditTypeOK'
  BY SameTypes, TickTypes, ScheduleTypes, RoundTypes, EnvironmentTypes, FinishTypes, FinTypes,
     AuditTypes DEF AuditNext

\* The tick, a round and an audit that finishes ask for an audit of a class.
LEMMA JobsStayClassed ==
  ASSUME AuditTypeOK, JobsClassed, [AuditNext]_avars
  PROVE  JobsClassed'
  <1>0. UNCHANGED job => JobsClassed'
    BY DEF JobsClassed
  <1>1. CASE Tick
    BY <1>1, CoalescedType DEF Tick, JobsClassed, AuditTypeOK
  <1>2. ASSUME NEW s \in Sources, ScheduleTreeAudit(s)
        PROVE  JobsClassed'
    BY <1>2 DEF ScheduleTreeAudit, JobsClassed, AuditTypeOK
  <1>3. CASE RoundCompletes
    <2>1. PICK class \in Classes \cup {"none"} :
                 job' = [job EXCEPT !["round"] = IF class = "none" THEN NoJob
                                                 ELSE [class |-> class, doc |-> round.doc]]
      BY <1>3, CoalescedType DEF RoundCompletes
    <2> QED
      BY <2>1 DEF JobsClassed, AuditTypeOK
  <1>4. CASE FinishTreeAuditFlight
    <2> DEFINE f == flight["live"]
               wanted == f.result = "failed" \/ last'.tv > f.doc.tv
               reason == IF wanted /\ ~closed THEN Coalesced(pending, "normal") ELSE pending
               due == reason # "none" /\ ~closed /\ cool' \cap {"backoff", reason} = {}
    <2>1. reason \in Classes \cup {"none"}
      BY CoalescedType DEF AuditTypeOK
    <2>2. job' = [job EXCEPT !["finish"] = IF due THEN [class |-> reason, doc |-> last'] ELSE NoJob]
      BY <1>4 DEF FinishTreeAuditFlight
    <2>3. due => reason # "none"
      OBVIOUS
    <2> HIDE DEF reason, due
    <2> QED
      BY <2>1, <2>2, <2>3 DEF JobsClassed, AuditTypeOK
  <1>5. ASSUME NEW l \in Lanes, AuditStep(l)
        PROVE  UNCHANGED job
    BY <1>5 DEF FlightFrame, AuditStep, AuditLoads, AuditClaims, AuditIsLimited, AuditMarksCall,
                ProviderFails, AuditPanics, ProviderAnswers, AuditMayApply, AuditRereads,
                AuditApplies, AuditSaves
  <1>6. CASE FinStep \/ RoundStarts \/ RoundPersists \/ HourPasses \/ TranscriptArrives
             \/ UNCHANGED avars \/ \E c \in Classes \cup {"backoff"} : CoolsDown(c)
    <2>1. UNCHANGED job
      BY <1>6 DEF FinStep, FinCloses, FinCancels, FinReads, FinIsReviewed, FinProjects, FinFrame,
                  RoundStarts, RoundPersists, DiscardsStale, HourPasses, TranscriptArrives, CoolsDown, avars
    <2> QED
      BY <1>0, <2>1
  <1>7. CASE Restart
    BY <1>7 DEF Restart, JobsClassed
  <1> QED
    BY <1>0, <1>1, <1>2, <1>3, <1>4, <1>5, <1>6, <1>7 DEF AuditNext, RoundStep

-----------------------------------------------------------------------------
(* What the step of an audit does to the history. *)

\* A statement adds a running row, or writes the row the audit has claimed.
Inserts(l) ==
    /\ flight[l].pc = "claim" /\ ~flight[l].dead
    /\ runs' = Append(runs, flight[l].row)

Writes(l, row) ==
    /\ flight[l].pc \in {"mark", "apply", "save"} /\ ~flight[l].dead
    /\ SameRow(row, flight[l].row) /\ row.called = flight[l].row.called
    /\ row.streak = StreakAfter(row.verdict, Carried(l))
    /\ runs' = Written(l, row)

RunsEffect(l) == \/ runs' = runs \/ Inserts(l) \/ \E row \in Row : Writes(l, row)

LEMMA AppliedRowFields ==
  ASSUME AuditTypeOK, RowsOwned, NEW l \in Lanes
  PROVE  /\ SameRow(AppliedRow(l), flight[l].row)
         /\ AppliedRow(l).called = flight[l].row.called
         /\ AppliedRow(l).status = flight[l].row.status
         /\ AppliedRow(l).verdict = "applied" /\ AppliedRow(l).streak = 0
         /\ AppliedRow(l).res = flight[l].doc.tv + 1
  <1>1. flight[l].row \in Row
    BY OwnedRow
  <1>2. Classified(flight[l].row, "applied")
           = [flight[l].row EXCEPT !.verdict = "applied", !.streak = 0]
    BY <1>1, ClassifiedType DEF Verdicts, StreakAfter
  <1> QED
    BY <1>1, <1>2 DEF AppliedRow, SameRow, Row

LEMMA StepRunsEffect ==
  ASSUME AuditTypeOK, RowsOwned, NEW l \in Lanes, StreakCarried(l), AuditStep(l)
  PROVE  RunsEffect(l)
  <1> DEFINE f == flight[l]
  <1>0. f.row \in Row /\ f.row.streak \in Nat
    BY OwnedRow
  <1>1. CASE AuditClaims(l)
    BY <1>1 DEF AuditClaims, Breaks, Works, RunsEffect, Inserts, At
  <1>2. CASE AuditMarksCall(l)
    <2>1. f.pc = "mark" /\ (runs' = runs \/ (~f.dead /\ runs' = Written(l, f.row)))
      BY <1>2 DEF AuditMarksCall, Breaks, Works, At
    <2>2. ~f.dead => f.row.streak = StreakAfter(f.row.verdict, Carried(l))
      <3>1. ~f.dead => f.row.verdict = "none" /\ f.row.streak = Carried(l)
        BY <2>1 DEF StreakCarried, Working
      <3> QED
        BY <3>1 DEF StreakAfter
    <2> QED
      BY <1>0, <2>1, <2>2 DEF RunsEffect, Writes, SameRow
  <1>3. CASE AuditApplies(l)
    <2>1. f.pc = "apply" /\ (runs' = runs \/ (~f.dead /\ runs' = Written(l, AppliedRow(l))))
      BY <1>3, AppliesCases DEF Breaks, Works, At, Commits
    <2>2. AppliedRow(l).streak = StreakAfter(AppliedRow(l).verdict, Carried(l))
      BY AppliedRowFields DEF StreakAfter
    <2> QED
      BY <2>1, <2>2, AppliedTypes, AppliedRowFields DEF RunsEffect, Writes
  <1>4. CASE AuditSaves(l)
    <2>1. f.pc = "save" /\ (runs' = runs \/ (~f.dead /\ runs' = Written(l, f.row)))
      BY <1>4 DEF AuditSaves, Breaks, Works, At
    <2>2. ~f.dead => f.row.streak = StreakAfter(f.row.verdict, Carried(l))
      BY <2>1 DEF StreakCarried, Working
    <2> QED
      BY <1>0, <2>1, <2>2 DEF RunsEffect, Writes, SameRow
  <1>5. CASE AuditLoads(l) \/ AuditIsLimited(l) \/ ProviderFails(l) \/ AuditPanics(l)
             \/ ProviderAnswers(l) \/ AuditMayApply(l) \/ AuditRereads(l)
    BY <1>5 DEF AuditLoads, AuditIsLimited, ProviderFails, AuditPanics, ProviderAnswers,
                AuditMayApply, AuditRereads, RunsEffect
  <1> QED
    BY <1>1, <1>2, <1>3, <1>4, <1>5 DEF AuditStep

\* Rows stay where they are and what they are; only the writer's row changes.
LEMMA RowsKept ==
  ASSUME AuditTypeOK, RowsOwned, NEW l \in Lanes, RunsEffect(l)
  PROVE  /\ Len(runs) \in Nat /\ Len(runs') \in {Len(runs), Len(runs) + 1}
         /\ \A i \in 1..Len(runs) :
               /\ runs[i] \in Row /\ SameRow(runs'[i], runs[i])
               /\ runs'[i].recent = runs[i].recent
               /\ flight[l].pc \notin {"mark", "apply", "save"} \/ flight[l].id # i
                     => runs'[i] = runs[i]
         /\ Len(runs') = Len(runs) + 1 =>
               Inserts(l) /\ runs'[Len(runs) + 1] = flight[l].row
  <1>0. runs \in Seq(Row) /\ Len(runs) \in Nat /\ \A i \in 1..Len(runs) : runs[i] \in Row
    BY DEF AuditTypeOK
  <1>1. CASE runs' = runs
    BY <1>0, <1>1 DEF SameRow
  <1>2. CASE Inserts(l)
    <2>1. flight[l].row \in Row
      BY OwnedRow
    <2>2. /\ Len(runs') = Len(runs) + 1 /\ runs'[Len(runs) + 1] = flight[l].row
          /\ \A i \in 1..Len(runs) : runs'[i] = runs[i]
      BY <1>0, <1>2, <2>1 DEF Inserts
    <2> QED
      BY <1>0, <1>2, <2>2 DEF SameRow
  <1>3. ASSUME NEW row \in Row, Writes(l, row)
        PROVE  /\ Len(runs') = Len(runs)
               /\ \A i \in 1..Len(runs) :
                     /\ SameRow(runs'[i], runs[i]) /\ runs'[i].recent = runs[i].recent
                     /\ flight[l].pc \notin {"mark", "apply", "save"} \/ flight[l].id # i
                           => runs'[i] = runs[i]
    <2> DEFINE k == flight[l].id
    <2>1. flight[l].pc \in {"mark", "apply", "save"} /\ k \in 1..Len(runs)
      BY <1>3, OwnedRow DEF Writes, Working
    <2>2. SameRow(row, runs[k])
      <3>1. SameRow(runs[k], flight[l].row)
        BY <2>1 DEF RowsOwned, OwnsRow, Working
      <3> QED
        BY <1>3, <3>1 DEF Writes, SameRow
    <2>3. /\ Len(runs') = Len(runs) /\ runs'[k] = [row EXCEPT !.recent = runs[k].recent]
          /\ \A i \in 1..Len(runs) : i # k => runs'[i] = runs[i]
      BY <1>3, <2>1, WrittenType DEF Writes
    <2>4. SameRow(runs'[k], runs[k]) /\ runs'[k].recent = runs[k].recent
      BY <2>2, <2>3 DEF SameRow, Row
    <2> QED
      BY <1>0, <2>1, <2>3, <2>4 DEF SameRow
  <1>4. ASSUME NEW row \in Row, Writes(l, row)
        PROVE  Len(runs') = Len(runs)
    BY <1>3, <1>4
  <1> QED
    BY <1>0, <1>1, <1>2, <1>3 DEF RunsEffect

-----------------------------------------------------------------------------
(* What the step of an audit does to its own flight. *)

LEMMA ClassifiedFields ==
  ASSUME NEW row \in Row, NEW verdict \in Verdicts
  PROVE  /\ SameRow(Classified(row, verdict), row)
         /\ Classified(row, verdict).called = row.called
         /\ Classified(row, verdict).status = row.status
         /\ Classified(row, verdict).verdict = verdict
         /\ Classified(row, verdict).streak = StreakAfter(verdict, row.streak)
         /\ Classified(row, verdict).doc = row.doc
  <1>1. Classified(row, verdict) = [row EXCEPT !.verdict = verdict,
                                               !.streak = StreakAfter(verdict, row.streak)]
    BY ClassifiedType
  <1> QED
    BY <1>1 DEF Row, SameRow

LEMMA FailedFields ==
  ASSUME NEW row \in Row
  PROVE  /\ SameRow(Failed(row), row) /\ Failed(row).called = row.called
         /\ Failed(row).verdict = row.verdict /\ Failed(row).streak = row.streak
  BY DEF Failed, Row, SameRow

\* From the claim to the save an audit keeps its row, and only the mark counts a call.
Moved(f, g) ==
    /\ f.pc \in {"limit", "call", "allow", "reread", "apply"}
    /\ g.pc \in {"mark", "allow", "reread", "apply", "save"}
    /\ f.pc = "limit" => g.pc \in {"mark", "save"}
    /\ g.id = f.id /\ g.doc = f.doc /\ g.dead = f.dead /\ SameRow(g.row, f.row)
    /\ g.pc # "mark" => g.row.called = f.row.called
    /\ g.pc = "mark" => f.pc = "limit"
    /\ g.pc \in {"allow", "reread", "apply"} => g.row.status = "completed"
    /\ g.pc = "save" /\ g.result # "failed" => g.row.status # "failed"

StreakMoved(l, g) ==
    /\ g.pc \in {"mark", "allow"} => g.row.verdict = "none"
    /\ g.pc \in {"reread", "apply"} => g.repair \/ g.row.verdict = "none"
    /\ g.pc # "save" => g.row.streak = Carried(l)
    /\ g.pc = "save" => g.row.streak = StreakAfter(g.row.verdict, Carried(l))

Moves(l) ==
    /\ Moved(flight[l], flight'[l])
    /\ ~flight[l].dead => StreakMoved(l, flight'[l])

LEMMA SavesMoves ==
  ASSUME AuditTypeOK, NEW l \in Lanes, NEW row \in Row,
         NEW result \in {"none", "ok", "stale", "failed"}, Saves(l, row, result),
         flight[l].pc \in {"limit", "call", "allow", "reread", "apply"},
         SameRow(row, flight[l].row), row.called = flight[l].row.called,
         result # "failed" => row.status # "failed",
         ~flight[l].dead => row.streak = StreakAfter(row.verdict, Carried(l))
  PROVE  Moves(l)
  <1>1. /\ flight'[l].pc = "save" /\ flight'[l].row = row /\ flight'[l].result = result
        /\ flight'[l].id = flight[l].id /\ flight'[l].doc = flight[l].doc
        /\ flight'[l].dead = flight[l].dead
    BY SavesTo
  <1> QED
    BY <1>1 DEF Moves, Moved, StreakMoved

LEMMA StepMoves ==
  ASSUME AuditTypeOK, NEW l \in Lanes, NEW pc \in {"reread", "apply"}, Step(l, pc),
         flight[l].pc \in {"allow", "reread"}, flight[l].row.status = "completed",
         StreakCarried(l)
  PROVE  Moves(l)
  <1>1. flight[l] \in Flight
    BY DEF AuditTypeOK
  <1>2. [flight[l] EXCEPT !.pc = pc] \in Flight
    BY <1>1 DEF Flight, FlightPCs
  <1>3. flight'[l] = [flight[l] EXCEPT !.pc = pc]
    BY <1>2, GoesTo DEF Step
  <1>4. /\ flight'[l].pc = pc /\ flight'[l].row = flight[l].row /\ flight'[l].id = flight[l].id
        /\ flight'[l].doc = flight[l].doc /\ flight'[l].dead = flight[l].dead
        /\ flight'[l].repair = flight[l].repair
    BY <1>1, <1>3 DEF Flight
  <1>5. Moved(flight[l], flight'[l])
    BY <1>4 DEF Moved, SameRow
  <1>6. ~flight[l].dead => StreakMoved(l, flight'[l])
    BY <1>4 DEF StreakMoved, StreakCarried, Working
  <1> QED
    BY <1>5, <1>6 DEF Moves

LEMMA LimitMoves ==
  ASSUME AuditTypeOK, RowsOwned, NEW l \in Lanes, StreakCarried(l), AuditIsLimited(l)
  PROVE  /\ Moves(l)
         /\ flight'[l].pc = "mark" /\ l = "live" => ~Suppressed(flight[l].row.class)
  <1> DEFINE row == flight[l].row
             skipped == [row EXCEPT !.status = "skipped"]
             f == [flight[l] EXCEPT !.pc = "mark", !.row.called = TRUE]
  <1>0. flight[l] \in Flight /\ row \in Row /\ flight[l].pc = "limit"
    BY OwnedRow DEF AuditIsLimited, At
  <1>1. ~flight[l].dead => row.verdict = "none" /\ row.streak = Carried(l)
    BY <1>0 DEF StreakCarried, Working
  <1>2. /\ skipped \in Row /\ SameRow(skipped, row) /\ skipped.called = row.called
        /\ skipped.status = "skipped" /\ skipped.verdict = row.verdict
        /\ skipped.streak = row.streak
    BY <1>0 DEF Row, SameRow
  <1> HIDE DEF skipped
  <1>3. CASE Saves(l, skipped, "ok")
    <2>1. ~flight[l].dead => skipped.streak = StreakAfter(skipped.verdict, Carried(l))
      BY <1>1, <1>2 DEF StreakAfter
    <2>2. Moves(l)
      BY <1>0, <1>2, <1>3, <2>1, SavesMoves
    <2> QED
      BY <1>2, <1>3, <2>2, SavesTo
  <1>4. CASE Saves(l, Classified(skipped, "clean"), "ok")
    <2> DEFINE done == Classified(skipped, "clean")
    <2>0. done \in Row
      BY <1>2, ClassifiedType DEF Verdicts
    <2>1. /\ SameRow(done, row) /\ done.called = row.called
          /\ done.status = "skipped" /\ done.verdict = "clean"
          /\ done.streak = StreakAfter("clean", row.streak)
      BY <1>2, ClassifiedFields DEF Verdicts, SameRow
    <2> HIDE DEF done
    <2>2. ~flight[l].dead => done.streak = StreakAfter(done.verdict, Carried(l))
      BY <1>1, <2>1
    <2>3. Moves(l)
      BY <1>0, <1>4, <2>0, <2>1, <2>2, SavesMoves DEF done
    <2> QED
      BY <1>4, <2>0, <2>3, SavesTo DEF done
  <1>5. CASE Saves(l, Failed(row), "failed")
    <2>1. Failed(row) \in Row
      BY <1>0 DEF Row, Failed
    <2>2. ~flight[l].dead => Failed(row).streak = StreakAfter(Failed(row).verdict, Carried(l))
      BY <1>0, <1>1, FailedFields DEF StreakAfter
    <2>3. Moves(l)
      BY <1>0, <1>5, <2>1, <2>2, SavesMoves, FailedFields
    <2> QED
      BY <1>5, <2>1, <2>3, SavesTo
  <1>6. ASSUME Goes(l, f) PROVE Moves(l)
    <2>1. f = [flight[l] EXCEPT !.pc = "mark", !.row = [row EXCEPT !.called = TRUE]]
      BY <1>0 DEF Flight
    <2>2. [row EXCEPT !.called = TRUE] \in Row /\ SameRow([row EXCEPT !.called = TRUE], row)
          /\ [row EXCEPT !.called = TRUE].verdict = row.verdict
          /\ [row EXCEPT !.called = TRUE].streak = row.streak
      BY <1>0 DEF Row, SameRow
    <2>3. f \in Flight
      BY <1>0, <2>1, <2>2 DEF Flight, FlightPCs
    <2>4. /\ f.pc = "mark" /\ f.row = [row EXCEPT !.called = TRUE] /\ f.id = flight[l].id
          /\ f.doc = flight[l].doc /\ f.dead = flight[l].dead
      BY <1>0, <2>1 DEF Flight
    <2> HIDE DEF f
    <2>5. flight'[l] = f
      BY <1>6, <2>3, GoesTo
    <2>6. Moved(flight[l], flight'[l])
      BY <1>0, <2>2, <2>4, <2>5 DEF Moved
    <2>7. ~flight[l].dead => StreakMoved(l, flight'[l])
      BY <1>1, <2>2, <2>4, <2>5 DEF StreakMoved
    <2> QED
      BY <2>6, <2>7 DEF Moves
  <1>7. Goes(l, f) => l # "live" \/ ~Suppressed(row.class) \/ Saves(l, skipped, "ok")
                      \/ Saves(l, Classified(skipped, "clean"), "ok") \/ Saves(l, Failed(row), "failed")
    BY DEF AuditIsLimited, skipped
  <1>8. \/ Saves(l, skipped, "ok") \/ Saves(l, Classified(skipped, "clean"), "ok")
        \/ Saves(l, Failed(row), "failed") \/ Goes(l, f)
    BY DEF AuditIsLimited, skipped
  <1> QED
    BY <1>3, <1>4, <1>5, <1>6, <1>7, <1>8

LEMMA AnswersMoves ==
  ASSUME AuditTypeOK, RowsOwned, NEW l \in Lanes, StreakCarried(l),
         ProviderFails(l) \/ ProviderAnswers(l)
  PROVE  Moves(l)
  <1> DEFINE row == [flight[l].row EXCEPT !.status = "completed"]
  <1>0. flight[l] \in Flight /\ flight[l].row \in Row /\ flight[l].pc = "call"
    BY OwnedRow DEF ProviderFails, ProviderAnswers, At
  <1>1. ~flight[l].dead => flight[l].row.verdict = "none" /\ flight[l].row.streak = Carried(l)
    BY <1>0 DEF StreakCarried, Working
  <1>2. /\ row \in Row /\ SameRow(row, flight[l].row) /\ row.called = flight[l].row.called
        /\ row.status = "completed" /\ row.verdict = flight[l].row.verdict
        /\ row.streak = flight[l].row.streak
    BY <1>0 DEF Row, SameRow
  <1> HIDE DEF row
  <1>3. CASE ProviderFails(l)
    <2>1. Failed(flight[l].row) \in Row /\ Saves(l, Failed(flight[l].row), "failed")
      BY <1>0, <1>3 DEF ProviderFails, Row, Failed
    <2>2. ~flight[l].dead => Failed(flight[l].row).streak
                                = StreakAfter(Failed(flight[l].row).verdict, Carried(l))
      BY <1>0, <1>1, FailedFields DEF StreakAfter
    <2> QED
      BY <1>0, <2>1, <2>2, SavesMoves, FailedFields
  <1>4. CASE Goes(l, [flight[l] EXCEPT !.pc = "allow", !.row = row])
    <2> DEFINE f == [flight[l] EXCEPT !.pc = "allow", !.row = row]
    <2>1. /\ f \in Flight /\ f.pc = "allow" /\ f.row = row /\ f.id = flight[l].id
          /\ f.doc = flight[l].doc /\ f.dead = flight[l].dead
      BY <1>0, <1>2 DEF Flight, FlightPCs
    <2> HIDE DEF f
    <2>2. flight'[l] = f
      BY <1>4, <2>1, GoesTo DEF f
    <2>3. Moved(flight[l], flight'[l])
      BY <1>0, <1>2, <2>1, <2>2 DEF Moved
    <2>4. ~flight[l].dead => StreakMoved(l, flight'[l])
      BY <1>1, <1>2, <2>1, <2>2 DEF StreakMoved
    <2> QED
      BY <2>3, <2>4 DEF Moves
  <1>5. ASSUME NEW verdict \in {"clean", "unapplied"}, Saves(l, Classified(row, verdict), "ok")
        PROVE  Moves(l)
    <2> DEFINE done == Classified(row, verdict)
    <2>0. done \in Row
      BY <1>2, ClassifiedType DEF Verdicts
    <2>1. /\ SameRow(done, flight[l].row) /\ done.called = flight[l].row.called
          /\ done.status = "completed" /\ done.verdict = verdict
          /\ done.streak = StreakAfter(verdict, flight[l].row.streak)
      BY <1>2, ClassifiedFields DEF Verdicts, SameRow
    <2> HIDE DEF done
    <2>2. ~flight[l].dead => done.streak = StreakAfter(done.verdict, Carried(l))
      BY <1>1, <2>1
    <2> QED
      BY <1>0, <1>5, <2>0, <2>1, <2>2, SavesMoves DEF done
  <1>6. ASSUME NEW verdict \in {"clean", "unapplied"},
               Goes(l, [flight[l] EXCEPT !.pc = "reread", !.repair = TRUE,
                                         !.row = [row EXCEPT !.verdict = verdict]])
        PROVE  Moves(l)
    <2> DEFINE r == [row EXCEPT !.verdict = verdict]
               f == [flight[l] EXCEPT !.pc = "reread", !.repair = TRUE, !.row = r]
    <2>1. /\ r \in Row /\ SameRow(r, flight[l].row) /\ r.called = flight[l].row.called
          /\ r.status = "completed" /\ r.streak = flight[l].row.streak
      BY <1>2 DEF Row, SameRow, Verdicts
    <2> HIDE DEF r
    <2>2. /\ f \in Flight /\ f.pc = "reread" /\ f.row = r /\ f.id = flight[l].id
          /\ f.doc = flight[l].doc /\ f.dead = flight[l].dead /\ f.repair
      BY <1>0, <2>1 DEF Flight, FlightPCs
    <2> HIDE DEF f
    <2>3. flight'[l] = f
      BY <1>6, <2>2, GoesTo DEF f, r
    <2>4. Moved(flight[l], flight'[l])
      BY <1>0, <2>1, <2>2, <2>3 DEF Moved
    <2>5. ~flight[l].dead => StreakMoved(l, flight'[l])
      BY <1>1, <2>1, <2>2, <2>3 DEF StreakMoved
    <2> QED
      BY <2>4, <2>5 DEF Moves
  <1> QED
    BY <1>3, <1>4, <1>5, <1>6 DEF ProviderAnswers, row

LEMMA RereadsMoves ==
  ASSUME AuditTypeOK, RowsOwned, StatusKnown, NEW l \in Lanes, StreakCarried(l),
         AuditMayApply(l) \/ AuditRereads(l)
  PROVE  Moves(l)
  <1> DEFINE row == flight[l].row
  <1>0. /\ flight[l] \in Flight /\ row \in Row /\ flight[l].pc \in {"allow", "reread"}
        /\ row.status = "completed" /\ row.verdict \in Verdicts
    BY OwnedRow DEF AuditMayApply, AuditRereads, At, StatusKnown
  <1>1. ~flight[l].dead => row.streak = Carried(l)
    BY <1>0 DEF StreakCarried, Working
  <1> HIDE DEF row
  <1>2. \A verdict \in Verdicts, result \in {"ok", "stale", "failed"} :
           Saves(l, Classified(row, verdict), result) => Moves(l)
    <2> SUFFICES ASSUME NEW verdict \in Verdicts, NEW result \in {"ok", "stale", "failed"},
                        Saves(l, Classified(row, verdict), result)
                 PROVE  Moves(l)
      OBVIOUS
    <2> DEFINE done == Classified(row, verdict)
    <2>1. done \in Row
      BY <1>0, ClassifiedType
    <2>2. /\ SameRow(done, row) /\ done.called = row.called /\ done.status = "completed"
          /\ done.verdict = verdict /\ done.streak = StreakAfter(verdict, row.streak)
      BY <1>0, ClassifiedFields
    <2>3. ~flight[l].dead => done.streak = StreakAfter(done.verdict, Carried(l))
      BY <1>1, <2>2
    <2> HIDE DEF done
    <2> QED
      BY <1>0, <2>1, <2>2, <2>3, SavesMoves DEF done, row
  <1>3. CASE AuditMayApply(l)
    <2>1. Step(l, "reread") \/ Saves(l, Classified(row, "unapplied"), "failed")
             \/ Saves(l, Classified(row, "unapplied"), "ok")
      BY <1>3 DEF AuditMayApply, row
    <2> QED
      BY <1>0, <1>2, <2>1, StepMoves DEF Verdicts, row
  <1>4. CASE AuditRereads(l)
    <2> DEFINE verdict == IF flight[l].repair THEN row.verdict ELSE "unapplied"
               none == [row EXCEPT !.verdict = "none"]
    <2>1. verdict \in Verdicts
      BY <1>0 DEF Verdicts
    <2>2. /\ none \in Row /\ SameRow(none, row) /\ none.called = row.called
          /\ none.verdict = "none" /\ none.streak = row.streak
      BY <1>0 DEF Row, SameRow, Verdicts
    <2>3. \/ Saves(l, Failed(none), "failed") \/ Step(l, "apply")
          \/ Saves(l, Classified(row, verdict), "stale")
          \/ Saves(l, Classified(row, verdict), "ok")
      BY <1>4 DEF AuditRereads, row
    <2> HIDE DEF verdict, none
    <2>4. CASE Saves(l, Failed(none), "failed")
      <3>1. Failed(none) \in Row
        BY <2>2 DEF Row, Failed
      <3>2. SameRow(Failed(none), row) /\ Failed(none).called = row.called
        BY <2>2, FailedFields DEF SameRow
      <3>3. ~flight[l].dead => Failed(none).streak = StreakAfter(Failed(none).verdict, Carried(l))
        BY <1>1, <2>2, FailedFields DEF StreakAfter
      <3> QED
        BY <1>0, <2>4, <3>1, <3>2, <3>3, SavesMoves DEF row
    <2> QED
      BY <1>0, <1>2, <2>1, <2>3, <2>4, StepMoves DEF row
  <1> QED
    BY <1>3, <1>4

LEMMA AppliesMoves ==
  ASSUME AuditTypeOK, RowsOwned, StatusKnown, NEW l \in Lanes, StreakCarried(l),
         AuditApplies(l)
  PROVE  Moves(l) \/ (Works(l) /\ Commits(l) /\ flight'[l] = AppliedFlight(l))
  <1> DEFINE row == flight[l].row
             stale == Classified(row, StaleVerdict(l))
             failed == Failed(AppliedRow(l))
  <1>0. /\ row \in Row /\ flight[l].pc = "apply" /\ row.status = "completed"
        /\ row.verdict \in Verdicts
    BY OwnedRow DEF AuditApplies, At, StatusKnown
  <1>1. ~flight[l].dead => row.streak = Carried(l)
    BY <1>0 DEF StreakCarried, Working
  <1>2. CASE Saves(l, stale, "stale")
    <2>1. StaleVerdict(l) \in Verdicts
      BY <1>0 DEF StaleVerdict, Verdicts
    <2>2. /\ SameRow(stale, row) /\ stale.called = row.called /\ stale.status = "completed"
          /\ stale.verdict = StaleVerdict(l) /\ stale.streak = StreakAfter(StaleVerdict(l), row.streak)
      BY <1>0, <2>1, ClassifiedFields
    <2>3. stale \in Row
      BY AppliedTypes
    <2> HIDE DEF stale
    <2>4. ~flight[l].dead => stale.streak = StreakAfter(stale.verdict, Carried(l))
      BY <1>1, <2>2
    <2> QED
      BY <1>0, <1>2, <2>2, <2>3, <2>4, SavesMoves
  <1>3. CASE Saves(l, failed, "failed")
    <2>1. failed \in Row
      BY AppliedTypes
    <2>2. SameRow(failed, row) /\ failed.called = row.called /\ failed.verdict = "applied"
          /\ failed.streak = 0
      BY AppliedTypes, AppliedRowFields, FailedFields DEF SameRow
    <2> HIDE DEF failed
    <2>3. failed.streak = StreakAfter(failed.verdict, Carried(l))
      BY <2>2 DEF StreakAfter
    <2> QED
      BY <1>0, <1>3, <2>1, <2>2, <2>3, SavesMoves
  <1>4. CASE Works(l) /\ Commits(l) /\ Goes(l, AppliedFlight(l))
    BY <1>4, AppliedTypes, GoesTo
  <1> QED
    BY <1>2, <1>3, <1>4, AppliesCases

\* Where an audit goes from where it is.
ClaimedRow(l) == [NoRow EXCEPT !.task = l, !.class = flight[l].class, !.doc = flight[l].doc,
                               !.heard = heard, !.streak = CarriedStreak]

ClaimFlight(l) == [flight[l] EXCEPT !.pc = "claim", !.row = ClaimedRow(l)]

LimitFlight(l) == [flight[l] EXCEPT !.pc = "limit", !.id = Len(runs) + 1]

CallFlight(l) == [flight[l] EXCEPT !.pc = "call", !.called = TRUE]

Shape(l) ==
    \/ flight'[l].pc = "finish"
    \/ /\ flight[l].pc = "load" /\ runs' = runs
       /\ flight'[l] = ClaimFlight(l)
    \/ Inserts(l) /\ flight'[l] = LimitFlight(l)
    \/ /\ flight[l].pc = "mark" /\ ~flight[l].dead /\ runs' = Written(l, flight[l].row)
       /\ flight'[l] = CallFlight(l)
    \/ Moves(l)

LEMMA StepShape ==
  ASSUME AuditTypeOK, RowsOwned, StatusKnown, NEW l \in Lanes, StreakCarried(l), AuditStep(l)
  PROVE  Shape(l)
  <1> DEFINE f == flight[l]
  <1>0. f \in Flight /\ f.row \in Row /\ runs \in Seq(Row) /\ Len(runs) \in Nat /\ heard \in Nat
    BY OwnedRow DEF AuditTypeOK
  <1>e. \A result \in {"none", "ok", "stale", "failed"} : Ends(l, result) => Shape(l)
    BY EndsTo DEF Shape
  <1>1. CASE AuditLoads(l)
    <2>1. \/ Ends(l, "ok") \/ Ends(l, "failed")
          \/ Goes(l, ClaimFlight(l))
      BY <1>1 DEF AuditLoads, ClaimedRow, ClaimFlight
    <2>2. ClaimFlight(l) \in Flight
      <3>1. CarriedStreak \in Nat
        BY LastRow DEF CarriedStreak, Row
      <3>2. ClaimedRow(l) \in Row
        BY <1>0, <3>1, EmptyTypes DEF ClaimedRow, Row, Flight
      <3> QED
        BY <1>0, <3>2 DEF ClaimFlight, Flight, FlightPCs
    <2>3. f.pc = "load" /\ runs' = runs
      BY <1>1 DEF AuditLoads, At
    <2> QED
      BY <1>e, <2>1, <2>2, <2>3, GoesTo DEF Shape
  <1>2. CASE AuditClaims(l)
    <2>1. \/ Ends(l, "ok") \/ Ends(l, "failed") \/ (Inserts(l) /\ Goes(l, LimitFlight(l)))
      BY <1>2 DEF AuditClaims, LimitFlight, Inserts, Works, At
    <2>2. LimitFlight(l) \in Flight
      <3>1. Len(runs) + 1 \in Nat
        BY <1>0
      <3> QED
        BY <1>0, <3>1 DEF LimitFlight, Flight, FlightPCs
    <2> QED
      BY <1>e, <2>1, <2>2, GoesTo DEF Shape
  <1>3. CASE AuditMarksCall(l)
    <2>1. \/ Ends(l, "failed")
          \/ /\ f.pc = "mark" /\ ~f.dead /\ runs' = Written(l, f.row)
             /\ Goes(l, CallFlight(l))
      BY <1>3 DEF AuditMarksCall, CallFlight, Works, At
    <2>2. CallFlight(l) \in Flight
      BY <1>0 DEF CallFlight, Flight, FlightPCs
    <2> QED
      BY <1>e, <2>1, <2>2, GoesTo DEF Shape
  <1>4. CASE AuditPanics(l)
    <2> DEFINE g == [NoFlight EXCEPT !.pc = "finish", !.class = flight[l].class,
                                     !.doc = flight[l].doc, !.result = "failed"]
    <2>1. g \in Flight /\ g.pc = "finish"
      BY <1>0, EmptyTypes DEF Flight, FlightPCs, NoFlight
    <2>2. Goes(l, g)
      BY <1>4 DEF AuditPanics
    <2> HIDE DEF g
    <2> QED
      BY <2>1, <2>2, GoesTo DEF Shape
  <1>5. CASE AuditApplies(l)
    <2>1. flight'[l] = AppliedFlight(l) => flight'[l].pc = "finish"
      BY EmptyTypes DEF AppliedFlight, Flight
    <2> QED
      BY <1>5, <2>1, AppliesMoves DEF Shape
  <1>6. CASE AuditSaves(l)
    BY <1>6, <1>e, OwnedRow DEF AuditSaves
  <1> QED
    BY <1>1, <1>2, <1>3, <1>4, <1>5, <1>6, LimitMoves, AnswersMoves, RereadsMoves
    DEF AuditStep, Shape

-----------------------------------------------------------------------------
(* The rows of the audits in flight. *)

LEMMA ClaimTo ==
  ASSUME AuditTypeOK, NEW l \in Lanes,
         flight'[l] = ClaimFlight(l)
  PROVE  /\ flight'[l].pc = "claim" /\ flight'[l].dead = flight[l].dead
         /\ flight'[l].doc = flight[l].doc /\ flight'[l].row = ClaimedRow(l)
         /\ ClaimedRow(l).task = l /\ ClaimedRow(l).doc = flight[l].doc
         /\ ~ClaimedRow(l).called /\ ClaimedRow(l).verdict = "none"
         /\ ClaimedRow(l).streak = CarriedStreak
  <1>1. flight[l] \in Flight
    BY DEF AuditTypeOK
  <1>2. /\ ClaimedRow(l).task = l /\ ClaimedRow(l).doc = flight[l].doc
        /\ ~ClaimedRow(l).called /\ ClaimedRow(l).verdict = "none"
        /\ ClaimedRow(l).streak = CarriedStreak
    BY DEF ClaimedRow, NoRow
  <1> QED
    BY <1>1, <1>2 DEF ClaimFlight, Flight

LEMMA LimitTo ==
  ASSUME AuditTypeOK, NEW l \in Lanes, flight'[l] = LimitFlight(l)
  PROVE  /\ flight'[l].pc = "limit" /\ flight'[l].dead = flight[l].dead
         /\ flight'[l].doc = flight[l].doc /\ flight'[l].row = flight[l].row
         /\ flight'[l].id = Len(runs) + 1
  <1>1. flight[l] \in Flight
    BY DEF AuditTypeOK
  <1> QED
    BY <1>1 DEF LimitFlight, Flight

LEMMA CallTo ==
  ASSUME AuditTypeOK, NEW l \in Lanes, flight'[l] = CallFlight(l)
  PROVE  /\ flight'[l].pc = "call" /\ flight'[l].dead = flight[l].dead
         /\ flight'[l].doc = flight[l].doc /\ flight'[l].row = flight[l].row
         /\ flight'[l].id = flight[l].id
  <1>1. flight[l] \in Flight
    BY DEF AuditTypeOK
  <1> QED
    BY <1>1 DEF CallFlight, Flight

LEMMA OwnRowKept ==
  ASSUME AuditTypeOK, RowsOwned, NEW l \in Lanes, RunsEffect(l), Shape(l)
  PROVE  OwnsRow(l)'
  <1>0. OwnsRow(l)
    BY DEF RowsOwned
  <1>1. CASE flight'[l].pc = "finish"
    BY <1>1 DEF OwnsRow, Working
  <1>2. CASE flight'[l] = ClaimFlight(l)
    <2>1. /\ flight'[l].pc = "claim" /\ flight'[l].row.task = l
          /\ flight'[l].row.doc = flight'[l].doc
      BY <1>2, ClaimTo
    <2> QED
      BY <2>1 DEF OwnsRow, Working
  <1>3. CASE Inserts(l) /\ flight'[l] = LimitFlight(l)
    <2>1. flight[l].row \in Row /\ runs \in Seq(Row) /\ Len(runs) \in Nat
      BY OwnedRow DEF AuditTypeOK
    <2>2. Len(runs) + 1 \in 1..Len(runs') /\ runs'[Len(runs) + 1] = flight[l].row
      BY <1>3, <2>1 DEF Inserts
    <2> QED
      BY <1>0, <1>3, <2>2, LimitTo DEF OwnsRow, Inserts, SameRow
  <1>4. CASE flight[l].pc = "mark" /\ flight'[l] = CallFlight(l)
    <2>1. flight[l].id \in 1..Len(runs) /\ flight[l].id \in 1..Len(runs')
      BY <1>4, OwnedRow, RowsKept DEF Working
    <2>2. SameRow(runs'[flight[l].id], runs[flight[l].id])
      BY <2>1, RowsKept
    <2> QED
      BY <1>0, <1>4, <2>1, <2>2, CallTo DEF OwnsRow, SameRow, Working
  <1>5. CASE Moves(l)
    <2>1. flight[l].pc \in Working /\ flight[l].id \in 1..Len(runs) /\ flight[l].id \in 1..Len(runs')
      BY <1>5, OwnedRow, RowsKept DEF Moves, Moved, Working
    <2>2. SameRow(runs'[flight[l].id], runs[flight[l].id])
      BY <2>1, RowsKept
    <2> QED
      BY <1>0, <1>5, <2>1, <2>2 DEF OwnsRow, SameRow, Moves, Moved
  <1> QED
    BY <1>1, <1>2, <1>3, <1>4, <1>5 DEF Shape

\* The rows of two audits in flight are two rows: one is of a live audit.
LEMMA OtherRow ==
  ASSUME AuditTypeOK, RowsOwned, NEW l \in Lanes, RunsEffect(l),
         NEW i \in 1..Len(runs), runs[i].task # l
  PROVE  runs'[i] = runs[i]
  <1>1. flight[l].pc \in {"mark", "apply", "save"} => runs[flight[l].id].task = l
    BY DEF RowsOwned, OwnsRow, Working, SameRow
  <1> QED
    BY <1>1, RowsKept

LEMMA OtherRowKept ==
  ASSUME AuditTypeOK, RowsOwned, NEW l \in Lanes, RunsEffect(l),
         NEW m \in Lanes, m # l, flight'[m] = flight[m]
  PROVE  /\ OwnsRow(m)'
         /\ flight[m].pc \in Working => runs'[flight[m].id] = runs[flight[m].id]
  <1>0. OwnsRow(m)
    BY DEF RowsOwned
  <1>1. flight[m].pc \in Working =>
          /\ flight[m].id \in 1..Len(runs) /\ flight[m].id \in 1..Len(runs')
          /\ runs'[flight[m].id] = runs[flight[m].id]
    <2> SUFFICES ASSUME flight[m].pc \in Working
                 PROVE  /\ flight[m].id \in 1..Len(runs) /\ flight[m].id \in 1..Len(runs')
                        /\ runs'[flight[m].id] = runs[flight[m].id]
      OBVIOUS
    <2>1. flight[m].id \in 1..Len(runs) /\ runs[flight[m].id].task # l
      BY <1>0, OwnedRow DEF OwnsRow, SameRow
    <2> QED
      BY <2>1, OtherRow, RowsKept
  <1> QED
    BY <1>0, <1>1 DEF OwnsRow, SameRow

LEMMA AuditKeepsRows ==
  ASSUME AuditTypeOK, RowsOwned, NEW l \in Lanes, RunsEffect(l), Shape(l), StepTypes(l)
  PROVE  RowsOwned'
  <1>1. ASSUME NEW m \in Lanes
        PROVE  OwnsRow(m)'
    BY OwnRowKept, OtherRowKept DEF StepTypes
  <1> QED
    BY <1>1 DEF RowsOwned

-----------------------------------------------------------------------------
(* The calls in the history. *)

LEMMA OwnCallCounted ==
  ASSUME AuditTypeOK, RowsOwned, NEW l \in Lanes, CallIsCounted(l), RunsEffect(l), Shape(l)
  PROVE  CallIsCounted(l)'
  <1> DEFINE f == flight[l]
             k == flight[l].id
  <1>0. /\ f.row \in Row /\ f.row.called \in BOOLEAN /\ runs \in Seq(Row) /\ Len(runs) \in Nat
        /\ f.pc \in Working => k \in 1..Len(runs) /\ runs[k].called \in BOOLEAN
    <2>1. /\ f.row \in Row /\ f.row.called \in BOOLEAN /\ runs \in Seq(Row)
          /\ Len(runs) \in Nat
          /\ f.pc \in Working => k \in 1..Len(runs)
      BY OwnedRow DEF AuditTypeOK
    <2>2. \A i \in 1..Len(runs) : runs[i] \in Row
      BY <2>1
    <2>3. \A row \in Row : row.called \in BOOLEAN
      BY DEF Row
    <2> QED
      BY <2>1, <2>2, <2>3
  <1>1. CASE flight'[l].pc = "finish"
    BY <1>1 DEF CallIsCounted
  <1>2. CASE flight'[l] = ClaimFlight(l)
    BY <1>2, ClaimTo DEF CallIsCounted
  <1>3. CASE Inserts(l) /\ flight'[l] = LimitFlight(l)
    <2>1. runs'[Len(runs) + 1] = f.row
      BY <1>0, <1>3 DEF Inserts
    <2> QED
      BY <1>3, <2>1, LimitTo DEF CallIsCounted, Inserts
  <1>4. CASE f.pc = "mark" /\ runs' = Written(l, f.row) /\ flight'[l] = CallFlight(l)
    <2>1. runs'[k] = [f.row EXCEPT !.recent = runs[k].recent]
      BY <1>0, <1>4, WrittenType DEF Working
    <2>2. runs'[k].called = f.row.called
      BY <1>0, <2>1 DEF Row
    <2> QED
      BY <1>4, <2>2, CallTo DEF CallIsCounted
  <1>5. CASE Moves(l)
    <2>1. /\ f.pc \in {"limit", "call", "allow", "reread", "apply"} /\ k \in 1..Len(runs)
          /\ flight'[l].id = k /\ flight'[l].pc \in {"mark", "allow", "reread", "apply", "save"}
      BY <1>0, <1>5 DEF Moves, Moved, Working
    <2>2. CASE runs' = runs
      BY <1>0, <1>5, <2>1, <2>2 DEF CallIsCounted, Moves, Moved, Working
    <2>3. ASSUME NEW row \in Row, Writes(l, row)
          PROVE  CallIsCounted(l)'
      <3>1. f.pc = "apply" /\ runs'[k] = [row EXCEPT !.recent = runs[k].recent]
        BY <2>1, <2>3, WrittenType DEF Writes
      <3>2. runs'[k].called = f.row.called
        BY <2>3, <3>1 DEF Row, Writes
      <3> QED
        BY <1>5, <2>1, <3>1, <3>2 DEF CallIsCounted, Moves, Moved
    <2> QED
      BY <2>1, <2>2, <2>3 DEF RunsEffect, Inserts
  <1> QED
    BY <1>1, <1>2, <1>3, <1>4, <1>5 DEF Shape

LEMMA OtherCallCounted ==
  ASSUME AuditTypeOK, RowsOwned, NEW l \in Lanes, RunsEffect(l),
         NEW m \in Lanes, m # l, flight'[m] = flight[m], CallIsCounted(m)
  PROVE  CallIsCounted(m)'
  BY OtherRowKept DEF CallIsCounted, Working

LEMMA StatusesKept ==
  ASSUME AuditTypeOK, RowsOwned, StatusKnown, NEW l \in Lanes, Shape(l), StepTypes(l)
  PROVE  StatusKnown'
  <1> DEFINE Known1(m) == /\ flight'[m].pc \in {"allow", "reread", "apply"} =>
                                flight'[m].row.status = "completed"
                          /\ flight'[m].pc = "save" /\ flight'[m].result # "failed" =>
                                flight'[m].row.status # "failed"
  <1>1. ASSUME NEW m \in Lanes, m # l
        PROVE  Known1(m)
    BY <1>1 DEF StatusKnown, StepTypes
  <1>2. Known1(l)
    BY ClaimTo, LimitTo, CallTo DEF Shape, Moves, Moved
  <1> QED
    BY <1>1, <1>2 DEF StatusKnown

-----------------------------------------------------------------------------
(* The limits of the calls. *)

CallSet(class, hour) ==
    {i \in 1..Len(runs) : /\ runs[i].task = "live" /\ runs[i].class = class
                          /\ runs[i].called /\ (hour => runs[i].recent)}

LEMMA CallSetCounted ==
  ASSUME AuditTypeOK, NEW class, NEW hour
  PROVE  /\ ProviderCalls(class, hour) = Cardinality(CallSet(class, hour))
         /\ IsFiniteSet(CallSet(class, hour)) /\ ProviderCalls(class, hour) \in Nat
  <1>1. runs \in Seq(Row) /\ Len(runs) \in Nat /\ DOMAIN runs = 1..Len(runs)
    BY DEF AuditTypeOK
  <1>2. IsFiniteSet(1..Len(runs))
    BY <1>1, FS_Interval
  <1>3. IsFiniteSet(CallSet(class, hour))
    BY <1>2, FS_Subset DEF CallSet
  <1> QED
    BY <1>1, <1>3, FS_CardinalityType DEF ProviderCalls, CallSet

LEMMA CallSetCountedNext ==
  ASSUME AuditTypeOK', NEW class, NEW hour
  PROVE  /\ ProviderCalls(class, hour)' = Cardinality(CallSet(class, hour)')
         /\ IsFiniteSet(CallSet(class, hour)') /\ ProviderCalls(class, hour)' \in Nat
  <1>1. runs' \in Seq(Row) /\ Len(runs') \in Nat /\ DOMAIN runs' = 1..Len(runs')
    BY DEF AuditTypeOK
  <1>2. IsFiniteSet(1..Len(runs'))
    BY <1>1, FS_Interval
  <1>3. IsFiniteSet(CallSet(class, hour)')
    BY <1>2, FS_Subset DEF CallSet
  <1> QED
    BY <1>1, <1>3, FS_CardinalityType DEF ProviderCalls, CallSet

\* The three counts that are limited.
SessionCalls == ProviderCalls("normal", FALSE)
HourCalls == ProviderCalls("normal", TRUE)
HighCalls == ProviderCalls("high", TRUE)

LEMMA LimitsNamed ==
  /\ CallsWithinLimits <=> /\ SessionCalls <= MaxRunsPerSession /\ HourCalls <= MaxRunsPerHour
                           /\ HighCalls <= HighSeverityMaxRunsPerHour
  /\ CallsWithinLimits' <=> /\ SessionCalls' <= MaxRunsPerSession /\ HourCalls' <= MaxRunsPerHour
                            /\ HighCalls' <= HighSeverityMaxRunsPerHour
  /\ \A class : Suppressed(class) <=>
        IF class = "high" THEN HighCalls >= HighSeverityMaxRunsPerHour
        ELSE SessionCalls >= MaxRunsPerSession \/ HourCalls >= MaxRunsPerHour
  /\ \A class : Suppressed(class)' <=>
        IF class = "high" THEN HighCalls' >= HighSeverityMaxRunsPerHour
        ELSE SessionCalls' >= MaxRunsPerSession \/ HourCalls' >= MaxRunsPerHour
  BY DEF CallsWithinLimits, Suppressed, SessionCalls, HourCalls, HighCalls

\* The step adds no call.
NoNewCall == \A class, hour : CallSet(class, hour)' \subseteq CallSet(class, hour)

LEMMA NoNewCallKeepsLimits ==
  ASSUME AuditTypeOK, AuditTypeOK', NoNewCall
  PROVE  /\ \A class, hour : ProviderCalls(class, hour)' <= ProviderCalls(class, hour)
         /\ CallsWithinLimits => CallsWithinLimits'
         /\ \A class : ~Suppressed(class) => ~Suppressed(class)'
  <1>1. \A class, hour : /\ ProviderCalls(class, hour)' <= ProviderCalls(class, hour)
                         /\ ProviderCalls(class, hour)' \in Nat
                         /\ ProviderCalls(class, hour) \in Nat
    <2> SUFFICES ASSUME NEW class, NEW hour
                 PROVE  /\ ProviderCalls(class, hour)' <= ProviderCalls(class, hour)
                        /\ ProviderCalls(class, hour)' \in Nat
                        /\ ProviderCalls(class, hour) \in Nat
      OBVIOUS
    <2>1. /\ ProviderCalls(class, hour) = Cardinality(CallSet(class, hour))
          /\ IsFiniteSet(CallSet(class, hour)) /\ ProviderCalls(class, hour) \in Nat
      BY CallSetCounted
    <2>2. /\ ProviderCalls(class, hour)' = Cardinality(CallSet(class, hour)')
          /\ ProviderCalls(class, hour)' \in Nat
      BY CallSetCountedNext
    <2>3. CallSet(class, hour)' \subseteq CallSet(class, hour)
      BY DEF NoNewCall
    <2> QED
      BY <2>1, <2>2, <2>3, FS_Subset
  <1>2. {MaxRunsPerSession, MaxRunsPerHour, HighSeverityMaxRunsPerHour} \subseteq Nat
    BY AuditAssumption
  <1>3. /\ SessionCalls' <= SessionCalls /\ SessionCalls \in Nat /\ SessionCalls' \in Nat
        /\ HourCalls' <= HourCalls /\ HourCalls \in Nat /\ HourCalls' \in Nat
        /\ HighCalls' <= HighCalls /\ HighCalls \in Nat /\ HighCalls' \in Nat
    BY <1>1 DEF SessionCalls, HourCalls, HighCalls
  <1>4. CallsWithinLimits => CallsWithinLimits'
    BY <1>2, <1>3, LimitsNamed
  <1>5. ASSUME NEW class, ~Suppressed(class)
        PROVE  ~Suppressed(class)'
    BY <1>2, <1>3, <1>5, LimitsNamed
  <1> QED
    BY <1>1, <1>4, <1>5

\* Nothing but the mark of a live audit adds one.
LEMMA OnlyMarksAddCalls ==
  ASSUME AuditTypeOK, RowsOwned, NEW l \in Lanes, CallIsCounted(l), RunsEffect(l),
         l # "live" \/ flight[l].pc # "mark"
  PROVE  NoNewCall
  <1> SUFFICES ASSUME NEW class, NEW hour, NEW i \in CallSet(class, hour)'
               PROVE  i \in CallSet(class, hour)
    BY DEF NoNewCall
  <1>0. /\ i \in 1..Len(runs') /\ runs'[i].task = "live" /\ runs'[i].class = class
        /\ runs'[i].called /\ (hour => runs'[i].recent)
    BY DEF CallSet
  <1>1. i \in 1..Len(runs)
    <2>1. CASE Len(runs') = Len(runs)
      BY <1>0, <2>1
    <2>2. CASE Len(runs') = Len(runs) + 1 /\ i = Len(runs) + 1
      BY <1>0, <2>2, RowsKept DEF CallIsCounted, Inserts
    <2> QED
      BY <1>0, <2>1, <2>2, RowsKept
  <1>2. SameRow(runs'[i], runs[i]) /\ runs'[i].recent = runs[i].recent
    BY <1>1, RowsKept
  <1>3. runs[i].called
    <2>1. CASE runs'[i] = runs[i]
      BY <1>0, <2>1
    <2>2. CASE runs'[i] # runs[i]
      <3>1. flight[l].pc \in {"mark", "apply", "save"} /\ flight[l].id = i
        BY <1>1, <2>2, RowsKept
      <3>2. l = "live"
        <4>1. runs[i].task = l
          BY <1>1, <2>2, OtherRow
        <4> QED
          BY <1>0, <1>2, <4>1 DEF SameRow
      <3>3. PICK row \in Row : Writes(l, row)
        BY <1>1, <2>2, <3>1 DEF RunsEffect, Inserts
      <3>4. runs'[i] = [row EXCEPT !.recent = runs[i].recent]
        BY <1>1, <3>1, <3>3, WrittenType DEF Writes
      <3>5. runs'[i].called = flight[l].row.called
        BY <3>3, <3>4 DEF Row, Writes
      <3> QED
        BY <1>0, <3>1, <3>2, <3>5 DEF CallIsCounted
    <2> QED
      BY <2>1, <2>2
  <1> QED
    BY <1>0, <1>1, <1>2, <1>3 DEF CallSet, SameRow

\* The mark of a live audit adds its own row, for which there was room.
LEMMA MarkWithinLimits ==
  ASSUME AuditTypeOK, AuditTypeOK', RowsOwned, CallsWithinLimits, RunsEffect("live"),
         flight["live"].pc = "mark", ~Suppressed(flight["live"].row.class)
  PROVE  CallsWithinLimits'
  <1> DEFINE k == flight["live"].id
             own == flight["live"].row.class
  <1>0. k \in 1..Len(runs) /\ runs[k].class = own /\ own \in Classes
    <2>1. "live" \in Lanes
      BY DEF Lanes
    <2>2. OwnsRow("live") /\ flight["live"].row \in Row
      BY <2>1, OwnedRow DEF RowsOwned
    <2> QED
      BY <2>2 DEF OwnsRow, Working, SameRow, Row
  <1>1. ASSUME NEW class, NEW hour
        PROVE  /\ CallSet(class, hour)' \subseteq CallSet(class, hour) \cup {k}
               /\ class # own => CallSet(class, hour)' \subseteq CallSet(class, hour)
    <2> SUFFICES ASSUME NEW i \in CallSet(class, hour)', i = k => class # own
                 PROVE  i \in CallSet(class, hour)
      OBVIOUS
    <2>1. /\ i \in 1..Len(runs') /\ runs'[i].task = "live" /\ runs'[i].class = class
          /\ runs'[i].called /\ (hour => runs'[i].recent)
      BY DEF CallSet
    <2>2. i \in 1..Len(runs)
      BY <2>1, RowsKept DEF Inserts, Lanes
    <2>3. SameRow(runs'[i], runs[i])
      BY <2>2, RowsKept DEF Lanes
    <2>4. i # k
      BY <1>0, <2>1, <2>2, <2>3 DEF SameRow
    <2>5. runs'[i] = runs[i]
      BY <2>2, <2>4, RowsKept DEF Lanes
    <2> QED
      BY <2>1, <2>2, <2>5 DEF CallSet
  <1>2. ASSUME NEW class, NEW hour
        PROVE  /\ ProviderCalls(class, hour)' <= ProviderCalls(class, hour) + 1
               /\ class # own => ProviderCalls(class, hour)' <= ProviderCalls(class, hour)
               /\ ProviderCalls(class, hour) \in Nat /\ ProviderCalls(class, hour)' \in Nat
    <2>1. /\ ProviderCalls(class, hour) = Cardinality(CallSet(class, hour))
          /\ IsFiniteSet(CallSet(class, hour)) /\ ProviderCalls(class, hour) \in Nat
      BY CallSetCounted
    <2>2. /\ ProviderCalls(class, hour)' = Cardinality(CallSet(class, hour)')
          /\ IsFiniteSet(CallSet(class, hour)') /\ ProviderCalls(class, hour)' \in Nat
      BY CallSetCountedNext
    <2>3. /\ IsFiniteSet(CallSet(class, hour) \cup {k})
          /\ Cardinality(CallSet(class, hour) \cup {k}) <= Cardinality(CallSet(class, hour)) + 1
      BY <2>1, FS_AddElement
    <2>4. Cardinality(CallSet(class, hour)') <= Cardinality(CallSet(class, hour) \cup {k})
      BY <1>1, <2>3, FS_Subset
    <2>5. class # own => Cardinality(CallSet(class, hour)') <= Cardinality(CallSet(class, hour))
      BY <1>1, <2>1, FS_Subset
    <2>6. /\ Cardinality(CallSet(class, hour) \cup {k}) \in Nat
          /\ Cardinality(CallSet(class, hour)) \in Nat /\ Cardinality(CallSet(class, hour)') \in Nat
      BY <2>1, <2>2, <2>3, FS_CardinalityType
    <2> QED
      BY <2>1, <2>2, <2>3, <2>4, <2>5, <2>6
  <1>3. {MaxRunsPerSession, MaxRunsPerHour, HighSeverityMaxRunsPerHour} \subseteq Nat
    BY AuditAssumption
  <1>4. /\ SessionCalls' <= SessionCalls + 1 /\ SessionCalls \in Nat /\ SessionCalls' \in Nat
        /\ HourCalls' <= HourCalls + 1 /\ HourCalls \in Nat /\ HourCalls' \in Nat
        /\ HighCalls' <= HighCalls + 1 /\ HighCalls \in Nat /\ HighCalls' \in Nat
        /\ "normal" # own => SessionCalls' <= SessionCalls /\ HourCalls' <= HourCalls
        /\ "high" # own => HighCalls' <= HighCalls
    BY <1>2 DEF SessionCalls, HourCalls, HighCalls
  <1> HIDE DEF own
  <1>5. CASE own = "high"
    BY <1>3, <1>4, <1>5, LimitsNamed DEF own
  <1>6. CASE own = "normal"
    BY <1>3, <1>4, <1>6, LimitsNamed DEF own
  <1> QED
    BY <1>0, <1>5, <1>6 DEF Classes

LEMMA AuditKeepsCalls ==
  ASSUME AuditTypeOK, AuditTypeOK', RowsOwned, CallsCounted, CallsWithinLimits,
         NEW l \in Lanes, RunsEffect(l), Shape(l), StepTypes(l), StreakCarried(l), AuditStep(l)
  PROVE  CallsCounted' /\ CallsWithinLimits'
  <1>0. CallIsCounted(l)
    BY DEF CallsCounted
  <1>1. ASSUME NEW m \in Lanes
        PROVE  CallIsCounted(m)'
    BY OwnCallCounted, OtherCallCounted DEF StepTypes, CallsCounted
  <1>2. CASE l = "live" /\ flight["live"].pc = "mark"
    <2>1. CallsWithinLimits'
      BY <1>2, MarkWithinLimits DEF CallsCounted, At
    <2>2. flight'["live"].pc # "mark"
      BY <1>2, CallTo DEF Shape, Moves, Moved, Inserts
    <2> QED
      BY <1>1, <2>1, <2>2 DEF CallsCounted, At
  <1>3. CASE l # "live" \/ flight[l].pc # "mark"
    <2>1. NoNewCall
      BY <1>0, <1>3, OnlyMarksAddCalls
    <2>2. CallsWithinLimits' /\ \A class : ~Suppressed(class) => ~Suppressed(class)'
      BY <2>1, NoNewCallKeepsLimits
    <2>3. ASSUME At("live", "mark")'
          PROVE  (~Suppressed(flight["live"].row.class))'
      <3>1. CASE l = "live"
        <4>1. Moves(l)
          BY <2>3, <3>1, ClaimTo, LimitTo, CallTo DEF At, Shape
        <4>2. flight[l].pc = "limit" /\ SameRow(flight'[l].row, flight[l].row)
          BY <2>3, <3>1, <4>1 DEF Moves, Moved, At
        <4>3. ~Suppressed(flight[l].row.class)
          <5>1. AuditIsLimited(l)
            BY <4>2 DEF AuditStep, AuditLoads, AuditClaims, AuditMarksCall, ProviderFails,
                        AuditPanics, ProviderAnswers, AuditMayApply, AuditRereads, AuditApplies,
                        AuditSaves, At
          <5> QED
            BY <2>3, <3>1, <5>1, LimitMoves DEF At
        <4>4. flight'["live"].row.class = flight["live"].row.class
          BY <3>1, <4>2 DEF SameRow
        <4> QED
          BY <2>2, <3>1, <4>3, <4>4
      <3>2. CASE l # "live"
        <4>1. flight'["live"] = flight["live"]
          BY <3>2 DEF StepTypes, Lanes
        <4> QED
          BY <2>2, <2>3, <4>1 DEF CallsCounted, At
      <3> QED
        BY <3>1, <3>2
    <2> QED
      BY <1>1, <2>2, <2>3 DEF CallsCounted
  <1> QED
    BY <1>2, <1>3

-----------------------------------------------------------------------------
(* The row of what counts as audited. *)

LEMMA SettledKept ==
  ASSUME AuditTypeOK, RowsOwned, NEW l \in Lanes, RunsEffect(l), Shape(l), StepTypes(l),
         NEW i \in 1..Len(runs), NEW tv, Settled(i, tv)
  PROVE  i \in 1..Len(runs') /\ Settled(i, tv)'
  <1>1. i \in 1..Len(runs')
    BY RowsKept
  <1>2. CASE l = "live"
    <2>1. runs'[i] = runs[i]
      BY <1>2, RowsKept DEF Settled, Working
    <2>2. flight'["live"].pc \in Working => flight'["live"].id # i
      <3>1. ASSUME flight'["live"].pc \in Working, flight'["live"].pc # "limit"
            PROVE  flight["live"].pc \in Working /\ flight'["live"].id = flight["live"].id
        BY <1>2, <3>1, ClaimTo, LimitTo, CallTo DEF Shape, Moves, Moved, Working
      <3>2. flight'["live"].pc = "limit" => flight'["live"].id = Len(runs) + 1
        BY <1>2, ClaimTo, LimitTo, CallTo DEF Shape, Moves, Moved
      <3>3. i # Len(runs) + 1
        BY RowsKept
      <3> QED
        BY <3>1, <3>2, <3>3 DEF Settled
    <2> QED
      BY <1>1, <2>1, <2>2 DEF Settled
  <1>3. CASE l # "live"
    <2>1. runs'[i] = runs[i]
      BY <1>3, OtherRow DEF Settled
    <2>2. flight'["live"] = flight["live"]
      BY <1>3 DEF StepTypes, Lanes
    <2> QED
      BY <1>1, <2>1, <2>2 DEF Settled
  <1> QED
    BY <1>2, <1>3

LEMMA HasRowKept ==
  ASSUME AuditTypeOK, RowsOwned, NEW l \in Lanes, RunsEffect(l), Shape(l), StepTypes(l),
         NEW tv, HasRow(tv)
  PROVE  HasRow(tv)'
  BY SettledKept DEF HasRow

\* An audit that ends without a failure leaves a row for the tree it ends with.
LEMMA EndsWithRow ==
  ASSUME AuditTypeOK, AuditTypeOK', RowsOwned, StatusKnown, AuditStep("live"),
         StreakCarried("live"), flight'["live"].pc = "finish", flight'["live"].result # "failed"
  PROVE  HasRow(flight["live"].doc.tv)'
  <1> DEFINE l == "live"
             f == flight["live"]
             tv == flight'["live"].doc.tv
  <1>0. /\ l \in Lanes /\ f \in Flight /\ f.row \in Row /\ runs \in Seq(Row) /\ Len(runs) \in Nat
        /\ f.pc \in Working => f.id \in 1..Len(runs)
        /\ f.pc \in Working \cup {"claim"} => f.row.task = "live" /\ f.row.doc = f.doc
        /\ f.pc \in Working => SameRow(runs[f.id], f.row)
    <2>1. l \in Lanes
      BY DEF Lanes
    <2> QED
      BY <2>1, OwnedRow DEF AuditTypeOK, RowsOwned, OwnsRow
  <1>1. SUFFICES ASSUME AuditStep(l)
                 PROVE  \E i \in 1..Len(runs') : /\ runs'[i].task = "live"
                                                 /\ tv \in {runs'[i].doc.tv, runs'[i].res}
                                                 /\ runs'[i].status # "failed"
    BY DEF HasRow, Settled, Working
  <1>m. ~Moves(l)
    BY DEF Moves, Moved
  <1>2. CASE AuditLoads(l)
    <2>1. Ends(l, "ok") /\ Duplicate(l) /\ runs' = runs
      <3>1. Ends(l, "failed") => flight'[l].result = "failed"
        BY <1>0, EndsTo
      <3>2. Goes(l, ClaimFlight(l)) => flight'[l].pc = "claim"
        BY <1>0 DEF Goes, ClaimFlight, AuditTypeOK, Flight
      <3> QED
        BY <1>2, <3>1, <3>2 DEF AuditLoads, ClaimFlight, ClaimedRow
    <2>2. tv = f.doc.tv
      BY <1>0, <2>1, EndsTo
    <2>3. /\ Len(runs) \in 1..Len(runs) /\ runs[Len(runs)].task = "live"
          /\ runs[Len(runs)].doc = f.doc /\ runs[Len(runs)].status # "failed"
      BY <2>1, LastRow DEF Duplicate, SameSnapshot
    <2> QED
      BY <2>1, <2>2, <2>3
  <1>3. CASE AuditClaims(l)
    <2> DEFINE taken(i) == /\ runs[i].status = "running" /\ runs[i].task = l
                           /\ runs[i].doc = f.row.doc /\ runs[i].heard = f.row.heard
    <2>1. /\ Ends(l, "ok") /\ f.pc = "claim" /\ runs' = runs /\ \E i \in DOMAIN runs : taken(i)
      <3>1. Ends(l, "failed") => flight'[l].result = "failed"
        BY <1>0, EndsTo
      <3>2. Goes(l, LimitFlight(l)) => flight'[l].pc = "limit"
        BY <1>0 DEF Goes, LimitFlight, AuditTypeOK, Flight
      <3> QED
        BY <1>3, <3>1, <3>2 DEF AuditClaims, LimitFlight, At
    <2>2. tv = f.doc.tv
      BY <1>0, <2>1, EndsTo
    <2>3. PICK i \in 1..Len(runs) : taken(i)
      BY <1>0, <2>1
    <2> QED
      BY <1>0, <2>1, <2>2, <2>3
  <1>4. CASE AuditMarksCall(l)
    <2>1. CallFlight(l) \in Flight /\ CallFlight(l).pc = "call"
      BY <1>0 DEF CallFlight, Flight, FlightPCs
    <2>2. Goes(l, CallFlight(l)) => flight'[l].pc = "call"
      BY <1>0, <2>1, GoesTo
    <2>3. Ends(l, "failed") => flight'[l].result = "failed"
      BY <1>0, EndsTo
    <2> QED
      BY <1>4, <2>2, <2>3 DEF AuditMarksCall, CallFlight
  <1>5. CASE AuditPanics(l)
    <2>1. [NoFlight EXCEPT !.pc = "finish", !.class = flight[l].class,
                           !.doc = flight[l].doc, !.result = "failed"].result = "failed"
      BY DEF NoFlight
    <2> QED
      BY <1>0, <1>5, <2>1 DEF AuditPanics, Goes, AuditTypeOK
  <1>6. CASE AuditApplies(l)
    <2>1. Works(l) /\ Commits(l) /\ flight'[l] = AppliedFlight(l) /\ f.pc = "apply"
      BY <1>0, <1>m, <1>6, AppliesMoves DEF AuditApplies, At
    <2>2. tv = f.doc.tv + 1
      BY <2>1, EmptyTypes DEF AppliedFlight, AppliedDoc, NoFlight
    <2>3. runs'[f.id] = [AppliedRow(l) EXCEPT !.recent = runs[f.id].recent] /\ f.id \in 1..Len(runs')
      BY <1>0, <2>1, AppliedTypes, WrittenType DEF Commits, Working
    <2>4. /\ AppliedRow(l).status = "completed" /\ AppliedRow(l).res = f.doc.tv + 1
          /\ AppliedRow(l).task = "live"
      BY <1>0, <2>1, AppliedRowFields DEF StatusKnown, SameRow, Working
    <2>5. AppliedRow(l) \in Row
      BY <1>0, AppliedTypes
    <2>6. runs'[f.id].status = "completed" /\ runs'[f.id].res = f.doc.tv + 1 /\ runs'[f.id].task = "live"
      BY <2>3, <2>4, <2>5 DEF Row
    <2> QED
      BY <2>2, <2>3, <2>6
  <1>7. CASE AuditSaves(l)
    <2>1. /\ f.pc = "save" /\ runs' = Written(l, f.row) /\ Ends(l, f.result) /\ f.result # "failed"
      <3>1. Ends(l, "failed") => flight'[l].result = "failed"
        BY <1>0, EndsTo
      <3>2. Ends(l, f.result) => flight'[l].result = f.result
        BY <1>0, EndsTo, OwnedRow
      <3> QED
        BY <1>7, <3>1, <3>2 DEF AuditSaves, At
    <2>2. tv = f.doc.tv
      BY <1>0, <2>1, EndsTo, OwnedRow
    <2>3. runs'[f.id] = [f.row EXCEPT !.recent = runs[f.id].recent] /\ f.id \in 1..Len(runs')
      BY <1>0, <2>1, WrittenType DEF Working
    <2>4. runs'[f.id].doc = f.doc /\ runs'[f.id].task = "live" /\ runs'[f.id].status # "failed"
      BY <1>0, <2>1, <2>3 DEF Row, StatusKnown, Working
    <2> QED
      BY <2>2, <2>3, <2>4
  <1>8. ~(AuditIsLimited(l) \/ ProviderFails(l) \/ ProviderAnswers(l) \/ AuditMayApply(l) \/ AuditRereads(l))
    BY <1>0, <1>m, LimitMoves, AnswersMoves, RereadsMoves
  <1> QED
    BY <1>1, <1>2, <1>3, <1>4, <1>5, <1>6, <1>7, <1>8 DEF AuditStep

LEMMA AuditKeepsAuditsRows ==
  ASSUME AuditTypeOK, AuditTypeOK', RowsOwned, StatusKnown, AuditsHaveRows,
         NEW l \in Lanes, RunsEffect(l), Shape(l), StepTypes(l), StreakCarried(l), AuditStep(l),
         FlightFrame
  PROVE  AuditsHaveRows'
  <1>1. audited' > 0 => HasRow(audited)'
    <2>1. audited' = audited
      BY DEF FlightFrame, schedule
    <2> QED
      BY <2>1, HasRowKept DEF AuditsHaveRows
  <1>2. ASSUME flight'["live"].pc = "finish", flight'["live"].result # "failed"
        PROVE  HasRow(flight["live"].doc.tv)'
    <2>1. CASE l = "live"
      BY <1>2, <2>1, EndsWithRow
    <2>2. CASE l # "live"
      <3>1. flight'["live"] = flight["live"]
        BY <2>2 DEF StepTypes, Lanes
      <3>2. HasRow(flight["live"].doc.tv)
        BY <1>2, <3>1 DEF AuditsHaveRows, At
      <3> QED
        BY <3>1, <3>2, HasRowKept
    <2> QED
      BY <2>1, <2>2
  <1> QED
    BY <1>1, <1>2 DEF AuditsHaveRows, At

-----------------------------------------------------------------------------
(* One audit at a time, and the streak it carries. *)

LEMMA StepStarted ==
  ASSUME NEW l, AuditStep(l)
  PROVE  flight[l].pc \notin {"idle", "finish"}
  BY DEF AuditStep, AuditLoads, AuditClaims, AuditIsLimited, AuditMarksCall, ProviderFails,
         AuditPanics, ProviderAnswers, AuditMayApply, AuditRereads, AuditApplies, AuditSaves, At

LEMMA DeadKept ==
  ASSUME AuditTypeOK, NEW l \in Lanes, Shape(l)
  PROVE  flight'[l].pc = "finish" \/ flight'[l].dead = flight[l].dead
  BY ClaimTo, LimitTo, CallTo DEF Shape, Moves, Moved

LEMMA AuditKeepsFinalizerAlone ==
  ASSUME AuditTypeOK, FinalizerAlone, NEW l \in Lanes, Shape(l), StepTypes(l), AuditStep(l),
         FlightFrame
  PROVE  FinalizerAlone'
  <1>1. fin' = fin /\ closed' = closed /\ ended' = ended /\ round' = round
    BY DEF FlightFrame, schedule
  <1>2. Silent => Silent'
    BY StepStarted, DeadKept DEF Silent, StepTypes, Lanes
  <1>3. flight'["review"].pc # "idle" => flight["review"].pc # "idle"
    BY StepStarted DEF StepTypes, Lanes
  <1> QED
    BY <1>1, <1>2, <1>3 DEF FinalizerAlone

\* Of two audits at most one is heard.
LEMMA OneIsHeard ==
  ASSUME FinalizerAlone, NEW l \in Lanes, NEW m \in Lanes, l # m,
         ~flight[l].dead, flight[l].pc \notin {"idle", "finish"}
  PROVE  flight[m].dead \/ flight[m].pc \in {"idle", "finish"}
  BY DEF FinalizerAlone, Silent, Lanes

LEMMA StreakCount ==
  /\ StreakCountsRuns <=>
        \A i \in 2..Len(runs) :
            runs[i].streak = StreakAfter(runs[i].verdict, runs[i - 1].streak)
  /\ StreakCountsRuns' <=>
        \A i \in 2..Len(runs') :
            runs'[i].streak = StreakAfter(runs'[i].verdict, runs'[i - 1].streak)
  BY DEF StreakCountsRuns, StreakAfter

LEMMA AuditKeepsStreakCount ==
  ASSUME AuditTypeOK, RowsOwned, StreakCountsRuns, NEW l \in Lanes, StreakCarried(l),
         RunsEffect(l)
  PROVE  StreakCountsRuns'
  <1>0. runs \in Seq(Row) /\ Len(runs) \in Nat
    BY DEF AuditTypeOK
  <1> SUFFICES ASSUME NEW i \in 2..Len(runs')
               PROVE  runs'[i].streak = StreakAfter(runs'[i].verdict, runs'[i - 1].streak)
    BY StreakCount
  <1>1. CASE runs' = runs
    BY <1>1, StreakCount
  <1>2. CASE Inserts(l)
    <2>1. flight[l].row \in Row
      BY OwnedRow
    <2>2. /\ Len(runs') = Len(runs) + 1 /\ runs'[Len(runs) + 1] = flight[l].row
          /\ \A j \in 1..Len(runs) : runs'[j] = runs[j]
      BY <1>0, <1>2, <2>1 DEF Inserts
    <2>3. CASE i = Len(runs) + 1
      <3>1. runs'[i].verdict = "none" /\ runs'[i].streak = CarriedStreak
        BY <1>2, <2>2, <2>3 DEF StreakCarried, Inserts
      <3>2. runs # <<>> /\ i - 1 = Len(runs) /\ i - 1 \in 1..Len(runs)
        BY <1>0, <2>3
      <3>3. runs'[i - 1].streak = CarriedStreak
        BY <2>2, <3>2 DEF CarriedStreak
      <3> QED
        BY <3>1, <3>3 DEF StreakAfter
    <2>4. CASE i # Len(runs) + 1
      <3>1. i \in 2..Len(runs) /\ i \in 1..Len(runs) /\ i - 1 \in 1..Len(runs)
        BY <1>0, <2>2, <2>4
      <3> QED
        BY <2>2, <3>1, StreakCount
    <2> QED
      BY <2>3, <2>4
  <1>3. ASSUME NEW row \in Row, Writes(l, row)
        PROVE  runs'[i].streak = StreakAfter(runs'[i].verdict, runs'[i - 1].streak)
    <2> DEFINE k == flight[l].id
    <2>1. k = Len(runs) /\ k \in 1..Len(runs)
      BY <1>3, OwnedRow DEF StreakCarried, Writes, Working
    <2>2. /\ Len(runs') = Len(runs) /\ runs'[k] = [row EXCEPT !.recent = runs[k].recent]
          /\ \A j \in 1..Len(runs) : j # k => runs'[j] = runs[j]
      BY <1>3, <2>1, WrittenType DEF Writes
    <2>3. CASE i = k
      <3>1. i - 1 \in 1..Len(runs) /\ i - 1 # k /\ k # 1
        BY <1>0, <2>1, <2>2, <2>3
      <3>2. runs'[i].verdict = row.verdict /\ runs'[i].streak = row.streak
        BY <2>2, <2>3 DEF Row
      <3>3. Carried(l) = runs'[i - 1].streak
        BY <2>2, <2>3, <3>1 DEF Carried
      <3> QED
        BY <1>3, <3>2, <3>3 DEF Writes
    <2>4. CASE i # k
      <3>1. i \in 2..Len(runs) /\ i \in 1..Len(runs) /\ i - 1 \in 1..Len(runs) /\ i - 1 # k
        BY <1>0, <2>1, <2>2, <2>4
      <3> QED
        BY <2>2, <2>4, <3>1, StreakCount
    <2> QED
      BY <2>3, <2>4
  <1> QED
    BY <1>1, <1>2, <1>3 DEF RunsEffect

LEMMA OwnStreakKept ==
  ASSUME AuditTypeOK, RowsOwned, NEW l \in Lanes, StreakCarried(l), RunsEffect(l), Shape(l)
  PROVE  StreakCarried(l)'
  <1> DEFINE f == flight[l]
             k == flight[l].id
             prev(i) == IF i = 1 THEN 0 ELSE runs'[i - 1].streak
  <1>0. /\ runs \in Seq(Row) /\ Len(runs) \in Nat /\ f.row \in Row
    BY OwnedRow DEF AuditTypeOK
  <1>1. CASE flight'[l].pc = "finish"
    BY <1>1 DEF StreakCarried, Working
  <1>2. CASE runs' = runs /\ flight'[l] = ClaimFlight(l)
    <2>1. CarriedStreak' = CarriedStreak
      BY <1>2 DEF CarriedStreak
    <2> QED
      BY <1>2, <2>1, ClaimTo DEF StreakCarried, Working
  <1>3. CASE Inserts(l) /\ flight'[l] = LimitFlight(l)
    <2>1. /\ Len(runs') = Len(runs) + 1 /\ \A j \in 1..Len(runs) : runs'[j] = runs[j]
      BY <1>0, <1>3 DEF Inserts
    <2>2. Carried(l)' = prev(Len(runs) + 1)
      BY <1>3, LimitTo DEF Carried
    <2>3. prev(Len(runs) + 1) = CarriedStreak
      <3>1. CASE runs = <<>>
        BY <3>1 DEF CarriedStreak
      <3>2. CASE runs # <<>>
        <4>1. Len(runs) \in 1..Len(runs) /\ Len(runs) + 1 # 1 /\ (Len(runs) + 1) - 1 = Len(runs)
          BY <1>0, <3>2
        <4> QED
          BY <2>1, <3>2, <4>1 DEF CarriedStreak
      <3> QED
        BY <3>1, <3>2
    <2> HIDE DEF prev
    <2>4. ~f.dead => f.row.verdict = "none" /\ f.row.streak = CarriedStreak
      BY <1>3 DEF StreakCarried, Inserts
    <2> QED
      BY <1>3, <2>1, <2>2, <2>3, <2>4, LimitTo DEF StreakCarried, Working
  <1>4. ASSUME f.pc \in Working, flight'[l].id = k, ~f.dead
        PROVE  Carried(l)' = Carried(l) /\ k = Len(runs')
    <2>1. k = Len(runs) /\ k \in 1..Len(runs)
      BY <1>4, OwnedRow DEF StreakCarried
    <2>2. Len(runs') = Len(runs)
      BY <1>4, RowsKept DEF Inserts, Working
    <2>3. \A n \in Nat : \A j \in 1..n : j # 1 => j - 1 \in 1..n /\ j - 1 # j
      OBVIOUS
    <2>4. k # 1 => runs'[k - 1] = runs[k - 1]
      BY <1>0, <2>1, <2>3, RowsKept
    <2> QED
      BY <1>4, <2>1, <2>2, <2>4 DEF Carried
  <1>5. CASE f.pc = "mark" /\ flight'[l] = CallFlight(l)
    <2>1. flight'[l].id = k /\ f.pc \in Working
      BY <1>5, CallTo DEF Working
    <2> QED
      BY <1>4, <1>5, <2>1, CallTo DEF StreakCarried, Working
  <1>6. CASE Moves(l)
    <2>1. flight'[l].id = k /\ f.pc \in Working /\ flight'[l].dead = f.dead
          /\ flight'[l].pc \in {"mark", "allow", "reread", "apply", "save"}
      BY <1>6 DEF Moves, Moved, Working
    <2>2. ~f.dead => Carried(l)' = Carried(l) /\ k = Len(runs') /\ StreakMoved(l, flight'[l])
      BY <1>4, <1>6, <2>1 DEF Moves
    <2> QED
      BY <2>1, <2>2 DEF StreakCarried, StreakMoved, Working
  <1> QED
    BY <1>1, <1>2, <1>3, <1>5, <1>6 DEF Shape

LEMMA OtherStreakKept ==
  ASSUME AuditTypeOK, RowsOwned, FinalizerAlone, NEW l \in Lanes, RunsEffect(l), AuditStep(l),
         NEW m \in Lanes, m # l, flight'[m] = flight[m], StreakCarried(m)
  PROVE  StreakCarried(m)'
  <1>1. CASE flight[m].dead \/ flight[m].pc \in {"idle", "finish"}
    BY <1>1 DEF StreakCarried, Working
  <1>2. CASE flight[l].dead
    <2>1. runs' = runs
      BY <1>2 DEF RunsEffect, Inserts, Writes
    <2> QED
      BY <2>1 DEF StreakCarried, CarriedStreak, Carried
  <1> QED
    BY <1>1, <1>2, OneIsHeard, StepStarted

LEMMA AuditKeepsStreaks ==
  ASSUME AuditTypeOK, RowsOwned, FinalizerAlone, StreaksCarried, NEW l \in Lanes,
         RunsEffect(l), Shape(l), StepTypes(l), AuditStep(l)
  PROVE  StreaksCarried'
  <1>1. StreakCountsRuns'
    BY AuditKeepsStreakCount DEF StreaksCarried
  <1>2. ASSUME NEW m \in Lanes
        PROVE  StreakCarried(m)'
    BY OwnStreakKept, OtherStreakKept DEF StreaksCarried, StepTypes
  <1> QED
    BY <1>1, <1>2 DEF StreaksCarried

-----------------------------------------------------------------------------
(* Versions. *)

\* A commit takes effect, whether or not the audit hears of it.
Lands(l) ==
    /\ flight[l].pc = "apply" /\ ~flight[l].dead /\ Apply(l)
    /\ \/ flight'[l] = AppliedFlight(l)
       \/ flight'[l].pc = "save" /\ flight'[l].result = "failed"

\* The step of an audit leaves the row and its payload, or commits.
LEMMA StepLive ==
  ASSUME AuditTypeOK, RowsOwned, StatusKnown, NEW l \in Lanes, StreakCarried(l), AuditStep(l)
  PROVE  /\ live' = live \/ Lands(l)
         /\ flight'[l].doc = flight[l].doc \/ (flight'[l] = AppliedFlight(l) /\ Lands(l))
  <1> DEFINE f == flight[l]
  <1>0. f \in Flight /\ f.row \in Row
    BY OwnedRow
  <1>1. CASE AuditApplies(l)
    <2>0. f.pc = "apply"
      BY <1>1 DEF AuditApplies, At
    <2>1. CASE Works(l) /\ Commits(l) /\ Goes(l, AppliedFlight(l))
      <3>1. flight'[l] = AppliedFlight(l)
        BY <2>1, AppliedTypes, GoesTo
      <3> QED
        BY <2>0, <2>1, <3>1 DEF Works, Commits, Lands
    <2>2. CASE live' = live /\ Saves(l, Classified(f.row, StaleVerdict(l)), "stale")
      <3>1. flight'[l].doc = f.doc
        BY <2>2, AppliedTypes, SavesTo
      <3> QED
        BY <2>2, <3>1
    <2>3. CASE Breaks(l, Commits(l)) /\ Saves(l, Failed(AppliedRow(l)), "failed")
      <3>1. flight'[l].doc = f.doc /\ flight'[l].result = "failed" /\ flight'[l].pc = "save"
        BY <2>3, AppliedTypes, SavesTo
      <3>2. live' = live \/ (~f.dead /\ Apply(l))
        BY <2>3 DEF Breaks, Commits
      <3> QED
        BY <2>0, <3>1, <3>2 DEF Lands
    <2> QED
      BY <1>1, <2>1, <2>2, <2>3, AppliesCases
  <1>e. \A result \in {"none", "ok", "stale", "failed"} : Ends(l, result) => flight'[l].doc = f.doc
    BY EndsTo
  <1>2. ASSUME ~AuditApplies(l)
        PROVE  live' = live
    BY <1>2 DEF AuditStep, AuditLoads, AuditClaims, AuditIsLimited, AuditMarksCall, ProviderFails,
                AuditPanics, ProviderAnswers, AuditMayApply, AuditRereads, AuditSaves
  <1>3. ASSUME ~AuditApplies(l)
        PROVE  flight'[l].doc = f.doc
    <2>1. CASE AuditPanics(l)
      <3> DEFINE g == [NoFlight EXCEPT !.pc = "finish", !.class = flight[l].class,
                                       !.doc = flight[l].doc, !.result = "failed"]
      <3>1. g \in Flight /\ g.doc = f.doc
        BY <1>0, EmptyTypes DEF Flight, FlightPCs, NoFlight
      <3>2. Goes(l, g)
        BY <2>1 DEF AuditPanics
      <3> HIDE DEF g
      <3> QED
        BY <3>1, <3>2, GoesTo
    <2>2. CASE AuditLoads(l)
      <3>1. Goes(l, ClaimFlight(l)) => flight'[l] = ClaimFlight(l)
        BY DEF Goes, AuditTypeOK
      <3> QED
        BY <1>e, <2>2, <3>1, ClaimTo DEF AuditLoads, ClaimFlight, ClaimedRow
    <2>3. CASE AuditClaims(l)
      <3>1. Goes(l, LimitFlight(l)) => flight'[l] = LimitFlight(l)
        BY DEF Goes, AuditTypeOK
      <3> QED
        BY <1>e, <2>3, <3>1, LimitTo DEF AuditClaims, LimitFlight
    <2>4. CASE AuditMarksCall(l)
      <3>1. Goes(l, CallFlight(l)) => flight'[l] = CallFlight(l)
        BY DEF Goes, AuditTypeOK
      <3> QED
        BY <1>e, <2>4, <3>1, CallTo DEF AuditMarksCall, CallFlight
    <2>5. CASE AuditSaves(l)
      BY <1>e, <2>5, OwnedRow DEF AuditSaves
    <2>6. CASE Moves(l)
      BY <2>6 DEF Moves, Moved
    <2> QED
      BY <1>3, <2>1, <2>2, <2>3, <2>4, <2>5, <2>6, LimitMoves, AnswersMoves, RereadsMoves
      DEF AuditStep
  <1> QED
    BY <1>1, <1>2, <1>3

LEMMA AppliedFlightFields ==
  ASSUME NEW l \in Lanes
  PROVE  /\ AppliedFlight(l).pc = "finish" /\ AppliedFlight(l).doc = AppliedDoc(l)
         /\ AppliedFlight(l).applied /\ AppliedFlight(l).result = "ok"
         /\ AppliedDoc(l).v = flight[l].doc.v + 1 /\ AppliedDoc(l).tv = flight[l].doc.tv + 1
  BY DEF AppliedFlight, AppliedDoc, NoFlight

\* What was known before a commit is known after it, and so is what it commits.
LEMMA KnownAfterCommit ==
  ASSUME live \in Payload, live' = [v |-> live.v + 1, tv |-> live.tv + 1],
         NEW d \in Payload, Known(d)
  PROVE  Known(d)'
  BY DEF Known, Payload

LEMMA ApplyCommits ==
  ASSUME AuditTypeOK, NEW l \in Lanes, Apply(l), Known(flight[l].doc)
  PROVE  live' = AppliedDoc(l) /\ live' = [v |-> live.v + 1, tv |-> live.tv + 1]
         /\ flight[l].doc = live
  <1>1. live \in Payload /\ flight[l].doc \in Payload
    BY DEF AuditTypeOK, Flight
  <1> QED
    BY <1>1 DEF Apply, Known, Payload, AppliedDoc

LEMMA LandsInOrder ==
  ASSUME AuditTypeOK, FinalizerAlone, NEW l \in Lanes, Lands(l)
  PROVE  /\ fin.pc \notin {"project", "done"}
         /\ fin.pc = "review" => l = "review"
         /\ l = "review" => fin.pc = "review"
  BY DEF Lands, FinalizerAlone, Silent, Lanes

LEMMA AuditKeepsVersions ==
  ASSUME AuditTypeOK, AuditTypeOK', RowsOwned, StatusKnown, FinalizerAlone, VersionsKnown,
         NEW l \in Lanes, StreakCarried(l), StepTypes(l), AuditStep(l), FlightFrame
  PROVE  VersionsKnown'
  <1>0. /\ last' = last /\ round' = round /\ fin' = fin /\ job' = job
        /\ \A m \in Lanes \ {l} : flight'[m] = flight[m]
    BY DEF FlightFrame, schedule, StepTypes
  <1>1. CASE live' = live /\ ~Lands(l)
    <2>1. \A m \in Lanes : flight'[m].doc = flight[m].doc
      BY <1>0, <1>1, StepLive
    <2> QED
      BY <1>0, <1>1, <2>1 DEF VersionsKnown, Known
  <1>2. CASE Lands(l)
    <2>1. fin.pc # "done"
      BY <1>2, LandsInOrder
    <2>2. /\ live' = AppliedDoc(l) /\ live' = [v |-> live.v + 1, tv |-> live.tv + 1]
          /\ flight[l].doc = live
      BY <1>2, <2>1, ApplyCommits DEF VersionsKnown, Lands
    <2>3. /\ live \in Payload /\ last \in Payload /\ round.doc \in Payload /\ fin.doc \in Payload
          /\ \A s \in Sources : job[s].doc \in Payload
          /\ \A m \in Lanes : flight[m].doc \in Payload
      BY DEF AuditTypeOK, Job, Flight
    <2>4. \A d \in Payload : Known(d) => Known(d)'
      BY <2>2, <2>3, KnownAfterCommit
    <2>5. /\ Known(last)' /\ Known(round.doc)' /\ Known(fin.doc)'
          /\ \A s \in Sources : Known(job[s].doc)'
      BY <1>0, <2>1, <2>3, <2>4 DEF VersionsKnown
    <2>6. ASSUME NEW m \in Lanes
          PROVE  Known(flight[m].doc)'
      <3>1. CASE flight'[m].doc = flight[m].doc
        BY <2>1, <2>3, <2>4, <3>1 DEF VersionsKnown
      <3>2. CASE m = l /\ flight'[l] = AppliedFlight(l)
        <4>1. flight'[m].doc = live'
          BY <2>2, <3>2, AppliedFlightFields
        <4> QED
          BY <2>2, <2>3, <4>1 DEF Known, Payload
      <3> QED
        BY <1>0, <3>1, <3>2, StepLive
    <2>7. live'.v > 0 /\ live'.tv <= live'.v
      BY <2>2, <2>3 DEF VersionsKnown, Payload
    <2> QED
      BY <1>0, <2>5, <2>6, <2>7 DEF VersionsKnown
  <1> QED
    BY <1>1, <1>2, StepLive

LEMMA StepEnds ==
  ASSUME AuditTypeOK, RowsOwned, StatusKnown, NEW l \in Lanes, StreakCarried(l), AuditStep(l),
         flight'[l].pc = "finish"
  PROVE  \/ flight'[l] = AppliedFlight(l) /\ Lands(l)
         \/ /\ ~flight'[l].applied
            /\ flight[l].pc = "save" => flight'[l].result \in {flight[l].result, "failed"}
  <1> DEFINE f == flight[l]
             Plain == /\ ~flight'[l].applied
                      /\ f.pc = "save" => flight'[l].result \in {f.result, "failed"}
  <1>0. f \in Flight /\ f.row \in Row /\ f.result \in {"none", "ok", "stale", "failed"}
    BY OwnedRow
  <1>e. \A result \in {"none", "ok", "stale", "failed"} :
           Ends(l, result) => ~flight'[l].applied /\ flight'[l].result = result
    BY EndsTo
  <1>m. ~Moves(l)
    BY DEF Moves, Moved
  <1>1. CASE AuditLoads(l)
    <2>1. Goes(l, ClaimFlight(l)) => flight'[l] = ClaimFlight(l)
      BY DEF Goes, AuditTypeOK
    <2> QED
      BY <1>e, <1>1, <2>1, ClaimTo DEF AuditLoads, ClaimFlight, ClaimedRow, At
  <1>2. CASE AuditClaims(l)
    <2>1. Goes(l, LimitFlight(l)) => flight'[l] = LimitFlight(l)
      BY DEF Goes, AuditTypeOK
    <2> QED
      BY <1>e, <1>2, <2>1, LimitTo DEF AuditClaims, LimitFlight, At
  <1>3. CASE AuditMarksCall(l)
    <2>1. Goes(l, CallFlight(l)) => flight'[l] = CallFlight(l)
      BY DEF Goes, AuditTypeOK
    <2> QED
      BY <1>e, <1>3, <2>1, CallTo DEF AuditMarksCall, CallFlight, At
  <1>4. CASE AuditPanics(l)
    <2> DEFINE g == [NoFlight EXCEPT !.pc = "finish", !.class = flight[l].class,
                                     !.doc = flight[l].doc, !.result = "failed"]
    <2>1. g \in Flight /\ ~g.applied
      BY <1>0, EmptyTypes DEF Flight, FlightPCs, NoFlight
    <2>2. Goes(l, g) /\ f.pc = "call"
      BY <1>4 DEF AuditPanics, At
    <2> HIDE DEF g
    <2> QED
      BY <2>1, <2>2, GoesTo
  <1>5. CASE AuditApplies(l)
    <2>1. Works(l) /\ Commits(l) /\ flight'[l] = AppliedFlight(l) /\ f.pc = "apply"
      BY <1>m, <1>5, AppliesMoves DEF AuditApplies, At
    <2> QED
      BY <2>1 DEF Lands, Works, Commits
  <1>6. CASE AuditSaves(l)
    BY <1>0, <1>e, <1>6 DEF AuditSaves
  <1> QED
    BY <1>m, <1>1, <1>2, <1>3, <1>4, <1>5, <1>6, LimitMoves, AnswersMoves, RereadsMoves
    DEF AuditStep

LEMMA AuditKeepsReview ==
  ASSUME AuditTypeOK, RowsOwned, StatusKnown, FinalizerAlone, VersionsKnown, ReviewSeesRow,
         ProjectionSeesRow, NEW l \in Lanes, StreakCarried(l), StepTypes(l), Shape(l), AuditStep(l),
         FlightFrame
  PROVE  ReviewSeesRow' /\ ProjectionSeesRow'
  <1>0. fin' = fin
    BY DEF FlightFrame
  <1>1. ProjectionSeesRow'
    BY <1>0, StepLive, LandsInOrder DEF ProjectionSeesRow
  <1>2. ASSUME fin.pc = "review", ~fin.blind
        PROVE  ReviewSeesRow'
    <2>1. CASE l # "review"
      <3>1. live' = live /\ flight'["review"] = flight["review"]
        BY <1>2, <2>1, StepLive, LandsInOrder DEF StepTypes, Lanes
      <3> QED
        BY <1>0, <3>1 DEF ReviewSeesRow
    <2>2. CASE l = "review"
      <3> DEFINE f == flight["review"]
                 g == flight'["review"]
      <3>0. f.pc # "finish" /\ f.doc = fin.doc /\ (f.pc # "save" => live = fin.doc)
            /\ (f.pc = "save" /\ f.result # "failed" => live = fin.doc)
        BY <1>2, <2>2, StepStarted DEF ReviewSeesRow
      <3>1. CASE g = AppliedFlight(l) /\ Lands(l)
        <4>1. live' = AppliedDoc(l)
          BY <1>2, <3>1, ApplyCommits DEF VersionsKnown, Lands
        <4> QED
          BY <1>0, <2>2, <3>1, <4>1, AppliedFlightFields DEF ReviewSeesRow
      <3>2. CASE g.pc = "finish" /\ ~(g = AppliedFlight(l) /\ Lands(l))
        <4>1. ~g.applied /\ (f.pc = "save" => g.result \in {f.result, "failed"})
          BY <2>2, <3>2, StepEnds
        <4>2. live' = live
          BY <2>2, <3>2, StepLive DEF Lands
        <4> QED
          BY <1>0, <3>0, <3>2, <4>1, <4>2 DEF ReviewSeesRow
      <3>3. CASE g.pc # "finish"
        <4>1. f.pc # "save"
          BY <2>2, <3>3 DEF Shape, Moves, Moved, Inserts
        <4>2. g # AppliedFlight(l)
          BY <2>2, <3>3, AppliedFlightFields
        <4>3. g.doc = f.doc /\ (live' = live \/ (g.pc = "save" /\ g.result = "failed"))
          BY <2>2, <4>2, StepLive DEF Lands
        <4> QED
          BY <1>0, <3>0, <3>3, <4>1, <4>3 DEF ReviewSeesRow
      <3> QED
        BY <3>1, <3>2, <3>3
    <2> QED
      BY <2>1, <2>2
  <1>3. fin.pc # "review" \/ fin.blind => ReviewSeesRow'
    BY <1>0 DEF ReviewSeesRow
  <1> QED
    BY <1>1, <1>2, <1>3

LEMMA AuditKeepsDocs ==
  ASSUME AuditTypeOK, RowsOwned, StatusKnown, DocsWritten,
         NEW l \in Lanes, StreakCarried(l), StepTypes(l), AuditStep(l), FlightFrame
  PROVE  DocsWritten'
  <1>1. last' = last /\ round' = round /\ fin' = fin
    BY DEF FlightFrame, schedule
  <1>2. ASSUME NEW m \in Lanes, flight'[m].pc = "finish", flight'[m].applied
        PROVE  flight'[m].doc.v > 0
    <2>1. CASE m # l
      BY <1>2, <2>1 DEF StepTypes, DocsWritten
    <2>2. CASE m = l
      <3>1. flight'[l].doc.v = flight[l].doc.v + 1
        BY <1>2, <2>2, StepEnds, AppliedFlightFields
      <3>2. flight[l].doc.v \in Nat
        BY OwnedRow DEF Payload
      <3> QED
        BY <2>2, <3>1, <3>2
    <2> QED
      BY <2>1, <2>2
  <1> QED
    BY <1>1, <1>2 DEF DocsWritten

\* The step of an audit preserves the whole invariant.
LEMMA AuditKeepsIInv ==
  ASSUME AuditIInv, NEW l \in Lanes, AuditStep(l)
  PROVE  AuditIInv'
  <1> USE DEF AuditIInv
  <1>1. AuditTypeOK' /\ StepTypes(l) /\ FlightFrame
    BY AuditTypes, AuditStepTypes
  <1>2. StreakCarried(l)
    BY DEF StreaksCarried
  <1>3. RunsEffect(l) /\ Shape(l)
    BY <1>2, StepRunsEffect, StepShape
  <1>4. JobsClassed'
    BY JobsStayClassed DEF AuditNext
  <1>5. RowsOwned' /\ StatusKnown'
    BY <1>1, <1>3, AuditKeepsRows, StatusesKept
  <1>6. CallsCounted' /\ CallsWithinLimits'
    BY <1>1, <1>2, <1>3, AuditKeepsCalls
  <1>7. AuditsHaveRows' /\ FinalizerAlone' /\ StreaksCarried'
    BY <1>1, <1>2, <1>3, AuditKeepsAuditsRows, AuditKeepsFinalizerAlone, AuditKeepsStreaks
  <1>8. VersionsKnown' /\ DocsWritten' /\ ReviewSeesRow' /\ ProjectionSeesRow'
    BY <1>1, <1>2, <1>3, AuditKeepsVersions, AuditKeepsDocs, AuditKeepsReview
  <1> QED
    BY <1>1, <1>4, <1>5, <1>6, <1>7, <1>8

-----------------------------------------------------------------------------
(* The other steps. *)

\* What the history and the audits in flight satisfy, where neither changes.
HistoryOK == /\ RowsOwned /\ CallsCounted /\ CallsWithinLimits /\ StatusKnown /\ AuditsHaveRows
             /\ StreaksCarried

LEMMA HistoryFrame ==
  ASSUME HistoryOK, UNCHANGED <<runs, flight, audited>>
  PROVE  HistoryOK'
  <1>1. RowsOwned' /\ StatusKnown' /\ CallsWithinLimits'
    BY DEF HistoryOK, RowsOwned, OwnsRow, StatusKnown, CallsWithinLimits, ProviderCalls
  <1>2. CallsCounted'
    BY DEF HistoryOK, CallsCounted, CallIsCounted, At, Suppressed, ProviderCalls
  <1>3. AuditsHaveRows'
    BY DEF HistoryOK, AuditsHaveRows, HasRow, Settled, At
  <1>4. StreaksCarried'
    BY DEF HistoryOK, StreaksCarried, StreakCountsRuns, StreakCarried, CarriedStreak, Carried
  <1> QED
    BY <1>1, <1>2, <1>3, <1>4 DEF HistoryOK

LEMMA IInvParts ==
  /\ AuditIInv <=> /\ AuditTypeOK /\ JobsClassed /\ HistoryOK /\ FinalizerAlone /\ VersionsKnown
                   /\ DocsWritten /\ ReviewSeesRow /\ ProjectionSeesRow
  /\ AuditIInv' <=> /\ AuditTypeOK' /\ JobsClassed' /\ HistoryOK' /\ FinalizerAlone' /\ VersionsKnown'
                    /\ DocsWritten' /\ ReviewSeesRow' /\ ProjectionSeesRow'
  BY DEF AuditIInv, HistoryOK

LEMMA NoPayloadKnown ==
  /\ live \in Payload /\ live.v > 0 => Known(NoPayload)
  /\ live' \in Payload /\ live'.v > 0 => Known(NoPayload)'
  BY DEF Known, NoPayload, Payload

LEMMA InitIInv == AuditInit => AuditIInv
  <1> SUFFICES ASSUME AuditInit PROVE AuditIInv
    OBVIOUS
  <1>1. AuditTypeOK
    BY InitTypes
  <1>2. /\ runs = <<>> /\ Len(runs) = 0 /\ DOMAIN runs = {} /\ audited = 0
        /\ \A l \in Lanes : flight[l] = NoFlight
        /\ NoFlight.pc = "idle" /\ NoFlight.doc = NoPayload
    BY DEF AuditInit, NoFlight
  <1>3. RowsOwned /\ StatusKnown /\ AuditsHaveRows
    BY <1>2 DEF RowsOwned, OwnsRow, Working, StatusKnown, AuditsHaveRows, At, Lanes
  <1>4. CallsCounted
    BY <1>2 DEF CallsCounted, CallIsCounted, At, Lanes
  <1>5. CallsWithinLimits
    <2>1. \A class, hour : CallSet(class, hour) = {}
      BY <1>2 DEF CallSet
    <2>2. \A class, hour : ProviderCalls(class, hour) = 0
      BY <1>1, <2>1, CallSetCounted, FS_EmptySet
    <2>3. SessionCalls = 0 /\ HourCalls = 0 /\ HighCalls = 0
      BY <2>2 DEF SessionCalls, HourCalls, HighCalls
    <2> QED
      BY <2>3, LimitsNamed, AuditAssumption
  <1>6. StreaksCarried
    <2>1. StreakCountsRuns
      BY <1>2 DEF StreakCountsRuns
    <2> QED
      BY <1>2, <2>1 DEF StreaksCarried, StreakCarried, Working
  <1>7. JobsClassed /\ FinalizerAlone
    BY <1>2 DEF AuditInit, JobsClassed, FinalizerAlone, IdleFinalizer, IdleRound, Lanes
  <1>8. VersionsKnown /\ DocsWritten
    BY <1>2 DEF AuditInit, VersionsKnown, Known, DocsWritten, IdleFinalizer, IdleRound, NoJob,
                NoPayload, Lanes
  <1>9. ReviewSeesRow /\ ProjectionSeesRow
    BY DEF AuditInit, ReviewSeesRow, ProjectionSeesRow, IdleFinalizer
  <1> QED
    BY <1>1, <1>3, <1>4, <1>5, <1>6, <1>7, <1>8, <1>9 DEF AuditIInv

LEMMA StutterKeepsIInv ==
  ASSUME AuditIInv, UNCHANGED avars
  PROVE  AuditIInv'
  <1>1. AuditTypeOK'
    BY SameTypes DEF AuditIInv
  <1>2. JobsClassed' /\ FinalizerAlone' /\ VersionsKnown' /\ DocsWritten'
    BY DEF AuditIInv, avars, JobsClassed, FinalizerAlone, Silent, VersionsKnown, Known, DocsWritten
  <1>3. ReviewSeesRow' /\ ProjectionSeesRow'
    BY DEF AuditIInv, avars, ReviewSeesRow, ProjectionSeesRow
  <1>4. HistoryOK'
    BY HistoryFrame, IInvParts DEF avars
  <1> QED
    BY <1>1, <1>2, <1>3, <1>4, IInvParts

LEMMA TickKeepsIInv ==
  ASSUME AuditIInv, Tick \/ TranscriptArrives \/ \E c \in Classes \cup {"backoff"} : CoolsDown(c)
  PROVE  AuditIInv'
  <1>0. /\ UNCHANGED <<live, runs, ended, last, audited, closed, flight, round, fin>>
        /\ job' = job \/ \E class : job' = [job EXCEPT !["tick"] = [class |-> class, doc |-> last]]
    BY DEF Tick, TranscriptArrives, CoolsDown, durable, schedule
  <1>1. AuditTypeOK' /\ JobsClassed'
    BY TickTypes, EnvironmentTypes, JobsStayClassed DEF AuditIInv, AuditNext
  <1>2. HistoryOK'
    BY <1>0, HistoryFrame, IInvParts
  <1>3. FinalizerAlone' /\ DocsWritten' /\ ReviewSeesRow' /\ ProjectionSeesRow'
    BY <1>0 DEF AuditIInv, FinalizerAlone, Silent, DocsWritten, ReviewSeesRow, ProjectionSeesRow
  <1>4. VersionsKnown'
    <2>1. \A s \in Sources : job'[s].doc = job[s].doc \/ job'[s].doc = last
      BY <1>0 DEF AuditIInv, AuditTypeOK
    <2> QED
      BY <1>0, <2>1 DEF AuditIInv, VersionsKnown, Known
  <1> QED
    BY <1>1, <1>2, <1>3, <1>4, IInvParts

LEMMA ScheduleKeepsIInv ==
  ASSUME AuditIInv, NEW s \in Sources, ScheduleTreeAudit(s)
  PROVE  AuditIInv'
  <1> DEFINE f == [NoFlight EXCEPT !.pc = "load", !.class = job[s].class, !.doc = job[s].doc,
                                   !.dead = (s = "finish")]
  <1>0. /\ UNCHANGED <<live, runs, ended, last, audited, closed, round, fin>>
        /\ job' = [job EXCEPT ![s] = NoJob]
    BY DEF ScheduleTreeAudit, durable
  <1>1. AuditTypeOK' /\ JobsClassed'
    BY ScheduleTypes, JobsStayClassed DEF AuditIInv, AuditNext
  <1>2. /\ flight \in [Lanes -> Flight] /\ "live" \in Lanes /\ live \in Payload
        /\ \A t \in Sources : job'[t].doc = job[t].doc \/ job'[t].doc = NoPayload
    BY <1>0 DEF AuditIInv, AuditTypeOK, Lanes, NoJob
  <1>3. CASE flight' = flight
    <2>1. HistoryOK'
      BY <1>0, <1>3, HistoryFrame, IInvParts
    <2>2. FinalizerAlone' /\ DocsWritten' /\ ReviewSeesRow' /\ ProjectionSeesRow'
      BY <1>0, <1>3 DEF AuditIInv, FinalizerAlone, Silent, DocsWritten, ReviewSeesRow,
                        ProjectionSeesRow
    <2>3. VersionsKnown'
      BY <1>0, <1>2, <1>3, NoPayloadKnown DEF AuditIInv, VersionsKnown, Known
    <2> QED
      BY <1>1, <2>1, <2>2, <2>3, IInvParts
  <1>4. CASE ~closed /\ Goes("live", f)
    <2>1. f.pc = "load" /\ f.doc = job[s].doc /\ ~f.applied
      BY DEF NoFlight
    <2> HIDE DEF f
    <2>2. flight'["live"] = f /\ \A m \in Lanes \ {"live"} : flight'[m] = flight[m]
      BY <1>2, <1>4 DEF Goes
    <2>3. fin.pc = "idle"
      BY <1>4 DEF AuditIInv, FinalizerAlone, AuditTypeOK
    <2>4. HistoryOK'
      <3>1. RowsOwned' /\ StatusKnown'
        BY <1>0, <2>1, <2>2 DEF AuditIInv, RowsOwned, OwnsRow, Working, StatusKnown
      <3>2. CallsCounted' /\ CallsWithinLimits'
        BY <1>0, <2>1, <2>2 DEF AuditIInv, CallsCounted, CallIsCounted, At, CallsWithinLimits,
                                ProviderCalls
      <3>3. AuditsHaveRows'
        BY <1>0, <2>1, <2>2 DEF AuditIInv, AuditsHaveRows, HasRow, Settled, At, Working
      <3>4. StreaksCarried'
        BY <1>0, <2>1, <2>2 DEF AuditIInv, StreaksCarried, StreakCountsRuns, StreakCarried, Working,
                                CarriedStreak, Carried
      <3> QED
        BY <3>1, <3>2, <3>3, <3>4 DEF HistoryOK
    <2>5. FinalizerAlone' /\ DocsWritten' /\ ReviewSeesRow' /\ ProjectionSeesRow'
      BY <1>0, <2>1, <2>2, <2>3 DEF AuditIInv, FinalizerAlone, DocsWritten, ReviewSeesRow,
                                    ProjectionSeesRow, Lanes
    <2>6. VersionsKnown'
      BY <1>0, <1>2, <2>1, <2>2, NoPayloadKnown DEF AuditIInv, VersionsKnown, Known
    <2> QED
      BY <1>1, <2>4, <2>5, <2>6, IInvParts
  <1> QED
    BY <1>3, <1>4 DEF ScheduleTreeAudit, Postpones

LEMMA HourKeepsIInv ==
  ASSUME AuditIInv, HourPasses
  PROVE  AuditIInv'
  <1>1. AuditTypeOK' /\ JobsClassed'
    BY EnvironmentTypes, JobsStayClassed DEF AuditIInv, AuditNext
  <1>2. UNCHANGED <<live, heard, ended, last, audited, pending, closed, cool, job, flight, round, fin>>
    BY DEF HourPasses, schedule
  <1>3. /\ runs' = [i \in 1..Len(runs) |-> [runs[i] EXCEPT !.recent = FALSE]]
        /\ Len(runs') = Len(runs) /\ Len(runs) \in Nat /\ (runs' = <<>> <=> runs = <<>>)
        /\ \A i \in 1..Len(runs) : runs[i] \in Row
    BY DEF HourPasses, AuditIInv, AuditTypeOK
  <1>4. \A i \in 1..Len(runs) :
           /\ SameRow(runs'[i], runs[i]) /\ runs'[i].called = runs[i].called
           /\ runs'[i].status = runs[i].status /\ runs'[i].verdict = runs[i].verdict
           /\ runs'[i].streak = runs[i].streak /\ runs'[i].res = runs[i].res /\ ~runs'[i].recent
    BY <1>3 DEF Row, SameRow
  <1>5. \A l \in Lanes : flight[l].pc \in Working => flight[l].id \in 1..Len(runs)
    BY OwnedRow DEF AuditIInv
  <1>6. RowsOwned' /\ StatusKnown'
    BY <1>2, <1>3, <1>4, <1>5 DEF AuditIInv, RowsOwned, OwnsRow, SameRow, StatusKnown
  <1>7. CallsCounted' /\ CallsWithinLimits'
    <2>1. NoNewCall
      BY <1>3, <1>4 DEF NoNewCall, CallSet, SameRow
    <2>2. CallsWithinLimits' /\ \A class : ~Suppressed(class) => ~Suppressed(class)'
      BY <1>1, <2>1, NoNewCallKeepsLimits DEF AuditIInv
    <2>3. \A l \in Lanes : CallIsCounted(l)'
      BY <1>2, <1>4, <1>5 DEF AuditIInv, CallsCounted, CallIsCounted, Working
    <2>4. ASSUME At("live", "mark")'
          PROVE  (~Suppressed(flight["live"].row.class))'
      BY <1>2, <2>2, <2>4 DEF AuditIInv, CallsCounted, At
    <2> QED
      BY <2>2, <2>3, <2>4 DEF CallsCounted
  <1>8. AuditsHaveRows'
    <2>1. \A tv : \A i \in 1..Len(runs) : Settled(i, tv) => Settled(i, tv)'
      BY <1>2, <1>4 DEF Settled, SameRow
    <2>2. \A tv : HasRow(tv) => HasRow(tv)'
      BY <1>3, <2>1 DEF HasRow
    <2> QED
      BY <1>2, <2>2 DEF AuditIInv, AuditsHaveRows, At
  <1>9. StreaksCarried'
    <2>1. StreakCountsRuns'
      <3>1. \A i \in 2..Len(runs) : i \in 1..Len(runs) /\ i - 1 \in 1..Len(runs)
        BY <1>3
      <3>2. StreakCountsRuns
        BY DEF AuditIInv, StreaksCarried
      <3> QED
        BY <1>3, <1>4, <3>1, <3>2, StreakCount
    <2>2. ASSUME NEW l \in Lanes
          PROVE  StreakCarried(l)'
      <3>1. CarriedStreak' = CarriedStreak
        <4>1. runs # <<>> => Len(runs) \in 1..Len(runs)
          BY LastRow DEF AuditIInv
        <4> QED
          BY <1>3, <1>4, <4>1 DEF CarriedStreak
      <3>2. flight[l].pc \in Working => Carried(l)' = Carried(l)
        <4>1. \A n \in Nat : \A j \in 1..n : j # 1 => j - 1 \in 1..n
          OBVIOUS
        <4> QED
          BY <1>2, <1>3, <1>4, <1>5, <4>1 DEF Carried
      <3> QED
        BY <1>2, <1>3, <3>1, <3>2 DEF AuditIInv, StreaksCarried, StreakCarried, Working
    <2> QED
      BY <2>1, <2>2 DEF StreaksCarried
  <1>10. FinalizerAlone' /\ VersionsKnown' /\ DocsWritten'
    BY <1>2 DEF AuditIInv, FinalizerAlone, Silent, VersionsKnown, Known, DocsWritten
  <1>11. ReviewSeesRow' /\ ProjectionSeesRow'
    BY <1>2 DEF AuditIInv, ReviewSeesRow, ProjectionSeesRow
  <1> QED
    BY <1>1, <1>6, <1>7, <1>8, <1>9, <1>10, <1>11 DEF AuditIInv

LEMMA RoundKeepsIInv ==
  ASSUME AuditIInv, RoundStep
  PROVE  AuditIInv'
  <1>0. /\ UNCHANGED <<runs, ended, audited, closed, flight, fin>>
    BY DEF RoundStep, RoundStarts, RoundPersists, DiscardsStale, RoundCompletes, durable
  <1>1. AuditTypeOK' /\ JobsClassed'
    BY RoundTypes, JobsStayClassed DEF AuditIInv, AuditNext
  <1>2. HistoryOK'
    BY <1>0, HistoryFrame, IInvParts
  <1>3. fin.pc \notin {"review", "project", "done"}
    BY DEF AuditIInv, FinalizerAlone, RoundStep, RoundStarts, RoundPersists, DiscardsStale, RoundCompletes, AuditTypeOK
  <1>4. FinalizerAlone' /\ ReviewSeesRow' /\ ProjectionSeesRow'
    BY <1>0, <1>3 DEF AuditIInv, FinalizerAlone, Silent, ReviewSeesRow, ProjectionSeesRow
  <1>5. /\ live \in Payload /\ last \in Payload /\ round.doc \in Payload /\ fin.doc \in Payload
        /\ \A s \in Sources : job[s].doc \in Payload
        /\ \A m \in Lanes : flight[m].doc \in Payload
    BY DEF AuditIInv, AuditTypeOK, Job, Flight
  <1>k. /\ live.v > 0 /\ live.tv <= live.v /\ Known(last) /\ Known(round.doc) /\ Known(fin.doc)
        /\ \A s \in Sources : Known(job[s].doc)
        /\ \A m \in Lanes : Known(flight[m].doc)
    BY <1>3 DEF AuditIInv, VersionsKnown
  <1>6. CASE RoundStarts
    <2>1. live' = live /\ job' = job /\ (last' = live \/ last' = last) /\ last' # NoPayload
          /\ round'.doc = last'
      <3>1. live # NoPayload
        BY <1>5, <1>k DEF NoPayload, Payload
      <3> QED
        BY <1>6, <3>1 DEF RoundStarts, durable
    <2>2. VersionsKnown'
      BY <1>0, <1>5, <1>k, <2>1 DEF VersionsKnown, Known, Payload
    <2>3. DocsWritten'
      BY <1>0, <1>k, <2>1 DEF AuditIInv, DocsWritten
    <2> QED
      BY <1>1, <1>2, <1>4, <2>2, <2>3, IInvParts
  <1>7. CASE RoundPersists
    <2>1. CASE last' = live /\ round' = IdleRound /\ UNCHANGED live
      <3>1. VersionsKnown'
        <4>1. job' = job
          BY <1>7 DEF RoundPersists, DiscardsStale
        <4>2. Known(NoPayload)' /\ round'.doc = NoPayload
          BY <1>5, <1>k, <2>1, NoPayloadKnown DEF IdleRound
        <4>3. Known(round.doc)' /\ Known(last)'
          BY <1>5, <2>1, <4>2 DEF Known, Payload
        <4> QED
          BY <1>0, <1>k, <2>1, <4>1, <4>3 DEF VersionsKnown, Known
      <3>2. DocsWritten'
        BY <1>0, <1>k, <2>1 DEF AuditIInv, DocsWritten, IdleRound
      <3> QED
        BY <1>1, <1>2, <1>4, <3>1, <3>2, IInvParts
    <2>2. ASSUME NEW changed \in 0..1, live' = [v |-> live.v + 1, tv |-> live.tv + changed],
                 round' = [pc |-> "persisted", doc |-> live'], last' = last
          PROVE  AuditIInv'
      <3>1. \A d \in Payload : Known(d) => Known(d)'
        BY <1>5, <2>2 DEF Known, Payload
      <3>2. Known(live)' /\ live'.v > 0 /\ live'.tv <= live'.v
        BY <1>5, <1>k, <2>2 DEF Known, Payload
      <3>3. job' = job
        BY <1>7 DEF RoundPersists, DiscardsStale
      <3>4. VersionsKnown'
        <4>1. Known(round.doc)'
          BY <2>2, <3>2 DEF Known
        <4>2. Known(last)' /\ Known(fin.doc)'
          BY <1>0, <1>5, <1>k, <2>2, <3>1 DEF Known
        <4>3. (\A s \in Sources : Known(job[s].doc))' /\ (\A m \in Lanes : Known(flight[m].doc))'
          BY <1>0, <1>5, <1>k, <3>1, <3>3 DEF Known
        <4> QED
          BY <3>2, <4>1, <4>2, <4>3 DEF VersionsKnown
      <3>5. DocsWritten'
        BY <1>0, <2>2, <3>2 DEF AuditIInv, DocsWritten
      <3> QED
        BY <1>1, <1>2, <1>4, <3>4, <3>5, IInvParts
    <2> QED
      BY <1>7, <2>1, <2>2 DEF RoundPersists, DiscardsStale
  <1>8. CASE RoundCompletes
    <2>1. live' = live /\ last' = round.doc /\ round' = IdleRound /\ round.pc = "persisted"
      BY <1>8 DEF RoundCompletes, durable
    <2>2. \A s \in Sources : job'[s].doc \in {job[s].doc, round.doc, NoPayload}
      <3>1. \E class : job' = [job EXCEPT !["round"] = IF class = "none" THEN NoJob
                                                       ELSE [class |-> class, doc |-> round.doc]]
        BY <1>8 DEF RoundCompletes
      <3> QED
        BY <3>1 DEF AuditIInv, AuditTypeOK, NoJob
    <2>3. VersionsKnown'
      BY <1>0, <1>5, <1>k, <2>1, <2>2, NoPayloadKnown DEF VersionsKnown, Known, IdleRound
    <2>4. DocsWritten'
      BY <1>0, <2>1 DEF AuditIInv, DocsWritten, IdleRound
    <2> QED
      BY <1>1, <1>2, <1>4, <2>3, <2>4, IInvParts
  <1> QED
    BY <1>6, <1>7, <1>8 DEF RoundStep

LEMMA FinishKeepsIInv ==
  ASSUME AuditIInv, FinishTreeAuditFlight
  PROVE  AuditIInv'
  <1> DEFINE f == flight["live"]
  <1>0. /\ UNCHANGED <<live, runs, ended, closed, round, fin>> /\ f.pc = "finish"
        /\ last' = f.doc \/ last' = last
        /\ last' = last \/ f.applied
        /\ audited' = audited \/ (f.result # "failed" /\ audited' = f.doc.tv)
        /\ f \in Flight /\ flight'["live"] = NoFlight
        /\ \A m \in Lanes \ {"live"} : flight'[m] = flight[m]
    BY DEF FinishTreeAuditFlight, durable, At, Goes, AuditIInv, AuditTypeOK, Lanes
  <1>1. AuditTypeOK' /\ JobsClassed'
    BY FinishTypes, JobsStayClassed DEF AuditIInv, AuditNext
  <1>2. NoFlight.pc = "idle" /\ NoFlight.doc = NoPayload
    BY DEF NoFlight
  <1>3. HistoryOK'
    <2>1. RowsOwned' /\ StatusKnown'
      BY <1>0, <1>2 DEF AuditIInv, RowsOwned, OwnsRow, Working, StatusKnown
    <2>2. CallsCounted' /\ CallsWithinLimits'
      BY <1>0, <1>2 DEF AuditIInv, CallsCounted, CallIsCounted, At, CallsWithinLimits, ProviderCalls
    <2>3. AuditsHaveRows'
      <3>1. \A tv : HasRow(tv) => HasRow(tv)'
        BY <1>0, <1>2 DEF HasRow, Settled, Working
      <3>2. audited' > 0 => HasRow(audited')
        BY <1>0 DEF AuditIInv, AuditsHaveRows, At
      <3> QED
        BY <1>0, <1>2, <3>1, <3>2 DEF AuditsHaveRows, At
    <2>4. StreaksCarried'
      BY <1>0, <1>2 DEF AuditIInv, StreaksCarried, StreakCountsRuns, StreakCarried, Working,
                        CarriedStreak, Carried
    <2> QED
      BY <2>1, <2>2, <2>3, <2>4 DEF HistoryOK
  <1>4. FinalizerAlone'
    BY <1>0, <1>2 DEF AuditIInv, FinalizerAlone, Silent, Lanes
  <1>5. ReviewSeesRow' /\ ProjectionSeesRow'
    BY <1>0 DEF AuditIInv, ReviewSeesRow, ProjectionSeesRow, Lanes
  <1>6. DocsWritten'
    <2>1. last' = NoPayload \/ last'.v > 0
      BY <1>0 DEF AuditIInv, DocsWritten, Lanes
    <2> QED
      BY <1>0, <1>2, <2>1 DEF AuditIInv, DocsWritten
  <1>7. VersionsKnown'
    <2>0. live \in Payload /\ live.v > 0 /\ live.tv <= live.v
      BY DEF AuditIInv, AuditTypeOK, VersionsKnown
    <2>1. ASSUME fin.pc # "done"
          PROVE  /\ Known(last)' /\ Known(round.doc)' /\ Known(fin.doc)'
                 /\ \A s \in Sources : Known(job[s].doc)'
                 /\ \A m \in Lanes : Known(flight[m].doc)'
      <3>1. Known(last) /\ Known(f.doc) /\ Known(NoPayload) /\ Known(round.doc) /\ Known(fin.doc)
        BY <2>0, <2>1, NoPayloadKnown DEF AuditIInv, VersionsKnown, Lanes
      <3>2. Known(last)' /\ Known(round.doc)' /\ Known(fin.doc)'
        BY <1>0, <3>1 DEF Known
      <3>3. \A s \in Sources : job'[s].doc \in {job[s].doc, last', NoPayload}
        <4> DEFINE wanted == f.result = "failed" \/ last'.tv > f.doc.tv
                   reason == IF wanted /\ ~closed THEN Coalesced(pending, "normal") ELSE pending
                   due == reason # "none" /\ ~closed /\ cool' \cap {"backoff", reason} = {}
        <4>1. job' = [job EXCEPT !["finish"] = IF due THEN [class |-> reason, doc |-> last']
                                               ELSE NoJob]
          BY DEF FinishTreeAuditFlight
        <4>2. job \in [Sources -> Job]
          BY DEF AuditIInv, AuditTypeOK
        <4> HIDE DEF reason, due
        <4>3. CASE due
          <5>1. job' = [job EXCEPT !["finish"] = [class |-> reason, doc |-> last']]
            BY <4>1, <4>3
          <5> QED
            BY <4>2, <5>1
        <4>4. CASE ~due
          <5>1. job' = [job EXCEPT !["finish"] = NoJob] /\ NoJob.doc = NoPayload
            BY <4>1, <4>4 DEF NoJob
          <5> QED
            BY <4>2, <5>1
        <4> QED
          BY <4>3, <4>4
      <3>4. \A s \in Sources : Known(job[s].doc)'
        BY <1>0, <2>1, <3>1, <3>2, <3>3 DEF AuditIInv, VersionsKnown, Known
      <3>5. \A m \in Lanes : Known(flight[m].doc)'
        BY <1>0, <1>2, <2>1, <3>1 DEF AuditIInv, VersionsKnown, Known
      <3> QED
        BY <3>2, <3>4, <3>5
    <2> QED
      BY <1>0, <2>0, <2>1 DEF VersionsKnown
  <1> QED
    BY <1>1, <1>3, <1>4, <1>5, <1>6, <1>7, IInvParts

\* The finalizer leaves the history alone; what it does to a flight makes it
\* idle, or an audit that begins, or one that is not heard any more.
LEMMA FinHistory ==
  ASSUME AuditIInv, UNCHANGED <<runs, audited>>, NEW m \in Lanes,
         \A l \in Lanes \ {m} : flight'[l] = flight[l],
         \/ flight'[m].pc \in {"idle", "load"}
         \/ /\ flight'[m].pc = flight[m].pc /\ flight'[m].row = flight[m].row
            /\ flight'[m].id = flight[m].id /\ flight'[m].doc = flight[m].doc
            /\ flight'[m].result = flight[m].result /\ flight'[m].repair = flight[m].repair
            /\ flight[m].dead => flight'[m].dead
  PROVE  HistoryOK'
  <1>1. RowsOwned' /\ StatusKnown'
    BY DEF AuditIInv, RowsOwned, OwnsRow, Working, StatusKnown
  <1>2. CallsWithinLimits'
    BY DEF AuditIInv, CallsWithinLimits, ProviderCalls
  <1>3. CallsCounted'
    BY DEF AuditIInv, CallsCounted, CallIsCounted, At, Suppressed, ProviderCalls, Lanes
  <1>4. AuditsHaveRows'
    BY DEF AuditIInv, AuditsHaveRows, HasRow, Settled, At, Working, Lanes
  <1>5. StreaksCarried'
    BY DEF AuditIInv, StreaksCarried, StreakCountsRuns, StreakCarried, Working, CarriedStreak, Carried
  <1> QED
    BY <1>1, <1>2, <1>3, <1>4, <1>5 DEF HistoryOK

LEMMA FinKeepsIInv ==
  ASSUME AuditIInv, FinStep
  PROVE  AuditIInv'
  <1>0. UNCHANGED <<heard, runs, audited, cool, job, round>>
    BY DEF FinStep, FinCloses, FinCancels, FinReads, FinIsReviewed, FinProjects, FinFrame
  <1>1. AuditTypeOK' /\ JobsClassed'
    BY FinTypes, JobsStayClassed DEF AuditIInv, AuditNext
  <1>2. /\ flight \in [Lanes -> Flight] /\ "live" \in Lanes /\ "review" \in Lanes
        /\ live \in Payload /\ live.v > 0 /\ live.tv <= live.v
        /\ fin \in [pc : FinPCs, doc : Payload, failed : BOOLEAN, blind : BOOLEAN]
    BY DEF AuditIInv, AuditTypeOK, Lanes, FinPCs, VersionsKnown
  <1>m. \A pc : FinMoves(pc) => fin' = [fin EXCEPT !.pc = pc] /\ fin'.pc = pc /\ fin'.doc = fin.doc
                                /\ fin'.failed = fin.failed /\ fin'.blind = fin.blind
    BY <1>2 DEF FinMoves
  <1>3. CASE FinCloses
    <2>1. UNCHANGED <<live, last, flight>> /\ fin.pc = "idle" /\ closed' /\ ended'
      BY <1>3 DEF FinCloses
    <2>2. fin'.pc = "cancel" /\ fin'.doc = fin.doc
      BY <1>3, <1>m DEF FinCloses
    <2>3. HistoryOK'
      BY <1>0, <2>1, HistoryFrame, IInvParts
    <2>4. FinalizerAlone' /\ DocsWritten' /\ ReviewSeesRow' /\ ProjectionSeesRow'
      BY <1>0, <2>1, <2>2 DEF AuditIInv, FinalizerAlone, DocsWritten, ReviewSeesRow, ProjectionSeesRow
    <2>5. VersionsKnown'
      BY <1>0, <2>1, <2>2 DEF AuditIInv, VersionsKnown, Known
    <2> QED
      BY <1>1, <2>3, <2>4, <2>5, IInvParts
  <1>4. CASE FinCancels
    <2>1. /\ UNCHANGED <<live, last, ended, closed, pending>> /\ fin.pc = "cancel"
          /\ flight' = [flight EXCEPT !["live"] =
                           [flight["live"] EXCEPT !.dead = flight["live"].dead \/ ~At("live", "idle")]]
      BY <1>4 DEF FinCancels
    <2>2. fin'.pc = "await" /\ fin'.doc = fin.doc
      BY <1>4, <1>m DEF FinCancels
    <2>3. /\ flight'["review"] = flight["review"] /\ \A m \in Lanes \ {"live"} : flight'[m] = flight[m]
          /\ flight'["live"].pc = flight["live"].pc /\ flight'["live"].row = flight["live"].row
          /\ flight'["live"].id = flight["live"].id /\ flight'["live"].doc = flight["live"].doc
          /\ flight'["live"].result = flight["live"].result
          /\ flight'["live"].repair = flight["live"].repair
          /\ flight'["live"].applied = flight["live"].applied
          /\ flight'["live"].dead = (flight["live"].dead \/ flight["live"].pc # "idle")
      BY <1>2, <2>1 DEF Flight, At
    <2>4. HistoryOK'
      BY <1>0, <1>2, <2>3, FinHistory
    <2>5. FinalizerAlone'
      BY <1>0, <2>1, <2>2, <2>3 DEF AuditIInv, FinalizerAlone, Silent
    <2>6. ReviewSeesRow' /\ ProjectionSeesRow' /\ DocsWritten'
      BY <1>0, <2>1, <2>2, <2>3 DEF AuditIInv, ReviewSeesRow, ProjectionSeesRow, DocsWritten, Lanes
    <2>7. VersionsKnown'
      BY <1>0, <2>1, <2>2, <2>3 DEF AuditIInv, VersionsKnown, Known, Lanes
    <2> QED
      BY <1>1, <2>4, <2>5, <2>6, <2>7, IInvParts
  <1>5. CASE FinReads
    <2> DEFINE f == [NoFlight EXCEPT !.pc = "load", !.doc = last']
    <2>1. /\ UNCHANGED <<live, ended, closed, pending>> /\ fin.pc = "await" /\ round.pc = "idle"
          /\ last' = live \/ (last' = last /\ last # NoPayload)
          /\ fin'.pc = "review" /\ fin'.doc = last' /\ fin'.blind = (faults' # faults)
      BY <1>2, <1>5 DEF FinReads
    <2>2. f.pc = "load" /\ f.doc = last' /\ ~f.applied
      BY DEF NoFlight
    <2> HIDE DEF f
    <2>3. flight'["review"] = f /\ \A m \in Lanes \ {"review"} : flight'[m] = flight[m]
      BY <1>2, <1>5 DEF FinReads, Goes, f
    <2>4. HistoryOK'
      BY <1>0, <1>2, <2>2, <2>3, FinHistory
    <2>5. FinalizerAlone'
      BY <1>0, <2>1, <2>3 DEF AuditIInv, FinalizerAlone, Silent, Lanes
    <2>6. ReviewSeesRow' /\ ProjectionSeesRow'
      <3>1. ~fin'.blind => last' = live
        <4>1. faults \in Nat
          BY AuditAssumption DEF AuditIInv, AuditTypeOK
        <4>2. Fault => faults' # faults
          BY <4>1 DEF Fault
        <4> QED
          BY <1>5, <2>1, <4>2 DEF FinReads
      <3> QED
        BY <2>1, <2>2, <2>3, <3>1 DEF ReviewSeesRow, ProjectionSeesRow
    <2>7. DocsWritten'
      BY <1>0, <1>2, <2>1, <2>2, <2>3 DEF AuditIInv, DocsWritten, Lanes
    <2>8. VersionsKnown'
      <3>1. Known(last)' /\ Known(fin.doc)' /\ Known(flight["review"].doc)'
        <4>1. Known(live) /\ Known(last)
          BY <1>2, <2>1 DEF AuditIInv, VersionsKnown, Known, Payload
        <4> QED
          BY <2>1, <2>2, <2>3, <4>1 DEF Known
      <3> QED
        BY <1>0, <2>1, <2>3, <3>1 DEF AuditIInv, VersionsKnown, Known, Lanes
    <2> QED
      BY <1>1, <2>4, <2>5, <2>6, <2>7, <2>8, IInvParts
  <1>6. CASE FinIsReviewed
    <2> DEFINE r == flight["review"]
    <2>1. /\ UNCHANGED <<live, last, ended, closed, pending>> /\ fin.pc = "review" /\ r.pc = "finish"
          /\ fin'.pc = "project" /\ fin'.failed = (r.result = "failed") /\ fin'.blind = fin.blind
          /\ fin'.doc = IF r.applied THEN r.doc ELSE fin.doc
      BY <1>2, <1>6 DEF FinIsReviewed, At
    <2>2. NoFlight.pc = "idle" /\ NoFlight.doc = NoPayload
      BY DEF NoFlight
    <2>3. flight'["review"] = NoFlight /\ \A m \in Lanes \ {"review"} : flight'[m] = flight[m]
      BY <1>2, <1>6 DEF FinIsReviewed, Goes
    <2>4. HistoryOK'
      BY <1>0, <1>2, <2>2, <2>3, FinHistory
    <2>5. FinalizerAlone'
      BY <1>0, <2>1, <2>2, <2>3 DEF AuditIInv, FinalizerAlone, Silent, Lanes
    <2>6. ReviewSeesRow' /\ ProjectionSeesRow'
      BY <2>1 DEF AuditIInv, ReviewSeesRow, ProjectionSeesRow
    <2>7. DocsWritten'
      BY <1>0, <1>2, <2>1, <2>2, <2>3 DEF AuditIInv, DocsWritten, Lanes
    <2>8. VersionsKnown'
      <3>1. Known(NoPayload)
        BY <1>2, NoPayloadKnown
      <3>2. Known(fin.doc)' /\ Known(flight["review"].doc)'
        BY <1>2, <2>1, <2>2, <2>3, <3>1 DEF AuditIInv, VersionsKnown, Known
      <3> QED
        BY <1>0, <2>1, <2>3, <3>2 DEF AuditIInv, VersionsKnown, Known, Lanes
    <2> QED
      BY <1>1, <2>4, <2>5, <2>6, <2>7, <2>8, IInvParts
  <1>7. CASE FinProjects
    <2>1. /\ UNCHANGED <<ended, closed, pending, flight>> /\ fin.pc = "project"
          /\ live' = [v |-> fin.doc.v, tv |-> fin.doc.v] /\ last' = live' /\ fin'.pc = "done"
      BY <1>7, <1>m DEF FinProjects
    <2>2. fin.doc.v > 0 /\ fin.doc.v \in Nat
      BY <1>2, <2>1 DEF AuditIInv, DocsWritten, Payload
    <2>3. HistoryOK'
      BY <1>0, <2>1, HistoryFrame, IInvParts
    <2>4. FinalizerAlone' /\ ReviewSeesRow' /\ ProjectionSeesRow'
      BY <1>0, <2>1 DEF AuditIInv, FinalizerAlone, Silent, ReviewSeesRow, ProjectionSeesRow
    <2>5. VersionsKnown' /\ DocsWritten'
      BY <1>0, <2>1, <2>2 DEF AuditIInv, VersionsKnown, DocsWritten
    <2> QED
      BY <1>1, <2>3, <2>4, <2>5, IInvParts
  <1> QED
    BY <1>3, <1>4, <1>5, <1>6, <1>7 DEF FinStep

LEMMA RestartKeepsIInv ==
  ASSUME AuditIInv, Restart
  PROVE  AuditIInv'
  <1>0. /\ UNCHANGED <<live, runs>> /\ last' = NoPayload /\ audited' = 0
        /\ job' = [s \in Sources |-> NoJob] /\ flight' = [l \in Lanes |-> NoFlight]
        /\ round' = IdleRound /\ fin' = IdleFinalizer
    BY DEF Restart, durable
  <1>1. AuditTypeOK' /\ JobsClassed'
    BY EnvironmentTypes, JobsStayClassed DEF AuditIInv, AuditNext
  <1>2. /\ \A l \in Lanes : /\ flight'[l].pc = "idle" /\ flight'[l].doc = NoPayload
                            /\ ~flight'[l].applied
        /\ "live" \in Lanes /\ "review" \in Lanes
    BY <1>0 DEF NoFlight, Lanes
  <1>3. HistoryOK'
    <2>1. RowsOwned' /\ StatusKnown'
      BY <1>2 DEF RowsOwned, OwnsRow, Working, StatusKnown
    <2>2. CallsCounted' /\ CallsWithinLimits'
      BY <1>0, <1>2 DEF AuditIInv, CallsCounted, CallIsCounted, At, CallsWithinLimits, ProviderCalls
    <2>3. AuditsHaveRows'
      BY <1>0, <1>2 DEF AuditsHaveRows, At
    <2>4. StreaksCarried'
      BY <1>0, <1>2 DEF AuditIInv, StreaksCarried, StreakCountsRuns, StreakCarried, Working
    <2> QED
      BY <2>1, <2>2, <2>3, <2>4 DEF HistoryOK
  <1>4. FinalizerAlone' /\ ReviewSeesRow' /\ ProjectionSeesRow'
    BY <1>0, <1>2 DEF FinalizerAlone, ReviewSeesRow, ProjectionSeesRow, IdleFinalizer
  <1>5. VersionsKnown' /\ DocsWritten'
    <2>1. live' \in Payload /\ live'.v > 0 /\ live'.tv <= live'.v
      BY <1>0 DEF AuditIInv, AuditTypeOK, VersionsKnown
    <2>2. Known(NoPayload)'
      BY <2>1, NoPayloadKnown
    <2>3. /\ round'.doc = NoPayload /\ fin'.doc = NoPayload /\ round'.pc = "idle"
          /\ fin'.pc = "idle" /\ \A s \in Sources : job'[s].doc = NoPayload
      BY <1>0 DEF IdleRound, IdleFinalizer, NoJob
    <2>4. VersionsKnown'
      BY <1>0, <1>2, <2>1, <2>2, <2>3 DEF VersionsKnown, Known
    <2>5. DocsWritten'
      BY <1>0, <1>2, <2>3 DEF DocsWritten
    <2> QED
      BY <2>4, <2>5
  <1> QED
    BY <1>1, <1>3, <1>4, <1>5, IInvParts

LEMMA NextKeepsIInv == AuditIInv /\ [AuditNext]_avars => AuditIInv'
  BY StutterKeepsIInv, TickKeepsIInv, HourKeepsIInv, ScheduleKeepsIInv, RoundKeepsIInv,
     AuditKeepsIInv, FinishKeepsIInv, FinKeepsIInv, RestartKeepsIInv DEF AuditNext

-----------------------------------------------------------------------------
(* The theorems. *)

\* The invariant holds whatever the audits, a round, the finalizer, faults and
\* restarts do between each other's statements (ai_tree_audit.go).
THEOREM AuditInvariant == AuditSpec => []AuditIInv
  BY InitIInv, NextKeepsIInv, PTL DEF AuditSpec

(***************************************************************************)
(* The state of the audits has its types: in particular an audit that      *)
(* scheduleTreeAudit starts has a class, because whoever captures a        *)
(* payload for it has chosen one.                                          *)
(***************************************************************************)
THEOREM AuditTypesHold == AuditSpec => []AuditTypeOK
  <1>1. AuditIInv => AuditTypeOK
    BY DEF AuditIInv
  <1> QED
    BY <1>1, AuditInvariant, PTL

(***************************************************************************)
(* Calls of the provider stay within the limits of the session and of the  *)
(* hour, for any limits, failing statements, lost answers and restarts:    *)
(* the limit is looked up before the mark, and between the two nobody else *)
(* adds a call, because there is one live audit at a time and reviews are  *)
(* counted apart.                                                          *)
(***************************************************************************)
THEOREM CallsStayWithinLimits == AuditSpec => []CallsWithinLimits
  <1>1. AuditIInv => CallsWithinLimits
    BY DEF AuditIInv
  <1> QED
    BY <1>1, AuditInvariant, PTL

(***************************************************************************)
(* A tree counts as audited only if the history has a row for it that did  *)
(* not fail; no later save of another audit turns that row into a failed   *)
(* one.                                                                    *)
(***************************************************************************)
THEOREM AuditedTreesHaveRows == AuditSpec => []AuditedHasRow
  <1>1. AuditIInv => AuditedHasRow
    BY DEF AuditIInv, AuditTypeOK, AuditsHaveRows, HasRow, Settled, AuditedHasRow
  <1> QED
    BY <1>1, AuditInvariant, PTL

(***************************************************************************)
(* Row by row, the streak is that of the row before, counted on or reset:  *)
(* at most one audit in flight is heard, and its row is the last one.      *)
(***************************************************************************)
THEOREM StreaksCountRuns == AuditSpec => []StreakCountsRuns
  <1>1. AuditIInv => StreakCountsRuns
    BY DEF AuditIInv, StreaksCarried
  <1> QED
    BY <1>1, AuditInvariant, PTL

LEMMA StepRewindsOnlyInDoubt ==
  ASSUME AuditIInv, [AuditNext]_avars
  PROVE  \/ live'.v >= live.v /\ live'.tv >= live.tv
         \/ fin.pc = "project" /\ (fin.failed \/ fin.blind)
  <1>0. live \in Payload /\ live.v \in Nat /\ live.tv \in Nat /\ live.tv <= live.v
    BY DEF AuditIInv, AuditTypeOK, VersionsKnown, Payload
  <1>1. CASE live' = live
    BY <1>0, <1>1
  <1>2. CASE RoundPersists
    BY <1>0, <1>2 DEF RoundPersists, DiscardsStale
  <1>3. ASSUME NEW l \in Lanes, AuditStep(l), live' # live
        PROVE  live'.v >= live.v /\ live'.tv >= live.tv
    <2>1. Lands(l)
      BY <1>3, StepLive DEF AuditIInv, StreaksCarried
    <2>2. live' = [v |-> live.v + 1, tv |-> live.tv + 1]
      BY <2>1, LandsInOrder, ApplyCommits DEF AuditIInv, VersionsKnown, Lands
    <2> QED
      BY <1>0, <2>2
  <1>4. CASE FinProjects
    BY <1>0, <1>4 DEF FinProjects, AuditIInv, ProjectionSeesRow
  <1>5. live' = live \/ RoundPersists \/ FinProjects \/ \E l \in Lanes : AuditStep(l)
    BY DEF AuditNext, Tick, HourPasses, TranscriptArrives, ScheduleTreeAudit, CoolsDown, RoundStep,
           RoundStarts, RoundCompletes, FinishTreeAuditFlight, FinStep, FinCloses, FinCancels,
           FinReads, FinIsReviewed, Restart, avars, durable
  <1> QED
    BY <1>1, <1>2, <1>3, <1>4, <1>5

(***************************************************************************)
(* The live row goes back only where the finalizer is in doubt: of two     *)
(* payloads of one version there is only one (VersionsKnown), and the      *)
(* projection overwrites the row it has read or its review has written     *)
(* (ProjectionSeesRow).                                                    *)
(***************************************************************************)
THEOREM TreesRewindOnlyInDoubt == AuditSpec => TreeRewindsOnlyInDoubt
  <1>1. AuditIInv /\ [AuditNext]_avars =>
           [\/ live'.v >= live.v /\ live'.tv >= live.tv
            \/ fin.pc = "project" /\ (fin.failed \/ fin.blind)]_avars
    BY StepRewindsOnlyInDoubt
  <1> QED
    BY <1>1, AuditInvariant, PTL DEF AuditSpec, TreeRewindsOnlyInDoubt
=============================================================================
