------------------------------- MODULE TreeAudit -------------------------------
(***************************************************************************)
(* The audits of the discussion tree of one session.                       *)
(*                                                                         *)
(* A round of the live analysis and the scheduler's tick each capture the  *)
(* payload in memory and ask for an audit of it; at most one live audit    *)
(* runs, further requests are folded into one pending flag.  An audit      *)
(* claims a row in the history, asks the provider for operations and       *)
(* applies them to the live row if its version is still the audited one.   *)
(* The finalizer closes the lane, cancels the audit in flight, reads the   *)
(* live row, reviews it by an audit of its own and writes the projection   *)
(* without comparing versions.                                             *)
(*                                                                         *)
(* A payload is its analysis version v and its tree version tv; the hash   *)
(* of a snapshot is the payload and the transcript the audit read with it. *)
(* What the validator decides about operations is chosen freely.           *)
(***************************************************************************)
EXTENDS Naturals, Sequences, FiniteSets

CONSTANTS
    MaxVersion,   \* bound: versions the rounds write
    MaxHeard,     \* bound: finals that arrive without a round
    MaxFaults,    \* bound: statements and calls that fail
    MaxCrashes,   \* bound: restarts of the process
    IntervalVersions, MaxRunsPerSession, MaxRunsPerHour, HighSeverityMaxRunsPerHour,
    UnappliedThreshold

ASSUME AuditAssumption ==
    /\ {MaxVersion, MaxHeard, MaxFaults, MaxCrashes} \subseteq Nat
    /\ {IntervalVersions, MaxRunsPerSession, MaxRunsPerHour, HighSeverityMaxRunsPerHour,
        UnappliedThreshold} \subseteq Nat \ {0}

VARIABLES
    \* durable
    live,     \* the live row
    heard,    \* transcript rows beyond those of the payload
    runs,     \* meeting_tree_audit_runs in the order of created_at
    ended,    \* the session entered ending
    \* memory
    last,     \* lastPayload and lastVersion
    audited,  \* lastAuditVersion
    pending,  \* class of auditPendingReason, "none" if auditPending is not set
    closed,   \* auditClosed
    cool,     \* intervals after an audit that are not over
    job,      \* calls of scheduleTreeAudit that captured a payload
    flight,   \* runTreeAudit: the single live one and the final review
    round,    \* the round of the live analysis
    fin,      \* the finalizer
    faults, crashes

durable == <<live, heard, runs, ended>>
schedule == <<last, audited, pending, closed, cool>>
avars == <<live, heard, runs, ended, last, audited, pending, closed, cool, job, flight,
           round, fin, faults, crashes>>

Payload == [v : Nat, tv : Nat]
NoPayload == [v |-> 0, tv |-> 0]

Classes == {"normal", "high"}
Lanes == {"live", "review"}
Sources == {"round", "tick", "finish"}

Verdicts == {"none", "clean", "unapplied", "applied"}

(***************************************************************************)
(* A row of the history.  recent holds within an hour of its creation,     *)
(* unapplied stands for findings_only and rejected.                        *)
(***************************************************************************)
Row == [task : Lanes, class : Classes, doc : Payload, heard : Nat, res : Nat,
        status : {"running", "completed", "skipped", "failed"}, called : BOOLEAN,
        verdict : Verdicts, streak : Nat, recent : BOOLEAN]

NoRow == [task |-> "live", class |-> "normal", doc |-> NoPayload, heard |-> 0, res |-> 0,
          status |-> "running", called |-> FALSE, verdict |-> "none", streak |-> 0,
          recent |-> TRUE]

FlightPCs == {"idle", "load", "claim", "limit", "mark", "call", "allow", "reread", "apply",
              "save", "finish"}

(***************************************************************************)
(* class, doc, result, called and applied are the treeAuditExecution; row  *)
(* is the run it has not saved yet, id its place in the history, repair    *)
(* holds on the path of the deterministic fallback.                        *)
(***************************************************************************)
Flight == [pc : FlightPCs, class : Classes, doc : Payload, dead : BOOLEAN, row : Row, id : Nat,
           repair : BOOLEAN, result : {"none", "ok", "stale", "failed"}, called : BOOLEAN,
           applied : BOOLEAN]

NoFlight == [pc |-> "idle", class |-> "normal", doc |-> NoPayload, dead |-> FALSE, row |-> NoRow,
             id |-> 0, repair |-> FALSE, result |-> "none", called |-> FALSE, applied |-> FALSE]

Job == [class : Classes \cup {"none"}, doc : Payload]
NoJob == [class |-> "none", doc |-> NoPayload]

AuditTypeOK ==
    /\ live \in Payload /\ heard \in Nat /\ runs \in Seq(Row) /\ ended \in BOOLEAN
    /\ last \in Payload /\ audited \in Nat
    /\ pending \in Classes \cup {"none"} /\ closed \in BOOLEAN
    /\ cool \subseteq Classes \cup {"backoff"}
    /\ job \in [Sources -> Job]
    /\ flight \in [Lanes -> Flight]
    /\ round \in [pc : {"idle", "analyzing", "persisted", "consider"}, doc : Payload]
    /\ fin \in [pc : {"idle", "cancel", "await", "review", "project", "done"}, doc : Payload,
               failed : BOOLEAN, blind : BOOLEAN]
    /\ faults \in 0..MaxFaults /\ crashes \in 0..MaxCrashes

IdleRound == [pc |-> "idle", doc |-> NoPayload]
\* failed is the FinalTreeReviewFailed it reports, blind holds if it could not read the row.
IdleFinalizer == [pc |-> "idle", doc |-> NoPayload, failed |-> FALSE, blind |-> FALSE]

\* The first round of the session has written its payload.
AuditInit ==
    /\ live = [v |-> 1, tv |-> 1] /\ heard = 0 /\ runs = <<>> /\ ended = FALSE
    /\ last = live /\ audited = 0 /\ pending = "none" /\ closed = FALSE /\ cool = {}
    /\ job = [s \in Sources |-> NoJob]
    /\ flight = [l \in Lanes |-> NoFlight]
    /\ round = IdleRound /\ fin = IdleFinalizer
    /\ faults = 0 /\ crashes = 0

-----------------------------------------------------------------------------
(* Helpers. *)

Fault == faults < MaxFaults /\ faults' = faults + 1 /\ UNCHANGED crashes

Healthy == UNCHANGED <<faults, crashes>>

At(l, pc) == flight[l].pc = pc

\* A statement of this audit takes effect; a cancelled context refuses it.
Works(l) == ~flight[l].dead /\ Healthy

\* A statement of this audit fails, or takes effect and its answer is lost.
Breaks(l, effect) ==
    \/ flight[l].dead /\ Healthy /\ UNCHANGED <<live, runs>>
    \/ ~flight[l].dead /\ Fault /\ (effect \/ UNCHANGED <<live, runs>>)

Goes(l, f) == flight' = [flight EXCEPT ![l] = f]

Step(l, pc) == Goes(l, [flight[l] EXCEPT !.pc = pc])

\* runTreeAudit returns what the caller looks at.
Ends(l, result) ==
    Goes(l, [NoFlight EXCEPT !.pc = "finish", !.class = flight[l].class, !.doc = flight[l].doc,
                             !.called = flight[l].called, !.result = result])

Saves(l, row, result) ==
    Goes(l, [flight[l] EXCEPT !.pc = "save", !.row = row, !.result = result])

\* coalesceTreeAuditReason, then treeAuditTriggerClass.
Coalesced(a, b) ==
    IF "high" \in {a, b} THEN "high" ELSE IF "normal" \in {a, b} THEN "normal" ELSE "none"

\* Mutant: only audits that end with a verdict carry the streak on.
ClassifiedFromZero(row, verdict) ==
    [row EXCEPT !.verdict = verdict, !.streak = IF verdict = "unapplied" THEN 1 ELSE 0]

\* classifyTreeAuditRun, on a row that carries the streak of its predecessor.
Classified(row, verdict) ==
    [row EXCEPT !.verdict = verdict,
                !.streak = CASE verdict = "unapplied" -> row.streak + 1
                             [] verdict \in {"clean", "applied"} -> 0
                             [] OTHER -> row.streak]

\* Mutant: the result is written for the status.
FailedByResult(row) == [row EXCEPT !.status = "timeout"]

\* failTreeAuditRun: what classification left in the run stays.
Failed(row) == [row EXCEPT !.status = "failed"]

\* ON CONFLICT (id) DO UPDATE; created_at stays.
Written(l, row) ==
    [runs EXCEPT ![flight[l].id] = [row EXCEPT !.recent = runs[flight[l].id].recent]]

SameSnapshot(row, l) ==
    row.task = l /\ row.doc = flight[l].doc /\ row.heard = heard

\* GetLatestMeetingTreeAuditRun and the terminal duplicate of runTreeAudit.
Duplicate(l) ==
    /\ runs # <<>>
    /\ runs[Len(runs)].status \in {"completed", "skipped"}
    /\ SameSnapshot(runs[Len(runs)], l)

CarriedStreak == IF runs = <<>> THEN 0 ELSE runs[Len(runs)].streak

\* CountMeetingTreeAuditProviderCalls, of the session or of the last hour.
ProviderCalls(class, hour) ==
    Cardinality({i \in DOMAIN runs : /\ runs[i].task = "live" /\ runs[i].class = class
                                     /\ runs[i].called /\ (hour => runs[i].recent)})

\* Mutant: calls that failed or were interrupted are free.
SuppressedByCompleted(class) ==
    LET calls == {i \in DOMAIN runs : /\ runs[i].task = "live" /\ runs[i].class = class
                                      /\ runs[i].called /\ runs[i].status = "completed"}
    IN  Cardinality(calls) >= IF class = "high" THEN HighSeverityMaxRunsPerHour
                              ELSE MaxRunsPerHour

\* treeAuditSuppressionReason
Suppressed(class) ==
    IF class = "high" THEN ProviderCalls("high", TRUE) >= HighSeverityMaxRunsPerHour
    ELSE \/ ProviderCalls("normal", FALSE) >= MaxRunsPerSession
         \/ ProviderCalls("normal", TRUE) >= MaxRunsPerHour

-----------------------------------------------------------------------------
(* scheduleTreeAudit and those who call it. *)

CanTick ==
    /\ round.pc = "idle" /\ ~closed /\ At("live", "idle")
    /\ last.v > audited
    /\ \/ last.v - audited >= IntervalVersions
       \/ "normal" \notin cool
       \/ pending # "none" /\ pending \notin cool

Tick ==
    /\ job["tick"] = NoJob /\ CanTick
    /\ job' = [job EXCEPT !["tick"] = [class |-> Coalesced(pending, "normal"), doc |-> last]]
    /\ Healthy /\ UNCHANGED <<durable, schedule, flight, round, fin>>

Postpones(class) == pending' = Coalesced(pending, class) /\ UNCHANGED flight

(***************************************************************************)
(* The context of the audit that just finished was cancelled, so an audit  *)
(* it schedules is born cancelled.                                         *)
(***************************************************************************)
ScheduleTreeAudit(s) ==
    /\ job[s] # NoJob
    /\ job' = [job EXCEPT ![s] = NoJob]
    /\ \/ closed /\ UNCHANGED <<pending, flight>>
       \/ ~closed /\ ~At("live", "idle") /\ Postpones(job[s].class)
       \/ /\ ~closed /\ At("live", "idle") /\ audited >= job[s].doc.tv
          /\ UNCHANGED <<pending, flight>>
       \/ /\ ~closed /\ At("live", "idle") /\ audited < job[s].doc.tv
          /\ cool \cap {"backoff", job[s].class} # {} /\ Postpones(job[s].class)
       \/ /\ ~closed /\ At("live", "idle") /\ audited < job[s].doc.tv
          /\ cool \cap {"backoff", job[s].class} = {}
          /\ pending' = "none"
          /\ Goes("live", [NoFlight EXCEPT !.pc = "load", !.class = job[s].class,
                                           !.doc = job[s].doc, !.dead = (s = "finish")])
    /\ Healthy /\ UNCHANGED <<durable, last, audited, closed, cool, round, fin>>

CoolsDown(c) ==
    /\ c \in cool /\ cool' = cool \ {c}
    /\ Healthy /\ UNCHANGED <<durable, last, audited, pending, closed, job, flight, round, fin>>

HourPasses ==
    /\ \E i \in DOMAIN runs : runs[i].recent
    /\ runs' = [i \in DOMAIN runs |-> [runs[i] EXCEPT !.recent = FALSE]]
    /\ Healthy /\ UNCHANGED <<live, heard, ended, schedule, job, flight, round, fin>>

TranscriptArrives ==
    /\ heard < MaxHeard /\ heard' = heard + 1
    /\ Healthy /\ UNCHANGED <<live, runs, ended, schedule, job, flight, round, fin>>

-----------------------------------------------------------------------------
(* The rounds of the live analysis. *)

RoundStarts ==
    /\ round.pc = "idle" /\ ~ended /\ live.v <= MaxVersion
    /\ last' = IF last = NoPayload THEN live ELSE last
    /\ round' = [pc |-> "analyzing", doc |-> last']
    /\ Healthy /\ UNCHANGED <<durable, audited, pending, closed, cool, job, flight, fin>>

\* handleStaleLiveAnalysisResult: the round reloads the row.
DiscardsStale ==
    /\ live.v # round.doc.v
    /\ last' = live /\ round' = IdleRound /\ UNCHANGED live

\* persistLiveAnalysis: the compare-and-set on the version the round started from.
RoundPersists ==
    /\ round.pc = "analyzing"
    /\ \/ /\ live.v = round.doc.v
          /\ \E changed \in 0..1 :
                live' = [v |-> live.v + 1, tv |-> live.tv + changed]
          /\ round' = [pc |-> "persisted", doc |-> live'] /\ UNCHANGED last
       \/ DiscardsStale
    /\ Healthy /\ UNCHANGED <<heard, runs, ended, audited, pending, closed, cool, job, flight, fin>>

\* considerTreeAudit: the payload chooses the reasons, the distance adds one.
RoundCompletes ==
    /\ round.pc = "persisted" /\ job["round"] = NoJob
    /\ last' = round.doc /\ round' = IdleRound
    /\ \E reasons \in Classes \cup {"none"} :
         LET due == round.doc.tv - audited >= IntervalVersions
             class == Coalesced(reasons, IF due THEN "normal" ELSE "none")
         IN  job' = [job EXCEPT !["round"] = IF class = "none" THEN NoJob
                                             ELSE [class |-> class, doc |-> round.doc]]
    /\ Healthy /\ UNCHANGED <<durable, audited, pending, closed, cool, flight, fin>>

-----------------------------------------------------------------------------
(* runTreeAudit. *)

FlightFrame == UNCHANGED <<heard, ended, schedule, job, round, fin>>

AuditLoads(l) ==
    /\ At(l, "load") /\ UNCHANGED <<live, runs>> /\ FlightFrame
    /\ \/ Works(l) /\ Duplicate(l) /\ Ends(l, "ok")
       \/ /\ Works(l) /\ ~Duplicate(l)
          /\ Goes(l, [flight[l] EXCEPT !.pc = "claim",
                                       !.row = [NoRow EXCEPT !.task = l, !.class = flight[l].class,
                                                             !.doc = flight[l].doc, !.heard = heard,
                                                             !.streak = CarriedStreak]])
       \/ Breaks(l, FALSE) /\ Ends(l, "failed")

\* TryStartMeetingTreeAuditRun: one running row per snapshot.
AuditClaims(l) ==
    LET row == flight[l].row
        taken == \E i \in DOMAIN runs :
                    /\ runs[i].status = "running" /\ runs[i].task = l
                    /\ runs[i].doc = row.doc /\ runs[i].heard = row.heard
        inserted == runs' = IF taken THEN runs ELSE Append(runs, row)
    IN  /\ At(l, "claim") /\ FlightFrame /\ UNCHANGED live
        /\ \/ Works(l) /\ taken /\ inserted /\ Ends(l, "ok")
           \/ /\ Works(l) /\ ~taken /\ inserted
              /\ Goes(l, [flight[l] EXCEPT !.pc = "limit", !.id = Len(runs) + 1])
           \/ Breaks(l, inserted) /\ Ends(l, "failed")

AuditIsLimited(l) ==
    LET row == flight[l].row
        skipped == [row EXCEPT !.status = "skipped"]
        suppressed == l = "live" /\ Suppressed(row.class)
    IN  /\ At(l, "limit") /\ UNCHANGED <<live, runs>> /\ FlightFrame
        /\ \/ Works(l) /\ suppressed /\ Saves(l, skipped, "ok")
           \/ /\ Works(l) /\ ~suppressed
              /\ \/ Saves(l, skipped, "ok")                               \* integrity_invalid
                 \/ l = "live" /\ Saves(l, Classified(skipped, "clean"), "ok") \* no_anomalies
                 \/ Goes(l, [flight[l] EXCEPT !.pc = "mark", !.row.called = TRUE])
           \/ Breaks(l, FALSE) /\ Saves(l, Failed(row), "failed")

AuditMarksCall(l) ==
    /\ At(l, "mark") /\ UNCHANGED live /\ FlightFrame
    /\ \/ /\ Works(l) /\ runs' = Written(l, flight[l].row)
          /\ Goes(l, [flight[l] EXCEPT !.pc = "call", !.called = TRUE])
       \/ Breaks(l, runs' = Written(l, flight[l].row)) /\ Ends(l, "failed")

\* A timeout, an error or an invalid schema.
ProviderFails(l) ==
    /\ At(l, "call") /\ UNCHANGED <<live, runs>> /\ FlightFrame
    /\ Breaks(l, FALSE) /\ Saves(l, Failed(flight[l].row), "failed")

\* A panic leaves the row as it is and forgets that the provider was called.
AuditPanics(l) ==
    /\ At(l, "call") /\ UNCHANGED <<live, runs>> /\ FlightFrame
    /\ Fault /\ Goes(l, [NoFlight EXCEPT !.pc = "finish", !.class = flight[l].class,
                                         !.doc = flight[l].doc, !.result = "failed"])

ProviderAnswers(l) ==
    LET row == [flight[l].row EXCEPT !.status = "completed"]
    IN  /\ At(l, "call") /\ Works(l) /\ UNCHANGED <<live, runs>> /\ FlightFrame
        /\ \/ Goes(l, [flight[l] EXCEPT !.pc = "allow", !.row = row])
           \/ \E verdict \in {"clean", "unapplied"} :
                \/ Saves(l, Classified(row, verdict), "ok")
                \/ /\ row.streak + 1 >= UnappliedThreshold
                   /\ Goes(l, [flight[l] EXCEPT !.pc = "reread", !.repair = TRUE,
                                                !.row = [row EXCEPT !.verdict = verdict]])

\* treeAuditApplyAllowed
MayApply(l) == ~flight[l].dead /\ (l = "review" \/ ~closed)

AuditMayApply(l) ==
    /\ At(l, "allow") /\ Healthy /\ UNCHANGED <<live, runs>> /\ FlightFrame
    /\ IF MayApply(l) THEN Step(l, "reread")
       ELSE Saves(l, Classified(flight[l].row, "unapplied"),
                  IF flight[l].dead THEN "failed" ELSE "ok")

AuditRereads(l) ==
    LET row == flight[l].row
        repair == flight[l].repair
        verdict == IF repair THEN row.verdict ELSE "unapplied"
        stale == live.v # flight[l].doc.v
    IN  /\ At(l, "reread") /\ UNCHANGED <<live, runs>> /\ FlightFrame
        /\ \/ Breaks(l, FALSE) /\ Saves(l, Failed([row EXCEPT !.verdict = "none"]), "failed")
           \/ /\ Works(l) /\ (stale \/ (repair /\ ~MayApply(l)))
              /\ Saves(l, Classified(row, verdict), IF stale /\ ~repair THEN "stale" ELSE "ok")
           \/ /\ Works(l) /\ ~stale /\ (repair => MayApply(l))
              /\ \/ Step(l, "apply")
                 \/ ~repair /\ Saves(l, Classified(row, verdict), "ok")       \* no_op

\* The compare-and-swap of ApplyMeetingTreeAudit.
Apply(l) ==
    /\ live.v = flight[l].doc.v
    /\ live' = [v |-> live.v + 1, tv |-> flight[l].doc.tv + 1]

\* The row is classified before the transaction is tried.
AuditApplies(l) ==
    LET row == flight[l].row
        next == [v |-> flight[l].doc.v + 1, tv |-> flight[l].doc.tv + 1]
        done == [Classified(row, "applied") EXCEPT !.res = next.tv]
        verdict == IF flight[l].repair THEN row.verdict ELSE "unapplied"
        commits == Apply(l) /\ runs' = Written(l, done)
    IN  /\ At(l, "apply") /\ FlightFrame
        /\ \/ /\ Works(l) /\ commits
              /\ Goes(l, [NoFlight EXCEPT !.pc = "finish", !.class = flight[l].class, !.doc = next,
                                          !.called = TRUE, !.applied = TRUE, !.result = "ok"])
           \/ /\ Works(l) /\ live.v # flight[l].doc.v /\ UNCHANGED <<live, runs>>
              /\ Saves(l, Classified(row, verdict), "stale")
           \/ Breaks(l, commits) /\ Saves(l, Failed(done), "failed")

AuditSaves(l) ==
    /\ At(l, "save") /\ UNCHANGED live /\ FlightFrame
    /\ \/ Works(l) /\ runs' = Written(l, flight[l].row) /\ Ends(l, flight[l].result)
       \/ Breaks(l, runs' = Written(l, flight[l].row)) /\ Ends(l, "failed")

AuditStep(l) ==
    \/ AuditLoads(l) \/ AuditClaims(l) \/ AuditIsLimited(l) \/ AuditMarksCall(l)
    \/ ProviderFails(l) \/ AuditPanics(l) \/ ProviderAnswers(l) \/ AuditMayApply(l)
    \/ AuditRereads(l) \/ AuditApplies(l) \/ AuditSaves(l)

\* Mutant: the tree counts as audited although the audit failed.
FinishCountsFailures ==
    /\ At("live", "finish")
    /\ audited' = IF flight["live"].doc.tv > audited THEN flight["live"].doc.tv ELSE audited
    /\ Goes("live", NoFlight)
    /\ Healthy /\ UNCHANGED <<durable, last, pending, closed, cool, job, round, fin>>

(***************************************************************************)
(* finishTreeAuditFlight.  Bound: a follow-up is scheduled before the next *)
(* audit finishes.                                                         *)
(***************************************************************************)
FinishTreeAuditFlight ==
    LET f == flight["live"]
        failed == f.result = "failed"
        wanted == \/ failed
                  \/ last'.tv > f.doc.tv
        reason == IF wanted /\ ~closed THEN Coalesced(pending, "normal") ELSE pending
        due == reason # "none" /\ ~closed /\ cool' \cap {"backoff", reason} = {}
    IN  /\ At("live", "finish") /\ job["finish"] = NoJob
        /\ last' = IF f.applied /\ last.v + 1 = f.doc.v THEN f.doc ELSE last
        /\ audited' = IF ~failed /\ f.doc.tv > audited THEN f.doc.tv ELSE audited
        /\ cool' = IF failed /\ ~f.called THEN cool \cup {"backoff"}
                   ELSE (cool \ {"backoff"}) \cup {"normal"}
                        \cup (IF f.class = "high" /\ ~failed THEN {"high"} ELSE {})
        /\ pending' = IF due THEN "none" ELSE reason
        /\ job' = [job EXCEPT !["finish"] = IF due THEN [class |-> reason, doc |-> last']
                                            ELSE NoJob]
        /\ Goes("live", NoFlight)
        /\ Healthy /\ UNCHANGED <<durable, closed, round, fin>>

-----------------------------------------------------------------------------
(* The finalization; what it does besides is in LiveFinalization. *)

FinMoves(pc) == fin' = [fin EXCEPT !.pc = pc]

FinFrame == UNCHANGED <<heard, runs, audited, cool, job, round>>

FinCloses ==
    /\ fin.pc = "idle" /\ FinMoves("cancel")
    /\ ended' = TRUE /\ closed' = TRUE /\ pending' = "none"
    /\ Healthy /\ UNCHANGED <<live, last, flight>> /\ FinFrame

\* Mutant: the audit in flight keeps its context.
FinForgetsAudit ==
    /\ fin.pc = "cancel" /\ FinMoves("await")
    /\ Healthy /\ UNCHANGED <<live, last, ended, closed, pending, flight>> /\ FinFrame

FinCancels ==
    /\ fin.pc = "cancel" /\ FinMoves("await")
    /\ flight' = [flight EXCEPT !["live"].dead = @ \/ ~At("live", "idle")]
    /\ Healthy /\ UNCHANGED <<live, last, ended, closed, pending>> /\ FinFrame

(***************************************************************************)
(* The barrier, then latestStableLiveSnapshot: the row, or what memory     *)
(* holds if the read fails.                                                *)
(***************************************************************************)
FinReads ==
    /\ fin.pc = "await" /\ round.pc = "idle"
    /\ \/ Healthy /\ last' = live
       \/ Fault /\ last # NoPayload /\ UNCHANGED last
    /\ fin' = [fin EXCEPT !.pc = "review", !.doc = last', !.blind = (faults' # faults)]
    /\ Goes("review", [NoFlight EXCEPT !.pc = "load", !.doc = last'])
    /\ UNCHANGED <<live, ended, closed, pending>> /\ FinFrame

\* The review fails safe: the tree it was given is projected.
FinIsReviewed ==
    /\ fin.pc = "review" /\ At("review", "finish")
    /\ fin' = [fin EXCEPT !.pc = "project", !.failed = (flight["review"].result = "failed"),
                          !.doc = IF flight["review"].applied THEN flight["review"].doc ELSE @]
    /\ Goes("review", NoFlight)
    /\ Healthy /\ UNCHANGED <<live, last, ended, closed, pending>> /\ FinFrame

\* The projection takes the analysis version for the version of its tree.
FinProjects ==
    /\ fin.pc = "project" /\ FinMoves("done")
    /\ live' = [v |-> fin.doc.v, tv |-> fin.doc.v] /\ last' = live'
    /\ Healthy /\ UNCHANGED <<ended, closed, pending, flight>> /\ FinFrame

Restart ==
    /\ crashes < MaxCrashes /\ crashes' = crashes + 1 /\ UNCHANGED faults
    /\ last' = NoPayload /\ audited' = 0 /\ pending' = "none" /\ closed' = FALSE /\ cool' = {}
    /\ job' = [s \in Sources |-> NoJob] /\ flight' = [l \in Lanes |-> NoFlight]
    /\ round' = IdleRound /\ fin' = IdleFinalizer
    /\ UNCHANGED durable

-----------------------------------------------------------------------------
RoundStep == RoundStarts \/ RoundPersists \/ RoundCompletes

FinStep == FinCloses \/ FinCancels \/ FinReads \/ FinIsReviewed \/ FinProjects

AuditNext ==
    \/ Tick \/ HourPasses \/ TranscriptArrives
    \/ \E s \in Sources : ScheduleTreeAudit(s)
    \/ \E c \in Classes \cup {"backoff"} : CoolsDown(c)
    \/ RoundStep
    \/ \E l \in Lanes : AuditStep(l)
    \/ FinishTreeAuditFlight
    \/ FinStep
    \/ Restart

AuditSpec == AuditInit /\ [][AuditNext]_avars

-----------------------------------------------------------------------------
(***************************************************************************)
(* The live row and the version of its tree never go back: rounds, live    *)
(* audits, the final review and the projection, which compares nothing,    *)
(* never undo each other.  Two lost answers excepted: a review whose       *)
(* commit took effect is undone and reported as failed; and a finalizer    *)
(* that cannot read the row trusts the memory, which an audit that has     *)
(* committed and not finished yet has not brought up to date.              *)
(***************************************************************************)
TreeRewindsOnlyInDoubt ==
    [][\/ live'.v >= live.v /\ live'.tv >= live.tv
       \/ fin.pc = "project" /\ (fin.failed \/ fin.blind)]_avars

(***************************************************************************)
(* A tree version counts as audited only if the history has a row that     *)
(* audited it or led to it and that did not fail.  A row that a restart, a *)
(* panic or a failing save left running is such a row, too.                *)
(***************************************************************************)
AuditedHasRow ==
    audited > 0 => \E i \in DOMAIN runs : /\ audited \in {runs[i].doc.tv, runs[i].res}
                                          /\ runs[i].status # "failed"

(***************************************************************************)
(* Calls of the provider stay within the limits of the session and of the  *)
(* hour, whatever fails, is retried or restarts.                           *)
(***************************************************************************)
CallsWithinLimits ==
    /\ ProviderCalls("normal", FALSE) <= MaxRunsPerSession
    /\ ProviderCalls("normal", TRUE) <= MaxRunsPerHour
    /\ ProviderCalls("high", TRUE) <= HighSeverityMaxRunsPerHour

(***************************************************************************)
(* The streak that decides on the fallback counts the audits since the     *)
(* last clean or applied one: rows that were skipped, failed or left       *)
(* running carry it on, and a review beside a live audit does not lose it. *)
(***************************************************************************)
StreakCountsRuns ==
    \A i \in 2..Len(runs) :
        runs[i].streak = CASE runs[i].verdict = "unapplied" -> runs[i - 1].streak + 1
                           [] runs[i].verdict \in {"clean", "applied"} -> 0
                           [] OTHER -> runs[i - 1].streak

(***************************************************************************)
(* tree-auditor.md: a failed run carries the streak on.  Not so an audit   *)
(* whose apply transaction fails: it was classified as applied before.     *)
(***************************************************************************)
FailedRunsCarryStreak ==
    \A i \in 2..Len(runs) : runs[i].status = "failed" => runs[i].streak = runs[i - 1].streak
=============================================================================
