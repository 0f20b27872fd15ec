---------------------------- MODULE LiveAnalysis ----------------------------
(***************************************************************************)
(* Live analysis of the final transcripts of one meeting session.          *)
(*                                                                         *)
(* Every stored final is published to an in-memory scheduler, which waits, *)
(* seals what is pending into a round, sends it to the provider, and       *)
(* persists the result with a compare-and-swap on the version of the live  *)
(* row.  A periodic tick compares the stored finals with what the last     *)
(* payload has seen, which recovers publications that were lost.           *)
(*                                                                         *)
(* A critical section under the service mutex, a database statement and    *)
(* the answer of the provider are one action each; the trigger evaluation  *)
(* that ends a handler is part of the handler's last action.  A timer      *)
(* callback of an older generation returns without effect and is left out. *)
(***************************************************************************)
EXTENDS Naturals, FiniteSets

CONSTANTS
    N,           \* bound: finals of the meeting, by sequence number
    Filler,      \* finals that carry no information
    Slots,       \* goroutines that run rounds
    NoRound,     \* the owner of the single-flight flag before the first round
    MaxFaults,   \* bound: failing statements and provider calls
    MaxCrashes   \* bound: restarts of the API process

Segs == 1..N

ASSUME ConstantsAssumption ==
    /\ N \in Nat
    /\ Filler \subseteq Segs
    /\ NoRound \notin Slots
    /\ MaxFaults \in Nat /\ MaxCrashes \in Nat

VARIABLES
    \* durable
    stored,     \* finals in the transcript table
    live,       \* the live row of meeting_session_ai_analyses
    session,    \* the status of the session allows live rounds
    \* requests
    publishing, \* finals committed whose publication has not happened yet
    \* memory: the state of the session in the service's map
    known,      \* the map has a state for the session
    pending,    \* finals waiting for a round
    deferred,   \* finals to send again with one later than the round given, {}: none
    last,       \* lastPayload and lastVersion
    seeded,     \* versionSeeded
    running,    \* the single-flight flag
    owner,      \* the round whose generation is runningGeneration
    timer,      \* off, armed, or what the callback's status lookup returned
    blocked,    \* retryBlocked
    context,    \* planning of the meeting context
    finalizing, stopped,
    \* goroutines
    recovery,   \* recovery of durable pending finals, one at a time
    round,      \* the rounds
    booting,    \* recovery of active sessions after a start
    faults, crashes

durable == <<stored, live, session>>
memory == <<known, pending, deferred, last, seeded, running, owner, timer,
            blocked, context, finalizing, stopped>>
bounds == <<faults, crashes>>
vars == <<durable, publishing, memory, recovery, round, booting, bounds>>

(***************************************************************************)
(* A payload remembers the finals it has seen, and the round of those that *)
(* were not reflected in it and may be sent once more, with a final later  *)
(* than that round.  A snapshot is a payload with its version; the row of  *)
(* version 0 carries no payload and stands for a missing row as well.      *)
(***************************************************************************)
Snapshot == [v : Nat, done : SUBSET Segs, retry : [Segs -> SUBSET Segs]]

NoRetry == [s \in Segs |-> {}]

Empty == [v |-> 0, done |-> {}, retry |-> NoRetry]

RoundPCs == {"idle", "start", "lookup", "seed", "call", "check", "persist",
             "reorganize", "complete", "stale", "fail", "failStale"}

Round == [pc : RoundPCs, segs : SUBSET Segs, base : Snapshot, next : Snapshot,
          superseded : BOOLEAN]

IdleRound == [pc |-> "idle", segs |-> {}, base |-> Empty, next |-> Empty,
              superseded |-> FALSE]

Recovery == [pc : {"idle", "lookup", "seed", "list", "merge"},
             got : Snapshot, segs : SUBSET Segs]

NoRecovery == [pc |-> "idle", got |-> Empty, segs |-> {}]

Answers == {"allowed", "denied", "failed"}

TypeOK ==
    /\ stored \subseteq Segs /\ publishing \subseteq Segs /\ pending \subseteq Segs
    /\ live \in Snapshot /\ last \in Snapshot
    /\ session \in {"open", "closed"}
    /\ deferred \in [Segs -> SUBSET Segs]
    /\ {known, seeded, running, blocked, finalizing, stopped, booting} \subseteq BOOLEAN
    /\ owner \in Slots \cup {NoRound}
    /\ timer \in {"off", "armed"} \cup Answers
    /\ context \in {"none", "pending", "ready"}
    /\ recovery \in Recovery
    /\ round \in [Slots -> Round]
    /\ faults \in 0..MaxFaults /\ crashes \in 0..MaxCrashes

ForgetMemory(isKnown, planning) ==
    /\ known' = isKnown
    /\ pending' = {} /\ deferred' = NoRetry
    /\ last' = Empty /\ seeded' = FALSE
    /\ running' = FALSE /\ owner' = NoRound
    /\ timer' = "off" /\ blocked' = FALSE /\ context' = planning
    /\ finalizing' = FALSE /\ stopped' = FALSE
    /\ recovery' = NoRecovery
    /\ round' = [r \in Slots |-> IdleRound]

\* A session was just created and prepared.
Init ==
    /\ stored = {} /\ live = Empty /\ session = "open" /\ publishing = {}
    /\ known = TRUE
    /\ pending = {} /\ deferred = NoRetry
    /\ last = Empty /\ seeded = FALSE
    /\ running = FALSE /\ owner = NoRound
    /\ timer = "off" /\ blocked = FALSE /\ context = "pending"
    /\ finalizing = FALSE /\ stopped = FALSE
    /\ recovery = NoRecovery
    /\ round = [r \in Slots |-> IdleRound]
    /\ booting = FALSE
    /\ faults = 0 /\ crashes = 0

-----------------------------------------------------------------------------
(* Helpers. *)

Fault == faults < MaxFaults /\ faults' = faults + 1 /\ UNCHANGED crashes

Healthy == UNCHANGED bounds

LaterThan(s, segs) == \A t \in segs : s > t

\* What a tick would send: finals never seen, and those due for another try.
Unanalyzed(S, payload) ==
    {s \in S : \/ s \notin payload.done
               \/ payload.retry[s] # {} /\ \E t \in S : LaterThan(t, payload.retry[s])}

\* Mutant: a payload is written under the version it started from.
AnalyzedInPlace(base, segs, poor) ==
    [v |-> base.v,
     done |-> base.done \cup segs,
     retry |-> [s \in Segs |->
        IF s \notin segs THEN base.retry[s]
        ELSE IF s \in poor \ base.done THEN segs ELSE {}]]

\* Mutant: every attempt may be followed by another.
AnalyzedAgain(base, segs, poor) ==
    [v |-> base.v + 1,
     done |-> base.done \cup segs,
     retry |-> [s \in Segs |->
        IF s \notin segs THEN base.retry[s] ELSE IF s \in poor THEN segs ELSE {}]]

\* The payload of a round over segs; poor are the finals it does not reflect.
\* A final is deferred after its first attempt only.
Analyzed(base, segs, poor) ==
    [v |-> base.v + 1,
     done |-> base.done \cup segs,
     retry |-> [s \in Segs |->
        IF s \notin segs THEN base.retry[s]
        ELSE IF s \in poor \ base.done THEN segs ELSE {}]]

\* evaluateLiveAnalysisTrigger, on the state the handler leaves.
Evaluate(waiting, busy, schemaFailed, planning) ==
    IF \/ stopped \/ finalizing \/ waiting = {} \/ busy \/ schemaFailed
       \/ planning = "pending"
    THEN UNCHANGED timer
    ELSE IF waiting \subseteq Filler THEN timer' = "off"
    ELSE \/ timer = "off" /\ timer' = "armed"
         \/ timer # "off" /\ timer' \in {timer, "armed"}  \* armed: for an earlier time

\* finishLiveRunLocked: of the round that owns the flag, or of none.
Finish(r) == running' = (running /\ owner # r)

Goto(r, pc) == round' = [round EXCEPT ![r].pc = pc]

Leave(r) == round' = [round EXCEPT ![r] = IdleRound]

At(r, pc) == round[r].pc = pc

\* Mutant: planning starts from a status the scheduler does not know.
PlanUnknown == context' = IF context = "none" THEN "unknown" ELSE context

\* ensureMeetingContextPlanning.
PlanContext == context' = IF context = "none" THEN "pending" ELSE context

\* seedLiveAnalysisState, under the lock, after the lookup returned got.
Newest(got) == IF last.v > got.v THEN last ELSE got

\* Mutant: the row is written whatever version it has.
SwapAlways(expected, snapshot) == live' = snapshot

\* CompareAndSwapMeetingAIAnalysis of the live row.
Swap(expected, snapshot) == live.v = expected /\ live' = snapshot

\* The statement fails, or commits and its answer is lost.
LostSwap(expected, snapshot) == Swap(expected, snapshot) \/ UNCHANGED live

-----------------------------------------------------------------------------
(* Finals arrive: the row is committed, then published in this process. *)

IngestStores(s) ==
    /\ s \notin stored
    /\ stored' = stored \cup {s}
    /\ publishing' = publishing \cup {s}
    /\ UNCHANGED <<live, session, memory, recovery, round, booting, bounds>>

Requeued(s) == {d \in Segs : deferred[d] # {} /\ LaterThan(s, deferred[d])}

PublishTranscriptSegment(s) ==
    /\ s \in publishing
    /\ publishing' = publishing \ {s}
    /\ known' = TRUE
    /\ pending' = pending \cup {s} \cup Requeued(s)
    /\ blocked' = FALSE
    /\ PlanContext
    /\ Evaluate(pending', running, blocked', context')
    /\ UNCHANGED <<durable, deferred, last, seeded, running, owner, finalizing,
                   stopped, recovery, round, booting, bounds>>

ContextPlanned ==
    /\ context = "pending"
    /\ context' = "ready"
    /\ Evaluate(pending, running, blocked, context')
    /\ UNCHANGED <<durable, publishing, known, pending, deferred, last, seeded, running,
                   owner, blocked, finalizing, stopped, recovery, round, booting, bounds>>

\* Some request or sweep takes the session out of its open statuses.
SessionCloses ==
    /\ session = "open"
    /\ session' = "closed"
    /\ UNCHANGED <<stored, live, publishing, memory, recovery, round, booting, bounds>>

-----------------------------------------------------------------------------
(* dispatchScheduledLiveAnalysis: the callback looks the session up first, *)
(* then takes the lock.                                                    *)

TimerFires ==
    /\ timer = "armed"
    /\ \/ timer' = (IF session = "open" THEN "allowed" ELSE "denied") /\ Healthy
       \/ timer' = "failed" /\ Fault
    /\ UNCHANGED <<durable, publishing, known, pending, deferred, last, seeded, running,
                   owner, blocked, context, finalizing, stopped, recovery, round, booting>>

Sealable ==
    /\ ~stopped /\ ~finalizing /\ ~running /\ ~blocked
    /\ context # "pending"
    /\ ~(pending \subseteq Filler)

\* Mutant: a status that could not be read counts as a closed session.
RefusedForGood ==
    /\ timer \in Answers /\ (timer = "allowed" => ~Sealable)
    /\ stopped' = (stopped \/ timer # "allowed")
    /\ timer' = "off"
    /\ UNCHANGED <<durable, publishing, known, pending, deferred, last, seeded, running,
                   owner, blocked, context, finalizing, recovery, round, booting, bounds>>

\* The timer is gone and nothing is scheduled in its place.
DispatchReturns ==
    /\ timer \in Answers /\ (timer = "allowed" => ~Sealable)
    /\ stopped' = (stopped \/ timer = "denied")
    /\ timer' = "off"
    /\ UNCHANGED <<durable, publishing, known, pending, deferred, last, seeded, running,
                   owner, blocked, context, finalizing, recovery, round, booting, bounds>>

\* Debounce, cooldown or backoff are not over yet.
DispatchTooEarly ==
    /\ timer = "allowed" /\ Sealable
    /\ timer' = "armed"
    /\ UNCHANGED <<durable, publishing, known, pending, deferred, last, seeded, running,
                   owner, blocked, context, finalizing, stopped, recovery, round, booting,
                   bounds>>

DispatchSeals(r) ==
    /\ timer = "allowed" /\ Sealable
    /\ At(r, "idle")
    /\ timer' = "off"
    /\ pending' = {}
    /\ running' = TRUE /\ owner' = r
    /\ round' = [round EXCEPT ![r] = [IdleRound EXCEPT !.pc = "start", !.segs = pending]]
    /\ UNCHANGED <<durable, publishing, known, deferred, last, seeded, blocked, context,
                   finalizing, stopped, recovery, booting, bounds>>

-----------------------------------------------------------------------------
(* runLiveAnalysis. *)

RoundStarts(r) ==
    /\ At(r, "start")
    /\ round' = [round EXCEPT ![r].base = last,
                              ![r].pc = IF seeded THEN "call"
                                        ELSE IF last.v = 0 THEN "lookup" ELSE "seed"]
    /\ UNCHANGED <<durable, publishing, memory, recovery, booting, bounds>>

RoundLooksUp(r) ==
    /\ At(r, "lookup")
    /\ \/ round' = [round EXCEPT ![r].pc = "seed", ![r].base = live] /\ Healthy
       \/ Goto(r, "seed") /\ Fault
    /\ UNCHANGED <<durable, publishing, memory, recovery, booting>>

RoundSeeds(r) ==
    /\ At(r, "seed")
    /\ round' = [round EXCEPT ![r].pc = "call", ![r].base = Newest(round[r].base)]
    /\ last' = Newest(round[r].base)
    /\ seeded' = TRUE
    /\ UNCHANGED <<durable, publishing, known, pending, deferred, running, owner, timer,
                   blocked, context, finalizing, stopped, recovery, booting, bounds>>

\* Mutant: the single-flight flag covers the provider call only.
AnswersAndReleases(r) ==
    /\ At(r, "call")
    /\ \E poor \in SUBSET round[r].segs :
          round' = [round EXCEPT ![r].pc = "check",
                        ![r].next = Analyzed(round[r].base, round[r].segs, poor)]
    /\ Finish(r)
    /\ Evaluate(pending, running', blocked, context)
    /\ UNCHANGED <<durable, publishing, known, pending, deferred, last, seeded, owner,
                   blocked, context, finalizing, stopped, recovery, booting, bounds>>

ProviderAnswers(r) ==
    /\ At(r, "call")
    /\ \E poor \in SUBSET round[r].segs :
          round' = [round EXCEPT ![r].pc = "check",
                        ![r].next = Analyzed(round[r].base, round[r].segs, poor)]
    /\ UNCHANGED <<durable, publishing, memory, recovery, booting, bounds>>

\* Mutant: a failed call forgets the finals of its round.
FailsWithoutRestore(r) ==
    /\ At(r, "call") /\ Fault
    /\ Finish(r)
    /\ blocked' \in BOOLEAN
    /\ Goto(r, "fail")
    /\ UNCHANGED <<durable, publishing, known, pending, deferred, last, seeded, owner,
                   timer, context, finalizing, stopped, recovery, booting>>

\* handleLiveAnalysisFailure up to its persist: the round gives up the flag and
\* its finals first.  A schema failure blocks retries until a new final.
ProviderFails(r) ==
    /\ At(r, "call") /\ Fault
    /\ Finish(r)
    /\ pending' = pending \cup round[r].segs
    /\ blocked' \in BOOLEAN
    /\ Goto(r, "fail")
    /\ UNCHANGED <<durable, publishing, known, deferred, last, seeded, owner, timer,
                   context, finalizing, stopped, recovery, booting>>

\* The previous payload is written once more, as failed, at its own version.
RoundPersistsFailure(r) ==
    /\ At(r, "fail")
    /\ \/ /\ \/ Swap(round[r].base.v, round[r].base) /\ Healthy
             \/ UNCHANGED live /\ Fault
          /\ Leave(r)
          /\ Evaluate(pending, running, blocked, context)
       \/ /\ live.v # round[r].base.v /\ Goto(r, "failStale")
          /\ UNCHANGED <<live, timer>> /\ Healthy
    /\ UNCHANGED <<stored, session, publishing, known, pending, deferred, last, seeded,
                   running, owner, blocked, context, finalizing, stopped, recovery,
                   booting>>

RoundReloadsAfterFailure(r) ==
    /\ At(r, "failStale")
    /\ \/ /\ last' = (IF live.v > last.v THEN live ELSE last)
          /\ seeded' = (seeded \/ live.v > last.v)
          /\ Healthy
       \/ UNCHANGED <<last, seeded>> /\ Fault
    /\ Leave(r)
    /\ Evaluate(pending, running, blocked, context)
    /\ UNCHANGED <<durable, publishing, known, pending, deferred, running, owner, blocked,
                   context, finalizing, stopped, recovery, booting>>

\* A round the finalization barrier gave up on drops its result here.
RoundChecksBarrier(r) ==
    /\ At(r, "check")
    /\ IF round[r].superseded
       THEN Finish(r) /\ Leave(r)
       ELSE Goto(r, "persist") /\ UNCHANGED running
    /\ UNCHANGED <<durable, publishing, known, pending, deferred, last, seeded, owner,
                   timer, blocked, context, finalizing, stopped, recovery, booting, bounds>>

RoundPersists(r) ==
    /\ At(r, "persist")
    /\ \/ /\ Swap(round[r].base.v, round[r].next)
          /\ Goto(r, "reorganize")
          /\ UNCHANGED <<pending, running, timer>> /\ Healthy
       \/ /\ live.v # round[r].base.v
          /\ Goto(r, "stale")
          /\ UNCHANGED <<live, pending, running, timer>> /\ Healthy
       \/ /\ Finish(r) /\ pending' = pending \cup round[r].segs
          /\ Leave(r) /\ Evaluate(pending', running', blocked, context)
          /\ LostSwap(round[r].base.v, round[r].next) /\ Fault
    /\ UNCHANGED <<stored, session, publishing, known, deferred, last, seeded, owner,
                   blocked, context, finalizing, stopped, recovery, booting>>

\* handleStaleLiveAnalysisResult: retry what the newer row has not seen.
RoundReloads(r) ==
    /\ At(r, "stale")
    /\ \/ /\ pending' = pending \cup Unanalyzed(round[r].segs, live)
          /\ last' = (IF live.v > last.v THEN live ELSE last)
          /\ seeded' = (seeded \/ live.v > last.v)
          /\ Healthy
       \/ /\ pending' = pending \cup round[r].segs
          /\ UNCHANGED <<last, seeded>> /\ Fault
    /\ Finish(r) /\ Leave(r) /\ Evaluate(pending', running', blocked, context)
    /\ UNCHANGED <<durable, publishing, known, deferred, owner, blocked, context,
                   finalizing, stopped, recovery, booting>>

\* maybeReorganizeLiveTree: the same coverage under a new version, or nothing.
\* From here on base is the snapshot the round leaves in memory.
RoundReorganizes(r) ==
    /\ At(r, "reorganize")
    /\ LET done == round[r].next
           tidy == [done EXCEPT !.v = done.v + 1]
           Result(base) == round' = [round EXCEPT ![r].pc = "complete", ![r].base = base]
       IN  \/ Result(done) /\ UNCHANGED live /\ Healthy
           \/ Swap(done.v, tidy) /\ Result(tidy) /\ Healthy
           \/ Swap(done.v, tidy) /\ Result(done) /\ Fault
           \/ live.v > done.v /\ Result(live) /\ UNCHANGED live /\ Healthy
    /\ UNCHANGED <<stored, session, publishing, memory, recovery, booting>>

\* The finals this round leaves for another try.
LeftOver(r) == [s \in Segs |-> IF s \in round[r].segs THEN round[r].next.retry[s] ELSE {}]

RoundCompletes(r) ==
    /\ At(r, "complete")
    /\ Finish(r)
    /\ last' = round[r].base
    /\ deferred' = LeftOver(r)
    /\ pending' = pending \ round[r].segs
    /\ blocked' = FALSE
    /\ Leave(r)
    /\ Evaluate(pending', running', blocked', context)
    /\ UNCHANGED <<durable, publishing, known, seeded, owner, context, finalizing, stopped,
                   recovery, booting, bounds>>

-----------------------------------------------------------------------------
(* recoverDurablePendingFinals, on every tick and when a session is prepared. *)

RecoveryStarts ==
    /\ known /\ ~finalizing /\ ~stopped
    /\ recovery.pc = "idle"
    /\ recovery' = [NoRecovery EXCEPT !.pc = IF last.v = 0 THEN "lookup" ELSE "seed",
                                      !.got = last]
    /\ UNCHANGED <<durable, publishing, memory, round, booting, bounds>>

RecoveryLooksUp ==
    /\ recovery.pc = "lookup"
    /\ \/ recovery' = [recovery EXCEPT !.pc = "seed", !.got = live] /\ Healthy
       \/ recovery' = [recovery EXCEPT !.pc = "seed"] /\ Fault
    /\ UNCHANGED <<durable, publishing, memory, round, booting>>

RecoverySeeds ==
    /\ recovery.pc = "seed"
    /\ recovery' = [recovery EXCEPT !.pc = "list", !.got = Newest(recovery.got)]
    /\ last' = Newest(recovery.got)
    /\ seeded' = TRUE
    /\ UNCHANGED <<durable, publishing, known, pending, deferred, running, owner, timer,
                   blocked, context, finalizing, stopped, round, booting, bounds>>

RecoveryLists ==
    /\ recovery.pc = "list"
    /\ \/ /\ recovery' = [recovery EXCEPT !.pc = "merge", !.segs = stored]
          /\ UNCHANGED timer /\ Healthy
       \/ /\ recovery' = NoRecovery
          /\ Evaluate(pending, running, blocked, context) /\ Fault
    /\ UNCHANGED <<durable, publishing, known, pending, deferred, last, seeded, running,
                   owner, blocked, context, finalizing, stopped, round, booting>>

\* The range a running round has frozen.
Frozen == IF running /\ owner # NoRound /\ round[owner].segs # {}
          THEN {s \in Segs : \E a, b \in round[owner].segs : a <= s /\ s <= b}
          ELSE {}

RecoveryMerges ==
    /\ recovery.pc = "merge"
    /\ recovery' = NoRecovery
    /\ IF finalizing \/ stopped
       THEN UNCHANGED <<last, pending, blocked, context>>
       ELSE LET newer == IF recovery.got.v > last.v THEN recovery.got ELSE last
                found == Unanalyzed(recovery.segs, newer) \ Frozen
            IN  /\ last' = newer
                /\ pending' = pending \cup found
                /\ blocked' = (blocked /\ found \subseteq pending)
                /\ PlanContext
    /\ Evaluate(pending', running, blocked', context')
    /\ UNCHANGED <<durable, publishing, known, deferred, seeded, running, owner, finalizing,
                   stopped, round, booting, bounds>>

-----------------------------------------------------------------------------
(* Restarts. *)

\* Timers, rounds, pending finals and publications under way are lost.
Restart ==
    /\ crashes < MaxCrashes
    /\ crashes' = crashes + 1
    /\ ForgetMemory(FALSE, "none")
    /\ publishing' = {}
    /\ booting' = TRUE
    /\ UNCHANGED <<durable, faults>>

\* recoverActiveLiveAnalysisSessions runs once; a failed listing is not repeated.
\* PrepareMeetingSession leaves the recovery to the first tick.
BootRecovers ==
    /\ booting
    /\ booting' = FALSE
    /\ \/ /\ IF session = "open"
             THEN known' = TRUE /\ PlanContext
             ELSE UNCHANGED <<known, context>>
          /\ Healthy
       \/ UNCHANGED <<known, context>> /\ Fault
    /\ UNCHANGED <<durable, publishing, pending, deferred, last, seeded, running, owner,
                   timer, blocked, finalizing, stopped, recovery, round>>

-----------------------------------------------------------------------------

RoundStep(r) ==
    \/ RoundStarts(r) \/ RoundLooksUp(r) \/ RoundSeeds(r)
    \/ ProviderAnswers(r) \/ ProviderFails(r)
    \/ RoundPersistsFailure(r) \/ RoundReloadsAfterFailure(r)
    \/ RoundChecksBarrier(r) \/ RoundPersists(r) \/ RoundReloads(r)
    \/ RoundReorganizes(r) \/ RoundCompletes(r)

RecoveryStep == RecoveryLooksUp \/ RecoverySeeds \/ RecoveryLists \/ RecoveryMerges

Dispatch == DispatchReturns \/ \E r \in Slots : DispatchSeals(r)

LiveStep ==
    \/ \E s \in Segs : IngestStores(s) \/ PublishTranscriptSegment(s)
    \/ ContextPlanned \/ SessionCloses
    \/ TimerFires \/ DispatchTooEarly \/ Dispatch
    \/ \E r \in Slots : RoundStep(r)
    \/ RecoveryStarts \/ RecoveryStep
    \/ BootRecovers

Next == LiveStep \/ Restart

Spec == Init /\ [][Next]_vars

-----------------------------------------------------------------------------
(* Fairness: goroutines that run keep running, provider calls time out,    *)
(* armed timers fire and the scheduler ticks.  A round is sealed although  *)
(* the callback may find itself too early: LiveMaxWait after the oldest    *)
(* pending final, or after the longest backoff, it no longer is.           *)

Fairness ==
    /\ \A s \in Segs : WF_vars(PublishTranscriptSegment(s))
    /\ WF_vars(ContextPlanned)
    /\ WF_vars(TimerFires)
    /\ WF_vars(DispatchReturns)
    /\ SF_vars(\E r \in Slots : DispatchSeals(r))
    /\ \A r \in Slots : WF_vars(RoundStep(r))
    /\ WF_vars(RecoveryStarts) /\ WF_vars(RecoveryStep)
    /\ WF_vars(BootRecovers)

FairSpec == Spec /\ Fairness

-----------------------------------------------------------------------------
(* Properties. *)

\* The live row is a register of coverage: every write of it adds one round of
\* stored finals to the version before it, or changes nothing.  No race of
\* rounds, failing rounds, recoveries and restarts loses what a round analyzed.
Register == INSTANCE CoverageRegister WITH version <- live.v, covered <- live.done

RegisterSpec == Register!Spec

\* A round calls the provider and persists between its seal and its completion.
InFlight(r) == round[r].pc \notin {"idle", "fail", "failStale"}

\* ai_live_scheduler.go:122: at most one provider call per session, although
\* finals, ticks, planned contexts, timers and finished rounds all trigger.
OneRoundInFlight ==
    \A r \in Slots : InFlight(r) => running /\ owner = r

\* Between the read of the row and the write that depends on it, a version
\* number stands for one payload, in the row, in memory and in every goroutine.
Names(snapshot, row) ==
    /\ snapshot.v <= row.v
    /\ snapshot.v = row.v => snapshot = row

VersionNamesPayload ==
    /\ Names(last, live)
    /\ Names(recovery.got, live)
    /\ \A r \in Slots : Names(round[r].base, live)

\* Without a restart, a final is somewhere until it is analyzed: on its way to
\* the scheduler, pending, or in a round.  Failing rounds, conflicts and
\* refused timers put it back.
InRounds == UNION {round[r].segs : r \in {q \in Slots : InFlight(q)}}

Held == publishing \cup pending \cup InRounds

NoFinalDropped == crashes = 0 => stored \subseteq live.done \cup Held

\* ai_analysis.go:5307: a final the analysis does not reflect is deferred once.
\* Whatever resends it later (a newer final, a tick, a restart, a failed
\* round), its deferral is only kept or cleared, so prompts stop growing.
DeferredAtMostOnce ==
    [][\A s \in live.done : live'.retry[s] \in {live.retry[s], {}}]_vars

\* Every final that carries information is analyzed in the end, publications
\* lost and rounds failed on the way included, unless the session closes, a
\* schema failure is waiting for another final, or a restart could not list
\* the session.
StoredFinalIsAnalyzed ==
    <>[](\A s \in stored \ Filler :
            s \in live.done \/ session = "closed" \/ blocked \/ ~known)
=============================================================================
