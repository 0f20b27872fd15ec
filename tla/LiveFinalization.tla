--------------------------- MODULE LiveFinalization ---------------------------
(***************************************************************************)
(* The finalization of a meeting on top of its live analysis.              *)
(*                                                                         *)
(* One goroutine per session raises the barrier that keeps the scheduler   *)
(* out, waits for the round in flight but not for ever, lists the finals,  *)
(* flushes those no payload has seen through rounds of its own, writes the *)
(* finalized projection over the live row without comparing versions,      *)
(* saves the tree and the summary, and leaves the session stopped.  A      *)
(* client may ask for another attempt.                                     *)
(*                                                                         *)
(* The rows progress and summary are written by this goroutine only, so    *)
(* statements on them that follow each other are one action.  The tree     *)
(* auditor is off.                                                         *)
(***************************************************************************)
EXTENDS LiveAnalysis

CONSTANTS
    MaxFlushes,      \* finalFlushMaxAttempts
    MaxAttempts,     \* bound: finalizations the service or a client asks for
    RetryOpen        \* TRUE iff clients ask for a session that is not over, too

ASSUME FinalizationAssumption ==
    /\ MaxFlushes \in Nat \ {0}
    /\ MaxAttempts \in Nat
    /\ RetryOpen \in BOOLEAN

VARIABLES
    \* durable
    progress,   \* the finalization row; short: completed as incomplete
    summary,    \* status of the final row
    tree,       \* finals the tree row covers
    projected,  \* the live row holds the finalized projection
    \* memory
    fin,        \* the goroutine behind finalSummaryInFlight
    leaving,    \* it has left the map and has not released the barrier yet
    retry,      \* the goroutine of a retry request
    attempts    \* finalizations asked for

fdurable == <<progress, summary, tree, projected>>
fmemory == <<fin, leaving, retry, attempts>>
fvars == <<vars, fdurable, fmemory>>

FinPCs == {"idle", "start", "barrier", "enter", "await", "list", "read", "adopt", "plan",
           "flush", "reread", "readopt", "open", "project", "remember", "save",
           "summarize", "fail", "complete", "leave"}

(***************************************************************************)
(* upTo is the last final the bot says it forwarded, 0 if it does not say; *)
(* gap holds once something was given up on the way.                       *)
(***************************************************************************)
Finalizer == [pc : FinPCs, upTo : 0..N, segs : SUBSET Segs, target : 0..N,
              snap : Snapshot, got : Snapshot, gap : BOOLEAN, late : BOOLEAN,
              blind : BOOLEAN, flush : Slots \cup {NoRound}, tries : 0..MaxFlushes,
              schema : BOOLEAN, pass : 1..2, saved : BOOLEAN]

NoFinalizer ==
    [pc |-> "idle", upTo |-> 0, segs |-> {}, target |-> 0,
     snap |-> Empty, got |-> Empty, gap |-> FALSE, late |-> FALSE,
     blind |-> FALSE, flush |-> NoRound, tries |-> 0,
     schema |-> FALSE, pass |-> 1, saved |-> FALSE]

FinalizationTypeOK ==
    /\ TypeOK
    /\ progress \in {"none", "running", "completed", "short", "failed"}
    /\ summary \in {"none", "running", "completed", "failed"}
    /\ tree \subseteq Segs
    /\ fin \in Finalizer
    /\ {projected, leaving} \subseteq BOOLEAN
    /\ retry \in {"none", "checked", "reopened"}
    /\ attempts \in 0..MaxAttempts

FInit ==
    /\ Init
    /\ progress = "none" /\ summary = "none" /\ tree = {} /\ projected = FALSE
    /\ fin = NoFinalizer /\ leaving = FALSE /\ retry = "none" /\ attempts = 0

-----------------------------------------------------------------------------
(* Helpers. *)

FinAt(pc) == fin.pc = pc

FinGoto(pc) == fin' = [fin EXCEPT !.pc = pc]

\* coveredThroughSequenceNo: the largest number seen, 0 if none.
Through(segs) == IF segs = {} THEN 0 ELSE CHOOSE s \in segs : ~ \E t \in segs : t > s

Completed == progress \in {"completed", "short"}

LiveUnchanged == UNCHANGED <<durable, publishing, memory, recovery, round, booting>>

-----------------------------------------------------------------------------
(* The rounds, with the outcome a flush round returns to the finalization. *)

Returns(r) == round[r].pc # "idle" /\ round'[r].pc = "idle"

\* The round of this slot wrote the live row in this step.
RoundWrites(r) ==
    \/ At(r, "fail") /\ Returns(r) /\ faults' = faults
    \/ round[r].pc \in {"persist", "reorganize"} /\ live' # live

Flushed(failed) == [fin EXCEPT !.pc = "reread", !.gap = fin.gap \/ failed, !.flush = NoRound,
                               !.tries = 0, !.schema = FALSE]

\* Mutant: one try too many.
FlushTriesOnceMore(r) ==
    IF round[r].pc # "complete" /\ ~fin.schema
    THEN [fin EXCEPT !.pc = "plan", !.flush = NoRound]
    ELSE Flushed(round[r].pc # "complete")

\* runLiveAnalysis returned to the flush loop.
FlushReturns(r) ==
    IF round[r].pc # "complete" /\ ~fin.schema /\ fin.tries < MaxFlushes
    THEN [fin EXCEPT !.pc = "plan", !.flush = NoRound]
    ELSE Flushed(round[r].pc # "complete")

FlushWatches ==
    IF ~FinAt("flush") THEN UNCHANGED fin
    ELSE IF Returns(fin.flush) THEN fin' = FlushReturns(fin.flush)
    ELSE IF At(fin.flush, "call") /\ round'[fin.flush].pc = "fail"
    THEN fin' = [fin EXCEPT !.schema = blocked']
    ELSE UNCHANGED fin

Live ==
    /\ LiveStep
    /\ FlushWatches
    /\ projected' = (projected /\ ~ \E r \in Slots : RoundWrites(r))
    /\ UNCHANGED <<progress, summary, tree, leaving, retry, attempts>>

-----------------------------------------------------------------------------
(* generateFinalSummary. *)

\* The service of the session finalizes what is no longer open.
FinalizationArrives ==
    /\ FinAt("idle") /\ session = "closed"
    /\ attempts < MaxAttempts /\ attempts' = attempts + 1
    /\ \E t \in 0..N : fin' = [NoFinalizer EXCEPT !.pc = "start", !.upTo = t]
    /\ LiveUnchanged /\ Healthy
    /\ UNCHANGED <<fdurable, leaving, retry>>

FinishedBefore == IF progress = "none" THEN summary = "completed" ELSE Completed

\* An unreadable progress row falls back on the final row; a failed write of
\* the progress is logged only.
FinStarts ==
    /\ FinAt("start")
    /\ \/ FinishedBefore /\ FinGoto("leave") /\ UNCHANGED progress /\ Healthy
       \/ ~FinishedBefore /\ FinGoto("barrier") /\ progress' = "running" /\ Healthy
       \/ ~FinishedBefore /\ FinGoto("barrier") /\ UNCHANGED progress /\ Fault
       \/ summary = "completed" /\ FinGoto("leave") /\ UNCHANGED progress /\ Fault
       \/ summary # "completed" /\ FinGoto("barrier") /\ progress' = "running" /\ Fault
    /\ LiveUnchanged
    /\ UNCHANGED <<summary, tree, projected, leaving, retry, attempts>>

FinRaisesBarrier ==
    /\ FinAt("barrier") /\ FinGoto("enter")
    /\ finalizing' = TRUE
    /\ timer' = "off" /\ known' = TRUE
    /\ UNCHANGED <<durable, publishing, pending, deferred, last, seeded, running, owner,
                   blocked, context, stopped, recovery, round, booting, bounds>>
    /\ UNCHANGED <<fdurable, leaving, retry, attempts>>

\* Mutant: the round in flight is not waited for.
FinSkipsWait ==
    /\ FinAt("enter") /\ FinGoto("list")
    /\ LiveUnchanged /\ Healthy
    /\ UNCHANGED <<fdurable, leaving, retry, attempts>>

\* awaitSealedLiveRound looks for a round in a critical section of its own.
FinEntersWait ==
    /\ FinAt("enter")
    /\ fin' = [fin EXCEPT !.pc = IF running THEN "await" ELSE "list",
                       !.flush = IF running THEN owner ELSE NoRound]
    /\ LiveUnchanged /\ Healthy
    /\ UNCHANGED <<fdurable, leaving, retry, attempts>>

AwaitedIsDone == ~(running /\ owner = fin.flush)

FinAwaits ==
    /\ FinAt("await") /\ AwaitedIsDone
    /\ fin' = [fin EXCEPT !.pc = "list", !.flush = NoRound]
    /\ LiveUnchanged /\ Healthy
    /\ UNCHANGED <<fdurable, leaving, retry, attempts>>

\* Mutant: the round goes on as if it were wanted.
FinForgetsRound ==
    /\ FinAt("await") /\ ~AwaitedIsDone
    /\ fin' = [fin EXCEPT !.pc = "list", !.flush = NoRound, !.gap = TRUE, !.late = TRUE]
    /\ LiveUnchanged /\ Healthy
    /\ UNCHANGED <<fdurable, leaving, retry, attempts>>

\* finalizationWaitTimeout is shorter than a provider call may take.  All
\* generations up to the awaited one are superseded.
FinGivesUpRound ==
    /\ FinAt("await") /\ ~AwaitedIsDone
    /\ round' = [r \in Slots |-> [round[r] EXCEPT !.superseded = ~At(r, "idle")]]
    /\ fin' = [fin EXCEPT !.pc = "list", !.flush = NoRound, !.gap = TRUE, !.late = TRUE]
    /\ UNCHANGED <<durable, publishing, memory, recovery, booting, bounds>>
    /\ UNCHANGED <<fdurable, leaving, retry, attempts>>

Listed(segs, target, gap) ==
    fin' = [fin EXCEPT !.pc = "read", !.upTo = 0, !.segs = segs, !.target = target,
                       !.gap = fin.gap \/ gap]

\* Mutant: the wait for a forwarded final has no deadline.
FinListsForwarded ==
    /\ FinAt("list")
    /\ \/ fin.upTo = 0 /\ Listed(stored, Through(stored), FALSE)
       \/ fin.upTo \in stored /\ Listed({s \in stored : s <= fin.upTo}, fin.upTo, FALSE)
    /\ LiveUnchanged /\ Healthy
    /\ UNCHANGED <<fdurable, leaving, retry, attempts>>

\* waitForStableFinalSegments.  A forwarded final that does not show up before
\* the deadline is a gap; an unreadable transcript is one, too.
FinLists ==
    /\ FinAt("list")
    /\ LET to(t) == {s \in stored : s <= t}
           max == Through(stored)
       IN  \/ fin.upTo = 0 /\ Listed(stored, max, FALSE) /\ Healthy
           \/ fin.upTo \in stored /\ Listed(to(fin.upTo), fin.upTo, FALSE) /\ Healthy
           \/ /\ fin.upTo # 0 /\ fin.upTo \notin stored
              /\ LET t == IF max > fin.upTo THEN fin.upTo ELSE max
                 IN  Listed(to(t), t, TRUE)
              /\ Healthy
           \/ /\ fin' = [fin EXCEPT !.pc = "read", !.upTo = 0, !.target = fin.upTo,
                                    !.gap = TRUE, !.blind = TRUE]
              /\ Fault
    /\ LiveUnchanged
    /\ UNCHANGED <<fdurable, leaving, retry, attempts>>

\* latestStableLiveSnapshot: the row, unless memory is newer and the barrier
\* did not give up on a round, or the row cannot be read.
UsesRow == live.v > 0 /\ (last.v = 0 \/ fin.late \/ live.v >= last.v)

\* A snapshot older than the one at hand is not taken.
Took(got) == IF got.v >= fin.snap.v THEN got ELSE fin.snap

FinReads(pc, adopt, next) ==
    /\ FinAt(pc)
    /\ \/ /\ UsesRow /\ fin' = [fin EXCEPT !.pc = adopt, !.got = live, !.snap = Took(live)]
          /\ Healthy
       \/ /\ fin' = [fin EXCEPT !.pc = next, !.snap = Took(last)]
          /\ IF UsesRow THEN Fault ELSE Healthy
    /\ LiveUnchanged
    /\ UNCHANGED <<fdurable, leaving, retry, attempts>>

FinAdopts(pc, next) ==
    /\ FinAt(pc)
    /\ last' = fin.got /\ seeded' = TRUE /\ known' = TRUE
    /\ fin' = [fin EXCEPT !.pc = next, !.got = Empty]
    /\ UNCHANGED <<durable, publishing, pending, deferred, running, owner, timer, blocked,
                   context, finalizing, stopped, recovery, round, booting, bounds>>
    /\ UNCHANGED <<fdurable, leaving, retry, attempts>>

FinReadsRow == FinReads("read", "adopt", "plan") \/ FinReads("reread", "readopt", "open")

FinAdoptsRow == FinAdopts("adopt", "plan") \/ FinAdopts("readopt", "open")

\* With no transcript, what the payload covers is all there is to cover.
Goal == IF fin.blind /\ fin.target = 0 THEN Through(fin.snap.done) ELSE fin.target

FinPlansNoFlush ==
    /\ FinAt("plan") /\ fin.tries = 0 /\ fin.segs \subseteq fin.snap.done
    /\ fin' = [fin EXCEPT !.pc = "reread", !.target = Goal]
    /\ LiveUnchanged /\ Healthy
    /\ UNCHANGED <<fdurable, leaving, retry, attempts>>

\* A flush round takes the single-flight flag, even from a round given up.
FinFlushes(r) ==
    /\ FinAt("plan") /\ ~(fin.segs \subseteq fin.snap.done)
    /\ At(r, "idle")
    /\ round' = [round EXCEPT ![r] = [IdleRound EXCEPT !.pc = "start",
                                          !.segs = fin.segs \ fin.snap.done]]
    /\ running' = TRUE /\ owner' = r /\ known' = TRUE
    /\ fin' = [fin EXCEPT !.pc = "flush", !.flush = r, !.tries = @ + 1, !.schema = FALSE]
    /\ UNCHANGED <<durable, publishing, pending, deferred, last, seeded, timer, blocked,
                   context, finalizing, stopped, recovery, booting, bounds>>
    /\ UNCHANGED <<fdurable, leaving, retry, attempts>>

\* Mutant: what was given up before is overwritten.
GapByMaximum == Through(fin.snap.done) < fin.target

Uncovered == fin.gap \/ Through(fin.snap.done) < fin.target

\* The progress is written once more at this and later stages.  An empty meeting
\* is complete; otherwise the summary row is opened.
FinOpensSummary ==
    /\ FinAt("open") /\ progress' = "running"
    /\ \/ /\ fin.segs = {} /\ ~fin.blind /\ fin.snap.v = 0
          /\ fin' = [fin EXCEPT !.pc = "complete", !.gap = Uncovered, !.late = FALSE]
          /\ UNCHANGED summary /\ Healthy
       \/ /\ fin.segs # {} \/ fin.blind \/ fin.snap.v > 0
          /\ \/ /\ fin' = [fin EXCEPT !.pc = "project", !.gap = Uncovered, !.late = FALSE,
                                    !.blind = FALSE]
                /\ summary' = "running" /\ Healthy
             \/ FinGoto("fail") /\ summary' \in {summary, "running"} /\ Fault
    /\ LiveUnchanged
    /\ UNCHANGED <<tree, projected, leaving, retry, attempts>>

\* After a failed projection: the first one is repeated, the second one gives
\* the tree up.
Unprojected == [fin EXCEPT !.pc = IF @ = "project" /\ fin.pass = 1 THEN "project" ELSE "summarize",
                           !.pass = 2]

\* persistFinalizedLiveProjection, once after the repairs and once with the
\* tree: an upsert at the version of the snapshot, whatever the row's version.
\* A payload without a tree skips the second one.
FinProjects ==
    /\ FinAt("project")
    /\ \/ /\ live' = fin.snap /\ projected' = TRUE
          /\ FinGoto("remember") /\ Healthy
       \/ /\ fin' = Unprojected /\ Fault
          /\ \/ live' = fin.snap /\ projected' = TRUE
             \/ UNCHANGED <<live, projected>>
       \/ /\ fin.pass = 2 /\ fin.snap.v = 0 /\ FinGoto("summarize")
          /\ UNCHANGED <<live, projected>> /\ Healthy
    /\ UNCHANGED <<stored, session, publishing, memory, recovery, round, booting>>
    /\ UNCHANGED <<progress, summary, tree, leaving, retry, attempts>>

FinRemembers ==
    /\ FinAt("remember")
    /\ last' = fin.snap /\ known' = TRUE
    /\ fin' = [fin EXCEPT !.pc = IF fin.pass = 1 THEN "project" ELSE "save", !.pass = 2]
    /\ UNCHANGED <<durable, publishing, pending, deferred, seeded, running, owner, timer,
                   blocked, context, finalizing, stopped, recovery, round, booting, bounds>>
    /\ UNCHANGED <<fdurable, leaving, retry, attempts>>

\* The row is read back and the tree saved beside it.
FinSavesTree ==
    /\ FinAt("save")
    /\ \/ /\ tree' = fin.snap.done
          /\ fin' = [fin EXCEPT !.pc = "summarize", !.saved = TRUE] /\ Healthy
       \/ tree' \in {tree, fin.snap.done} /\ FinGoto("summarize") /\ Fault
    /\ LiveUnchanged
    /\ UNCHANGED <<progress, summary, projected, leaving, retry, attempts>>

\* The provider may fail, and so may the statement that saves its summary.
FinSummarizes ==
    /\ FinAt("summarize")
    /\ \/ summary' = "completed" /\ FinGoto("complete") /\ Healthy
       \/ summary' \in {"failed", "running", "completed"} /\ FinGoto("fail") /\ Fault
    /\ LiveUnchanged
    /\ UNCHANGED <<progress, tree, projected, leaving, retry, attempts>>

FinFails ==
    /\ FinAt("fail")
    /\ FinGoto("leave")
    /\ \/ progress' = "failed" /\ Healthy
       \/ UNCHANGED progress /\ Fault
    /\ LiveUnchanged
    /\ UNCHANGED <<summary, tree, projected, leaving, retry, attempts>>

\* Mutant: the tree is not asked about.
ShortWithoutTree == fin.gap

Short == fin.gap \/ (fin.target > 0 /\ (~fin.saved \/ Through(fin.snap.done) # fin.target))

FinCompletes ==
    /\ FinAt("complete")
    /\ FinGoto("leave")
    /\ \/ progress' = (IF Short THEN "short" ELSE "completed") /\ Healthy
       \/ UNCHANGED progress /\ Fault
    /\ LiveUnchanged
    /\ UNCHANGED <<summary, tree, projected, leaving, retry, attempts>>

\* The in-flight entry is deleted in one critical section, the barrier is
\* released in the next.
FinLeaves ==
    /\ FinAt("leave")
    /\ fin' = NoFinalizer /\ leaving' = TRUE
    /\ LiveUnchanged /\ Healthy
    /\ UNCHANGED <<fdurable, retry, attempts>>

FinReleasesBarrier ==
    /\ leaving /\ leaving' = FALSE
    /\ finalizing' = FALSE /\ stopped' = TRUE /\ timer' = "off" /\ known' = TRUE
    /\ UNCHANGED <<durable, publishing, pending, deferred, last, seeded, running, owner,
                   blocked, context, recovery, round, booting, bounds>>
    /\ UNCHANGED <<fdurable, fin, retry, attempts>>

-----------------------------------------------------------------------------
(* RetryMeetingSessionFinalization, and restarts. *)

\* finalizationRetryable; the status of the session is not looked at.
RetryArrives ==
    /\ retry = "none" /\ attempts < MaxAttempts
    /\ RetryOpen \/ session = "closed"
    /\ ~Completed /\ summary # "completed"
    /\ retry' = "checked" /\ attempts' = attempts + 1
    /\ LiveUnchanged /\ Healthy
    /\ UNCHANGED <<fdurable, fin, leaving>>

\* The barrier falls before the request knows that it may run.
RetryReopens ==
    /\ retry = "checked" /\ retry' = "reopened"
    /\ stopped' = FALSE /\ finalizing' = FALSE /\ known' = TRUE
    /\ UNCHANGED <<durable, publishing, pending, deferred, last, seeded, running, owner,
                   timer, blocked, context, recovery, round, booting, bounds>>
    /\ UNCHANGED <<fdurable, fin, leaving, attempts>>

RetryEnters ==
    /\ retry = "reopened" /\ retry' = "none"
    /\ fin' = IF FinAt("idle") THEN [NoFinalizer EXCEPT !.pc = "start"] ELSE fin
    /\ LiveUnchanged /\ Healthy
    /\ UNCHANGED <<fdurable, leaving, attempts>>

FRestart ==
    /\ Restart
    /\ fin' = NoFinalizer /\ leaving' = FALSE /\ retry' = "none"
    /\ UNCHANGED <<fdurable, attempts>>

-----------------------------------------------------------------------------

FinStep ==
    \/ FinStarts \/ FinRaisesBarrier \/ FinEntersWait \/ FinAwaits \/ FinGivesUpRound
    \/ FinLists \/ FinReadsRow \/ FinAdoptsRow \/ FinPlansNoFlush
    \/ \E r \in Slots : FinFlushes(r)
    \/ FinOpensSummary \/ FinProjects \/ FinRemembers \/ FinSavesTree \/ FinSummarizes
    \/ FinFails \/ FinCompletes \/ FinLeaves

RetryStep == RetryReopens \/ RetryEnters

FNext ==
    \/ Live
    \/ FinalizationArrives \/ FinStep \/ FinReleasesBarrier
    \/ RetryArrives \/ RetryStep
    \/ FRestart

FSpec == FInit /\ [][FNext]_fvars

\* The goroutine of a finalization keeps running and its calls time out.
FFairSpec ==
    /\ FSpec /\ Fairness
    /\ WF_fvars(FinStep) /\ WF_fvars(FinReleasesBarrier) /\ WF_fvars(RetryStep)

-----------------------------------------------------------------------------
(* Properties. *)

\* ai_analysis.go:2145, the flush takes the flag from a round it gave up: two
\* rounds may be in flight, but only one that is still wanted.
OneWantedRound ==
    \A r, q \in Slots :
       InFlight(r) /\ InFlight(q) /\ r # q => round[r].superseded \/ round[q].superseded

\* ai_analysis.go:2487 and 2835 compare the largest numbers only.  Still the
\* first finalization of a session, when it completes without reporting a gap,
\* leaves a tree over every final it listed.  A repeated one need not: rounds an
\* earlier attempt gave up on are not known to it any more.
CompleteMeansCovered ==
    [][progress' = "completed" /\ progress # "completed" /\ attempts = 1 =>
          fin.segs \subseteq tree /\ fin.segs \subseteq fin.snap.done]_fvars

\* ai_analysis.go:1766, the projection is written without comparing versions.
\* When finals are lost from the row that the first finalization listed, or to
\* a late round, that finalization reports itself incomplete.
Rewound == live.done \ live'.done

RewindIsReported ==
    [][attempts = 1 => \/ Rewound = {} \/ fin.gap
                       \/ FinAt("project") /\ Rewound \cap fin.segs = {}]_fvars

\* The finalized projection is overwritten only by a round that the barrier
\* gave up on or had not to wait for, and by the flush of another attempt.
Unawaited(r) == round[r].superseded \/ At(r, "fail") \/ fin.flush = r

ProjectionOutlivesRounds ==
    [][projected /\ ~projected' => \E r \in Slots : Unawaited(r) /\ round'[r] # round[r]]_fvars

\* A finalization that raises the barrier comes to an end and, unless a
\* statement or a restart was in its way, to a terminal row, whatever rounds
\* it waits for and whatever the clients retry.
FinalizationEnds ==
    FinAt("barrier") ~> FinAt("idle") /\ (progress \in {"completed", "short", "failed"}
                                           \/ faults + crashes > 0)

\* Claims of the repository that its code does not keep.

\* live-analysis-scheduler.md:79: a superseded round can never rewind the
\* finalized tree.
SupersededNeverOverwrites ==
    [][\A r \in Slots :
          projected /\ round[r].superseded /\ round'[r] # round[r] => projected']_fvars
=============================================================================
