# DeciScope API: verification project

DeciScope API is a Go backend that sends a bot into Teams meetings, stores the
transcripts the bot uploads, analyzes them with a language model while the
meeting runs, and writes a final summary and discussion tree when it ends.
This directory holds TLA+ models of the parts of it in which several
goroutines, requests, timers and rows of the database interact, TLC instances
that check them, and TLAPS proofs of their main safety properties.

Paths below are relative to `internal/` of the repository unless they start
otherwise; `PROJECT.json` maps every definition to the lines it models.

## 1. Inventory

### Meeting session lifecycle

`application/meeting_session.go`, `meeting_session_watchdog.go`,
`adapter/repository/postgres/meeting_session.go`, `adapter/http/meeting_session_api.go`.

- State: one row per session in `meeting_sessions` (status, last bot report
  time, update time, join URL, metadata); in memory the set of finalizations in
  flight, the fallback timers, and the watchdog's memory of what it has warned of.
- Operations: create or reuse, status report, heartbeat, end, delete, stale
  sweep, metadata update, watchdog scan; a finalization goroutine and a
  fallback timer per ended session.
- Interactions: HTTP handlers and the bot call the service; the service calls
  the bot control client and the analysis service (the *ended observer*), and
  broadcasts on the realtime hub.
- Hard: every operation reads the row, decides, and writes by id with no
  transaction around the two; commands to the bot may succeed although their
  answer is lost; timers and goroutines die with the process.
- Correct when: a session that is over stays over, `ended` is written after
  the finalization, of two open sessions
  of a meeting one has its bot, an end request is carried out, a session whose bot
  vanished is ended, and a failure that is not fatal does not end a call.

### Bot control (`infrastructure/botcontrol/client.go`)

Stateless HTTP client with two commands, join and end. Its outcomes are
delivered, refused, and delivered with a lost answer.

### Live analysis rounds

`application/ai_live_scheduler.go`, `ai_analysis.go`, `adapter/repository/postgres/ai_analysis.go`.

- State: per session, in memory: pending finals, finals deferred for one more
  try, last payload and version, a single-flight flag with a generation, a
  timer, a retry block, the planning of the meeting context, and the flags of
  the finalization barrier. Durable: the `live` row with payload and version,
  and the transcript table.
- Operations: publication of a final, trigger evaluation, timer dispatch and
  seal, the round (seed, provider call, checks, persist, reorganization,
  completion, failure, reload on conflict), recovery of durable finals on a
  tick, recovery of active sessions at boot, eviction of idle sessions.
- Interactions: transcript ingest publishes; session status is looked up before
  each seal; the finalization takes the same state over.
- Hard: five triggers race for one flag; minutes pass between the read of the
  version and the write that depends on it; a failing round writes as well; a
  publication is a call after a commit and may be lost.
- Correct when: one provider call per session is in flight, the row never
  rewinds, no final is lost or resent for ever, every final is analyzed.

### Finalization of a meeting

`application/ai_analysis.go` (from `FinalizeMeetingSession`), `ai_finalization_state.go`, `ai_final_*.go`.

- State: rows `progress` and `final` per session; the barrier flags in the live state.
- Operations: the guarded run (barrier, wait for the round in flight, wait for
  the last finals, flush rounds, projection of the live row, tree, summary),
  and the retry endpoint.
- Hard: the barrier gives up on a round after a timeout while the round still
  runs; the projection writes without comparing versions; a retry clears the barrier.
- Correct when: a completed summary covers every final that was stored, the
  finalized tree is not overwritten, the finalization ends.

### Tree audit (`application/ai_tree_audit*.go`, `adapter/repository/postgres/tree_audit.go`)

- State: rows of audit runs with a claim; per session an in-memory schedule and rate limits.
- Operations: schedule, claim, run against a snapshot, validate and apply
  operations, final review.
- Hard: the tree moves while the auditor thinks; claims of a dead process.
- Correct when: an operation is applied only to the tree version it was
  validated against, and one audit per session runs.

### Transcript ingest and store (`application/transcript.go`, `adapter/repository/postgres/transcript.go`, `adapter/http/transcript_api.go`)

- State: segments with a sequence number per session. Operations: idempotent
  insert, list. Interactions: publishes to hub, analysis and activity tracker.
- Hard: retries of an insert that committed; the same number with another text.
- Correct when: one number names one final, and a retry changes nothing.

### Realtime hub (`adapter/realtime/*.go`)

- State: two hubs, one for transcripts and notes per session and one for the
  durable events of a meeting, each with clients and their bounded queues.
  Operations: subscribe, catch up, publish, write, close, leave. Hard: a full
  queue, catch-up against publication, three goroutines that end a connection.
  The reset of a meeting starts its event numbers anew under connections that
  remember the old ones, and an append may take effect although it failed.
- Correct when: nothing falls through between catch-up and relay, the numbers
  a browser gets increase, and a connection that is gone is forgotten.

### Watchdog transcript health, bot media health

`application/meeting_session_watchdog.go`, `transcript_activity.go`,
`bot_media_health.go`, `bot_media_metrics.go`. Edge-triggered classification of
silence and of media quality, with memory of what was reported last. Correct
when a state is reported once per change, and recovery re-arms it.

### Discussion tree, agenda progress, extraction heuristics

`application/ai_tree*.go`, `ai_tombstone.go`, `ai_node_identity.go`,
`ai_agenda_*.go`, and the lexical modules (`ai_kind_validator.go`,
`ai_item_semantics.go`, `ai_proposition.go`, ...). Sequential, pure
transformations of a payload. Correct when the tree stays a forest with
resolvable parents, removed nodes do not return, and manual agenda overrides win.
A batch of up to 24 operations is one long sequence of legal calls, and a round
removes details again after it has assembled the tree.

### Workspaces, invitations, authentication, access

`application/workspace/*.go`, `application/auth/service.go`,
`application/access/service.go`, `adapter/http/access.go`. Rows of members and
invitations, session tokens. Hard: requests interleave between their
statements: acceptance against revocation and rollback, removal against an
access check, a removal that took effect and is answered by an error. Correct when whoever is a member was invited, and whoever was
removed has no connection left.

### Client diagnostics (`application/client_diagnostics.go`, `infrastructure/clientdiagnostics/file_sink.go`)

Batches with limits and deduplication, and a rotating file with a retention limit.

### Parts without a protocol

Meetings (plain rows but for their durable events, which `EventHub` models), the provider client (one HTTP call with a
timeout; its outcomes are inputs of the rounds), configuration and wiring, the
database, e-mail and Firebase adapters, the offline quality evaluation, and the
in-memory repositories used as doubles in tests.

## 2. Modules

| Module | Models | Proofs |
|--------|--------|--------|
| `MeetingSession` | session lifecycle, bot commands, watchdog ending | `MeetingSessionProofs` |
| `CoverageRegister` | what the live analysis promises: a versioned register of analyzed finals | |
| `LiveAnalysis` | live rounds, scheduler, recovery; implements `CoverageRegister` | `LiveAnalysisProofs` |
| `LiveFinalization` | extends `LiveAnalysis` with barrier, flush, projection, summary, retry | `LiveFinalizationProofs` |
| `TreeAudit` | the audits of the tree beside a round and a finalization | `TreeAuditProofs` |
| `TranscriptHub` | ingest of finals and the transcript hub | `ServicesProofs` |
| `EventHub` | durable events: append, publish, catch-up, relay, reset | `EventHubProofs` |
| `SessionHealth` | the watchdog's reports of a silent bot and of a missing transcript | `ServicesProofs` |
| `BotMedia` | the bot's own media reports | `ServicesProofs` |
| `WorkspaceMembers` | members, invitations, removal against websockets | `WorkspaceMembersProofs` |
| `DiscussionTree` | the shape of the tree under rounds and reorganizer batches | `DiscussionTreeProofs` |

The `MC` modules hold the instances. How the models compose: `LiveFinalization` runs on the
state of `LiveAnalysis` and keeps all of its steps; `LiveAnalysis` is shown to
implement `CoverageRegister`; `TreeAudit` carries its own small copy of the
round and of the finalization, reduced to what they do to the row and to the
audit's memory; `TranscriptHub` hands finals to the analyzer that `LiveAnalysis`
starts from, and to the tracker that `SessionHealth` reads. `MCServices` (four services) and
`MCSideBySide` (two sessions, the tree, the events) put models side by side that share no state: the initial state chooses which one
runs, the others keep their initial state, so the graph is the sum of theirs
and a property of one says what it says alone.

## 3. What is modelled

### `MeetingSession`

The rows are the shared state and one SQL statement is one action. A request
is a goroutine `proc[p]` whose `pc` names the statement it executes next, with
its local variables: the session, the status to write, whether the failure is
fatal, and the status it read.

| Code | Model |
|------|-------|
| status column; `last_bot_status_at`; `updated_at` | `row`; `seen` (never, fresh, silent for 180 s); `old` (before the 2 h cutoff) |
| rows in `meeting_session_ai_analyses` | `analyses` |
| `CreateMeetingSession` | `CreateArrives` (with the sweep in front), `CreateReuses`/`CreateInserts`/`CreateFails` (one transaction under a table lock), `SendJoinCommand`, `MarkCommandSent`, `MarkCommandFailed` |
| `UpdateMeetingSessionStatus` | `ReportArrives`, `UpdateRead` with the pure decision `Decide`, `UpdateWrite` or `UpdateWriteEnding`, `StartFinalization` |
| `EndMeetingSession`, `finalizeAfterFallback` | `EndArrives`, `EndLookup`, the update above with task `end`, `SendEndCommand`, `FallbackFires` |
| `startMeetingSessionFinalization` goroutine | `fin[s]`, `FinalizerReturns`, `FinalizerPersistsEnded` |
| `DeleteMeetingSession` | `DeleteArrives`, `DeleteCheck`, `DeleteRows` |
| `MarkStaleMeetingSessions`, `TouchMeetingSessionBotSeen` | `CleanupStale` (and `SweepFirst`), `Heartbeat` |
| watchdog scan | `WatchdogScans` (one listing), `WatchdogEnds` (judged by that snapshot) |
| passing time, process restart, the bot | `BecomesSilent`, `BecomesOld`, `Restart`, `BotLeaves` |

Abstracted: metadata, ids and URLs (all sessions of an instance share one
join URL, the only case in which create can reuse a row), broadcasts, the
content of errors. A status write may fail, or take effect with its answer lost
(`AnswerLost`), and the goroutine then returns in both cases. Not modelled:
`UpdateMeetingSessionMetadata`, whose columns no
guard of the model reads.

### `LiveAnalysis`

A critical section under the service mutex, a database statement and a
provider answer are one action each. A handler ends with the evaluation of the
trigger, which is part of its last action (`Evaluate`).

| Code | Model |
|------|-------|
| transcript table, live row, status allowing rounds | `stored`, `live`, `session` |
| a payload | the finals it has seen (`done`) and, per final, the round after which it may be sent once more (`retry`) |
| per-session state in the map | `known`, `pending`, `deferred`, `last`, `seeded`, `running`, `owner` (the round of `runningGeneration`), `timer`, `blocked`, `context`, `finalizing`, `stopped` |
| `PublishTranscriptSegment` | `PublishTranscriptSegment` after `IngestStores` |
| `evaluateLiveAnalysisTrigger`, `dispatchScheduledLiveAnalysis` | `Evaluate`; `TimerFires` (status lookup) and `DispatchReturns`, `DispatchTooEarly`, `DispatchSeals` |
| `runLiveAnalysis` | `RoundStarts`, `RoundLooksUp`, `RoundSeeds`, `ProviderAnswers`/`ProviderFails`, `RoundChecksBarrier`, `RoundPersists`, `RoundReorganizes`, `RoundCompletes` |
| `handleLiveAnalysisFailure`, `handleStaleLiveAnalysisResult` | `RoundPersistsFailure`, `RoundReloadsAfterFailure`; `RoundReloads` |
| `recoverDurablePendingFinals` | `RecoveryStarts`, `RecoveryLooksUp`, `RecoverySeeds`, `RecoveryLists`, `RecoveryMerges` |
| `recoverActiveLiveAnalysisSessions`, restart | `BootRecovers`, `Restart` |

Abstracted: debounce, cooldown and backoff become the choice
`DispatchTooEarly`; a callback of an older timer generation returns without
effect and is left out; whether a final is reflected in the payload is the
provider's choice (`poor`); the publication's three critical sections are one
action; history rows, whose errors are ignored, are left out. Not modelled:
recovery from a panic in a round, eviction after three idle hours, the review
by the tree auditor. `finalizing` and `superseded` are set by
`LiveFinalization` only.

`CoverageRegister` is the promise: a version number and a set of covered
finals, where every step stores a final or adds a round of stored finals under
the next version. `LiveAnalysis` implements it with
`version <- live.v, covered <- live.done`.

### `LiveFinalization`

Extends `LiveAnalysis`: the steps of the live analysis stay as they are, and
the goroutine of `generateFinalSummary` (`fin`, one per session, as its
in-flight map allows one) runs between them, statement by statement. A flush
round is a round of the live analysis that this goroutine starts and waits for.

| Code | Model |
|------|-------|
| progress row, final row, tree row | `progress` (`short`: completed with `finalizationIncomplete`), `summary`, `tree` |
| a live row holding the finalized projection | `projected` (a history variable) |
| `FinalizeMeetingSession`, start of `generateFinalSummary` | `FinalizationArrives`, `FinStarts` |
| `prepareFinalization`, `awaitSealedLiveRound` | `FinRaisesBarrier`, `FinEntersWait`, `FinAwaits`, `FinGivesUpRound` |
| `waitForStableFinalSegments` | `FinLists` |
| `latestStableLiveSnapshot` | `FinReadsRow`, `FinAdoptsRow` (before and after the flush) |
| the flush loop | `FinPlansNoFlush`, `FinFlushes`, `FlushReturns` |
| summary row opened, `persistFinalizedLiveProjection` (twice), `persistFinalTreeSnapshot` | `FinOpensSummary`, `FinProjects`, `FinRemembers`, `FinSavesTree` |
| summary, `persistFinalSummaryFailure`, completion | `FinSummarizes`, `FinFails`, `FinCompletes` |
| deferred cleanup, `finishFinalizing` | `FinLeaves`, `FinReleasesBarrier` |
| `RetryMeetingSessionFinalization` | `RetryArrives`, `RetryReopens`, `RetryEnters` |

Abstracted: the progress, final and tree rows are written by this goroutine
only, so their consecutive statements are one action, and the memory read of
`latestStableLiveSnapshot` is taken together with its row lookup. The quiet
period and the polling of the transcript become the moment at which `FinLists`
happens; that the deadline passed is the disjunct in which the forwarded final
is missing. The deterministic repairs, the agenda reconciliation and the tree
reorganization change the payload and not its coverage. Left out: the final
tree review (the tree auditor is off in these instances), a missing
provider, panics.

### `TreeAudit`

| Code | Model |
|------|-------|
| live row; rows of `meeting_tree_audit_runs` by age | `live` (analysis version and tree version); `runs` |
| snapshot hash | the payload and the transcript rows it was taken with |
| last payload and version, last audited version, pending reason, closed flag, cooldowns, requests that captured a payload, executions | `last`, `audited`, `pending`, `closed`, `cool`, `job`, `flight` per lane (live audit, final review) |
| `tick`, `considerTreeAudit`, `scheduleTreeAudit` | `Tick`, `RoundCompletes`, `ScheduleTreeAudit` with `Suppressed`, `Coalesced`, `Postpones` |
| `runTreeAudit` | `AuditLoads`, `AuditClaims`, `AuditIsLimited`, `AuditMarksCall`, `ProviderAnswers`/`ProviderFails`/`AuditPanics`, `AuditMayApply`, `AuditRereads`, `AuditApplies`, `AuditSaves` |
| `finishTreeAuditFlight` | `FinishTreeAuditFlight` |
| finalization as the audit meets it | `FinCloses`, `FinCancels`, `FinReads`, `FinIsReviewed`, `FinProjects` |
| rolling hour, restart | `HourPasses`, `Restart` |

Abstracted: what validator and canonicalization make of a proposal is the
choice between clean, applied and unapplied; the barrier flag `finalizing` is
`closed`; the hour window ages all rows at once; the latest row is the last
inserted. The follow-up that `FinishTreeAuditFlight` schedules gets the context
which the finish has just cancelled: `ScheduleTreeAudit("finish")` starts a
flight that is `dead` from its first statement. It is scheduled before the next
audit finishes. Left out: the replay of an audit that was applied before;
failures of the round and the barrier giving up (in `LiveAnalysis` and
`LiveFinalization`).

### `TranscriptHub`, `EventHub`

| Code | Model |
|------|-------|
| `StoreTranscriptSegment`, with repeated deliveries and answers lost after the commit | `Deliver`, `StoreFinal`, `StoreAnswerLost` |
| publication: copy of the subscribers under the lock, then `enqueue` to each | `CopyMembers`, `TrySend`, `DropOldest`, `BlockingSend`, `HubReturns` (analyzer and tracker come after the hub) |
| status, analyses, health, partials | `PublishNote` |
| subscription, write loop, read loop, close of a member's connections | `Subscribe`, `WriteEvent`, `WriteFails`, `WriterLeaves`, `WriterSeesDone`, `ReadEnds`, `ReaderLeaves`, `CloseMember`; `PeerVanishes` is the network |
| `AppendAndPublish` | `AppendEvent` (one transaction numbers and stores; its commit may take effect with an error, and then nobody publishes), `PublishEvent`, `TryEnqueue`, `DropFirst`, `EnqueueBlocking` |
| `ResetMeeting` | `ResetDeletes`, `ResetRenumbers`, `ResetFails` (two statements of one transaction) |
| `ServeWS` of events | `Join`, `ReadCatchUp`, `WriteCatchUp`, `GoLive`, `WriteLive`, `Leave` |

`enqueue` tries to send, takes the oldest out of a full channel, and sends
again without alternative: these are three steps, between which other
publishers run. The DELETE of a reset takes the events committed so far, its
UPDATE waits for the appends that hold the meeting's row and starts the numbers
at 1: an event committed in between keeps its number, and an append that reaches
this number later fails on `UNIQUE (meeting_id, seq)` (`FreeNumber`). A
connection keeps its `lastSeq` across a reset and leaves out the events numbered
anew (`overtaken`). One reset runs at a time; no HTTP route calls
`ResetMeeting` today. Abstracted: frames, origin checks, events that are not stored
in `EventHub`, closing by logout.

### `SessionHealth`, `BotMedia`

`SessionHealth` is one session under the watchdog: `ScanRow` lists the row and
reads the clock, `EvaluateBot`, `EndSession` and `EvaluateTranscript` judge that
snapshot, `ForgetReaders` clears the tracker and the metrics of a session that
left the list. `RecordMetrics` and `TouchBotSeen` (the two
halves of a heartbeat, the first for a session in any status), `StatusChanges`,
`ReceiveSegment` (the stamp) and
`TrackSegment` (the tracker, behind the hub) run between them, and `Tick` is
the clock, in units of the thresholds. `toldBot` and `toldTranscript` are what
the browsers heard last. `joined` stands for every listed status but
`recording` and `ending`. `BotMedia` has `RecordMedia`, which is `Record` under
its lock, and `PublishMedia` after the lock; the start and the duration of an
outage are left out.

### `WorkspaceMembers`

| Code | Model |
|------|-------|
| `workspace_members`, `workspace_invitations` | `role`, `inv` (`revoked` is `revoked_at`) |
| `CreateInvitation` | `AskToInvite`, `ListInvitations`, `ClearExpired`, `InsertInvitation`, `SendInvitation`, `UndoInvitation` |
| `AcceptInvitation` (select without lock, update by id, commit) | `AskToJoin`, `SelectInvitation`, `CommitJoin` |
| `RevokeInvitation`, `RemoveMember` and the closing after it, `UpdateMemberRole` | `Revoke`; `AskToRemove`, `DeleteMember`, `CloseMembers`; `AskToChangeRole`, `ChangeRole` |
| access check and entry of a websocket | `CheckAccess`, `EnterHub`, `LeaveHub` |

`DeleteMember` has two outcomes: the handler goes on to close the connections,
or the DELETE is answered by an error although it took effect, and the handler
returns. `kept` is a history variable: why a connection may outlast a removal
(`late`: it entered the hub after the closing; `unanswered`: the removal was
answered by an error, and a retry gets not-found).

A person stands for account and address. `Revoke` takes the role lookup and
the update as one step. Legacy invitations without a token and the creation of
workspaces are left out.

### `DiscussionTree`

| Code | Model |
|------|-------|
| topics with agenda references and split group, groups, details | `topics`, `refs`, `split`, `dynamic`, `groups`, `parent`, `dip` of a tree |
| `rebuildDiscussionTree` | `RoundPlaces`, `RoundDismisses`, `RoundMaterializes`, `RoundPromotes`, `RoundBootstraps`, `RoundMerges`, `RoundGroups`, then `Rebuilt`: `Dissolve`, `Assemble`, and `Without` the empty topics with agenda |
| the passes of a round after the assembly, `preserveTreeOnIntegrityFailure` | `RoundEnds`: the details taken out (`retired`), `Emptied` topics removed, what the check finds (`flaws`), the tree kept (`Selected`) |
| `assembleTree`, `validateTreeIntegrity` | `Assemble`, `Flaws` and `Integrity` |
| the planned agenda becomes known | `AgendaPlanned` |
| `applyTreeOperations` | `CreateGroup`, `MoveNodes`, `DeleteEmptyGroup`, `CreateTopic`, `MergeTopic`, `SplitTopic` on `draft`; `BatchAdopted` or `BatchDiscarded` |

After the assembly a round still takes details out: those a correction retires
(`repairCorrectionSupersessions`), those superseded before
(`enforceExplicitSupersessionMonotonicity`), those whose label is rejected, and
issues that repeat a decision. Which ones is wording, so the model takes any set.
Nothing assembles the tree again: a group that is emptied stays, and an emptied
Unclassified loses its node while its edge stays
(`pruneEmptyFinalUnclassifiedTopic`, `ai_analysis.go:7066`). Either makes the
integrity check reject the round, and the previous tree is kept. `canonicalizePropositionItems`, called in between, merges nothing:
`crossKindPropositionCompatible` is constantly false.

Where wording decides (which topic an item belongs to, which items share a
subject, whether an agenda is young) the model chooses. Abstracted: topics lie
directly under the root; labels, renames, relations, candidates, tombstones and
the conversion of older trees are left out; a rejected operation is no step;
a round makes one kind of placement; the reorganizer runs at most once after a round; new
ids are an arbitrary unused one. What the code does and the model keeps,
although a reader may not expect it: `merge_topic` accepts
`topic-unclassified` as target, a merge may exceed `maxGroupsPerTopic`,
grouping in a round looks at the limit of the meeting only, merging topics of
two different splits clears the split and so loses the whole batch, and the
count of dynamic topics is not lowered by merges. A companion move of
`create_topic` is counted as proposed, not as applied (`ai_tree.go:3412`), so an
empty topic can stand until the next round.

## 4. What the runs check

| Run | Instance | Shows |
|-----|----------|-------|
| `session_safety` (1.32 M states) | one session, two requests, watchdog; a failing statement, a lost answer or a restart | revival of a session that is over, ending without summary and soft failures of a joined call happen only through the read-then-write race the code admits (`RevivedOnlyByStaleWriter`, `EndedByFinalizerOrLapsed`, `JoinedSurvivesSoftFailure`); a session that is ending loses the last one at work to end it only by a failure or the bot's own report (`EndingIsNotForgotten`); a requested session is being worked on until a statement fails (`RequestedIsBeingJoined`) |
| `session_live` (629 k) | one session, watchdog, one failing statement, fair; starts from rows in any stage, as a restart leaves them | a session whose bot is gone leaves the call (`GoneBotIsNoticed`); a delivered end request ends the session, or ending is overwritten, or the failing statement leaves nobody at work (`EndRequestCompletes`) |
| `side_by_side` (721 k) | two sessions of one URL; three items, two groups, two agenda topics, two rounds with a batch of two operations each; two appenders, a reset, a browser that names number 1 and its channel of one event | of two open sessions one has a bot that was started for it (`UncommandedIsAlone`); readers see trees that pass the check, and what is rebuilt from any draft is a forest (`ShownTreeIsSound`); a round is rejected only for the details it took out after the assembly (`RejectedForRetiredOnly`); no operation leaves a node without a topic (`OperationsOrphanNothing`); between catch-up and relay no stored event falls through but the named ones (`NothingLostAtSeam`) |
| `live_safety` (1.15 M) | two finals, two rounds at a time; a fault, a restart or the end of the session | single flight (`OneRoundInFlight`), a version names one payload (`VersionNamesPayload`), no final dropped (`NoFinalDropped`), the register (`RegisterSpec`), one deferral per final (`DeferredAtMostOnce`) |
| `live_liveness` (312 k) | a filler and a final, one fault, one restart, fair | every final with content is analyzed (`StoredFinalIsAnalyzed`) |
| `final_safety` (1.34 M) | two finals, two slots; two of: attempt, fault, restart | only one round in flight is still wanted (`OneWantedRound`); a first finalization that completes without reporting a gap leaves tree and payload over all it listed (`CompleteMeansCovered`); a round the barrier waited for leaves the projection alone (`ProjectionOutlivesRounds`); a first finalization under which the row loses finals reports a gap (`RewindIsReported`) |
| `final_liveness` (127 k) | one final, one slot, one restart, fair | a finalization that raised the barrier ends and, unless it was cut off, leaves a terminal row (`FinalizationEnds`) |
| `audit_safety` (1.13 M) | one round, ticks and a finalization beside the audits; one of: fault, restart, an hour, a final | the tree goes back only where a finalization lost an answer (`TreeRewindsOnlyInDoubt`); an audited version has its row (`AuditedHasRow`); the limits hold (`CallsWithinLimits`); the streak counts the rows (`StreakCountsRuns`) |
| `services` (161 k) | the four services, each on its own | `HandedFinalReachesAnalyzer`, `ClosedConnectionIsForgotten` (transcript hub); `OutageIsTold`, `WarningMeansSilence` (watchdog); `MediaNeverReturns`; `MembersWereInvited`, `RemovedIsDisconnected` |
| `session_revival`, `final_superseded`, `audit_streak` | the smallest instance that shows it | statements of the repository the code does not keep, section 6 |

Each passing safety run has one type invariant besides (`TypeOK`,
`FinalizationTypeOK`, `AuditTypeOK`, `EventTypeOK`, `ServicesTypeOK`; that of the
tree is part of `ShownTreeIsSound`).

Bounds. Two requests are enough for each race in the session code, which is
between one read and one other write; a second session matters only to create.
`MaxFaults` and `MaxCrashes` limit failed statements and restarts, and the
state constraints `OneDisturbance` and `TwoTroubles` keep one behaviour to one
or two of them: each recovery path is one failure deep, and the failure may hit
any statement. `BotReports` holds one status of each class `Decide`
distinguishes. `N = 2` finals give every order of a final before, inside and
after a round, and the resend of a deferred final needs exactly a later one.
Two `Slots` let a failing round, which has given up the flag and not yet
written, overlap its successor, or a round given up overlap the flush; a third
would need two such rounds. The liveness runs keep one slot, since a failing
round that cleans up only delays the next one.

`MaxAttempts = 2` lets a retry meet a finalization in flight, one that is
leaving, or the remains of one; the liveness run has one attempt and no failing
statement, so what a partial failure of the saves leaves is a matter of
`final_safety` only. `Plain` keeps
`final_safety` within reach: no round leaves a final for another try, which
would make no difference to a finalization, and restarts or a planning still
under way meet one final only. Statements fail only once a finalization was
asked for (`TwoTroubles`); before that they are the matter of `live_safety`. Two finals are what it takes for the largest
number to be covered and a smaller one not. `CompleteMeansCovered` and
`RewindIsReported` were also explored with one attempt and three faults, and with
one fault and one restart, where they hold. `RetryOpen`
FALSE is an assumption on the clients, that they retry only sessions that are
over; nothing in the code enforces it, and with TRUE `OneWantedRound` does not
hold.

In `audit_safety` every limit is one or two, so that it is reached; one version
written by a round is enough to make a snapshot stale. In `services` the queue
holds one event, so two events overflow it; two publishers race for the place
that was made; the clock reaches every threshold;
`HealthBound` allows two of heartbeat, segment and status write in one
behaviour. In `side_by_side` the place one appender makes in the
channel is taken by the other; three numbers are one the browser names, and two
beyond it that can come in the wrong order, or again after the reset; with three
appenders the model was explored to the end as well (1.25 M states). Two invitations and three requests let an acceptance meet a
revocation, a rollback and a second invitation of the same person. Three items
and two groups fill a group, nest one in another and empty it again; two
operations are what it takes for one to rely on what another left.

`CHECK_DEADLOCK FALSE` appears where the system may stop: a closed session
whose finals are handled, services whose bounded inputs are used up, and a tree
after its last round.

Fairness. In `MeetingSession` running goroutines run on, timers fire, the
provider calls of a finalization time out, the watchdog ticks, and time passes
for a session nothing touches; clients and the bot promise nothing. In
`LiveAnalysis` the same holds of goroutines, timers, ticks and calls. Sealing
gets strong fairness: a callback may find itself too early, each time anew, but
LiveMaxWait after the oldest pending final, and after the longest backoff, it
no longer does. Storing a final, closing a session and restarting have no
fairness. In `LiveFinalization` the finalizing goroutine and the one of a retry
run on: each of their statements and calls has a timeout, and so have the two
waits. Their arrival has no fairness. In `TranscriptHub` publishers and the two
loops of a connection run on and an open peer reads what is written; a blocked
send gets strong fairness, since a place that becomes free may be taken by
another sender first; a read of a connection closed by the server fails, while
one of a vanished peer may block for ever. `ServicesFairness` is the same list
for the run in which the hub was chosen.

## 5. What is proved

Eight modules are checked by TLAPS, for all sets of sessions, goroutines, slots,
people and connections, any number of finals and events, and any bounds. The
assumptions are the modules' named assumptions on their constants and, where a
theorem says so, that an ended observer is registered, that no bot reports
`requested`, that the threshold of a transcript warning is above zero, or that
only sessions that are over are retried (`~RetryOpen`).

- `MeetingSessionProofs`. The inductive invariant is `TypeOK` and that every
  goroutine is `Sound`: it has the locals its next statement needs, and a status
  it is about to write is one the rules ask for, given what it read.
  `TypeCorrect` is its first part. `RevivalIsStale`, `EndedIsFinalized`,
  `SoftFailureIsSuppressed`: two lemmas give, for each step, which session's
  status changes and which goroutine wrote it, and each theorem is a case split
  over those. `EndingIsRemembered`: a step that leaves an ending session with
  nobody at work is compared with what was at work before it; a finished update
  starts the finalization or hands over to the end command, the command to the
  timer, the timer to an update. `OneUncommanded` adds that a goroutine which is about to
  write an open status it did not find, a report of the bot or the outcome of a
  join command, works on a session whose bot exists (`Caused`): so a session
  without a bot opens by the insert of create only, which has found no open one
  under the lock of the meeting. `RequestedIsWorkedOn` adds that no goroutine holds a
  write of `requested` (`NoRequestedWrite`), so that only create makes a session
  requested.
- `LiveAnalysisProofs`. `TypeCorrect`, `VersionsNamePayloads`,
  `ImplementsRegister`, `DeferralsBounded`, `SingleFlight`. That a version names
  one payload is not inductive: a round that persists replaces the row by its
  `next`, so one needs that `next` extends `base` by its finals
  (`NextExtendsBase`), that a snapshot older than the row never equals it in
  version (`KnownVersions`), and that rounds carry stored finals only
  (`OnlyStored`). Every change of the row is then a swap from the version the
  round started from, which is a step of the register, a reorganization, or no
  change. `NothingDropped` adds that the single-flight owner is the only round
  in flight and that each round accounts for its finals.
- `LiveFinalizationProofs`. `FinalizationTypeCorrect`, which needs the bound on
  the tries of a flush (`TriesBounded`) and that a set of finals has a largest
  one (`LargestExists`). `OnlyOneIsWanted` and `ProjectionStays` rest on
  `WantedIInv`: a round that is wanted owns the flag (`WantedOwnsFlag`); a
  finalization or retry means the session is over (`FinalizedIsClosed`), so behind
  the barrier, and after a retry lowered it, no timer leads to a round
  (`NothingDispatched`); the wait is for the owner (`AwaitsOwner`); and once the
  wait is over, or a projection is written, only the flush's round is wanted
  (`OnlyFlushWanted`). `CompletionsAreCovered` rests on `CoverIInv`. Until the
  first projection is written, the payloads that the row, memory or a goroutine
  holds form a chain below the row: of two of them the one of the higher version
  has seen more (`Chained`). An attempt that gave nothing up has waited for the
  round in flight, so that only its flush runs (`AllAwaited`, `Barred`); the
  flush starts from no less than the snapshot it was planned with and brings what
  that lacks (`FlushCovers`); and a snapshot that is taken is never older than
  the one at hand, so the last one covers the finals that were listed
  (`SnapshotCovers`).
  `RewindsAreReported` rests on `RewindIInv`, which follows the row through three
  states. In `Clean` only compare-and-swaps have written it, so it is `Chained`.
  In `Rewritten` the projection was the last to write it: at most one round that
  the flush did not start is still in flight (`OneOld`), what failed before that
  round is older than what it holds (`FailedAreOlder`), and the barrier or the
  stop lets no new round begin (`Shut`). In `WrittenOver` that round has
  persisted over the projection; nothing but its tidying and failure marks that
  change no payload are left (`Harmless`). A restart leads back to `Clean`.
- `WorkspaceMembersProofs`. `MembersAreInvited`, `RemovedMembersAreDisconnected`.
  `MembersIInv` adds that a request names a row that exists (`RowsNamed`), that
  an acceptance about to commit holds a row that was not revoked or deleted or
  is marked as raced (`JoinsAdmitted`), that a pending row is not revoked, and
  that a connection past the access check counts like an open one
  (`RemovedIsCutOff`). A removal whose error hides its effect marks the
  connections it leaves (`kept`); that they stay is what the code does.
- `EventHubProofs`. `EventsInvariant`, `NothingIsLostAtSeam`. `EventIInv` is the
  type invariant, by which two stored events never share a number although a
  reset gives the numbers out again, and that the connection starts at the
  number the browser named (`ConnectionStarts`), that what was written increases
  and is not beyond `lastSeq`, which is one of the written numbers or the one
  named, and that what was left out is behind something written (`WrittenOK`),
  and that each stored event is written, on its way or excused (`SeamHolds`).
- `TreeAuditProofs`. `AuditTypesHold`, `AuditedTreesHaveRows`,
  `CallsStayWithinLimits`, `StreaksCountRuns`, `TreesRewindOnlyInDoubt`, all from
  `AuditIInv`. The types alone are not inductive: a job without a class would
  start an ill-typed audit (`JobsClassed`). An audit saves the row it has claimed
  (`RowsOwned`), whose call was counted before it was made, and once
  (`CallsCounted`): so the limit holds between the check and the mark, since no
  second live audit can count in between. An audited version keeps its row
  because only the audit in flight can still fail it (`AuditsHaveRows`,
  `StatusKnown`). The streak needs that the row of an audit that is still heard
  is the last one (`StreaksCarried`), and that the finalizer has silenced the
  live audits before its review starts (`FinalizerAlone`). For the rewinds, a
  version names one payload until the projection (`VersionsKnown`), what is
  written over the row was once a version of it (`DocsWritten`), and the row
  stays what the review and the projection have read (`ReviewSeesRow`,
  `ProjectionSeesRow`).
- `ServicesProofs`. `MediaDoesNotReturn`: no report that was replaced is younger than
  the one stored. `OutagesAreTold`: while the watchdog knows nothing of a bot or
  of a transcript, its readers were told last that it is well or it is marked as
  forgotten (`UntoldWhileUnknown`). `WarningsMeanSilence`: every warning is made
  of an age of at least the threshold. `ServiceTypesHold` is about the
  composition `MCServices` of the four services for any values of its constants: each service has an
  inductive invariant, and a step of one is a stutter of the others. For the hub
  it says that a publisher at a full queue is at the queue of a client
  (`PublishersPlaced`), so that taking the oldest event and sending change the
  right queue, and that every final published is stored (`PublishedIsStored`).
- `DiscussionTreeProofs`. `TreeInvariant`, `ShownTreesAreSound`,
  `RoundsFailForRetiredOnly`,
  `BatchesOrphanNothing`, for trees of any finite size. `TreeIInv` says of the
  saved tree and of the draft that they are `Sound`: no set of nodes contains the
  parents of all its members (`Acyclic`), every parent is in the tree
  (`Rooted`), and agenda lies on topics of the tree that are not dynamic
  (`AgendaKept`, without which a round could merge two topics of different splits
  and be rejected for it). It says of the saved tree also that topics which share
  an agenda come from one split and that it passes the check. The tree a round
  hands to `assembleTree` need not be rooted, only acyclic; that is enough for
  the result to be a forest. Taking details and emptied topics out of that forest
  keeps it sound and shallow, so the check can find nothing but empty groups and
  the stray edge, and neither if nothing was taken out; a round that is rejected
  falls back to the saved tree, which passed. The operators
  that follow a chain of parents are recursive functions, so the proof first
  shows that functions with those equations exist (`FollowExists`; for the
  depth `CountExists`, which needs a finite tree without cycles). Facts about
  whole chains then come without induction: the set of the nodes for which such
  a fact fails contains their parents, so it is empty. In this way no group that
  is kept gets deeper (`AssembledDepth`), and the topmost of what was below it
  is its child (`AssembledGroupsHold`). Assumed of the constants: items, groups
  and topics are different, finitely many, and a topic may hold details
  (`HardMaxDepth > 1`; the code has 5).

Only model-checked: all liveness properties, since the prover has no support for
ENABLED, which fairness is made of.

## 6. Where the code and its documents disagree

- `session_revival`: `meeting_session_test.go:278` says a late recording
  report leaves an ended session ended. The service reads the status, decides,
  and writes by id; a report that read before the end writes `recording` over it.
- `final_superseded`: `docs/live-analysis-scheduler.md:79` says a superseded
  round discards its result and so can never rewind the finalized tree. It is
  asked whether it is superseded under the lock, and persists afterwards
  without it; only the version comparison is left, and the projection does not
  advance the version.
- `audit_streak`: `docs/tree-auditor.md:566` says a failed run carries the streak
  on. An audit whose apply transaction fails was classified as applied before,
  and its failed row is saved with a streak of zero.

More statements do not hold in the models and have no run of their own:

- `meeting_session_api.go:415` speaks of a session that ended. Nothing looks at the
  status, and an open session without a progress row is retryable; live rounds
  then run beside the finalization.
- `docs/api.md:617`: a deleted session leaves nothing. A finalization in flight
  upserts its analyses after the delete.
- `ports.go:131`: `ended` is persisted only after the observer returned. An ended
  report for a session found failed or stale is written at once (the disjunct
  of `EndedByFinalizerOrLapsed`).
- `docs/live-analysis-scheduler.md:25`: repository errors leave recovery to a later
  tick. The listing that refills the memory after a restart is not repeated
  (the disjunct `~known` of `StoredFinalIsAnalyzed`).
- `ai_analysis.go:1746`: no live writer can race the projection. As
  `final_superseded`; `RewindIsReported` is what remains of it for the first
  finalization.
- `ai_analysis.go:2831`: coverage gaps stay observable while the finalization
  completes. A gap is remembered by the attempt that met it only. If that attempt
  fails, and the round it gave up on finishes during the next one, the round
  puts its older snapshot over the newer one in memory (1340); should the row be
  unreadable then, that snapshot is projected, and if it has the largest number
  the summary is complete without a gap and without the smaller final. With two
  finals, two attempts and two faults this violates `CompleteMeansCovered`
  without its `attempts = 1`. In the same way a late reorganization can write over
  the flush of a later attempt, whose version number was used before.
- `docs/api.md:498`: media reports with a known id or an older time are ignored.
  Only the id of the last report is known, so of two with the same time the
  first can return (the exception of `MediaNeverReturns`).
- `docs/api.md:87`: a removal closes the member's connections. One that passed the
  access check before and enters the hub after stays, and so do all if
  the DELETE took effect but was answered by an error (`kept` in
  `RemovedIsDisconnected`).
- `docs/tree-auditor.md:588`: a stale result is discarded and retried. If a round
  advanced the analysis version and not the tree version, the tree counts as
  audited and no retry comes.

## 7. Not modelled, and why

- Item extraction, kind validation, semantics, agenda progress, the validator of
  the audit: by far most lines of the repository are heuristics over Japanese
  text, sequential and without state between calls. What decides there is the
  wording, which a model abstracts to a choice; what is left is the choice
  itself, which `LiveAnalysis`, `TreeAudit` and `DiscussionTree` have. For the same
  reason the mapped lines are a small share of the repository: a third of it
  could not be reached without writing these tables out.
- Manual overrides of the agenda progress: `UpdateAgendaProgressOverride` reads
  one row, changes it and upserts it whole, and sets the cache after that. Two
  requests at a time can lose one override, or leave the cache older than the
  row. It has no model.
- Eviction of an idle session after three hours, together with its pending
  finals: it needs a clock of hours against rounds of minutes.
- Recovery from panics in a round, the replay of applied audits, legacy
  invitations, the conflict of a repeated sequence number with other content,
  `UpdateMeetingSessionMetadata`, logout closing connections.
- Authentication (tokens are looked up and checked one statement at a time),
  client diagnostics (limits and a rotating file, each behind a mutex), the
  provider client (its outcomes are inputs of the rounds and audits), plain rows
  of meetings and workspaces, configuration, database, e-mail and Firebase
  adapters, the offline evaluation, and the in-memory doubles.
