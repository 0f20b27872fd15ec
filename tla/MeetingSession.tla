--------------------------- MODULE MeetingSession ---------------------------
(***************************************************************************)
(* The lifecycle of Teams meeting sessions as the API process drives it.   *)
(*                                                                         *)
(* The rows of meeting_sessions are the shared state.  Every HTTP request, *)
(* every background goroutine and the watchdog reads and writes them with  *)
(* single SQL statements and no transaction around a read and the write    *)
(* that follows, so each statement is one action here and a request is a   *)
(* goroutine that walks from one statement to the next.                    *)
(*                                                                         *)
(* All sessions of one run belong to one workspace and one join URL, the   *)
(* case in which create may reuse a row.                                   *)
(***************************************************************************)
EXTENDS Naturals, FiniteSets

CONSTANTS
    Sessions,    \* session ids that may be inserted
    Workers,     \* goroutines of HTTP requests, bounds concurrent requests
    Watchdog,    \* the resident watchdog goroutine
    NoSession,   \* the session of an idle goroutine
    BotReports,  \* the statuses the bot PATCHes in this instance
    Finalizer,   \* TRUE iff an ended observer is registered
    BotControl,  \* TRUE iff the bot control client is configured
    WatchdogOn,  \* DECISCOPE_SESSION_WATCHDOG_ENABLED
    MaxFaults,   \* bound: database statements that fail
    MaxCrashes   \* bound: restarts of the API process

Reusable == {"requested", "pending_join", "command_sent", "joining", "joined",
             "active", "recording", "speech_error", "speech_throttled"}
Terminal == {"ended", "failed", "stale"}
Statuses == Reusable \cup {"ending"} \cup Terminal

\* The statuses in which a bot should be attached to the call.
JoinedOrBeyond == {"joined", "active", "recording", "speech_error",
                   "speech_throttled", "ending"}

ASSUME ConstantsAssumption ==
    /\ Watchdog \notin Workers
    /\ NoSession \notin Sessions
    /\ BotReports \subseteq Statuses
    /\ Finalizer \in BOOLEAN /\ BotControl \in BOOLEAN /\ WatchdogOn \in BOOLEAN
    /\ MaxFaults \in Nat /\ MaxCrashes \in Nat

VARIABLES
    \* durable, one row per session
    row,       \* status column, or "unborn" / "deleted" when there is no row
    seen,      \* last_bot_status_at: NULL, recent, or at least EndAfter ago
    old,       \* updated_at lies before the stale cutoff (2 h)
    analyses,  \* rows of meeting_session_ai_analyses exist
    \* memory of the API process
    proc,      \* where each goroutine is, and its local variables
    fin,       \* the finalization goroutine behind finalizationInFlight
    todo,      \* silent sessions of the watchdog's current scan
    \* environment
    bot,       \* the bot of a session: not started, in the call, gone
    faults, crashes

vars == <<row, seen, old, analyses, proc, fin, todo, bot, faults, crashes>>

Procs == Workers \cup {Watchdog}

Rows == Statuses \cup {"unborn", "deleted"}

PCs == {"idle",
        "read", "write", "writeEnding", "start",            \* update status
        "lookup", "command", "fallback",                    \* end
        "insert", "join", "markJoining", "markFailed",      \* create
        "check", "remove"}                                  \* delete

(***************************************************************************)
(* task is "end" while UpdateMeetingSessionStatus runs as the first step   *)
(* of EndMeetingSession and must return to it; prev is the status the read *)
(* returned, "unread" when the read failed.                                *)
(***************************************************************************)
Goroutine == [pc : PCs, s : Sessions \cup {NoSession},
              req : Statuses \cup {"none"}, fatal : BOOLEAN,
              prev : Statuses \cup {"none", "unread"}, task : {"report", "end"}]

Local(pc, s, req, fatal, prev, task) ==
    [pc |-> pc, s |-> s, req |-> req, fatal |-> fatal, prev |-> prev, task |-> task]

\* A goroutine of session s at location pc with no update under way.
On(s, pc) == Local(pc, s, "none", FALSE, "none", "report")

Idle == On(NoSession, "idle")

Update(s, req, fatal, task) == Local("read", s, req, fatal, "none", task)

TypeOK ==
    /\ row \in [Sessions -> Rows]
    /\ seen \in [Sessions -> {"never", "fresh", "silent"}]
    /\ old \in [Sessions -> BOOLEAN]
    /\ analyses \in [Sessions -> BOOLEAN]
    /\ proc \in [Procs -> Goroutine]
    /\ fin \in [Sessions -> {"none", "running", "returned"}]
    /\ todo \subseteq Sessions
    /\ bot \in [Sessions -> {"none", "live", "gone"}]
    /\ faults \in 0..MaxFaults
    /\ crashes \in 0..MaxCrashes

Init ==
    /\ row = [s \in Sessions |-> "unborn"]
    /\ seen = [s \in Sessions |-> "never"]
    /\ old = [s \in Sessions |-> FALSE]
    /\ analyses = [s \in Sessions |-> FALSE]
    /\ proc = [p \in Procs |-> Idle]
    /\ fin = [s \in Sessions |-> "none"]
    /\ todo = {}
    /\ bot = [s \in Sessions |-> "none"]
    /\ faults = 0
    /\ crashes = 0

-----------------------------------------------------------------------------
(* Steps shared by the requests. *)

Exists(s) == row[s] \in Statuses

Fault == faults < MaxFaults /\ faults' = faults + 1

At(p, pc) == proc[p].pc = pc

Goto(p, g) == proc' = [proc EXCEPT ![p] = g]

Return(p) == Goto(p, Idle)

\* Return from UpdateMeetingSessionStatus without an error.
Resume(p) == Goto(p, IF proc[p].task = "end"
                     THEN On(proc[p].s, "command")
                     ELSE Idle)

\* MarkStaleMeetingSessions: one UPDATE over all rows.
Abandoned(s) == row[s] \in Reusable /\ old[s]

SweepStale ==
    /\ row' = [s \in Sessions |-> IF Abandoned(s) THEN "stale" ELSE row[s]]
    /\ old' = [s \in Sessions |-> old[s] /\ ~Abandoned(s)]

\* The cleanup in front of a request; its failure is logged and ignored.
SweepFirst == \/ SweepStale /\ UNCHANGED faults
              \/ Fault /\ UNCHANGED <<row, old>>

\* UpdateMeetingSessionStatus of the repository: by id, whatever the row says.
Stored(s, status) ==
    /\ Exists(s)
    /\ row' = [row EXCEPT ![s] = status]
    /\ old' = [old EXCEPT ![s] = FALSE]

SetStatus(s, status) == Stored(s, status) /\ UNCHANGED faults

\* The same statement when its answer is lost: an error although it took effect.
\* Where the caller goes on alike after a success, SetStatus stands for both.
AnswerLost(s, status) == Stored(s, status) /\ Fault

\* The same statement when it affects no row or the database fails.
StatementFails(s) == /\ UNCHANGED <<row, old, seen>>
                     /\ \/ ~Exists(s) /\ UNCHANGED faults
                        \/ Fault

-----------------------------------------------------------------------------
(* UpdateMeetingSessionStatus: read the row, decide, then write by id. *)

\* Mistake: recording is missing in the list of joined statuses.
RecordingNotProtected(prev, req, fatal) ==
    req = "failed" /\ prev \in JoinedOrBeyond \ {"recording"} /\ ~fatal

SuppressedFailure(prev, req, fatal) ==
    req = "failed" /\ prev \in JoinedOrBeyond /\ ~fatal

\* Mistake: only ended counts as over.
OnlyEndedIsFinal(prev, req) == prev = "ended" /\ req \notin Terminal

SuppressedRevival(prev, req) == prev \in Terminal /\ req \notin Terminal

\* Mistake: the ended report is written like any other.
NoEndingPhase(prev, req, fatal) ==
    IF SuppressedFailure(prev, req, fatal) \/ SuppressedRevival(prev, req)
    THEN "return"
    ELSE IF req = "ended" /\ Finalizer /\ prev \in {"ended", "ending"}
    THEN "start"
    ELSE "write"

\* What the update does next, from the status it read.
Decide(prev, req, fatal) ==
    IF SuppressedFailure(prev, req, fatal) \/ SuppressedRevival(prev, req)
    THEN "return"
    ELSE IF req = "ended" /\ Finalizer /\ prev \in {"ended", "ending"}
    THEN "start"
    ELSE IF req = "ended" /\ Finalizer /\ prev \in Reusable
    THEN "writeEnding"
    ELSE "write"

\* The goroutine g after it read the status prev.
Decided(g, prev) ==
    LET next == Decide(prev, g.req, g.fatal)
    IN  IF next = "start" THEN On(g.s, "start")
        ELSE Local(next, g.s, g.req, g.fatal, prev, g.task)

UpdateRead(p) ==
    /\ At(p, "read")
    /\ LET g == proc[p] IN
       \/ /\ Exists(g.s)
          /\ IF Decide(row[g.s], g.req, g.fatal) = "return"
             THEN Resume(p)
             ELSE Goto(p, Decided(g, row[g.s]))
          /\ UNCHANGED faults
       \/ /\ \/ ~Exists(g.s) /\ UNCHANGED faults
             \/ Fault
          /\ Goto(p, Local("write", g.s, g.req, g.fatal, "unread", g.task))
    /\ UNCHANGED <<row, seen, old, analyses, fin, todo, bot, crashes>>

UpdateWrite(p) ==
    /\ At(p, "write")
    /\ \/ /\ \/ SetStatus(proc[p].s, proc[p].req) /\ Resume(p)
             \/ AnswerLost(proc[p].s, proc[p].req) /\ Return(p)
          /\ seen' = [seen EXCEPT ![proc[p].s] = "fresh"]
       \/ StatementFails(proc[p].s) /\ Return(p)
    /\ UNCHANGED <<analyses, fin, todo, bot, crashes>>

\* A report of ended first parks the session in ending, then finalizes it.
UpdateWriteEnding(p) ==
    /\ At(p, "writeEnding")
    /\ \/ /\ \/ SetStatus(proc[p].s, "ending") /\ Goto(p, On(proc[p].s, "start"))
             \/ AnswerLost(proc[p].s, "ending") /\ Return(p)
          /\ seen' = [seen EXCEPT ![proc[p].s] = "fresh"]
       \/ StatementFails(proc[p].s) /\ Return(p)
    /\ UNCHANGED <<analyses, fin, todo, bot, crashes>>

\* startMeetingSessionFinalization: one goroutine per session at a time.
StartFinalization(p) ==
    /\ At(p, "start")
    /\ fin' = [fin EXCEPT ![proc[p].s] = IF @ = "none" THEN "running" ELSE @]
    /\ Return(p)
    /\ UNCHANGED <<row, seen, old, analyses, todo, bot, faults, crashes>>

\* FinalizeMeetingSession returns; its rows carry no reference to the session
\* row, so they are written whether or not that row still exists.
FinalizerReturns(s) ==
    /\ fin[s] = "running"
    /\ fin' = [fin EXCEPT ![s] = "returned"]
    /\ \/ analyses' = [analyses EXCEPT ![s] = TRUE] /\ UNCHANGED faults
       \/ Fault /\ UNCHANGED analyses
    /\ UNCHANGED <<row, seen, old, proc, todo, bot, crashes>>

\* The goroutine persists ended by id and leaves finalizationInFlight.
FinalizerPersistsEnded(s) ==
    /\ fin[s] = "returned"
    /\ fin' = [fin EXCEPT ![s] = "none"]
    /\ \/ SetStatus(s, "ended") /\ UNCHANGED seen
       \/ StatementFails(s)
    /\ UNCHANGED <<analyses, proc, todo, bot, crashes>>

-----------------------------------------------------------------------------
(* CreateMeetingSession. *)

CreateArrives(p) ==
    /\ At(p, "idle")
    /\ SweepFirst
    /\ Goto(p, On(NoSession, "insert"))
    /\ UNCHANGED <<seen, analyses, fin, todo, bot, crashes>>

\* CreateOrReuseMeetingSession holds a table lock over lookup and insert.
\* Metadata given with a reuse touches updated_at.
CreateReuses(p) ==
    /\ At(p, "insert")
    /\ \E s \in Sessions :
          /\ row[s] \in Reusable
          /\ \E touched \in BOOLEAN : old' = [old EXCEPT ![s] = @ /\ ~touched]
    /\ Return(p)
    /\ UNCHANGED <<row, seen, analyses, fin, todo, bot, faults, crashes>>

\* Sessions bounds the ids left to insert.
\* With meeting context in the input, a failed metadata write ends the request
\* after the row was inserted and before the bot was called.
CreateInserts(p) ==
    /\ At(p, "insert")
    /\ \A s \in Sessions : row[s] \notin Reusable
    /\ \E s \in Sessions :
          /\ row[s] = "unborn"
          /\ row' = [row EXCEPT ![s] = "requested"]
          /\ \/ Goto(p, On(s, "join")) /\ UNCHANGED faults
             \/ Fault /\ Return(p)
    /\ UNCHANGED <<seen, old, analyses, fin, todo, bot, crashes>>

\* CreateOrReuseMeetingSession fails and rolls back.
CreateFails(p) ==
    /\ At(p, "insert")
    /\ Return(p)
    /\ UNCHANGED <<row, seen, old, analyses, fin, todo, bot, faults, crashes>>

\* Mistake: create returns the command's error and leaves the row.
JoinErrorReturns(p) ==
    /\ At(p, "join")
    /\ \/ BotControl /\ Goto(p, On(proc[p].s, "markJoining"))
                     /\ bot' = [bot EXCEPT ![proc[p].s] = "live"]
       \/ Return(p) /\ UNCHANGED bot
    /\ UNCHANGED <<row, seen, old, analyses, fin, todo, faults, crashes>>

\* SendJoinCommand.  A timeout is an error although the bot may have started.
SendJoinCommand(p) ==
    /\ At(p, "join")
    /\ \/ BotControl /\ Goto(p, On(proc[p].s, "markJoining"))
                     /\ bot' = [bot EXCEPT ![proc[p].s] = "live"]
       \/ /\ Goto(p, On(proc[p].s, "markFailed"))
          /\ \/ UNCHANGED bot
             \/ BotControl /\ bot' = [bot EXCEPT ![proc[p].s] = "live"]
    /\ UNCHANGED <<row, seen, old, analyses, fin, todo, faults, crashes>>

\* The outcome of the command is written without reading the row again.
MarkCommand(p, pc, status) ==
    /\ At(p, pc)
    /\ \/ SetStatus(proc[p].s, status) /\ UNCHANGED seen
       \/ StatementFails(proc[p].s)
    /\ Return(p)
    /\ UNCHANGED <<analyses, fin, todo, bot, crashes>>

\* Mistake: a status the domain does not know.
MarkUnknown(p) == MarkCommand(p, "markJoining", "accepted")

\* Mistake: a failed command leaves the session open, to be tried again.
FailureStaysOpen(p) == MarkCommand(p, "markFailed", "pending_join")

MarkCommandSent(p) == MarkCommand(p, "markJoining", "joining")

MarkCommandFailed(p) == MarkCommand(p, "markFailed", "failed")

-----------------------------------------------------------------------------
(* EndMeetingSession and the fallback timer it leaves behind. *)

EndArrives(p, s) ==
    /\ At(p, "idle") /\ Exists(s)
    /\ SweepFirst
    /\ Goto(p, On(s, "lookup"))
    /\ UNCHANGED <<seen, analyses, fin, todo, bot, crashes>>

EndLookup(p) ==
    /\ At(p, "lookup")
    /\ LET s == proc[p].s IN
       IF ~Exists(s) THEN Return(p)
       ELSE IF row[s] = "ended" /\ Finalizer
            THEN Goto(p, On(s, "start"))
       ELSE IF row[s] \in Terminal THEN Return(p)
       ELSE Goto(p, Update(s, "ending", FALSE, "end"))
    /\ UNCHANGED <<row, seen, old, analyses, fin, todo, bot, faults, crashes>>

\* Mistake: a bot that cannot be reached makes the end request fail.
UnreachableBotFails(p) ==
    /\ At(p, "command")
    /\ \/ BotControl /\ Finalizer /\ Goto(p, On(proc[p].s, "fallback"))
       \/ Return(p)
    /\ UNCHANGED <<row, seen, old, analyses, fin, todo, bot, faults, crashes>>

\* The session is ending, or was found over meanwhile, and the bot is told.
SendEndCommand(p) ==
    /\ At(p, "command")
    /\ LET s == proc[p].s
           report == Update(s, "ended", FALSE, "report")
       IN  IF ~BotControl THEN Return(p)
           ELSE \/ Goto(p, IF Finalizer
                           THEN On(proc[p].s, "fallback")
                           ELSE report)
                \/ Goto(p, report)     \* the bot is unreachable
    /\ UNCHANGED <<row, seen, old, analyses, fin, todo, bot, faults, crashes>>

\* Mistake: the timer repeats the ending report instead of the ended one.
FallbackRepeatsEnding(p) ==
    /\ At(p, "fallback")
    /\ Goto(p, IF row[proc[p].s] = "ending"
               THEN Update(proc[p].s, "ending", FALSE, "report")
               ELSE Idle)
    /\ UNCHANGED <<row, seen, old, analyses, fin, todo, bot, faults, crashes>>

\* finalizeAfterFallback: the timer fires and reads the session once.
FallbackFires(p) ==
    /\ At(p, "fallback")
    /\ \/ /\ Goto(p, IF row[proc[p].s] = "ending"
                     THEN Update(proc[p].s, "ended", FALSE, "report")
                     ELSE Idle)
          /\ UNCHANGED faults
       \/ Fault /\ Return(p)
    /\ UNCHANGED <<row, seen, old, analyses, fin, todo, bot, crashes>>

-----------------------------------------------------------------------------
(* DeleteMeetingSession: the status check is not part of the transaction. *)

DeleteArrives(p, s) ==
    /\ At(p, "idle") /\ Exists(s)
    /\ SweepFirst
    /\ Goto(p, On(s, "check"))
    /\ UNCHANGED <<seen, analyses, fin, todo, bot, crashes>>

DeleteCheck(p) ==
    /\ At(p, "check")
    /\ Goto(p, IF row[proc[p].s] \in Terminal
               THEN On(proc[p].s, "remove")
               ELSE Idle)
    /\ UNCHANGED <<row, seen, old, analyses, fin, todo, bot, faults, crashes>>

\* One transaction over analyses, overrides, segments and the session row.
DeleteRows(p) ==
    /\ At(p, "remove")
    /\ LET s == proc[p].s IN
       \/ /\ Exists(s)
          /\ row' = [row EXCEPT ![s] = "deleted"]
          /\ seen' = [seen EXCEPT ![s] = "never"]
          /\ old' = [old EXCEPT ![s] = FALSE]
          /\ analyses' = [analyses EXCEPT ![s] = FALSE]
          /\ UNCHANGED faults
       \/ ~Exists(s) /\ UNCHANGED <<row, seen, old, analyses, faults>>
       \/ Fault /\ UNCHANGED <<row, seen, old, analyses>>
    /\ Return(p)
    /\ UNCHANGED <<fin, todo, bot, crashes>>

CleanupStale ==
    /\ \E s \in Sessions : Abandoned(s)
    /\ SweepStale
    /\ UNCHANGED <<seen, analyses, proc, fin, todo, bot, faults, crashes>>

-----------------------------------------------------------------------------
(* The bot, and the watchdog that misses it. *)

\* PATCH of a status; fatal is what isFatalMeetingFailure says of its reason.
ReportArrives(p, s, req, fatal) ==
    /\ At(p, "idle") /\ bot[s] = "live"
    /\ fatal => req = "failed"
    /\ SweepFirst
    /\ Goto(p, Update(s, req, fatal, "report"))
    /\ UNCHANGED <<seen, analyses, fin, todo, bot, crashes>>

\* TouchMeetingSessionBotSeen: status test and write are one statement.
Heartbeat(s) ==
    /\ bot[s] = "live"
    /\ Exists(s) /\ row[s] \notin Terminal
    /\ seen' = [seen EXCEPT ![s] = "fresh"]
    /\ old' = [old EXCEPT ![s] = FALSE]
    /\ UNCHANGED <<row, analyses, proc, fin, todo, bot, faults, crashes>>

BotLeaves(s) ==
    /\ bot[s] = "live"
    /\ bot' = [bot EXCEPT ![s] = "gone"]
    /\ UNCHANGED <<row, seen, old, analyses, proc, fin, todo, faults, crashes>>

\* Mistake: the watchdog looks at calls in progress only.
IgnoresEnding(s) == row[s] \in JoinedOrBeyond \ {"ending"} /\ seen[s] = "silent"

\* The scan lists the sessions once and judges each by that snapshot.
Unresponsive(s) == row[s] \in JoinedOrBeyond /\ seen[s] = "silent"

WatchdogScans ==
    /\ WatchdogOn
    /\ At(Watchdog, "idle") /\ todo = {}
    /\ \E s \in Sessions : Unresponsive(s)
    /\ todo' = {s \in Sessions : Unresponsive(s)}
    /\ UNCHANGED <<row, seen, old, analyses, proc, fin, bot, faults, crashes>>

WatchdogEnds ==
    /\ At(Watchdog, "idle")
    /\ \E s \in todo :
          /\ Goto(Watchdog, Update(s, "ended", FALSE, "report"))
          /\ todo' = todo \ {s}
    /\ UNCHANGED <<row, seen, old, analyses, fin, bot, faults, crashes>>

-----------------------------------------------------------------------------
(* Time and restarts. *)

\* No request lives as long as the stale cutoff (2 h).  EndAfter (180 s) may
\* pass between two statements of one: the database has no statement timeout.
Quiet(s) == \A p \in Procs : proc[p].s # s

BecomesSilent(s) ==
    /\ Exists(s) /\ seen[s] = "fresh"
    /\ seen' = [seen EXCEPT ![s] = "silent"]
    /\ UNCHANGED <<row, old, analyses, proc, fin, todo, bot, faults, crashes>>

BecomesOld(s) ==
    /\ row[s] \in Reusable /\ seen[s] # "fresh" /\ ~old[s] /\ Quiet(s)
    /\ old' = [old EXCEPT ![s] = TRUE]
    /\ UNCHANGED <<row, seen, analyses, proc, fin, todo, bot, faults, crashes>>

\* Requests, timers and finalizations are lost; the rows and the bot are not.
Restart ==
    /\ crashes < MaxCrashes
    /\ crashes' = crashes + 1
    /\ proc' = [p \in Procs |-> Idle]
    /\ fin' = [s \in Sessions |-> "none"]
    /\ todo' = {}
    /\ UNCHANGED <<row, seen, old, analyses, bot, faults>>

-----------------------------------------------------------------------------

ArrivesAt(p) ==
    \/ CreateArrives(p)
    \/ \E s \in Sessions : EndArrives(p, s) \/ DeleteArrives(p, s)
    \/ \E s \in Sessions, req \in BotReports, fatal \in BOOLEAN :
          ReportArrives(p, s, req, fatal)

\* A step of a goroutine that is already running.
ProcStep(p) ==
    \/ UpdateRead(p) \/ UpdateWrite(p) \/ UpdateWriteEnding(p) \/ StartFinalization(p)
    \/ CreateReuses(p) \/ CreateInserts(p) \/ CreateFails(p)
    \/ SendJoinCommand(p) \/ MarkCommandSent(p) \/ MarkCommandFailed(p)
    \/ EndLookup(p) \/ SendEndCommand(p) \/ FallbackFires(p)
    \/ DeleteCheck(p) \/ DeleteRows(p)

FinalizerStep(s) == FinalizerReturns(s) \/ FinalizerPersistsEnded(s)

Next ==
    \/ \E p \in Workers : ArrivesAt(p)
    \/ \E p \in Procs : ProcStep(p)
    \/ \E s \in Sessions : FinalizerStep(s)
    \/ WatchdogScans \/ WatchdogEnds
    \/ CleanupStale
    \/ \E s \in Sessions : Heartbeat(s) \/ BotLeaves(s) \/ BecomesSilent(s) \/ BecomesOld(s)
    \/ Restart

Spec == Init /\ [][Next]_vars

-----------------------------------------------------------------------------
(* Fairness: goroutines that run keep running, armed timers fire, the      *)
(* provider calls of a finalization time out, the watchdog ticks, and time *)
(* passes for a session nothing touches.  Clients and bots promise nothing *)
(* and requests may stop arriving.                                         *)

Fairness ==
    /\ \A p \in Procs : WF_vars(ProcStep(p))
    /\ \A s \in Sessions : WF_vars(FinalizerStep(s)) /\ WF_vars(BecomesSilent(s))
    /\ WF_vars(WatchdogScans) /\ WF_vars(WatchdogEnds)

FairSpec == Spec /\ Fairness

-----------------------------------------------------------------------------
(* Properties. *)

\* p executes its pending status write on s in this step.
Writes(p, s, pcs) == proc[p].s = s /\ proc[p].pc \in pcs /\ proc' # proc

\* meeting_session.go:417 reads and 486 writes without a transaction.  A session
\* that is over (ended, failed, stale) goes back to an open status only through
\* a request that read it before it was over, or through the outcome of the
\* join command, which create writes without reading.  No heartbeat, sweep,
\* timer, or request that saw the terminal status ever revives it.
Revived(s) == row[s] \in Terminal /\ Exists(s)' /\ row'[s] \notin Terminal

StaleWriterOf(s) ==
    \E p \in Procs :
       \/ Writes(p, s, {"markJoining"})
       \/ Writes(p, s, {"write", "writeEnding"}) /\ proc[p].prev \notin Terminal

RevivedOnlyByStaleWriter == [][\A s \in Sessions : Revived(s) => StaleWriterOf(s)]_vars

\* The ended row is written by the finalization goroutine after
\* FinalizeMeetingSession returned.  A request writes it itself only for a
\* session it saw failed or stale, or could not read: those are ended without
\* a summary.
Ended(s) == row[s] # "ended" /\ row'[s] = "ended"

FinalizedOrLapsed(s) ==
    \/ fin[s] = "returned" /\ fin'[s] = "none"
    \/ \E p \in Procs : /\ Writes(p, s, {"write"})
                        /\ proc[p].prev \in {"failed", "stale", "unread"}

EndedByFinalizerOrLapsed == [][\A s \in Sessions : Ended(s) => FinalizedOrLapsed(s)]_vars

\* A failure that is not fatal does not take a session out of a call the bot
\* has joined, unless the report read the session before the join, or it is
\* create's own verdict on a join command whose answer got lost.
Failed(s) == row[s] \in JoinedOrBeyond /\ row'[s] = "failed"

FatalOrStaleFailure(s) ==
    \E p \in Procs :
       \/ Writes(p, s, {"markFailed"})
       \/ /\ Writes(p, s, {"write"})
          /\ proc[p].fatal \/ proc[p].prev \notin JoinedOrBeyond

JoinedSurvivesSoftFailure == [][\A s \in Sessions : Failed(s) => FatalOrStaleFailure(s)]_vars

\* A requested session has a create request at work on it; it is left behind
\* with no bot command, to be reused by later creates for two hours, only when
\* a statement failed or the process restarted in the middle of create.
RequestedIsBeingJoined ==
    \A s \in Sessions :
       row[s] = "requested" =>
         \/ \E p \in Procs : proc[p].s = s /\ proc[p].pc \in {"join", "markJoining", "markFailed"}
         \/ faults + crashes > 0

\* Of two open sessions of a meeting one has a bot that was started for it: two
\* rows that no join command reached are never open at once.  Create alone does
\* not see to that: a row it left in ending or over may be opened again by a late
\* write, after another one was inserted, and only a bot that exists causes such
\* a write (its report, or markJoining after its command).
UncommandedIsAlone ==
    \A s, t \in Sessions :
       s # t /\ row[s] \in Reusable /\ row[t] \in Reusable
       => bot[s] # "none" \/ bot[t] # "none"

\* Somebody is at work to end the session s: a request that ends it, its armed
\* fallback timer, a report of ended on its way, or the finalization.
Ends(g, s) ==
    /\ g.s = s
    /\ \/ g.pc \in {"command", "fallback", "start"}
       \/ /\ g.pc \in {"read", "write", "writeEnding"}
          /\ g.req = "ended" \/ g.task = "end"

BeingEnded(s) == fin[s] # "none" \/ \E p \in Procs : Ends(proc[p], s)

\* A session is left in ending with nobody at work to end it, however requests,
\* reports, timers and finalizations interleave, only in the very step in which
\* a statement fails or the process restarts, or because the bot itself reports
\* that it is ending (with the bot control unconfigured no end succeeds).
Forgotten(s) ==
    /\ row'[s] = "ending" /\ ~BeingEnded(s)'
    /\ row[s] # "ending" \/ BeingEnded(s)

EndingIsNotForgotten ==
    [][\A s \in Sessions : Forgotten(s) =>
         \/ faults' # faults \/ crashes' # crashes
         \/ ~BotControl
         \/ \E p \in Procs : /\ Writes(p, s, {"write"}) /\ proc[p].task = "report"
                             /\ proc[p].req = "ending"]_vars

\* A session whose bot is gone leaves the call, ending included, whatever was
\* lost on the way: the bot's own report, the fallback timer, the finalizer, or
\* a restart that took all of them.  The watchdog ends it.
GoneBotIsNoticed ==
    \A s \in Sessions :
       bot[s] = "gone" /\ row[s] \in JoinedOrBeyond ~> row[s] \notin JoinedOrBeyond

\* An end request whose command was delivered comes to one of three ends.  The
\* session ends, through the finalization that the bot's report or the fallback
\* timer starts.  Or ending is overwritten before the timer fires, by a report of
\* the bot, by create's late verdict on its join command, or by a delete that saw
\* the session failed before it was ending; then the timer does nothing.  Or a statement failed on the way, the timer's own read included:
\* then nobody is at work to end the session, and it stays ending as long as the
\* bot's heartbeats keep the watchdog quiet.
EndRequestCompletes ==
    \A s \in Sessions :
       (\E p \in Workers : At(p, "fallback") /\ proc[p].s = s /\ row[s] = "ending")
       ~> \/ row[s] = "ended"
          \/ row[s] \in BotReports \cup {"joining", "failed", "deleted"}
          \/ faults > 0 /\ ~BeingEnded(s)

\* A claim of the repository that its code does not keep.

\* meeting_session_test.go:278: a non-terminal report that is written after the
\* session ended leaves it ended.
LateReportLeavesEnded ==
    [][\A s \in Sessions, p \in Procs :
         /\ row[s] = "ended"
         /\ Writes(p, s, {"write"}) /\ proc[p].req \notin Terminal
         => row'[s] = "ended"]_vars
=============================================================================
