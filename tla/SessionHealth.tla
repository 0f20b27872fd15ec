----------------------------- MODULE SessionHealth -----------------------------
(***************************************************************************)
(* What the API tells the browsers about the health of one session's bot:  *)
(* the watchdog's scan over the row, the transcript activity and the       *)
(* metrics of the last heartbeat.  (What the bot reports of its own media  *)
(* is in BotMedia.)                                                        *)
(*                                                                         *)
(* The watchdog is one goroutine and evaluates the row it listed, at the   *)
(* time it listed it; heartbeats and segments arrive meanwhile, each in a  *)
(* goroutine of its own.  Time is a clock in ticks of the configured       *)
(* thresholds.                                                             *)
(***************************************************************************)
EXTENDS Integers, FiniteSets

CONSTANTS
    LostAfter, EndAfter, DelayedAfter, StalledAfter,
    AudioSilenceAfter, AudioStalledAfter, SpeechStalledAfter,
    Requests,      \* ingest requests between their stamp and the tracker
    Metrics,       \* metrics a heartbeat may carry, as ages
    MaxClock, MaxBeats, MaxSegments, MaxReturns

Never == -1

ASSUME HealthAssumption ==
    /\ {LostAfter, EndAfter, DelayedAfter, StalledAfter} \subseteq Nat
    /\ {MaxClock, MaxBeats, MaxSegments, MaxReturns} \subseteq Nat
    /\ {AudioSilenceAfter, AudioStalledAfter, SpeechStalledAfter} \subseteq Nat
    /\ LostAfter <= EndAfter

VARIABLES
    clock,
    status,    \* "joined" stands for the listed ones before the end but "recording"
    beatAt,    \* last_bot_status_at
    activity,  \* LastTranscriptAt of the tracker, Never without an entry
    metrics,   \* last metrics and when they were received
    healthy, transcriptHealth,    \* the watchdog's maps
    watch,     \* the scan
    inbox,     \* stamp of each ingest request that has not reached the tracker
    toldBot, toldTranscript,   \* what the browsers were told last
    beats, segments, returns,  \* bounds
    latest,    \* latest stamp the tracker was given since its entry exists
    forgot     \* which of the two the watchdog forgot since it told of it

scanVars == <<healthy, transcriptHealth, watch, toldBot, toldTranscript, forgot>>
trackVars == <<activity, latest, inbox, segments>>
botVars == <<status, beatAt, metrics, beats, returns>>
healthVars == <<clock, status, beatAt, activity, metrics, healthy, transcriptHealth, watch, inbox,
                toldBot, toldTranscript, beats, segments, returns, latest, forgot>>

Times == 0..MaxClock
Listed == {"recording", "joined", "ending"}
Gaps == {"audio_stalled", "silent", "speech_stalled", "transcript_stalled", "transcript_delayed"}
Verdict == {"ok"} \cup Gaps
Unknown == "unknown"
NoMetrics == [at |-> Never, stalled |-> FALSE, stall |-> Never, frame |-> Never,
              sound |-> Never, text |-> Never]

Scan == [pc : {"idle", "bot", "transcript", "forget"}, status : Listed, beatAt : Times,
         now : Times]
NoScan == [pc |-> "idle", status |-> "joined", beatAt |-> 0, now |-> 0]

HealthTypeOK ==
    /\ clock \in Times
    /\ status \in Listed \cup {"ended"} /\ beatAt \in Times
    /\ activity \in Times \cup {Never} /\ latest \in Times \cup {Never}
    /\ healthy \in {"well", "lost", Unknown}
    /\ transcriptHealth \in Verdict \cup {Unknown}
    /\ watch \in Scan
    /\ inbox \in [Requests -> Times \cup {Never}]
    /\ toldBot \in {"well", "lost"} /\ toldTranscript \in Verdict
    /\ beats \in 0..MaxBeats /\ segments \in 0..MaxSegments /\ returns \in 0..MaxReturns
    /\ forgot \subseteq {"bot", "transcript"}

\* The API starts: the row may be of any listed status, the maps are empty.
HealthInit ==
    /\ clock = 0 /\ status \in Listed /\ beatAt = 0
    /\ activity = Never /\ latest = Never
    /\ metrics = NoMetrics
    /\ healthy = Unknown /\ transcriptHealth = Unknown
    /\ watch = NoScan
    /\ inbox = [q \in Requests |-> Never]
    /\ toldBot = "well" /\ toldTranscript = "ok"
    /\ beats = 0 /\ segments = 0 /\ returns = 0
    /\ forgot = {}

-----------------------------------------------------------------------------
Tick ==
    /\ clock < MaxClock
    /\ clock' = clock + 1
    /\ UNCHANGED <<botVars, scanVars, trackVars>>

(***************************************************************************)
(* A heartbeat records the metrics it carries, whatever the session's      *)
(* status, and then writes last_bot_status_at unless the session is        *)
(* terminal.  It may carry none, and the row may be terminal or not be     *)
(* reached, so each of the two happens with and without the other.  The    *)
(* ages of a report become times.                                          *)
(***************************************************************************)
Ago(age) == IF age = Never \/ age > clock THEN Never ELSE clock - age

Timed(m) == [at |-> clock, stalled |-> m.stalled, stall |-> Ago(m.stall),
             frame |-> Ago(m.frame), sound |-> Ago(m.sound), text |-> Ago(m.text)]

RecordMetrics ==
    /\ beats < MaxBeats
    /\ beats' = beats + 1
    /\ \E m \in Metrics : metrics' = Timed(m)
    /\ UNCHANGED <<clock, status, beatAt, returns, scanVars, trackVars>>

TouchBotSeen ==
    /\ status \in Listed /\ beats < MaxBeats
    /\ beats' = beats + 1
    /\ beatAt' = clock
    /\ UNCHANGED <<clock, status, metrics, returns, scanVars, trackVars>>

\* The other status writes of the session, the return of an ended one among them.
StatusChanges ==
    /\ returns < MaxReturns
    /\ returns' = returns + 1
    /\ \E s \in Listed \cup {"ended"} : s # status /\ status' = s
    /\ beatAt' = clock
    /\ UNCHANGED <<clock, metrics, beats, scanVars, trackVars>>

-----------------------------------------------------------------------------
(***************************************************************************)
(* The tracker is the last publisher of a segment, behind the hub; the     *)
(* stamp is from the beginning of the request.                             *)
(***************************************************************************)
ReceiveSegment(q) ==
    /\ inbox[q] = Never /\ segments < MaxSegments
    /\ segments' = segments + 1
    /\ inbox' = [inbox EXCEPT ![q] = clock]
    /\ UNCHANGED <<clock, activity, latest, botVars, scanVars>>

TrackSegment(q) ==
    /\ inbox[q] # Never
    /\ activity' = inbox[q]
    /\ latest' = IF inbox[q] > latest THEN inbox[q] ELSE latest
    /\ inbox' = [inbox EXCEPT ![q] = Never]
    /\ UNCHANGED <<clock, segments, botVars, scanVars>>

-----------------------------------------------------------------------------
(***************************************************************************)
(* The watchdog.  The list is read and the clock after it; a session that  *)
(* is not listed is forgotten, first in the maps, then in the readers.     *)
(***************************************************************************)
Forgotten ==
    /\ healthy' = Unknown
    /\ transcriptHealth' = Unknown
    /\ forgot' = {"bot", "transcript"}

\* Mutant: the query does not look at the status.
ListsEveryRow == TRUE

IsListed == status \in Listed

ScanRow ==
    /\ watch.pc = "idle"
    /\ IF IsListed
       THEN /\ watch' = [pc |-> "bot", status |-> status, beatAt |-> beatAt, now |-> clock]
            /\ UNCHANGED <<healthy, transcriptHealth, forgot>>
       ELSE /\ Forgotten
            /\ watch' = [watch EXCEPT !.pc = IF transcriptHealth = Unknown THEN "idle" ELSE "forget"]
    /\ UNCHANGED <<clock, toldBot, toldTranscript, botVars, trackVars>>

ForgetReaders ==
    /\ watch.pc = "forget"
    /\ watch' = NoScan
    /\ activity' = Never /\ latest' = Never
    /\ metrics' = NoMetrics
    /\ UNCHANGED <<clock, status, beatAt, beats, returns, inbox, segments, healthy,
                   transcriptHealth, toldBot, toldTranscript, forgot>>

Elapsed == watch.now - watch.beatAt

\* Mutant: the first observation is never told.
PublishesKnown(now) == healthy # Unknown /\ healthy # now

PublishesHealth(now) == healthy # now /\ (healthy = Unknown => now = "lost")

EvaluateBot ==
    /\ watch.pc = "bot" /\ Elapsed < EndAfter
    /\ LET now == IF Elapsed < LostAfter THEN "well" ELSE "lost" IN
       /\ healthy' = now
       /\ IF PublishesHealth(now)
          THEN toldBot' = now /\ forgot' = forgot \ {"bot"}
          ELSE UNCHANGED <<toldBot, forgot>>
    /\ watch' = [watch EXCEPT !.pc = "transcript"]
    /\ UNCHANGED <<clock, transcriptHealth, toldTranscript, botVars, trackVars>>

(***************************************************************************)
(* The session service ends what is not over: the row becomes ending, with *)
(* a new stamp, until its finalization is through.  It can fail.           *)
(***************************************************************************)
EndSession ==
    /\ watch.pc = "bot" /\ Elapsed >= EndAfter
    /\ \/ /\ IF status \in {"joined", "recording"}
             THEN status' = "ending" /\ beatAt' = clock
             ELSE UNCHANGED <<status, beatAt>>
          /\ Forgotten
          /\ watch' = [watch EXCEPT !.pc = "forget"]
       \/ /\ watch' = NoScan
          /\ UNCHANGED <<status, beatAt, healthy, transcriptHealth, forgot>>
    /\ UNCHANGED <<clock, metrics, beats, returns, toldBot, toldTranscript, trackVars>>

Within(t, now, limit) == t # Never /\ now - t < limit

\* classifyBotMediaGap, "none" where the thresholds decide.
BotMediaGap(m, now) ==
    IF \/ m.stalled
       \/ Within(m.stall, now, StalledAfter)
       \/ m.frame # Never /\ ~Within(m.frame, now, AudioStalledAfter)
    THEN "audio_stalled"
    ELSE IF ~Within(m.sound, now, AudioSilenceAfter) /\ Within(m.frame, now, AudioStalledAfter)
    THEN "silent"
    ELSE IF Within(m.sound, now, AudioSilenceAfter) /\ ~Within(m.text, now, SpeechStalledAfter)
    THEN "speech_stalled"
    ELSE "none"

\* The metrics can be younger than the scan's clock; their age is then zero.
TranscriptGap(now, since) ==
    LET gap == IF Within(metrics.at, now, LostAfter) THEN BotMediaGap(metrics, now) ELSE "none"
    IN  IF gap # "none" THEN gap
        ELSE IF StalledAfter > 0 /\ since >= StalledAfter THEN "transcript_stalled"
        ELSE IF DelayedAfter > 0 /\ since >= DelayedAfter THEN "transcript_delayed"
        ELSE "ok"

Seen == IF activity = Never THEN watch.now ELSE activity

\* Mutant: a segment after the scan's clock counts as an old one.
SinceBackwards == IF watch.now < Seen THEN Seen - watch.now ELSE watch.now - Seen

Since == IF watch.now < Seen THEN 0 ELSE watch.now - Seen

Watched == Elapsed < LostAfter /\ watch.status = "recording"

Desired ==
    IF Watched /\ Since >= DelayedAfter THEN TranscriptGap(watch.now, Since) ELSE "ok"

ChangedHealth ==
    \/ transcriptHealth = Unknown /\ Desired # "ok"
    \/ transcriptHealth # Unknown /\ transcriptHealth # Desired

EvaluateTranscript ==
    /\ watch.pc = "transcript"
    /\ activity' = IF Watched THEN Seen ELSE activity
    /\ transcriptHealth' = Desired
    /\ IF ChangedHealth
       THEN toldTranscript' = Desired /\ forgot' = forgot \ {"transcript"}
       ELSE UNCHANGED <<toldTranscript, forgot>>
    /\ watch' = NoScan
    /\ UNCHANGED <<clock, healthy, toldBot, latest, inbox, segments, botVars>>

-----------------------------------------------------------------------------
HealthNext ==
    \/ Tick \/ RecordMetrics \/ TouchBotSeen \/ StatusChanges
    \/ \E q \in Requests : ReceiveSegment(q) \/ TrackSegment(q)
    \/ ScanRow \/ ForgetReaders \/ EvaluateBot \/ EndSession \/ EvaluateTranscript

HealthSpec == HealthInit /\ [][HealthNext]_healthVars

-----------------------------------------------------------------------------
(***************************************************************************)
(* The browsers know of an outage and of a transcript warning the watchdog *)
(* knows of, and of their ends; what they were told last is out of date    *)
(* only where the session was forgotten since (publish in evaluate and     *)
(* evaluateTranscriptHealth).                                              *)
(***************************************************************************)
OutageIsTold ==
    /\ healthy # Unknown =>
          (toldBot = healthy \/ (healthy = "well" /\ "bot" \in forgot))
    /\ transcriptHealth # Unknown =>
          (toldTranscript = transcriptHealth
             \/ (transcriptHealth = "ok" /\ "transcript" \in forgot))

(***************************************************************************)
(* A watched recording gets no transcript warning while segments reach     *)
(* the tracker: at the scan's clock the newest one is DelayedAfter old,    *)
(* unless an older segment reached the tracker after it (the stamps are    *)
(* taken before the hub and overwrite each other).                         *)
(***************************************************************************)
WarningMeansSilence ==
    [][EvaluateTranscript /\ transcriptHealth' # "ok" =>
          \/ watch.now - latest >= DelayedAfter
          \/ activity < latest]_healthVars
=============================================================================
