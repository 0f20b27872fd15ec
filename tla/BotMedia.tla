------------------------------- MODULE BotMedia -------------------------------
(***************************************************************************)
(* The media health a bot reports of itself: the service resolves the      *)
(* session, keeps the last report under a lock and publishes what changed  *)
(* after the lock.  The bot repeats a report that was not answered, so     *)
(* reports arrive twice and out of order, each in its own goroutine.       *)
(***************************************************************************)
EXTENDS Naturals

CONSTANTS
    Reports,       \* reports of the bot: event id, state and time
    Deliverers,    \* goroutines that deliver reports
    MaxDeliveries  \* bound

NoId == ""  \* a report may name no event id

ASSUME MediaAssumption ==
    /\ MaxDeliveries \in Nat
    /\ \A r \in Reports : r.at \in Nat /\ r.state \in {"ok", "stalled"}
    /\ \A r, q \in Reports : r.id = q.id /\ r.id # NoId => r = q

VARIABLES
    media,      \* states[session]
    sending,    \* what each deliverer stored and has not published
    toldMedia,  \* what the browsers were told last
    deliveries,
    pastMedia   \* reports that were stored before

mediaVars == <<media, sending, toldMedia, deliveries, pastMedia>>

NoReport == [id |-> "none", state |-> "ok", at |-> 0]
AnyReport == Reports \cup {NoReport}

MediaTypeOK ==
    /\ media \in AnyReport /\ toldMedia \in AnyReport
    /\ sending \in [Deliverers -> AnyReport]
    /\ deliveries \in 0..MaxDeliveries
    /\ pastMedia \subseteq AnyReport

MediaInit ==
    /\ media = NoReport /\ toldMedia = NoReport
    /\ sending = [d \in Deliverers |-> NoReport]
    /\ deliveries = 0
    /\ pastMedia = {}

\* Mutant: only the id is compared.
IgnoresId(r) == media # NoReport /\ r.id # NoId /\ r.id = media.id

Ignored(r) == media # NoReport /\ ((r.id # NoId /\ r.id = media.id) \/ r.at < media.at)

Changed(r) == media = NoReport \/ media.state # r.state \/ media.id \notin {NoId, r.id}

RecordMedia(d, r) ==
    /\ sending[d] = NoReport /\ deliveries < MaxDeliveries
    /\ deliveries' = deliveries + 1
    /\ IF Ignored(r)
       THEN UNCHANGED <<media, sending, pastMedia>>
       ELSE /\ media' = r
            /\ pastMedia' = pastMedia \cup {media}
            /\ sending' = IF Changed(r) THEN [sending EXCEPT ![d] = r] ELSE sending
    /\ UNCHANGED toldMedia

PublishMedia(d) ==
    /\ sending[d] # NoReport
    /\ toldMedia' = sending[d]
    /\ sending' = [sending EXCEPT ![d] = NoReport]
    /\ UNCHANGED <<media, deliveries, pastMedia>>

MediaNext == \E d \in Deliverers : PublishMedia(d) \/ \E r \in Reports : RecordMedia(d, r)

MediaSpec == MediaInit /\ [][MediaNext]_mediaVars

-----------------------------------------------------------------------------
(***************************************************************************)
(* The stored media health never goes back to a report it left, unless the *)
(* two have the same time: repeated and late reports are idempotent        *)
(* (Record compares the id of the last report only, and its time).         *)
(***************************************************************************)
MediaNeverReturns ==
    [][media' # media /\ media' \in pastMedia => media'.at = media.at]_mediaVars
=============================================================================
