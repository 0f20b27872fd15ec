---------------------------- MODULE ServicesProofs ----------------------------
(***************************************************************************)
(* Theorems about the services around a meeting, for any values of their   *)
(* constants: the path of a final through the hub (TranscriptHub), the     *)
(* reports of the bot about its media (BotMedia), what the browsers are    *)
(* told of a session's health (SessionHealth), and the types of the four   *)
(* services in their composition (MCServices).  The invariants of the      *)
(* members are proved in a module of their own.                            *)
(***************************************************************************)
EXTENDS MCServices, WorkspaceMembersProofs, SequenceTheorems

-----------------------------------------------------------------------------
(***************************************************************************)
(* TranscriptHub, the types.  The queues are a function of the clients; a  *)
(* publisher at a full queue is at the queue of a client; and what is      *)
(* published, if it is a final, is stored: so are the finals that reached  *)
(* the analyzer.                                                           *)
(***************************************************************************)
Queued == Finals \cup {Note}
QueuesOfClients == queue \in [Clients -> Seq(Queued)]
WaitsAtClient(x) == x.pc \in {"drop", "block"} => x.at \in Clients
PublishersPlaced == \A p \in Publishers : WaitsAtClient(pub[p])
PublishedIsStored == \A p \in Publishers : pub[p].event \in stored \cup {Note}

HubIInv == HubTypeOK /\ QueuesOfClients /\ PublishersPlaced /\ PublishedIsStored

LEMMA HubTypesInitially == HubInit => HubIInv
  <1> SUFFICES ASSUME HubInit PROVE HubIInv
    OBVIOUS
  <1>1. Idle \in Publishing /\ WaitsAtClient(Idle) /\ Idle.event = Note
    BY DEF Idle, Publishing, WaitsAtClient
  <1>2. pub \in [Publishers -> Publishing] /\ \A p \in Publishers : pub[p] = Idle
    BY <1>1 DEF HubInit
  <1>3. /\ queue \in [Clients -> Seq(Queued)]
        /\ \A c \in Clients : queue[c] \in Seq(Queued) /\ Len(queue[c]) <= QueueCap
    BY HubAssumption DEF HubInit, HubAssumption
  <1>4. HubTypeOK
    BY <1>2, <1>3, HubAssumption DEF HubInit, HubTypeOK, HubAssumption, Queued
  <1> QED
    BY <1>1, <1>2, <1>3, <1>4 DEF HubIInv, QueuesOfClients, PublishersPlaced, PublishedIsStored

(***************************************************************************)
(* One publisher goes on and the others stay, but for their raced flag:    *)
(* what every step of a publisher has to show.                             *)
(***************************************************************************)
LEMMA PublisherGoesOn ==
  ASSUME HubIInv, NEW p \in Publishers, NEW x \in Publishing,
         WaitsAtClient(x), x.event \in stored' \cup {Note}, stored \subseteq stored',
         pub' \in [Publishers -> Publishing], pub'[p] = x,
         \A q \in Publishers \ {p} : /\ pub'[q].pc = pub[q].pc
                                     /\ pub'[q].event = pub[q].event
                                     /\ pub'[q].at = pub[q].at
  PROVE  PublishersPlaced' /\ PublishedIsStored'
  BY DEF HubIInv, PublishersPlaced, PublishedIsStored, WaitsAtClient

LEMMA PastPublisher ==
  ASSUME HubIInv, NEW p \in Publishers, NEW c \in Clients, pub' = Past(p, c),
         stored' = stored
  PROVE  /\ pub' \in [Publishers -> Publishing]
         /\ PublishersPlaced' /\ PublishedIsStored'
  <1>0. pub \in [Publishers -> Publishing] /\ pub[p] \in Publishing
    BY DEF HubIInv, HubTypeOK
  <1> DEFINE x == [pub[p] EXCEPT !.pc = "send", !.to = @ \ {c}, !.at = Nobody, !.raced = FALSE]
  <1>1. x \in Publishing /\ WaitsAtClient(x) /\ x.event = pub[p].event
    BY <1>0 DEF Publishing, WaitsAtClient
  <1>2. \A q \in Publishers : [pub[q] EXCEPT !.raced = TRUE] \in Publishing
    BY <1>0 DEF Publishing
  <1>3. pub' \in [Publishers -> Publishing] /\ pub'[p] = x
    BY <1>0, <1>1, <1>2 DEF Past
  <1>4. \A q \in Publishers \ {p} : /\ pub'[q].pc = pub[q].pc
                                    /\ pub'[q].event = pub[q].event
                                    /\ pub'[q].at = pub[q].at
    <2> TAKE q \in Publishers \ {p}
    <2>1. pub'[q] = pub[q] \/ pub'[q] = [pub[q] EXCEPT !.raced = TRUE]
      BY DEF Past
    <2> QED
      BY <1>0, <2>1 DEF Publishing
  <1>5. x.event \in stored' \cup {Note}
    BY <1>1 DEF HubIInv, PublishedIsStored
  <1> HIDE DEF x
  <1> QED
    BY <1>1, <1>3, <1>4, <1>5, PublisherGoesOn

\* The publisher of an event starts at the copy of the subscribers.
LEMMA PublishStarts ==
  ASSUME HubIInv, NEW p \in Publishers, NEW e \in stored' \cup {Note}, e \in Queued,
         stored \subseteq stored', Publish(p, e)
  PROVE  /\ pub' \in [Publishers -> Publishing]
         /\ PublishersPlaced' /\ PublishedIsStored'
  <1> DEFINE x == [Idle EXCEPT !.pc = "copy", !.event = e]
  <1>1. x \in Publishing /\ WaitsAtClient(x) /\ x.event = e
    BY DEF Idle, Publishing, WaitsAtClient, Queued
  <1>2. pub' = [pub EXCEPT ![p] = x] /\ pub \in [Publishers -> Publishing]
    BY DEF Publish, HubIInv, HubTypeOK
  <1> HIDE DEF x
  <1>3. /\ pub' \in [Publishers -> Publishing] /\ pub'[p] = x
        /\ \A q \in Publishers \ {p} : pub'[q] = pub[q]
    BY <1>1, <1>2
  <1> QED
    BY <1>1, <1>3, PublisherGoesOn

-----------------------------------------------------------------------------
\* The three queue operations keep a queue within its capacity.
LEMMA QueueKept ==
  ASSUME HubIInv, NEW c \in Clients, NEW s \in Seq(Queued), Len(s) <= QueueCap,
         queue' = [queue EXCEPT ![c] = s]
  PROVE  /\ QueuesOfClients'
         /\ (\A d \in Clients : queue[d] \in Seq(Finals \cup {Note}) /\ Len(queue[d]) <= QueueCap)'
  BY DEF HubIInv, HubTypeOK, QueuesOfClients, Queued

LEMMA QueueAppended ==
  ASSUME HubIInv, NEW c \in Clients, NEW e \in Queued, ~Full(c)
  PROVE  Append(queue[c], e) \in Seq(Queued) /\ Len(Append(queue[c], e)) <= QueueCap
  <1>1. queue[c] \in Seq(Queued) /\ Len(queue[c]) \in Nat /\ QueueCap \in Nat
    BY HubAssumption, LenProperties DEF HubAssumption, HubIInv, QueuesOfClients
  <1>2. Append(queue[c], e) \in Seq(Queued) /\ Len(Append(queue[c], e)) = Len(queue[c]) + 1
    BY <1>1, AppendProperties
  <1> QED
    BY <1>1, <1>2 DEF Full

LEMMA QueueShortened ==
  ASSUME HubIInv, NEW c \in Clients
  PROVE  /\ queue[c] # <<>> => Tail(queue[c]) \in Seq(Queued) /\ Len(Tail(queue[c])) <= QueueCap
         /\ WithoutOldest(queue[c]) \in Seq(Queued) /\ Len(WithoutOldest(queue[c])) <= QueueCap
  <1>1. /\ queue[c] \in Seq(Queued) /\ Len(queue[c]) \in Nat
        /\ QueueCap \in Nat /\ Len(queue[c]) <= QueueCap
    BY HubAssumption, LenProperties DEF HubAssumption, HubIInv, HubTypeOK, QueuesOfClients
  <1>2. queue[c] # <<>> => Tail(queue[c]) \in Seq(Queued) /\ Len(Tail(queue[c])) = Len(queue[c]) - 1
    BY <1>1, HeadTailProperties
  <1> QED
    BY <1>1, <1>2 DEF WithoutOldest

-----------------------------------------------------------------------------
LEMMA IngestKeepsTypes ==
  ASSUME HubIInv, NEW p \in Publishers, NEW f \in Finals,
         StoreFinal(p, f) \/ StoreAnswerLost(p, f)
  PROVE  HubIInv'
  <1>1. /\ stored' = stored \cup {f} /\ sends' = [sends EXCEPT ![f] = @ + 1]
        /\ sends[f] < MaxSends
        /\ pub' = pub \/ Publish(p, f)
        /\ UNCHANGED <<notes, reached, queue, clientVars>>
    BY DEF StoreFinal, StoreAnswerLost, Deliver
  <1>2. sends' \in [Finals -> 0..MaxSends]
    BY <1>1, HubAssumption DEF HubAssumption, HubIInv, HubTypeOK
  <1>3. /\ pub' \in [Publishers -> Publishing]
        /\ PublishersPlaced' /\ PublishedIsStored'
    <2>1. CASE pub' = pub
      BY <1>1, <2>1 DEF HubIInv, HubTypeOK, PublishersPlaced, PublishedIsStored
    <2>2. CASE Publish(p, f)
      BY <1>1, <2>2, PublishStarts DEF Queued
    <2> QED
      BY <1>1, <2>1, <2>2
  <1>4. HubTypeOK'
    BY <1>1, <1>2, <1>3 DEF HubIInv, HubTypeOK, clientVars
  <1> QED
    BY <1>1, <1>3, <1>4 DEF HubIInv, QueuesOfClients

LEMMA PublisherKeepsTypes ==
  ASSUME HubIInv, NEW p \in Publishers, PublishNote(p) \/ PublisherStep(p)
  PROVE  HubIInv'
  <1>0. pub \in [Publishers -> Publishing] /\ pub[p] \in Publishing
    BY DEF HubIInv, HubTypeOK
  <1>q. /\ UNCHANGED queue => QueuesOfClients'
        /\ UNCHANGED queue => (\A d \in Clients : queue[d] \in Seq(Finals \cup {Note})
                                                  /\ Len(queue[d]) <= QueueCap)'
    BY DEF HubIInv, HubTypeOK, QueuesOfClients
  <1>e. pub[p].event \in Queued
    BY <1>0 DEF Publishing, Queued
  <1>1. CASE PublishNote(p)
    <2>1. notes' \in 0..MaxNotes /\ UNCHANGED <<ingestVars, queue, clientVars>> /\ Publish(p, Note)
      BY <1>1, HubAssumption DEF HubAssumption, PublishNote, HubIInv, HubTypeOK
    <2>2. /\ pub' \in [Publishers -> Publishing]
          /\ PublishersPlaced' /\ PublishedIsStored'
      BY <2>1, PublishStarts DEF Queued, ingestVars
    <2> QED
      BY <1>q, <2>1, <2>2 DEF HubIInv, HubTypeOK, ingestVars, clientVars
  <1>2. CASE CopyMembers(p)
    <2> DEFINE x == [pub[p] EXCEPT !.pc = "send", !.to = members]
    <2>1. x \in Publishing /\ WaitsAtClient(x) /\ x.event = pub[p].event
      BY <1>0 DEF Publishing, WaitsAtClient, HubIInv, HubTypeOK
    <2>2. pub' = [pub EXCEPT ![p] = x] /\ UNCHANGED <<ingestVars, notes, queue, clientVars>>
      BY <1>0, <1>2 DEF CopyMembers
    <2> HIDE DEF x
    <2>3. /\ pub' \in [Publishers -> Publishing] /\ pub'[p] = x
          /\ \A q \in Publishers \ {p} : pub'[q] = pub[q]
      BY <1>0, <2>1, <2>2
    <2>4. PublishersPlaced' /\ PublishedIsStored'
      BY <2>1, <2>2, <2>3, PublisherGoesOn DEF HubIInv, PublishedIsStored, ingestVars
    <2> QED
      BY <1>q, <2>2, <2>3, <2>4 DEF HubIInv, HubTypeOK, ingestVars, clientVars
  <1>3. ASSUME NEW c \in Clients, TrySend(p, c)
        PROVE  HubIInv'
    <2>1. CASE Full(c)
      <3> DEFINE x == [pub[p] EXCEPT !.pc = "drop", !.at = c]
      <3>1. x \in Publishing /\ WaitsAtClient(x) /\ x.event = pub[p].event
        BY <1>0 DEF Publishing, WaitsAtClient
      <3>2. pub' = [pub EXCEPT ![p] = x] /\ UNCHANGED <<ingestVars, notes, queue, clientVars>>
        BY <1>0, <1>3, <2>1 DEF TrySend
      <3> HIDE DEF x
      <3>3. /\ pub' \in [Publishers -> Publishing] /\ pub'[p] = x
            /\ \A q \in Publishers \ {p} : pub'[q] = pub[q]
        BY <1>0, <3>1, <3>2
      <3>4. PublishersPlaced' /\ PublishedIsStored'
        BY <3>1, <3>2, <3>3, PublisherGoesOn DEF HubIInv, PublishedIsStored, ingestVars
      <3> QED
        BY <1>q, <3>2, <3>3, <3>4 DEF HubIInv, HubTypeOK, ingestVars, clientVars
    <2>2. CASE ~Full(c)
      <3>1. /\ queue' = [queue EXCEPT ![c] = Append(queue[c], pub[p].event)] /\ pub' = Past(p, c)
            /\ UNCHANGED <<ingestVars, notes, clientVars>>
        BY <1>3, <2>2 DEF TrySend
      <3>2. /\ QueuesOfClients'
            /\ (\A d \in Clients : queue[d] \in Seq(Finals \cup {Note}) /\ Len(queue[d]) <= QueueCap)'
        BY <1>e, <2>2, <3>1, QueueAppended, QueueKept
      <3>3. /\ pub' \in [Publishers -> Publishing]
            /\ PublishersPlaced' /\ PublishedIsStored'
        BY <3>1, PastPublisher DEF ingestVars
      <3> QED
        BY <3>1, <3>2, <3>3 DEF HubIInv, HubTypeOK, ingestVars, clientVars
    <2> QED
      BY <2>1, <2>2
  <1>4. CASE DropOldest(p)
    <2> DEFINE c == pub[p].at
               x == [pub[p] EXCEPT !.pc = "block"]
    <2>0. c \in Clients
      BY <1>4 DEF DropOldest, HubIInv, PublishersPlaced, WaitsAtClient
    <2>1. x \in Publishing /\ WaitsAtClient(x) /\ x.event = pub[p].event
      BY <1>0, <2>0 DEF Publishing, WaitsAtClient
    <2>2. /\ pub' = [pub EXCEPT ![p] = x] /\ UNCHANGED <<ingestVars, notes, clientVars>>
          /\ queue' = [queue EXCEPT ![c] = WithoutOldest(queue[c])]
      BY <1>0, <1>4 DEF DropOldest
    <2> HIDE DEF c, x
    <2>3. /\ pub' \in [Publishers -> Publishing] /\ pub'[p] = x
          /\ \A q \in Publishers \ {p} : pub'[q] = pub[q]
      BY <1>0, <2>1, <2>2
    <2>4. PublishersPlaced' /\ PublishedIsStored'
      BY <2>1, <2>2, <2>3, PublisherGoesOn DEF HubIInv, PublishedIsStored, ingestVars
    <2>5. /\ QueuesOfClients'
          /\ (\A d \in Clients : queue[d] \in Seq(Finals \cup {Note}) /\ Len(queue[d]) <= QueueCap)'
      BY <2>0, <2>2, QueueShortened, QueueKept
    <2> QED
      BY <2>2, <2>3, <2>4, <2>5 DEF HubIInv, HubTypeOK, ingestVars, clientVars
  <1>5. CASE BlockingSend(p)
    <2> DEFINE c == pub[p].at
    <2>0. c \in Clients
      BY <1>5 DEF BlockingSend, HubIInv, PublishersPlaced, WaitsAtClient
    <2>1. /\ queue' = [queue EXCEPT ![c] = Append(queue[c], pub[p].event)] /\ pub' = Past(p, c)
          /\ ~Full(c) /\ UNCHANGED <<ingestVars, notes, clientVars>>
      BY <1>5 DEF BlockingSend
    <2> HIDE DEF c
    <2>2. /\ QueuesOfClients'
          /\ (\A d \in Clients : queue[d] \in Seq(Finals \cup {Note}) /\ Len(queue[d]) <= QueueCap)'
      BY <1>e, <2>0, <2>1, QueueAppended, QueueKept
    <2>3. /\ pub' \in [Publishers -> Publishing]
          /\ PublishersPlaced' /\ PublishedIsStored'
      BY <2>0, <2>1, PastPublisher DEF ingestVars
    <2> QED
      BY <2>1, <2>2, <2>3 DEF HubIInv, HubTypeOK, ingestVars, clientVars
  <1>6. CASE HubReturns(p)
    <2>1. /\ reached' = reached \cup ({pub[p].event} \ {Note}) /\ pub' = [pub EXCEPT ![p] = Idle]
          /\ UNCHANGED <<stored, sends, notes, queue, clientVars>>
      BY <1>6 DEF HubReturns
    <2>2. reached' \subseteq stored'
      BY <2>1 DEF HubIInv, HubTypeOK, PublishedIsStored
    <2>3. Idle \in Publishing /\ WaitsAtClient(Idle) /\ Idle.event = Note
      BY DEF Idle, Publishing, WaitsAtClient
    <2>4. /\ pub' \in [Publishers -> Publishing] /\ pub'[p] = Idle
          /\ \A q \in Publishers \ {p} : pub'[q] = pub[q]
      BY <1>0, <2>1, <2>3
    <2>5. PublishersPlaced' /\ PublishedIsStored'
      BY <2>1, <2>3, <2>4, PublisherGoesOn
    <2> QED
      BY <1>q, <2>1, <2>2, <2>4, <2>5 DEF HubIInv, HubTypeOK, clientVars
  <1> QED
    BY <1>1, <1>2, <1>3, <1>4, <1>5, <1>6 DEF PublisherStep

\* The loops of a connection touch the queue and the state of that connection.
LEMMA ClientKeepsTypes ==
  ASSUME HubIInv, NEW c \in Clients, ClientStep(c)
  PROVE  HubIInv'
  <1>1. UNCHANGED <<ingestVars, notes, pub>>
    BY DEF ClientStep, Subscribe, WriteEvent, WriteFails, WriterLeaves, WriterSeesDone, ReadEnds,
           ReaderLeaves, PeerVanishes, CloseMember
  <1>2. /\ QueuesOfClients'
        /\ (\A d \in Clients : queue[d] \in Seq(Finals \cup {Note}) /\ Len(queue[d]) <= QueueCap)'
    <2>1. \/ UNCHANGED queue
          \/ queue[c] # <<>> /\ queue' = [queue EXCEPT ![c] = Tail(queue[c])]
          \/ queue' = [queue EXCEPT ![c] = WithoutOldest(queue[c])]
      BY DEF ClientStep, Subscribe, WriteEvent, WriteFails, WriterLeaves, WriterSeesDone, ReadEnds,
             ReaderLeaves, PeerVanishes, CloseMember
    <2>2. CASE UNCHANGED queue
      BY <2>2 DEF HubIInv, HubTypeOK, QueuesOfClients
    <2> QED
      BY <2>1, <2>2, QueueShortened, QueueKept
  <1>3. /\ members' \subseteq Clients
        /\ conn' \in [Clients -> {"none", "open", "broken", "closed"}]
        /\ done' \in [Clients -> BOOLEAN]
        /\ reader' \in [Clients -> {"none", "reading", "leaving", "gone"}]
        /\ writer' \in [Clients -> {"none", "writing", "leaving", "gone"}]
    BY DEF HubIInv, HubTypeOK, ClientStep, Subscribe, Unsubscribe, WriteEvent, WriteFails,
           WriterLeaves, WriterSeesDone, ReadEnds, ReaderLeaves, PeerVanishes, CloseMember,
           clientVars
  <1>4. HubTypeOK'
    BY <1>1, <1>2, <1>3 DEF HubIInv, HubTypeOK, ingestVars
  <1>5. PublishersPlaced' /\ PublishedIsStored'
    BY <1>1 DEF HubIInv, PublishersPlaced, PublishedIsStored, ingestVars
  <1> QED
    BY <1>2, <1>4, <1>5 DEF HubIInv

LEMMA HubTypesKept == HubIInv /\ [HubNext]_hubVars => HubIInv'
  <1> SUFFICES ASSUME HubIInv, [HubNext]_hubVars PROVE HubIInv'
    OBVIOUS
  <1>1. CASE UNCHANGED hubVars
    BY <1>1 DEF hubVars, HubIInv, HubTypeOK, QueuesOfClients, PublishersPlaced, PublishedIsStored
  <1>2. ASSUME NEW p \in Publishers, NEW f \in Finals, StoreFinal(p, f) \/ StoreAnswerLost(p, f)
        PROVE  HubIInv'
    BY <1>2, IngestKeepsTypes
  <1>3. ASSUME NEW p \in Publishers, PublishNote(p) \/ PublisherStep(p)
        PROVE  HubIInv'
    BY <1>3, PublisherKeepsTypes
  <1>4. ASSUME NEW c \in Clients, ClientStep(c)
        PROVE  HubIInv'
    BY <1>4, ClientKeepsTypes
  <1> QED
    BY <1>1, <1>2, <1>3, <1>4 DEF HubNext

-----------------------------------------------------------------------------
(* BotMedia, for any reports, goroutines that deliver them and deliveries. *)

\* What was stored is never newer than what is stored.
PastIsOlder == \A r \in pastMedia : r.at <= media.at

MediaIInv == MediaTypeOK /\ PastIsOlder

LEMMA NoReportIsOld == NoReport.at = 0
  BY DEF NoReport

LEMMA ReportTimes == \A r \in AnyReport : r.at \in Nat
  <1>1. \A r \in Reports : r.at \in Nat
    BY MediaAssumption DEF MediaAssumption
  <1> QED
    <2> TAKE r \in AnyReport
    <2>1. CASE r \in Reports
      BY <2>1, <1>1
    <2>2. CASE r = NoReport
      BY <2>2, NoReportIsOld
    <2> QED
      BY <2>1, <2>2 DEF AnyReport

LEMMA MediaInitially == MediaInit => MediaIInv
  BY MediaAssumption, NoReportIsOld DEF MediaAssumption, MediaInit, MediaIInv, MediaTypeOK, PastIsOlder, AnyReport

(***************************************************************************)
(* A report that is not ignored is not older than the one it replaces:     *)
(* the reason why the past stays older.                                    *)
(***************************************************************************)
LEMMA StoredIsNotOlder ==
  ASSUME MediaTypeOK, NEW d \in Deliverers, NEW r \in Reports, RecordMedia(d, r), ~Ignored(r)
  PROVE  /\ media' = r /\ pastMedia' = pastMedia \cup {media}
         /\ media.at <= r.at
  <1>1. media' = r /\ pastMedia' = pastMedia \cup {media}
    BY DEF RecordMedia
  <1>2. r.at \in Nat /\ media.at \in Nat
    BY ReportTimes DEF MediaTypeOK, AnyReport
  <1>3. CASE media = NoReport
    BY <1>1, <1>2, <1>3, NoReportIsOld
  <1>4. CASE media # NoReport
    BY <1>1, <1>2, <1>4 DEF Ignored
  <1> QED
    BY <1>3, <1>4

LEMMA MediaStep == MediaIInv /\ [MediaNext]_mediaVars => MediaIInv'
  <1> SUFFICES ASSUME MediaIInv, [MediaNext]_mediaVars
               PROVE  MediaIInv'
    OBVIOUS
  <1> USE DEF MediaIInv
  <1>1. ASSUME NEW d \in Deliverers, NEW r \in Reports, RecordMedia(d, r), Ignored(r)
        PROVE  MediaIInv'
    BY <1>1, MediaAssumption DEF MediaAssumption, RecordMedia, MediaTypeOK, PastIsOlder
  <1>2. ASSUME NEW d \in Deliverers, NEW r \in Reports, RecordMedia(d, r), ~Ignored(r)
        PROVE  MediaIInv'
    <2>1. media' = r /\ pastMedia' = pastMedia \cup {media} /\ media.at <= r.at
      BY <1>2, StoredIsNotOlder
    <2>2. MediaTypeOK'
      BY <1>2, <2>1, MediaAssumption DEF MediaAssumption, RecordMedia, MediaTypeOK, AnyReport
    <2>3. PastIsOlder'
      <3>1. \A q \in pastMedia \cup {media} : q.at \in Nat
        BY ReportTimes DEF MediaTypeOK
      <3>2. r.at \in Nat
        BY ReportTimes DEF AnyReport
      <3> QED
        BY <2>1, <3>1, <3>2 DEF PastIsOlder
    <2> QED
      BY <2>2, <2>3
  <1>3. ASSUME NEW d \in Deliverers, PublishMedia(d)
        PROVE  MediaIInv'
    BY <1>3 DEF PublishMedia, MediaTypeOK, PastIsOlder, AnyReport
  <1>4. CASE UNCHANGED mediaVars
    BY <1>4 DEF mediaVars, MediaTypeOK, PastIsOlder
  <1> QED
    BY <1>1, <1>2, <1>3, <1>4 DEF MediaNext

\* The types hold, and the reports left behind are never newer (BotMediaHealthService).
THEOREM MediaTypesHold == MediaSpec => []MediaIInv
  BY MediaInitially, MediaStep, PTL DEF MediaSpec

(***************************************************************************)
(* The stored media health goes back to a report it left only if the two   *)
(* have the same time (Record in bot_media_health.go).                     *)
(***************************************************************************)
THEOREM MediaDoesNotReturn == MediaSpec => MediaNeverReturns
  <1>1. ASSUME MediaIInv, [MediaNext]_mediaVars
        PROVE  [media' # media /\ media' \in pastMedia => media'.at = media.at]_mediaVars
    <2>1. ASSUME media' # media, media' \in pastMedia
          PROVE  media'.at = media.at
      <3>1. PICK d \in Deliverers, r \in Reports : RecordMedia(d, r) /\ ~Ignored(r)
        BY <1>1, <2>1 DEF MediaNext, mediaVars, PublishMedia, RecordMedia
      <3>2. media' = r /\ media.at <= r.at
        BY <1>1, <3>1, StoredIsNotOlder DEF MediaIInv
      <3>3. r.at <= media.at
        BY <1>1, <2>1, <3>2 DEF MediaIInv, PastIsOlder
      <3>4. r.at \in Nat /\ media.at \in Nat
        BY <1>1, ReportTimes DEF MediaIInv, MediaTypeOK, AnyReport
      <3> QED
        BY <3>2, <3>3, <3>4
    <2> QED
      BY <2>1
  <1> QED
    BY <1>1, MediaTypesHold, PTL DEF MediaSpec, MediaNeverReturns

-----------------------------------------------------------------------------
(* SessionHealth.  What the browsers know of a silent bot and of a missing *)
(* transcript, for any thresholds, metrics, heartbeats and segments.       *)

\* Of a session the watchdog does not know, the browsers are told of no outage
\* unless it was forgotten.
UntoldWhileUnknown ==
    /\ healthy = Unknown => toldBot = "well" \/ "bot" \in forgot
    /\ transcriptHealth = Unknown => toldTranscript = "ok" \/ "transcript" \in forgot

ToldIInv == HealthTypeOK /\ OutageIsTold /\ UntoldWhileUnknown

-----------------------------------------------------------------------------
(* Types. *)

LEMMA NoScanType == NoScan \in Scan
  BY HealthAssumption DEF HealthAssumption, NoScan, Scan, Listed, Times

LEMMA HealthTypesInitially == HealthInit => HealthTypeOK
  BY NoScanType, HealthAssumption
  DEF HealthInit, HealthTypeOK, HealthAssumption, Times, Listed, Verdict, Unknown

\* The classification of a transcript gap is a verdict.
LEMMA DesiredType == Desired \in Verdict
  BY DEF Desired, TranscriptGap, BotMediaGap, Verdict, Gaps

LEMMA HealthTypesKept == HealthTypeOK /\ [HealthNext]_healthVars => HealthTypeOK'
  <1> SUFFICES ASSUME HealthTypeOK, [HealthNext]_healthVars PROVE HealthTypeOK'
    OBVIOUS
  <1> USE HealthAssumption DEF HealthAssumption
  <1>1. CASE Tick
    BY <1>1 DEF HealthTypeOK, Tick, Times, botVars, scanVars, trackVars
  <1>2. CASE RecordMetrics \/ TouchBotSeen
    <2>1. beats \in 0..MaxBeats /\ beats < MaxBeats /\ beats' = beats + 1 /\ clock \in Times
      BY <1>2 DEF HealthTypeOK, RecordMetrics, TouchBotSeen
    <2>2. beats' \in 0..MaxBeats
      BY <2>1
    <2>3. UNCHANGED beatAt \/ beatAt' = clock
      BY <1>2 DEF RecordMetrics, TouchBotSeen
    <2>4. UNCHANGED <<clock, status, returns, scanVars, trackVars>>
      BY <1>2 DEF RecordMetrics, TouchBotSeen
    <2> QED
      BY <2>1, <2>2, <2>3, <2>4 DEF HealthTypeOK, scanVars, trackVars
  <1>3. CASE StatusChanges
    BY <1>3 DEF HealthTypeOK, StatusChanges, scanVars, trackVars
  <1>4. ASSUME NEW q \in Requests, ReceiveSegment(q) PROVE HealthTypeOK'
    BY <1>4 DEF HealthTypeOK, ReceiveSegment, botVars, scanVars
  <1>5. ASSUME NEW q \in Requests, TrackSegment(q) PROVE HealthTypeOK'
    BY <1>5 DEF HealthTypeOK, TrackSegment, botVars, scanVars, Times, Never
  <1>6. CASE ScanRow
    <2>1. watch' \in Scan
      BY <1>6 DEF HealthTypeOK, ScanRow, Scan, IsListed
    <2> QED
      BY <1>6, <2>1 DEF HealthTypeOK, ScanRow, Forgotten, botVars, trackVars
  <1>7. CASE ForgetReaders
    BY <1>7, NoScanType DEF HealthTypeOK, ForgetReaders
  <1>8. CASE EvaluateBot
    <2>1. watch' \in Scan
      BY <1>8 DEF HealthTypeOK, EvaluateBot, Scan
    <2> QED
      BY <1>8, <2>1 DEF HealthTypeOK, EvaluateBot, botVars, trackVars
  <1>9. CASE EndSession
    <2>1. watch' \in Scan
      BY <1>9, NoScanType DEF HealthTypeOK, EndSession, Scan
    <2> QED
      BY <1>9, <2>1 DEF HealthTypeOK, EndSession, Forgotten, trackVars, Listed
  <1>10. CASE EvaluateTranscript
    <2>1. activity' \in Times \cup {Never}
      BY <1>10 DEF HealthTypeOK, EvaluateTranscript, Seen, Scan
    <2> QED
      BY <1>10, <2>1, NoScanType, DesiredType DEF HealthTypeOK, EvaluateTranscript, botVars
  <1>11. CASE UNCHANGED healthVars
    BY <1>11 DEF HealthTypeOK, healthVars
  <1> QED
    BY <1>1, <1>2, <1>3, <1>4, <1>5, <1>6, <1>7, <1>8, <1>9, <1>10, <1>11 DEF HealthNext

-----------------------------------------------------------------------------
(* What was told. *)

LEMMA ToldInitially == HealthInit => OutageIsTold /\ UntoldWhileUnknown
  BY DEF HealthInit, OutageIsTold, UntoldWhileUnknown

LEMMA ToldKept == ToldIInv /\ [HealthNext]_healthVars => ToldIInv'
  <1> SUFFICES ASSUME ToldIInv, [HealthNext]_healthVars PROVE ToldIInv'
    OBVIOUS
  <1>t. HealthTypeOK'
    BY HealthTypesKept DEF ToldIInv
  <1> DEFINE Told == OutageIsTold /\ UntoldWhileUnknown
  <1> SUFFICES Told'
    BY <1>t DEF ToldIInv
  <1>u. UNCHANGED <<healthy, transcriptHealth, toldBot, toldTranscript, forgot>> => Told'
    BY DEF ToldIInv, OutageIsTold, UntoldWhileUnknown
  <1>f. Forgotten => Told'
    BY DEF Forgotten, OutageIsTold, UntoldWhileUnknown
  <1>1. CASE Tick \/ RecordMetrics \/ TouchBotSeen \/ StatusChanges \/ UNCHANGED healthVars
    BY <1>1, <1>u DEF Tick, RecordMetrics, TouchBotSeen, StatusChanges, scanVars, healthVars
  <1>2. ASSUME NEW q \in Requests, ReceiveSegment(q) \/ TrackSegment(q) PROVE Told'
    BY <1>2, <1>u DEF ReceiveSegment, TrackSegment, scanVars
  <1>3. CASE ScanRow
    BY <1>3, <1>u, <1>f DEF ScanRow
  <1>4. CASE ForgetReaders
    BY <1>4, <1>u DEF ForgetReaders
  <1>5. CASE EvaluateBot
    <2>1. /\ UNCHANGED <<transcriptHealth, toldTranscript>>
          /\ "transcript" \in forgot => "transcript" \in forgot'
      BY <1>5 DEF EvaluateBot
    <2>2. PICK now \in {"well", "lost"} :
            /\ healthy' = now
            /\ IF PublishesHealth(now) THEN toldBot' = now ELSE UNCHANGED <<toldBot, forgot>>
      BY <1>5 DEF EvaluateBot
    <2>3. CASE PublishesHealth(now)
      BY <2>1, <2>2, <2>3 DEF ToldIInv, OutageIsTold, UntoldWhileUnknown, Unknown
    <2>4. CASE ~PublishesHealth(now)
      <3>1. healthy = now \/ (healthy = Unknown /\ now = "well")
        BY <2>2, <2>4 DEF PublishesHealth
      <3> QED
        BY <2>1, <2>2, <2>4, <3>1 DEF ToldIInv, OutageIsTold, UntoldWhileUnknown, Unknown
    <2> QED
      BY <2>3, <2>4
  <1>6. CASE EndSession
    BY <1>6, <1>u, <1>f DEF EndSession
  <1>7. CASE EvaluateTranscript
    <2>1. /\ UNCHANGED <<healthy, toldBot>>
          /\ "bot" \in forgot => "bot" \in forgot'
          /\ transcriptHealth' = Desired /\ Desired # Unknown
          /\ IF ChangedHealth THEN toldTranscript' = Desired
             ELSE UNCHANGED <<toldTranscript, forgot>>
      BY <1>7, DesiredType DEF EvaluateTranscript, Verdict, Gaps, Unknown
    <2>2. CASE ChangedHealth
      BY <2>1, <2>2 DEF ToldIInv, OutageIsTold, UntoldWhileUnknown
    <2>3. CASE ~ChangedHealth
      <3>1. transcriptHealth = Desired \/ (transcriptHealth = Unknown /\ Desired = "ok")
        BY <2>3 DEF ChangedHealth
      <3> QED
        BY <2>1, <2>3, <3>1 DEF ToldIInv, OutageIsTold, UntoldWhileUnknown
    <2> QED
      BY <2>2, <2>3
  <1> QED
    BY <1>1, <1>2, <1>3, <1>4, <1>5, <1>6, <1>7 DEF HealthNext

\* What the browsers were told last of a silent bot and of a missing transcript is
\* what the watchdog knows (publish in evaluate and evaluateTranscriptHealth),
\* except after it forgot the session.
THEOREM OutagesAreTold == HealthSpec => []OutageIsTold
  <1>1. HealthInit => ToldIInv
    BY HealthTypesInitially, ToldInitially DEF ToldIInv
  <1>2. ToldIInv /\ [HealthNext]_healthVars => ToldIInv'
    BY ToldKept
  <1>3. ToldIInv => OutageIsTold
    BY DEF ToldIInv
  <1> QED
    BY <1>1, <1>2, <1>3, PTL DEF HealthSpec

-----------------------------------------------------------------------------
\* With a threshold above zero, a recording gets a transcript warning only when
\* the newest segment the tracker was given is that old, or an older one came
\* after it (evaluateTranscriptHealth, classifyTranscriptGap).
THEOREM WarningsMeanSilence ==
  ASSUME DelayedAfter # 0
  PROVE  HealthSpec => WarningMeansSilence
  <1> DEFINE Silence == EvaluateTranscript /\ transcriptHealth' # "ok" =>
                            \/ watch.now - latest >= DelayedAfter
                            \/ activity < latest
  <1>1. HealthInit => HealthTypeOK
    BY HealthTypesInitially
  <1>2. HealthTypeOK /\ [HealthNext]_healthVars => HealthTypeOK'
    BY HealthTypesKept
  <1>3. HealthTypeOK => Silence
    <2> SUFFICES ASSUME HealthTypeOK, EvaluateTranscript, transcriptHealth' # "ok"
                 PROVE  \/ watch.now - latest >= DelayedAfter
                        \/ activity < latest
      OBVIOUS
    <2>1. Watched /\ Since >= DelayedAfter
      BY DEF EvaluateTranscript, Desired
    <2>2. /\ watch.now \in Int /\ latest \in Int /\ activity \in Int
          /\ DelayedAfter \in Nat
      BY HealthAssumption DEF HealthAssumption, HealthTypeOK, Scan, Times, Never
    <2>3. Seen = activity /\ watch.now - activity >= DelayedAfter
      BY <2>1, <2>2 DEF Since, Seen
    <2> QED
      BY <2>2, <2>3
  <1>4. HealthTypeOK /\ [HealthNext]_healthVars => [Silence]_healthVars
    BY <1>3
  <1> QED
    BY <1>1, <1>2, <1>4, PTL DEF HealthSpec, WarningMeansSilence
-----------------------------------------------------------------------------
(***************************************************************************)
(* The four services side by side.  A step of one is a stutter of the      *)
(* others, so the conjunction of their invariants is inductive.            *)
(***************************************************************************)
ServicesIInv == HubIInv /\ ToldIInv /\ MediaIInv /\ MembersIInv

LEMMA ServicesInitially == ServicesInit => ServicesIInv
  BY HubTypesInitially, HealthTypesInitially, ToldInitially, MediaInitially,
     MembersInitially
  DEF ServicesInit, ServicesIInv, ToldIInv

LEMMA OneServiceSteps ==
  ASSUME [ServicesNext]_servicesVars
  PROVE  /\ [HubNext]_hubVars /\ [HealthNext]_healthVars
         /\ [MediaNext]_mediaVars /\ [MembersNext]_memberVars
  BY DEF ServicesNext, servicesVars, Hub

LEMMA ServicesStep == ServicesIInv /\ [ServicesNext]_servicesVars => ServicesIInv'
  BY OneServiceSteps, HubTypesKept, ToldKept, MediaStep, MembersStep DEF ServicesIInv

\* The types of the hub, the watchdog, the media reports and the members hold in
\* their composition: no queue grows beyond its channel, and a final that reached
\* the analyzer is stored (StoreTranscriptSegment publishes what it created).
THEOREM ServiceTypesHold == ServicesSpec => []ServicesTypeOK
  <1>1. ServicesIInv => ServicesTypeOK
    BY DEF ServicesIInv, HubIInv, ToldIInv, MediaIInv, MembersIInv, ServicesTypeOK
  <1> QED
    BY <1>1, ServicesInitially, ServicesStep, PTL DEF ServicesSpec
=============================================================================
