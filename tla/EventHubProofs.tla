---------------------------- MODULE EventHubProofs ----------------------------
(***************************************************************************)
(* Theorems about EventHub, for any number of goroutines that append, any  *)
(* capacity of the channel and any numbers and resets of the meeting.      *)
(*                                                                         *)
(* That nothing is lost at the seam needs to know that everything written  *)
(* is covered by the connection's last number, and that this number is the *)
(* one the browser named or that of an event that was written.             *)
(***************************************************************************)
EXTENDS EventHub, SequenceTheorems, TLAPS

ConnectionStarts == phase \in {"away", "joined"} => lastSeq = LastSeq
WrittenIsBehind == \A i \in DOMAIN written : written[i].seq <= lastSeq
LastIsWritten == lastSeq > LastSeq => \E i \in DOMAIN written : written[i].seq = lastSeq
WrittenInOrder == \A i, j \in DOMAIN written : i < j => written[i].seq < written[j].seq

BehindWritten(e) ==
    \E i \in DOMAIN written :
        written[i].seq > e.seq \/ (written[i].seq = e.seq /\ written[i].era # e.era)
OvertakenIsBehind == \A e \in overtaken : BehindWritten(e)

OnTheList(e) == InSeq(written, e) \/ OnItsWay(e) \/ Excused(e)
SeamHolds == InRoom => \A e \in events : e.seq > LastSeq => OnTheList(e)

WrittenOK ==
    WrittenIsBehind /\ LastIsWritten /\ WrittenInOrder /\ OvertakenIsBehind

EventIInv == EventTypeOK /\ ConnectionStarts /\ WrittenOK /\ SeamHolds

-----------------------------------------------------------------------------
(* Sequences of events. *)

\* What is appended is in the sequence, and so is everything that was.
LEMMA InAppended ==
  ASSUME NEW s \in Seq(Event), NEW x \in Event
  PROVE  /\ Append(s, x) \in Seq(Event)
         /\ InSeq(Append(s, x), x)
         /\ \A e : InSeq(s, e) => InSeq(Append(s, x), e)
  <1> DEFINE t == Append(s, x)
  <1>1. /\ t \in Seq(Event) /\ Len(t) = Len(s) + 1 /\ t[Len(s) + 1] = x
        /\ \A i \in 1..Len(s) : t[i] = s[i]
    BY AppendProperties
  <1> HIDE DEF t
  <1>2. DOMAIN s = 1..Len(s) /\ DOMAIN t = 1..(Len(s) + 1) /\ Len(s) \in Nat
    BY <1>1
  <1>3. InSeq(t, x)
    BY <1>1, <1>2 DEF InSeq
  <1>4. \A e : InSeq(s, e) => InSeq(t, e)
    BY <1>1, <1>2 DEF InSeq
  <1> QED
    BY <1>1, <1>3, <1>4 DEF t

\* What leaves at the front is the head.
LEMMA InTail ==
  ASSUME NEW s \in Seq(Event), s # <<>>
  PROVE  /\ Head(s) \in Event /\ Tail(s) \in Seq(Event)
         /\ \A e : InSeq(s, e) => e = Head(s) \/ InSeq(Tail(s), e)
  <1>1. Head(s) \in Event /\ Tail(s) \in Seq(Event)
    OBVIOUS
  <1>2. ASSUME NEW e, InSeq(s, e), e # Head(s) PROVE InSeq(Tail(s), e)
    <2>1. PICK i \in DOMAIN s : s[i] = e
      BY <1>2 DEF InSeq
    <2>2. i \in 2..Len(s) /\ i - 1 \in 1..Len(Tail(s)) /\ Tail(s)[i - 1] = s[i]
      BY <1>2, <2>1
    <2> QED
      BY <1>1, <2>1, <2>2 DEF InSeq
  <1> QED
    BY <1>1, <1>2

\* A listing is a sequence of the events and leaves none out.
LEMMA ListingIsComplete ==
  ASSUME NEW E \in SUBSET Event, NEW c \in Listings(E)
  PROVE  c \in Seq(Event) /\ \A e \in E : InSeq(c, e)
  <1>1. PICK n \in 0..MaxSeq : c \in [1..n -> E]
    BY DEF Listings
  <1>2. n \in Nat /\ c \in [1..n -> Event]
    BY <1>1, EventAssumption DEF EventAssumption
  <1>3. \A e \in E : InSeq(c, e)
    BY DEF Listings
  <1> QED
    BY <1>2, <1>3

-----------------------------------------------------------------------------
LEMMA EventsInitially == EventInit => EventIInv
  <1> SUFFICES ASSUME EventInit PROVE EventIInv
    OBVIOUS
  <1>1. EventTypeOK
    <2>1. app \in [Appenders -> Appending]
      BY DEF EventInit, Appending
    <2>2. nextSeq \in 1..(MaxSeq + 1) /\ resets \in 0..MaxResets /\ lastSeq \in Nat /\ 0 <= EventCap
      BY EventAssumption DEF EventAssumption, EventInit
    <2>3. channel \in Seq(Event) /\ Len(channel) = 0 /\ catchUp \in Seq(Event) /\ written \in Seq(Event)
      BY DEF EventInit
    <2> QED
      BY <2>1, <2>2, <2>3 DEF EventInit, EventTypeOK
  <1>2. ConnectionStarts /\ SeamHolds
    BY DEF EventInit, ConnectionStarts, SeamHolds, InRoom
  <1>3. WrittenOK
    BY EventAssumption DEF EventAssumption, EventInit, WrittenOK, WrittenIsBehind, LastIsWritten,
       WrittenInOrder, OvertakenIsBehind
  <1> QED
    BY <1>1, <1>2, <1>3 DEF EventIInv

(***************************************************************************)
(* A step of the publishing goroutines, of the hub or of a reset: the      *)
(* connection stays as it is, and what was on its way still is.            *)
(***************************************************************************)
LEMMA PublishingStep ==
  ASSUME EventIInv, UNCHANGED connVars, EventTypeOK',
         InRoom => \A e \in events' : e.seq > LastSeq => OnTheList(e)'
  PROVE  EventIInv'
  BY DEF EventIInv, connVars, ConnectionStarts, WrittenOK, WrittenIsBehind, LastIsWritten,
         WrittenInOrder, OvertakenIsBehind, BehindWritten, SeamHolds, InRoom

LEMMA AppendEventStep ==
  ASSUME EventIInv, NEW a \in Appenders, AppendEvent(a)
  PROVE  EventIInv'
  <1>1. /\ UNCHANGED <<resets, resetting, deleted, connVars, channel, dropped>>
        /\ app[a] = Resting /\ nextSeq \in 1..MaxSeq /\ resets \in 0..MaxResets
        /\ nextSeq' = nextSeq + 1 /\ events' = events \cup {NewEvent}
        /\ FreeNumber
    <2>1. app[a] \in Appending /\ app[a].pc = "idle"
      BY DEF AppendEvent, EventIInv, EventTypeOK
    <2>2. app[a] = Resting
      BY <2>1 DEF Appending, Resting
    <2> QED
      BY <2>2, EventAssumption DEF EventAssumption, AppendEvent, EventIInv, EventTypeOK
  <1>2. NewEvent \in Event /\ NewEvent.seq = nextSeq
    BY <1>1 DEF NewEvent, Event
  <1>3. /\ events' \subseteq Event /\ nextSeq' \in 1..(MaxSeq + 1)
        /\ \A e, d \in events' : e.seq = d.seq => e = d
    <2>1. events \subseteq Event /\ \A e, d \in events : e.seq = d.seq => e = d
      BY DEF EventIInv, EventTypeOK
    <2>2. \A e \in events : e.seq # NewEvent.seq
      BY <1>1, <1>2 DEF FreeNumber
    <2> QED
      BY <1>1, <1>2, <2>1, <2>2, EventAssumption DEF EventAssumption
  <1>4. CASE app' = [app EXCEPT ![a] = [pc |-> "publish", event |-> NewEvent]] /\ UNCHANGED silent
    <2> DEFINE new == [pc |-> "publish", event |-> NewEvent]
    <2>1. new \in Appending /\ new # Resting /\ new.event = NewEvent
      <3>1. new.pc # Resting.pc
        BY DEF Resting
      <3> QED
        BY <1>2, <3>1 DEF Appending
    <2>2. app' = [app EXCEPT ![a] = new]
      BY <1>4
    <2> HIDE DEF new
    <2>3. /\ app' \in [Appenders -> Appending]
          /\ \A b \in Appenders : app'[b] = IF b = a THEN new ELSE app[b]
      BY <2>1, <2>2 DEF EventIInv, EventTypeOK
    <2>4. EventTypeOK'
      BY <1>1, <1>3, <1>4, <2>3 DEF EventIInv, EventTypeOK, connVars
    <2>5. ASSUME InRoom, NEW e \in events', e.seq > LastSeq PROVE OnTheList(e)'
      <3>1. CASE e = NewEvent
        BY <2>1, <2>3, <3>1 DEF OnTheList, OnItsWay
      <3>2. CASE e # NewEvent
        <4>1. OnTheList(e)
          BY <1>1, <2>5, <3>2 DEF EventIInv, SeamHolds
        <4> QED
          BY <1>1, <1>4, <2>3, <4>1 DEF OnTheList, OnItsWay, Excused, connVars
      <3> QED
        BY <3>1, <3>2
    <2> QED
      BY <1>1, <2>4, <2>5, PublishingStep
  <1>5. CASE silent' = (IF HasReadCatchUp THEN silent \cup {NewEvent} ELSE silent) /\ UNCHANGED app
    <2>1. EventTypeOK'
      BY <1>1, <1>2, <1>3, <1>5 DEF EventIInv, EventTypeOK, connVars
    <2>2. ASSUME InRoom, NEW e \in events', e.seq > LastSeq PROVE OnTheList(e)'
      <3>1. CASE e = NewEvent
        BY <1>1, <1>5, <2>2, <3>1
           DEF OnTheList, OnItsWay, Excused, HasReadCatchUp, InRoom, connVars
      <3>2. CASE e # NewEvent
        <4>1. OnTheList(e)
          BY <1>1, <2>2, <3>2 DEF EventIInv, SeamHolds
        <4> QED
          BY <1>1, <1>5, <4>1 DEF OnTheList, OnItsWay, Excused, connVars
      <3> QED
        BY <3>1, <3>2
    <2> QED
      BY <1>1, <2>1, <2>2, PublishingStep
  <1> QED
    BY <1>4, <1>5 DEF AppendEvent

\* A reset takes events out of the store and puts none in.
LEMMA ResetStep ==
  ASSUME EventIInv, ResetDeletes \/ ResetRenumbers \/ ResetFails
  PROVE  EventIInv'
  <1>1. /\ UNCHANGED <<silent, app, connVars, channel, dropped>>
        /\ events' \subseteq events
    BY DEF ResetDeletes, ResetRenumbers, ResetFails
  <1>2. /\ nextSeq' \in 1..(MaxSeq + 1) /\ resets' \in 0..MaxResets
        /\ resetting' \in BOOLEAN /\ (resetting' => resets' < MaxResets)
        /\ deleted' \subseteq Event
    <2>1. /\ MaxSeq \in Nat /\ MaxResets \in Nat /\ nextSeq \in 1..(MaxSeq + 1)
          /\ resets \in 0..MaxResets /\ (resetting => resets < MaxResets)
          /\ events \subseteq Event
      BY EventAssumption DEF EventAssumption, EventIInv, EventTypeOK
    <2>2. CASE ResetDeletes
      BY <2>1, <2>2 DEF ResetDeletes
    <2>3. CASE ResetRenumbers
      <3>1. resets < MaxResets /\ nextSeq' = 1 /\ resets' = resets + 1
            /\ resetting' = FALSE /\ deleted' = {}
        BY <2>1, <2>3 DEF ResetRenumbers
      <3>2. nextSeq' \in 1..(MaxSeq + 1) /\ resets' \in 0..MaxResets
        BY <2>1, <3>1
      <3>3. resetting' \in BOOLEAN /\ ~resetting' /\ deleted' \subseteq Event
        BY <3>1
      <3> QED
        BY <3>2, <3>3
    <2>4. CASE ResetFails
      BY <2>1, <2>4 DEF ResetFails
    <2> QED
      BY <2>2, <2>3, <2>4
  <1>3. EventTypeOK'
    BY <1>1, <1>2 DEF EventIInv, EventTypeOK, connVars
  <1>4. ASSUME InRoom, NEW e \in events', e.seq > LastSeq PROVE OnTheList(e)'
    <2>1. OnTheList(e)
      BY <1>1, <1>4 DEF EventIInv, SeamHolds
    <2> QED
      BY <1>1, <2>1 DEF OnTheList, OnItsWay, Excused, connVars
  <1> QED
    BY <1>1, <1>3, <1>4, PublishingStep

LEMMA PublishEventStep ==
  ASSUME EventIInv, NEW a \in Appenders, PublishEvent(a)
  PROVE  EventIInv'
  <1> DEFINE new == IF InRoom THEN [app[a] EXCEPT !.pc = "send"] ELSE Resting
  <1>1. /\ UNCHANGED <<storeVars, connVars, channel, dropped>> /\ app[a].pc = "publish"
        /\ app[a] \in Appending /\ app' = [app EXCEPT ![a] = new]
    BY DEF PublishEvent, EventIInv, EventTypeOK
  <1>2. new \in Appending /\ (InRoom => new # Resting /\ new.event = app[a].event)
    <2>1. app[a] \in [pc : {"publish", "send", "drop", "block"}, event : Event]
      BY <1>1 DEF Appending, Resting
    <2>2. CASE InRoom
      <3>1. new = [app[a] EXCEPT !.pc = "send"]
        BY <2>2
      <3>2. new.pc = "send" /\ new.event = app[a].event
        BY <2>1, <3>1
      <3>3. new \in Appending
        BY <2>1, <3>1 DEF Appending
      <3> QED
        BY <3>2, <3>3 DEF Resting
    <2>3. CASE ~InRoom
      BY <2>3 DEF Appending
    <2> QED
      BY <2>2, <2>3
  <1> HIDE DEF new
  <1>3. /\ app' \in [Appenders -> Appending]
        /\ \A b \in Appenders : app'[b] = IF b = a THEN new ELSE app[b]
    BY <1>1, <1>2 DEF EventIInv, EventTypeOK
  <1>4. EventTypeOK'
    BY <1>1, <1>3 DEF EventIInv, EventTypeOK, connVars, storeVars
  <1>5. ASSUME InRoom, NEW e \in events', e.seq > LastSeq PROVE OnTheList(e)'
    <2>1. OnTheList(e)
      BY <1>1, <1>5 DEF EventIInv, SeamHolds, storeVars
    <2> QED
      BY <1>1, <1>2, <1>3, <1>5, <2>1 DEF OnTheList, OnItsWay, Excused, connVars, storeVars
  <1> QED
    BY <1>1, <1>4, <1>5, PublishingStep

\* An appender puts its event into the channel and is done with it.
LEMMA EnqueuedStep ==
  ASSUME EventIInv, NEW a \in Appenders, app[a].pc # "idle", ~ChannelFull,
         channel' = Append(channel, app[a].event), app' = [app EXCEPT ![a] = Resting],
         UNCHANGED <<storeVars, connVars, dropped>>
  PROVE  EventIInv'
  <1>1. app[a].event \in Event /\ Resting \in Appending
    <2>1. app[a] \in Appending /\ app[a] # Resting
      BY DEF EventIInv, EventTypeOK, Resting
    <2> QED
      BY <2>1 DEF Appending
  <1>2. /\ app' \in [Appenders -> Appending]
        /\ \A b \in Appenders : app'[b] = IF b = a THEN Resting ELSE app[b]
    BY <1>1 DEF EventIInv, EventTypeOK
  <1>3. /\ channel' \in Seq(Event) /\ InSeq(channel', app[a].event)
        /\ \A e : InSeq(channel, e) => InSeq(channel', e)
    BY <1>1, InAppended DEF EventIInv, EventTypeOK
  <1>4. Len(channel') <= EventCap
    <2>1. Len(channel) \in Nat /\ Len(channel) < EventCap
      BY EventAssumption DEF EventAssumption, EventIInv, EventTypeOK, ChannelFull
    <2>2. Len(channel') = Len(channel) + 1
      BY <1>1, AppendProperties DEF EventIInv, EventTypeOK
    <2> QED
      BY <2>1, <2>2, EventAssumption DEF EventAssumption
  <1>5. EventTypeOK'
    BY <1>2, <1>3, <1>4 DEF EventIInv, EventTypeOK, connVars, storeVars
  <1>6. ASSUME InRoom, NEW e \in events', e.seq > LastSeq PROVE OnTheList(e)'
    <2>1. OnTheList(e)
      BY <1>6 DEF EventIInv, SeamHolds, storeVars
    <2> QED
      BY <1>2, <1>3, <2>1 DEF OnTheList, OnItsWay, Excused, connVars, storeVars, InSeq
  <1> QED
    BY <1>5, <1>6, PublishingStep

\* An appender goes on to its next attempt, and the channel may lose its head.
LEMMA NextAttemptStep ==
  ASSUME EventIInv, NEW a \in Appenders, NEW pc \in {"drop", "block"}, app[a].pc # "idle",
         app' = [app EXCEPT ![a].pc = pc],
         \/ UNCHANGED <<channel, dropped>>
         \/ /\ channel # <<>> /\ channel' = Tail(channel)
            /\ dropped' = dropped \cup {Head(channel)},
         UNCHANGED <<storeVars, connVars>>
  PROVE  EventIInv'
  <1> DEFINE new == [app[a] EXCEPT !.pc = pc]
  <1>1. app[a] \in [pc : {"publish", "send", "drop", "block"}, event : Event]
    BY DEF EventIInv, EventTypeOK, Appending, Resting
  <1>2. new \in Appending /\ new # Resting /\ new.event = app[a].event
    <2>1. new.pc = pc /\ new.event = app[a].event
      BY <1>1
    <2>2. new \in Appending
      BY <1>1 DEF Appending
    <2> QED
      BY <2>1, <2>2 DEF Resting
  <1>3. app' = [app EXCEPT ![a] = new]
    BY <1>1 DEF EventIInv, EventTypeOK
  <1> HIDE DEF new
  <1>4. /\ app' \in [Appenders -> Appending]
        /\ \A b \in Appenders : app'[b] = IF b = a THEN new ELSE app[b]
    BY <1>2, <1>3 DEF EventIInv, EventTypeOK
  <1>5. /\ channel' \in Seq(Event) /\ Len(channel') <= EventCap
        /\ dropped' \subseteq Event /\ dropped \subseteq dropped'
        /\ \A e : InSeq(channel, e) => InSeq(channel', e) \/ e \in dropped'
    <2>0. channel \in Seq(Event) /\ Len(channel) <= EventCap /\ dropped \subseteq Event
      BY DEF EventIInv, EventTypeOK
    <2>1. CASE UNCHANGED <<channel, dropped>>
      BY <2>0, <2>1
    <2>2. CASE /\ channel # <<>> /\ channel' = Tail(channel)
               /\ dropped' = dropped \cup {Head(channel)}
      <3>1. Len(channel') = Len(channel) - 1 /\ Len(channel) \in Nat
        BY <2>0, <2>2
      <3>2. Len(channel') <= EventCap
        BY <2>0, <3>1, EventAssumption DEF EventAssumption
      <3> QED
        BY <2>0, <2>2, <3>2, InTail
    <2> QED
      BY <2>1, <2>2
  <1>6. EventTypeOK'
    BY <1>4, <1>5 DEF EventIInv, EventTypeOK, connVars, storeVars
  <1>7. ASSUME InRoom, NEW e \in events', e.seq > LastSeq PROVE OnTheList(e)'
    <2>1. OnTheList(e)
      BY <1>7 DEF EventIInv, SeamHolds, storeVars
    <2> QED
      BY <1>2, <1>4, <1>5, <2>1 DEF OnTheList, OnItsWay, Excused, connVars, storeVars, InSeq
  <1> QED
    BY <1>6, <1>7, PublishingStep

LEMMA HubStep ==
  ASSUME EventIInv, NEW a \in Appenders, TryEnqueue(a) \/ DropFirst(a) \/ EnqueueBlocking(a)
  PROVE  EventIInv'
  <1>1. CASE TryEnqueue(a)
    BY <1>1, EnqueuedStep, NextAttemptStep DEF TryEnqueue
  <1>2. CASE DropFirst(a)
    BY <1>2, NextAttemptStep DEF DropFirst
  <1>3. CASE EnqueueBlocking(a)
    BY <1>3, EnqueuedStep DEF EnqueueBlocking
  <1> QED
    BY <1>1, <1>2, <1>3

-----------------------------------------------------------------------------
\* A step of the handler that writes nothing.
LEMMA HandlerStep ==
  ASSUME EventIInv, UNCHANGED <<storeVars, app, channel, dropped, lastSeq, written, overtaken>>,
         phase' \in {"joined", "catching", "live", "gone"}, catchUp' \in Seq(Event),
         phase' = "joined" => phase = "away",
         InRoom' => \A e \in events : e.seq > LastSeq => OnTheList(e)'
  PROVE  EventIInv'
  <1>1. EventTypeOK'
    BY DEF EventIInv, EventTypeOK, storeVars
  <1>2. WrittenOK'
    BY DEF EventIInv, WrittenOK, WrittenIsBehind, LastIsWritten, WrittenInOrder,
           OvertakenIsBehind, BehindWritten
  <1>3. ConnectionStarts'
    BY DEF EventIInv, ConnectionStarts
  <1>4. SeamHolds'
    BY DEF SeamHolds, storeVars
  <1> QED
    BY <1>1, <1>2, <1>3, <1>4 DEF EventIInv

LEMMA JoinStep == EventIInv /\ Join => EventIInv'
  <1> SUFFICES ASSUME EventIInv, Join PROVE EventIInv'
    OBVIOUS
  <1>1. catchUp' \in Seq(Event) /\ phase = "away" /\ phase' = "joined"
    BY DEF Join, EventIInv, EventTypeOK
  <1>2. \A e \in events : OnTheList(e)'
    BY <1>1 DEF OnTheList, OnItsWay
  <1> QED
    BY <1>1, <1>2, HandlerStep DEF Join

LEMMA ReadCatchUpStep == EventIInv /\ ReadCatchUp => EventIInv'
  <1> SUFFICES ASSUME EventIInv, ReadCatchUp PROVE EventIInv'
    OBVIOUS
  <1>1. /\ phase = "joined" /\ lastSeq = LastSeq /\ catchUp \in Seq(Event)
        /\ UNCHANGED <<storeVars, app, channel, dropped, lastSeq, written, overtaken>>
    BY DEF ReadCatchUp, EventIInv, EventTypeOK, ConnectionStarts
  <1>2. CASE phase' = "gone" /\ UNCHANGED catchUp
    <2>1. ~InRoom'
      BY <1>2 DEF InRoom
    <2> QED
      BY <1>1, <1>2, <2>1, HandlerStep
  <1>3. CASE phase' = "catching" /\ catchUp' \in Listings({e \in events : e.seq > lastSeq})
    <2> DEFINE E == {e \in events : e.seq > lastSeq}
    <2>1. E \in SUBSET Event
      BY DEF EventIInv, EventTypeOK
    <2>2. catchUp' \in Listings(E)
      BY <1>3
    <2> HIDE DEF E
    <2>3. catchUp' \in Seq(Event) /\ \A e \in E : InSeq(catchUp', e)
      BY <2>1, <2>2, ListingIsComplete
    <2>4. \A e \in events : e.seq > LastSeq => e \in E
      BY <1>1 DEF E
    <2>5. \A e \in events : e.seq > LastSeq => OnTheList(e)'
      BY <2>3, <2>4 DEF OnTheList, OnItsWay, InSeq
    <2> QED
      BY <1>1, <1>3, <2>3, <2>5, HandlerStep
  <1> QED
    BY <1>2, <1>3 DEF ReadCatchUp

LEMMA GoLiveStep == EventIInv /\ (GoLive \/ Leave) => EventIInv'
  <1> SUFFICES ASSUME EventIInv, GoLive \/ Leave PROVE EventIInv'
    OBVIOUS
  <1>1. /\ UNCHANGED <<storeVars, app, channel, dropped, lastSeq, catchUp, written, overtaken>>
        /\ phase \in {"catching", "live"} /\ phase' \in {"live", "gone"}
        /\ phase' = "live" => phase = "catching"
    BY DEF GoLive, Leave
  <1>2. catchUp' \in Seq(Event)
    BY <1>1 DEF EventIInv, EventTypeOK
  <1>3. ASSUME InRoom', NEW e \in events, e.seq > LastSeq PROVE OnTheList(e)'
    <2>1. OnTheList(e)
      BY <1>1, <1>3 DEF EventIInv, SeamHolds, InRoom
    <2> QED
      BY <1>1, <2>1 DEF OnTheList, OnItsWay, Excused, storeVars
  <1> QED
    BY <1>1, <1>2, <1>3, HandlerStep

\* An event beyond the last number keeps the order of what is written.
LEMMA WrittenInFront ==
  ASSUME EventIInv, NEW e \in Event, ~Stale(e), WriteOne(e)
  PROVE  /\ lastSeq' \in Nat /\ written' \in Seq(Event) /\ UNCHANGED overtaken
         /\ WrittenOK' /\ InSeq(written', e)
         /\ \A d : InSeq(written, d) => InSeq(written', d)
  <1>1. /\ lastSeq \in Nat /\ written \in Seq(Event) /\ LastSeq \in Nat
        /\ WrittenOK /\ e.seq \in Nat
    BY EventAssumption DEF EventAssumption, EventIInv, EventTypeOK, Event
  <1>2. lastSeq' = e.seq /\ written' = Append(written, e) /\ UNCHANGED overtaken /\ e.seq > lastSeq
    BY <1>1 DEF WriteOne, Stale
  <1>3. /\ written' \in Seq(Event) /\ InSeq(written', e)
        /\ \A d : InSeq(written, d) => InSeq(written', d)
    BY <1>1, <1>2, InAppended
  <1>4. /\ DOMAIN written' = 1..(Len(written) + 1) /\ DOMAIN written = 1..Len(written)
        /\ Len(written) \in Nat /\ written'[Len(written) + 1] = e
        /\ \A i \in DOMAIN written : written'[i] = written[i] /\ written[i].seq \in Nat
    <2>1. /\ Len(written') = Len(written) + 1 /\ written'[Len(written) + 1] = e
          /\ \A i \in 1..Len(written) : written'[i] = written[i]
      BY <1>1, <1>2, AppendProperties
    <2>2. /\ DOMAIN written' = 1..Len(written') /\ DOMAIN written = 1..Len(written)
          /\ Len(written) \in Nat
      BY <1>1, <1>3
    <2>3. \A i \in DOMAIN written : written[i] \in Event
      BY <1>1
    <2>4. \A i \in DOMAIN written : written[i].seq \in Nat
      BY <2>3 DEF Event
    <2> QED
      BY <2>1, <2>2, <2>4
  <1>5. WrittenIsBehind' /\ LastIsWritten'
    BY <1>1, <1>2, <1>4 DEF WrittenOK, WrittenIsBehind, LastIsWritten
  <1>6. ASSUME NEW i \in DOMAIN written', NEW j \in DOMAIN written', i < j
        PROVE  written'[i].seq < written'[j].seq
    <2>1. i \in DOMAIN written
      BY <1>4, <1>6
    <2>2. CASE j = Len(written) + 1
      BY <1>1, <1>2, <1>4, <2>1, <2>2 DEF WrittenOK, WrittenIsBehind
    <2>3. CASE j # Len(written) + 1
      BY <1>1, <1>4, <1>6, <2>1, <2>3 DEF WrittenOK, WrittenInOrder
    <2> QED
      BY <2>2, <2>3
  <1>7. OvertakenIsBehind'
    <2>1. ASSUME NEW d \in overtaken PROVE BehindWritten(d)'
      <3>1. PICK i \in DOMAIN written :
              written[i].seq > d.seq \/ (written[i].seq = d.seq /\ written[i].era # d.era)
        BY <1>1, <2>1 DEF WrittenOK, OvertakenIsBehind, BehindWritten
      <3>2. i \in DOMAIN written' /\ written'[i] = written[i]
        BY <1>4
      <3> QED
        BY <3>1, <3>2 DEF BehindWritten
    <2> QED
      BY <1>2, <2>1 DEF OvertakenIsBehind
  <1> QED
    BY <1>1, <1>2, <1>3, <1>5, <1>6, <1>7 DEF WrittenOK, WrittenInOrder

\* An event that is left out is written already, or not asked for, or behind another.
LEMMA LeftOut ==
  ASSUME EventIInv, NEW e \in Event, Stale(e), WriteOne(e)
  PROVE  /\ UNCHANGED <<lastSeq, written>> /\ WrittenOK'
         /\ overtaken' \subseteq Event /\ overtaken \subseteq overtaken'
         /\ e.seq > LastSeq => InSeq(written, e) \/ e \in overtaken'
  <1>1. /\ lastSeq \in Nat /\ written \in Seq(Event) /\ overtaken \subseteq Event
        /\ LastSeq \in Nat /\ WrittenOK /\ e.seq \in Nat /\ e.seq <= lastSeq
    BY EventAssumption DEF EventAssumption, EventIInv, EventTypeOK, Event, Stale
  <1>2. /\ UNCHANGED <<lastSeq, written>>
        /\ overtaken' = IF InSeq(written, e) \/ e.seq <= LastSeq
                        THEN overtaken ELSE overtaken \cup {e}
    BY DEF WriteOne
  <1>3. ~InSeq(written, e) /\ e.seq > LastSeq => BehindWritten(e)
    <2> SUFFICES ASSUME ~InSeq(written, e), e.seq > LastSeq PROVE BehindWritten(e)
      OBVIOUS
    <2>1. PICK i \in DOMAIN written : written[i].seq = lastSeq
      BY <1>1 DEF WrittenOK, LastIsWritten
    <2>2. written[i] # e /\ written[i] \in Event
      BY <1>1, <2>1 DEF InSeq
    <2>3. written[i].seq = e.seq => written[i].era # e.era
      BY <2>2 DEF Event
    <2> QED
      BY <1>1, <2>1, <2>3 DEF BehindWritten
  <1>4. WrittenIsBehind' /\ LastIsWritten' /\ WrittenInOrder'
    BY <1>1, <1>2 DEF WrittenOK, WrittenIsBehind, LastIsWritten, WrittenInOrder
  <1>5. OvertakenIsBehind'
    <2>1. \A d \in overtaken' : BehindWritten(d)
      BY <1>1, <1>2, <1>3 DEF WrittenOK, OvertakenIsBehind
    <2> QED
      BY <1>2, <2>1 DEF OvertakenIsBehind, BehindWritten
  <1> QED
    BY <1>1, <1>2, <1>4, <1>5 DEF WrittenOK

LEMMA WrittenStep ==
  ASSUME EventIInv, NEW e \in Event, WriteOne(e)
  PROVE  /\ lastSeq' \in Nat /\ written' \in Seq(Event) /\ overtaken' \subseteq Event
         /\ WrittenOK'
         /\ \A d : InSeq(written, d) => InSeq(written', d)
         /\ overtaken \subseteq overtaken'
         /\ e.seq > LastSeq => InSeq(written', e) \/ e \in overtaken'
  <1>1. lastSeq \in Nat /\ written \in Seq(Event) /\ overtaken \subseteq Event
    BY DEF EventIInv, EventTypeOK
  <1>2. CASE Stale(e)
    BY <1>1, <1>2, LeftOut
  <1>3. CASE ~Stale(e)
    BY <1>1, <1>3, WrittenInFront
  <1> QED
    BY <1>2, <1>3

LEMMA WriteCatchUpStep == EventIInv /\ WriteCatchUp => EventIInv'
  <1> SUFFICES ASSUME EventIInv, WriteCatchUp PROVE EventIInv'
    OBVIOUS
  <1>1. /\ catchUp \in Seq(Event) /\ catchUp # <<>> /\ phase = "catching"
        /\ WriteOne(Head(catchUp)) /\ catchUp' = Tail(catchUp)
        /\ UNCHANGED <<storeVars, app, channel, dropped, phase>>
    BY DEF WriteCatchUp, EventIInv, EventTypeOK
  <1>2. /\ Head(catchUp) \in Event /\ catchUp' \in Seq(Event)
        /\ \A e : InSeq(catchUp, e) => e = Head(catchUp) \/ InSeq(catchUp', e)
    BY <1>1, InTail
  <1>3. /\ lastSeq' \in Nat /\ written' \in Seq(Event) /\ overtaken' \subseteq Event
        /\ WrittenOK'
        /\ \A d : InSeq(written, d) => InSeq(written', d)
        /\ overtaken \subseteq overtaken'
        /\ Head(catchUp).seq > LastSeq =>
              InSeq(written', Head(catchUp)) \/ Head(catchUp) \in overtaken'
    BY <1>1, <1>2, WrittenStep
  <1>4. EventTypeOK'
    BY <1>1, <1>2, <1>3 DEF EventIInv, EventTypeOK, storeVars
  <1>5. ConnectionStarts'
    BY <1>1 DEF ConnectionStarts
  <1>6. ASSUME NEW e \in events, e.seq > LastSeq PROVE OnTheList(e)'
    <2>1. OnTheList(e)
      BY <1>1, <1>6 DEF EventIInv, SeamHolds, InRoom
    <2> QED
      BY <1>1, <1>2, <1>3, <1>6, <2>1 DEF OnTheList, OnItsWay, Excused, storeVars, InSeq
  <1>7. SeamHolds'
    BY <1>1, <1>6 DEF SeamHolds, storeVars
  <1> QED
    BY <1>3, <1>4, <1>5, <1>7 DEF EventIInv

LEMMA WriteLiveStep == EventIInv /\ WriteLive => EventIInv'
  <1> SUFFICES ASSUME EventIInv, WriteLive PROVE EventIInv'
    OBVIOUS
  <1>1. /\ channel \in Seq(Event) /\ channel # <<>> /\ phase = "live"
        /\ WriteOne(Head(channel)) /\ channel' = Tail(channel)
        /\ UNCHANGED <<storeVars, app, dropped, phase, catchUp>>
    BY DEF WriteLive, EventIInv, EventTypeOK
  <1>2. /\ Head(channel) \in Event /\ channel' \in Seq(Event)
        /\ \A e : InSeq(channel, e) => e = Head(channel) \/ InSeq(channel', e)
    BY <1>1, InTail
  <1>3. /\ lastSeq' \in Nat /\ written' \in Seq(Event) /\ overtaken' \subseteq Event
        /\ WrittenOK'
        /\ \A d : InSeq(written, d) => InSeq(written', d)
        /\ overtaken \subseteq overtaken'
        /\ Head(channel).seq > LastSeq =>
              InSeq(written', Head(channel)) \/ Head(channel) \in overtaken'
    BY <1>1, <1>2, WrittenStep
  <1>4. Len(channel') <= EventCap
    <2>1. Len(channel') = Len(channel) - 1 /\ Len(channel) \in Nat /\ Len(channel) <= EventCap
      BY <1>1 DEF EventIInv, EventTypeOK
    <2> QED
      BY <2>1, EventAssumption DEF EventAssumption
  <1>5. EventTypeOK'
    BY <1>1, <1>2, <1>3, <1>4 DEF EventIInv, EventTypeOK, storeVars
  <1>6. ConnectionStarts'
    BY <1>1 DEF ConnectionStarts
  <1>7. ASSUME NEW e \in events, e.seq > LastSeq PROVE OnTheList(e)'
    <2>1. OnTheList(e)
      BY <1>1, <1>7 DEF EventIInv, SeamHolds, InRoom
    <2> QED
      BY <1>1, <1>2, <1>3, <1>7, <2>1 DEF OnTheList, OnItsWay, Excused, storeVars, InSeq
  <1>8. SeamHolds'
    BY <1>1, <1>7 DEF SeamHolds, storeVars
  <1> QED
    BY <1>3, <1>5, <1>6, <1>8 DEF EventIInv

-----------------------------------------------------------------------------
LEMMA EventsStep == EventIInv /\ [EventNext]_eventVars => EventIInv'
  <1> SUFFICES ASSUME EventIInv, [EventNext]_eventVars PROVE EventIInv'
    OBVIOUS
  <1>1. CASE UNCHANGED eventVars
    BY <1>1 DEF eventVars, EventIInv, EventTypeOK, ConnectionStarts, WrittenOK, WrittenIsBehind,
                LastIsWritten, WrittenInOrder, OvertakenIsBehind, BehindWritten, SeamHolds,
                InRoom, OnTheList, OnItsWay, Excused, InSeq
  <1>2. ASSUME NEW a \in Appenders,
               \/ AppendEvent(a) \/ PublishEvent(a)
               \/ TryEnqueue(a) \/ DropFirst(a) \/ EnqueueBlocking(a)
        PROVE  EventIInv'
    BY <1>2, AppendEventStep, PublishEventStep, HubStep
  <1>3. CASE ResetDeletes \/ ResetRenumbers \/ ResetFails
    BY <1>3, ResetStep
  <1>4. CASE Join \/ ReadCatchUp \/ WriteCatchUp \/ GoLive \/ WriteLive \/ Leave
    BY <1>4, JoinStep, ReadCatchUpStep, WriteCatchUpStep, GoLiveStep, WriteLiveStep
  <1> QED
    BY <1>1, <1>2, <1>3, <1>4 DEF EventNext

\* The invariant, the types of the store and of the connection with it, holds however
\* the appenders, a reset, the hub and the handler interleave: two events never have
\* the same number (UNIQUE of meeting_events), also when appends meet a reset.
THEOREM EventsInvariant == EventSpec => []EventIInv
  BY EventsInitially, EventsStep, PTL DEF EventSpec

\* Between the catch-up and the live relay no stored event falls through but for those
\* an interrupted append never published, none comes twice, and what is left out is
\* behind another event (writeCatchUp, writeEvent).
THEOREM NothingIsLostAtSeam == EventSpec => []NothingLostAtSeam
  <1>1. EventIInv => NothingLostAtSeam
    BY DEF EventIInv, WrittenOK, WrittenInOrder, OvertakenIsBehind, BehindWritten, SeamHolds,
           OnTheList, NothingLostAtSeam
  <1> QED
    BY <1>1, EventsInvariant, PTL
=============================================================================
