------------------------------- MODULE EventHub -------------------------------
(***************************************************************************)
(* The durable events of one meeting and one browser that follows them: a  *)
(* transaction numbers and stores an event, the hub publishes it, and a    *)
(* connection first catches up from the store, then relays what the hub    *)
(* queued meanwhile.                                                       *)
(*                                                                         *)
(* The hub is entered after the commit, so events can be published in      *)
(* another order than that of their numbers, and an event whose commit     *)
(* took effect with an error is published by nobody.  The connection       *)
(* leaves out what is not beyond the last number it wrote.  A reset of the *)
(* meeting starts the numbers anew and tells no connection; an event is    *)
(* its number and the resets before it.                                    *)
(***************************************************************************)
EXTENDS Integers, Sequences, FiniteSets

CONSTANTS
    Appenders,  \* goroutines in AppendAndPublish
    LastSeq,    \* number the browser names when it connects
    EventCap,   \* capacity of the connection's channel
    MaxSeq,     \* bound: numbers of the meeting's events
    MaxResets   \* bound: resets of the meeting, one at a time

ASSUME EventAssumption ==
    LastSeq \in Nat /\ EventCap \in Nat \ {0} /\ {MaxSeq, MaxResets} \subseteq Nat

VARIABLES
    nextSeq,   \* meetings.next_seq
    events,    \* meeting_events
    resets,    \* resets of the meeting so far
    resetting, \* the transaction of a reset is open
    deleted,   \* what it deleted
    app,       \* the appenders
    phase,     \* the connection's handler
    lastSeq,   \* c.lastSeq
    channel,   \* c.send
    catchUp,   \* events read for the catch-up and not yet written
    written,   \* what the browser got, in order
    silent,    \* events stored without an answer after the catch-up was read
    dropped,   \* events enqueue took out of the full channel
    overtaken  \* events left out that were not written

eventVars == <<nextSeq, events, resets, resetting, deleted, app, phase, lastSeq, channel, catchUp,
               written, silent, dropped, overtaken>>
storeVars == <<nextSeq, events, resets, resetting, deleted, silent>>
connVars == <<phase, lastSeq, catchUp, written, overtaken>>

Event == [era : 0..MaxResets, seq : 1..MaxSeq]

Resting == [pc |-> "idle"]
Appending == {Resting} \cup [pc : {"publish", "send", "drop", "block"}, event : Event]

InSeq(s, e) == \E i \in DOMAIN s : s[i] = e

EventTypeOK ==
    /\ nextSeq \in 1..(MaxSeq + 1)
    /\ events \subseteq Event
    /\ \A e, d \in events : e.seq = d.seq => e = d
    /\ resets \in 0..MaxResets
    /\ resetting \in BOOLEAN /\ (resetting => resets < MaxResets)
    /\ deleted \subseteq Event
    /\ app \in [Appenders -> Appending]
    /\ phase \in {"away", "joined", "catching", "live", "gone"}
    /\ lastSeq \in Nat
    /\ channel \in Seq(Event) /\ Len(channel) <= EventCap
    /\ catchUp \in Seq(Event)
    /\ written \in Seq(Event)
    /\ silent \cup dropped \cup overtaken \subseteq Event

EventInit ==
    /\ nextSeq = 1 /\ events = {} /\ resets = 0 /\ resetting = FALSE /\ deleted = {}
    /\ app = [a \in Appenders |-> Resting]
    /\ phase = "away" /\ lastSeq = LastSeq
    /\ channel = <<>> /\ catchUp = <<>> /\ written = <<>>
    /\ silent = {} /\ dropped = {} /\ overtaken = {}

-----------------------------------------------------------------------------
(***************************************************************************)
(* AppendEvent: the row of the meeting is locked from the update to the    *)
(* commit.  When the answer of the commit is lost, AppendAndPublish        *)
(* returns the error without publishing.  A failure before the commit,     *)
(* which a number that is taken (UNIQUE) is too, changes nothing.          *)
(***************************************************************************)
NewEvent == [era |-> resets, seq |-> nextSeq]

\* Mutant: meeting_events without UNIQUE(meeting_id, seq).
AnyNumber == TRUE

FreeNumber == \A e \in events : e.seq # nextSeq

HasReadCatchUp == phase \notin {"away", "joined"}

AppendEvent(a) ==
    /\ app[a].pc = "idle" /\ nextSeq <= MaxSeq
    /\ FreeNumber
    /\ nextSeq' = nextSeq + 1
    /\ events' = events \cup {NewEvent}
    /\ \/ /\ app' = [app EXCEPT ![a] = [pc |-> "publish", event |-> NewEvent]]
          /\ UNCHANGED silent
       \/ /\ silent' = IF HasReadCatchUp THEN silent \cup {NewEvent} ELSE silent
          /\ UNCHANGED app
    /\ UNCHANGED <<resets, resetting, deleted, connVars, channel, dropped>>

(***************************************************************************)
(* ResetMeeting: the events that are committed are deleted, then the row   *)
(* of the meeting is updated, after the appends that hold it.  An event    *)
(* appended in between keeps its number.  Until the commit the others read *)
(* what there was.                                                         *)
(***************************************************************************)
ResetDeletes ==
    /\ ~resetting /\ resets < MaxResets
    /\ resetting' = TRUE
    /\ deleted' = events
    /\ UNCHANGED <<nextSeq, events, resets, silent, app, connVars, channel, dropped>>

ResetRenumbers ==
    /\ resetting
    /\ events' = events \ deleted
    /\ nextSeq' = 1
    /\ resets' = resets + 1
    /\ resetting' = FALSE /\ deleted' = {}
    /\ UNCHANGED <<silent, app, connVars, channel, dropped>>

ResetFails ==
    /\ resetting
    /\ resetting' = FALSE /\ deleted' = {}
    /\ UNCHANGED <<nextSeq, events, resets, silent, app, connVars, channel, dropped>>

\* Mutant: the connection enters the room when it has caught up.
InRoomWhenLive == phase = "live"

InRoom == phase \in {"joined", "catching", "live"}

PublishEvent(a) ==
    /\ app[a].pc = "publish"
    /\ app' = [app EXCEPT ![a] = IF InRoom THEN [@ EXCEPT !.pc = "send"] ELSE Resting]
    /\ UNCHANGED <<storeVars, connVars, channel, dropped>>

ChannelFull == Len(channel) >= EventCap

TryEnqueue(a) ==
    /\ app[a].pc = "send"
    /\ IF ChannelFull
       THEN /\ app' = [app EXCEPT ![a].pc = "drop"]
            /\ UNCHANGED channel
       ELSE /\ channel' = Append(channel, app[a].event)
            /\ app' = [app EXCEPT ![a] = Resting]
    /\ UNCHANGED <<storeVars, connVars, dropped>>

DropFirst(a) ==
    /\ app[a].pc = "drop"
    /\ app' = [app EXCEPT ![a].pc = "block"]
    /\ IF channel = <<>>
       THEN UNCHANGED <<channel, dropped>>
       ELSE channel' = Tail(channel) /\ dropped' = dropped \cup {Head(channel)}
    /\ UNCHANGED <<storeVars, connVars>>

EnqueueBlocking(a) ==
    /\ app[a].pc = "block" /\ ~ChannelFull
    /\ channel' = Append(channel, app[a].event)
    /\ app' = [app EXCEPT ![a] = Resting]
    /\ UNCHANGED <<storeVars, connVars, dropped>>

-----------------------------------------------------------------------------
Join ==
    /\ phase = "away"
    /\ phase' = "joined"
    /\ UNCHANGED <<storeVars, app, channel, dropped, lastSeq, catchUp, written, overtaken>>

\* The listings of a set of events in the order of their numbers, which may have gaps.
Listings(E) ==
    {s \in UNION {[1..n -> E] : n \in 0..MaxSeq} :
        /\ \A i, j \in DOMAIN s : i < j => s[i].seq < s[j].seq
        /\ \A e \in E : InSeq(s, e)}

\* ListEvents after lastSeq, or an error for the browser.
ReadCatchUp ==
    /\ phase = "joined"
    /\ \/ /\ phase' = "catching"
          /\ catchUp' \in Listings({e \in events : e.seq > lastSeq})
       \/ /\ phase' = "gone"
          /\ UNCHANGED catchUp
    /\ UNCHANGED <<storeVars, app, channel, dropped, lastSeq, written, overtaken>>

Stale(e) == e.seq <= lastSeq

\* writeEvent: what was not written before it was left out is lost to this browser.
WriteOne(e) ==
    IF Stale(e)
    THEN /\ overtaken' = IF InSeq(written, e) \/ e.seq <= LastSeq
                         THEN overtaken ELSE overtaken \cup {e}
         /\ UNCHANGED <<lastSeq, written>>
    ELSE /\ lastSeq' = e.seq
         /\ written' = Append(written, e)
         /\ UNCHANGED overtaken

WriteCatchUp ==
    /\ phase = "catching" /\ catchUp # <<>>
    /\ WriteOne(Head(catchUp))
    /\ catchUp' = Tail(catchUp)
    /\ UNCHANGED <<storeVars, app, channel, dropped, phase>>

GoLive ==
    /\ phase = "catching" /\ catchUp = <<>>
    /\ phase' = "live"
    /\ UNCHANGED <<storeVars, app, channel, dropped, lastSeq, catchUp, written, overtaken>>

WriteLive ==
    /\ phase = "live" /\ channel # <<>>
    /\ WriteOne(Head(channel))
    /\ channel' = Tail(channel)
    /\ UNCHANGED <<storeVars, app, dropped, phase, catchUp>>

Leave ==
    /\ phase \in {"catching", "live"}
    /\ phase' = "gone"
    /\ UNCHANGED <<storeVars, app, channel, dropped, lastSeq, catchUp, written, overtaken>>

EventNext ==
    \/ \E a \in Appenders :
          \/ AppendEvent(a) \/ PublishEvent(a)
          \/ TryEnqueue(a) \/ DropFirst(a) \/ EnqueueBlocking(a)
    \/ ResetDeletes \/ ResetRenumbers \/ ResetFails
    \/ Join \/ ReadCatchUp \/ WriteCatchUp \/ GoLive \/ WriteLive \/ Leave

EventSpec == EventInit /\ [][EventNext]_eventVars

-----------------------------------------------------------------------------
(***************************************************************************)
(* Between the catch-up and the live relay no event falls through and none *)
(* comes twice or out of order.  While the browser is in the room, every   *)
(* stored event beyond the number it named is written, or on its way (its  *)
(* publication, the catch-up or the channel), or it was dropped from a     *)
(* full channel, or stored after the catch-up was read with an answer that *)
(* was lost, or left out.  What is written has increasing numbers, also    *)
(* across a reset, and what is left out is behind another event that was   *)
(* written: one with a later number, or with the same one before a reset   *)
(* (writeCatchUp, writeEvent, enqueue, AppendAndPublish).                  *)
(***************************************************************************)
OnItsWay(e) ==
    \/ \E a \in Appenders : app[a] # Resting /\ app[a].event = e
    \/ InSeq(channel, e) \/ InSeq(catchUp, e)
    \/ phase = "joined"

Excused(e) == e \in dropped \cup silent \cup overtaken

NothingLostAtSeam ==
    /\ InRoom => \A e \in events :
         e.seq > LastSeq => InSeq(written, e) \/ OnItsWay(e) \/ Excused(e)
    /\ \A i, j \in DOMAIN written : i < j => written[i].seq < written[j].seq
    /\ \A e \in overtaken : \E i \in DOMAIN written :
         \/ written[i].seq > e.seq
         \/ written[i].seq = e.seq /\ written[i].era # e.era
=============================================================================
