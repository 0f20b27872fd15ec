----------------------------- MODULE TranscriptHub -----------------------------
(***************************************************************************)
(* The path of a final transcript from the bot to its listeners: the       *)
(* request that stores it, the realtime hub with the bounded queue of each *)
(* subscriber, and the analyzer and the activity tracker behind the hub.   *)
(*                                                                         *)
(* Every request is a goroutine.  The hub copies its subscribers under the *)
(* lock and sends outside of it, so requests meet at a full queue.  Status *)
(* changes, analyses, health events and partials pass the same queues as   *)
(* notes, which nobody stores.                                             *)
(***************************************************************************)
EXTENDS Naturals, Sequences, FiniteSets

CONSTANTS
    Publishers,  \* goroutines that publish: ingest requests and others
    Clients,     \* websocket connections
    Finals,      \* final segments, named by their event id
    QueueCap,    \* capacity of a subscriber's channel
    MaxSends,    \* bound: deliveries of one final by the bot
    MaxNotes     \* bound: notes published

Note == "note"

ASSUME HubAssumption ==
    /\ QueueCap \in Nat \ {0}
    /\ {MaxSends, MaxNotes} \subseteq Nat
    /\ Note \notin Finals

VARIABLES
    stored,   \* rows of transcript_segments
    sends,    \* deliveries of each final so far
    notes,    \* notes published so far
    reached,  \* finals the analyzer and the tracker were told of
    pub,      \* the publishing goroutines
    members,  \* h.clients
    queue,    \* c.send
    conn,     \* the connection as the server sees it
    done,     \* c.done is closed
    reader, writer

hubVars == <<stored, sends, notes, reached, pub, members, queue, conn, done, reader, writer>>

ingestVars == <<stored, sends, reached>>
clientVars == <<members, conn, done, reader, writer>>

Nobody == "nobody"

(***************************************************************************)
(* raced records that another publisher used the queue while this one was  *)
(* between its look at the full queue and its blocking send.               *)
(***************************************************************************)
Publishing == [pc : {"idle", "copy", "send", "drop", "block"}, event : Finals \cup {Note},
               to : SUBSET Clients, at : Clients \cup {Nobody}, raced : BOOLEAN]

Idle == [pc |-> "idle", event |-> Note, to |-> {}, at |-> Nobody, raced |-> FALSE]

HubTypeOK ==
    /\ stored \subseteq Finals
    /\ sends \in [Finals -> 0..MaxSends]
    /\ notes \in 0..MaxNotes
    /\ reached \subseteq stored
    /\ pub \in [Publishers -> Publishing]
    /\ members \subseteq Clients
    /\ \A c \in Clients : queue[c] \in Seq(Finals \cup {Note}) /\ Len(queue[c]) <= QueueCap
    /\ conn \in [Clients -> {"none", "open", "broken", "closed"}]
    /\ done \in [Clients -> BOOLEAN]
    /\ reader \in [Clients -> {"none", "reading", "leaving", "gone"}]
    /\ writer \in [Clients -> {"none", "writing", "leaving", "gone"}]

HubInit ==
    /\ stored = {} /\ reached = {}
    /\ sends = [f \in Finals |-> 0]
    /\ notes = 0
    /\ pub = [p \in Publishers |-> Idle]
    /\ members = {}
    /\ queue = [c \in Clients |-> <<>>]
    /\ conn = [c \in Clients |-> "none"]
    /\ done = [c \in Clients |-> FALSE]
    /\ reader = [c \in Clients |-> "none"]
    /\ writer = [c \in Clients |-> "none"]

-----------------------------------------------------------------------------
(***************************************************************************)
(* Ingest.  The insert and its commit are one step of the database.  Only  *)
(* a row that this request created is published: a repeated delivery finds *)
(* the row, and a commit whose answer was lost is an error.                *)
(***************************************************************************)
Publish(p, e) == pub' = [pub EXCEPT ![p] = [Idle EXCEPT !.pc = "copy", !.event = e]]

Deliver(p, f) ==
    /\ pub[p].pc = "idle"
    /\ sends[f] < MaxSends
    /\ sends' = [sends EXCEPT ![f] = @ + 1]
    /\ stored' = stored \cup {f}

StoreFinal(p, f) ==
    /\ Deliver(p, f)
    /\ IF f \in stored THEN UNCHANGED pub ELSE Publish(p, f)
    /\ UNCHANGED <<notes, reached, queue, clientVars>>

StoreAnswerLost(p, f) ==
    /\ Deliver(p, f)
    /\ f \notin stored
    /\ UNCHANGED <<notes, reached, pub, queue, clientVars>>

PublishNote(p) ==
    /\ pub[p].pc = "idle"
    /\ notes < MaxNotes
    /\ notes' = notes + 1
    /\ Publish(p, Note)
    /\ UNCHANGED <<ingestVars, queue, clientVars>>

-----------------------------------------------------------------------------
(***************************************************************************)
(* The hub: copy the subscribers, then send to each in the order of a map. *)
(* enqueue tries the channel, takes the oldest event out of a full one and *)
(* then sends without an alternative.                                      *)
(***************************************************************************)
CopyMembers(p) ==
    /\ pub[p].pc = "copy"
    /\ pub' = [pub EXCEPT ![p].pc = "send", ![p].to = members]
    /\ UNCHANGED <<ingestVars, notes, queue, clientVars>>

Full(c) == Len(queue[c]) >= QueueCap

\* p is past client c; the others that wait at c were raced.
Past(p, c) ==
    [q \in Publishers |->
        IF q = p THEN [pub[p] EXCEPT !.pc = "send", !.to = @ \ {c}, !.at = Nobody, !.raced = FALSE]
        ELSE IF pub[q].at = c THEN [pub[q] EXCEPT !.raced = TRUE]
        ELSE pub[q]]

TrySend(p, c) ==
    /\ pub[p].pc = "send" /\ c \in pub[p].to
    /\ IF Full(c)
       THEN /\ pub' = [pub EXCEPT ![p].pc = "drop", ![p].at = c]
            /\ UNCHANGED queue
       ELSE /\ queue' = [queue EXCEPT ![c] = Append(@, pub[p].event)]
            /\ pub' = Past(p, c)
    /\ UNCHANGED <<ingestVars, notes, clientVars>>

\* Mutant: nothing is taken out of the full channel.
KeepOldest(s) == s

WithoutOldest(s) == IF s = <<>> THEN s ELSE Tail(s)

DropOldest(p) ==
    /\ pub[p].pc = "drop"
    /\ queue' = [queue EXCEPT ![pub[p].at] = WithoutOldest(@)]
    /\ pub' = [pub EXCEPT ![p].pc = "block"]
    /\ UNCHANGED <<ingestVars, notes, clientVars>>

BlockingSend(p) ==
    /\ pub[p].pc = "block"
    /\ ~Full(pub[p].at)
    /\ queue' = [queue EXCEPT ![pub[p].at] = Append(@, pub[p].event)]
    /\ pub' = Past(p, pub[p].at)
    /\ UNCHANGED <<ingestVars, notes, clientVars>>

\* The publishers behind the hub are told when the hub returns.
HubReturns(p) ==
    /\ pub[p].pc = "send" /\ pub[p].to = {}
    /\ reached' = reached \cup ({pub[p].event} \ {Note})
    /\ pub' = [pub EXCEPT ![p] = Idle]
    /\ UNCHANGED <<stored, sends, notes, queue, clientVars>>

-----------------------------------------------------------------------------
(***************************************************************************)
(* A subscriber: the handler subscribes, then runs the write loop itself   *)
(* and the read loop beside it.  unsubscribe is called by both loops and   *)
(* by the handler's defer; closeOnce lets the first call through.          *)
(***************************************************************************)
Subscribe(c) ==
    /\ conn[c] = "none"
    /\ conn' = [conn EXCEPT ![c] = "open"]
    /\ members' = members \cup {c}
    /\ reader' = [reader EXCEPT ![c] = "reading"]
    /\ writer' = [writer EXCEPT ![c] = "writing"]
    /\ UNCHANGED <<ingestVars, notes, pub, queue, done>>

Unsubscribe(c) ==
    /\ members' = members \ {c}
    /\ done' = [done EXCEPT ![c] = TRUE]

WriteEvent(c) ==
    /\ writer[c] = "writing"
    /\ conn[c] = "open" /\ queue[c] # <<>>
    /\ queue' = [queue EXCEPT ![c] = Tail(@)]
    /\ UNCHANGED <<ingestVars, notes, pub, clientVars>>

\* An event or the ping of the ticker cannot be written; an event is lost with it.
WriteFails(c) ==
    /\ writer[c] = "writing"
    /\ conn[c] \in {"broken", "closed"}
    /\ \/ queue' = [queue EXCEPT ![c] = WithoutOldest(@)]
       \/ UNCHANGED queue
    /\ Unsubscribe(c)
    /\ writer' = [writer EXCEPT ![c] = "leaving"]
    /\ UNCHANGED <<ingestVars, notes, pub, conn, reader>>

\* Mutant: the handler returns without closing the connection.
WriterLeavesOpen(c) ==
    /\ writer[c] = "leaving"
    /\ writer' = [writer EXCEPT ![c] = "gone"]
    /\ UNCHANGED <<ingestVars, notes, pub, queue, members, done, conn, reader>>

WriterLeaves(c) ==
    /\ writer[c] = "leaving"
    /\ conn' = [conn EXCEPT ![c] = "closed"]
    /\ writer' = [writer EXCEPT ![c] = "gone"]
    /\ UNCHANGED <<ingestVars, notes, pub, queue, members, done, reader>>

WriterSeesDone(c) ==
    /\ writer[c] = "writing" /\ done[c]
    /\ Unsubscribe(c)
    /\ writer' = [writer EXCEPT ![c] = "leaving"]
    /\ UNCHANGED <<ingestVars, notes, pub, queue, conn, reader>>

\* A read fails, or the peer sent a close frame; the connection is closed first.
ReadEnds(c) ==
    /\ reader[c] = "reading"
    /\ conn[c] # "none"
    /\ conn' = [conn EXCEPT ![c] = "closed"]
    /\ reader' = [reader EXCEPT ![c] = "leaving"]
    /\ UNCHANGED <<ingestVars, notes, pub, queue, members, done, writer>>

ReaderLeaves(c) ==
    /\ reader[c] = "leaving"
    /\ Unsubscribe(c)
    /\ reader' = [reader EXCEPT ![c] = "gone"]
    /\ UNCHANGED <<ingestVars, notes, pub, queue, conn, writer>>

PeerVanishes(c) ==
    /\ conn[c] = "open"
    /\ conn' = [conn EXCEPT ![c] = "broken"]
    /\ UNCHANGED <<ingestVars, notes, pub, queue, members, done, reader, writer>>

\* CloseWorkspaceMember closes the connections of a removed member.
CloseMember(c) ==
    /\ c \in members
    /\ conn' = [conn EXCEPT ![c] = "closed"]
    /\ UNCHANGED <<ingestVars, notes, pub, queue, members, done, reader, writer>>

PublisherStep(p) ==
    \/ CopyMembers(p)
    \/ \E c \in Clients : TrySend(p, c)
    \/ DropOldest(p)
    \/ BlockingSend(p)
    \/ HubReturns(p)

ClientStep(c) ==
    \/ Subscribe(c)
    \/ WriteEvent(c) \/ WriteFails(c) \/ WriterLeaves(c) \/ WriterSeesDone(c)
    \/ ReadEnds(c) \/ ReaderLeaves(c)
    \/ PeerVanishes(c) \/ CloseMember(c)

HubNext ==
    \/ \E p \in Publishers, f \in Finals : StoreFinal(p, f) \/ StoreAnswerLost(p, f)
    \/ \E p \in Publishers : PublishNote(p) \/ PublisherStep(p)
    \/ \E c \in Clients : ClientStep(c)

HubSpec == HubInit /\ [][HubNext]_hubVars

-----------------------------------------------------------------------------
(***************************************************************************)
(* A publisher waits forever only behind a write loop that is gone, and    *)
(* only if another publisher took the place it had made in the channel:    *)
(* enqueue's last send has no alternative.                                 *)
(***************************************************************************)
Stuck(p) ==
    /\ pub[p].pc = "block" /\ pub[p].raced
    /\ Full(pub[p].at)
    /\ writer[pub[p].at] \in {"leaving", "gone"}

(***************************************************************************)
(* A final that was handed over reaches the analyzer and the tracker,      *)
(* unless its request is stuck in the hub (compositeTranscriptSegment-     *)
(* Publisher calls the hub first).                                         *)
(***************************************************************************)
HandedFinalReachesAnalyzer ==
    \A p \in Publishers, f \in Finals :
        (pub[p].pc = "copy" /\ pub[p].event = f) ~> (f \in reached \/ Stuck(p))

(***************************************************************************)
(* A connection that is broken or closed is forgotten by the hub, and both *)
(* of its goroutines end (the ping of the write loop finds a dead peer).   *)
(***************************************************************************)
Gone(c) == c \notin members /\ reader[c] = "gone" /\ writer[c] = "gone"

ClosedConnectionIsForgotten ==
    \A c \in Clients : conn[c] \in {"broken", "closed"} ~> Gone(c)

(***************************************************************************)
(* Fairness.  Goroutines that can run do; the channel serves a blocked     *)
(* sender when a place is free again (strong: others may take it first);   *)
(* an open peer reads what is written; the ticker pings for ever; a read   *)
(* of a connection closed here fails, while that of a dead peer may block. *)
(***************************************************************************)
ReadOfClosedEnds(c) == conn[c] = "closed" /\ ReadEnds(c)

HubFairness ==
    /\ \A p \in Publishers :
         /\ WF_hubVars(CopyMembers(p)) /\ WF_hubVars(DropOldest(p)) /\ WF_hubVars(HubReturns(p))
         /\ WF_hubVars(\E c \in Clients : TrySend(p, c))
         /\ SF_hubVars(BlockingSend(p))
    /\ \A c \in Clients :
         /\ WF_hubVars(WriteEvent(c)) /\ WF_hubVars(WriteFails(c)) /\ WF_hubVars(WriterLeaves(c))
         /\ WF_hubVars(WriterSeesDone(c)) /\ WF_hubVars(ReadOfClosedEnds(c))
         /\ WF_hubVars(ReaderLeaves(c))

FairHubSpec == HubSpec /\ HubFairness
=============================================================================
