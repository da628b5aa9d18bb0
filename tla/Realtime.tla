------------------------------ MODULE Realtime ------------------------------
(***************************************************************************)
(* The realtime gateway behind one stream of EventLog: the bus reader, the *)
(* pump that fans events out, the hub of WebSocket connections and their   *)
(* admission by ticket (backend/crates/realtime-gateway/src,               *)
(* backend/libs/auth/src/ticket.rs).                                       *)
(*                                                                         *)
(* The reader, the pump, and each connection's reader and writer are tasks *)
(* of their own; a step is what a task does between two awaits.  A crash   *)
(* loses what is in memory, the consumer group stays with the server.      *)
(*                                                                         *)
(* The topics a connection is put into by default (events.devices.TENANT,  *)
(* events.users.USER) are none of those the pump serves, so nothing is     *)
(* ever sent on them; only the index entry of the served topic is kept.    *)
(***************************************************************************)
EXTENDS EventLog

CONSTANTS
  Conns,           \* slots for connections
  ChannelCap,      \* capacity between bus reader and pump (1024)
  SendCap,         \* per_conn_send_capacity (512)
  MaxConnections,
  Unknown          \* rows whose envelope this version cannot decode

ASSUME Capacities == {ChannelCap, SendCap, MaxConnections} \subseteq Nat \ {0}

VARIABLES
  pump,      \* the event pump: starting, running or dead
  batch,     \* entries read and not yet put into the channel
  channel,   \* entries on the way to the pump
  holding,   \* the entry that was fanned out and is being acknowledged, or 0
  offered,   \* history: every entry that was fanned out
  conn,      \* the connections
  by_topic,  \* the connections in the hub's index under the topic of the stream
  ticket     \* whether a WebSocket ticket of the user is valid

pumpVars == <<pump, batch, channel, holding, offered>>
hubVars == <<conn, by_topic, ticket>>
vars == <<logVars, pumpVars, hubVars>>

\* stage, whether the writer task runs, the frames queued for it, and the last
\* entry a client of this slot was sent (over all its connections).
Conn == [stage : {"off", "upgrading", "open", "closing"}, writer : BOOLEAN,
         queue : BoundedSeq(1..MaxEntries, SendCap), last : 0..MaxEntries]

TypeOK ==
  /\ LogTypeOK
  /\ pump \in {"starting", "running", "dead"}
  /\ batch \in BoundedSeq(1..MaxEntries, ReadCount)
  /\ channel \in BoundedSeq(1..MaxEntries, ChannelCap)
  /\ holding \in 0..MaxEntries
  /\ offered \subseteq 1..MaxEntries
  /\ conn \in [Conns -> Conn]
  /\ by_topic \subseteq Conns
  /\ ticket \in BOOLEAN

Off(last) == [stage |-> "off", writer |-> FALSE, queue |-> <<>>, last |-> last]

Init ==
  /\ LogInit
  /\ pump = "starting" /\ batch = <<>> /\ channel = <<>> /\ holding = 0
  /\ offered = {}
  /\ conn = [c \in Conns |-> Off(0)]
  /\ by_topic = {}
  /\ ticket = FALSE

-----------------------------------------------------------------------------
\* RedisStreamsBus::subscribe.  Without a connection the pump ends for good; an
\* error of XGROUP CREATE is ignored, whatever it is.
Subscribe ==
  /\ pump = "starting"
  /\ \/ pump' = "dead" /\ UNCHANGED group
     \/ pump' = "running" /\ (CreateGroup \/ UNCHANGED group)
  /\ UNCHANGED <<outboxVars, entries, batch, channel, holding, offered, hubVars>>

\* Mutant: the reader also asks for what was given before and is pending.
ReadGroupPending ==
  /\ pump = "running" /\ batch = <<>> /\ group # None
  /\ NextEntries # {}
  /\ Give(NextEntries)
  /\ batch' \in {SetToSortSeq(NextEntries \cup group.pending, <), <<>>}
  /\ UNCHANGED <<outboxVars, entries, pump, channel, holding, offered, hubVars>>

\* What the server hands out, in the order of the stream.
Reply == [i \in 1..Cardinality(NextEntries) |-> group.last + i]

\* One XREADGROUP; its reply may be lost after the server has handed it out.
ReadGroup ==
  /\ pump = "running" /\ batch = <<>> /\ group # None
  /\ NextEntries # {}
  /\ Give(NextEntries)
  /\ batch' \in {Reply, <<>>}
  /\ UNCHANGED <<outboxVars, entries, pump, channel, holding, offered, hubVars>>

\* An entry that cannot be decoded is dropped (and stays pending); the others
\* wait for room in the channel.
Forward ==
  /\ batch # <<>>
  /\ batch' = Tail(batch)
  /\ \/ entries[Head(batch)] \in Unknown /\ UNCHANGED channel
     \/ /\ entries[Head(batch)] \notin Unknown
        /\ Len(channel) < ChannelCap
        /\ channel' = Append(channel, Head(batch))
  /\ UNCHANGED <<logVars, pump, holding, offered, hubVars>>

Subscribers == {c \in by_topic : conn[c].stage = "open"}

\* The connections in withRoom are queued the frame.
FanOut(withRoom) ==
  /\ channel # <<>> /\ holding = 0
  /\ channel' = Tail(channel)
  /\ holding' = Head(channel)
  /\ offered' = offered \cup {Head(channel)}
  /\ conn' = [c \in Conns |->
       IF c \in Subscribers \cap withRoom /\ conn[c].writer
       THEN [conn[c] EXCEPT !.queue = Append(@, Head(channel))]
       ELSE conn[c]]
  /\ UNCHANGED <<logVars, pump, batch, by_topic, ticket>>

\* Mutant: the frame is queued whether or not there is room.
PumpAll == FanOut(Conns)

\* The pump offers an entry to every subscriber; a full queue loses the frame.
Pump == FanOut({c \in Conns : Len(conn[c].queue) < SendCap})

\* ack, and its result is ignored.
Ack ==
  /\ holding # 0
  /\ AckEntry(holding) \/ UNCHANGED group
  /\ holding' = 0
  /\ UNCHANGED <<outboxVars, entries, pump, batch, channel, offered, hubVars>>

-----------------------------------------------------------------------------
\* Tickets are stateless: one opens any number of connections until it expires.
IssueTicket ==
  /\ ~ticket
  /\ ticket' = TRUE
  /\ UNCHANGED <<logVars, pumpVars, conn, by_topic>>

ExpireTicket ==
  /\ ticket
  /\ ticket' = FALSE
  /\ UNCHANGED <<logVars, pumpVars, conn, by_topic>>

Online == {c \in Conns : conn[c].stage = "open"}

\* The limit is looked at here and the connection registered after the upgrade.
WsUpgrade(c) ==
  /\ conn[c].stage = "off"
  /\ Cardinality(Online) < MaxConnections
  /\ ticket
  /\ conn' = [conn EXCEPT ![c].stage = "upgrading"]
  /\ UNCHANGED <<logVars, pumpVars, by_topic, ticket>>

\* handle_socket up to the reader loop.
Register(c) ==
  /\ conn[c].stage = "upgrading"
  /\ conn' = [conn EXCEPT ![c].stage = "open", ![c].writer = TRUE]
  /\ UNCHANGED <<logVars, pumpVars, by_topic, ticket>>

ClientCmd(c) ==
  /\ conn[c].stage = "open"
  /\ by_topic' \in {by_topic \cup {c}, by_topic \ {c}}
  /\ UNCHANGED <<logVars, pumpVars, conn, ticket>>

\* The writer sends a frame.
Write(c) ==
  /\ conn[c].writer /\ conn[c].queue # <<>>
  /\ conn' = [conn EXCEPT ![c].queue = Tail(@), ![c].last = Head(conn[c].queue)]
  /\ UNCHANGED <<logVars, pumpVars, by_topic, ticket>>

\* A frame or a ping cannot be sent: the writer ends, the connection stays.
WriterFails(c) ==
  /\ conn[c].writer
  /\ conn' = [conn EXCEPT ![c].writer = FALSE, ![c].queue = <<>>]
  /\ UNCHANGED <<logVars, pumpVars, by_topic, ticket>>

\* The client leaves, or the upgrade comes to nothing; then unregister, which
\* takes the connection out of the map first and out of the index after that.
Leave(c) ==
  /\ \/ /\ conn[c].stage = "open"
        /\ conn' = [conn EXCEPT ![c] = [Off(@.last) EXCEPT !.stage = "closing"]]
     \/ conn[c].stage = "upgrading" /\ conn' = [conn EXCEPT ![c] = Off(@.last)]
  /\ UNCHANGED <<logVars, pumpVars, by_topic, ticket>>

Unregister(c) ==
  /\ conn[c].stage = "closing"
  /\ conn' = [conn EXCEPT ![c] = Off(@.last)]
  /\ by_topic' = by_topic \ {c}
  /\ UNCHANGED <<logVars, pumpVars, ticket>>

\* The process ends and starts again.
Restart ==
  /\ pump' = "starting" /\ batch' = <<>> /\ channel' = <<>> /\ holding' = 0
  /\ conn' = [c \in Conns |-> Off(conn[c].last)]
  /\ by_topic' = {}
  /\ UNCHANGED <<logVars, offered, ticket>>

LogStep ==
  /\ Enqueue \/ \E r \in Relays : \/ ClaimBatch(r) \/ Publish(r)
                                  \/ MarkShipped(r) \/ RelayStops(r)
  /\ UNCHANGED <<pumpVars, hubVars>>

Next ==
  \/ LogStep
  \/ Subscribe \/ ReadGroup \/ Forward \/ Pump \/ Ack \/ Restart
  \/ IssueTicket \/ ExpireTicket
  \/ \E c \in Conns :
       \/ WsUpgrade(c) \/ Register(c) \/ ClientCmd(c) \/ Write(c) \/ WriterFails(c)
       \/ Leave(c) \/ Unregister(c)

Spec == Init /\ [][Next]_vars

-----------------------------------------------------------------------------
\* outbox.rs: claiming a batch must not set published_at, or a relay that stops
\* between claim and publish would lose the event.  A row that counts as shipped
\* is in the stream.
ShippedWasPublished ==
  \A i \in DOMAIN shipped : shipped[i] => \E e \in DOMAIN entries : entries[e] = i

\* redis_streams.rs and hub.rs: an entry the group was given is only settled
\* once it was fanned out; whatever was lost before that (a crash, a lost reply,
\* an unknown kind) can still be found among the pending entries.
SettledWasOffered ==
  group # None =>
    \A e \in (group.start + 1)..group.last : e \in group.pending \cup offered

\* hub.rs: a client is sent the entries in the order of the stream, none after
\* a later one and none again, over reconnects, dropped frames and restarts of
\* the gateway.  An event that was published twice is two entries.
FanOutInOrder ==
  \A c \in Conns :
    LET frames == <<conn[c].last>> \o conn[c].queue IN
    \A i \in 1..(Len(frames) - 1) : frames[i] < frames[i + 1]

\* outbox.rs:9: a duplicate publish is fine because consumers dedupe on
\* Envelope::id.  The frames for a client carry each event once.
EventsReachClientsOnce ==
  \A c \in Conns :
    LET frames == ToSet(<<conn[c].last>> \o conn[c].queue) \ {0} IN
    \A e, f \in frames : entries[e] = entries[f] => e = f
=============================================================================
