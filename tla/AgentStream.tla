----------------------------- MODULE AgentStream -----------------------------
(***************************************************************************)
(* The device agent: the loop that keeps one stream to device-service, the *)
(* dispatcher that runs commands, and the telemetry loop, tied together by *)
(* two bounded queues (backend/agents/common/src: stream.rs, commands.rs,  *)
(* telemetry.rs; backend/agents/desktop/src/runtime.rs).                   *)
(*                                                                         *)
(* Commands are numbered in the order the agent receives them and 0 stands *)
(* for any other message; a frame of the agent is the number of the        *)
(* command it answers, or 0.  A task that waits for room in a queue holds  *)
(* its message meanwhile.                                                  *)
(*                                                                         *)
(* The service has a task per stream that reads its frames                 *)
(* (backend/crates/device-service/src/grpc.rs).  It outlives the stream on *)
(* the agent's side: frames of an old stream may be read after the agent   *)
(* has a new one, interleaved with those of the new one, or be lost.       *)
(***************************************************************************)
EXTENDS Integers, SequencesExt

CONSTANTS
  InCap, OutCap,  \* capacities of the two queues of runtime.rs (256)
  BufferCap,      \* capacity of the request stream of one connection (256)
  MaxCommands, MaxStreams  \* bounds of the model

ASSUME AgentCapacities ==
  {InCap, OutCap, BufferCap, MaxCommands, MaxStreams} \subseteq Nat \ {0}

VARIABLES
  loop,      \* where the stream loop waits
  held,      \* the message it holds, when it does
  link,      \* its connection: none, live, or broken
  latest,    \* the number of the last stream it opened, or 0
  stream,    \* for each stream, the frames the service has not read
  inbound,   \* messages for the dispatcher
  outbound,  \* frames for the stream loop
  disp,      \* where the dispatcher is
  current,   \* the command it runs
  orphan,    \* whether a descendant of its child holds the pipes open
  issued,    \* commands the agent was sent
  readers,   \* streams whose task of the service still reads
  got,       \* for each stream, the commands the service has read a result of
  answered   \* history: commands whose result the dispatcher queued

loopVars == <<loop, held, link, latest>>
dispVars == <<disp, current, orphan>>
serverVars == <<issued, readers, got>>
vars == <<loopVars, stream, inbound, outbound, dispVars, serverVars, answered>>

Commands == 1..MaxCommands
Message == Commands \cup {0}
Streams == 1..MaxStreams

TypeOK ==
  /\ loop \in {"connecting", "selecting", "sending", "delivering"}
  /\ held \in Message
  /\ link \in {"none", "live", "broken"}
  /\ latest \in Streams \cup {0}
  /\ stream \in [Streams -> BoundedSeq(Message, BufferCap)]
  /\ inbound \in BoundedSeq(Message, InCap)
  /\ outbound \in BoundedSeq(Message, OutCap)
  /\ disp \in {"idle", "waiting", "draining", "sending"}
  /\ current \in Message /\ (disp = "idle" <=> current = 0)
  /\ orphan \in BOOLEAN
  /\ issued \in Message
  /\ readers \subseteq Streams
  /\ got \in [Streams -> SUBSET Commands]
  /\ answered \subseteq Commands

Init ==
  /\ loop = "connecting" /\ held = 0 /\ link = "none" /\ latest = 0
  /\ stream = [s \in Streams |-> <<>>]
  /\ inbound = <<>> /\ outbound = <<>>
  /\ disp = "idle" /\ current = 0 /\ orphan = FALSE
  /\ issued = 0 /\ readers = Streams /\ got = [s \in Streams |-> {}] /\ answered = {}

-----------------------------------------------------------------------------
\* The stream loop.

\* An attempt that fails is followed by a pause and the next one: no change.
\* A connection that succeeds has a request stream of its own.
Connect ==
  /\ loop = "connecting"
  /\ latest < MaxStreams
  /\ loop' = "selecting" /\ link' = "live" /\ latest' = latest + 1
  /\ UNCHANGED <<held, stream, inbound, outbound, dispVars, serverVars, answered>>

\* try_run returns: the agent has nothing left of the connection.
Disconnect == loop' = "connecting" /\ link' = "none" /\ held' = 0 /\ UNCHANGED latest

TakeFrame ==
  /\ loop = "selecting" /\ outbound # <<>>
  /\ loop' = "sending"
  /\ held' = Head(outbound) /\ outbound' = Tail(outbound)
  /\ UNCHANGED <<link, latest, stream, inbound, dispVars, serverVars, answered>>

BufferFrame ==
  /\ link = "live" /\ Len(stream[latest]) < BufferCap
  /\ stream' = [stream EXCEPT ![latest] = Append(@, held)]
  /\ loop' = "selecting" /\ held' = 0
  /\ UNCHANGED <<link, latest>>

\* Mutant: a frame that cannot be sent is sent again.
SendFrameAgain ==
  /\ loop = "sending"
  /\ BufferFrame
  /\ UNCHANGED <<inbound, outbound, dispVars, serverVars, answered>>

\* tx.send: on a broken connection the frame is lost.
SendFrame ==
  /\ loop = "sending"
  /\ BufferFrame \/ (link = "broken" /\ Disconnect /\ UNCHANGED stream)
  /\ UNCHANGED <<inbound, outbound, dispVars, serverVars, answered>>

\* A message arrives: the next command, or a ping.
Receive ==
  /\ loop = "selecting" /\ link = "live"
  /\ \/ issued < MaxCommands /\ issued' = issued + 1 /\ held' = issued'
     \/ held' = 0 /\ UNCHANGED issued
  /\ loop' = "delivering"
  /\ UNCHANGED <<link, latest, stream, inbound, outbound, dispVars, readers, got,
                 answered>>

\* Mutant: there is no backpressure from the dispatcher.
DeliverUnbounded ==
  /\ loop = "delivering"
  /\ inbound' = Append(inbound, held)
  /\ loop' = "selecting" /\ held' = 0
  /\ UNCHANGED <<link, latest, stream, outbound, dispVars, serverVars, answered>>

\* inbound.send; the connection is not looked at meanwhile.
Deliver ==
  /\ loop = "delivering"
  /\ Len(inbound) < InCap
  /\ inbound' = Append(inbound, held)
  /\ loop' = "selecting" /\ held' = 0
  /\ UNCHANGED <<link, latest, stream, outbound, dispVars, serverVars, answered>>

EndOfStream ==
  /\ loop = "selecting" /\ link = "broken"
  /\ Disconnect
  /\ UNCHANGED <<stream, inbound, outbound, dispVars, serverVars, answered>>

-----------------------------------------------------------------------------
\* The connection and the service.

\* The connection ends.  What is on its way stays there: the service may read
\* some of it yet.
Break ==
  /\ link = "live"
  /\ link' = "broken"
  /\ UNCHANGED <<loop, held, latest, stream, inbound, outbound, dispVars, serverVars,
                 answered>>

\* The task of a stream reads its next frame, also after the stream has ended.
ServerReads(s) ==
  /\ s \in readers /\ stream[s] # <<>>
  /\ stream' = [stream EXCEPT ![s] = Tail(@)]
  /\ got' = [got EXCEPT ![s] = @ \cup ({Head(stream[s])} \ {0})]
  /\ UNCHANGED <<loopVars, inbound, outbound, dispVars, issued, readers, answered>>

\* The task sees an error or the end: what it has not read is lost, and what is
\* sent later.  A frame it cannot decode is such an error, although the
\* connection stays live: the agent is not told.
ServerStops(s) ==
  /\ stream[s] # <<>>
  /\ stream' = [stream EXCEPT ![s] = <<>>]
  /\ readers' = readers \ {s}
  /\ UNCHANGED <<loopVars, inbound, outbound, dispVars, issued, got, answered>>

-----------------------------------------------------------------------------
\* The dispatcher: one message at a time, to the end.

StartCommand(command) ==
  /\ disp' = "waiting" /\ current' = command
  /\ UNCHANGED orphan

\* Pings are ignored; a command without a usable payload or program is dropped.
Dispatch ==
  /\ disp = "idle" /\ inbound # <<>>
  /\ inbound' = Tail(inbound)
  /\ \/ UNCHANGED dispVars
     \/ Head(inbound) # 0 /\ StartCommand(Head(inbound))
  /\ UNCHANGED <<loopVars, stream, outbound, serverVars, answered>>

\* The child exits, or is killed by the timeout: nothing reads the pipes before,
\* so a child that fills one never exits by itself.  What it started may outlive
\* it and hold its pipes.
ChildEnds ==
  /\ disp = "waiting"
  /\ disp' = "draining"
  /\ orphan' \in BOOLEAN
  /\ UNCHANGED <<loopVars, stream, inbound, outbound, current, serverVars, answered>>

\* The wait itself fails: there is no result, and the pipes are closed unread.
WaitFails ==
  /\ disp = "waiting"
  /\ disp' = "idle" /\ current' = 0
  /\ UNCHANGED <<loopVars, stream, inbound, outbound, orphan, serverVars, answered>>

OrphanEnds ==
  /\ orphan
  /\ orphan' = FALSE
  /\ UNCHANGED <<loopVars, stream, inbound, outbound, disp, current, serverVars, answered>>

\* read_to_end of both pipes, without a timeout.
Drain ==
  /\ disp = "draining" /\ ~orphan
  /\ disp' = "sending"
  /\ UNCHANGED <<loopVars, stream, inbound, outbound, current, orphan, serverVars, answered>>

\* Mutant: a result is queued before the frames that wait.
SendResultFirst ==
  /\ disp = "sending" /\ Len(outbound) < OutCap
  /\ outbound' = <<current>> \o outbound
  /\ answered' = answered \cup {current}
  /\ disp' = "idle" /\ current' = 0
  /\ UNCHANGED <<loopVars, stream, inbound, orphan, serverVars>>

SendResult ==
  /\ disp = "sending" /\ Len(outbound) < OutCap
  /\ outbound' = Append(outbound, current)
  /\ answered' = answered \cup {current}
  /\ disp' = "idle" /\ current' = 0
  /\ UNCHANGED <<loopVars, stream, inbound, orphan, serverVars>>

\* The telemetry loop.
Heartbeat ==
  /\ Len(outbound) < OutCap
  /\ outbound' = Append(outbound, 0)
  /\ UNCHANGED <<loopVars, stream, inbound, dispVars, serverVars, answered>>

Next ==
  \/ Connect \/ TakeFrame \/ SendFrame \/ Receive \/ Deliver \/ EndOfStream
  \/ Break \/ \E s \in Streams : ServerReads(s) \/ ServerStops(s)
  \/ Dispatch \/ ChildEnds \/ WaitFails \/ OrphanEnds \/ Drain \/ SendResult
  \/ Heartbeat

Spec == Init /\ [][Next]_vars

\* The runtime polls tasks that can go on, and fires the timer of a command.
\* Nothing is assumed of children, their descendants, the network or the service.
Fairness ==
  /\ WF_vars(SendFrame) /\ WF_vars(Deliver) /\ WF_vars(EndOfStream)
  /\ WF_vars(Dispatch) /\ WF_vars(ChildEnds \/ WaitFails) /\ WF_vars(Drain)
  /\ WF_vars(SendResult)

FairSpec == Spec /\ Fairness

-----------------------------------------------------------------------------
Sending == IF loop = "sending" THEN <<held>> ELSE <<>>

\* Results that went down a stream, whether or not the service has read them.
Sent(s) == got[s] \cup (ToSet(stream[s]) \ {0})

\* stream.rs, runtime.rs: the service may read the frames of overlapping streams
\* in any order, but a stream carries results in the order of the commands, a
\* later stream later ones, and what is still to be sent is later than both.  So
\* each stream is read in order, and no result is read twice.
ResultsInOrder ==
  \A s \in Streams :
    LET ahead == stream[s] \o Sending \o outbound IN
    /\ \A i, j \in DOMAIN ahead : i < j /\ ahead[j] # 0 => ahead[i] < ahead[j]
    /\ \A n \in got[s], i \in DOMAIN ahead : ahead[i] # 0 => n < ahead[i]
    /\ \A t \in 1..(s - 1) : \A m \in Sent(t), n \in Sent(s) : m < n

\* The dispatcher waits for the stream loop, which waits for the dispatcher.
CircularWait ==
  /\ loop = "delivering" /\ Len(inbound) = InCap
  /\ disp = "sending" /\ Len(outbound) = OutCap

\* A command's descendant keeps the pipes open.
PipesHeld == disp = "draining" /\ orphan

\* stream.rs: the agent lets go of a broken connection to open a new one.  There
\* are exactly two ways it does not: the circular wait of the two queues, and a
\* command whose output never ends.
StreamRecovers == (link = "broken") ~> (link # "broken" \/ CircularWait \/ PipesHeld)

\* stream.rs:3: frames are sent again over the next connection until they are
\* acknowledged (at-least-once).  A result that the dispatcher queued has been
\* read by the service or is still on its way.
ResultsAreDelivered ==
  answered \subseteq ToSet(Sending \o outbound) \cup UNION {Sent(s) : s \in Streams}
=============================================================================
