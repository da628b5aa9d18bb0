----------------------------- MODULE DeviceChannel -----------------------------
(***************************************************************************)
(* The channel between the device service and its agents: the handlers     *)
(* channel and delete_device of backend/crates/device-service/src/grpc.rs, *)
(* the in-memory routing table of registry.rs, and as much of the agent's  *)
(* stream client (backend/agents/common/src/stream.rs) as opens and drops  *)
(* streams.  Devices come from Enrollment.                                 *)
(*                                                                         *)
(* A stream is known in four places that change at different times: the    *)
(* network, the agent, the routing table, and the status column of the     *)
(* device.  One action is one step of one of them; the task that channel   *)
(* spawns for a stream is a sequence of four such steps.                   *)
(***************************************************************************)
EXTENDS Enrollment

CONSTANTS
  Streams,         \* pool of calls of channel
  StatementsFail   \* whether a statement whose error is ignored may fail

ASSUME NullIsNoStream == Null \notin Streams

ASSUME StatementsFailIsBoolean == StatementsFail \in BOOLEAN

VARIABLES
  status,      \* device.devices.status
  deleted,     \* devices with deleted_at set
  deleting,    \* devices of a delete_device call that has yet to unregister
  route,       \* ChannelRegistry.by_device: the stream whose sender is kept
  dev,         \* the device id a stream was authenticated as
  task,        \* what the task of a stream does next
  up,          \* streams whose connection is intact
  conn,        \* the stream that an agent's try_run is working on
  unrecorded,  \* streams that still owe their device a status write
  overlapped   \* streams that have shared a device with another running task

channelVars == <<status, deleted, deleting, route, dev, task, up, conn,
                 unrecorded, overlapped>>

vars == <<enrollmentVars, channelVars>>

\* starting: UPDATE to online; serving: read frames; closing: UPDATE to
\* offline; leaving: unregister.
TaskStates == {"unused", "starting", "serving", "closing", "leaving", "done"}

TypeOK ==
  /\ EnrollmentTypeOK
  /\ status \in [Devices -> {"online", "offline"}]
  /\ deleted \subseteq Devices
  /\ deleting \subseteq Devices
  /\ route \in [Devices -> Streams \cup {Null}]
  /\ dev \in [Streams -> Devices \cup {Null}]
  /\ task \in [Streams -> TaskStates]
  /\ up \subseteq Streams
  /\ conn \in [Devices -> Streams \cup {Null}]
  /\ unrecorded \subseteq Streams
  /\ overlapped \subseteq Streams

Init ==
  /\ EnrollmentInit
  /\ status = [d \in Devices |-> "offline"]
  /\ deleted = {}
  /\ deleting = {}
  /\ route = [d \in Devices |-> Null]
  /\ dev = [s \in Streams |-> Null]
  /\ task = [s \in Streams |-> "unused"]
  /\ up = {}
  /\ conn = [d \in Devices |-> Null]
  /\ unrecorded = {}
  /\ overlapped = {}

Running == {s \in Streams : task[s] \notin {"unused", "done"}}

StreamsOf(d) == {s \in Streams : dev[s] = d}

Goto(s, state) == task' = [task EXCEPT ![s] = state]

-----------------------------------------------------------------------------
(* The agent and the network *)

\* try_run calls channel, which verifies the JWT, registers the sender in place
\* of whatever was there, and spawns the task of the stream, all without
\* waiting.  Neither deleted_at nor a stream that still runs is looked at.
Open(d, s) ==
  /\ conn[d] = Null
  /\ d \in jwt
  /\ task[s] = "unused"
  /\ route' = [route EXCEPT ![d] = s]
  /\ dev' = [dev EXCEPT ![s] = d]
  /\ Goto(s, "starting")
  /\ up' = up \cup {s}
  /\ conn' = [conn EXCEPT ![d] = s]
  /\ LET others == Running \cap StreamsOf(d)
     IN  overlapped' = IF others = {} THEN overlapped
                                      ELSE overlapped \cup others \cup {s}
  /\ UNCHANGED <<enrollmentVars, status, deleted, deleting, unrecorded>>

\* The connection breaks, or the agent closes it.  Nobody has noticed yet.
Break(s) ==
  /\ s \in up
  /\ up' = up \ {s}
  /\ UNCHANGED <<enrollmentVars, status, deleted, deleting, route, dev, task,
                 conn, unrecorded, overlapped>>

\* try_run ends; run waits and calls it again.
AgentNotices(d) ==
  /\ conn[d] # Null
  /\ conn[d] \notin up
  /\ conn' = [conn EXCEPT ![d] = Null]
  /\ UNCHANGED <<enrollmentVars, status, deleted, deleting, route, dev, task, up,
                 unrecorded, overlapped>>

-----------------------------------------------------------------------------
(* The task of a stream *)

\* UPDATE device.devices SET status = 'online'
MarkOnline(s) ==
  /\ task[s] = "starting"
  /\ status' = [status EXCEPT ![dev[s]] = "online"]
  /\ Goto(s, "serving")
  /\ UNCHANGED <<enrollmentVars, deleted, deleting, route, dev, up, conn,
                 unrecorded, overlapped>>

\* `let _ =`: the stream is served all the same.
MarkOnlineFails(s) ==
  /\ StatementsFail
  /\ task[s] = "starting"
  /\ unrecorded' = unrecorded \cup {s}
  /\ Goto(s, "serving")
  /\ UNCHANGED <<enrollmentVars, status, deleted, deleting, route, dev, up, conn,
                 overlapped>>

\* inbound.message() returns the end of the stream or an error.
ServerNotices(s) ==
  /\ task[s] = "serving"
  /\ s \notin up
  /\ Goto(s, "closing")
  /\ UNCHANGED <<enrollmentVars, status, deleted, deleting, route, dev, up, conn,
                 unrecorded, overlapped>>

\* A frame that cannot be decoded, or is larger than tonic accepts, ends the
\* loop as well.  The Ping task still holds the sender, so the response stream
\* stays open and the agent is not told.
RefuseFrame(s) ==
  /\ task[s] = "serving"
  /\ Goto(s, "closing")
  /\ UNCHANGED <<enrollmentVars, status, deleted, deleting, route, dev, up, conn,
                 unrecorded, overlapped>>

\* Mutants of MarkOffline: the third value of the column; only the stream that
\* holds the route writes.
MarkUnreachable(s) ==
  /\ task[s] = "closing"
  /\ status' = [status EXCEPT ![dev[s]] = "unreachable"]
  /\ unrecorded' = unrecorded \ {s}
  /\ Goto(s, "leaving")
  /\ UNCHANGED <<enrollmentVars, deleted, deleting, route, dev, up, conn,
                 overlapped>>

MarkOfflineIfRouted(s) ==
  /\ task[s] = "closing"
  /\ status' = IF route[dev[s]] = s THEN [status EXCEPT ![dev[s]] = "offline"]
                                    ELSE status
  /\ unrecorded' = unrecorded \ {s}
  /\ Goto(s, "leaving")
  /\ UNCHANGED <<enrollmentVars, deleted, deleting, route, dev, up, conn,
                 overlapped>>

\* UPDATE device.devices SET status = 'offline'
MarkOffline(s) ==
  /\ task[s] = "closing"
  /\ status' = [status EXCEPT ![dev[s]] = "offline"]
  /\ unrecorded' = unrecorded \ {s}
  /\ Goto(s, "leaving")
  /\ UNCHANGED <<enrollmentVars, deleted, deleting, route, dev, up, conn,
                 overlapped>>

\* Mutant of MarkOfflineFails: the error ends the task.
MarkOfflineFailsEarly(s) ==
  /\ StatementsFail
  /\ task[s] = "closing"
  /\ unrecorded' = unrecorded \cup {s}
  /\ Goto(s, "done")
  /\ UNCHANGED <<enrollmentVars, status, deleted, deleting, route, dev, up, conn,
                 overlapped>>

\* `let _ =` again: unregister follows.
MarkOfflineFails(s) ==
  /\ StatementsFail
  /\ task[s] = "closing"
  /\ unrecorded' = unrecorded \cup {s}
  /\ Goto(s, "leaving")
  /\ UNCHANGED <<enrollmentVars, status, deleted, deleting, route, dev, up, conn,
                 overlapped>>

\* registry.unregister: removes the sender of the device, whichever stream it
\* belongs to.
Unregister(s) ==
  /\ task[s] = "leaving"
  /\ route' = [route EXCEPT ![dev[s]] = Null]
  /\ Goto(s, "done")
  /\ UNCHANGED <<enrollmentVars, status, deleted, deleting, dev, up, conn,
                 unrecorded, overlapped>>

-----------------------------------------------------------------------------
(* delete_device *)

\* Mutant of MarkDeleted: unregister comes first.
RouteDroppedFirst(d) ==
  /\ d \in Enrolled
  /\ route' = [route EXCEPT ![d] = Null]
  /\ deleting' = deleting \cup {d}
  /\ UNCHANGED <<enrollmentVars, status, deleted, dev, task, up, conn,
                 unrecorded, overlapped>>

\* UPDATE device.devices SET deleted_at.  Calls for one device are told apart
\* only by what they have yet to do.
MarkDeleted(d) ==
  /\ d \in Enrolled
  /\ deleted' = deleted \cup {d}
  /\ deleting' = deleting \cup {d}
  /\ UNCHANGED <<enrollmentVars, status, route, dev, task, up, conn,
                 unrecorded, overlapped>>

\* registry.unregister: the route goes, the stream stays.
DropRoute(d) ==
  /\ d \in deleting
  /\ deleting' = deleting \ {d}
  /\ route' = [route EXCEPT ![d] = Null]
  /\ UNCHANGED <<enrollmentVars, status, deleted, dev, task, up, conn,
                 unrecorded, overlapped>>

\* The call is cancelled after its UPDATE, or it spelled the id in another form
\* that parse_uuid accepts and that is no key of the routing table.
AbandonDelete(d) ==
  /\ d \in deleting
  /\ deleting' = deleting \ {d}
  /\ UNCHANGED <<enrollmentVars, status, deleted, route, dev, task, up, conn,
                 unrecorded, overlapped>>

-----------------------------------------------------------------------------
\* The service stops and starts again: routing table, tasks, calls and
\* connections are gone, the tables are not.
Restart ==
  /\ route' = [d \in Devices |-> Null]
  /\ task' = [s \in Streams |-> IF s \in Running THEN "done" ELSE task[s]]
  /\ unrecorded' = unrecorded
       \cup {s \in Streams : task[s] \in {"serving", "closing"}}
  /\ up' = {}
  /\ deleting' = {}
  /\ call' = [e \in Enrollers |-> NoCall]
  /\ UNCHANGED <<issued, stale, consumed, enrolledBy, jwt, status, deleted, dev,
                 conn, overlapped>>

Task(s) ==
  \/ MarkOnline(s)
  \/ MarkOnlineFails(s)
  \/ ServerNotices(s)
  \/ MarkOffline(s)
  \/ MarkOfflineFails(s)
  \/ Unregister(s)

Next ==
  \/ EnrollmentNext /\ UNCHANGED channelVars
  \/ \E d \in Devices :
       \/ \E s \in Streams : Open(d, s)
       \/ AgentNotices(d)
       \/ MarkDeleted(d)
       \/ DropRoute(d)
       \/ AbandonDelete(d)
  \/ \E s \in Streams : Break(s) \/ RefuseFrame(s) \/ Task(s)
  \/ Restart

Spec == Init /\ [][Next]_vars

\* The runtime runs every spawned task.  ServerNotices is included because the
\* Ping that every stream is sent every 20 s makes a broken connection fail;
\* nothing makes an agent send a frame that is refused.
FairSpec == Spec /\ \A s \in Streams : WF_vars(Task(s))

-----------------------------------------------------------------------------
(* Properties *)

\* No frame is queued for a stream whose task has ended: whichever way
\* connects, teardowns, deletions and restarts interleave, the routing table
\* never holds a sender that nobody is going to remove.
RouteIsRunning ==
  \A d \in Devices :
    route[d] # Null => route[d] \in Running /\ dev[route[d]] = d

\* A device is shown online only while a task is there that is going to
\* correct it, unless a restart or a failed write took that away.
OnlineIsAccountedFor ==
  \A d \in Devices :
    status[d] = "online" =>
      \E s \in StreamsOf(d) : task[s] \in {"serving", "closing"} \/ s \in unrecorded

\* A device that never reconnects before its old stream is torn down can be
\* reached and is shown online as long as it is being served, whatever the
\* other devices, past streams and restarts did.
LoneStreamIsReachable ==
  \A s \in Streams \ overlapped :
    task[s] = "serving" /\ dev[s] \notin deleted =>
      /\ route[dev[s]] = s
      /\ status[dev[s]] = "online" \/ s \in unrecorded

\* Every call of channel that was accepted belongs to a device.
StreamsHaveDevices ==
  \A s \in Streams :
    IF task[s] = "unused" THEN dev[s] = Null /\ s \notin unrecorded \cup overlapped
                          ELSE dev[s] \in Devices

\* Once a task has run alone it keeps its device to itself, and the route with
\* it unless the device is deleted.
LoneStreamKeepsRoute ==
  \A s \in Running \ overlapped :
    /\ Running \cap StreamsOf(dev[s]) = {s}
    /\ dev[s] \notin deleted => route[dev[s]] = s

\* The inductive invariant behind the safety properties: a route is dropped
\* only by a task of its own device or by the deletion of the device.
ServiceInv ==
  /\ EnrollmentInv
  /\ RouteIsRunning
  /\ OnlineIsAccountedFor
  /\ LoneStreamIsReachable
  /\ StreamsHaveDevices
  /\ LoneStreamKeepsRoute
  /\ deleting \subseteq deleted

\* The route to a broken stream is eventually dropped or replaced.
DeadRouteIsDropped ==
  \A d \in Devices : \A s \in Streams :
    (route[d] = s /\ s \notin up) ~> (route[d] # s)

\* A device that stays away is eventually shown offline for good, unless a
\* restart or a failed write left its status behind.
AwayIsOffline ==
  \A d \in Devices :
    <>[](StreamsOf(d) \cap up = {}) =>
      <>[](status[d] = "offline" \/ StreamsOf(d) \cap unrecorded # {})

(* What the repository says and the code does not keep; see the violation run. *)

\* main.rs: every connected device holds one Channel RPC and the routing table
\* lets other services push messages to it.  The device is enrolled, its one
\* running stream is served and intact, and still there is no route to it.
ConnectedIsRouted ==
  \A d \in Devices \ deleted : \A s \in up :
    conn[d] = s /\ task[s] = "serving" /\ Running \cap StreamsOf(d) = {s}
      => route[d] = s

=============================================================================
