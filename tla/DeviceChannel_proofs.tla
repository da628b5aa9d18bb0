-------------------------- MODULE DeviceChannel_proofs --------------------------
(***************************************************************************)
(* The safety properties of Enrollment and DeviceChannel hold for every    *)
(* number of devices, codes, calls and streams, with failing statements    *)
(* and restarts.                                                           *)
(***************************************************************************)
EXTENDS DeviceChannel, TLAPS

\* Every variable keeps its type.
LEMMA TypeInvariant == Spec => []TypeOK
<1>1. Init => TypeOK
  BY DEF Init, TypeOK, EnrollmentInit, EnrollmentTypeOK, Call, NoCall, TaskStates
<1>2. TypeOK /\ [Next]_vars => TypeOK'
  <2> SUFFICES ASSUME TypeOK, [Next]_vars PROVE TypeOK'
    OBVIOUS
  <2> USE NullIsNoId, NullIsNoStream DEF TypeOK, EnrollmentTypeOK
  <2>1. CASE EnrollmentNext /\ UNCHANGED channelVars
    <3> USE <2>1 DEF channelVars, Call, NoCall
    <3>1. CASE \E c \in Codes : CreateEnrollment(c) \/ ExpireCode(c)
      BY <3>1 DEF CreateEnrollment, ExpireCode
    <3>2. ASSUME NEW e \in Enrollers, NEW c \in Codes, Begin(e, c)
          PROVE  TypeOK'
      BY <3>2 DEF Begin
    <3>3. ASSUME NEW e \in Enrollers, Claim(e)
          PROVE  TypeOK'
      <4>1. call[e] \in Call /\ call[e].code \in Codes
        BY <3>3 DEF Claim
      <4>2. [call[e] EXCEPT !.pc = "insert"]
              \in [pc : {"claim", "insert"}, code : Codes, device : {Null}]
        BY <3>3, <4>1 DEF Claim
      <4>3. call' = [call EXCEPT ![e] = [call[e] EXCEPT !.pc = "insert"]]
        BY <3>3 DEF Claim
      <4> QED
        BY <3>3, <4>2, <4>3 DEF Claim
    <3>4. ASSUME NEW e \in Enrollers, Commit(e)
          PROVE  TypeOK'
      <4>1. call[e].pc = "insert" /\ call[e] \in Call
        BY <3>4 DEF Commit
      <4>2. call[e] \in [pc : {"claim", "insert"}, code : Codes, device : {Null}]
        BY <4>1
      <4>3. PICK d \in Devices :
               /\ enrolledBy' = [enrolledBy EXCEPT ![d] = call[e].code]
               /\ call' = [call EXCEPT ![e] =
                             [call[e] EXCEPT !.pc = "reply", !.device = d]]
        BY <3>4 DEF Commit
      <4>4. [call[e] EXCEPT !.pc = "reply", !.device = d]
              \in [pc : {"reply"}, code : Codes, device : Devices]
        BY <4>2
      <4>5. call' \in [Enrollers -> Call]
        BY <4>3, <4>4
      <4> QED
        BY <3>4, <4>2, <4>3, <4>5 DEF Commit
    <3>5. ASSUME NEW e \in Enrollers, Deliver(e)
          PROVE  TypeOK'
      BY <3>5 DEF Deliver
    <3>6. ASSUME NEW e \in Enrollers, Abort(e)
          PROVE  TypeOK'
      BY <3>6 DEF Abort
    <3>7. CASE \E d \in Devices : ExpireJwt(d)
      BY <3>7 DEF ExpireJwt
    <3> QED
      BY <3>1, <3>2, <3>3, <3>4, <3>5, <3>6, <3>7 DEF EnrollmentNext
  <2>2. ASSUME NEW d \in Devices, NEW s \in Streams, Open(d, s)
        PROVE  TypeOK'
    BY <2>2 DEF Open, Goto, enrollmentVars, TaskStates, Running, StreamsOf
  <2>3. ASSUME NEW d \in Devices,
               AgentNotices(d) \/ MarkDeleted(d) \/ DropRoute(d) \/ AbandonDelete(d)
        PROVE  TypeOK'
    BY <2>3 DEF AgentNotices, MarkDeleted, DropRoute, AbandonDelete, enrollmentVars
  <2>4. ASSUME NEW s \in Streams, Break(s)
        PROVE  TypeOK'
    BY <2>4 DEF Break, enrollmentVars
  <2>5. ASSUME NEW s \in Streams, RefuseFrame(s) \/ Task(s)
        PROVE  TypeOK'
    BY <2>5 DEF RefuseFrame, Task, MarkOnline, MarkOnlineFails, ServerNotices,
                MarkOffline, MarkOfflineFails, Unregister, Goto, enrollmentVars, TaskStates
  <2>6. CASE Restart
    BY <2>6 DEF Restart, Running, TaskStates, Call
  <2>7. CASE UNCHANGED vars
    BY <2>7 DEF vars, enrollmentVars, channelVars
  <2> QED
    BY <2>1, <2>2, <2>3, <2>4, <2>5, <2>6, <2>7 DEF Next
<1> QED
  BY <1>1, <1>2, PTL DEF Spec

-----------------------------------------------------------------------------
(* Enrollment *)

LEMMA EnrollmentInit_Inv == EnrollmentInit => EnrollmentInv
  BY DEF EnrollmentInit, EnrollmentInv, CodeEnrollsOnce, SpentCodesMadeDevices,
         Enrolled, LockHolders, NoCall

\* The parts of EnrollmentInv see only these variables.
LEMMA EnrollmentInvUnchanged ==
  ASSUME EnrollmentInv,
         UNCHANGED <<consumed, enrolledBy>>,
         \A c \in Codes : LockHolders(c)' \subseteq LockHolders(c),
         consumed \subseteq Codes
  PROVE  EnrollmentInv'
  BY DEF EnrollmentInv, CodeEnrollsOnce, SpentCodesMadeDevices, Enrolled

\* A claim waits for the row and finds the code unspent.
LEMMA ClaimStep ==
  ASSUME EnrollmentTypeOK, EnrollmentInv, NEW e \in Enrollers, Claim(e)
  PROVE  EnrollmentInv'
<1>1. /\ consumed' = consumed /\ enrolledBy' = enrolledBy
      /\ call[e].code \notin consumed
      /\ LockHolders(call[e].code) = {}
  BY DEF Claim
<1>2. \A f \in Enrollers : f # e => call'[f] = call[f]
  BY DEF Claim, EnrollmentTypeOK
<1>3. call[e] \in Call /\ call[e].pc = "claim"
  BY DEF Claim, EnrollmentTypeOK
<1>4. call'[e].code = call[e].code
  BY <1>3 DEF Claim, EnrollmentTypeOK, Call, NoCall
<1>5. \A c \in Codes : \A f \in LockHolders(c)' :
        \/ f = e /\ c = call[e].code
        \/ f # e /\ f \in LockHolders(c)
  BY <1>2, <1>4 DEF LockHolders
<1>6. \A c \in Codes : \A f, g \in LockHolders(c)' : f = g
  BY <1>1, <1>5 DEF EnrollmentInv
<1>7. \A c \in consumed' : LockHolders(c)' = {}
  BY <1>1, <1>5 DEF EnrollmentInv, EnrollmentTypeOK
<1> QED
  BY <1>1, <1>6, <1>7
  DEF EnrollmentInv, CodeEnrollsOnce, SpentCodesMadeDevices, Enrolled

\* A commit spends the code and makes its one device.
LEMMA CommitStep ==
  ASSUME EnrollmentTypeOK, EnrollmentInv, NEW e \in Enrollers, Commit(e)
  PROVE  EnrollmentInv'
<1> DEFINE c == call[e].code
<1>1. call[e] \in Call /\ call[e].pc = "insert" /\ c \in Codes /\ c # Null
  BY NullIsNoId DEF Commit, EnrollmentTypeOK, Call, NoCall
<1>2. e \in LockHolders(c)
  BY <1>1 DEF LockHolders
<1>3. c \notin consumed
  BY <1>2 DEF EnrollmentInv
<1>4. consumed' = consumed \cup {c}
  BY DEF Commit
<1>5. PICK d \in Devices :
        /\ enrolledBy[d] = Null
        /\ enrolledBy' = [enrolledBy EXCEPT ![d] = c]
        /\ call' = [call EXCEPT ![e].pc = "reply", ![e].device = d]
  BY DEF Commit
<1>6. Enrolled' = Enrolled \cup {d} /\ d \notin Enrolled
  BY <1>1, <1>5 DEF Enrolled, EnrollmentTypeOK
<1>7. \A x \in Enrolled : enrolledBy'[x] = enrolledBy[x] /\ enrolledBy[x] # c
  BY <1>3, <1>5, <1>6 DEF EnrollmentInv, SpentCodesMadeDevices, EnrollmentTypeOK,
                          Enrolled
<1>8. enrolledBy'[d] = c
  BY <1>5 DEF EnrollmentTypeOK
<1>9. CodeEnrollsOnce'
  BY <1>6, <1>7, <1>8 DEF CodeEnrollsOnce, EnrollmentInv
<1>10. SpentCodesMadeDevices'
  BY <1>4, <1>6, <1>7, <1>8 DEF SpentCodesMadeDevices, EnrollmentInv
<1>11. \A f \in Enrollers : f # e => call'[f] = call[f]
  BY <1>5 DEF EnrollmentTypeOK
<1>12. call'[e].pc = "reply"
  BY <1>1, <1>5 DEF EnrollmentTypeOK, Call, NoCall
<1>13. \A b \in Codes : LockHolders(b)' \subseteq LockHolders(b) \ {e}
  BY <1>11, <1>12 DEF LockHolders
<1>14. LockHolders(c) = {e}
  BY <1>1, <1>2 DEF EnrollmentInv
<1>15. \A b \in consumed' : LockHolders(b)' = {}
  BY <1>1, <1>4, <1>13, <1>14 DEF EnrollmentInv, EnrollmentTypeOK
<1> QED
  BY <1>9, <1>10, <1>13, <1>15 DEF EnrollmentInv

LEMMA EnrollmentStep ==
  ASSUME EnrollmentTypeOK, EnrollmentInv, EnrollmentNext
  PROVE  EnrollmentInv'
<1> USE DEF EnrollmentTypeOK
<1>1. ASSUME NEW c \in Codes, CreateEnrollment(c) \/ ExpireCode(c)
      PROVE  EnrollmentInv'
  BY <1>1, EnrollmentInvUnchanged DEF CreateEnrollment, ExpireCode, LockHolders
<1>2. ASSUME NEW e \in Enrollers,
             (\E c \in Codes : Begin(e, c)) \/ Deliver(e) \/ Abort(e)
      PROVE  EnrollmentInv'
  <2>1. /\ UNCHANGED <<consumed, enrolledBy>>
        /\ call'[e].pc # "insert"
        /\ \A f \in Enrollers : f # e => call'[f] = call[f]
    BY <1>2 DEF Begin, Deliver, Abort, NoCall
  <2>2. \A c \in Codes : LockHolders(c)' \subseteq LockHolders(c)
    BY <2>1 DEF LockHolders
  <2> QED
    BY <2>1, <2>2, EnrollmentInvUnchanged
<1>3. ASSUME NEW d \in Devices, ExpireJwt(d)
      PROVE  EnrollmentInv'
  BY <1>3, EnrollmentInvUnchanged DEF ExpireJwt, LockHolders
<1> QED
  BY <1>1, <1>2, <1>3, ClaimStep, CommitStep DEF EnrollmentNext

-----------------------------------------------------------------------------
(* The channel *)

\* What the parts of ServiceInv about streams see of the state.
LEMMA ChannelUnchanged ==
  ASSUME ServiceInv, UNCHANGED <<status, deleted, deleting, route, dev, task,
                                 unrecorded, overlapped>>, EnrollmentInv'
  PROVE  ServiceInv'
  BY DEF ServiceInv, RouteIsRunning, OnlineIsAccountedFor, LoneStreamIsReachable,
         StreamsHaveDevices, LoneStreamKeepsRoute, Running, StreamsOf

LEMMA EnrollmentIsKept ==
  ASSUME EnrollmentInv, UNCHANGED enrollmentVars
  PROVE  EnrollmentInv'
  BY DEF enrollmentVars, EnrollmentInv, CodeEnrollsOnce, SpentCodesMadeDevices,
         Enrolled, LockHolders

\* A new stream takes the route; if it finds another task of its device, none
\* of them counts as alone any more.
LEMMA OpenStep ==
  ASSUME TypeOK, ServiceInv, NEW d \in Devices, NEW s \in Streams, Open(d, s)
  PROVE  ServiceInv'
<1> DEFINE others == Running \cap StreamsOf(d)
<1> USE NullIsNoId, NullIsNoStream DEF TypeOK
<1>1. /\ task[s] = "unused" /\ dev[s] = Null
      /\ s \notin unrecorded /\ s \notin overlapped /\ s \notin Running
  BY DEF Open, ServiceInv, StreamsHaveDevices, Running
<1>2. /\ route' = [route EXCEPT ![d] = s]
      /\ dev' = [dev EXCEPT ![s] = d]
      /\ task' = [task EXCEPT ![s] = "starting"]
      /\ UNCHANGED <<status, deleted, deleting, unrecorded>>
  BY DEF Open, Goto
<1>3. overlapped' = IF others = {} THEN overlapped
                                   ELSE overlapped \cup others \cup {s}
  BY DEF Open
<1>4. Running' = Running \cup {s}
  BY <1>1, <1>2 DEF Running
<1>5. StreamsOf(d)' = StreamsOf(d) \cup {s} /\ dev'[s] = d
  BY <1>2 DEF StreamsOf
<1>6. \A t \in Streams \ {s} : dev'[t] = dev[t] /\ task'[t] = task[t]
  BY <1>2
<1>7. RouteIsRunning'
  BY <1>1, <1>2, <1>4, <1>5, <1>6 DEF ServiceInv, RouteIsRunning, Running
<1>8. OnlineIsAccountedFor'
  BY <1>1, <1>2, <1>6 DEF ServiceInv, OnlineIsAccountedFor, StreamsOf
<1>9. StreamsHaveDevices'
  BY <1>1, <1>2, <1>3, <1>5, <1>6
  DEF ServiceInv, StreamsHaveDevices, Running
<1>10. ASSUME NEW t \in Running', t \notin overlapped'
       PROVE  /\ (Running \cap StreamsOf(dev[t]))' = {t}
              /\ dev'[t] \notin deleted' => route'[dev'[t]] = t
  <2>1. CASE t = s
    <3>1. others = {}
      BY <1>3, <1>10, <2>1
    <3> QED
      BY <1>2, <1>4, <1>5, <1>6, <2>1, <3>1 DEF StreamsOf
  <2>2. CASE t # s
    <3>1. t \in Running \ overlapped /\ t \in Streams /\ dev[t] \in Devices
      BY <1>3, <1>4, <1>10, <2>2 DEF Running, ServiceInv, StreamsHaveDevices
    <3>2. /\ Running \cap StreamsOf(dev[t]) = {t}
          /\ dev[t] \notin deleted => route[dev[t]] = t
      BY <3>1 DEF ServiceInv, LoneStreamKeepsRoute
    <3>3. dev[t] # d
      BY <1>3, <1>10, <2>2, <3>1 DEF StreamsOf
    <3>4. StreamsOf(dev[t])' = StreamsOf(dev[t]) /\ s \notin StreamsOf(dev[t])
      <4>1. dev'[t] = dev[t]
        BY <1>6, <2>2, <3>1
      <4> QED
        BY <1>1, <1>5, <1>6, <3>1, <3>3, <4>1 DEF StreamsOf
    <3> QED
      BY <1>2, <1>4, <1>6, <2>2, <3>1, <3>2, <3>3, <3>4
  <2> QED
    BY <2>1, <2>2
<1>11. LoneStreamKeepsRoute'
  BY <1>10 DEF LoneStreamKeepsRoute
<1>12. LoneStreamIsReachable'
  <2>1. SUFFICES ASSUME NEW t \in Streams, t \notin overlapped',
                        task'[t] = "serving", dev'[t] \notin deleted'
                 PROVE  /\ route'[dev'[t]] = t
                        /\ status'[dev'[t]] = "online" \/ t \in unrecorded'
    BY DEF LoneStreamIsReachable
  <2>2. t # s /\ task[t] = "serving" /\ dev'[t] = dev[t]
    BY <1>2, <1>6, <2>1
  <2>3. t \in Running'
    BY <2>1 DEF Running
  <2>4. t \notin overlapped
    BY <1>3, <2>1
  <2> QED
    BY <1>2, <1>10, <2>1, <2>2, <2>3, <2>4 DEF ServiceInv, LoneStreamIsReachable
<1>13. EnrollmentInv'
  BY EnrollmentIsKept DEF Open, ServiceInv
<1> QED
  BY <1>2, <1>7, <1>8, <1>9, <1>11, <1>12, <1>13 DEF ServiceInv

\* What a task that goes on keeps.
LEMMA TaskGoesOn ==
  ASSUME TypeOK, ServiceInv, NEW s \in Running, NEW state \in TaskStates,
         state \notin {"unused", "done"}, Goto(s, state),
         UNCHANGED <<enrollmentVars, deleted, deleting, route, dev, overlapped>>,
         unrecorded' \subseteq unrecorded \cup {s}
  PROVE  /\ EnrollmentInv' /\ RouteIsRunning' /\ StreamsHaveDevices'
         /\ LoneStreamKeepsRoute' /\ deleting' \subseteq deleted'
         /\ s \in Streams /\ dev[s] \in Devices /\ task'[s] = state
         /\ \A t \in Streams \ {s} : task'[t] = task[t]
<1>1. /\ s \in Streams /\ task'[s] = state
      /\ \A t \in Streams \ {s} : task'[t] = task[t]
  BY DEF Goto, TypeOK, Running
<1>2. Running' = Running
  BY <1>1 DEF Running
<1>3. EnrollmentInv'
  BY EnrollmentIsKept DEF ServiceInv
<1>4. RouteIsRunning'
  BY <1>2 DEF ServiceInv, RouteIsRunning
<1>5. LoneStreamKeepsRoute'
  BY <1>2 DEF ServiceInv, LoneStreamKeepsRoute, StreamsOf
<1>6. StreamsHaveDevices' /\ dev[s] \in Devices
  BY <1>1 DEF ServiceInv, StreamsHaveDevices, Running
<1> QED
  BY <1>1, <1>3, <1>4, <1>5, <1>6 DEF ServiceInv

\* A stream that was never overlapped has no neighbour that could write the
\* status of its device.
LEMMA LoneStreamHasNoNeighbour ==
  ASSUME ServiceInv, NEW s \in Running, NEW t \in Running, dev[s] = dev[t],
         t \notin overlapped
  PROVE  s = t
  BY DEF ServiceInv, LoneStreamKeepsRoute, StreamsOf, Running

LEMMA MarkOnlineStep ==
  ASSUME TypeOK, ServiceInv, NEW s \in Streams, MarkOnline(s) \/ MarkOnlineFails(s)
  PROVE  ServiceInv'
<1>1. /\ task[s] = "starting" /\ s \in Running /\ Goto(s, "serving")
      /\ UNCHANGED <<enrollmentVars, deleted, deleting, route, dev, overlapped>>
      /\ unrecorded' \subseteq unrecorded \cup {s}
      /\ unrecorded \subseteq unrecorded'
  BY DEF MarkOnline, MarkOnlineFails, Running
<1>2. /\ EnrollmentInv' /\ RouteIsRunning' /\ StreamsHaveDevices'
      /\ LoneStreamKeepsRoute' /\ deleting' \subseteq deleted'
      /\ dev[s] \in Devices /\ task'[s] = "serving"
      /\ \A t \in Streams \ {s} : task'[t] = task[t]
  BY <1>1, TaskGoesOn DEF TaskStates
<1>3. \/ status' = [status EXCEPT ![dev[s]] = "online"]
      \/ status' = status /\ unrecorded' = unrecorded \cup {s}
  BY DEF MarkOnline, MarkOnlineFails
<1>4. OnlineIsAccountedFor'
  BY <1>1, <1>2, <1>3
  DEF ServiceInv, OnlineIsAccountedFor, StreamsOf, TypeOK
<1>5. \A d \in Devices : status[d] = "online" => status'[d] = "online"
  BY <1>3 DEF TypeOK
<1>6. status'[dev[s]] = "online" \/ s \in unrecorded'
  BY <1>2, <1>3 DEF TypeOK
<1>7. LoneStreamIsReachable'
  <2>1. SUFFICES ASSUME NEW t \in Streams, t \notin overlapped,
                        task'[t] = "serving", dev[t] \notin deleted
                 PROVE  /\ route[dev[t]] = t
                        /\ status'[dev[t]] = "online" \/ t \in unrecorded'
    BY <1>1 DEF LoneStreamIsReachable
  <2>2. CASE t = s
    BY <1>1, <1>6, <2>1, <2>2 DEF ServiceInv, LoneStreamKeepsRoute
  <2>3. CASE t # s
    <3>1. task[t] = "serving" /\ dev[t] \in Devices
      BY <1>2, <2>1, <2>3 DEF ServiceInv, StreamsHaveDevices
    <3> QED
      BY <1>1, <1>5, <2>1, <3>1 DEF ServiceInv, LoneStreamIsReachable
  <2> QED
    BY <2>2, <2>3
<1> QED
  BY <1>2, <1>4, <1>7 DEF ServiceInv

LEMMA ServerNoticesStep ==
  ASSUME TypeOK, ServiceInv, NEW s \in Streams, ServerNotices(s) \/ RefuseFrame(s)
  PROVE  ServiceInv'
<1>1. /\ task[s] = "serving" /\ s \in Running /\ Goto(s, "closing")
      /\ UNCHANGED <<enrollmentVars, status, deleted, deleting, route, dev,
                     unrecorded, overlapped>>
  BY DEF ServerNotices, RefuseFrame, Running
<1>2. /\ EnrollmentInv' /\ RouteIsRunning' /\ StreamsHaveDevices'
      /\ LoneStreamKeepsRoute' /\ deleting' \subseteq deleted'
      /\ task'[s] = "closing"
      /\ \A t \in Streams \ {s} : task'[t] = task[t]
  BY <1>1, TaskGoesOn DEF TaskStates
<1>3. OnlineIsAccountedFor'
  BY <1>1, <1>2 DEF ServiceInv, OnlineIsAccountedFor, StreamsOf
<1>4. LoneStreamIsReachable'
  BY <1>1, <1>2 DEF ServiceInv, LoneStreamIsReachable
<1> QED
  BY <1>2, <1>3, <1>4 DEF ServiceInv

LEMMA MarkOfflineStep ==
  ASSUME TypeOK, ServiceInv, NEW s \in Streams, MarkOffline(s) \/ MarkOfflineFails(s)
  PROVE  ServiceInv'
<1>1. /\ task[s] = "closing" /\ s \in Running /\ Goto(s, "leaving")
      /\ UNCHANGED <<enrollmentVars, deleted, deleting, route, dev, overlapped>>
      /\ unrecorded' \subseteq unrecorded \cup {s}
      /\ unrecorded \subseteq unrecorded' \cup {s}
  BY DEF MarkOffline, MarkOfflineFails, Running
<1>2. /\ EnrollmentInv' /\ RouteIsRunning' /\ StreamsHaveDevices'
      /\ LoneStreamKeepsRoute' /\ deleting' \subseteq deleted'
      /\ dev[s] \in Devices /\ task'[s] = "leaving"
      /\ \A t \in Streams \ {s} : task'[t] = task[t]
  BY <1>1, TaskGoesOn DEF TaskStates
<1>3. \/ status' = [status EXCEPT ![dev[s]] = "offline"]
      \/ status' = status /\ s \in unrecorded'
  BY DEF MarkOffline, MarkOfflineFails
<1>4. OnlineIsAccountedFor'
  BY <1>1, <1>2, <1>3
  DEF ServiceInv, OnlineIsAccountedFor, StreamsOf, TypeOK
<1>5. LoneStreamIsReachable'
  <2>1. SUFFICES ASSUME NEW t \in Streams, t \notin overlapped,
                        task'[t] = "serving", dev[t] \notin deleted
                 PROVE  /\ route[dev[t]] = t
                        /\ status'[dev[t]] = "online" \/ t \in unrecorded'
    BY <1>1 DEF LoneStreamIsReachable
  <2>2. t # s /\ task[t] = "serving" /\ t \in Running
    BY <1>2, <2>1 DEF Running
  <2>3. dev[t] # dev[s] /\ dev[t] \in Devices
    BY <1>1, <2>1, <2>2, LoneStreamHasNoNeighbour
    DEF ServiceInv, StreamsHaveDevices
  <2> QED
    BY <1>1, <1>2, <1>3, <2>1, <2>2, <2>3
    DEF ServiceInv, LoneStreamIsReachable, TypeOK
<1> QED
  BY <1>2, <1>4, <1>5 DEF ServiceInv

\* The route that a task removes is its own device's, where no stream that is
\* alone can be running next to it.
LEMMA UnregisterStep ==
  ASSUME TypeOK, ServiceInv, NEW s \in Streams, Unregister(s)
  PROVE  ServiceInv'
<1> USE NullIsNoStream DEF TypeOK
<1>1. /\ task[s] = "leaving" /\ s \in Running
      /\ route' = [route EXCEPT ![dev[s]] = Null]
      /\ task' = [task EXCEPT ![s] = "done"]
      /\ UNCHANGED <<enrollmentVars, status, deleted, deleting, dev, unrecorded,
                     overlapped>>
  BY DEF Unregister, Goto, Running
<1>2. task'[s] = "done" /\ \A t \in Streams \ {s} : task'[t] = task[t]
  BY <1>1
<1>3. Running' = Running \ {s}
  BY <1>2 DEF Running
<1>4. dev[s] \in Devices
  BY <1>1 DEF ServiceInv, StreamsHaveDevices
<1>5. RouteIsRunning'
  BY <1>1, <1>3, <1>4 DEF ServiceInv, RouteIsRunning
<1>6. OnlineIsAccountedFor'
  BY <1>1, <1>2 DEF ServiceInv, OnlineIsAccountedFor, StreamsOf
<1>7. StreamsHaveDevices'
  BY <1>1, <1>2, <1>4 DEF ServiceInv, StreamsHaveDevices
<1>8. ASSUME NEW t \in Running', t \notin overlapped
      PROVE  /\ t \in Running /\ t # s /\ t \in Streams
             /\ dev[t] \in Devices /\ route'[dev[t]] = route[dev[t]]
  <2>1. t \in Running /\ t # s /\ t \in Streams
    BY <1>3, <1>8 DEF Running
  <2>2. dev[t] # dev[s]
    BY <1>1, <1>8, <2>1, LoneStreamHasNoNeighbour
  <2>3. dev[t] \in Devices
    BY <2>1 DEF ServiceInv, StreamsHaveDevices, Running
  <2> QED
    BY <1>1, <2>1, <2>2, <2>3
<1>9. LoneStreamKeepsRoute'
  <2>1. SUFFICES ASSUME NEW t \in Running', t \notin overlapped
                 PROVE  /\ Running' \cap StreamsOf(dev[t]) = {t}
                        /\ dev[t] \notin deleted => route'[dev[t]] = t
    BY <1>1 DEF LoneStreamKeepsRoute, StreamsOf
  <2>2. /\ t \in Running \ overlapped /\ t \in Running'
        /\ route'[dev[t]] = route[dev[t]]
    BY <1>8, <2>1
  <2> QED
    BY <1>3, <2>2 DEF ServiceInv, LoneStreamKeepsRoute
<1>10. LoneStreamIsReachable'
  <2>1. SUFFICES ASSUME NEW t \in Streams, t \notin overlapped,
                        task'[t] = "serving", dev[t] \notin deleted
                 PROVE  /\ route'[dev[t]] = t
                        /\ status[dev[t]] = "online" \/ t \in unrecorded
    BY <1>1 DEF LoneStreamIsReachable
  <2>2. t \in Running'
    BY <2>1 DEF Running
  <2>3. task[t] = "serving" /\ route'[dev[t]] = route[dev[t]]
    BY <1>2, <1>8, <2>1, <2>2
  <2> QED
    BY <2>1, <2>3 DEF ServiceInv, LoneStreamIsReachable
<1>11. EnrollmentInv'
  BY <1>1, EnrollmentIsKept DEF ServiceInv
<1> QED
  BY <1>1, <1>5, <1>6, <1>7, <1>9, <1>10, <1>11 DEF ServiceInv

\* delete_device hides the device before it drops the route.
LEMMA DeleteStep ==
  ASSUME TypeOK, ServiceInv, NEW d \in Devices,
         MarkDeleted(d) \/ DropRoute(d) \/ AbandonDelete(d)
  PROVE  ServiceInv'
<1> USE DEF TypeOK
<1>1. /\ UNCHANGED <<enrollmentVars, status, dev, task, unrecorded, overlapped>>
      /\ deleted \subseteq deleted' /\ deleting' \subseteq deleted'
      /\ \A x \in Devices : \/ route'[x] = route[x]
                            \/ route'[x] = Null /\ x \in deleted'
  BY DEF MarkDeleted, DropRoute, AbandonDelete, ServiceInv
<1>2. Running' = Running
  BY <1>1 DEF Running
<1>3. RouteIsRunning'
  BY <1>1, <1>2 DEF ServiceInv, RouteIsRunning
<1>4. OnlineIsAccountedFor' /\ StreamsHaveDevices'
  BY <1>1 DEF ServiceInv, OnlineIsAccountedFor, StreamsHaveDevices, StreamsOf
<1>5. LoneStreamKeepsRoute'
  BY <1>1, <1>2
  DEF ServiceInv, LoneStreamKeepsRoute, StreamsHaveDevices, StreamsOf, Running
<1>6. LoneStreamIsReachable'
  BY <1>1 DEF ServiceInv, LoneStreamIsReachable, StreamsHaveDevices
<1>7. EnrollmentInv'
  BY <1>1, EnrollmentIsKept DEF ServiceInv
<1> QED
  BY <1>1, <1>3, <1>4, <1>5, <1>6, <1>7 DEF ServiceInv

\* A restart leaves no running task and owes every status it did not correct.
LEMMA RestartStep ==
  ASSUME TypeOK, ServiceInv, Restart
  PROVE  ServiceInv'
<1>1. Running' = {}
  BY DEF Restart, Running, TypeOK
<1>2. RouteIsRunning'
  BY DEF Restart, RouteIsRunning
<1>3. OnlineIsAccountedFor'
  BY DEF Restart, ServiceInv, OnlineIsAccountedFor, StreamsOf
<1>4. StreamsHaveDevices'
  BY DEF Restart, ServiceInv, StreamsHaveDevices, Running
<1>5. LoneStreamKeepsRoute' /\ LoneStreamIsReachable'
  BY <1>1 DEF LoneStreamKeepsRoute, LoneStreamIsReachable, Running
<1>6. EnrollmentInv'
  <2>1. /\ UNCHANGED <<consumed, enrolledBy>>
        /\ \A c \in Codes : LockHolders(c)' \subseteq LockHolders(c)
    BY DEF Restart, LockHolders, NoCall
  <2> QED
    BY <2>1, EnrollmentInvUnchanged DEF ServiceInv, TypeOK, EnrollmentTypeOK
<1> QED
  BY <1>2, <1>3, <1>4, <1>5, <1>6 DEF Restart, ServiceInv

-----------------------------------------------------------------------------
(* The theorems *)

\* The inductive invariant of enrollments and channels, in every reachable state.
THEOREM ServiceInvariant == Spec => []ServiceInv
<1>1. Init => ServiceInv
  BY NullIsNoStream, EnrollmentInit_Inv
  DEF Init, ServiceInv, RouteIsRunning, OnlineIsAccountedFor, LoneStreamIsReachable,
      StreamsHaveDevices, LoneStreamKeepsRoute, Running
<1>2. TypeOK /\ ServiceInv /\ [Next]_vars => ServiceInv'
  <2> SUFFICES ASSUME TypeOK, ServiceInv, [Next]_vars PROVE ServiceInv'
    OBVIOUS
  <2>1. CASE EnrollmentNext /\ UNCHANGED channelVars
    BY <2>1, EnrollmentStep, ChannelUnchanged DEF TypeOK, ServiceInv, channelVars
  <2>2. ASSUME NEW d \in Devices, NEW s \in Streams, Open(d, s)
        PROVE  ServiceInv'
    BY <2>2, OpenStep
  <2>3. ASSUME NEW d \in Devices, AgentNotices(d)
        PROVE  ServiceInv'
    BY <2>3, EnrollmentIsKept, ChannelUnchanged DEF AgentNotices, ServiceInv
  <2>4. ASSUME NEW d \in Devices, MarkDeleted(d) \/ DropRoute(d) \/ AbandonDelete(d)
        PROVE  ServiceInv'
    BY <2>4, DeleteStep
  <2>5. ASSUME NEW s \in Streams, Break(s)
        PROVE  ServiceInv'
    BY <2>5, EnrollmentIsKept, ChannelUnchanged DEF Break, ServiceInv
  <2>6. ASSUME NEW s \in Streams, RefuseFrame(s) \/ Task(s)
        PROVE  ServiceInv'
    BY <2>6, MarkOnlineStep, ServerNoticesStep, MarkOfflineStep, UnregisterStep
    DEF Task
  <2>7. CASE Restart
    BY <2>7, RestartStep
  <2>8. CASE UNCHANGED vars
    BY <2>8, EnrollmentIsKept, ChannelUnchanged DEF vars, channelVars, ServiceInv
  <2> QED
    BY <2>1, <2>2, <2>3, <2>4, <2>5, <2>6, <2>7, <2>8 DEF Next
<1> QED
  BY <1>1, <1>2, TypeInvariant, PTL DEF Spec

\* Tables, routing table, tasks and calls keep their types.
THEOREM ServiceTypes == Spec => []TypeOK
  BY TypeInvariant

\* A code makes at most one device, whichever calls present it at once.
THEOREM OneDevicePerCode == Spec => []CodeEnrollsOnce
<1>1. ServiceInv => CodeEnrollsOnce
  BY DEF ServiceInv, EnrollmentInv
<1> QED
  BY <1>1, ServiceInvariant, PTL

\* A code is spent exactly when its device exists, wherever a call fails.
THEOREM SpentMeansEnrolled == Spec => []SpentCodesMadeDevices
<1>1. ServiceInv => SpentCodesMadeDevices
  BY DEF ServiceInv, EnrollmentInv
<1> QED
  BY <1>1, ServiceInvariant, PTL

\* The routing table never holds the sender of a stream whose task has ended.
THEOREM NoRouteToFinishedTask == Spec => []RouteIsRunning
<1>1. ServiceInv => RouteIsRunning
  BY DEF ServiceInv
<1> QED
  BY <1>1, ServiceInvariant, PTL

\* A device shown online has a task that will correct that, or a restart or a
\* failed write to blame.
THEOREM OnlineAccounted == Spec => []OnlineIsAccountedFor
<1>1. ServiceInv => OnlineIsAccountedFor
  BY DEF ServiceInv
<1> QED
  BY <1>1, ServiceInvariant, PTL

\* A device whose streams never overlap is reachable and online while served.
THEOREM LoneStreamReachable == Spec => []LoneStreamIsReachable
<1>1. ServiceInv => LoneStreamIsReachable
  BY DEF ServiceInv
<1> QED
  BY <1>1, ServiceInvariant, PTL

-----------------------------------------------------------------------------
(* Enrollment implements Voucher *)

\* Codes live in the order of their columns, and each device that is owed its JWT
\* is owed it by one call.
RepliesInv ==
  /\ stale \subseteq issued /\ consumed \subseteq issued /\ jwt \subseteq Enrolled
  /\ \A e \in Enrollers : call[e].pc = "insert" => call[e].code \in issued
  /\ \A e \in Enrollers : call[e].pc = "reply" => call[e].device \in Enrolled \ jwt
  /\ \A e, f \in Enrollers :
       call[e].pc = "reply" /\ call[f].pc = "reply" /\ call[e].device = call[f].device
         => e = f

\* Every step of the service is one of the calls of enroll, of time, a restart, or
\* leaves enrollment alone.
LEMMA EnrollmentSteps ==
  ASSUME [Next]_vars
  PROVE  \/ \E c \in Codes : CreateEnrollment(c) \/ ExpireCode(c)
         \/ \E e \in Enrollers :
              (\E c \in Codes : Begin(e, c)) \/ Claim(e) \/ Commit(e) \/ Deliver(e) \/ Abort(e)
         \/ \E d \in Devices : ExpireJwt(d)
         \/ Restart
         \/ UNCHANGED enrollmentVars
BY DEF Next, EnrollmentNext, Open, AgentNotices, MarkDeleted, DropRoute, AbandonDelete,
       Break, RefuseFrame, Task, MarkOnline, MarkOnlineFails, ServerNotices, MarkOffline,
       MarkOfflineFails, Unregister, vars

LEMMA ClaimEffect ==
  ASSUME EnrollmentTypeOK, NEW e \in Enrollers, Claim(e)
  PROVE  /\ call'[e].pc = "insert" /\ call'[e].code = call[e].code
         /\ call[e].pc = "claim" /\ call[e].code \in issued
         /\ \A f \in Enrollers \ {e} : call'[f] = call[f]
<1>1. PICK c : c = call[e]
  OBVIOUS
<1>2. c \in [pc : {"claim", "insert"}, code : Codes, device : {Null}]
  BY <1>1 DEF Claim, EnrollmentTypeOK, Call, NoCall
<1>3. PICK n : n = [c EXCEPT !.pc = "insert"]
  OBVIOUS
<1>4. n.pc = "insert" /\ n.code = c.code
  BY <1>2, <1>3
<1>5. call' = [call EXCEPT ![e] = n]
  BY <1>1, <1>3 DEF Claim
<1>6. QED
  BY <1>1, <1>4, <1>5 DEF Claim, EnrollmentTypeOK

LEMMA CommitEffect ==
  ASSUME EnrollmentTypeOK, NEW e \in Enrollers, Commit(e)
  PROVE  /\ call[e].pc = "insert" /\ call[e].code \in Codes
         /\ consumed' = consumed \cup {call[e].code}
         /\ UNCHANGED <<issued, stale, jwt>>
         /\ \E d \in Devices :
              /\ enrolledBy[d] = Null
              /\ enrolledBy' = [enrolledBy EXCEPT ![d] = call[e].code]
              /\ call'[e].pc = "reply" /\ call'[e].device = d
         /\ \A f \in Enrollers \ {e} : call'[f] = call[f]
<1>1. PICK c : c = call[e]
  OBVIOUS
<1>2. c \in [pc : {"claim", "insert"}, code : Codes, device : {Null}]
  BY <1>1 DEF Commit, EnrollmentTypeOK, Call, NoCall
<1>3. PICK d \in Devices :
        /\ enrolledBy[d] = Null
        /\ enrolledBy' = [enrolledBy EXCEPT ![d] = c.code]
        /\ call' = [call EXCEPT ![e].pc = "reply", ![e].device = d]
  BY <1>1 DEF Commit
<1>4. PICK n : n = [c EXCEPT !.pc = "reply", !.device = d]
  OBVIOUS
<1>5. n.pc = "reply" /\ n.device = d
  BY <1>2, <1>4
<1>6. call' = [call EXCEPT ![e] = n]
  BY <1>1, <1>3, <1>4
<1>7. call'[e] = n /\ \A f \in Enrollers \ {e} : call'[f] = call[f]
  BY <1>6 DEF EnrollmentTypeOK
<1>8. QED
  BY <1>1, <1>2, <1>3, <1>5, <1>7 DEF Commit


LEMMA RepliesStep ==
  ASSUME EnrollmentTypeOK, RepliesInv, [Next]_vars
  PROVE  RepliesInv'
<1> USE DEF EnrollmentTypeOK
<1>1. ASSUME NEW c \in Codes, CreateEnrollment(c) PROVE RepliesInv'
  BY <1>1 DEF CreateEnrollment, RepliesInv, Enrolled
<1>2. ASSUME NEW c \in Codes, ExpireCode(c) PROVE RepliesInv'
  BY <1>2 DEF ExpireCode, RepliesInv, Enrolled
<1>3. ASSUME NEW e \in Enrollers, (\E c \in Codes : Begin(e, c)) \/ Abort(e) PROVE RepliesInv'
  <2>1. /\ call'[e].pc \notin {"insert", "reply"}
        /\ \A f \in Enrollers \ {e} : call'[f] = call[f]
        /\ UNCHANGED <<issued, stale, consumed, enrolledBy, jwt>>
    BY <1>3 DEF Begin, Abort, NoCall
  <2>2. QED
    BY <2>1 DEF RepliesInv, Enrolled
<1>4. ASSUME NEW e \in Enrollers, Claim(e) PROVE RepliesInv'
  BY <1>4, ClaimEffect DEF Claim, RepliesInv, Enrolled
<1>5. ASSUME NEW e \in Enrollers, Commit(e) PROVE RepliesInv'
  <2>1. PICK d \in Devices :
          /\ enrolledBy[d] = Null
          /\ enrolledBy' = [enrolledBy EXCEPT ![d] = call[e].code]
          /\ call'[e].pc = "reply" /\ call'[e].device = d
    BY <1>5, CommitEffect
  <2>2. /\ call[e].pc = "insert" /\ call[e].code \in Codes /\ call[e].code # Null
        /\ consumed' = consumed \cup {call[e].code}
        /\ UNCHANGED <<issued, stale, jwt>>
        /\ \A f \in Enrollers \ {e} : call'[f] = call[f]
    BY <1>5, CommitEffect, NullIsNoId
  <2>3. Enrolled' = Enrolled \cup {d} /\ d \notin Enrolled
    BY <2>1, <2>2 DEF Enrolled
  <2>4. QED
    BY <2>1, <2>2, <2>3 DEF RepliesInv
<1>6. ASSUME NEW e \in Enrollers, Deliver(e) PROVE RepliesInv'
  <2>1. /\ call[e].pc = "reply" /\ jwt' = jwt \cup {call[e].device}
        /\ call'[e].pc \notin {"insert", "reply"}
        /\ \A f \in Enrollers \ {e} : call'[f] = call[f]
        /\ UNCHANGED <<issued, stale, consumed, enrolledBy>>
    BY <1>6 DEF Deliver, NoCall
  <2>2. QED
    BY <2>1 DEF RepliesInv, Enrolled
<1>7. ASSUME NEW d \in Devices, ExpireJwt(d) PROVE RepliesInv'
  BY <1>7 DEF ExpireJwt, RepliesInv, Enrolled
<1>8. CASE Restart
  <2>1. /\ \A e \in Enrollers : call'[e].pc \notin {"insert", "reply"}
        /\ UNCHANGED <<issued, stale, consumed, enrolledBy, jwt>>
    BY <1>8 DEF Restart, NoCall
  <2>2. QED
    BY <2>1 DEF RepliesInv, Enrolled
<1>9. CASE UNCHANGED enrollmentVars
  BY <1>9 DEF enrollmentVars, RepliesInv, Enrolled
<1>10. QED
  BY <1>1, <1>2, <1>3, <1>4, <1>5, <1>6, <1>7, <1>8, <1>9, EnrollmentSteps

\* What lapses: a code in the table that nobody presents any more, a device that is
\* neither owed its JWT nor keeps it.  All steps but three do at most that.
LEMMA Lapses ==
  ASSUME UNCHANGED enrolledBy,
         \A c \in Codes :
           \/ CodeState(c)' = CodeState(c)
           \/ CodeState(c) = "open" /\ CodeState(c)' = "void",
         \A d \in Devices :
           \/ DeviceState(d)' = DeviceState(d)
           \/ DeviceState(d) \in {"owed", "equipped"} /\ DeviceState(d)' = "stranded"
  PROVE  V!Next
<1> DEFINE code == [c \in Codes |-> CodeState(c)]
           device == [d \in Devices |-> DeviceState(d)]
<1>1. PICK C : C = {c \in Codes : CodeState(c)' # CodeState(c)}
  OBVIOUS
<1>2. PICK D : D = {d \in Devices : DeviceState(d)' # DeviceState(d)}
  OBVIOUS
<1>3. C \in SUBSET {c \in Codes : code[c] = "open"}
  BY <1>1
<1>4. D \in SUBSET {d \in Devices : device[d] \in {"owed", "equipped"}}
  BY <1>2
<1>5. code' = [c \in Codes |-> IF c \in C THEN "void" ELSE code[c]]
  BY <1>1
<1>6. device' = [d \in Devices |-> IF d \in D THEN "stranded" ELSE device[d]]
  BY <1>2
<1>7. V!Lapse(C, D)
  BY <1>5, <1>6 DEF V!Lapse
<1>8. QED
  BY <1>3, <1>4, <1>7 DEF V!Next

LEMMA Quiet ==
  ASSUME UNCHANGED <<issued, consumed, enrolledBy>>, stale \subseteq stale',
         \A c \in Codes : c \in stale /\ Presenting(c) = {} => Presenting(c)' = {},
         jwt' \subseteq jwt,
         \A d \in Devices : d \in jwt \/ Owing(d) = {} => Owing(d)' = {}
  PROVE  V!Next
<1>1. ASSUME NEW c \in Codes
      PROVE  \/ CodeState(c)' = CodeState(c)
             \/ CodeState(c) = "open" /\ CodeState(c)' = "void"
  BY DEF CodeState
<1>2. ASSUME NEW d \in Devices
      PROVE  \/ DeviceState(d)' = DeviceState(d)
             \/ DeviceState(d) \in {"owed", "equipped"} /\ DeviceState(d)' = "stranded"
  BY DEF DeviceState
<1>3. QED
  BY <1>1, <1>2, Lapses

\* A device that has its JWT is owed none.
LEMMA EquippedOwedNothing ==
  ASSUME RepliesInv, NEW d \in Devices, d \in jwt
  PROVE  Owing(d) = {}
BY DEF RepliesInv, Owing

LEMMA IssueRefines ==
  ASSUME RepliesInv, NEW c \in Codes, CreateEnrollment(c)
  PROVE  V!Next
<1> DEFINE code == [b \in Codes |-> CodeState(b)]
           device == [d \in Devices |-> DeviceState(d)]
<1>1. CodeState(c) = "none" /\ CodeState(c)' = "open"
  BY DEF CreateEnrollment, CodeState, RepliesInv
<1>2. \A b \in Codes \ {c} : CodeState(b)' = CodeState(b)
  BY DEF CreateEnrollment, CodeState, Presenting
<1>3. \A d \in Devices : DeviceState(d)' = DeviceState(d)
  BY DEF CreateEnrollment, DeviceState, Owing
<1>4. code[c] = "none" /\ code' = [code EXCEPT ![c] = "open"]
  BY <1>1, <1>2
<1>5. UNCHANGED <<device, enrolledBy>>
  BY <1>3 DEF CreateEnrollment
<1>6. V!Issue(c)
  BY <1>4, <1>5 DEF V!Issue
<1>7. QED
  BY <1>6 DEF V!Next

\* The commit is the step that redeems: the lock says that the code is open.
LEMMA RedeemRefines ==
  ASSUME TypeOK, ServiceInv, RepliesInv, NEW e \in Enrollers, Commit(e)
  PROVE  V!Next
<1> DEFINE code == [b \in Codes |-> CodeState(b)]
           device == [x \in Devices |-> DeviceState(x)]
<1>1. PICK c \in Codes : c = call[e].code /\ call[e].pc = "insert"
  BY CommitEffect DEF TypeOK
<1>2. /\ consumed' = consumed \cup {c}
      /\ UNCHANGED <<issued, stale, jwt>>
      /\ \A f \in Enrollers \ {e} : call'[f] = call[f]
  BY <1>1, CommitEffect DEF TypeOK
<1>3. PICK d \in Devices :
        /\ enrolledBy[d] = Null
        /\ enrolledBy' = [enrolledBy EXCEPT ![d] = c]
        /\ call'[e].pc = "reply" /\ call'[e].device = d
  BY <1>1, CommitEffect DEF TypeOK
<1>4. enrolledBy'[d] = c /\ c # Null /\ \A x \in Devices \ {d} : enrolledBy'[x] = enrolledBy[x]
  BY <1>3, NullIsNoId DEF TypeOK, EnrollmentTypeOK
<1>5. c \notin consumed /\ c \in issued /\ e \in Presenting(c)
  BY <1>1 DEF ServiceInv, EnrollmentInv, RepliesInv, LockHolders, Presenting
<1>6. CodeState(c) = "open" /\ CodeState(c)' = "spent"
  BY <1>2, <1>5 DEF CodeState
<1>7. ASSUME NEW b \in Codes \ {c} PROVE CodeState(b)' = CodeState(b)
  <2>1. Presenting(b)' = Presenting(b)
    BY <1>1, <1>2, <1>3 DEF Presenting
  <2>2. QED
    BY <1>2, <2>1 DEF CodeState
<1>8. DeviceState(d) = "none" /\ DeviceState(d)' = "owed"
  <2>1. d \notin jwt
    BY <1>3 DEF RepliesInv, Enrolled
  <2>2. e \in Owing(d)'
    BY <1>3 DEF Owing
  <2>3. QED
    BY <1>2, <1>3, <1>4, <2>1, <2>2 DEF DeviceState
<1>9. ASSUME NEW x \in Devices \ {d} PROVE DeviceState(x)' = DeviceState(x)
  <2>1. Owing(x)' = Owing(x)
    BY <1>1, <1>2, <1>3 DEF Owing
  <2>2. QED
    BY <1>2, <1>4, <2>1 DEF DeviceState
<1>10. code[c] = "open" /\ code' = [code EXCEPT ![c] = "spent"]
  BY <1>6, <1>7
<1>11. device[d] = "none" /\ device' = [device EXCEPT ![d] = "owed"]
  BY <1>8, <1>9
<1>12. V!Redeem(c, d)
  BY <1>3, <1>10, <1>11 DEF V!Redeem
<1>13. QED
  BY <1>12 DEF V!Next

LEMMA HandRefines ==
  ASSUME TypeOK, RepliesInv, NEW e \in Enrollers, Deliver(e)
  PROVE  V!Next
<1> DEFINE code == [b \in Codes |-> CodeState(b)]
           device == [x \in Devices |-> DeviceState(x)]
<1>1. PICK d \in Devices : d = call[e].device /\ call[e].pc = "reply" /\ d \notin jwt
                           /\ enrolledBy[d] # Null
  BY DEF Deliver, RepliesInv, Enrolled
<1>2. /\ jwt' = jwt \cup {d} /\ call'[e].pc = "idle"
      /\ \A f \in Enrollers \ {e} : call'[f] = call[f]
      /\ UNCHANGED <<issued, stale, consumed, enrolledBy>>
  BY <1>1 DEF Deliver, TypeOK, EnrollmentTypeOK, NoCall
<1>3. \A b \in Codes : CodeState(b)' = CodeState(b)
  BY <1>1, <1>2 DEF CodeState, Presenting
<1>4. DeviceState(d) = "owed" /\ DeviceState(d)' = "equipped"
  <2>1. e \in Owing(d)
    BY <1>1 DEF Owing
  <2>2. QED
    BY <1>1, <1>2, <2>1 DEF DeviceState
<1>5. ASSUME NEW x \in Devices \ {d} PROVE DeviceState(x)' = DeviceState(x)
  <2>1. Owing(x)' = Owing(x)
    BY <1>1, <1>2 DEF Owing
  <2>2. QED
    BY <1>2, <2>1 DEF DeviceState
<1>6. device[d] = "owed" /\ device' = [device EXCEPT ![d] = "equipped"]
  BY <1>4, <1>5
<1>7. UNCHANGED <<code, enrolledBy>>
  BY <1>2, <1>3
<1>8. V!Hand(d)
  BY <1>6, <1>7 DEF V!Hand
<1>9. QED
  BY <1>8 DEF V!Next

LEMMA QuietRefines ==
  ASSUME TypeOK, RepliesInv,
         \/ \E c \in Codes : ExpireCode(c)
         \/ \E e \in Enrollers : (\E c \in Codes : Begin(e, c)) \/ Claim(e) \/ Abort(e)
         \/ \E d \in Devices : ExpireJwt(d)
         \/ Restart
         \/ UNCHANGED enrollmentVars
  PROVE  V!Next
<1>1. /\ UNCHANGED <<issued, consumed, enrolledBy>>
      /\ stale \subseteq stale' /\ jwt' \subseteq jwt
  BY DEF ExpireCode, Begin, Claim, Abort, ExpireJwt, Restart, enrollmentVars
<1>2. ASSUME NEW e \in Enrollers
      PROVE  /\ call'[e].pc \in {"claim", "insert"} =>
                  \/ call'[e].code \notin stale
                  \/ call[e].pc \in {"claim", "insert"} /\ call[e].code = call'[e].code
             /\ call'[e].pc = "reply" => call'[e] = call[e]
  <2>1. CASE call'[e] = call[e]
    BY <2>1
  <2>2. CASE call'[e] = NoCall
    BY <2>2 DEF NoCall
  <2>3. ASSUME NEW c \in Codes, Begin(e, c)
        PROVE  call'[e].pc = "claim" /\ call'[e].code \notin stale
    BY <2>3 DEF Begin, TypeOK, EnrollmentTypeOK
  <2>4. CASE Claim(e)
    BY <2>4, ClaimEffect DEF TypeOK
  <2>5. \/ call'[e] = call[e] \/ call'[e] = NoCall
        \/ \E c \in Codes : Begin(e, c)
        \/ Claim(e)
    BY ClaimEffect
    DEF ExpireCode, Begin, Claim, Abort, ExpireJwt, Restart, enrollmentVars, TypeOK,
        EnrollmentTypeOK
  <2>6. QED
    BY <2>1, <2>2, <2>3, <2>4, <2>5
<1>3. \A c \in Codes : c \in stale /\ Presenting(c) = {} => Presenting(c)' = {}
  BY <1>2 DEF Presenting
<1>4. \A d \in Devices : d \in jwt \/ Owing(d) = {} => Owing(d)' = {}
  BY <1>2, EquippedOwedNothing DEF Owing
<1>5. QED
  BY <1>1, <1>3, <1>4, Quiet

\* The transactions of enroll implement the voucher: a code is redeemed in the commit,
\* and every other step issues one, hands over a JWT, or lets something lapse.
THEOREM EnrollmentImplementsVoucher == Spec => ImplementsVoucher
<1>1. Init => V!Init
  BY DEF Init, EnrollmentInit, V!Init, CodeState, DeviceState
<1>2. Init => RepliesInv
  BY DEF Init, EnrollmentInit, RepliesInv, NoCall, Enrolled
<1>3. TypeOK /\ RepliesInv /\ [Next]_vars => RepliesInv'
  BY RepliesStep DEF TypeOK
<1>4. TypeOK /\ ServiceInv /\ RepliesInv /\ [Next]_vars => V!Next
  BY EnrollmentSteps, IssueRefines, RedeemRefines, HandRefines, QuietRefines
<1>5. QED
  BY <1>1, <1>2, <1>3, <1>4, TypeInvariant, ServiceInvariant, PTL
  DEF Spec, ImplementsVoucher, V!Spec
=============================================================================
