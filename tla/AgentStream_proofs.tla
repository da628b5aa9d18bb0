-------------------------- MODULE AgentStream_proofs --------------------------
(***************************************************************************)
(* Proofs about AgentStream, for any capacities and any number of commands *)
(* and streams: its queues keep their bounds, and results stay in order on *)
(* each stream and from one stream to the next.  A command goes down a     *)
(* line of six places, from the hand of the stream loop to the streams; a  *)
(* step moves one number one place on or loses numbers, so those further   *)
(* on are always the smaller ones.  The last place is all streams together *)
(* and has an order of its own.                                            *)
(***************************************************************************)
EXTENDS AgentStream, OrderedSequences

\* Where commands and results are, the furthest first.
Line ==
  <<UNION {Sent(s) : s \in Streams},
    IF loop = "sending" THEN One(held) ELSE {},
    Numbers(outbound), IF disp # "idle" THEN One(current) ELSE {},
    Numbers(inbound), IF loop = "delivering" THEN One(held) ELSE {}>>

Places == {1, 2, 3, 4, 5, 6}
InLine(L) == \A p, q \in Places : p < q => Before(L[p], L[q])
UpTo(L, n) == \A p \in Places : \A x \in L[p] : x <= n

LineInv ==
  /\ InLine(Line) /\ UpTo(Line, issued)
  /\ Rising(outbound) /\ Rising(inbound)

\* What the service has read of a stream comes before what it has not, an older
\* stream before a newer one, and streams to come carry nothing.
StreamsInv ==
  /\ \A s \in Streams : Rising(stream[s]) /\ Before(got[s], Numbers(stream[s]))
  /\ \A s, t \in Streams : t < s => Before(Sent(t), Sent(s))
  /\ \A s \in Streams : s > latest => Sent(s) = {}

AgentInv == TypeOK /\ LineInv /\ StreamsInv

-----------------------------------------------------------------------------
\* The line.
LEMMA Slots ==
  /\ Line[1] = UNION {Sent(s) : s \in Streams}
  /\ Line[2] = (IF loop = "sending" THEN One(held) ELSE {})
  /\ Line[3] = Numbers(outbound)
  /\ Line[4] = (IF disp # "idle" THEN One(current) ELSE {})
  /\ Line[5] = Numbers(inbound)
  /\ Line[6] = (IF loop = "delivering" THEN One(held) ELSE {})
BY DEF Line

LEMMA SlotsNext ==
  /\ Line'[1] = UNION {Sent(s)' : s \in Streams}
  /\ Line'[2] = (IF loop' = "sending" THEN One(held') ELSE {})
  /\ Line'[3] = Numbers(outbound')
  /\ Line'[4] = (IF disp' # "idle" THEN One(current') ELSE {})
  /\ Line'[5] = Numbers(inbound')
  /\ Line'[6] = (IF loop' = "delivering" THEN One(held') ELSE {})
BY DEF Line

LEMMA SentIs ==
  /\ \A s \in Streams : Sent(s) = got[s] \cup Numbers(stream[s])
  /\ \A s \in Streams : Sent(s)' = got'[s] \cup Numbers(stream'[s])
BY DEF Sent, Numbers, ToSet

\* Numbers that move from a place to the one before it, in order.
LEMMA Slides ==
  ASSUME NEW L, NEW M, NEW n, NEW p \in Places, p # 6, InLine(L), UpTo(L, n),
         \A q \in Places \ {p} : M[q] \subseteq L[q],
         M[p] \subseteq L[p] \cup L[p + 1], Before(M[p], M[p + 1])
  PROVE  InLine(M) /\ UpTo(M, n)
<1>1. p + 1 \in Places
  BY DEF Places
<1>2. ASSUME NEW a \in Places, NEW b \in Places, a < b PROVE Before(M[a], M[b])
  <2>1. CASE a # p /\ b # p
    BY <1>2, <2>1 DEF InLine, Before
  <2>2. CASE b = p
    <3>1. a # p /\ a < p + 1
      BY <1>2, <2>2 DEF Places
    <3>2. QED
      BY <1>1, <1>2, <2>2, <3>1 DEF InLine, Before
  <2>3. CASE a = p /\ b = p + 1
    BY <2>3
  <2>4. CASE a = p /\ b # p + 1
    <3>1. b # p /\ p + 1 < b
      BY <1>2, <2>4 DEF Places
    <3>2. QED
      BY <1>1, <1>2, <2>4, <3>1 DEF InLine, Before
  <2>5. QED
    BY <2>1, <2>2, <2>3, <2>4
<1>3. UpTo(M, n)
  BY <1>1 DEF UpTo
<1>4. QED
  BY <1>2, <1>3 DEF InLine

LEMMA Loses ==
  ASSUME NEW L, NEW M, NEW n, InLine(L), UpTo(L, n), \A q \in Places : M[q] \subseteq L[q]
  PROVE  InLine(M) /\ UpTo(M, n)
BY DEF InLine, UpTo, Before

LEMMA Numbered ==
  ASSUME TypeOK
  PROVE  /\ inbound \in Seq(Nat) /\ outbound \in Seq(Nat)
         /\ held \in Nat /\ current \in Nat /\ issued \in Nat /\ latest \in Nat
         /\ \A s \in Streams : s \in Nat /\ stream[s] \in Seq(Nat) /\ got[s] \subseteq Nat
<1>1. /\ BufferCap \in Nat /\ InCap \in Nat /\ OutCap \in Nat
      /\ MaxCommands \in Nat /\ MaxStreams \in Nat
  BY AgentCapacities
<1>2. Message \subseteq Nat /\ Commands \subseteq Nat /\ Streams \subseteq Nat
  BY <1>1 DEF Message, Commands, Streams
<1>3. inbound \in Seq(Message) /\ outbound \in Seq(Message)
  BY <1>1, Bounded DEF TypeOK
<1>4. ASSUME NEW s \in Streams PROVE stream[s] \in Seq(Nat) /\ got[s] \subseteq Nat
  <2>1. stream[s] \in BoundedSeq(Message, BufferCap) /\ got[s] \subseteq Commands
    BY DEF TypeOK
  <2>2. stream[s] \in Seq(Message)
    BY <1>1, <2>1, Bounded
  <2>3. QED
    BY <1>2, <2>1, <2>2, SeqMonotonic
<1>5. inbound \in Seq(Nat) /\ outbound \in Seq(Nat)
  BY <1>2, <1>3, SeqMonotonic
<1>6. held \in Nat /\ current \in Nat /\ issued \in Nat /\ latest \in Nat
  BY <1>2 DEF TypeOK
<1>7. QED
  BY <1>2, <1>4, <1>5, <1>6

LEMMA NaturalPlaces == ASSUME TypeOK PROVE \A q \in Places : \A x \in Line[q] : x \in Nat
<1>1. \A s \in Seq(Nat) : Numbers(s) \subseteq Nat
  BY DEF Numbers
<1>2. \A x \in Nat : One(x) \subseteq Nat
  BY DEF One
<1>3. Line[1] \subseteq Nat
  <2>1. \A s \in Streams : Sent(s) \subseteq Nat
    BY <1>1, Numbered, SentIs
  <2>2. QED
    BY <2>1, Slots
<1>4. \A q \in Places \ {1} : Line[q] \subseteq Nat
  BY <1>1, <1>2, Numbered, Slots DEF Places
<1>5. QED
  BY <1>3, <1>4

\* The streams keep their order while they lose, or hand on, what they carry.
LEMMA StreamsShrink ==
  ASSUME AgentInv, latest' \in Nat, latest <= latest',
         \A s \in Streams : /\ Rising(stream'[s]) /\ Before(got'[s], Numbers(stream'[s]))
                            /\ Sent(s)' \subseteq Sent(s)
  PROVE  StreamsInv' /\ Line'[1] \subseteq Line[1]
<1>1. \A s, t \in Streams : t < s => Before(Sent(t)', Sent(s)')
  BY DEF AgentInv, StreamsInv, Before
<1>2. ASSUME NEW s \in Streams, s > latest' PROVE Sent(s)' = {}
  <2>1. s > latest
    BY <1>2, Numbered DEF AgentInv
  <2>2. QED
    BY <2>1 DEF AgentInv, StreamsInv
<1>3. Line'[1] \subseteq Line[1]
  BY Slots, SlotsNext
<1>4. QED
  BY <1>1, <1>2, <1>3 DEF StreamsInv

LEMMA StreamsStay ==
  ASSUME AgentInv, UNCHANGED <<stream, got>>, latest' \in Nat, latest <= latest'
  PROVE  StreamsInv' /\ Line'[1] \subseteq Line[1]
<1>1. \A s \in Streams : Sent(s)' = Sent(s)
  BY DEF Sent
<1>2. \A s \in Streams : Rising(stream'[s]) /\ Before(got'[s], Numbers(stream'[s]))
  BY DEF AgentInv, StreamsInv
<1>3. QED
  BY <1>1, <1>2, StreamsShrink

\* The service: what it reads it has got, and what it does not read is lost.
LEMMA ServerStepKeeps ==
  ASSUME AgentInv, NEW s \in Streams, ServerReads(s) \/ ServerStops(s)
  PROVE  LineInv' /\ StreamsInv'
<1>1. /\ stream[s] # <<>>
      /\ UNCHANGED <<loop, held, latest, inbound, outbound, disp, current, issued>>
      /\ \A t \in Streams \ {s} : stream'[t] = stream[t] /\ got'[t] = got[t]
  BY DEF ServerReads, ServerStops, loopVars, dispVars, serverVars, AgentInv, TypeOK
<1>2. /\ stream[s] \in Seq(Nat) /\ Rising(stream[s]) /\ Before(got[s], Numbers(stream[s]))
  BY Numbered DEF AgentInv, StreamsInv
<1>3. /\ Rising(stream'[s]) /\ Before(got'[s], Numbers(stream'[s]))
      /\ Sent(s)' \subseteq Sent(s)
  <2>1. CASE ServerReads(s)
    <3>1. stream'[s] = Tail(stream[s]) /\ got'[s] = got[s] \cup One(Head(stream[s]))
      BY <2>1 DEF ServerReads, One, AgentInv, TypeOK
    <3>2. /\ Rising(Tail(stream[s])) /\ Numbers(Tail(stream[s])) \subseteq Numbers(stream[s])
          /\ One(Head(stream[s])) \subseteq Numbers(stream[s])
          /\ Before(One(Head(stream[s])), Numbers(Tail(stream[s])))
      BY <1>1, <1>2, RisingTail
    <3>3. Before(got'[s], Numbers(stream'[s]))
      BY <1>2, <3>1, <3>2 DEF Before
    <3>4. QED
      BY <3>1, <3>2, <3>3, SentIs
  <2>2. CASE ServerStops(s)
    <3>1. stream'[s] = <<>> /\ got'[s] = got[s]
      BY <2>2 DEF ServerStops, serverVars, AgentInv, TypeOK
    <3>2. QED
      BY <3>1, EmptyRises, SentIs DEF Before
  <2>3. QED
    BY <2>1, <2>2
<1>4. ASSUME NEW t \in Streams
      PROVE  /\ Rising(stream'[t]) /\ Before(got'[t], Numbers(stream'[t]))
             /\ Sent(t)' \subseteq Sent(t)
  <2>1. CASE t = s
    BY <1>3, <2>1
  <2>2. CASE t # s
    <3>1. Sent(t)' = Sent(t)
      BY <1>1, <2>2 DEF Sent
    <3>2. QED
      BY <1>1, <2>2, <3>1 DEF AgentInv, StreamsInv
  <2>3. QED
    BY <2>1, <2>2
<1>5. latest' \in Nat /\ latest <= latest'
  BY <1>1, Numbered DEF AgentInv
<1>6. StreamsInv' /\ Line'[1] \subseteq Line[1]
  BY <1>4, <1>5, StreamsShrink
<1>7. \A q \in Places : Line'[q] \subseteq Line[q]
  BY <1>1, <1>6, Slots, SlotsNext DEF Places
<1>8. InLine(Line') /\ UpTo(Line', issued)
  BY <1>7, Loses DEF AgentInv, LineInv
<1>9. QED
  BY <1>1, <1>6, <1>8 DEF AgentInv, LineInv

-----------------------------------------------------------------------------
\* The steps of the agent that move a number.
LEMMA TakeFrameKeeps == ASSUME AgentInv, TakeFrame PROVE LineInv' /\ StreamsInv'
<1>1. /\ loop = "selecting" /\ outbound # <<>> /\ loop' = "sending"
      /\ held' = Head(outbound) /\ outbound' = Tail(outbound)
      /\ UNCHANGED <<stream, got, latest, inbound, disp, current, issued>>
  BY DEF TakeFrame, dispVars, serverVars
<1>2. /\ Rising(outbound') /\ Numbers(outbound') \subseteq Numbers(outbound)
      /\ One(held') \subseteq Numbers(outbound) /\ Before(One(held'), Numbers(outbound'))
  BY <1>1, Numbered, RisingTail DEF AgentInv, LineInv
<1>3. StreamsInv' /\ Line'[1] \subseteq Line[1]
  BY <1>1, Numbered, StreamsStay DEF AgentInv
<1>4. /\ \A q \in Places \ {2} : Line'[q] \subseteq Line[q]
      /\ Line'[2] \subseteq Line[2] \cup Line[3] /\ Before(Line'[2], Line'[3])
  BY <1>1, <1>2, <1>3, Slots, SlotsNext DEF Places
<1>5. InLine(Line') /\ UpTo(Line', issued)
  BY <1>4, Slides DEF AgentInv, LineInv, Places
<1>6. QED
  BY <1>1, <1>2, <1>3, <1>5 DEF AgentInv, LineInv

\* The frame joins the latest stream, the last in the order of the streams.
LEMMA BufferFrameKeeps ==
  ASSUME AgentInv, loop = "sending", BufferFrame,
         UNCHANGED <<got, inbound, outbound, disp, current, issued>>
  PROVE  LineInv' /\ StreamsInv'
<1>1. /\ loop' = "selecting" /\ latest' = latest
      /\ stream' = [stream EXCEPT ![latest] = Append(@, held)]
  BY DEF BufferFrame
<1>2. /\ \A s \in Streams : s \in Nat /\ stream[s] \in Seq(Nat)
      /\ held \in Nat /\ latest \in Nat
  BY Numbered DEF AgentInv
<1>3. /\ Before(Line[1], One(held))
      /\ \A s \in Streams : Before(Sent(s), One(held))
  <2>1. Before(Line[1], Line[2])
    BY DEF AgentInv, LineInv, InLine, Places
  <2>2. Line[2] = One(held) /\ \A s \in Streams : Sent(s) \subseteq Line[1]
    BY Slots
  <2>3. QED
    BY <2>1, <2>2 DEF Before
<1>4. ASSUME NEW s \in Streams, s = latest
      PROVE  /\ Rising(stream'[s]) /\ Before(got'[s], Numbers(stream'[s]))
             /\ Sent(s)' = Sent(s) \cup One(held)
  <2>1. stream'[s] = Append(stream[s], held) /\ got'[s] = got[s]
    BY <1>1, <1>4 DEF AgentInv, TypeOK
  <2>2. /\ Rising(stream[s]) /\ Before(got[s], Numbers(stream[s]))
        /\ Before(Numbers(stream[s]), One(held)) /\ Before(got[s], One(held))
    BY <1>3, SentIs DEF AgentInv, StreamsInv, Before
  <2>3. Rising(stream'[s]) /\ Numbers(stream'[s]) = Numbers(stream[s]) \cup One(held)
    BY <1>2, <2>1, <2>2, RisingAppend
  <2>4. QED
    BY <2>1, <2>2, <2>3, SentIs DEF Before
<1>5. ASSUME NEW s \in Streams, s # latest
      PROVE  /\ Rising(stream'[s]) /\ Before(got'[s], Numbers(stream'[s]))
             /\ Sent(s)' = Sent(s)
  <2>1. stream'[s] = stream[s] /\ got'[s] = got[s]
    BY <1>1, <1>5 DEF AgentInv, TypeOK
  <2>2. QED
    BY <2>1, SentIs DEF AgentInv, StreamsInv
<1>6. \A s \in Streams : Sent(s)' \subseteq Sent(s) \cup One(held)
  BY <1>4, <1>5
<1>7. ASSUME NEW s \in Streams, NEW t \in Streams, t < s PROVE Before(Sent(t)', Sent(s)')
  <2>1. Before(Sent(t), Sent(s)) /\ Before(Sent(t), One(held))
    BY <1>3, <1>7 DEF AgentInv, StreamsInv
  <2>2. CASE t # latest
    BY <1>5, <1>6, <2>1, <2>2 DEF Before
  <2>3. CASE t = latest
    <3>1. s # latest /\ s > latest
      BY <1>2, <1>7, <2>3
    <3>2. Sent(s)' = {}
      BY <1>5, <3>1 DEF AgentInv, StreamsInv
    <3>3. QED
      BY <3>2 DEF Before
  <2>4. QED
    BY <2>2, <2>3
<1>8. ASSUME NEW s \in Streams, s > latest' PROVE Sent(s)' = {}
  BY <1>1, <1>2, <1>5, <1>8 DEF AgentInv, StreamsInv
<1>9. StreamsInv'
  BY <1>4, <1>5, <1>7, <1>8 DEF StreamsInv
<1>10. /\ \A q \in Places \ {1} : Line'[q] \subseteq Line[q]
       /\ Line'[1] \subseteq Line[1] \cup Line[2] /\ Before(Line'[1], Line'[2])
  <2>1. Line'[1] \subseteq Line[1] \cup Line[2]
    BY <1>6, Slots, SlotsNext
  <2>2. Line'[2] = {}
    BY <1>1, SlotsNext
  <2>3. \A q \in Places \ {1} : Line'[q] \subseteq Line[q]
    BY <1>1, <2>2, Slots, SlotsNext DEF Places
  <2>4. QED
    BY <2>1, <2>2, <2>3 DEF Before
<1>11. InLine(Line') /\ UpTo(Line', issued)
  BY <1>10, Slides DEF AgentInv, LineInv, Places
<1>12. QED
  BY <1>9, <1>11 DEF AgentInv, LineInv

LEMMA SendFrameKeeps == ASSUME AgentInv, SendFrame PROVE LineInv' /\ StreamsInv'
<1>1. loop = "sending" /\ UNCHANGED <<got, inbound, outbound, disp, current, issued>>
  BY DEF SendFrame, dispVars, serverVars
<1>2. CASE BufferFrame
  BY <1>1, <1>2, BufferFrameKeeps
<1>3. CASE Disconnect /\ UNCHANGED stream
  <2>1. loop' = "connecting" /\ latest' = latest
    BY <1>3 DEF Disconnect
  <2>2. StreamsInv' /\ Line'[1] \subseteq Line[1]
    BY <1>1, <1>3, <2>1, Numbered, StreamsStay DEF AgentInv
  <2>3. \A q \in Places : Line'[q] \subseteq Line[q]
    BY <1>1, <2>1, <2>2, Slots, SlotsNext DEF Places
  <2>4. InLine(Line') /\ UpTo(Line', issued)
    BY <2>3, Loses DEF AgentInv, LineInv
  <2>5. QED
    BY <1>1, <2>2, <2>4 DEF AgentInv, LineInv
<1>4. QED
  BY <1>2, <1>3 DEF SendFrame

LEMMA ReceiveKeeps == ASSUME AgentInv, Receive PROVE LineInv' /\ StreamsInv'
<1>1. /\ loop = "selecting" /\ loop' = "delivering"
      /\ UNCHANGED <<stream, got, latest, inbound, outbound, disp, current>>
      /\ \/ issued' = issued + 1 /\ held' = issued'
         \/ held' = 0 /\ issued' = issued
  BY DEF Receive, dispVars
<1>2. StreamsInv' /\ \A q \in Places \ {6} : Line'[q] \subseteq Line[q]
  <2>1. StreamsInv' /\ Line'[1] \subseteq Line[1]
    BY <1>1, Numbered, StreamsStay DEF AgentInv
  <2>2. QED
    BY <1>1, <2>1, Slots, SlotsNext DEF Places
<1>3. Line'[6] = One(held')
  BY <1>1, SlotsNext
<1>4. /\ issued \in Nat /\ issued' \in Nat /\ issued <= issued'
      /\ \A q \in Places : \A x \in Line[q] : x \in Nat
  <2>1. issued \in Nat /\ issued' \in Nat /\ issued <= issued'
    BY <1>1, Numbered DEF AgentInv
  <2>2. QED
    BY <2>1, NaturalPlaces DEF AgentInv
<1>5. \A x \in Line'[6] : x = issued + 1 /\ x = issued'
  BY <1>1, <1>3, <1>4 DEF One
<1>6. UpTo(Line', issued')
  BY <1>1, <1>2, <1>4, <1>5 DEF UpTo, AgentInv, LineInv
<1>7. ASSUME NEW p \in Places, NEW q \in Places, p < q PROVE Before(Line'[p], Line'[q])
  <2>1. p \in Places \ {6}
    BY <1>7 DEF Places
  <2>2. CASE q # 6
    BY <1>2, <1>7, <2>1, <2>2 DEF InLine, AgentInv, LineInv, Before
  <2>3. CASE q = 6
    BY <1>2, <1>4, <1>5, <2>1, <2>3 DEF Before, UpTo, AgentInv, LineInv
  <2>4. QED
    BY <2>2, <2>3
<1>8. QED
  BY <1>1, <1>2, <1>6, <1>7 DEF InLine, AgentInv, LineInv

LEMMA DeliverKeeps == ASSUME AgentInv, Deliver PROVE LineInv' /\ StreamsInv'
<1>1. /\ loop = "delivering" /\ loop' = "selecting"
      /\ inbound' = Append(inbound, held)
      /\ UNCHANGED <<stream, got, latest, outbound, disp, current, issued>>
  BY DEF Deliver, dispVars, serverVars
<1>2. Before(Numbers(inbound), One(held))
  BY <1>1, Slots DEF AgentInv, LineInv, InLine, Places
<1>3. Rising(inbound') /\ Numbers(inbound') = Numbers(inbound) \cup One(held)
  BY <1>1, <1>2, Numbered, RisingAppend DEF AgentInv, LineInv
<1>4. StreamsInv' /\ Line'[1] \subseteq Line[1]
  BY <1>1, Numbered, StreamsStay DEF AgentInv
<1>5. /\ \A q \in Places \ {5} : Line'[q] \subseteq Line[q]
      /\ Line'[5] \subseteq Line[5] \cup Line[6] /\ Before(Line'[5], Line'[6])
  BY <1>1, <1>3, <1>4, Slots, SlotsNext DEF Places, Before
<1>6. InLine(Line') /\ UpTo(Line', issued)
  BY <1>5, Slides DEF AgentInv, LineInv, Places
<1>7. QED
  BY <1>1, <1>3, <1>4, <1>6 DEF AgentInv, LineInv

LEMMA DispatchKeeps == ASSUME AgentInv, Dispatch PROVE LineInv' /\ StreamsInv'
<1>1. /\ disp = "idle" /\ inbound # <<>> /\ inbound' = Tail(inbound)
      /\ disp' = "idle" \/ current' = Head(inbound)
      /\ UNCHANGED <<loop, held, latest, stream, got, outbound, issued>>
  BY DEF Dispatch, StartCommand, loopVars, dispVars, serverVars
<1>2. /\ Rising(inbound') /\ Numbers(inbound') \subseteq Numbers(inbound)
      /\ One(Head(inbound)) \subseteq Numbers(inbound)
      /\ Before(One(Head(inbound)), Numbers(inbound'))
  BY <1>1, Numbered, RisingTail DEF AgentInv, LineInv
<1>3. Line'[4] \subseteq One(Head(inbound))
  BY <1>1, SlotsNext
<1>4. StreamsInv' /\ Line'[1] \subseteq Line[1]
  BY <1>1, Numbered, StreamsStay DEF AgentInv
<1>5. /\ \A q \in Places \ {4} : Line'[q] \subseteq Line[q]
      /\ Line'[4] \subseteq Line[4] \cup Line[5] /\ Before(Line'[4], Line'[5])
  BY <1>1, <1>2, <1>3, <1>4, Slots, SlotsNext DEF Places, Before
<1>6. InLine(Line') /\ UpTo(Line', issued)
  BY <1>5, Slides DEF AgentInv, LineInv, Places
<1>7. QED
  BY <1>1, <1>2, <1>4, <1>6 DEF AgentInv, LineInv

LEMMA SendResultKeeps == ASSUME AgentInv, SendResult PROVE LineInv' /\ StreamsInv'
<1>1. /\ disp = "sending" /\ disp' = "idle" /\ outbound' = Append(outbound, current)
      /\ UNCHANGED <<loop, held, latest, stream, got, inbound, issued>>
  BY DEF SendResult, loopVars, serverVars
<1>2. Before(Numbers(outbound), One(current))
  BY <1>1, Slots DEF AgentInv, LineInv, InLine, Places
<1>3. Rising(outbound') /\ Numbers(outbound') = Numbers(outbound) \cup One(current)
  BY <1>1, <1>2, Numbered, RisingAppend DEF AgentInv, LineInv
<1>4. StreamsInv' /\ Line'[1] \subseteq Line[1]
  BY <1>1, Numbered, StreamsStay DEF AgentInv
<1>5. /\ \A q \in Places \ {3} : Line'[q] \subseteq Line[q]
      /\ Line'[3] \subseteq Line[3] \cup Line[4] /\ Before(Line'[3], Line'[4])
  BY <1>1, <1>3, <1>4, Slots, SlotsNext DEF Places, Before
<1>6. InLine(Line') /\ UpTo(Line', issued)
  BY <1>5, Slides DEF AgentInv, LineInv, Places
<1>7. QED
  BY <1>1, <1>3, <1>4, <1>6 DEF AgentInv, LineInv

\* The steps that move none.
LEMMA OtherStepsKeep ==
  ASSUME AgentInv,
         \/ Connect \/ EndOfStream \/ Break \/ Heartbeat
         \/ ChildEnds \/ WaitFails \/ OrphanEnds \/ Drain \/ UNCHANGED vars
  PROVE  LineInv' /\ StreamsInv'
<1>. USE DEF Connect, EndOfStream, Break, Heartbeat, ChildEnds, WaitFails, OrphanEnds, Drain,
             Disconnect, vars, loopVars, dispVars, serverVars
<1>1. /\ UNCHANGED <<stream, got, inbound, issued>>
      /\ disp' = "idle" \/ (disp # "idle" /\ current' = current)
      /\ \/ loop' = loop /\ held' = held
         \/ loop' # "sending" /\ loop' # "delivering"
  OBVIOUS
<1>2. latest' = latest \/ latest' = latest + 1
  OBVIOUS
<1>3. outbound' = outbound \/ outbound' = Append(outbound, 0)
  OBVIOUS
<1>4. Rising(outbound') /\ Numbers(outbound') \subseteq Numbers(outbound)
  <2>1. Before(Numbers(outbound), One(0))
    BY EmptyRises DEF Before
  <2>2. CASE outbound' = Append(outbound, 0)
    <3>1. Rising(outbound') /\ Numbers(outbound') = Numbers(outbound) \cup One(0)
      BY <2>1, <2>2, Numbered, RisingAppend DEF AgentInv, LineInv
    <3>2. QED
      BY <3>1, EmptyRises
  <2>3. QED
    BY <1>3, <2>2 DEF AgentInv, LineInv
<1>5. StreamsInv' /\ Line'[1] \subseteq Line[1]
  BY <1>1, <1>2, Numbered, StreamsStay DEF AgentInv
<1>6. \A q \in Places : Line'[q] \subseteq Line[q]
  BY <1>1, <1>4, <1>5, Slots, SlotsNext DEF Places
<1>7. InLine(Line') /\ UpTo(Line', issued)
  BY <1>6, Loses DEF AgentInv, LineInv
<1>8. QED
  BY <1>1, <1>4, <1>5, <1>7 DEF AgentInv, LineInv

-----------------------------------------------------------------------------
\* The queues keep their bounds.
LEMMA Messages ==
  /\ 0 \in Message /\ InCap \in Nat /\ OutCap \in Nat /\ BufferCap \in Nat
  /\ \A n \in Message : n < MaxCommands => n + 1 \in Message
  /\ Commands = Message \ {0}
  /\ \A s \in Streams \cup {0} : s < MaxStreams => s + 1 \in Streams
BY AgentCapacities DEF Message, Commands, Streams

LEMMA LoopTypes ==
  ASSUME TypeOK, Connect \/ TakeFrame \/ SendFrame \/ Receive \/ Deliver \/ EndOfStream
  PROVE  TypeOK'
<1>. USE Messages
<1>1. CASE Connect
  BY <1>1 DEF TypeOK, Connect, dispVars, serverVars
<1>2. CASE TakeFrame
  <2>1. outbound' \in BoundedSeq(Message, OutCap) /\ held' \in Message
    BY <1>2, BoundedTail DEF TypeOK, TakeFrame
  <2>2. QED
    BY <1>2, <2>1 DEF TypeOK, TakeFrame, dispVars, serverVars
<1>3. CASE SendFrame
  <2>1. ASSUME BufferFrame, NEW s \in Streams
        PROVE  stream'[s] \in BoundedSeq(Message, BufferCap)
    <3>1. stream[s] \in BoundedSeq(Message, BufferCap) /\ held \in Message
      BY DEF TypeOK
    <3>2. CASE s = latest
      BY <2>1, <3>1, <3>2, BoundedAppend DEF TypeOK, BufferFrame
    <3>3. CASE s # latest
      BY <2>1, <3>1, <3>3 DEF TypeOK, BufferFrame
    <3>4. QED
      BY <3>2, <3>3
  <2>2. BufferFrame => stream' \in [Streams -> BoundedSeq(Message, BufferCap)]
    BY <2>1 DEF TypeOK, BufferFrame
  <2>3. QED
    BY <1>3, <2>2 DEF TypeOK, SendFrame, BufferFrame, Disconnect, dispVars, serverVars
<1>4. CASE Receive
  BY <1>4 DEF TypeOK, Receive, dispVars
<1>5. CASE Deliver
  <2>1. inbound' \in BoundedSeq(Message, InCap)
    BY <1>5, BoundedAppend DEF TypeOK, Deliver
  <2>2. QED
    BY <1>5, <2>1 DEF TypeOK, Deliver, dispVars, serverVars
<1>6. CASE EndOfStream
  BY <1>6 DEF TypeOK, EndOfStream, Disconnect, dispVars, serverVars
<1>7. QED
  BY <1>1, <1>2, <1>3, <1>4, <1>5, <1>6

LEMMA ServerTypes ==
  ASSUME TypeOK, NEW s \in Streams, ServerReads(s) \/ ServerStops(s)
  PROVE  TypeOK'
<1>. USE Messages
<1>1. stream[s] \in BoundedSeq(Message, BufferCap) /\ got[s] \subseteq Commands
  BY DEF TypeOK
<1>2. CASE ServerReads(s)
  <2>1. Tail(stream[s]) \in BoundedSeq(Message, BufferCap) /\ Head(stream[s]) \in Message
    BY <1>1, <1>2, BoundedTail DEF ServerReads
  <2>2. stream' \in [Streams -> BoundedSeq(Message, BufferCap)]
    BY <1>2, <2>1 DEF TypeOK, ServerReads
  <2>3. got' \in [Streams -> SUBSET Commands]
    <3>1. got[s] \cup ({Head(stream[s])} \ {0}) \in SUBSET Commands
      BY <1>1, <2>1
    <3>2. QED
      BY <1>2, <3>1 DEF TypeOK, ServerReads
  <2>4. QED
    BY <1>2, <2>2, <2>3 DEF TypeOK, ServerReads, loopVars, dispVars
<1>3. CASE ServerStops(s)
  <2>1. stream' \in [Streams -> BoundedSeq(Message, BufferCap)]
    BY <1>3, BoundedEmpty DEF TypeOK, ServerStops
  <2>2. QED
    BY <1>3, <2>1 DEF TypeOK, ServerStops, loopVars, dispVars, serverVars
<1>4. QED
  BY <1>2, <1>3

LEMMA DispatcherTypes ==
  ASSUME TypeOK, \/ Dispatch \/ ChildEnds \/ WaitFails \/ OrphanEnds \/ Drain \/ SendResult
                 \/ Heartbeat \/ Break \/ UNCHANGED vars
  PROVE  TypeOK'
<1>. USE Messages
<1>1. CASE Dispatch
  <2>1. inbound' \in BoundedSeq(Message, InCap) /\ Head(inbound) \in Message
    BY <1>1, BoundedTail DEF TypeOK, Dispatch
  <2>2. QED
    BY <1>1, <2>1 DEF TypeOK, Dispatch, StartCommand, loopVars, dispVars, serverVars
<1>2. CASE ChildEnds
  BY <1>2 DEF TypeOK, ChildEnds, loopVars, serverVars
<1>3. CASE WaitFails
  BY <1>3 DEF TypeOK, WaitFails, loopVars, serverVars
<1>4. CASE OrphanEnds
  BY <1>4 DEF TypeOK, OrphanEnds, loopVars, serverVars
<1>5. CASE Drain
  BY <1>5 DEF TypeOK, Drain, loopVars, serverVars
<1>6. CASE SendResult
  <2>1. outbound' \in BoundedSeq(Message, OutCap)
    BY <1>6, BoundedAppend DEF TypeOK, SendResult
  <2>2. answered' \subseteq Commands
    BY <1>6 DEF TypeOK, SendResult
  <2>3. QED
    BY <1>6, <2>1, <2>2 DEF TypeOK, SendResult, loopVars, serverVars
<1>7. CASE Heartbeat
  <2>1. outbound' \in BoundedSeq(Message, OutCap)
    BY <1>7, BoundedAppend DEF TypeOK, Heartbeat
  <2>2. QED
    BY <1>7, <2>1 DEF TypeOK, Heartbeat, loopVars, dispVars, serverVars
<1>8. CASE Break
  BY <1>8 DEF TypeOK, Break, dispVars, serverVars
<1>9. CASE UNCHANGED vars
  BY <1>9 DEF TypeOK, vars, loopVars, dispVars, serverVars
<1>10. QED
  BY <1>1, <1>2, <1>3, <1>4, <1>5, <1>6, <1>7, <1>8, <1>9

-----------------------------------------------------------------------------
\* The line read from the end of one stream, frame by frame.
LEMMA LineIsRead == ASSUME AgentInv PROVE ResultsInOrder
<1>1. /\ outbound \in Seq(Nat) /\ held \in Nat /\ Rising(outbound) /\ InLine(Line)
  BY Numbered DEF AgentInv, LineInv
<1>2. Sending \in Seq(Nat) /\ Rising(Sending) /\ Numbers(Sending) = Line[2]
  <2>1. CASE loop = "sending"
    BY <1>1, <2>1, Slots DEF Sending, Rising, Numbers, One
  <2>2. CASE loop # "sending"
    BY <2>2, EmptyRises, Slots DEF Sending
  <2>3. QED
    BY <2>1, <2>2
<1>3. Before(Line[1], Line[2]) /\ Before(Line[1], Line[3]) /\ Before(Line[2], Line[3])
  BY <1>1 DEF InLine, Places
<1>4. ASSUME NEW s \in Streams
      PROVE  LET ahead == stream[s] \o Sending \o outbound IN
             /\ Rising(ahead)
             /\ \A n \in got[s], i \in DOMAIN ahead : ahead[i] # 0 => n < ahead[i]
  <2>. DEFINE near == stream[s] \o Sending
              ahead == near \o outbound
  <2>1. /\ stream[s] \in Seq(Nat) /\ Rising(stream[s]) /\ Before(got[s], Numbers(stream[s]))
        /\ got[s] \subseteq Line[1] /\ Numbers(stream[s]) \subseteq Line[1]
    BY Numbered, SentIs, Slots DEF AgentInv, StreamsInv
  <2>2. Numbers(outbound) = Line[3]
    BY Slots
  <2>3. /\ near \in Seq(Nat) /\ Rising(near)
        /\ Numbers(near) = Numbers(stream[s]) \cup Numbers(Sending)
    <3>1. Before(Numbers(stream[s]), Numbers(Sending))
      BY <1>2, <1>3, <2>1 DEF Before
    <3>2. QED
      BY <1>2, <2>1, <3>1, RisingConcat
  <2>. HIDE DEF near
  <2>4. Rising(ahead) /\ Numbers(ahead) = Numbers(near) \cup Numbers(outbound)
    <3>1. Before(Numbers(near), Numbers(outbound))
      BY <1>2, <1>3, <2>1, <2>2, <2>3 DEF Before
    <3>2. QED
      BY <1>1, <2>3, <3>1, RisingConcat
  <2>. HIDE DEF ahead
  <2>5. ASSUME NEW n \in got[s], NEW i \in DOMAIN ahead, ahead[i] # 0 PROVE n < ahead[i]
    <3>1. ahead[i] \in Numbers(stream[s]) \cup Line[2] \cup Line[3]
      BY <1>2, <2>2, <2>3, <2>4, <2>5 DEF Numbers
    <3>2. QED
      BY <1>3, <2>1, <3>1 DEF Before
  <2>6. ahead = stream[s] \o Sending \o outbound
    BY DEF ahead, near
  <2>7. QED
    BY <2>4, <2>5, <2>6
<1>5. ASSUME NEW s \in Streams, NEW t \in 1..(s - 1), NEW m \in Sent(t), NEW n \in Sent(s)
      PROVE  m < n
  <2>1. t \in Streams /\ t < s
    BY AgentCapacities DEF Streams
  <2>2. QED
    BY <1>5, <2>1 DEF AgentInv, StreamsInv, Before
<1>6. QED
  BY <1>4, <1>5 DEF Rising, ResultsInOrder

-----------------------------------------------------------------------------
LEMMA AgentStarts == ASSUME Init PROVE AgentInv
<1>1. TypeOK
  <2>1. <<>> \in BoundedSeq(Message, BufferCap)
    BY Messages, BoundedEmpty
  <2>2. QED
    BY <2>1, Messages, BoundedEmpty DEF Init, TypeOK
<1>2. \A s \in Streams : /\ Sent(s) = {} /\ Rising(stream[s])
                         /\ Before(got[s], Numbers(stream[s]))
  BY EmptyRises, SentIs DEF Init, Before
<1>3. \A p \in Places : Line[p] = {}
  BY <1>2, EmptyRises, Slots DEF Init, Places
<1>4. LineInv
  BY <1>3, EmptyRises DEF Init, LineInv, InLine, UpTo, Before
<1>5. StreamsInv
  BY <1>2 DEF StreamsInv, Before
<1>6. QED
  BY <1>1, <1>4, <1>5 DEF AgentInv

LEMMA AgentSteps == ASSUME AgentInv, [Next]_vars PROVE AgentInv'
<1>1. TypeOK'
  BY LoopTypes, ServerTypes, DispatcherTypes DEF AgentInv, Next
<1>2. LineInv' /\ StreamsInv'
  BY TakeFrameKeeps, SendFrameKeeps, ReceiveKeeps, DeliverKeeps, ServerStepKeeps,
     DispatchKeeps, SendResultKeeps, OtherStepsKeep DEF Next
<1>3. QED
  BY <1>1, <1>2 DEF AgentInv

\* The line of commands and results (stream.rs, commands.rs) and the order of
\* the streams (grpc.rs): what is further on its way to the service is older,
\* whatever is lost with a connection and however late an old stream is read.
THEOREM AgentInvariant == Spec => []AgentInv
<1>1. Init => AgentInv
  BY AgentStarts
<1>2. AgentInv /\ [Next]_vars => AgentInv'
  BY AgentSteps
<1>3. QED
  BY <1>1, <1>2, PTL DEF Spec

\* runtime.rs: no queue of the agent holds more than it was made for.
THEOREM AgentTypes == Spec => []TypeOK
<1>1. AgentInv => TypeOK
  BY DEF AgentInv
<1>2. QED
  BY <1>1, AgentInvariant, PTL

\* Each stream brings the service its results in the order of the commands, a
\* later stream later ones, and none comes twice, although the tasks of old
\* streams go on reading after the agent has reconnected.
THEOREM ResultsStayInOrder == Spec => []ResultsInOrder
<1>1. AgentInv => ResultsInOrder
  BY LineIsRead
<1>2. QED
  BY <1>1, AgentInvariant, PTL
=============================================================================
