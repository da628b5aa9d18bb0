---------------------------- MODULE Realtime_proofs ----------------------------
(***************************************************************************)
(* Proofs about the event pipeline: what the outbox and the consumer group *)
(* keep, that no queue outgrows its capacity, and that clients are sent    *)
(* the stream in order, for any number of relays, rows, entries and        *)
(* connections and any capacities.                                         *)
(***************************************************************************)
EXTENDS Realtime, FiniteSetTheorems, OrderedSequences

Published(i) == \E e \in DOMAIN entries : entries[e] = i

\* What a relay has claimed is in the stream, but for what it still has to publish.
OutboxInv ==
  /\ shipped \in Seq(BOOLEAN) /\ entries \in Seq(Nat)
  /\ claimed \in [Relays -> SUBSET Nat] /\ todo \in [Relays -> SUBSET Nat]
  /\ \A r \in Relays : \A i \in claimed[r] \ todo[r] : Published(i)
  /\ \A i \in DOMAIN shipped : shipped[i] => Published(i)

\* What is about to be acknowledged was fanned out, and without a group there is
\* nothing on the way.
GroupInv ==
  /\ group \in {None} \cup [start : Nat, last : Nat, pending : SUBSET Nat]
  /\ holding # 0 => holding \in offered
  /\ group = None => batch = <<>> /\ channel = <<>> /\ holding = 0
  /\ SettledWasOffered

PipelineInv == OutboxInv /\ GroupInv

-----------------------------------------------------------------------------
\* The statements of the outbox.
LEMMA EnqueueKeeps == ASSUME OutboxInv, Enqueue PROVE OutboxInv'
<1>1. shipped' = Append(shipped, FALSE) /\ UNCHANGED <<claimed, todo, entries>>
  BY DEF Enqueue
<1>2. shipped' \in Seq(BOOLEAN)
  BY <1>1 DEF OutboxInv
<1>3. ASSUME NEW i \in DOMAIN shipped', shipped'[i] PROVE i \in DOMAIN shipped /\ shipped[i]
  BY <1>1, <1>3 DEF OutboxInv
<1>4. QED
  BY <1>1, <1>2, <1>3 DEF OutboxInv, Published

LEMMA ClaimBatchKeeps == ASSUME OutboxInv, NEW r \in Relays, ClaimBatch(r) PROVE OutboxInv'
<1>1. PICK rows \in SUBSET Unshipped : Take(r, rows) /\ UNCHANGED <<shipped, entries, group>>
  BY DEF ClaimBatch
<1>2. rows \in SUBSET Nat
  BY DEF Unshipped, OutboxInv
<1>3. /\ claimed' \in [Relays -> SUBSET Nat] /\ todo' \in [Relays -> SUBSET Nat]
      /\ \A s \in Relays : claimed'[s] \ todo'[s] \subseteq claimed[s] \ todo[s]
  BY <1>1, <1>2 DEF Take, OutboxInv
<1>4. QED
  BY <1>1, <1>3 DEF OutboxInv, Published

LEMMA PublishKeeps == ASSUME OutboxInv, NEW r \in Relays, Publish(r) PROVE OutboxInv'
<1>1. PICK i \in todo[r] : /\ entries' = Append(entries, i)
                           /\ todo' = [todo EXCEPT ![r] = @ \ {i}]
                           /\ UNCHANGED <<shipped, claimed, group>>
  BY DEF Publish
<1>2. i \in Nat /\ entries \in Seq(Nat)
  BY DEF OutboxInv
<1>3. entries' \in Seq(Nat)
  BY <1>1, <1>2
<1>4. \A n \in DOMAIN entries : n \in DOMAIN entries' /\ entries'[n] = entries[n]
  BY <1>1, <1>2
<1>5. \E n \in DOMAIN entries' : entries'[n] = i
  <2>1. Len(entries) + 1 \in DOMAIN entries' /\ entries'[Len(entries) + 1] = i
    BY <1>1, <1>2
  <2>2. QED
    BY <2>1
<1>6. \A n : Published(n) \/ n = i => Published(n)'
  BY <1>4, <1>5 DEF Published
<1>7. todo' \in [Relays -> SUBSET Nat]
  BY <1>1 DEF OutboxInv
<1>8. ASSUME NEW s \in Relays, NEW n \in claimed'[s] \ todo'[s] PROVE Published(n)'
  BY <1>1, <1>6, <1>8 DEF OutboxInv
<1>9. QED
  BY <1>1, <1>3, <1>6, <1>7, <1>8 DEF OutboxInv

LEMMA MarkShippedKeeps ==
  ASSUME OutboxInv, NEW r \in Relays, MarkShipped(r) PROVE OutboxInv'
<1>1. /\ todo[r] = {} /\ UNCHANGED <<todo, entries>>
      /\ shipped' = [i \in DOMAIN shipped |-> shipped[i] \/ i \in claimed[r]]
      /\ claimed' = [claimed EXCEPT ![r] = {}]
  BY DEF MarkShipped
<1>2. shipped' \in Seq(BOOLEAN)
  <2>1. /\ DOMAIN shipped = 1..Len(shipped) /\ Len(shipped) \in Nat
        /\ \A i \in DOMAIN shipped : shipped[i] \in BOOLEAN
    BY DEF OutboxInv
  <2>2. shipped' \in [1..Len(shipped) -> BOOLEAN]
    BY <1>1, <2>1
  <2>3. QED
    BY <2>1, <2>2
<1>3. /\ claimed' \in [Relays -> SUBSET Nat]
      /\ \A s \in Relays : claimed'[s] \subseteq claimed[s]
  BY <1>1 DEF OutboxInv
<1>4. \A i \in claimed[r] : Published(i)
  BY <1>1 DEF OutboxInv
<1>5. ASSUME NEW i \in DOMAIN shipped', shipped'[i] PROVE Published(i)
  BY <1>1, <1>4, <1>5 DEF OutboxInv
<1>6. QED
  BY <1>1, <1>2, <1>3, <1>5 DEF OutboxInv, Published

LEMMA RelayStopsKeeps ==
  ASSUME OutboxInv, NEW r \in Relays, RelayStops(r) PROVE OutboxInv'
<1>1. /\ claimed' \in [Relays -> SUBSET Nat] /\ todo' \in [Relays -> SUBSET Nat]
      /\ \A s \in Relays : claimed'[s] \ todo'[s] \subseteq claimed[s] \ todo[s]
      /\ UNCHANGED <<shipped, entries>>
  BY DEF RelayStops, Take, OutboxInv
<1>2. QED
  BY <1>1 DEF OutboxInv, Published

\* Nothing but a relay or a transaction touches the outbox or the stream.
LEMMA OutboxStep == ASSUME OutboxInv, [Next]_vars PROVE OutboxInv'
<1>1. CASE LogStep
  BY <1>1, EnqueueKeeps, ClaimBatchKeeps, PublishKeeps, MarkShippedKeeps, RelayStopsKeeps
     DEF LogStep
<1>2. CASE ~LogStep
  <2>1. UNCHANGED <<shipped, claimed, todo, entries>>
    BY <1>2 DEF Next, vars, logVars, outboxVars, Subscribe, ReadGroup, Forward, Pump,
                FanOut, Ack, Restart, IssueTicket, ExpireTicket, WsUpgrade, Register,
                ClientCmd, Write, WriterFails, Leave, Unregister
  <2>2. QED
    BY <2>1 DEF OutboxInv, Published
<1>3. QED
  BY <1>1, <1>2

-----------------------------------------------------------------------------
\* The consumer group.
LEMMA SubscribeKeeps == ASSUME OutboxInv, GroupInv, Subscribe PROVE GroupInv'
<1>1. UNCHANGED <<batch, channel, holding, offered>>
  BY DEF Subscribe
<1>2. CASE UNCHANGED group
  BY <1>1, <1>2 DEF GroupInv, SettledWasOffered
<1>3. CASE group = None /\ CreateGroup
  <2>1. Len(entries) \in Nat
    BY DEF OutboxInv
  <2>2. group' = [start |-> Len(entries), last |-> Len(entries), pending |-> {}]
    BY <1>3 DEF CreateGroup
  <2>3. (group'.start + 1)..group'.last = {}
    BY <2>1, <2>2
  <2>4. group' \in [start : Nat, last : Nat, pending : SUBSET Nat] /\ group' # None
    BY <2>1, <2>2, NoneIsNoGroup
  <2>5. QED
    BY <1>1, <2>3, <2>4 DEF GroupInv, SettledWasOffered
<1>4. QED
  BY <1>2, <1>3 DEF Subscribe, CreateGroup

LEMMA ReadGroupKeeps == ASSUME OutboxInv, GroupInv, ReadGroup PROVE GroupInv'
<1>0. PICK n \in Nat : n = Len(entries)
  BY DEF OutboxInv
<1>1. /\ group # None /\ NextEntries # {} /\ Give(NextEntries)
      /\ UNCHANGED <<holding, offered>>
  BY DEF ReadGroup
<1>2. group \in [start : Nat, last : Nat, pending : SUBSET Nat]
  BY <1>1 DEF GroupInv
<1>3. PICK b \in Nat : NextEntries = (group.last + 1)..b /\ group.last < b
  <2>1. ReadCount \in Nat
    BY Limits
  <2>2. QED
    BY <1>0, <1>1, <1>2, <2>1 DEF NextEntries
<1>4. group.last + Cardinality(NextEntries) = b
  BY <1>2, <1>3, FS_Interval
<1>5. group' = [start |-> group.start, last |-> b, pending |-> group.pending \cup NextEntries]
  <2>1. group' = [group EXCEPT !.last = b, !.pending = group.pending \cup NextEntries]
    BY <1>1, <1>4 DEF Give
  <2>2. QED
    BY <1>2, <2>1
<1>6. NextEntries \in SUBSET Nat
  BY <1>2, <1>3
<1>7. ASSUME NEW e \in (group'.start + 1)..group'.last
      PROVE  e \in group'.pending \cup offered'
  <2>1. e \in NextEntries \/ e \in (group.start + 1)..group.last
    BY <1>2, <1>3, <1>5
  <2>2. QED
    BY <1>1, <1>5, <2>1 DEF GroupInv, SettledWasOffered
<1>8. QED
  <2>1. group' \in [start : Nat, last : Nat, pending : SUBSET Nat] /\ group' # None
    BY <1>2, <1>3, <1>5, <1>6, NoneIsNoGroup
  <2>2. QED
    BY <1>1, <1>7, <2>1 DEF GroupInv, SettledWasOffered

LEMMA AckKeeps == ASSUME OutboxInv, GroupInv, Ack PROVE GroupInv'
<1>1. /\ holding # 0 /\ holding' = 0 /\ UNCHANGED <<batch, channel, offered>>
      /\ holding \in offered /\ group # None
  BY DEF Ack, GroupInv
<1>2. CASE UNCHANGED group
  BY <1>1, <1>2 DEF GroupInv, SettledWasOffered
<1>3. CASE AckEntry(holding)
  <2>1. group \in [start : Nat, last : Nat, pending : SUBSET Nat]
    BY <1>1 DEF GroupInv
  <2>2. group' = [start |-> group.start, last |-> group.last,
                  pending |-> group.pending \ {holding}]
    BY <1>3, <2>1 DEF AckEntry
  <2>3. group' \in [start : Nat, last : Nat, pending : SUBSET Nat] /\ group' # None
    BY <2>1, <2>2, NoneIsNoGroup
  <2>4. QED
    BY <1>1, <2>1, <2>2, <2>3 DEF GroupInv, SettledWasOffered
<1>4. QED
  BY <1>1, <1>2, <1>3 DEF Ack

LEMMA GroupStep == ASSUME OutboxInv, GroupInv, [Next]_vars PROVE GroupInv'
<1>1. CASE Subscribe
  BY <1>1, SubscribeKeeps
<1>2. CASE ReadGroup
  BY <1>2, ReadGroupKeeps
<1>3. CASE Ack
  BY <1>3, AckKeeps
<1>4. CASE ~Subscribe /\ ~ReadGroup /\ ~Ack
  <2>1. /\ UNCHANGED group /\ offered \subseteq offered'
        /\ holding' = holding \/ holding' = 0 \/ holding' \in offered'
        /\ group = None => batch' = <<>> /\ channel' = <<>> /\ holding' = 0
    BY <1>4 DEF GroupInv, Next, vars, logVars, outboxVars, pumpVars, hubVars, LogStep, Enqueue,
                ClaimBatch, Publish, MarkShipped, RelayStops, Forward, Pump, FanOut,
                Restart, IssueTicket, ExpireTicket, WsUpgrade, Register, ClientCmd,
                Write, WriterFails, Leave, Unregister
  <2>2. QED
    BY <2>1 DEF GroupInv, SettledWasOffered
<1>5. QED
  BY <1>1, <1>2, <1>3, <1>4

-----------------------------------------------------------------------------
LEMMA InitPipelineInv == Init => PipelineInv
BY DEF Init, LogInit, PipelineInv, OutboxInv, GroupInv, SettledWasOffered

\* The inductive invariant of the pipeline.
THEOREM PipelineInvariant == Spec => []PipelineInv
<1>1. PipelineInv /\ [Next]_vars => PipelineInv'
  BY OutboxStep, GroupStep DEF PipelineInv
<1>2. QED
  BY <1>1, InitPipelineInv, PTL DEF Spec

\* A row that counts as shipped is in the stream, wherever relays stop.
THEOREM OnlyPublishedIsShipped == Spec => []ShippedWasPublished
<1>1. PipelineInv => ShippedWasPublished
  BY DEF PipelineInv, OutboxInv, Published, ShippedWasPublished
<1>2. QED
  BY <1>1, PipelineInvariant, PTL

\* An entry the group was given is pending or was fanned out, over every crash.
THEOREM OnlyOfferedIsSettled == Spec => []SettledWasOffered
<1>1. PipelineInv => SettledWasOffered
  BY DEF PipelineInv, GroupInv
<1>2. QED
  BY <1>1, PipelineInvariant, PTL

-----------------------------------------------------------------------------
\* The capacities.
LEMMA Bounds ==
  /\ ReadCount \in Nat \ {0} /\ MaxRows \in Nat /\ MaxEntries \in Nat
  /\ ChannelCap \in Nat /\ SendCap \in Nat
BY Limits, Capacities

\* What the types say of the rows and of the queues.
LEMMA RowsBounded ==
  ASSUME TypeOK
  PROVE  /\ shipped \in Seq(BOOLEAN) /\ Len(shipped) <= MaxRows
         /\ entries \in Seq(1..MaxRows) /\ Len(entries) <= MaxEntries
BY Bounds, Bounded DEF TypeOK, LogTypeOK

LEMMA EnqueueTypes == ASSUME TypeOK, Enqueue PROVE LogTypeOK'
<1>1. shipped' \in BoundedSeq(BOOLEAN, MaxRows)
  BY Bounds, BoundedAppend DEF Enqueue, TypeOK, LogTypeOK
<1>2. QED
  BY <1>1 DEF Enqueue, TypeOK, LogTypeOK

LEMMA TakeTypes ==
  ASSUME TypeOK, NEW r \in Relays, NEW rows \in SUBSET (1..MaxRows), Take(r, rows),
         UNCHANGED <<shipped, entries, group>>
  PROVE  LogTypeOK'
BY DEF Take, TypeOK, LogTypeOK

LEMMA PublishTypes == ASSUME TypeOK, NEW r \in Relays, Publish(r) PROVE LogTypeOK'
<1>1. PICK i \in todo[r] : /\ entries' = Append(entries, i)
                           /\ todo' = [todo EXCEPT ![r] = @ \ {i}]
                           /\ UNCHANGED <<shipped, claimed, group>>
  BY DEF Publish
<1>2. i \in 1..MaxRows /\ Len(entries) < MaxEntries
  BY DEF Publish, TypeOK, LogTypeOK
<1>3. entries' \in BoundedSeq(1..MaxRows, MaxEntries)
  BY <1>1, <1>2, Bounds, BoundedAppend DEF TypeOK, LogTypeOK
<1>4. QED
  BY <1>1, <1>3 DEF TypeOK, LogTypeOK

LEMMA MarkShippedTypes ==
  ASSUME TypeOK, PipelineInv, NEW r \in Relays, MarkShipped(r) PROVE LogTypeOK'
<1>1. shipped' \in Seq(BOOLEAN)
  BY MarkShippedKeeps DEF PipelineInv, OutboxInv
<1>2. DOMAIN shipped' = DOMAIN shipped
  BY DEF MarkShipped
<1>3. Len(shipped') <= MaxRows
  BY <1>1, <1>2, RowsBounded
<1>4. shipped' \in BoundedSeq(BOOLEAN, MaxRows)
  BY <1>1, <1>3, Bounds, Bounded
<1>5. QED
  BY <1>4 DEF MarkShipped, TypeOK, LogTypeOK

LEMMA LogTypes == ASSUME TypeOK, PipelineInv, LogStep PROVE TypeOK'
<1>1. UNCHANGED <<pumpVars, hubVars>>
  BY DEF LogStep
<1>2. LogTypeOK'
  <2>1. ASSUME NEW r \in Relays, ClaimBatch(r) PROVE LogTypeOK'
    <3>1. Unshipped \subseteq 1..MaxRows
      BY RowsBounded, Bounds DEF Unshipped
    <3>2. PICK rows \in SUBSET Unshipped :
            Take(r, rows) /\ UNCHANGED <<shipped, entries, group>>
      BY <2>1 DEF ClaimBatch
    <3>3. QED
      BY <3>1, <3>2, TakeTypes
  <2>2. ASSUME NEW r \in Relays, RelayStops(r) PROVE LogTypeOK'
    BY <2>2, TakeTypes DEF RelayStops
  <2>3. QED
    BY <2>1, <2>2, EnqueueTypes, PublishTypes, MarkShippedTypes DEF LogStep
<1>3. QED
  BY <1>1, <1>2 DEF TypeOK, pumpVars, hubVars

-----------------------------------------------------------------------------
\* What the server hands out.
LEMMA Handed ==
  ASSUME TypeOK, PipelineInv, group # None, NextEntries # {}
  PROVE  \E n \in 1..ReadCount :
           /\ Cardinality(NextEntries) = n /\ NextEntries = (group.last + 1)..(group.last + n)
           /\ group.last \in Nat /\ group.last + n <= MaxEntries
<1>1. group.last \in Nat /\ Len(entries) \in Nat /\ Len(entries) <= MaxEntries
  BY RowsBounded DEF PipelineInv, GroupInv
<1>2. PICK b \in Nat : /\ NextEntries = (group.last + 1)..b /\ group.last < b
                       /\ b <= Len(entries) /\ b <= group.last + ReadCount
  BY <1>1, Bounds DEF NextEntries
<1>3. PICK n \in Nat : n = b - group.last
  BY <1>1, <1>2
<1>4. n \in 1..ReadCount /\ group.last + n = b
  BY <1>1, <1>2, <1>3, Bounds
<1>5. Cardinality(NextEntries) = n
  <2>1. group.last + 1 \in Int /\ b \in Int /\ ~(group.last + 1 > b)
    BY <1>1, <1>2
  <2>2. Cardinality((group.last + 1)..b) = b - (group.last + 1) + 1
    BY <2>1, FS_Interval
  <2>3. QED
    BY <1>1, <1>2, <1>3, <2>2
<1>6. b <= MaxEntries
  BY <1>1, <1>2, Bounds
<1>7. QED
  BY <1>1, <1>2, <1>4, <1>5, <1>6

\* A reply continues where the group was.
LEMMA ReplyContinues ==
  ASSUME TypeOK, PipelineInv, group # None, NextEntries # {}
  PROVE  /\ Reply \in BoundedSeq(1..MaxEntries, ReadCount) /\ Reply \in Seq(Nat)
         /\ Rising(Reply)
         /\ \A x \in Numbers(Reply) :
              x \in Nat /\ group.last < x /\ x <= group.last + Cardinality(NextEntries)
<1>1. PICK n \in 1..ReadCount :
        /\ Cardinality(NextEntries) = n
        /\ group.last \in Nat /\ group.last + n <= MaxEntries
  BY Handed
<1>2. PICK g \in Nat : g = group.last
  BY <1>1
<1>3. Reply = [i \in 1..n |-> g + i] /\ n \in Nat /\ n <= ReadCount /\ g + n <= MaxEntries
  BY <1>1, <1>2, Bounds DEF Reply
<1>4. \A i \in 1..n : g + i \in 1..MaxEntries /\ g + i \in Nat /\ g < g + i /\ g + i <= g + n
  BY <1>3, Bounds
<1>5. Reply \in Seq(1..MaxEntries) /\ Reply \in Seq(Nat) /\ Len(Reply) = n
  BY <1>3, <1>4
<1>6. Reply \in BoundedSeq(1..MaxEntries, ReadCount)
  BY <1>3, <1>5, Bounds, Bounded
<1>7. Rising(Reply)
  BY <1>3 DEF Rising
<1>8. \A x \in Numbers(Reply) : x \in Nat /\ g < x /\ x <= g + n
  BY <1>3, <1>4 DEF Numbers
<1>9. QED
  BY <1>1, <1>2, <1>5, <1>6, <1>7, <1>8

LEMMA SubscribeTypes == ASSUME TypeOK, PipelineInv, Subscribe PROVE TypeOK'
<1>1. Len(entries) \in 0..MaxEntries
  BY RowsBounded, Bounds
<1>2. group' \in Group \cup {None}
  BY <1>1 DEF Subscribe, CreateGroup, TypeOK, LogTypeOK, Group
<1>3. QED
  BY <1>2 DEF Subscribe, TypeOK, LogTypeOK, outboxVars, hubVars

LEMMA ReadGroupTypes == ASSUME TypeOK, PipelineInv, ReadGroup PROVE TypeOK'
<1>1. PICK n \in 1..ReadCount :
        /\ Cardinality(NextEntries) = n /\ NextEntries = (group.last + 1)..(group.last + n)
        /\ group.last \in Nat /\ group.last + n <= MaxEntries
  BY Handed DEF ReadGroup
<1>2. group \in Group /\ Give(NextEntries)
  BY DEF ReadGroup, TypeOK, LogTypeOK
<1>3. group.last + n \in 0..MaxEntries /\ NextEntries \subseteq 1..MaxEntries
  BY <1>1, Bounds
<1>4. group' \in Group
  BY <1>1, <1>2, <1>3 DEF Give, Group
<1>5. batch' \in BoundedSeq(1..MaxEntries, ReadCount)
  BY ReplyContinues, BoundedEmpty, Bounds DEF ReadGroup
<1>6. QED
  BY <1>4, <1>5 DEF ReadGroup, TypeOK, LogTypeOK, outboxVars, hubVars

LEMMA ForwardTypes == ASSUME TypeOK, Forward PROVE TypeOK'
<1>1. Head(batch) \in 1..MaxEntries /\ batch' \in BoundedSeq(1..MaxEntries, ReadCount)
  BY BoundedTail, Bounds DEF Forward, TypeOK
<1>2. channel' \in BoundedSeq(1..MaxEntries, ChannelCap)
  <2>1. channel \in BoundedSeq(1..MaxEntries, ChannelCap) /\ ChannelCap \in Nat
    BY Bounds DEF TypeOK
  <2>2. \/ channel' = channel
        \/ Len(channel) < ChannelCap /\ channel' = Append(channel, Head(batch))
    BY DEF Forward
  <2>3. QED
    BY <1>1, <2>1, <2>2, BoundedAppend
<1>3. QED
  BY <1>1, <1>2 DEF Forward, TypeOK, LogTypeOK, logVars, outboxVars, hubVars

LEMMA AckTypes == ASSUME TypeOK, PipelineInv, Ack PROVE TypeOK'
<1>1. group' \in Group \cup {None}
  <2>1. CASE UNCHANGED group
    BY <2>1 DEF TypeOK, LogTypeOK
  <2>2. CASE AckEntry(holding)
    BY <2>2 DEF Ack, PipelineInv, GroupInv, AckEntry, TypeOK, LogTypeOK, Group
  <2>3. QED
    BY <2>1, <2>2 DEF Ack
<1>2. QED
  BY <1>1, Bounds DEF Ack, TypeOK, LogTypeOK, outboxVars, hubVars

-----------------------------------------------------------------------------
\* The connections: what becomes of a slot.
Frames(q) == One(q.last) \cup Numbers(q.queue)
InOrder(q) == Rising(q.queue) /\ Before(One(q.last), Numbers(q.queue))

LEMMA ConnFields ==
  ASSUME NEW q \in Conn
  PROVE  /\ q.queue \in BoundedSeq(1..MaxEntries, SendCap) /\ q.queue \in Seq(Nat)
         /\ q.last \in 0..MaxEntries /\ q.last \in Nat
<1>1. q.queue \in BoundedSeq(1..MaxEntries, SendCap) /\ q.last \in 0..MaxEntries
  BY DEF Conn
<1>2. q.queue \in Seq(1..MaxEntries) /\ 1..MaxEntries \subseteq Nat
  BY <1>1, Bounds, Bounded
<1>3. q.queue \in Seq(Nat)
  BY <1>2, SeqMonotonic
<1>4. QED
  BY <1>1, <1>3, Bounds

LEMMA StageSet ==
  ASSUME NEW q \in Conn, NEW stage \in {"off", "upgrading", "open", "closing"}, NEW p,
         \/ p = [q EXCEPT !.stage = stage]
         \/ p = [q EXCEPT !.stage = stage, !.writer = TRUE]
  PROVE  p \in Conn /\ p.queue = q.queue /\ p.last = q.last
BY DEF Conn

LEMMA OffSlot ==
  ASSUME NEW last \in 0..MaxEntries
  PROVE  /\ Off(last) \in Conn /\ Off(last).queue = <<>> /\ Off(last).last = last
<1>1. <<>> \in BoundedSeq(1..MaxEntries, SendCap)
  BY BoundedEmpty, Bounds
<1>2. QED
  BY <1>1 DEF Off, Conn

\* Connections only lose frames, and stay in order.
ConnsKept ==
  /\ conn' \in [Conns -> Conn]
  /\ \A c \in Conns : InOrder(conn'[c]) /\ Frames(conn'[c]) \subseteq Frames(conn[c])

AllInOrder == \A c \in Conns : InOrder(conn[c])

LEMMA OneSlot ==
  ASSUME TypeOK, AllInOrder, NEW c \in Conns, NEW p \in Conn, InOrder(p),
         Frames(p) \subseteq Frames(conn[c]), conn' = [conn EXCEPT ![c] = p]
  PROVE  ConnsKept
<1>1. /\ conn' \in [Conns -> Conn] /\ conn'[c] = p
      /\ \A d \in Conns \ {c} : conn'[d] = conn[d]
  BY DEF TypeOK
<1>2. QED
  BY <1>1 DEF ConnsKept, AllInOrder

\* A slot with the frames it had, or with what its client was sent only.
LEMMA SameFrames ==
  ASSUME NEW q \in Conn, InOrder(q), NEW p,
         p.last = q.last, p.queue = q.queue \/ p.queue = <<>>
  PROVE  InOrder(p) /\ Frames(p) \subseteq Frames(q)
BY EmptyRises DEF InOrder, Frames, Before

LEMMA StageKeeps ==
  ASSUME TypeOK, AllInOrder, NEW c \in Conns, WsUpgrade(c) \/ Register(c) PROVE ConnsKept
<1>1. PICK q \in Conn : q = conn[c] /\ InOrder(q)
  BY DEF TypeOK, AllInOrder
<1>2. PICK p : /\ p \in {[q EXCEPT !.stage = "upgrading"],
                         [q EXCEPT !.stage = "open", !.writer = TRUE]}
               /\ conn' = [conn EXCEPT ![c] = p]
  BY <1>1 DEF WsUpgrade, Register, TypeOK
<1>3. p \in Conn /\ p.queue = q.queue /\ p.last = q.last
  BY <1>2, StageSet
<1>4. QED
  BY <1>1, <1>2, <1>3, SameFrames, OneSlot

LEMMA WriteKeeps ==
  ASSUME TypeOK, AllInOrder, NEW c \in Conns, Write(c) PROVE ConnsKept
<1>1. PICK q \in Conn : q = conn[c] /\ InOrder(q) /\ q.queue # <<>>
  BY DEF TypeOK, AllInOrder, Write
<1>2. PICK p : /\ p = [q EXCEPT !.queue = Tail(q.queue), !.last = Head(q.queue)]
               /\ conn' = [conn EXCEPT ![c] = p]
  BY <1>1 DEF Write, TypeOK
<1>3. /\ Tail(q.queue) \in BoundedSeq(1..MaxEntries, SendCap)
      /\ Head(q.queue) \in 0..MaxEntries
  BY <1>1, ConnFields, BoundedTail, Bounds
<1>4. p \in Conn /\ p.queue = Tail(q.queue) /\ p.last = Head(q.queue)
  BY <1>2, <1>3 DEF Conn
<1>5. /\ Rising(p.queue) /\ Numbers(p.queue) \subseteq Numbers(q.queue)
      /\ One(p.last) \subseteq Numbers(q.queue) /\ Before(One(p.last), Numbers(p.queue))
  BY <1>1, <1>4, ConnFields, RisingTail DEF InOrder
<1>6. InOrder(p) /\ Frames(p) \subseteq Frames(q)
  BY <1>5 DEF InOrder, Frames
<1>7. QED
  BY <1>1, <1>2, <1>4, <1>6, OneSlot

LEMMA WriterFailsKeeps ==
  ASSUME TypeOK, AllInOrder, NEW c \in Conns, WriterFails(c) PROVE ConnsKept
<1>1. PICK q \in Conn : q = conn[c] /\ InOrder(q)
  BY DEF TypeOK, AllInOrder
<1>2. PICK p : /\ p = [q EXCEPT !.writer = FALSE, !.queue = <<>>]
               /\ conn' = [conn EXCEPT ![c] = p]
  BY <1>1 DEF WriterFails, TypeOK
<1>3. p \in Conn /\ p.queue = <<>> /\ p.last = q.last
  <2>1. <<>> \in BoundedSeq(1..MaxEntries, SendCap)
    BY BoundedEmpty, Bounds
  <2>2. QED
    BY <1>2, <2>1 DEF Conn
<1>4. QED
  BY <1>1, <1>2, <1>3, SameFrames, OneSlot

LEMMA LeaveKeeps ==
  ASSUME TypeOK, AllInOrder, NEW c \in Conns, Leave(c) \/ Unregister(c) PROVE ConnsKept
<1>1. PICK q \in Conn : q = conn[c] /\ InOrder(q) /\ q.last \in 0..MaxEntries
  BY ConnFields DEF TypeOK, AllInOrder
<1>2. PICK off \in Conn : off = Off(q.last) /\ off.queue = <<>> /\ off.last = q.last
  BY <1>1, OffSlot
<1>3. PICK p : /\ p = off \/ p = [off EXCEPT !.stage = "closing"]
               /\ conn' = [conn EXCEPT ![c] = p]
  BY <1>1, <1>2 DEF Leave, Unregister
<1>4. p \in Conn /\ p.queue = <<>> /\ p.last = q.last
  <2>1. CASE p = off
    BY <1>2, <2>1
  <2>2. CASE p = [off EXCEPT !.stage = "closing"]
    BY <1>2, <2>2, StageSet
  <2>3. QED
    BY <1>3, <2>1, <2>2
<1>5. QED
  BY <1>1, <1>3, <1>4, SameFrames, OneSlot

LEMMA RestartKeeps == ASSUME TypeOK, AllInOrder, Restart PROVE ConnsKept
<1>1. ASSUME NEW c \in Conns
      PROVE  /\ conn'[c] \in Conn /\ InOrder(conn'[c])
             /\ Frames(conn'[c]) \subseteq Frames(conn[c])
  <2>1. PICK q \in Conn : q = conn[c] /\ InOrder(q) /\ q.last \in 0..MaxEntries
    BY ConnFields DEF TypeOK, AllInOrder
  <2>2. conn'[c] = Off(q.last)
    BY <2>1 DEF Restart
  <2>3. conn'[c] \in Conn /\ conn'[c].queue = <<>> /\ conn'[c].last = q.last
    BY <2>1, <2>2, OffSlot
  <2>4. QED
    BY <2>1, <2>3, SameFrames
<1>2. conn' = [c \in Conns |-> conn'[c]]
  BY DEF Restart
<1>3. QED
  BY <1>1, <1>2 DEF ConnsKept

LEMMA NoConnKeeps == ASSUME TypeOK, AllInOrder, UNCHANGED conn PROVE ConnsKept
BY DEF TypeOK, AllInOrder, ConnsKept

-----------------------------------------------------------------------------
\* The way of an entry.  What is nearer to a client is older, nothing is newer
\* than what the group was given, and a new reply is newer than all of it.
Given == IF group = None THEN 0 ELSE group.last
Ahead == Numbers(channel) \cup Numbers(batch)

OrderInv ==
  /\ Rising(batch) /\ Rising(channel) /\ Before(Numbers(channel), Numbers(batch))
  /\ \A x \in Ahead : x <= Given
  /\ AllInOrder
  /\ \A c \in Conns : /\ Before(Frames(conn[c]), Ahead)
                      /\ \A x \in Frames(conn[c]) : x <= Given

LEMMA Numbered ==
  ASSUME TypeOK
  PROVE  /\ batch \in Seq(Nat) /\ channel \in Seq(Nat) /\ Given \in Nat
         /\ \A x \in Ahead : x \in Nat
         /\ \A c \in Conns : \A x \in Frames(conn[c]) : x \in Nat
<1>1. 1..MaxEntries \subseteq Nat /\ 0..MaxEntries \subseteq Nat
  BY Bounds
<1>2. batch \in Seq(1..MaxEntries) /\ channel \in Seq(1..MaxEntries)
  BY Bounds, Bounded DEF TypeOK
<1>3. batch \in Seq(Nat) /\ channel \in Seq(Nat)
  BY <1>1, <1>2, SeqMonotonic
<1>4. \A s \in Seq(Nat) : Numbers(s) \subseteq Nat
  BY DEF Numbers
<1>5. \A c \in Conns : Frames(conn[c]) \subseteq Nat
  BY <1>4, ConnFields DEF TypeOK, Frames, One
<1>6. Given \in Nat
  BY <1>1 DEF Given, TypeOK, LogTypeOK, Group
<1>7. QED
  BY <1>3, <1>4, <1>5, <1>6 DEF Ahead

\* Steps that hand nothing new on.
LEMMA NothingNew ==
  ASSUME TypeOK, OrderInv, ConnsKept, Rising(batch'), Rising(channel'),
         Numbers(batch') \subseteq Numbers(batch),
         Numbers(channel') \subseteq Numbers(channel),
         Given' \in Nat, Given <= Given'
  PROVE  OrderInv'
<1>1. Ahead' \subseteq Ahead /\ Before(Numbers(channel'), Numbers(batch'))
  BY DEF Ahead, OrderInv, Before
<1>2. \A x \in Ahead : x <= Given'
  BY Numbered DEF OrderInv
<1>3. AllInOrder'
  BY DEF ConnsKept, AllInOrder
<1>4. ASSUME NEW c \in Conns
      PROVE  /\ Before(Frames(conn'[c]), Ahead')
             /\ \A x \in Frames(conn'[c]) : x <= Given'
  <2>1. Frames(conn'[c]) \subseteq Frames(conn[c])
    BY DEF ConnsKept
  <2>2. Before(Frames(conn'[c]), Ahead')
    BY <1>1, <2>1 DEF OrderInv, Before
  <2>3. \A x \in Frames(conn[c]) : x \in Nat /\ x <= Given
    BY Numbered DEF OrderInv
  <2>4. \A x \in Frames(conn[c]) : x <= Given'
    BY <2>3, Numbered
  <2>5. QED
    BY <2>1, <2>2, <2>4
<1>5. QED
  BY <1>1, <1>2, <1>3, <1>4 DEF OrderInv

LEMMA GroupAdvances ==
  ASSUME TypeOK, PipelineInv, Subscribe \/ Ack PROVE Given' \in Nat /\ Given <= Given'
<1>1. /\ group \in {None} \cup [start : Nat, last : Nat, pending : SUBSET Nat]
      /\ Len(entries) \in Nat
  BY RowsBounded DEF PipelineInv, GroupInv
<1>2. CASE UNCHANGED group
  BY <1>2, Numbered DEF Given
<1>3. CASE Subscribe /\ group = None /\ CreateGroup
  <2>1. group' = [start |-> Len(entries), last |-> Len(entries), pending |-> {}]
    BY <1>3 DEF CreateGroup
  <2>2. group'.last = Len(entries) /\ group' # None
    BY <1>1, <2>1, NoneIsNoGroup
  <2>3. QED
    BY <1>1, <1>3, <2>2 DEF Given
<1>4. CASE Ack /\ group # None /\ AckEntry(holding)
  <2>1. PICK g \in [start : Nat, last : Nat, pending : SUBSET Nat] : g = group
    BY <1>1, <1>4
  <2>2. group' = [start |-> g.start, last |-> g.last, pending |-> g.pending \ {holding}]
    BY <1>4, <2>1 DEF AckEntry
  <2>3. group'.last = group.last /\ group' # None /\ group.last \in Nat
    BY <2>1, <2>2, NoneIsNoGroup
  <2>4. QED
    BY <1>4, <2>3 DEF Given
<1>5. QED
  BY <1>2, <1>3, <1>4 DEF Subscribe, CreateGroup, Ack, PipelineInv, GroupInv

LEMMA ReadGroupOrders == ASSUME TypeOK, PipelineInv, OrderInv, ReadGroup PROVE OrderInv'
<1>1. /\ group # None /\ NextEntries # {} /\ Give(NextEntries) /\ batch = <<>>
      /\ batch' = Reply \/ batch' = <<>>
      /\ UNCHANGED <<channel, conn>>
  BY DEF ReadGroup, hubVars
<1>2. PICK n \in Nat : n = Cardinality(NextEntries) /\ group.last \in Nat
  <2>1. PICK n \in 1..ReadCount : n = Cardinality(NextEntries) /\ group.last \in Nat
    BY <1>1, Handed
  <2>2. QED
    BY <2>1, Bounds
<1>3. Given' = group.last + n /\ Given = group.last
  <2>1. PICK g \in [start : Nat, last : Nat, pending : SUBSET Nat] : g = group
    BY <1>1 DEF PipelineInv, GroupInv
  <2>2. group' = [start |-> g.start, last |-> g.last + n,
                  pending |-> g.pending \cup NextEntries]
    BY <1>1, <1>2, <2>1 DEF Give
  <2>3. group'.last = group.last + n
    BY <2>1, <2>2
  <2>4. group' # None
    <3>1. PICK m \in Nat : NextEntries = (group.last + 1)..m
      <4>1. PICK k \in 1..ReadCount : NextEntries = (group.last + 1)..(group.last + k)
        BY <1>1, Handed
      <4>2. group.last + k \in Nat
        BY <1>2, <4>1, Bounds
      <4>3. QED
        BY <4>1, <4>2
    <3>2. NextEntries \in SUBSET Nat
      BY <1>2, <3>1
    <3>3. g.start \in Nat /\ g.last \in Nat /\ g.pending \in SUBSET Nat
      OBVIOUS
    <3>4. g.last + n \in Nat
      BY <3>3
    <3>5. g.pending \cup NextEntries \in SUBSET Nat
      BY <3>2, <3>3
    <3>6. group' \in [start : Nat, last : Nat, pending : SUBSET Nat]
      BY <2>2, <3>3, <3>4, <3>5
    <3>7. QED
      BY <3>6, NoneIsNoGroup
  <2>5. QED
    BY <1>1, <2>3, <2>4 DEF Given
<1>4. /\ Rising(batch')
      /\ \A x \in Numbers(batch') : x \in Nat /\ Given < x /\ x <= Given'
  BY <1>1, <1>2, <1>3, ReplyContinues, EmptyRises
<1>5. \A x \in Numbers(channel) : x <= Given /\ x <= Given' /\ x \in Nat
  BY <1>2, <1>3, Numbered DEF OrderInv, Ahead
<1>6. /\ Before(Numbers(channel'), Numbers(batch'))
      /\ \A x \in Ahead' : x <= Given'
  BY <1>1, <1>2, <1>3, <1>4, <1>5 DEF Before, Ahead
<1>7. ASSUME NEW c \in Conns
      PROVE  Before(Frames(conn[c]), Ahead') /\ \A x \in Frames(conn[c]) : x <= Given'
  <2>1. \A x \in Frames(conn[c]) : x <= Given /\ x <= Given' /\ x \in Nat
    <3>1. \A x \in Frames(conn[c]) : x <= Given /\ x \in Nat
      BY Numbered DEF OrderInv
    <3>2. QED
      BY <1>2, <1>3, <3>1
  <2>2. Before(Frames(conn[c]), Numbers(batch'))
    BY <1>2, <1>3, <1>4, <2>1 DEF Before
  <2>3. Before(Frames(conn[c]), Numbers(channel'))
    BY <1>1 DEF OrderInv, Ahead, Before
  <2>4. QED
    BY <2>1, <2>2, <2>3 DEF Ahead, Before
<1>8. QED
  BY <1>1, <1>4, <1>6, <1>7 DEF OrderInv, AllInOrder

LEMMA ForwardOrders == ASSUME TypeOK, OrderInv, Forward PROVE OrderInv'
<1>1. /\ batch # <<>> /\ batch' = Tail(batch)
      /\ channel' = channel \/ channel' = Append(channel, Head(batch))
      /\ UNCHANGED <<group, conn>>
  BY DEF Forward, logVars, hubVars
<1>2. /\ Rising(batch') /\ Numbers(batch') \subseteq Numbers(batch)
      /\ One(Head(batch)) \subseteq Numbers(batch)
      /\ Before(One(Head(batch)), Numbers(batch'))
  BY <1>1, Numbered, RisingTail DEF OrderInv
<1>3. /\ Head(batch) \in Nat
      /\ Before(Numbers(channel), One(Head(batch)))
  BY <1>1, <1>2, Numbered, HeadTailProperties DEF OrderInv, Before
<1>4. /\ Rising(channel')
      /\ Numbers(channel') \subseteq Numbers(channel) \cup One(Head(batch))
  <2>1. CASE channel' = channel
    BY <2>1 DEF OrderInv
  <2>2. CASE channel' = Append(channel, Head(batch))
    BY <1>3, <2>2, Numbered, RisingAppend DEF OrderInv
  <2>3. QED
    BY <1>1, <2>1, <2>2
<1>5. Before(Numbers(channel'), Numbers(batch'))
  BY <1>2, <1>4 DEF OrderInv, Before
<1>6. Ahead' \subseteq Ahead
  BY <1>2, <1>4 DEF Ahead
<1>7. Given' = Given
  BY <1>1 DEF Given
<1>8. QED
  BY <1>1, <1>2, <1>4, <1>5, <1>6, <1>7 DEF OrderInv, Before, AllInOrder

LEMMA PumpSlots ==
  ASSUME TypeOK, OrderInv, Pump, NEW c \in Conns
  PROVE  /\ conn'[c] \in Conn /\ InOrder(conn'[c])
         /\ Frames(conn'[c]) \subseteq Frames(conn[c]) \cup One(Head(channel))
<1>1. channel # <<>>
  BY DEF Pump, FanOut
<1>2. /\ Head(channel) \in 1..MaxEntries /\ Head(channel) \in Nat
      /\ One(Head(channel)) \subseteq Numbers(channel)
  BY <1>1, BoundedTail, Bounds, Numbered, RisingTail DEF TypeOK, OrderInv
<1>3. PICK q \in Conn : /\ q = conn[c] /\ InOrder(q)
                        /\ Before(Frames(q), One(Head(channel)))
  BY <1>2 DEF TypeOK, OrderInv, AllInOrder, Before, Ahead
<1>4. CASE conn'[c] = conn[c]
  BY <1>3, <1>4
<1>5. CASE /\ Len(q.queue) < SendCap
           /\ conn'[c] = [q EXCEPT !.queue = Append(q.queue, Head(channel))]
  <2>1. /\ Append(q.queue, Head(channel)) \in BoundedSeq(1..MaxEntries, SendCap)
        /\ q.last \in 0..MaxEntries
    BY <1>2, <1>5, ConnFields, BoundedAppend, Bounds
  <2>2. /\ conn'[c] \in Conn /\ conn'[c].last = q.last
        /\ conn'[c].queue = Append(q.queue, Head(channel))
    BY <1>5, <2>1 DEF Conn
  <2>3. Before(Numbers(q.queue), One(Head(channel)))
    BY <1>3 DEF Frames, Before
  <2>4. /\ Rising(conn'[c].queue)
        /\ Numbers(conn'[c].queue) = Numbers(q.queue) \cup One(Head(channel))
    BY <1>2, <1>3, <2>2, <2>3, ConnFields, RisingAppend DEF InOrder
  <2>5. Before(One(q.last), Numbers(conn'[c].queue))
    BY <1>3, <2>4 DEF InOrder, Frames, Before
  <2>6. QED
    BY <1>3, <2>2, <2>4, <2>5 DEF InOrder, Frames
<1>6. conn'[c] = conn[c]
      \/ /\ Len(q.queue) < SendCap
         /\ conn'[c] = [q EXCEPT !.queue = Append(q.queue, Head(channel))]
  BY <1>3 DEF Pump, FanOut
<1>7. QED
  BY <1>4, <1>5, <1>6

LEMMA PumpTypes == ASSUME TypeOK, OrderInv, Pump PROVE TypeOK'
<1>1. /\ Head(channel) \in 1..MaxEntries /\ Head(channel) \in 0..MaxEntries
      /\ channel' \in BoundedSeq(1..MaxEntries, ChannelCap)
  BY BoundedTail, Bounds DEF Pump, FanOut, TypeOK
<1>2. conn' \in [Conns -> Conn]
  <2>1. conn' = [c \in Conns |-> conn'[c]]
    BY DEF Pump, FanOut
  <2>2. QED
    BY <2>1, PumpSlots
<1>3. QED
  BY <1>1, <1>2 DEF Pump, FanOut, TypeOK, LogTypeOK, logVars, outboxVars

LEMMA PumpOrders == ASSUME TypeOK, OrderInv, Pump PROVE OrderInv'
<1>1. channel # <<>> /\ channel' = Tail(channel) /\ UNCHANGED <<group, batch>>
  BY DEF Pump, FanOut, logVars
<1>2. /\ Rising(channel') /\ Numbers(channel') \subseteq Numbers(channel)
      /\ One(Head(channel)) \subseteq Numbers(channel)
      /\ Before(One(Head(channel)), Numbers(channel'))
  BY <1>1, Numbered, RisingTail DEF OrderInv
<1>3. Ahead' \subseteq Ahead /\ Before(One(Head(channel)), Ahead') /\ Given' = Given
  BY <1>1, <1>2 DEF Ahead, Before, OrderInv, Given
<1>4. ASSUME NEW c \in Conns
      PROVE  /\ Before(Frames(conn'[c]), Ahead')
             /\ \A x \in Frames(conn'[c]) : x <= Given'
  <2>1. Frames(conn'[c]) \subseteq Frames(conn[c]) \cup One(Head(channel))
    BY PumpSlots
  <2>2. Before(Frames(conn'[c]), Ahead')
    BY <1>3, <2>1 DEF OrderInv, Before
  <2>3. \A x \in Frames(conn'[c]) : x <= Given
    BY <1>2, <2>1 DEF OrderInv, Ahead
  <2>4. QED
    BY <1>3, <2>2, <2>3
<1>5. Before(Numbers(channel'), Numbers(batch'))
  BY <1>1, <1>2 DEF OrderInv, Before
<1>6. AllInOrder'
  BY PumpSlots DEF AllInOrder
<1>7. QED
  BY <1>1, <1>2, <1>3, <1>4, <1>5, <1>6 DEF OrderInv

-----------------------------------------------------------------------------
StreamInv == PipelineInv /\ TypeOK /\ OrderInv

\* The steps of a client, of its connection and of its ticket.
ClientStep ==
  \/ IssueTicket \/ ExpireTicket
  \/ \E c \in Conns : \/ WsUpgrade(c) \/ Register(c) \/ ClientCmd(c) \/ Write(c)
                      \/ WriterFails(c) \/ Leave(c) \/ Unregister(c)

LEMMA ClientKeeps ==
  ASSUME TypeOK, OrderInv, ClientStep PROVE TypeOK' /\ OrderInv'
<1>1. /\ UNCHANGED <<logVars, pumpVars>>
      /\ by_topic' \subseteq Conns /\ ticket' \in BOOLEAN
  BY DEF ClientStep, IssueTicket, ExpireTicket, WsUpgrade, Register, ClientCmd, Write,
         WriterFails, Leave, Unregister, TypeOK
<1>2. AllInOrder
  BY DEF OrderInv
<1>3. ConnsKept
  <2>1. ASSUME IssueTicket \/ ExpireTicket \/ \E c \in Conns : ClientCmd(c)
        PROVE  ConnsKept
    BY <1>2, <2>1, NoConnKeeps DEF IssueTicket, ExpireTicket, ClientCmd
  <2>2. QED
    BY <1>2, <2>1, StageKeeps, WriteKeeps, WriterFailsKeeps, LeaveKeeps DEF ClientStep
<1>4. UNCHANGED <<group, batch, channel>>
  BY <1>1 DEF logVars, pumpVars
<1>5. TypeOK'
  BY <1>1, <1>3 DEF TypeOK, LogTypeOK, ConnsKept, logVars, outboxVars, pumpVars
<1>6. Given' = Given
  BY <1>4 DEF Given
<1>7. OrderInv'
  <2>1. Rising(batch) /\ Rising(channel) /\ Given \in Nat
    BY Numbered DEF OrderInv
  <2>2. QED
    BY <1>3, <1>4, <1>6, <2>1, NothingNew
<1>8. QED
  BY <1>5, <1>7

LEMMA RestartStep == ASSUME TypeOK, OrderInv, Restart PROVE TypeOK' /\ OrderInv'
<1>1. /\ UNCHANGED <<logVars, offered, ticket>> /\ pump' = "starting"
      /\ batch' = <<>> /\ channel' = <<>> /\ holding' = 0 /\ by_topic' = {}
  BY DEF Restart
<1>2. ConnsKept
  BY RestartKeeps DEF OrderInv
<1>3. TypeOK'
  <2>1. /\ <<>> \in BoundedSeq(1..MaxEntries, ReadCount)
        /\ <<>> \in BoundedSeq(1..MaxEntries, ChannelCap) /\ 0 \in 0..MaxEntries
    BY BoundedEmpty, Bounds
  <2>2. QED
    BY <1>1, <1>2, <2>1 DEF TypeOK, LogTypeOK, ConnsKept, logVars, outboxVars
<1>4. Given' = Given /\ Given \in Nat
  BY <1>1, Numbered DEF Given, logVars
<1>5. OrderInv'
  BY <1>1, <1>2, <1>4, EmptyRises, NothingNew
<1>6. QED
  BY <1>3, <1>5

LEMMA QuietOrders ==
  ASSUME TypeOK, PipelineInv, OrderInv, LogStep \/ Subscribe \/ Ack \/ UNCHANGED vars
  PROVE  OrderInv'
<1>1. UNCHANGED <<batch, channel, conn>>
  BY DEF LogStep, Subscribe, Ack, vars, pumpVars, hubVars
<1>2. Given' \in Nat /\ Given <= Given'
  <2>1. CASE UNCHANGED group
    BY <2>1, Numbered DEF Given
  <2>2. CASE Subscribe \/ Ack
    BY <2>2, GroupAdvances
  <2>3. QED
    BY <2>1, <2>2 DEF LogStep, Enqueue, ClaimBatch, Publish, MarkShipped, RelayStops,
                      vars, logVars
<1>3. ConnsKept
  BY <1>1, NoConnKeeps DEF OrderInv
<1>4. Rising(batch) /\ Rising(channel)
  BY DEF OrderInv
<1>5. QED
  BY <1>1, <1>2, <1>3, <1>4, NothingNew

LEMMA StreamSteps == ASSUME StreamInv, [Next]_vars PROVE StreamInv'
<1>1. PipelineInv'
  BY OutboxStep, GroupStep DEF StreamInv, PipelineInv
<1>2. CASE LogStep
  BY <1>1, <1>2, LogTypes, QuietOrders DEF StreamInv
<1>3. CASE Subscribe \/ Ack
  BY <1>1, <1>3, SubscribeTypes, AckTypes, QuietOrders DEF StreamInv
<1>4. CASE ReadGroup
  BY <1>1, <1>4, ReadGroupTypes, ReadGroupOrders DEF StreamInv
<1>5. CASE Forward
  BY <1>1, <1>5, ForwardTypes, ForwardOrders DEF StreamInv
<1>6. CASE Pump
  BY <1>1, <1>6, PumpTypes, PumpOrders DEF StreamInv
<1>7. CASE Restart \/ ClientStep
  BY <1>1, <1>7, RestartStep, ClientKeeps DEF StreamInv
<1>8. CASE UNCHANGED vars
  <2>1. TypeOK'
    BY <1>8 DEF StreamInv, TypeOK, LogTypeOK, vars, logVars, outboxVars, pumpVars, hubVars
  <2>2. QED
    BY <1>1, <1>8, <2>1, QuietOrders DEF StreamInv
<1>9. QED
  BY <1>2, <1>3, <1>4, <1>5, <1>6, <1>7, <1>8 DEF Next, ClientStep

LEMMA StreamStarts == ASSUME Init PROVE StreamInv
<1>1. TypeOK
  <2>1. /\ <<>> \in BoundedSeq(BOOLEAN, MaxRows)
        /\ <<>> \in BoundedSeq(1..MaxRows, MaxEntries)
        /\ <<>> \in BoundedSeq(1..MaxEntries, ReadCount)
        /\ <<>> \in BoundedSeq(1..MaxEntries, ChannelCap) /\ 0 \in 0..MaxEntries
    BY BoundedEmpty, Bounds
  <2>2. conn \in [Conns -> Conn]
    BY <2>1, OffSlot DEF Init
  <2>3. QED
    BY <2>1, <2>2 DEF Init, LogInit, TypeOK, LogTypeOK
<1>2. \A c \in Conns : conn[c].queue = <<>> /\ conn[c].last = 0
  BY DEF Init, Off
<1>3. \A c \in Conns : Frames(conn[c]) = {} /\ InOrder(conn[c])
  BY <1>2, EmptyRises DEF Frames, InOrder, Before
<1>4. OrderInv
  BY <1>3, EmptyRises DEF Init, OrderInv, AllInOrder, Ahead, Before
<1>5. QED
  BY <1>1, <1>4, InitPipelineInv DEF StreamInv

\* The queues of one connection, read as its client will.
LEMMA ClientOrder == ASSUME TypeOK, OrderInv PROVE FanOutInOrder
<1>1. SUFFICES ASSUME NEW c \in Conns
               PROVE  LET frames == <<conn[c].last>> \o conn[c].queue
                      IN  \A i \in 1..(Len(frames) - 1) : frames[i] < frames[i + 1]
  BY DEF FanOutInOrder
<1>2. PICK q \in Conn : q = conn[c] /\ InOrder(q)
  BY DEF TypeOK, OrderInv, AllInOrder
<1>3. PICK sent, queue : sent = <<q.last>> /\ queue = q.queue
  OBVIOUS
<1>4. /\ sent \in Seq(Nat) /\ Rising(sent) /\ Numbers(sent) = One(q.last)
      /\ Len(sent) = 1
  BY <1>3, ConnFields DEF Rising, Numbers, One
<1>5. queue \in Seq(Nat) /\ Rising(queue) /\ Before(Numbers(sent), Numbers(queue))
  BY <1>2, <1>3, <1>4, ConnFields DEF InOrder
<1>6. \A i \in 1..Len(queue) : queue[i] # 0
  <2>1. queue \in Seq(1..MaxEntries)
    BY <1>3, ConnFields, Bounded, Bounds
  <2>2. \A i \in 1..Len(queue) : queue[i] \in 1..MaxEntries
    BY <2>1, ElementOfSeq
  <2>3. QED
    BY <2>2, Bounds
<1>7. PICK frames : frames = sent \o queue
  OBVIOUS
<1>8. /\ frames \in Seq(Nat) /\ Rising(frames)
      /\ Len(frames) = 1 + Len(queue) /\ Len(queue) \in Nat
      /\ \A i \in 1..Len(queue) : frames[1 + i] = queue[i]
  <2>1. Rising(frames)
    BY <1>4, <1>5, <1>7, RisingConcat
  <2>2. sent \in Seq(Nat) /\ queue \in Seq(Nat) /\ Len(sent) = 1
    BY <1>4, <1>5
  <2>3. /\ sent \o queue \in Seq(Nat) /\ Len(sent \o queue) = Len(sent) + Len(queue)
        /\ \A i \in 1..Len(sent) + Len(queue) :
             (sent \o queue)[i] = IF i <= Len(sent) THEN sent[i] ELSE queue[i - Len(sent)]
    BY <2>2, ConcatProperties
  <2>4. Len(queue) \in Nat
    BY <2>2
  <2>5. ASSUME NEW i \in 1..Len(queue) PROVE frames[1 + i] = queue[i]
    <3>1. 1 + i \in 1..Len(sent) + Len(queue) /\ ~(1 + i <= Len(sent)) /\ 1 + i - Len(sent) = i
      BY <2>2, <2>4
    <3>2. QED
      BY <1>7, <2>3, <3>1
  <2>6. QED
    BY <1>7, <2>1, <2>2, <2>3, <2>4, <2>5
<1>9. ASSUME NEW i \in 1..(Len(frames) - 1) PROVE frames[i] < frames[i + 1]
  <2>1. i \in 1..Len(queue) /\ i \in DOMAIN frames /\ i + 1 \in DOMAIN frames /\ i < i + 1
    BY <1>8
  <2>2. frames[i + 1] = queue[i]
    <3>1. 1 + i = i + 1
      BY <2>1
    <3>2. QED
      BY <1>8, <2>1, <3>1
  <2>3. QED
    BY <1>6, <1>8, <2>1, <2>2 DEF Rising
<1>10. QED
  BY <1>2, <1>3, <1>7, <1>9

\* The inductive invariant of the way from the stream to the clients.
THEOREM StreamInvariant == Spec => []StreamInv
<1>1. Init => StreamInv
  BY StreamStarts
<1>2. StreamInv /\ [Next]_vars => StreamInv'
  BY StreamSteps
<1>3. QED
  BY <1>1, <1>2, PTL DEF Spec

\* No batch, channel or send queue holds more than its capacity (redis_streams.rs,
\* hub.rs), however the pump, the writers and the clients interleave.
THEOREM RealtimeTypes == Spec => []TypeOK
<1>1. StreamInv => TypeOK
  BY DEF StreamInv
<1>2. QED
  BY <1>1, StreamInvariant, PTL

\* A client is sent the entries in the order of the stream and no entry twice, over
\* dropped frames, reconnects and restarts (hub.rs).  An event that was published
\* twice is two entries: see EventsReachClientsOnce.
THEOREM ClientsSeeTheStreamInOrder == Spec => []FanOutInOrder
<1>1. StreamInv => FanOutInOrder
  BY ClientOrder DEF StreamInv
<1>2. QED
  BY <1>1, StreamInvariant, PTL
=============================================================================
