------------------------------ MODULE EventLog ------------------------------
(***************************************************************************)
(* How events get from a service's database into the log the consumers     *)
(* read: the transactional outbox (backend/libs/db/src/outbox.rs) and one  *)
(* Redis stream with one consumer group                                    *)
(* (backend/libs/eventbus/src/redis_streams.rs).                           *)
(*                                                                         *)
(* A row of the outbox is its number in commit order, an entry of the      *)
(* stream its position.  The relay that calls claim_batch, publish and     *)
(* mark_shipped in turn is what the comments of outbox.rs ask of callers.  *)
(***************************************************************************)
EXTENDS Integers, FiniteSets, SequencesExt

CONSTANTS
  Relays,      \* processes that ship the outbox
  ClaimLimit,  \* the limit they pass to claim_batch
  ReadCount,   \* entries one XREADGROUP returns at most (64)
  MaxRows, MaxEntries,  \* bounds of the model
  None

ASSUME Limits == {ClaimLimit, ReadCount, MaxRows, MaxEntries} \subseteq Nat \ {0}
ASSUME NoneIsNoGroup == None \notin [start : Nat, last : Nat, pending : SUBSET Nat]

VARIABLES
  shipped,  \* for each row of the outbox, whether published_at is set
  claimed,  \* the rows a relay was given by claim_batch and has not marked
  todo,     \* those of them it still has to publish
  entries,  \* the stream: the row each entry carries
  group     \* the consumer group: where it started, the last entry it was
            \* given, and the entries given and not acknowledged

outboxVars == <<shipped, claimed, todo>>
logVars == <<outboxVars, entries, group>>

Group == [start : 0..MaxEntries, last : 0..MaxEntries, pending : SUBSET (1..MaxEntries)]

LogTypeOK ==
  /\ shipped \in BoundedSeq(BOOLEAN, MaxRows)
  /\ claimed \in [Relays -> SUBSET (1..MaxRows)]
  /\ todo \in [Relays -> SUBSET (1..MaxRows)]
  /\ entries \in BoundedSeq(1..MaxRows, MaxEntries)
  /\ group \in Group \cup {None}

LogInit ==
  /\ shipped = <<>>
  /\ claimed = [r \in Relays |-> {}]
  /\ todo = [r \in Relays |-> {}]
  /\ entries = <<>>
  /\ group = None

-----------------------------------------------------------------------------
\* A business transaction commits together with its event.
Enqueue ==
  /\ Len(shipped) < MaxRows
  /\ shipped' = Append(shipped, FALSE)
  /\ UNCHANGED <<claimed, todo, entries, group>>

Unshipped == {i \in DOMAIN shipped : ~shipped[i]}

Take(r, batch) ==
  /\ claimed' = [claimed EXCEPT ![r] = batch]
  /\ todo' = [todo EXCEPT ![r] = batch]

\* A batch a claim may return: rows another claim has locked at that moment are
\* skipped.  The locks end with the statement, so others get the same rows later.
Claimable(r, batch) ==
  /\ claimed[r] = {}
  /\ batch \subseteq Unshipped /\ Cardinality(batch) \in 1..ClaimLimit

\* Mutant: the claim sets published_at.
ClaimBatchMarks(r) ==
  \E batch \in SUBSET Unshipped :
    /\ Claimable(r, batch)
    /\ Take(r, batch)
    /\ shipped' = [i \in DOMAIN shipped |-> shipped[i] \/ i \in batch]
    /\ UNCHANGED <<entries, group>>

ClaimBatch(r) ==
  \E batch \in SUBSET Unshipped :
    /\ Claimable(r, batch)
    /\ Take(r, batch)
    /\ UNCHANGED <<shipped, entries, group>>

\* XADD: the entry gets a position of its own, also when the row was published
\* before.
Publish(r) ==
  /\ Len(entries) < MaxEntries
  /\ \E i \in todo[r] :
       /\ entries' = Append(entries, i)
       /\ todo' = [todo EXCEPT ![r] = @ \ {i}]
  /\ UNCHANGED <<shipped, claimed, group>>

MarkShipped(r) ==
  /\ claimed[r] # {} /\ todo[r] = {}
  /\ shipped' = [i \in DOMAIN shipped |-> shipped[i] \/ i \in claimed[r]]
  /\ claimed' = [claimed EXCEPT ![r] = {}]
  /\ UNCHANGED <<todo, entries, group>>

\* The relay's process ends, or it gives the batch up after an error.
RelayStops(r) ==
  /\ claimed[r] # {}
  /\ Take(r, {})
  /\ UNCHANGED <<shipped, entries, group>>

-----------------------------------------------------------------------------
\* XGROUP CREATE ... $: a new group starts at the end; an existing one stays.
CreateGroup ==
  group' = IF group = None
           THEN [start |-> Len(entries), last |-> Len(entries), pending |-> {}]
           ELSE group

\* What XREADGROUP ... > gives: the next entries nobody of the group was given.
NextEntries == (group.last + 1)..(IF group.last + ReadCount < Len(entries)
                                  THEN group.last + ReadCount ELSE Len(entries))

\* Mutant: the group is read with NOACK.
GiveNoAck(ids) ==
  group' = [group EXCEPT !.last = @ + Cardinality(ids)]

\* The server hands entries out: from then on they are pending.
Give(ids) ==
  group' = [group EXCEPT !.last = @ + Cardinality(ids), !.pending = @ \cup ids]

\* XACK.
AckEntry(id) == group' = [group EXCEPT !.pending = @ \ {id}]
=============================================================================
