---- MODULE AuditChain ----
(***************************************************************************)
(* The hash chain over the events table, server/audit.py.                  *)
(*                                                                         *)
(* A row of the table is a record with the six EVENT_FIELDS and the two    *)
(* hash columns.  SHA-256 over a JSON array is taken to be injective: the  *)
(* digest of (previous digest, fields) is the sequence of all the fields   *)
(* it covers, so two digests are equal exactly when the histories they     *)
(* commit to are.                                                          *)
(***************************************************************************)
EXTENDS Integers, Sequences

\* The predecessor hash of the first event.
GENESIS == <<>>

\* The columns a digest covers, EVENT_FIELDS.
Fields(event) ==
  [id |-> event.id, timestamp |-> event.timestamp, client |-> event.client,
   action |-> event.action, key |-> event.key, value |-> event.value]

Digest(previous, fields) == Append(previous, fields)

\* The event_hash of the row with the largest id; rows are kept in id order.
ChainHead(events) ==
  IF events = <<>> THEN GENESIS ELSE events[Len(events)].event_hash

\* The predecessor hash that row i must carry.
PrevHash(events, i) == IF i = 1 THEN GENESIS ELSE events[i - 1].event_hash

\* The running digest of audit.verify, after each of the rows in id order.
Walk(events) ==
  LET running[i \in 0..Len(events)] ==
        IF i = 0 THEN GENESIS ELSE Digest(running[i - 1], Fields(events[i]))
  IN  running

\* audit.verify: both stored columns of each row are what the walk finds there.
Verifies(events) ==
  LET running == Walk(events) IN
  \A i \in DOMAIN events :
    /\ events[i].prev_hash = running[i - 1]
    /\ events[i].event_hash = running[i]

\* --expected-head: so is the last digest, and the head the caller has kept.
VerifiesTo(events, head) == Verifies(events) /\ Walk(events)[Len(events)] = head

\* The same, row by row: the columns of a row fit those of the row before.
ChainVerifies(events) ==
  \A i \in DOMAIN events :
    /\ events[i].prev_hash = PrevHash(events, i)
    /\ events[i].event_hash = Digest(events[i].prev_hash, Fields(events[i]))

\* ORDER BY id is the order of insertion: ids only grow.
IdsIncrease(events) ==
  \A i, j \in DOMAIN events : i < j => events[i].id < events[j].id

====
