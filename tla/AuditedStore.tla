---- MODULE AuditedStore ----
(***************************************************************************)
(* What the memory store promises, free of processes, transactions, locks  *)
(* and hashes: each logged call is one atomic step that changes the facts  *)
(* and records itself; a condition on a write is judged on the facts it    *)
(* changes; and a power loss takes back only a suffix of those steps, each *)
(* of them whole.                                                          *)
(***************************************************************************)
EXTENDS Integers, Sequences

CONSTANTS Key, Value, Client, None

\* The facts and the trail after each step since the last sync.
VARIABLE versions

Fact == [value: Value, source: Client]
Condition == [absent: BOOLEAN, expected: Value \union {None}]
Unconditional == [absent |-> FALSE, expected |-> None]

Latest == versions[Len(versions)]

Init == versions = <<[facts |-> [k \in Key |-> None], log |-> <<>>]>>

\* The facts become `facts`, and the trail says why.
Record(facts, client, action, key, value, condition) ==
  versions' = Append(versions,
    [facts |-> facts,
     log |-> Append(Latest.log, [client |-> client, action |-> action, key |-> key,
                                 value |-> value, condition |-> condition])])

ValueOf(fact) == IF fact = None THEN None ELSE fact.value

Holds(condition, fact) ==
  /\ condition.absent => fact = None
  /\ condition.expected # None => ValueOf(fact) = condition.expected

Set(client, key, value, condition) ==
  /\ Holds(condition, Latest.facts[key])
  /\ Record([Latest.facts EXCEPT ![key] = [value |-> value, source |-> client]],
            client, "set", key, value, condition)

\* The caller is told, and the trail records, the value that stood.
Lose(client, key, condition) ==
  /\ ~Holds(condition, Latest.facts[key])
  /\ Record(Latest.facts, client, "cas_fail", key, ValueOf(Latest.facts[key]), condition)

Delete(client, key) ==
  Record([Latest.facts EXCEPT ![key] = None], client, "delete", key, None, Unconditional)

Observe(client, action, key) ==
  Record(Latest.facts, client, action, key, None, Unconditional)

Sync == versions' = <<Latest>>

PowerLoss == \E n \in 1..Len(versions) : versions' = SubSeq(versions, 1, n)

Next ==
  \/ \E client \in Client, key \in Key, condition \in Condition :
       \/ \E value \in Value : Set(client, key, value, condition)
       \/ Lose(client, key, condition)
  \/ \E client \in Client, key \in Key : Delete(client, key)
  \/ \E client \in Client, action \in {"get", "search", "lock_hold"}, key \in Key \union {None} :
       Observe(client, action, key)
  \/ Sync \/ PowerLoss

Spec == Init /\ [][Next]_versions

====
