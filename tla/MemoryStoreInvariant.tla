---- MODULE MemoryStoreInvariant ----
(***************************************************************************)
(* The inductive invariant of MemoryStore: how far each call has come, who *)
(* holds the write lock, what the lock holder's draft adds to the last     *)
(* committed version, and what is true of every committed version.  And    *)
(* what memory_list finds, once it has read its rows.                      *)
(***************************************************************************)
EXTENDS MemoryStore, LikePrefix

\* From _log to the end of `with db`.
Logging == {"log", "append", "tail", "insert", "commit"}

\* Which labels belong to which tool.
OnItsPath(label, tool) ==
  /\ label \in {"embed", "actual"} => tool = "set"
  /\ label \in {"stmt", "vector"} => tool \in {"set", "delete"}
  /\ label \in {"row", "events"} => tool = "get"
  /\ label \in {"scan", "query"} => tool = "search"
  /\ label = "select" => tool \in {"list", "history"}
  /\ label \in Logging => tool \in {"set", "delete", "get", "search", "lock_hold"}

\* A call under way is the process's own, was not refused, and knows of a lost
\* race or of a best hit only where the code has set them.
CallInv(p) ==
  /\ pc[p] = "idle" => cas[p] = NotLost
  /\ pc[p] # "idle" =>
    /\ serial[p] \in DOMAIN calls
    /\ calls[serial[p]].process = p
    /\ pc[p] # "refuse" => ~Refused(p, Req(p))
    /\ OnItsPath(pc[p], Req(p).tool)
    /\ cas[p].failed => Req(p).tool = "set" /\ pc[p] \in Logging \union {"reply"}
    /\ ~cas[p].failed => cas[p] = NotLost
    /\ Req(p).tool = "search" /\ pc[p] \in Logging \union {"query"} => DOMAIN found[p].facts # {}

\* The calls of a process between its first write statement and the end of its
\* transaction, and no others, hold the lock.
Holding(p) ==
  \/ pc[p] \in {"actual", "vector", "tail", "insert", "commit"}
  \/ pc[p] \in {"log", "append"} /\ Req(p).tool \in {"set", "delete"}

LockInv == \A p \in Process : InTransaction(p) <=> Holding(p)

\* The audit row of the transaction is in the draft from "commit" on, under
\* the head and the number that are still the committed ones.
DraftEventsInv(p) ==
  /\ pc[p] \in {"insert", "commit"} =>
       tail[p] = [hash |-> ChainHead(LastCommitted.events), seq |-> LastCommitted.seq]
  /\ pc[p] # "commit" =>
       draft.events = LastCommitted.events /\ draft.seq = LastCommitted.seq
  /\ pc[p] = "commit" =>
       /\ draft.events = Append(LastCommitted.events, NewEvent(p))
       /\ draft.seq = NewEvent(p).id

\* The write of memory_set took place, and its condition held.
FactWritten(p) ==
  LET old == LastCommitted.facts  new == draft.facts  k == Req(p).key IN
  /\ new = [old EXCEPT ![k] = new[k]]
  /\ new[k] # None
  /\ new[k].value = Req(p).value
  /\ new[k].source = ClientId(p)
  /\ WriteMatches(Req(p), old)

\* The write of memory_set was refused: its condition did not hold.
FactKept(p) ==
  LET old == LastCommitted.facts  k == Req(p).key IN
  /\ draft.facts = old
  /\ ~WriteMatches(Req(p), old)
  /\ cas[p].failed => cas[p].actual = IF old[k] = None THEN None ELSE old[k].value

\* The facts of the draft are the committed ones, changed as the call asks.
DraftFactsInv(p) ==
  LET lost == cas[p].failed \/ pc[p] = "actual" IN
  /\ Req(p).tool = "set" /\ ~lost => FactWritten(p)
  /\ Req(p).tool = "set" /\ lost => FactKept(p)
  /\ Req(p).tool = "delete" => draft.facts = [LastCommitted.facts EXCEPT ![Req(p).key] = None]
  /\ Req(p).tool \notin {"set", "delete"} => draft.facts = LastCommitted.facts

DraftInv ==
  \A p \in Process : InTransaction(p) => DraftEventsInv(p) /\ DraftFactsInv(p)

\* Ids count the rows: a rolled back transaction gives its number back.
Numbered(database) ==
  /\ \A i \in DOMAIN database.events : database.events[i].id = i
  /\ database.seq = Len(database.events)

FactsShown(database) ==
  \A k \in Key : AuditShows(database.events, Len(database.events), k, database.facts[k])

\* Every row belongs to a call.
RowsHaveCalls(database) ==
  \A i \in DOMAIN database.events : database.events[i].call \in DOMAIN calls

VersionInv(database) ==
  /\ Numbered(database)
  /\ ChainVerifies(database.events)
  /\ FactsShown(database)
  /\ RowsHaveCalls(database)

\* The inductive invariant.
IInv ==
  /\ TypeOK
  /\ \A p \in Process : CallInv(p)
  /\ LockInv
  /\ DraftInv
  /\ \A v \in DOMAIN wal : VersionInv(wal[v])

\* Whatever key a list that has read its rows was given as prefix, the texts
\* its LIKE selected are those that start with it (LikePrefix; memory_server.py:458).
ListFindsItsPrefix ==
  \A p \in Process : At(p, "reply") /\ Req(p).tool = "list" => PrefixesMatch

====
