---- MODULE MemoryStore ----
(***************************************************************************)
(* The memory server, server/memory_server.py: several server processes    *)
(* over one SQLite file, each running one tool call at a time              *)
(* (_SERVER_LOCK), every write statement, audit append, commit, rollback   *)
(* and reply a step of its own, so that the calls of different processes   *)
(* interleave the way busy_timeout and the write lock let them.            *)
(*                                                                         *)
(* A row of the events table carries, beside its columns, the number of    *)
(* the call that appended it (a history variable no step reads).  An       *)
(* embedding is the value it was computed from.                            *)
(***************************************************************************)
EXTENDS AuditChain, SqliteWal

CONSTANTS
  Key, Value,     \* what _validate accepts
  BadKey,         \* keys it refuses: empty or longer than MAX_KEY_LEN
  BadValue,       \* values longer than MAX_VALUE_LEN
  Client,         \* client ids; a process's MCP_CLIENT_ID is the process
  None,
  Embedders,      \* the processes that run with MCP_EMBEDDINGS on
  ReadLoggers,    \* the processes that run with MCP_LOG_READS on
  Requests,       \* the tool calls the clients make
  MaxCalls,       \* bound: how many calls they make
  MaxClock        \* bound: the last millisecond

SetRequest ==
  [tool: {"set"}, key: Key \union BadKey, value: Value \union BadValue,
   claimed: Client \union {None}, expected: Value \union {None},
   absent: BOOLEAN, events: {FALSE}]

KeyRequest ==
  [tool: {"get", "delete", "history"}, key: Key \union BadKey, value: {None},
   claimed: Client \union {None}, expected: {None}, absent: {FALSE}, events: BOOLEAN]

StoreRequest ==
  [tool: {"list", "search", "lock_hold"}, key: {None}, value: {None},
   claimed: {None}, expected: {None}, absent: {FALSE}, events: {FALSE}]

Request == SetRequest \union KeyRequest \union StoreRequest

\* Milliseconds since the store was created.
Time == 0..MaxClock

\* A row of the facts table.
Fact == [value: Value, source: Client, updated: Time]

ASSUME StoreAssumption ==
  /\ Process \subseteq Client
  /\ Key \intersect BadKey = {}
  /\ Value \intersect BadValue = {}
  /\ None \notin Key \union BadKey \union Value \union BadValue \union Client
  /\ None \notin Fact
  /\ None \notin [value: Value, source: Client]
  /\ Embedders \subseteq Process
  /\ ReadLoggers \subseteq Process
  /\ Requests \subseteq Request
  /\ MaxCalls \in Nat
  /\ MaxClock \in Nat

VARIABLES
  pc,         \* where each process is in its tool call
  serial,     \* the number of that call
  cas,        \* cas_failure, and the value it reports
  found,      \* the rows a read has fetched, and how much history it saw
  now,        \* the timestamp taken for the next statement
  tail,       \* the chain head and the sequence number append has read
  clock,      \* the wall clock, and (history) whether it has only gone forward
  calls,      \* history: every call made, and what its client was told
  powerLost   \* history: the machine has lost power

process == <<pc, serial, cas, found, now, tail>>
vars == <<sqlite, process, clock, calls, powerLost>>

Action == {"set", "cas_fail", "delete", "get", "search", "lock_hold"}
EventFields ==
  [id: Nat, timestamp: Time, client: Client, action: Action,
   key: Key \union {None}, value: Value \union {None}]
Event ==
  [id: Nat, timestamp: Time, client: Client, action: Action,
   key: Key \union {None}, value: Value \union {None},
   prev_hash: Seq(EventFields), event_hash: Seq(EventFields), call: Nat]

\* The three tables, and the events row of sqlite_sequence.
Database ==
  [facts: [Key -> Fact \union {None}], vectors: [Key -> Value \union {None}],
   events: Seq(Event), seq: Nat]

EmptyDatabase ==
  [facts |-> [k \in Key |-> None], vectors |-> [k \in Key |-> None],
   events |-> <<>>, seq |-> 0]

NotLost == [failed |-> FALSE, actual |-> None]
NoRows == [k \in {} |-> None]
Nothing == [facts |-> NoRows, upTo |-> 0]
NoTail == [hash |-> GENESIS, seq |-> 0]

Init ==
  /\ Open(EmptyDatabase)
  /\ pc = [p \in Process |-> "idle"]
  /\ serial = [p \in Process |-> 0]
  /\ cas = [p \in Process |-> NotLost]
  /\ found = [p \in Process |-> Nothing]
  /\ now = [p \in Process |-> 0]
  /\ tail = [p \in Process |-> NoTail]
  /\ clock = [time |-> 0, steady |-> TRUE]
  /\ calls = <<>>
  /\ powerLost = FALSE

Req(p) == calls[serial[p]].request

At(p, label) == pc[p] = label
Goto(p, label) == pc' = [pc EXCEPT ![p] = label]

\* A row of facts or of fact_embeddings replaced.
PutFact(database, k, fact) == [database EXCEPT !.facts[k] = fact]
PutVector(database, k, vector) == [database EXCEPT !.vectors[k] = vector]

----------------------------------------------------------------------------
(* The life of a call. *)

\* What the ToolErrors raised before the database is touched refuse.
Refused(p, request) ==
  \/ request.tool = "set" /\ request.absent /\ request.expected # None
  \/ request.tool \in {"set", "get", "delete"} /\ request.key \notin Key
  \/ request.tool = "set" /\ request.value \notin Value
  \/ request.tool = "search" /\ p \notin Embedders

\* Where each tool starts once its arguments are checked.
Entry(p, request) ==
  IF Refused(p, request) THEN "refuse" ELSE
  CASE request.tool = "set" -> "embed"
    [] request.tool = "delete" -> "stmt"
    [] request.tool = "get" -> "row"
    [] request.tool = "search" -> "scan"
    [] request.tool \in {"list", "history"} -> "select"
    [] OTHER -> "log"

\* A client's call reaches the server and is given the server lock.
Receive(p, request) ==
  /\ At(p, "idle")
  /\ Len(calls) < MaxCalls
  /\ calls' = Append(calls, [process |-> p, request |-> request, answer |-> "pending",
                             since |-> Len(LastCommitted.events)])
  /\ serial' = [serial EXCEPT ![p] = Len(calls) + 1]
  /\ Goto(p, Entry(p, request))
  /\ UNCHANGED <<sqlite, cas, found, now, tail, clock, powerLost>>

\* The call ends; its locals go with it.
Return(p, answer) ==
  /\ Goto(p, "idle")
  /\ calls' = [calls EXCEPT ![serial[p]].answer = answer]
  /\ cas' = [cas EXCEPT ![p] = NotLost]
  /\ found' = [found EXCEPT ![p] = Nothing]
  /\ now' = [now EXCEPT ![p] = 0]
  /\ tail' = [tail EXCEPT ![p] = NoTail]
  /\ UNCHANGED <<serial, clock, powerLost>>

Refuse(p) ==
  /\ At(p, "refuse")
  /\ Return(p, "error")
  /\ UNCHANGED sqlite

\* What the tool says of a call that ran to its end.
Outcome(p) ==
  CASE Req(p).tool = "set" /\ cas[p].failed -> "cas_fail"
    [] Req(p).tool = "get" /\ found[p].facts[Req(p).key] = None -> "missing"
    [] Req(p).tool = "search" /\ DOMAIN found[p].facts = {} -> "empty"
    [] OTHER -> "done"

Reply(p) ==
  /\ At(p, "reply")
  /\ Return(p, Outcome(p))
  /\ UNCHANGED sqlite

----------------------------------------------------------------------------
(* memory_set and memory_delete: the statements of one transaction. *)

\* The embedding is computed, and the timestamp of the write taken, before
\* the transaction asks for the write lock.
Embed(p) ==
  /\ At(p, "embed")
  /\ now' = [now EXCEPT ![p] = clock.time]
  /\ Goto(p, "stmt")
  /\ UNCHANGED <<sqlite, serial, cas, found, tail, clock, calls, powerLost>>

\* The WHERE clause or the primary key of the three forms of the write.
WriteMatches(request, facts) ==
  LET fact == facts[request.key] IN
  /\ request.absent => fact = None
  /\ request.expected # None => fact # None /\ fact.value = request.expected

\* _client_id: only memory_set and memory_delete let the caller name itself.
ClientId(p) == IF Req(p).claimed = None THEN p ELSE Req(p).claimed

\* Mutant of SetFact: isolation_level=None, each statement commits by itself.
SetFactAutocommitted(p) ==
  /\ At(p, "stmt") /\ Req(p).tool = "set"
  /\ WriteMatches(Req(p), View(p).facts)
  /\ ~Locked(p)
  /\ wal' = Append(wal, PutFact(LastCommitted, Req(p).key,
       [value |-> Req(p).value, source |-> ClientId(p), updated |-> now[p]]))
  /\ Goto(p, "log")
  /\ UNCHANGED <<draft, writer, serial, cas, found, now, tail, clock, calls, powerLost>>

SetFact(p) ==
  /\ At(p, "stmt") /\ Req(p).tool = "set"
  /\ WriteMatches(Req(p), View(p).facts)
  /\ Write(p, PutFact(View(p), Req(p).key,
       [value |-> Req(p).value, source |-> ClientId(p), updated |-> now[p]]))
  /\ Goto(p, IF p \in Embedders THEN "vector" ELSE "log")
  /\ UNCHANGED <<serial, cas, found, now, tail, clock, calls, powerLost>>

\* Mutant of LoseCas: the refused write leaves no transaction open.
LoseCasUnlocked(p) ==
  /\ At(p, "stmt") /\ Req(p).tool = "set"
  /\ ~WriteMatches(Req(p), View(p).facts)
  /\ ~Locked(p)
  /\ Goto(p, "actual")
  /\ UNCHANGED <<sqlite, serial, cas, found, now, tail, clock, calls, powerLost>>

\* Mutant of LoseCas: a lost race is rolled back and tried again.
LoseCasRetried(p) ==
  /\ At(p, "stmt") /\ Req(p).tool = "set"
  /\ ~WriteMatches(Req(p), View(p).facts)
  /\ ~Locked(p)
  /\ Goto(p, "embed")
  /\ UNCHANGED <<sqlite, serial, cas, found, now, tail, clock, calls, powerLost>>

\* An UPDATE of no row and an INSERT refused by the key take the lock too.
LoseCas(p) ==
  /\ At(p, "stmt") /\ Req(p).tool = "set"
  /\ ~WriteMatches(Req(p), View(p).facts)
  /\ Write(p, View(p))
  /\ Goto(p, "actual")
  /\ UNCHANGED <<serial, cas, found, now, tail, clock, calls, powerLost>>

\* Mutant of ReadActual: reports the row, not its value.
ReadActualRow(p) ==
  /\ At(p, "actual")
  /\ cas' = [cas EXCEPT ![p] = [failed |-> TRUE, actual |-> View(p).facts[Req(p).key]]]
  /\ Goto(p, "log")
  /\ UNCHANGED <<sqlite, serial, found, now, tail, clock, calls, powerLost>>

ReadActual(p) ==
  /\ At(p, "actual")
  /\ LET fact == View(p).facts[Req(p).key] IN
     cas' = [cas EXCEPT ![p] =
       [failed |-> TRUE, actual |-> IF fact = None THEN None ELSE fact.value]]
  /\ Goto(p, "log")
  /\ UNCHANGED <<sqlite, serial, found, now, tail, clock, calls, powerLost>>

SetVector(p) ==
  /\ At(p, "vector") /\ Req(p).tool = "set"
  /\ Write(p, PutVector(View(p), Req(p).key, Req(p).value))
  /\ Goto(p, "log")
  /\ UNCHANGED <<serial, cas, found, now, tail, clock, calls, powerLost>>

DeleteFact(p) ==
  /\ At(p, "stmt") /\ Req(p).tool = "delete"
  /\ Write(p, PutFact(View(p), Req(p).key, None))
  /\ Goto(p, "vector")
  /\ UNCHANGED <<serial, cas, found, now, tail, clock, calls, powerLost>>

\* Mutant of DeleteVector: the fact's vector is forgotten.
DeleteVectorForgotten(p) ==
  /\ At(p, "vector") /\ Req(p).tool = "delete"
  /\ Goto(p, "log")
  /\ UNCHANGED <<sqlite, serial, cas, found, now, tail, clock, calls, powerLost>>

DeleteVector(p) ==
  /\ At(p, "vector") /\ Req(p).tool = "delete"
  /\ Write(p, PutVector(View(p), Req(p).key, None))
  /\ Goto(p, "log")
  /\ UNCHANGED <<serial, cas, found, now, tail, clock, calls, powerLost>>

----------------------------------------------------------------------------
(* _log and audit.append, shared by every tool that leaves a row. *)

\* Mutant of LogAction: a lost race is logged like a write.
LogActionAlwaysTool(p) == Req(p).tool

LogAction(p) == IF Req(p).tool = "set" /\ cas[p].failed THEN "cas_fail" ELSE Req(p).tool

\* A search is logged under the key of its best hit.
Best(rows) == CHOOSE k \in DOMAIN rows : TRUE
LogKey(p) == IF Req(p).tool = "search" THEN Best(found[p].facts) ELSE Req(p).key

LogValue(p) == IF cas[p].failed THEN cas[p].actual ELSE Req(p).value

\* Mutant of Log: reuses the timestamp taken before the wait for the lock.
LogRestamped(p) ==
  /\ At(p, "log")
  /\ Goto(p, "append")
  /\ UNCHANGED <<sqlite, serial, cas, found, now, tail, clock, calls, powerLost>>

\* _now() is an argument of append: taken before append may wait.
Log(p) ==
  /\ At(p, "log")
  /\ now' = [now EXCEPT ![p] = clock.time]
  /\ Goto(p, "append")
  /\ UNCHANGED <<sqlite, serial, cas, found, tail, clock, calls, powerLost>>

\* Mutant of AppendBegin: without BEGIN IMMEDIATE.
AppendUnlocked(p) ==
  /\ At(p, "append")
  /\ Goto(p, "tail")
  /\ UNCHANGED <<sqlite, serial, cas, found, now, tail, clock, calls, powerLost>>

AppendBegin(p) ==
  /\ At(p, "append")
  /\ BeginImmediate(p)
  /\ Goto(p, "tail")
  /\ UNCHANGED <<serial, cas, found, now, tail, clock, calls, powerLost>>

ReadTail(p) ==
  /\ At(p, "tail")
  /\ tail' = [tail EXCEPT ![p] = [hash |-> ChainHead(View(p).events), seq |-> View(p).seq]]
  /\ Goto(p, "insert")
  /\ UNCHANGED <<sqlite, serial, cas, found, now, clock, calls, powerLost>>

\* The row append inserts, under the id and the head it has read.
NewEvent(p) ==
  LET fields == [id |-> tail[p].seq + 1, timestamp |-> now[p], client |-> ClientId(p),
                 action |-> LogAction(p), key |-> LogKey(p), value |-> LogValue(p)]
  IN  [id |-> fields.id, timestamp |-> fields.timestamp, client |-> fields.client,
       action |-> fields.action, key |-> fields.key, value |-> fields.value,
       prev_hash |-> tail[p].hash, event_hash |-> Digest(tail[p].hash, fields),
       call |-> serial[p]]

InsertEvent(p) ==
  /\ At(p, "insert")
  /\ Write(p, [View(p) EXCEPT !.events = Append(@, NewEvent(p)), !.seq = NewEvent(p).id])
  /\ Goto(p, "commit")
  /\ UNCHANGED <<serial, cas, found, now, tail, clock, calls, powerLost>>

\* `with db` ends normally.  A get that includes events then reads them, if
\* it has found its fact.
AfterRead(p) ==
  IF Req(p).tool = "get" /\ Req(p).events /\ found[p].facts[Req(p).key] # None
    THEN "events" ELSE "reply"

\* Mutant of CommitTx: a commit that is retried after it has succeeded.
CommitTxRetried(p) ==
  /\ At(p, "commit")
  /\ Commit(p)
  /\ \E label \in {AfterRead(p), "log"} : Goto(p, label)
  /\ UNCHANGED <<serial, cas, found, now, tail, clock, calls, powerLost>>

CommitTx(p) ==
  /\ At(p, "commit")
  /\ Commit(p)
  /\ Goto(p, AfterRead(p))
  /\ UNCHANGED <<serial, cas, found, now, tail, clock, calls, powerLost>>

----------------------------------------------------------------------------
(* Reads. *)

\* The rows of the keys in ks, as the connection sees them.
Rows(p, ks) ==
  [facts |-> [k \in ks |-> View(p).facts[k]], upTo |-> Len(View(p).events)]

Fetch(p, ks, next) ==
  /\ found' = [found EXCEPT ![p] = Rows(p, ks)]
  /\ Goto(p, next)
  /\ UNCHANGED <<sqlite, serial, cas, now, tail, clock, calls, powerLost>>

\* Mutant of GetRow: a read snapshot that an earlier call has left open.
GetRowStale(p) ==
  LET k == Req(p).key IN
  /\ At(p, "row")
  /\ found' = [found EXCEPT ![p] =
       [facts |-> [x \in {k} |-> wal[1].facts[x]], upTo |-> Len(View(p).events)]]
  /\ Goto(p, IF p \in ReadLoggers THEN "log" ELSE "reply")
  /\ UNCHANGED <<sqlite, serial, cas, now, tail, clock, calls, powerLost>>

GetRow(p) ==
  LET k == Req(p).key IN
  /\ At(p, "row")
  /\ Fetch(p, {k}, IF p \in ReadLoggers THEN "log"
                   ELSE IF Req(p).events /\ View(p).facts[k] # None THEN "events" ELSE "reply")

\* The second read of memory_get: the key's history, in a later snapshot.
Events(p) ==
  /\ At(p, "events")
  /\ found' = [found EXCEPT ![p].upTo = Len(View(p).events)]
  /\ Goto(p, "reply")
  /\ UNCHANGED <<sqlite, serial, cas, now, tail, clock, calls, powerLost>>

\* memory_list (every fact: the prefix is filtered by SQLite) and
\* memory_history, which reads no fact.
Select(p) ==
  /\ At(p, "select")
  /\ Fetch(p, IF Req(p).tool = "list" THEN Key ELSE {}, "reply")

\* facts JOIN fact_embeddings.
Searchable(database) == {k \in Key : database.facts[k] # None /\ database.vectors[k] # None}

ScanEmpty(p) ==
  /\ At(p, "scan")
  /\ Searchable(View(p)) = {}
  /\ Fetch(p, {}, "reply")

\* Any searchable fact may score best; only the best one is kept here.
ScanHit(p) ==
  /\ At(p, "scan")
  /\ \E best \in Searchable(View(p)) : Fetch(p, {best}, "query")

\* The query is embedded and the rows ranked; nothing is locked meanwhile.
Query(p) ==
  /\ At(p, "query")
  /\ Goto(p, "log")
  /\ UNCHANGED <<sqlite, serial, cas, found, now, tail, clock, calls, powerLost>>

----------------------------------------------------------------------------
(* Failures. *)

\* The wait for the write lock outlasts busy_timeout.
Busy(p) ==
  /\ pc[p] \in {"stmt", "append"}
  /\ Locked(p)
  /\ Rollback(p)
  /\ Return(p, "error")

\* The model cannot be loaded or fails on its input.
EmbedFails(p) ==
  /\ pc[p] \in {"embed", "query"} /\ p \in Embedders
  /\ Return(p, "error")
  /\ UNCHANGED sqlite

\* Mutants of TxFails: the error path commits, or leaves the transaction open.
TxFailsCommits(p) ==
  /\ InTransaction(p)
  /\ Commit(p)
  /\ Return(p, "error")

TxFailsOpen(p) ==
  /\ InTransaction(p)
  /\ Return(p, "error")
  /\ UNCHANGED sqlite

\* A statement or the COMMIT fails (disk full, I/O error): `with db` rolls back.
TxFails(p) ==
  /\ InTransaction(p)
  /\ Rollback(p)
  /\ Return(p, "error")

\* So may a statement outside a transaction, or the one that would open it: a
\* get's row is committed by the time its history SELECT fails.
StatementFails(p) ==
  /\ pc[p] \in {"row", "events", "select", "scan", "stmt", "append"}
  /\ ~InTransaction(p)
  /\ Return(p, "error")
  /\ UNCHANGED sqlite

\* The server process dies, its client loses the call, a new one is spawned.
Crash(p) ==
  /\ ~At(p, "idle")
  /\ Rollback(p)
  /\ Return(p, "lost")

\* The machine loses power: the calls in flight and the unsynced commits go.
PowerLoss ==
  /\ ~powerLost
  /\ LosePower
  /\ calls' = [n \in DOMAIN calls |->
       IF calls[n].answer = "pending" THEN [calls[n] EXCEPT !.answer = "lost"] ELSE calls[n]]
  /\ pc' = [p \in Process |-> "idle"]
  /\ cas' = [p \in Process |-> NotLost]
  /\ found' = [p \in Process |-> Nothing]
  /\ now' = [p \in Process |-> 0]
  /\ tail' = [p \in Process |-> NoTail]
  /\ powerLost' = TRUE
  /\ UNCHANGED <<serial, clock>>

Checkpoint == Sync /\ UNCHANGED <<process, clock, calls, powerLost>>

\* The machine's clock moves on, or is set, back as well as forward.
Tick ==
  /\ \E t \in Time \ {clock.time} :
       clock' = [time |-> t, steady |-> clock.steady /\ clock.time < t]
  /\ UNCHANGED <<sqlite, process, calls, powerLost>>

\* All calls made and answered: the only state in which a run may stop.
Quiescent ==
  /\ Len(calls) = MaxCalls
  /\ \A p \in Process : At(p, "idle")
  /\ UNCHANGED vars

----------------------------------------------------------------------------
\* What process p does by itself, faults aside.
Step(p) ==
  \/ Refuse(p) \/ Reply(p) \/ Busy(p)
  \/ Embed(p) \/ SetFact(p) \/ LoseCas(p) \/ ReadActual(p) \/ SetVector(p)
  \/ DeleteFact(p) \/ DeleteVector(p)
  \/ Log(p) \/ AppendBegin(p) \/ ReadTail(p) \/ InsertEvent(p) \/ CommitTx(p)
  \/ GetRow(p) \/ Events(p) \/ Select(p) \/ ScanEmpty(p) \/ ScanHit(p) \/ Query(p)

Fault(p) == EmbedFails(p) \/ TxFails(p) \/ StatementFails(p) \/ Crash(p)

Next ==
  \/ \E p \in Process :
       \/ \E request \in Requests : Receive(p, request)
       \/ Step(p)
       \/ Fault(p)
  \/ PowerLoss \/ Checkpoint \/ Tick \/ Quiescent

Spec == Init /\ [][Next]_vars

\* A running process takes its next step: busy_timeout bounds the only wait.
FairSpec == Spec /\ \A p \in Process : WF_vars(Step(p))

----------------------------------------------------------------------------
(* Properties. *)

Label == {"idle", "refuse", "embed", "stmt", "actual", "vector", "log", "append", "tail",
          "insert", "commit", "row", "events", "select", "scan", "query", "reply"}
Answer == {"pending", "done", "cas_fail", "missing", "empty", "error", "lost"}
Call == [process: Process, request: Request, answer: Answer, since: Nat]
SomeRows == UNION {[ks -> Fact \union {None}] : ks \in SUBSET Key}
Found == [facts: SomeRows, upTo: Nat]

\* Types of every variable.
TypeOK ==
  /\ wal \in Seq(Database) /\ wal # <<>>
  /\ draft \in Database
  /\ writer \in Process \union {NoProcess}
  /\ pc \in [Process -> Label]
  /\ serial \in [Process -> Nat]
  /\ cas \in [Process -> [failed: BOOLEAN, actual: Value \union {None}]]
  /\ found \in [Process -> Found]
  /\ now \in [Process -> Time]
  /\ tail \in [Process -> [hash: Seq(EventFields), seq: Nat]]
  /\ clock \in [time: Time, steady: BOOLEAN]
  /\ calls \in Seq(Call)
  /\ powerLost \in BOOLEAN

\* The rows that change a fact, and the last of them among the first n rows.
Writes(event, k) == event.key = k /\ event.action \in {"set", "delete"}
LastWrite(events, n, k, i) ==
  /\ i \in 1..n
  /\ Writes(events[i], k)
  /\ \A j \in i + 1 .. n : ~Writes(events[j], k)

\* The fact a reader of the first n audit rows would expect under key k.
AuditShows(events, n, k, fact) ==
  IF fact = None
    THEN \A i \in 1..n : LastWrite(events, n, k, i) => events[i].action = "delete"
    ELSE \E i \in 1..n :
           /\ LastWrite(events, n, k, i)
           /\ events[i].action = "set"
           /\ fact.value = events[i].value
           /\ fact.source = events[i].client

\* "fact update + event insert commit together" (memory_server.py:335): in no
\* committed version, one a power loss may fall back to included, do the facts
\* differ from what the audit trail says of them, author included.
FactsMatchAudit ==
  \A v \in DOMAIN wal, k \in Key :
    AuditShows(wal[v].events, Len(wal[v].events), k, wal[v].facts[k])

\* audit.verify accepts every committed version, with ids that never repeat.
AuditChainIntact ==
  \A v \in DOMAIN wal : Verifies(wal[v].events) /\ IdsIncrease(wal[v].events)

\* The audit rows call n has left, and whether an answered call owes one.
RowsOf(n) == {i \in DOMAIN LastCommitted.events : LastCommitted.events[i].call = n}
OwesRow(call) ==
  \/ call.request.tool \in {"set", "delete", "lock_hold"}
  \/ call.request.tool = "get" /\ call.process \in ReadLoggers
  \/ call.request.tool = "search" /\ call.answer # "empty"

\* A call that still reads when its row is committed (memory_server.py:439).
ReadsAfterRow(call) ==
  call.request.tool = "get" /\ call.request.events /\ call.process \in ReadLoggers

\* A call leaves at most one audit row whatever becomes of it; a call that
\* failed left none, unless what failed is a get's SELECT after its row; and one
\* that succeeded, or lost its race, left its own (a power loss aside).
AnswerMatchesAudit ==
  \A n \in DOMAIN calls :
    /\ \A i, j \in RowsOf(n) : i = j
    /\ calls[n].answer = "error" /\ ~ReadsAfterRow(calls[n]) => RowsOf(n) = {}
    /\ calls[n].answer \in {"done", "cas_fail", "missing", "empty"} /\ ~powerLost =>
         (RowsOf(n) # {} <=> OwesRow(calls[n]))
    /\ \A i \in RowsOf(n) :
         calls[n].answer \in {"done", "cas_fail"} =>
           (LastCommitted.events[i].action = "cas_fail" <=> calls[n].answer = "cas_fail")

\* Compare-and-swap and create-only decide on the fact as it stood right before
\* their own row, no write of another process in between; a loser is told the
\* value that beat it ("'<unknown>'", memory_server.py:347, is never reported).
CasDecidesOnCurrent ==
  LET events == LastCommitted.events
      Stood(i, k, value) ==   \* the value of k before row i
        IF value = None
          THEN AuditShows(events, i - 1, k, None)
          ELSE \E j \in 1 .. i - 1 : /\ LastWrite(events, i - 1, k, j)
                                     /\ events[j].action = "set"
                                     /\ events[j].value = value
  IN \A i \in DOMAIN events :
       LET request == calls[events[i].call].request IN
       /\ events[i].action = "set" /\ request.absent => Stood(i, request.key, None)
       /\ events[i].action = "set" /\ request.expected # None =>
            Stood(i, request.key, request.expected)
       /\ events[i].action = "cas_fail" =>
            /\ Stood(i, request.key, events[i].value)
            /\ request.absent => events[i].value # None
            /\ request.expected # None => events[i].value # request.expected

\* What a read returns was the committed state at one moment of the call: for
\* every fact it holds, one and the same prefix of the audit trail, no shorter
\* than the trail at the call's start, no longer than the history it has seen.
ReadsAreCurrent ==
  \A p \in Process :
    DOMAIN found[p].facts # {} =>
      \E n \in calls[serial[p]].since .. found[p].upTo :
        \A k \in DOMAIN found[p].facts :
          AuditShows(LastCommitted.events, n, k, found[p].facts[k])

\* A vector belongs to a fact; where every process embeds, each fact has the
\* vector of its present value ("mirrors facts.key", memory_server.py:181).
VectorsMirrorFacts ==
  \A v \in DOMAIN wal, k \in Key :
    LET fact == wal[v].facts[k]  vector == wal[v].vectors[k] IN
    IF Embedders = Process
      THEN vector = IF fact = None THEN None ELSE fact.value
      ELSE fact = None => vector = None

\* What a search ranks a fact by was computed from the fact's present value.
SearchVectorsCurrent ==
  \A k \in Searchable(LastCommitted) :
    LastCommitted.vectors[k] = LastCommitted.facts[k].value

\* "Every search is audit-logged" (README.md:182): an answered search has left
\* its row, one that found nothing to rank (memory_server.py:485) included.
EverySearchAudited ==
  \A n \in DOMAIN calls :
    /\ calls[n].request.tool = "search"
    /\ calls[n].answer \in {"done", "empty"}
    /\ ~powerLost
    => RowsOf(n) # {}

\* The rows of writes are stamped under the write lock: as long as the wall clock
\* has not been set back, their timestamps rise with their ids, however long each
\* call has waited.
WriteTimestampsOrdered ==
  clock.steady => \A v \in DOMAIN wal : \A i, j \in DOMAIN wal[v].events :
    LET e == wal[v].events[i]  f == wal[v].events[j] IN
    i < j /\ {e.action, f.action} \subseteq {"set", "cas_fail", "delete"} =>
      e.timestamp <= f.timestamp

\* Every call is answered, however the processes contend for the write lock.
EveryCallReturns ==
  \A n \in 1..MaxCalls :
    (n \in DOMAIN calls /\ calls[n].answer = "pending") ~>
      (n \in DOMAIN calls /\ calls[n].answer # "pending")

\* No call, failed or not, leaves its process holding the write lock.
WriteLockReleased == \A p \in Process : InTransaction(p) ~> ~InTransaction(p)

----------------------------------------------------------------------------
(* The store implements AuditedStore. *)

AbstractFact(fact) ==
  IF fact = None THEN None ELSE [value |-> fact.value, source |-> fact.source]

\* An audit row, with the condition of the call that left it.
AbstractEntry(event) ==
  [client |-> event.client, action |-> event.action, key |-> event.key,
   value |-> event.value,
   condition |-> [absent |-> calls[event.call].request.absent,
                  expected |-> calls[event.call].request.expected]]

AbstractVersion(database) ==
  [facts |-> [k \in Key |-> AbstractFact(database.facts[k])],
   log |-> [i \in DOMAIN database.events |-> AbstractEntry(database.events[i])]]

Audited == INSTANCE AuditedStore
  WITH versions <- [v \in DOMAIN wal |-> AbstractVersion(wal[v])]

\* However the calls of the processes interleave, fail or are cut off, the
\* committed versions evolve as if each logged call were one atomic step.
ImplementsAuditedStore == Audited!Spec

====
