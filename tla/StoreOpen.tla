---- MODULE StoreOpen ----
(***************************************************************************)
(* Opening the store: _db and _initialize_db of server/memory_server.py    *)
(* and migrate of server/audit.py, run by several new servers at once over *)
(* a fresh file or one that older servers wrote and still write to.        *)
(*                                                                         *)
(* A write of an open server is one step here; MemoryStore has its         *)
(* statements.  The older servers are external: they know neither the hash *)
(* columns nor the trigger.                                                *)
(***************************************************************************)
EXTENDS AuditChain, SqliteWal

CONSTANTS
  Server,        \* the processes that run this version; the others are older
  Null,          \* NULL in a hash column
  LegacyRows,    \* how many rows a legacy file may have
  MaxWrites,     \* bound: writes committed while the model runs
  MaxCrashes     \* bound: processes that die

ASSUME OpenAssumption ==
  /\ Server \subseteq Process
  /\ LegacyRows \subseteq Nat
  /\ MaxWrites \in Nat
  /\ MaxCrashes \in Nat

VARIABLES
  pc,        \* where each process is
  sealing,   \* migrate's locals: rows yet to visit, and the running digest
  writes,    \* history: writes committed so far
  crashes    \* history: processes that died

local == <<pc, sealing>>
vars == <<sqlite, local, writes, crashes>>

Legacy == Process \ Server
Tables == {"facts", "events", "fact_embeddings"}

\* A row of the events table; what it says is its author.
Row(id, author, previous, digest) ==
  [id |-> id, timestamp |-> 0, client |-> author, action |-> "set", key |-> Null,
   value |-> Null, prev_hash |-> previous, event_hash |-> digest]

\* The row an append under the lock adds to a sealed table.
ChainedRow(database, author) ==
  LET head == ChainHead(database.events)
      id == database.seq + 1
  IN  Row(id, author, head, Digest(head, Fields(Row(id, author, head, head))))

LegacyRow(database, author) == Row(database.seq + 1, author, Null, Null)

\* Every write of a fact is counted; its row goes with it.
WithFact(database) == [database EXCEPT !.facts = @ + 1]
WithRow(database, row) == [database EXCEPT !.events = Append(@, row), !.seq = row.id]

FreshFile ==
  [journal |-> "delete", tables |-> {}, chained |-> FALSE, trigger |-> FALSE,
   facts |-> 0, events |-> <<>>, seq |-> 0]

\* The older versions created no vectors and left gaps in the ids.
LegacyFile(n, journal) ==
  [journal |-> journal, tables |-> {"facts", "events"}, chained |-> FALSE, trigger |-> FALSE,
   facts |-> n, events |-> [i \in 1..n |-> Row(2 * i, Null, Null, Null)], seq |-> 2 * n]

Migrating == {"recheck", "alter", "select", "seal", "trigger", "commit"}
Opening == {"journal", "check", "begin"} \union Tables \union Migrating

NotSealing == [rows |-> <<>>, previous |-> GENESIS]

Init ==
  /\ \/ Open(FreshFile)
     \/ \E n \in LegacyRows, journal \in {"delete", "wal"} : Open(LegacyFile(n, journal))
  /\ pc = [p \in Process |-> IF p \in Server THEN "closed" ELSE "open"]
  /\ sealing = [p \in Process |-> NotSealing]
  /\ writes = 0
  /\ crashes = 0

At(p, label) == pc[p] = label
Goto(p, label) == pc' = [pc EXCEPT ![p] = label]
Move(p, label) == Goto(p, label) /\ UNCHANGED <<sealing, writes, crashes>>

\* A statement outside a transaction: it takes and leaves the write lock.
Autocommit(p, database) ==
  /\ ~Locked(p)
  /\ wal' = Append(wal, database)
  /\ UNCHANGED <<draft, writer>>

----------------------------------------------------------------------------
(* _db and _initialize_db. *)

\* The first call of a process finds no connection.
Connect(p) ==
  /\ At(p, "closed")
  /\ Move(p, "journal") /\ UNCHANGED sqlite

\* PRAGMA journal_mode=WAL writes the file unless it is in that mode.
JournalMode(p) ==
  /\ At(p, "journal")
  /\ IF LastCommitted.journal = "wal"
       THEN UNCHANGED sqlite
       ELSE Autocommit(p, [LastCommitted EXCEPT !.journal = "wal"])
  /\ Move(p, "facts")

\* The statements of executescript commit one by one.
NextStatement == [facts |-> "events", events |-> "fact_embeddings", fact_embeddings |-> "check"]

CreateTable(p) ==
  /\ pc[p] \in Tables
  /\ IF pc[p] \in LastCommitted.tables
       THEN UNCHANGED sqlite
       ELSE Autocommit(p, [LastCommitted EXCEPT !.tables = @ \union {pc[p]}])
  /\ Move(p, NextStatement[pc[p]])

\* What p had not committed is rolled back, and its locals go.
GiveUp(p, label) ==
  /\ Rollback(p)
  /\ Goto(p, label)
  /\ sealing' = [sealing EXCEPT ![p] = NotSealing]

\* Mutant of OpenFails: the half-initialised connection is kept.
OpenFailsKept(p) ==
  /\ pc[p] \in Opening
  /\ GiveUp(p, "open")
  /\ UNCHANGED <<writes, crashes>>

\* busy_timeout expires on another's lock, or a statement fails: the connection
\* is closed, and none is kept for the next call.
OpenFails(p) ==
  /\ pc[p] \in Opening
  /\ GiveUp(p, "closed")
  /\ UNCHANGED <<writes, crashes>>

----------------------------------------------------------------------------
(* migrate. *)

Check(p) ==
  /\ At(p, "check")
  /\ Move(p, IF View(p).chained THEN "open" ELSE "begin") /\ UNCHANGED sqlite

\* Mutant of Begin: the lock is left to the first UPDATE.
BeginDeferred(p) ==
  /\ At(p, "begin")
  /\ Move(p, "recheck") /\ UNCHANGED sqlite

Begin(p) ==
  /\ At(p, "begin")
  /\ BeginImmediate(p)
  /\ Move(p, "recheck")

\* Mutant of Recheck: what the unlocked check said is trusted.
RecheckSkipped(p) ==
  /\ At(p, "recheck")
  /\ Move(p, "alter") /\ UNCHANGED sqlite

\* Another server has sealed the table meanwhile: `with db` commits nothing.
Recheck(p) ==
  /\ At(p, "recheck")
  /\ IF View(p).chained
       THEN Rollback(p) /\ Move(p, "open")
       ELSE UNCHANGED sqlite /\ Move(p, "alter")

\* Mutant of Alter: the table is rebuilt, and its rows get new ids.
AlterRebuilt(p) ==
  /\ At(p, "alter")
  /\ Write(p, [View(p) EXCEPT
       !.chained = TRUE, !.events = [i \in DOMAIN @ |-> [@[i] EXCEPT !.id = i]]])
  /\ Move(p, "select")

\* Both columns are added; that can be done once.
Alter(p) ==
  /\ At(p, "alter")
  /\ ~View(p).chained
  /\ Write(p, [View(p) EXCEPT !.chained = TRUE])
  /\ Move(p, "select")

\* Mutant of SelectRows: the digest starts from the last row's, as in append.
SelectRowsFromTail(p) ==
  /\ At(p, "select")
  /\ sealing' = [sealing EXCEPT
       ![p] = [rows |-> View(p).events, previous |-> ChainHead(View(p).events)]]
  /\ Goto(p, "seal")
  /\ UNCHANGED <<sqlite, writes, crashes>>

SelectRows(p) ==
  /\ At(p, "select")
  /\ sealing' = [sealing EXCEPT ![p].rows = View(p).events]
  /\ Goto(p, "seal")
  /\ UNCHANGED <<sqlite, writes, crashes>>

\* UPDATE events SET prev_hash=?, event_hash=? WHERE id=?
WithHashes(row, previous, digest) == [row EXCEPT !.prev_hash = previous, !.event_hash = digest]

Hashed(events, id, previous, digest) ==
  [i \in DOMAIN events |->
     IF events[i].id = id THEN WithHashes(events[i], previous, digest) ELSE events[i]]

\* Mutants of SealRow: the running digest is not carried on, and the cursor
\* meets the rows it has updated again.
SealRowAlone(p) ==
  /\ At(p, "seal") /\ sealing[p].rows # <<>>
  /\ LET row == Head(sealing[p].rows)
         digest == Digest(GENESIS, Fields(row)) IN
     /\ Write(p, [View(p) EXCEPT !.events = Hashed(@, row.id, GENESIS, digest)])
     /\ sealing' = [sealing EXCEPT ![p].rows = Tail(@)]
  /\ UNCHANGED <<pc, writes, crashes>>

SealRowForever(p) ==
  /\ At(p, "seal") /\ sealing[p].rows # <<>>
  /\ LET row == Head(sealing[p].rows) IN
     /\ Write(p, [View(p) EXCEPT !.events = Hashed(@, row.id, GENESIS, Digest(GENESIS, Fields(row)))])
     /\ sealing' = [sealing EXCEPT ![p].rows = Append(Tail(@), row)]
  /\ UNCHANGED <<pc, writes, crashes>>

SealRow(p) ==
  /\ At(p, "seal") /\ sealing[p].rows # <<>>
  /\ LET row == Head(sealing[p].rows)
         digest == Digest(sealing[p].previous, Fields(row)) IN
     /\ Write(p, [View(p) EXCEPT !.events = Hashed(@, row.id, sealing[p].previous, digest)])
     /\ sealing' = [sealing EXCEPT ![p] = [rows |-> Tail(@.rows), previous |-> digest]]
  /\ UNCHANGED <<pc, writes, crashes>>

SealEnds(p) ==
  /\ At(p, "seal") /\ sealing[p].rows = <<>>
  /\ Move(p, "trigger") /\ UNCHANGED sqlite

\* Mutant of CreateTrigger: older servers are not kept out.
CreateTriggerForgotten(p) ==
  /\ At(p, "trigger")
  /\ Move(p, "commit") /\ UNCHANGED sqlite

CreateTrigger(p) ==
  /\ At(p, "trigger")
  /\ Write(p, [View(p) EXCEPT !.trigger = TRUE])
  /\ Move(p, "commit")

CommitSeal(p) ==
  /\ At(p, "commit")
  /\ Commit(p)
  /\ Goto(p, "open")
  /\ sealing' = [sealing EXCEPT ![p] = NotSealing]
  /\ UNCHANGED <<writes, crashes>>

----------------------------------------------------------------------------
(* Writes, and the end of a process. *)

\* A logged call of an open server.
Call(p) ==
  /\ p \in Server /\ At(p, "open")
  /\ writes < MaxWrites
  /\ Autocommit(p, WithRow(WithFact(LastCommitted), ChainedRow(LastCommitted, p)))
  /\ writes' = writes + 1
  /\ UNCHANGED <<local, crashes>>

\* An older server writes a fact ...
LegacyFact(p) ==
  /\ p \in Legacy /\ At(p, "open")
  /\ {"facts", "events"} \subseteq LastCommitted.tables
  /\ writes < MaxWrites
  /\ Write(p, WithFact(View(p)))
  /\ Goto(p, "log")
  /\ writes' = writes + 1
  /\ UNCHANGED <<sealing, crashes>>

\* ... and its event, which the trigger's RAISE(ABORT) refuses.
LegacyEvent(p) ==
  /\ p \in Legacy /\ At(p, "log")
  /\ IF View(p).trigger
       THEN Rollback(p)
       ELSE /\ wal' = Append(wal, WithRow(View(p), LegacyRow(View(p), p)))
            /\ writer' = NoProcess
            /\ UNCHANGED draft
  /\ Move(p, "open")

\* A process dies and is started again.
Crash(p) ==
  /\ crashes < MaxCrashes
  /\ pc[p] # "closed"
  /\ crashes' = crashes + 1
  /\ GiveUp(p, IF p \in Server THEN "closed" ELSE "open")
  /\ UNCHANGED writes

\* Everyone has opened the file and no write is left to make.
Quiescent ==
  /\ writes = MaxWrites
  /\ \A p \in Process : At(p, "open")
  /\ UNCHANGED vars

----------------------------------------------------------------------------
Step(p) ==
  \/ JournalMode(p) \/ CreateTable(p) \/ OpenFails(p)
  \/ Check(p) \/ Begin(p) \/ Recheck(p) \/ Alter(p)
  \/ SelectRows(p) \/ SealRow(p) \/ SealEnds(p) \/ CreateTrigger(p) \/ CommitSeal(p)
  \/ LegacyEvent(p)

Next ==
  \/ \E p \in Process : Connect(p) \/ Step(p) \/ Call(p) \/ LegacyFact(p) \/ Crash(p)
  \/ Quiescent

Spec == Init /\ [][Next]_vars

\* A call that has begun goes on: busy_timeout bounds the wait for the lock.
FairSpec == Spec /\ \A p \in Process : WF_vars(Step(p))

----------------------------------------------------------------------------
(* Properties. *)

Fieldsets ==
  [id: Nat, timestamp: {0}, client: Process \union {Null}, action: {"set"},
   key: {Null}, value: {Null}]
Digests == Seq(Fieldsets)
Rows ==
  [id: Nat, timestamp: {0}, client: Process \union {Null}, action: {"set"},
   key: {Null}, value: {Null}, prev_hash: Digests \union {Null},
   event_hash: Digests \union {Null}]
Database ==
  [journal: {"delete", "wal"}, tables: SUBSET Tables, chained: BOOLEAN, trigger: BOOLEAN,
   facts: Nat, events: Seq(Rows), seq: Nat]

\* Types of every variable.
TypeOK ==
  /\ wal \in Seq(Database) /\ wal # <<>>
  /\ draft \in Database
  /\ writer \in Process \union {NoProcess}
  /\ pc \in [Process -> Opening \union {"closed", "open", "log"}]
  /\ sealing \in [Process -> [rows: Seq(Rows), previous: Digests]]
  /\ writes \in 0..MaxWrites
  /\ crashes \in 0..MaxCrashes

\* Sealing is all or nothing, whatever servers race to do it or die at it: in a
\* committed version either no row has a hash and there is no trigger, or the
\* trigger is there and audit.verify accepts every row, old servers' included.
SealedWhole ==
  \A v \in DOMAIN wal :
    LET database == wal[v] IN
    IF database.chained
      THEN database.trigger /\ Verifies(database.events) /\ IdsIncrease(database.events)
      ELSE /\ ~database.trigger
           /\ \A i \in DOMAIN database.events : database.events[i].event_hash = Null

\* "Seal legacy events once, under the same SQLite writer lock as appends"
\* (audit.py:23): a server that seals the table does so under the lock, and no
\* other has sealed it, whatever it saw before it had the lock.
SealedByOne ==
  \A p \in Process :
    /\ pc[p] \in Migrating => InTransaction(p)
    /\ pc[p] \in Migrating \ {"recheck"} => ~LastCommitted.chained

\* A connection that _db keeps for later calls is on a file in WAL mode, with
\* every table and with the chain: a failed or abandoned open leaves none.
OpenMeansReady ==
  \A p \in Server :
    At(p, "open") =>
      /\ LastCommitted.journal = "wal"
      /\ LastCommitted.tables = Tables
      /\ LastCommitted.chained

\* "Historical attribution" (README.md:421): no committed row is lost, renumbered
\* or changed by a migration, and a hash once given is never given again.
HistoryKept ==
  [][LET old == LastCommitted.events  new == LastCommitted'.events IN
     \A i \in DOMAIN old :
       /\ i \in DOMAIN new
       /\ Fields(new[i]) = Fields(old[i])
       /\ old[i].event_hash # Null => new[i] = old[i]]_vars

\* The first call of a server comes back, with a connection or an error, however
\* many servers open, seal and write the file at once.
EveryOpenEnds == \A p \in Server : pc[p] \in Opening ~> pc[p] \in {"open", "closed"}

----------------------------------------------------------------------------
(* The inductive invariant. *)

\* The labels at which a process holds the write lock.
Holding == Migrating \union {"log"}

\* The tables that a server at a label knows to be there.
Made(label) ==
  IF label \in {"closed", "journal", "facts"} THEN {}
  ELSE IF label = "events" THEN {"facts"}
  ELSE IF label = "fact_embeddings" THEN {"facts", "events"}
  ELSE Tables

\* Row i carries its place in the chain.
Linked(events, i) ==
  /\ {events[i].prev_hash, events[i].event_hash} \subseteq Digests
  /\ events[i].prev_hash = PrevHash(events, i)
  /\ events[i].event_hash = Digest(events[i].prev_hash, Fields(events[i]))

\* A committed version: ids count up, and the seal is whole or there is none.
VersionInv(database) ==
  LET events == database.events IN
  /\ IdsIncrease(events)
  /\ \A i \in DOMAIN events : events[i].id <= database.seq
  /\ IF database.chained
       THEN database.trigger /\ \A i \in DOMAIN events : Linked(events, i)
       ELSE ~database.trigger /\ \A i \in DOMAIN events : events[i].event_hash = Null

\* Where a process is, what it holds and what it has seen to.
Placed(p) ==
  /\ pc[p] \in IF p \in Server THEN Opening \union {"closed", "open"} ELSE {"open", "log"}
  /\ InTransaction(p) <=> pc[p] \in Holding
  /\ pc[p] \notin {"seal", "trigger", "commit"} => sealing[p] = NotSealing
  /\ p \in Server =>
       /\ pc[p] \notin {"closed", "journal"} => LastCommitted.journal = "wal"
       /\ Made(pc[p]) \subseteq LastCommitted.tables
       /\ At(p, "open") => LastCommitted.chained

\* The rows visited are linked, up to the running digest; the others are yet to come.
SealInv(events, s) ==
  LET done == Len(events) - Len(s.rows) IN
  /\ done \in Nat
  /\ \A i \in DOMAIN s.rows : s.rows[i] = events[done + i]
  /\ \A i \in 1..done : Linked(events, i)
  /\ s.previous = IF done = 0 THEN GENESIS ELSE events[done].event_hash

SameRows(new, old) == DOMAIN new = DOMAIN old /\ \A i \in DOMAIN old : Fields(new[i]) = Fields(old[i])

\* What the draft of a server that seals the table is.
Drafted(database, label, s) ==
  /\ database.journal = LastCommitted.journal /\ database.tables = LastCommitted.tables
  /\ database.seq = LastCommitted.seq /\ SameRows(database.events, LastCommitted.events)
  /\ label \in {"recheck", "alter"} => database = LastCommitted
  /\ label # "recheck" => ~LastCommitted.chained
  /\ label \notin {"recheck", "alter"} => database.chained
  /\ label = "select" => database.events = LastCommitted.events
  /\ label = "seal" => SealInv(database.events, s)
  /\ label \in {"trigger", "commit"} => \A i \in DOMAIN database.events : Linked(database.events, i)
  /\ label = "commit" => database.trigger

\* What the draft of a process that holds the lock is.
DraftInv(p) ==
  /\ At(p, "log") => draft = WithFact(LastCommitted)
  /\ pc[p] \in Migrating => Drafted(draft, pc[p], sealing[p])

IInv ==
  /\ TypeOK
  /\ \A v \in DOMAIN wal : VersionInv(wal[v])
  /\ \A p \in Process : Placed(p) /\ DraftInv(p)

====
