---- MODULE StoreOpenProofs ----
(***************************************************************************)
(* Proofs about StoreOpen, for any number of servers, older servers, rows, *)
(* writes and crashes.                                                     *)
(***************************************************************************)
EXTENDS StoreOpen, AlgorithmProofs

----------------------------------------------------------------------------
(* Rows and versions. *)

\* The columns that a digest covers are those of the row, and a digest of them
\* is one.
LEMMA FieldsType ==
  ASSUME NEW row \in Rows
  PROVE  /\ Fields(row) \in Fieldsets /\ Fields(row).id = row.id
         /\ row.id \in Nat
         /\ \A previous \in Digests : Digest(previous, Fields(row)) \in Digests
<1>1. Fields(row) \in Fieldsets /\ Fields(row).id = row.id /\ row.id \in Nat
  BY DEF Fields, Rows, Fieldsets
<1>2. \A previous \in Digests : Digest(previous, Fields(row)) \in Digests
  BY <1>1, AppendProperties DEF Digest, Digests
<1> QED
  BY <1>1, <1>2

\* A row that is made says what it was made of.
LEMMA RowType ==
  ASSUME NEW id \in Nat, NEW author \in Process \union {Null},
         NEW previous \in Digests \union {Null}, NEW digest \in Digests \union {Null}
  PROVE  LET row == Row(id, author, previous, digest) IN
         /\ row \in Rows /\ row.id = id
         /\ row.prev_hash = previous /\ row.event_hash = digest
  BY DEF Row, Rows

\* The columns of a row do not depend on its hashes.
LEMMA FieldsOfRow ==
  ASSUME NEW id, NEW author, NEW p1, NEW d1, NEW p2, NEW d2
  PROVE  Fields(Row(id, author, p1, d1)) = Fields(Row(id, author, p2, d2))
  BY DEF Fields, Row

\* An UPDATE of the hashes of a row changes nothing else of it.
LEMMA WithHashesType ==
  ASSUME NEW row \in Rows, NEW previous \in Digests, NEW digest \in Digests
  PROVE  LET new == WithHashes(row, previous, digest) IN
         /\ new \in Rows /\ Fields(new) = Fields(row)
         /\ new.prev_hash = previous /\ new.event_hash = digest
<1> DEFINE half == [row EXCEPT !.prev_hash = previous]
           new == WithHashes(row, previous, digest)
<1>1. half \in Rows
  BY DEF Rows
<1>2. /\ new = [half EXCEPT !.event_hash = digest]
      /\ new.prev_hash = previous /\ new.event_hash = digest
      /\ Fields(new) = Fields(row)
  BY DEF WithHashes, Rows, Fields
<1> HIDE DEF half
<1>3. new \in Rows
  BY <1>1, <1>2 DEF Rows
<1> QED
  BY <1>2, <1>3

\* The parts of a version.
LEMMA DatabaseType ==
  ASSUME NEW d \in Database
  PROVE  /\ d.tables \in SUBSET Tables /\ d.chained \in BOOLEAN /\ d.trigger \in BOOLEAN
         /\ d.facts \in Nat /\ d.events \in Seq(Rows) /\ d.seq \in Nat
         /\ Len(d.events) \in Nat /\ DOMAIN d.events = 1..Len(d.events)
         /\ \A i \in DOMAIN d.events : d.events[i] \in Rows
  BY DEF Database

\* A fact that is written changes the count of facts.
LEMMA WithFactType ==
  ASSUME NEW d \in Database
  PROVE  LET new == WithFact(d) IN
         /\ new \in Database
         /\ new.journal = d.journal /\ new.tables = d.tables /\ new.chained = d.chained
         /\ new.trigger = d.trigger /\ new.events = d.events /\ new.seq = d.seq
  BY DEF WithFact, Database

\* A row that is appended comes last, with the number of its id.
LEMMA WithRowType ==
  ASSUME NEW d \in Database, NEW row \in Rows
  PROVE  LET new == WithRow(d, row) IN
         /\ new \in Database
         /\ new.journal = d.journal /\ new.tables = d.tables /\ new.chained = d.chained
         /\ new.trigger = d.trigger /\ new.events = Append(d.events, row) /\ new.seq = row.id
<1> DEFINE half == [d EXCEPT !.events = Append(d.events, row)]
           new == WithRow(d, row)
<1>1. Append(d.events, row) \in Seq(Rows) /\ row.id \in Nat
  BY DatabaseType, AppendProperties, FieldsType
<1>2. half \in Database
  BY <1>1 DEF Database
<1>3. /\ new = [half EXCEPT !.seq = row.id]
      /\ new.journal = d.journal /\ new.tables = d.tables /\ new.chained = d.chained
      /\ new.trigger = d.trigger /\ new.events = Append(d.events, row) /\ new.seq = row.id
  BY DEF WithRow, Database
<1> HIDE DEF half
<1>4. new \in Database
  BY <1>1, <1>2, <1>3 DEF Database
<1> QED
  BY <1>3, <1>4

\* The last version is one.
LEMMA LastType ==
  ASSUME TypeOK
  PROVE  /\ LastCommitted \in Database /\ Len(wal) \in Nat /\ Len(wal) \in DOMAIN wal
         /\ wal \in Seq(Database)
         /\ \A p \in Process : View(p) \in Database
<1>1. wal \in Seq(Database) /\ wal # <<>> /\ draft \in Database
  BY DEF TypeOK
<1>2. Len(wal) \in Nat /\ Len(wal) \in DOMAIN wal
  BY <1>1, EmptySeq, LenProperties
<1>3. LastCommitted \in Database
  BY <1>1, <1>2 DEF LastCommitted
<1> QED
  BY <1>1, <1>2, <1>3 DEF View

\* The head of a sealed table is a digest.
LEMMA HeadIsDigest ==
  ASSUME NEW d \in Database, VersionInv(d), d.chained
  PROVE  ChainHead(d.events) \in Digests
<1>1. CASE d.events = <<>>
  BY <1>1, EmptySeq DEF ChainHead, GENESIS, Digests
<1>2. CASE d.events # <<>>
  <2>1. Len(d.events) \in DOMAIN d.events
    BY <1>2, DatabaseType, EmptySeq, LenProperties
  <2>2. Linked(d.events, Len(d.events))
    BY <2>1 DEF VersionInv
  <2> QED
    BY <1>2, <2>2 DEF ChainHead, Linked
<1> QED
  BY <1>1, <1>2

\* The row of a server's own write takes its place after the head.
LEMMA ChainedRowType ==
  ASSUME NEW d \in Database, VersionInv(d), d.chained, NEW author \in Process
  PROVE  LET row == ChainedRow(d, author) IN
         /\ row \in Rows /\ row.id = d.seq + 1
         /\ row.prev_hash = ChainHead(d.events)
         /\ row.event_hash = Digest(row.prev_hash, Fields(row))
         /\ row.prev_hash \in Digests /\ row.event_hash \in Digests
<1> DEFINE head == ChainHead(d.events)
           id == d.seq + 1
           bare == Row(id, author, head, head)
           digest == Digest(head, Fields(bare))
           row == Row(id, author, head, digest)
<1>1. head \in Digests /\ id \in Nat
  BY HeadIsDigest, DatabaseType
<1>2. ChainedRow(d, author) = row
  BY DEF ChainedRow
<1> HIDE DEF head, id
<1>3. bare \in Rows
  BY <1>1, RowType
<1>4. digest \in Digests
  BY <1>1, <1>3, FieldsType
<1>5. Fields(row) = Fields(bare)
  BY FieldsOfRow
<1>6. row \in Rows /\ row.id = id /\ row.prev_hash = head /\ row.event_hash = digest
  <2> HIDE DEF digest
  <2> QED
    BY <1>1, <1>4, RowType
<1>7. row.event_hash = Digest(row.prev_hash, Fields(row))
  <2> HIDE DEF row, bare
  <2> QED
    BY <1>5, <1>6
<1> HIDE DEF row, digest
<1> QED
  BY <1>1, <1>2, <1>4, <1>6, <1>7 DEF id, head

\* A version to which a row is added, with a new id and linked if the others are.
LEMMA AppendedVersion ==
  ASSUME NEW d \in Database, VersionInv(d), NEW row \in Rows, row.id = d.seq + 1,
         IF d.chained
           THEN /\ row.prev_hash = ChainHead(d.events)
                /\ row.event_hash = Digest(row.prev_hash, Fields(row))
                /\ row.prev_hash \in Digests /\ row.event_hash \in Digests
           ELSE row.event_hash = Null
  PROVE  VersionInv(WithRow(d, row))
<1> DEFINE new == WithRow(d, row)
           n == Len(d.events)
<1>1. /\ new.chained = d.chained /\ new.trigger = d.trigger
      /\ new.events = Append(d.events, row) /\ new.seq = d.seq + 1
  BY WithRowType
<1>2. /\ n \in Nat /\ d.seq \in Nat /\ d.events \in Seq(Rows) /\ DOMAIN d.events = 1..n
      /\ \A i \in 1..n : d.events[i] \in Rows
  BY DatabaseType
<1>3. /\ DOMAIN new.events = 1..n + 1
      /\ \A i \in 1..n : new.events[i] = d.events[i]
      /\ new.events[n + 1] = row
  BY <1>1, <1>2
<1>4. \A i \in 1..n : d.events[i].id \in Nat /\ d.events[i].id <= d.seq
  BY <1>2, FieldsType DEF VersionInv
<1> HIDE DEF new, n
<1>5. IdsIncrease(new.events) /\ \A i \in DOMAIN new.events : new.events[i].id <= new.seq
  <2>1. \A i \in 1..n + 1 : i \in 1..n \/ i = n + 1
    BY <1>2
  <2>2. \A i, j \in 1..n : i < j => d.events[i].id < d.events[j].id
    BY <1>2 DEF VersionInv, IdsIncrease
  <2>3. \A i \in 1..n + 1 : new.events[i].id <= d.seq + 1
    BY <1>2, <1>3, <1>4, <2>1
  <2>4. \A i, j \in 1..n + 1 : i < j => new.events[i].id < new.events[j].id
    <3> SUFFICES ASSUME NEW i \in 1..n + 1, NEW j \in 1..n + 1, i < j
                 PROVE  new.events[i].id < new.events[j].id
      OBVIOUS
    <3>1. i \in 1..n
      BY <1>2
    <3>2. CASE j \in 1..n
      BY <1>3, <2>2, <3>1, <3>2
    <3>3. CASE j = n + 1
      <4>1. new.events[i].id \in Nat /\ new.events[i].id <= d.seq
        BY <1>3, <1>4, <3>1
      <4>2. new.events[j].id = d.seq + 1
        BY <1>3, <3>3
      <4> QED
        BY <1>2, <4>1, <4>2
    <3> QED
      BY <2>1, <3>2, <3>3
  <2> QED
    BY <1>1, <1>3, <2>3, <2>4 DEF IdsIncrease
<1>6. CASE d.chained
  <2>1. \A i \in 1..n : Linked(new.events, i)
    <3> TAKE i \in 1..n
    <3>1. Linked(d.events, i)
      BY <1>2, <1>6 DEF VersionInv
    <3>2. PrevHash(new.events, i) = PrevHash(d.events, i) /\ new.events[i] = d.events[i]
      <4>1. i = 1 \/ i - 1 \in 1..n
        BY <1>2
      <4> QED
        BY <1>3, <4>1 DEF PrevHash
    <3> QED
      BY <3>1, <3>2 DEF Linked
  <2>2. Linked(new.events, n + 1)
    <3>1. PrevHash(new.events, n + 1) = ChainHead(d.events)
      <4>1. CASE n = 0
        <5>1. d.events = <<>>
          BY <1>2, <4>1, EmptySeq DEF n
        <5> QED
          BY <4>1, <5>1 DEF PrevHash, ChainHead
      <4>2. CASE n # 0
        <5>1. d.events # <<>> /\ n \in 1..n /\ n + 1 # 1 /\ n + 1 - 1 = n
          BY <1>2, <4>2, EmptySeq DEF n
        <5> QED
          BY <1>3, <5>1 DEF PrevHash, ChainHead, n
      <4> QED
        BY <4>1, <4>2
    <3> QED
      BY <1>3, <1>6, <3>1 DEF Linked
  <2>3. \A i \in DOMAIN new.events : Linked(new.events, i)
    BY <1>2, <1>3, <2>1, <2>2
  <2> QED
    BY <1>1, <1>5, <1>6, <2>3 DEF VersionInv, new
<1>7. CASE ~d.chained
  <2>1. \A i \in DOMAIN new.events : new.events[i].event_hash = Null
    BY <1>2, <1>3, <1>7 DEF VersionInv
  <2> QED
    BY <1>1, <1>5, <1>7, <2>1 DEF VersionInv, new
<1> QED
  BY <1>6, <1>7

\* VersionInv does not mention the count of facts, nor the journal, nor the tables.
LEMMA SameVersion ==
  ASSUME NEW d, VersionInv(d), NEW new, new.events = d.events, new.seq = d.seq,
         new.chained = d.chained, new.trigger = d.trigger
  PROVE  VersionInv(new)
  BY DEF VersionInv

\* A fresh file is a version, and so is one that older servers wrote.
LEMMA InitialFiles ==
  /\ FreshFile \in Database /\ VersionInv(FreshFile)
  /\ \A n \in Nat, journal \in {"delete", "wal"} :
       LegacyFile(n, journal) \in Database /\ VersionInv(LegacyFile(n, journal))
<1>1. FreshFile \in Database
  BY EmptySeq DEF FreshFile, Database, Tables
<1>2. VersionInv(FreshFile)
  BY EmptySeq DEF FreshFile, VersionInv, IdsIncrease
<1>3. ASSUME NEW n \in Nat, NEW journal \in {"delete", "wal"}
      PROVE  LegacyFile(n, journal) \in Database /\ VersionInv(LegacyFile(n, journal))
  <2> DEFINE events == [i \in 1..n |-> Row(2 * i, Null, Null, Null)]
             file == LegacyFile(n, journal)
  <2>1. \A i \in 1..n : /\ Row(2 * i, Null, Null, Null) \in Rows
                        /\ Row(2 * i, Null, Null, Null).id = 2 * i
                        /\ Row(2 * i, Null, Null, Null).event_hash = Null
    BY DEF Row, Rows
  <2>2. /\ DOMAIN events = 1..n
        /\ \A i \in 1..n : events[i] \in Rows /\ events[i].id = 2 * i /\ events[i].event_hash = Null
    BY <2>1
  <2>3. events \in [1..n -> Rows]
    BY <2>1
  <2>4. /\ file.events = events /\ file.seq = 2 * n
        /\ ~file.chained /\ ~file.trigger
    BY DEF LegacyFile
  <2> HIDE DEF events
  <2>5. events \in Seq(Rows)
    BY <2>3
  <2>6. file \in Database
    BY <2>5 DEF LegacyFile, Database, Tables, events
  <2> HIDE DEF file
  <2>7. IdsIncrease(file.events) /\ \A i \in DOMAIN file.events : file.events[i].id <= file.seq
    BY <2>2, <2>4 DEF IdsIncrease
  <2>8. VersionInv(file)
    BY <2>2, <2>4, <2>7 DEF VersionInv
  <2> QED
    BY <2>6, <2>8 DEF file
<1> QED
  BY <1>1, <1>2, <1>3

----------------------------------------------------------------------------
(* How a step moves one process and leaves the others. *)

\* What a process knows of the last version stays true as versions are added.
Kept(old, new) ==
  /\ old.journal = "wal" => new.journal = "wal"
  /\ old.tables \subseteq new.tables
  /\ old.chained => new.chained

\* A process that does not move keeps its place and its draft, if the versions
\* and the draft are left alone or it holds no lock.
LEMMA OthersKeep ==
  ASSUME IInv, NEW q \in Process, pc'[q] = pc[q], sealing'[q] = sealing[q],
         \/ UNCHANGED sqlite
         \/ /\ writer # q /\ writer' # q
            /\ Kept(LastCommitted, LastCommitted')
  PROVE  Placed(q)' /\ DraftInv(q)'
<1>1. Placed(q) /\ DraftInv(q)
  BY DEF IInv
<1>2. CASE UNCHANGED sqlite
  BY <1>1, <1>2 DEF sqlite, Placed, DraftInv, Drafted, At, InTransaction, LastCommitted
<1>3. CASE writer # q /\ writer' # q /\ Kept(LastCommitted, LastCommitted')
  <2>1. pc[q] \notin Holding
    BY <1>1, <1>3 DEF Placed, InTransaction
  <2>2. DraftInv(q)'
    BY <2>1 DEF DraftInv, Holding, At
  <2>3. Placed(q)'
    BY <1>1, <1>3, <2>1 DEF Placed, InTransaction, Kept, At
  <2> QED
    BY <2>2, <2>3
<1> QED
  BY <1>2, <1>3

\* A step of p that adds no version.
LEMMA PrivateStep ==
  ASSUME IInv, NEW p \in Process, UNCHANGED wal,
         NEW label, pc' = [pc EXCEPT ![p] = label],
         \A q \in Process \ {p} : sealing'[q] = sealing[q],
         \/ UNCHANGED <<draft, writer>>
         \/ writer \in {NoProcess, p} /\ writer' \in {NoProcess, p},
         TypeOK', Placed(p)', DraftInv(p)'
  PROVE  IInv'
<1>1. \A v \in DOMAIN wal' : VersionInv(wal[v])'
  BY DEF IInv, VersionInv
<1>2. ASSUME NEW q \in Process \ {p} PROVE Placed(q)' /\ DraftInv(q)'
  <2>1. pc'[q] = pc[q]
    BY DEF IInv, TypeOK
  <2>2. \/ UNCHANGED sqlite
        \/ writer # q /\ writer' # q /\ Kept(LastCommitted, LastCommitted')
    BY <1>2, NoProcessAssumption DEF sqlite, Kept, LastCommitted
  <2> QED
    BY <2>1, <2>2, OthersKeep
<1> QED
  BY <1>1, <1>2 DEF IInv

\* A step of p that commits a version and ends with the lock free.
LEMMA CommitStep ==
  ASSUME IInv, NEW p \in Process, NEW database \in Database, VersionInv(database),
         wal' = Append(wal, database), writer \in {NoProcess, p}, writer' = NoProcess,
         draft' = draft, Kept(LastCommitted, database),
         NEW label, pc' = [pc EXCEPT ![p] = label], label \notin Holding,
         label \in IF p \in Server THEN Opening \union {"closed", "open"} ELSE {"open"},
         p \in Server =>
           /\ label \notin {"closed", "journal"} => database.journal = "wal"
           /\ Made(label) \subseteq database.tables
           /\ label = "open" => database.chained,
         sealing' = [sealing EXCEPT ![p] = NotSealing],
         writes' \in 0..MaxWrites, UNCHANGED crashes
  PROVE  IInv' /\ LastCommitted' = database
<1>1. /\ wal \in Seq(Database) /\ Len(wal) \in Nat
      /\ wal' \in Seq(Database) /\ Len(wal') = Len(wal) + 1 /\ wal' # <<>>
      /\ DOMAIN wal' = 1..Len(wal) + 1
      /\ \A v \in 1..Len(wal) : wal'[v] = wal[v]
      /\ wal'[Len(wal) + 1] = database
  BY LastType, AppendProperties DEF IInv
<1>2. LastCommitted' = database
  BY <1>1 DEF LastCommitted
<1>3. \A v \in DOMAIN wal' : VersionInv(wal'[v])
  <2>1. \A v \in 1..Len(wal) : VersionInv(wal[v])
    BY <1>1 DEF IInv
  <2>2. \A v \in DOMAIN wal' : v \in 1..Len(wal) \/ v = Len(wal) + 1
    BY <1>1
  <2> QED
    BY <1>1, <2>1, <2>2
<1>4. TypeOK'
  <2>1. NotSealing \in [rows: Seq(Rows), previous: Digests]
    BY EmptySeq DEF NotSealing, GENESIS, Digests
  <2>2. sealing' \in [Process -> [rows: Seq(Rows), previous: Digests]]
    BY <2>1 DEF IInv, TypeOK
  <2>3. pc' \in [Process -> Opening \union {"closed", "open", "log"}]
    BY DEF IInv, TypeOK
  <2> QED
    BY <1>1, <2>2, <2>3 DEF IInv, TypeOK
<1>5. pc'[p] = label /\ sealing'[p] = NotSealing
  BY DEF IInv, TypeOK
<1>6. Placed(p)'
  BY <1>2, <1>5, NoProcessAssumption DEF Placed, InTransaction, At
<1>7. DraftInv(p)'
  BY <1>5 DEF DraftInv, Holding, At
<1>8. ASSUME NEW q \in Process \ {p} PROVE Placed(q)' /\ DraftInv(q)'
  <2>1. pc'[q] = pc[q] /\ sealing'[q] = sealing[q]
    BY DEF IInv, TypeOK
  <2>2. writer # q /\ writer' # q /\ Kept(LastCommitted, LastCommitted')
    BY <1>2, <1>8, NoProcessAssumption
  <2> QED
    BY <2>1, <2>2, OthersKeep
<1> QED
  BY <1>2, <1>3, <1>4, <1>6, <1>7, <1>8 DEF IInv, VersionInv

----------------------------------------------------------------------------
(* The steps of an opening. *)

\* What the invariant says of the process that moves.
LEMMA Facts ==
  ASSUME IInv, NEW p \in Process
  PROVE  /\ TypeOK /\ Placed(p) /\ DraftInv(p)
         /\ LastCommitted \in Database /\ VersionInv(LastCommitted)
         /\ View(p) \in Database /\ draft \in Database
         /\ pc \in [Process -> Opening \union {"closed", "open", "log"}]
         /\ sealing \in [Process -> [rows: Seq(Rows), previous: Digests]]
         /\ sealing = [sealing EXCEPT ![p] = sealing[p]]
<1>1. TypeOK /\ Placed(p) /\ DraftInv(p)
  BY DEF IInv
<1>2. LastCommitted \in Database /\ VersionInv(LastCommitted) /\ View(p) \in Database
  BY <1>1, LastType DEF IInv, LastCommitted
<1> QED
  BY <1>1, <1>2 DEF TypeOK

\* A step that moves p between labels at which it holds no lock, and touches nothing else.
LEMMA WalkStep ==
  ASSUME IInv, NEW p \in Process, NEW label, UNCHANGED sqlite, Move(p, label),
         pc[p] \notin Holding, label \notin Holding,
         label \in IF p \in Server THEN Opening \union {"closed", "open"} ELSE {"open"},
         p \in Server =>
           /\ label \notin {"closed", "journal"} => LastCommitted.journal = "wal"
           /\ Made(label) \subseteq LastCommitted.tables
           /\ label = "open" => LastCommitted.chained
  PROVE  IInv'
<1>1. /\ pc' = [pc EXCEPT ![p] = label]
      /\ UNCHANGED <<wal, draft, writer, sealing, writes, crashes>>
  BY DEF Move, Goto, sqlite
<1>2. TypeOK'
  BY <1>1 DEF IInv, TypeOK
<1>3. pc'[p] = label
  BY <1>1 DEF IInv, TypeOK
<1>4. Placed(p)'
  BY <1>1, <1>3, Facts DEF Placed, InTransaction, At, LastCommitted, Holding, Migrating
<1>5. DraftInv(p)'
  BY <1>3 DEF DraftInv, Holding, At
<1> QED
  BY <1>1, <1>2, <1>4, <1>5, PrivateStep

\* Only a server opens the file.
LEMMA OnlyServersOpen ==
  ASSUME IInv, NEW p \in Process, pc[p] \in Opening \union {"closed"}
  PROVE  p \in Server
  BY DEF IInv, Placed, Opening, Tables, Migrating

\* A process that is at no label of a transaction is in none.
LEMMA NotLocking ==
  ASSUME IInv, NEW p \in Process, pc[p] \notin Holding
  PROVE  writer # p /\ View(p) = LastCommitted /\ sealing[p] = NotSealing
  BY DEF IInv, Placed, InTransaction, View, Holding, Migrating

\* The first call of a server finds it closed.
LEMMA ConnectKeeps ==
  ASSUME IInv, NEW p \in Process, Connect(p)
  PROVE  IInv'
<1>1. pc[p] = "closed" /\ p \in Server
  BY OnlyServersOpen DEF Connect, At
<1> QED
  BY <1>1, WalkStep DEF Connect, Holding, Migrating, Opening, Made

\* A server goes on from the first PRAGMA on a file in WAL mode.
LEMMA JournalModeKeeps ==
  ASSUME IInv, NEW p \in Process, JournalMode(p)
  PROVE  IInv'
<1>1. pc[p] = "journal" /\ p \in Server /\ Move(p, "facts")
  BY OnlyServersOpen DEF JournalMode, At, Opening
<1>2. /\ pc[p] \notin Holding /\ "facts" \notin Holding /\ "facts" \in Opening
      /\ Made("facts") = {}
  BY <1>1 DEF Holding, Migrating, Opening, Tables, Made
<1>3. CASE LastCommitted.journal = "wal"
  BY <1>1, <1>2, <1>3, WalkStep DEF JournalMode
<1>4. CASE LastCommitted.journal # "wal"
  <2> DEFINE new == [LastCommitted EXCEPT !.journal = "wal"]
  <2>1. LastCommitted \in Database /\ VersionInv(LastCommitted)
    BY Facts
  <2>2. /\ new \in Database /\ new.journal = "wal" /\ new.tables = LastCommitted.tables
        /\ new.events = LastCommitted.events /\ new.seq = LastCommitted.seq
        /\ new.chained = LastCommitted.chained /\ new.trigger = LastCommitted.trigger
    BY <2>1 DEF Database
  <2>3. Autocommit(p, new)
    BY <1>4 DEF JournalMode
  <2> HIDE DEF new
  <2>4. VersionInv(new) /\ Kept(LastCommitted, new)
    BY <2>1, <2>2, SameVersion DEF Kept
  <2>5. /\ wal' = Append(wal, new) /\ draft' = draft
        /\ writer = NoProcess /\ writer' = NoProcess
    BY <1>2, <2>3, NotLocking DEF Autocommit, Locked
  <2>6. /\ pc' = [pc EXCEPT ![p] = "facts"] /\ sealing' = [sealing EXCEPT ![p] = NotSealing]
        /\ writes' \in 0..MaxWrites /\ UNCHANGED crashes
    BY <1>1, <1>2, Facts, NotLocking DEF Move, Goto, TypeOK
  <2> QED
    BY <1>1, <1>2, <2>2, <2>4, <2>5, <2>6, CommitStep
<1> QED
  BY <1>3, <1>4

\* A server that has run a CREATE TABLE statement finds the table.
LEMMA CreateTableKeeps ==
  ASSUME IInv, NEW p \in Process, CreateTable(p)
  PROVE  IInv'
<1> DEFINE label == pc[p]
           next == NextStatement[label]
<1>1. label \in Tables /\ p \in Server /\ Move(p, next)
  BY OnlyServersOpen DEF CreateTable, Opening
<1>2. /\ label \notin Holding /\ next \notin Holding /\ next \in Opening
      /\ next \notin {"closed", "journal", "open"} /\ label \notin {"closed", "journal"}
      /\ Made(next) = Made(label) \union {label}
  <2>1. /\ label = "facts" => next = "events"
        /\ label = "events" => next = "fact_embeddings"
        /\ label = "fact_embeddings" => next = "check"
    BY DEF NextStatement
  <2> HIDE DEF label, next
  <2> QED
    BY <1>1, <2>1 DEF Holding, Migrating, Opening, Tables, Made
<1>3. /\ LastCommitted.journal = "wal" /\ Made(label) \subseteq LastCommitted.tables
      /\ LastCommitted \in Database /\ VersionInv(LastCommitted)
  BY <1>1, <1>2, Facts DEF Placed
<1>4. CASE label \in LastCommitted.tables
  <2>1. UNCHANGED sqlite
    BY <1>4 DEF CreateTable
  <2> HIDE DEF next
  <2> QED
    BY <1>1, <1>2, <1>3, <1>4, <2>1, WalkStep
<1>5. CASE label \notin LastCommitted.tables
  <2> DEFINE new == [LastCommitted EXCEPT !.tables = @ \union {pc[p]}]
  <2>1. /\ new \in Database /\ new.journal = "wal"
        /\ new.tables = LastCommitted.tables \union {label}
        /\ new.events = LastCommitted.events /\ new.seq = LastCommitted.seq
        /\ new.chained = LastCommitted.chained /\ new.trigger = LastCommitted.trigger
    BY <1>1, <1>3 DEF Database
  <2>2. Autocommit(p, new)
    BY <1>5 DEF CreateTable
  <2> HIDE DEF new, next
  <2>3. VersionInv(new) /\ Kept(LastCommitted, new)
    BY <1>3, <2>1, SameVersion DEF Kept
  <2>4. /\ wal' = Append(wal, new) /\ draft' = draft
        /\ writer = NoProcess /\ writer' = NoProcess
    BY <1>2, <2>2, NotLocking DEF Autocommit, Locked
  <2>5. /\ pc' = [pc EXCEPT ![p] = next] /\ sealing' = [sealing EXCEPT ![p] = NotSealing]
        /\ writes' \in 0..MaxWrites /\ UNCHANGED crashes
    BY <1>1, <1>2, Facts, NotLocking DEF Move, Goto, TypeOK
  <2> QED
    BY <1>1, <1>2, <1>3, <2>1, <2>3, <2>4, <2>5, CommitStep
<1> QED
  BY <1>4, <1>5

\* A process that gives up rolls back what it had not committed.
LEMMA GiveUpKeeps ==
  ASSUME IInv, NEW p \in Process, NEW label,
         \/ label = "closed" /\ p \in Server
         \/ label = "open" /\ p \notin Server,
         GiveUp(p, label), UNCHANGED writes, crashes' \in 0..MaxCrashes
  PROVE  IInv'
<1>1. /\ wal' = wal /\ pc' = [pc EXCEPT ![p] = label]
      /\ sealing' = [sealing EXCEPT ![p] = NotSealing]
      /\ writer' = IF InTransaction(p) THEN NoProcess ELSE writer
      /\ draft' = IF InTransaction(p) THEN LastCommitted ELSE draft
  BY DEF GiveUp, Rollback, Goto
<1>2. pc'[p] = label /\ sealing'[p] = NotSealing
  BY <1>1, Facts
<1>3. TypeOK'
  <2>1. NotSealing \in [rows: Seq(Rows), previous: Digests]
    BY EmptySeq DEF NotSealing, GENESIS, Digests
  <2>2. draft' \in Database /\ writer' \in Process \union {NoProcess}
    BY <1>1, Facts DEF TypeOK
  <2>3. sealing' \in [Process -> [rows: Seq(Rows), previous: Digests]]
    BY <1>1, <2>1, Facts
  <2> QED
    BY <1>1, <2>2, <2>3, Facts DEF TypeOK
<1>4. label \notin Holding /\ writer' # p
  BY <1>1, NoProcessAssumption DEF Holding, Migrating, InTransaction
<1>5. Placed(p)'
  BY <1>2, <1>4 DEF Placed, InTransaction, At, Made
<1>6. DraftInv(p)'
  BY <1>2, <1>4 DEF DraftInv, At, Holding
<1>7. \A q \in Process \ {p} : sealing'[q] = sealing[q]
  BY <1>1, Facts
<1>8. \/ UNCHANGED <<draft, writer>>
      \/ writer \in {NoProcess, p} /\ writer' \in {NoProcess, p}
  BY <1>1 DEF InTransaction
<1> QED
  BY <1>1, <1>3, <1>5, <1>6, <1>7, <1>8, PrivateStep

\* An open that fails, or a process that dies, leaves the file as it was committed.
LEMMA EndsKeep ==
  ASSUME IInv, NEW p \in Process, OpenFails(p) \/ Crash(p)
  PROVE  IInv'
<1>1. CASE OpenFails(p)
  <2>1. p \in Server
    BY <1>1, OnlyServersOpen DEF OpenFails
  <2>2. GiveUp(p, "closed") /\ UNCHANGED <<writes, crashes>>
    BY <1>1 DEF OpenFails
  <2>3. crashes' \in 0..MaxCrashes
    BY <2>2, Facts DEF TypeOK
  <2> QED
    BY <2>1, <2>2, <2>3, GiveUpKeeps
<1>2. CASE Crash(p)
  <2> DEFINE label == IF p \in Server THEN "closed" ELSE "open"
  <2>1. crashes' \in 0..MaxCrashes
    BY <1>2, Facts, OpenAssumption DEF Crash, TypeOK
  <2>2. GiveUp(p, label) /\ UNCHANGED writes
    BY <1>2 DEF Crash
  <2>3. \/ label = "closed" /\ p \in Server
        \/ label = "open" /\ p \notin Server
    OBVIOUS
  <2> HIDE DEF label
  <2> QED
    BY <2>1, <2>2, <2>3, GiveUpKeeps
<1> QED
  BY <1>1, <1>2

\* A server that finds the table sealed is ready; another goes on to seal it.
LEMMA CheckKeeps ==
  ASSUME IInv, NEW p \in Process, Check(p)
  PROVE  IInv'
<1>1. pc[p] = "check" /\ p \in Server
  BY OnlyServersOpen DEF Check, At, Opening
<1>2. pc[p] \notin Holding /\ {"open", "begin"} \cap Holding = {} /\ "begin" \in Opening
  BY <1>1 DEF Holding, Migrating, Opening
<1>3. /\ LastCommitted.journal = "wal" /\ LastCommitted.tables = Tables
      /\ View(p) = LastCommitted
  <2>1. Made(pc[p]) = Tables
    BY <1>1 DEF Made
  <2> QED
    BY <1>1, <1>2, <2>1, Facts, DatabaseType, NotLocking DEF Placed
<1>4. Made("open") = Tables /\ Made("begin") = Tables
  BY DEF Made
<1>5. UNCHANGED sqlite
  BY DEF Check
<1>6. CASE LastCommitted.chained
  <2>1. Move(p, "open")
    BY <1>3, <1>6 DEF Check
  <2> QED
    BY <1>1, <1>2, <1>3, <1>4, <1>5, <1>6, <2>1, WalkStep
<1>7. CASE ~LastCommitted.chained
  <2>1. Move(p, "begin")
    BY <1>3, <1>7 DEF Check
  <2> QED
    BY <1>1, <1>2, <1>3, <1>4, <1>5, <1>7, <2>1, WalkStep
<1> QED
  BY <1>6, <1>7

----------------------------------------------------------------------------
(* The steps of a migration. *)

\* A server that seals the table holds the lock, and reads its own draft.
LEMMA SealerHolds ==
  ASSUME IInv, NEW p \in Process, pc[p] \in Migrating
  PROVE  /\ p \in Server /\ writer = p /\ View(p) = draft /\ ~Locked(p)
         /\ Drafted(draft, pc[p], sealing[p])
         /\ LastCommitted.journal = "wal" /\ LastCommitted.tables = Tables
         /\ Len(draft.events) = Len(LastCommitted.events)
         /\ DOMAIN draft.events = DOMAIN LastCommitted.events
<1>1. p \in Server
  BY OnlyServersOpen DEF Opening
<1>2. writer = p /\ View(p) = draft /\ ~Locked(p)
  BY Facts DEF Placed, InTransaction, Holding, View, Locked
<1>3. Drafted(draft, pc[p], sealing[p])
  BY Facts DEF DraftInv
<1>4. Made(pc[p]) = Tables /\ pc[p] \notin {"closed", "journal"}
  BY DEF Migrating, Made
<1>5. LastCommitted.journal = "wal" /\ LastCommitted.tables = Tables
  BY <1>1, <1>4, Facts, DatabaseType DEF Placed
<1>6. DOMAIN draft.events = DOMAIN LastCommitted.events
  BY <1>3 DEF Drafted, SameRows
<1>7. Len(draft.events) = Len(LastCommitted.events)
  BY <1>6, Facts, DatabaseType
<1> QED
  BY <1>1, <1>2, <1>3, <1>5, <1>6, <1>7

\* A statement of a migration: p holds the lock after it.
LEMMA DraftStep ==
  ASSUME IInv, NEW p \in Server, p \in Process,
         pc[p] \in Migrating \union {"begin"}, writer \in {NoProcess, p},
         NEW label \in Migrating, NEW database \in Database,
         NEW s \in [rows: Seq(Rows), previous: Digests],
         wal' = wal, writer' = p, draft' = database,
         pc' = [pc EXCEPT ![p] = label], sealing' = [sealing EXCEPT ![p] = s],
         UNCHANGED <<writes, crashes>>,
         label \notin {"seal", "trigger", "commit"} => s = NotSealing,
         Drafted(database, label, s)
  PROVE  IInv'
<1>1. pc'[p] = label /\ sealing'[p] = s
  BY Facts
<1>2. label \in Opening /\ label \in Holding /\ label \notin {"closed", "journal", "open", "log"}
      /\ Made(label) = Tables
  BY DEF Opening, Holding, Migrating, Made
<1>3. TypeOK'
  <2>1. pc' \in [Process -> Opening \union {"closed", "open", "log"}]
    BY <1>2, Facts
  <2>2. sealing' \in [Process -> [rows: Seq(Rows), previous: Digests]]
    BY Facts
  <2> QED
    BY <2>1, <2>2, Facts DEF TypeOK
<1>4. LastCommitted' = LastCommitted
  BY DEF LastCommitted
<1>5. LastCommitted.journal = "wal" /\ LastCommitted.tables = Tables
  <2>1. Made(pc[p]) = Tables /\ pc[p] \notin {"closed", "journal"}
    BY DEF Migrating, Made
  <2> QED
    BY <2>1, Facts, DatabaseType DEF Placed
<1>6. Placed(p)'
  BY <1>1, <1>2, <1>4, <1>5 DEF Placed, InTransaction, At
<1>7. DraftInv(p)'
  BY <1>1, <1>2, <1>4 DEF DraftInv, Drafted, At
<1>8. \A q \in Process \ {p} : sealing'[q] = sealing[q]
  BY Facts
<1> QED
  BY <1>3, <1>6, <1>7, <1>8, PrivateStep

\* A server that has the lock works on the version that was committed last.
LEMMA BeginKeeps ==
  ASSUME IInv, NEW p \in Process, Begin(p)
  PROVE  IInv'
<1>1. pc[p] = "begin" /\ p \in Server /\ pc[p] \notin Holding
  BY OnlyServersOpen DEF Begin, At, Opening, Holding, Migrating
<1>2. /\ wal' = wal /\ writer' = p /\ draft' = LastCommitted /\ writer \in {NoProcess, p}
      /\ pc' = [pc EXCEPT ![p] = "recheck"] /\ sealing' = [sealing EXCEPT ![p] = NotSealing]
      /\ UNCHANGED <<writes, crashes>>
  BY <1>1, NotLocking, Facts DEF Begin, BeginImmediate, Write, Locked, Move, Goto
<1>3. NotSealing \in [rows: Seq(Rows), previous: Digests]
  BY EmptySeq DEF NotSealing, GENESIS, Digests
<1>4. Drafted(LastCommitted, "recheck", NotSealing)
  BY DEF Drafted, SameRows
<1> DEFINE label == "recheck"
<1>5. label \in Migrating
  BY DEF Migrating
<1> HIDE DEF label
<1>6. label = "recheck"
  BY DEF label
<1> QED
  BY <1>1, <1>2, <1>3, <1>4, <1>5, <1>6, Facts, DraftStep

\* A server that finds the table sealed lets the lock go; another keeps it.
LEMMA RecheckKeeps ==
  ASSUME IInv, NEW p \in Process, Recheck(p)
  PROVE  IInv'
<1>1. pc[p] = "recheck" /\ pc[p] \in Migrating
  BY DEF Recheck, At, Migrating
<1>2. /\ draft = LastCommitted /\ View(p) = draft /\ p \in Server /\ writer = p
      /\ Drafted(draft, pc[p], sealing[p])
      /\ LastCommitted.journal = "wal" /\ LastCommitted.tables = Tables
      /\ sealing[p] = NotSealing /\ NotSealing \in [rows: Seq(Rows), previous: Digests]
  <2>1. draft = LastCommitted
    BY <1>1, SealerHolds DEF Drafted
  <2>2. sealing[p] = NotSealing /\ sealing[p] \in [rows: Seq(Rows), previous: Digests]
    BY <1>1, Facts DEF Placed
  <2> QED
    BY <1>1, <2>1, <2>2, SealerHolds
<1>3. CASE LastCommitted.chained
  <2>1. Rollback(p) /\ Move(p, "open")
    BY <1>2, <1>3 DEF Recheck
  <2>2. /\ wal' = wal /\ writer' = NoProcess /\ draft' = LastCommitted
        /\ pc' = [pc EXCEPT ![p] = "open"] /\ UNCHANGED <<sealing, writes, crashes>>
    BY <1>2, <2>1 DEF Rollback, InTransaction, Move, Goto
  <2>3. pc'[p] = "open" /\ sealing'[p] = NotSealing
    BY <1>2, <2>2, Facts
  <2>4. TypeOK'
    BY <2>2, Facts DEF TypeOK
  <2>5. LastCommitted' = LastCommitted
    BY <2>2 DEF LastCommitted
  <2>6. Made("open") = Tables /\ "open" \notin Holding
    BY DEF Made, Holding, Migrating
  <2>7. Placed(p)'
    BY <1>2, <1>3, <2>2, <2>3, <2>5, <2>6, NoProcessAssumption DEF Placed, InTransaction, At
  <2>8. DraftInv(p)'
    BY <2>3, <2>6 DEF DraftInv, At, Holding
  <2> QED
    BY <1>2, <2>2, <2>4, <2>7, <2>8, PrivateStep
<1>4. CASE ~LastCommitted.chained
  <2>1. UNCHANGED sqlite /\ Move(p, "alter")
    BY <1>2, <1>4 DEF Recheck
  <2> DEFINE label == "alter"
  <2>2. label \in Migrating /\ label \notin {"seal", "trigger", "commit"}
    BY DEF Migrating
  <2>3. Drafted(draft, label, NotSealing)
    BY <1>1, <1>2, <1>4 DEF Drafted
  <2>4. /\ wal' = wal /\ writer' = p /\ draft' = draft
        /\ pc' = [pc EXCEPT ![p] = label] /\ sealing' = [sealing EXCEPT ![p] = NotSealing]
        /\ UNCHANGED <<writes, crashes>>
    BY <1>2, <2>1, Facts DEF sqlite, Move, Goto
  <2> HIDE DEF label
  <2> QED
    BY <1>1, <1>2, <2>2, <2>3, <2>4, Facts, DraftStep
<1> QED
  BY <1>3, <1>4

\* Only the hash columns are new after ALTER TABLE.
LEMMA AlterKeeps ==
  ASSUME IInv, NEW p \in Process, Alter(p)
  PROVE  IInv'
<1>1. pc[p] = "alter" /\ pc[p] \in Migrating
  BY DEF Alter, At, Migrating
<1>2. /\ draft = LastCommitted /\ View(p) = draft /\ p \in Server /\ writer = p
      /\ ~LastCommitted.chained /\ LastCommitted \in Database
      /\ sealing[p] = NotSealing /\ NotSealing \in [rows: Seq(Rows), previous: Digests]
  <2>1. draft = LastCommitted /\ ~LastCommitted.chained
    BY <1>1, SealerHolds DEF Drafted
  <2>2. sealing[p] = NotSealing /\ sealing[p] \in [rows: Seq(Rows), previous: Digests]
    BY <1>1, Facts DEF Placed
  <2> QED
    BY <1>1, <2>1, <2>2, SealerHolds, Facts
<1> DEFINE label == "select"
           new == [LastCommitted EXCEPT !.chained = TRUE]
<1>3. /\ new \in Database /\ new.chained /\ new.journal = LastCommitted.journal
      /\ new.tables = LastCommitted.tables /\ new.seq = LastCommitted.seq
      /\ new.events = LastCommitted.events
  BY <1>2 DEF Database
<1>4. /\ wal' = wal /\ writer' = p /\ draft' = new
      /\ pc' = [pc EXCEPT ![p] = label] /\ sealing' = [sealing EXCEPT ![p] = NotSealing]
      /\ UNCHANGED <<writes, crashes>>
  BY <1>2, Facts DEF Alter, Write, Move, Goto
<1> HIDE DEF new
<1>5. Drafted(new, label, NotSealing)
  BY <1>2, <1>3 DEF Drafted, SameRows
<1>6. label \in Migrating /\ label \notin {"seal", "trigger", "commit"}
  BY DEF Migrating
<1> HIDE DEF label
<1> QED
  BY <1>1, <1>2, <1>3, <1>4, <1>5, <1>6, DraftStep

\* Before the first row is visited none is linked.
LEMMA SelectRowsKeeps ==
  ASSUME IInv, NEW p \in Process, SelectRows(p)
  PROVE  IInv'
<1>1. pc[p] = "select" /\ pc[p] \in Migrating
  BY DEF SelectRows, At, Migrating
<1>2. /\ Drafted(draft, "select", sealing[p]) /\ View(p) = draft /\ p \in Server /\ writer = p
      /\ draft \in Database /\ sealing[p] = NotSealing
  <2>1. Drafted(draft, "select", sealing[p]) /\ View(p) = draft /\ p \in Server /\ writer = p
    BY <1>1, SealerHolds
  <2>2. Placed(p) /\ draft \in Database
    BY Facts
  <2> QED
    BY <1>1, <2>1, <2>2 DEF Placed
<1> DEFINE label == "seal"
           s == [sealing[p] EXCEPT !.rows = draft.events]
<1>3. s = [rows |-> draft.events, previous |-> GENESIS]
  BY <1>2 DEF NotSealing
<1>4. s \in [rows: Seq(Rows), previous: Digests]
  BY <1>2, <1>3, DatabaseType, EmptySeq DEF GENESIS, Digests
<1>5. /\ wal' = wal /\ writer' = p /\ draft' = draft
      /\ pc' = [pc EXCEPT ![p] = label] /\ sealing' = [sealing EXCEPT ![p] = s]
      /\ UNCHANGED <<writes, crashes>>
  BY <1>2, Facts DEF SelectRows, sqlite, Goto
<1> HIDE DEF s
<1>6. SealInv(draft.events, s)
  <2>1. /\ s.rows = draft.events /\ s.previous = GENESIS
        /\ Len(draft.events) \in Nat /\ DOMAIN draft.events = 1..Len(draft.events)
    BY <1>2, <1>3, DatabaseType
  <2> QED
    BY <2>1 DEF SealInv
<1>7. Drafted(draft, label, s)
  BY <1>2, <1>6 DEF Drafted
<1>8. label \in Migrating
  BY DEF Migrating
<1>9. label \notin {"seal", "trigger", "commit"} => s = NotSealing
  OBVIOUS
<1> HIDE DEF label
<1> QED
  BY <1>1, <1>2, <1>4, <1>5, <1>7, <1>8, <1>9, DraftStep

\* The UPDATE of the next row touches that row alone, for no other has its id.
LEMMA HashedRow ==
  ASSUME NEW events \in Seq(Rows), IdsIncrease(events), NEW k \in DOMAIN events,
         NEW previous \in Digests, NEW digest \in Digests
  PROVE  LET new == Hashed(events, events[k].id, previous, digest) IN
         /\ new \in Seq(Rows) /\ SameRows(new, events) /\ Len(new) = Len(events)
         /\ new[k] = WithHashes(events[k], previous, digest)
         /\ \A i \in DOMAIN events : i # k => new[i] = events[i]
<1> DEFINE id == events[k].id
           new == Hashed(events, id, previous, digest)
<1>1. /\ Len(events) \in Nat /\ DOMAIN events = 1..Len(events)
      /\ \A i \in DOMAIN events : events[i] \in Rows
  OBVIOUS
<1>2. DOMAIN new = DOMAIN events
  BY DEF Hashed
<1>3. \A i \in DOMAIN events : i # k => events[i].id # id
  <2> SUFFICES ASSUME NEW i \in DOMAIN events, i # k PROVE events[i].id # id
    OBVIOUS
  <2>1. events[i].id \in Nat /\ id \in Nat
    BY <1>1, FieldsType
  <2>2. i < k \/ k < i
    BY <1>1
  <2> QED
    BY <2>1, <2>2 DEF IdsIncrease
<1>4. new[k] = WithHashes(events[k], previous, digest)
  BY DEF Hashed
<1>5. \A i \in DOMAIN events : i # k => new[i] = events[i]
  BY <1>3 DEF Hashed
<1> HIDE DEF new, id
<1>6. new[k] \in Rows /\ Fields(new[k]) = Fields(events[k])
  BY <1>1, <1>4, WithHashesType
<1>7. \A i \in DOMAIN events : new[i] \in Rows /\ Fields(new[i]) = Fields(events[i])
  BY <1>1, <1>5, <1>6
<1>8. new \in [1..Len(events) -> Rows]
  <2>1. new = [i \in DOMAIN events |-> new[i]]
    BY DEF Hashed, new
  <2> QED
    BY <1>1, <1>7, <2>1
<1>9. new \in Seq(Rows) /\ Len(new) = Len(events)
  BY <1>1, <1>8, LenProperties
<1> QED
  BY <1>2, <1>4, <1>5, <1>7, <1>9 DEF SameRows, new, id

\* The ids of the draft are those of the committed rows.
LEMMA DraftIds ==
  ASSUME IInv, NEW p \in Process, pc[p] \in Migrating
  PROVE  /\ IdsIncrease(draft.events)
         /\ \A i \in DOMAIN draft.events : draft.events[i].id <= draft.seq
<1> DEFINE new == draft.events
           old == LastCommitted.events
<1>1. /\ DOMAIN new = DOMAIN old /\ draft.seq = LastCommitted.seq
      /\ \A i \in DOMAIN old : Fields(new[i]) = Fields(old[i])
  BY SealerHolds DEF Drafted, SameRows
<1>2. \A i \in DOMAIN old : new[i] \in Rows /\ old[i] \in Rows
  BY <1>1, Facts, DatabaseType
<1>3. IdsIncrease(old) /\ \A i \in DOMAIN old : old[i].id <= LastCommitted.seq
  BY Facts DEF VersionInv
<1> HIDE DEF new, old
<1>4. \A i \in DOMAIN old : new[i].id = old[i].id
  BY <1>1, <1>2, FieldsType
<1>5. IdsIncrease(new) /\ \A i \in DOMAIN new : new[i].id <= draft.seq
  BY <1>1, <1>3, <1>4 DEF IdsIncrease
<1> QED
  BY <1>5 DEF new

\* The row that is visited next gets its place after those that were visited.
LEMMA SealInvStep ==
  ASSUME NEW events \in Seq(Rows), IdsIncrease(events),
         NEW s \in [rows: Seq(Rows), previous: Digests], SealInv(events, s), s.rows # <<>>
  PROVE  LET row == Head(s.rows)
             digest == Digest(s.previous, Fields(row))
             new == Hashed(events, row.id, s.previous, digest)
             next == [rows |-> Tail(s.rows), previous |-> digest]
         IN  /\ new \in Seq(Rows) /\ SameRows(new, events)
             /\ next \in [rows: Seq(Rows), previous: Digests]
             /\ SealInv(new, next)
<1> DEFINE row == Head(s.rows)
           digest == Digest(s.previous, Fields(row))
           new == Hashed(events, row.id, s.previous, digest)
           next == [rows |-> Tail(s.rows), previous |-> digest]
           done == Len(events) - Len(s.rows)
           k == done + 1
<1>1. /\ s.rows \in Seq(Rows) /\ s.previous \in Digests /\ Len(s.rows) \in Nat
      /\ Len(s.rows) >= 1 /\ DOMAIN s.rows = 1..Len(s.rows) /\ row = s.rows[1]
      /\ Tail(s.rows) \in Seq(Rows) /\ Len(Tail(s.rows)) = Len(s.rows) - 1
      /\ \A i \in 1..Len(s.rows) - 1 : Tail(s.rows)[i] = s.rows[i + 1]
      /\ Len(events) \in Nat /\ DOMAIN events = 1..Len(events)
  BY EmptySeq, HeadTailProperties
<1>2. /\ done \in Nat /\ \A i \in DOMAIN s.rows : s.rows[i] = events[done + i]
      /\ \A i \in 1..done : Linked(events, i)
      /\ s.previous = IF done = 0 THEN GENESIS ELSE events[done].event_hash
  BY DEF SealInv
<1>3. k \in DOMAIN events /\ row = events[k] /\ row \in Rows
  <2>1. k \in DOMAIN events /\ 1 \in DOMAIN s.rows
    BY <1>1, <1>2
  <2>2. row = events[k]
    BY <1>1, <1>2, <2>1
  <2> QED
    BY <2>1, <2>2
<1>4. digest \in Digests
  BY <1>1, <1>3, FieldsType
<1>5. next.rows = Tail(s.rows) /\ next.previous = digest
      /\ next \in [rows: Seq(Rows), previous: Digests]
  <2> HIDE DEF digest
  <2> QED
    BY <1>1, <1>4
<1> HIDE DEF digest
<1>6. /\ new \in Seq(Rows) /\ SameRows(new, events) /\ Len(new) = Len(events)
      /\ new[k] = WithHashes(events[k], s.previous, digest)
      /\ \A i \in DOMAIN events : i # k => new[i] = events[i]
  BY <1>1, <1>3, <1>4, HashedRow
<1>7. /\ new[k].prev_hash = s.previous /\ new[k].event_hash = digest
      /\ Fields(new[k]) = Fields(row)
  BY <1>1, <1>3, <1>4, <1>6, WithHashesType
<1> HIDE DEF new, next, done, row
<1>8. Len(new) - Len(next.rows) = k
  BY <1>1, <1>5, <1>6 DEF done
<1>9. \A i \in DOMAIN next.rows : next.rows[i] = new[k + i]
  <2> SUFFICES ASSUME NEW i \in DOMAIN next.rows PROVE next.rows[i] = new[k + i]
    OBVIOUS
  <2>1. i \in 1..Len(s.rows) - 1 /\ next.rows[i] = s.rows[i + 1]
    BY <1>1, <1>5
  <2>2. s.rows[i + 1] = events[done + (i + 1)]
    BY <1>1, <1>2, <2>1
  <2>3. k + i \in DOMAIN events /\ k + i # k /\ done + (i + 1) = k + i
    <3> DEFINE rest == Len(s.rows)
               all == Len(events)
    <3>1. done \in Nat /\ rest \in Nat /\ all \in Nat /\ DOMAIN events = 1..all
      BY <1>1, <1>2
    <3>2. done + rest = all
      BY <1>1 DEF done
    <3>3. i \in 1..rest - 1
      BY <2>1
    <3>4. k = done + 1
      OBVIOUS
    <3> HIDE DEF rest, all, k
    <3> QED
      BY <3>1, <3>2, <3>3, <3>4
  <2> QED
    BY <1>6, <2>1, <2>2, <2>3
<1>10. \A i \in 1..done : new[i] = events[i]
  BY <1>1, <1>2, <1>3, <1>6
<1>11. PrevHash(new, k) = s.previous
  <2>1. CASE done = 0
    BY <1>2, <2>1 DEF PrevHash
  <2>2. CASE done # 0
    <3>1. k # 1 /\ k - 1 = done /\ done \in 1..done
      BY <1>2, <2>2
    <3> QED
      BY <1>2, <1>10, <2>2, <3>1 DEF PrevHash
  <2> QED
    BY <2>1, <2>2
<1>12. Linked(new, k)
  BY <1>1, <1>4, <1>7, <1>11 DEF Linked, digest
<1>13. \A i \in 1..done : Linked(new, i)
  <2> SUFFICES ASSUME NEW i \in 1..done PROVE Linked(new, i)
    OBVIOUS
  <2>1. Linked(events, i) /\ new[i] = events[i]
    BY <1>2, <1>10
  <2>2. PrevHash(new, i) = PrevHash(events, i)
    <3>1. i = 1 \/ i - 1 \in 1..done
      BY <1>2
    <3> QED
      BY <1>10, <3>1 DEF PrevHash
  <2> QED
    BY <2>1, <2>2 DEF Linked
<1>14. \A i \in 1..k : Linked(new, i)
  <2>1. \A i \in 1..k : i \in 1..done \/ i = k
    BY <1>2
  <2> QED
    BY <1>12, <1>13, <2>1
<1>15. SealInv(new, next)
  <2>1. k \in Nat /\ k # 0
    BY <1>2
  <2> HIDE DEF k
  <2> QED
    BY <1>5, <1>7, <1>8, <1>9, <1>14, <2>1 DEF SealInv
<1> QED
  BY <1>5, <1>6, <1>15 DEF row, digest, new, next

\* A version whose events change.
LEMMA WithEventsType ==
  ASSUME NEW d \in Database, NEW events \in Seq(Rows)
  PROVE  LET new == [d EXCEPT !.events = events] IN
         /\ new \in Database
         /\ new.journal = d.journal /\ new.tables = d.tables /\ new.chained = d.chained
         /\ new.trigger = d.trigger /\ new.events = events /\ new.seq = d.seq
  BY DEF Database

\* A row that is visited is linked, and the others stay as they are.
LEMMA SealRowKeeps ==
  ASSUME IInv, NEW p \in Process, SealRow(p)
  PROVE  IInv'
<1> DEFINE row == Head(sealing[p].rows)
           digest == Digest(sealing[p].previous, Fields(row))
           events == Hashed(draft.events, row.id, sealing[p].previous, digest)
           next == [rows |-> Tail(sealing[p].rows), previous |-> digest]
           new == [draft EXCEPT !.events = events]
           label == "seal"
<1>1. pc[p] = "seal" /\ pc[p] \in Migrating /\ sealing[p].rows # <<>>
  BY DEF SealRow, At, Migrating
<1>2. /\ Drafted(draft, "seal", sealing[p]) /\ View(p) = draft /\ p \in Server /\ writer = p
      /\ draft \in Database /\ sealing[p] \in [rows: Seq(Rows), previous: Digests]
      /\ IdsIncrease(draft.events)
  BY <1>1, SealerHolds, Facts, DraftIds
<1>3. /\ wal' = wal /\ writer' = p /\ draft' = new
      /\ sealing' = [sealing EXCEPT ![p] = next]
      /\ pc' = [pc EXCEPT ![p] = label]
      /\ UNCHANGED <<writes, crashes>>
  <2>1. wal' = wal /\ writer' = p /\ draft' = new /\ UNCHANGED <<pc, writes, crashes>>
    BY <1>2 DEF SealRow, Write
  <2>2. sealing' = [sealing EXCEPT ![p] = next]
    BY DEF SealRow
  <2>3. pc' = [pc EXCEPT ![p] = label]
    BY <1>1, <2>1, Facts
  <2> QED
    BY <2>1, <2>2, <2>3
<1>4. SealInv(draft.events, sealing[p]) /\ draft.events \in Seq(Rows)
  BY <1>2, DatabaseType DEF Drafted
<1> HIDE DEF new
<1>5. /\ events \in Seq(Rows) /\ SameRows(events, draft.events)
      /\ next \in [rows: Seq(Rows), previous: Digests] /\ SealInv(events, next)
  BY <1>1, <1>2, <1>4, SealInvStep
<1> HIDE DEF events, next
<1>6. /\ new \in Database
      /\ new.journal = draft.journal /\ new.tables = draft.tables /\ new.chained = draft.chained
      /\ new.trigger = draft.trigger /\ new.events = events /\ new.seq = draft.seq
  BY <1>2, <1>5, WithEventsType DEF new
<1>7. Drafted(new, label, next)
  <2>1. SameRows(new.events, LastCommitted.events)
    BY <1>2, <1>5, <1>6 DEF Drafted, SameRows
  <2> QED
    BY <1>2, <1>5, <1>6, <2>1 DEF Drafted
<1>8. label \in Migrating /\ label \in {"seal", "trigger", "commit"}
  BY DEF Migrating
<1> HIDE DEF label
<1> QED
  BY <1>1, <1>2, <1>3, <1>5, <1>6, <1>7, <1>8, DraftStep

\* After the last row is visited all are linked.
LEMMA SealEndsKeeps ==
  ASSUME IInv, NEW p \in Process, SealEnds(p)
  PROVE  IInv'
<1> DEFINE label == "trigger"
<1>1. pc[p] = "seal" /\ pc[p] \in Migrating /\ sealing[p].rows = <<>>
  BY DEF SealEnds, At, Migrating
<1>2. /\ Drafted(draft, "seal", sealing[p]) /\ p \in Server /\ writer = p
      /\ draft \in Database /\ sealing[p] \in [rows: Seq(Rows), previous: Digests]
      /\ sealing = [sealing EXCEPT ![p] = sealing[p]]
  BY <1>1, SealerHolds, Facts
<1>3. /\ wal' = wal /\ writer' = p /\ draft' = draft /\ pc' = [pc EXCEPT ![p] = label]
      /\ sealing' = [sealing EXCEPT ![p] = sealing[p]] /\ UNCHANGED <<writes, crashes>>
  BY <1>2 DEF SealEnds, Move, Goto, sqlite
<1>4. \A i \in DOMAIN draft.events : Linked(draft.events, i)
  <2>1. SealInv(draft.events, sealing[p]) /\ Len(sealing[p].rows) = 0
    BY <1>1, <1>2, EmptySeq DEF Drafted
  <2> QED
    BY <1>2, <2>1, DatabaseType DEF SealInv
<1>5. Drafted(draft, label, sealing[p])
  BY <1>2, <1>4 DEF Drafted
<1>6. label \in Migrating /\ label \in {"seal", "trigger", "commit"}
  BY DEF Migrating
<1> HIDE DEF label
<1> QED
  BY <1>1, <1>2, <1>3, <1>5, <1>6, DraftStep

\* The trigger comes with the rows that are linked.
LEMMA CreateTriggerKeeps ==
  ASSUME IInv, NEW p \in Process, CreateTrigger(p)
  PROVE  IInv'
<1> DEFINE label == "commit"
           new == [draft EXCEPT !.trigger = TRUE]
<1>1. pc[p] = "trigger" /\ pc[p] \in Migrating
  BY DEF CreateTrigger, At, Migrating
<1>2. /\ Drafted(draft, "trigger", sealing[p]) /\ View(p) = draft /\ p \in Server /\ writer = p
      /\ draft \in Database /\ sealing[p] \in [rows: Seq(Rows), previous: Digests]
      /\ sealing = [sealing EXCEPT ![p] = sealing[p]]
  BY <1>1, SealerHolds, Facts
<1>3. /\ wal' = wal /\ writer' = p /\ draft' = new /\ pc' = [pc EXCEPT ![p] = label]
      /\ sealing' = [sealing EXCEPT ![p] = sealing[p]] /\ UNCHANGED <<writes, crashes>>
  BY <1>2 DEF CreateTrigger, Write, Move, Goto
<1>4. /\ new \in Database /\ new.trigger
      /\ new.journal = draft.journal /\ new.tables = draft.tables /\ new.chained = draft.chained
      /\ new.events = draft.events /\ new.seq = draft.seq
  BY <1>2 DEF Database
<1> HIDE DEF new
<1>5. Drafted(new, label, sealing[p])
  BY <1>2, <1>4 DEF Drafted
<1>6. label \in Migrating /\ label \in {"seal", "trigger", "commit"}
  BY DEF Migrating
<1> HIDE DEF label
<1> QED
  BY <1>1, <1>2, <1>3, <1>4, <1>5, <1>6, DraftStep

\* What a migration commits is a version: every row linked, under the ids it had.
LEMMA CommitSealKeeps ==
  ASSUME IInv, NEW p \in Process, CommitSeal(p)
  PROVE  IInv'
<1> DEFINE label == "open"
<1>1. pc[p] = "commit" /\ pc[p] \in Migrating
  BY DEF CommitSeal, At, Migrating
<1>2. /\ Drafted(draft, "commit", sealing[p]) /\ p \in Server /\ writer = p
      /\ draft \in Database /\ LastCommitted.journal = "wal" /\ LastCommitted.tables = Tables
  BY <1>1, SealerHolds, Facts
<1>3. /\ draft.journal = "wal" /\ draft.tables = Tables /\ draft.chained /\ draft.trigger
      /\ \A i \in DOMAIN draft.events : Linked(draft.events, i)
  BY <1>2 DEF Drafted
<1>4. VersionInv(draft)
  BY <1>1, <1>3, DraftIds DEF VersionInv
<1>5. Kept(LastCommitted, draft)
  BY <1>2, <1>3 DEF Kept
<1>6. /\ wal' = Append(wal, draft) /\ writer' = NoProcess /\ draft' = draft
      /\ pc' = [pc EXCEPT ![p] = label] /\ sealing' = [sealing EXCEPT ![p] = NotSealing]
      /\ writes' \in 0..MaxWrites /\ UNCHANGED crashes
  BY Facts DEF CommitSeal, Commit, Goto, TypeOK
<1>7. label \notin Holding /\ label \in Opening \union {"closed", "open"} /\ Made(label) \subseteq Tables
  BY DEF Holding, Migrating, Made, Tables
<1> HIDE DEF label
<1> QED
  BY <1>2, <1>3, <1>4, <1>5, <1>6, <1>7, CommitStep

----------------------------------------------------------------------------
(* Writes. *)

\* A version with one more fact and its row is one, with the row at the end.
LEMMA WrittenVersion ==
  ASSUME NEW d \in Database, VersionInv(d), NEW row \in Rows, row.id = d.seq + 1,
         IF d.chained
           THEN /\ row.prev_hash = ChainHead(d.events)
                /\ row.event_hash = Digest(row.prev_hash, Fields(row))
                /\ row.prev_hash \in Digests /\ row.event_hash \in Digests
           ELSE row.event_hash = Null
  PROVE  LET new == WithRow(WithFact(d), row) IN
         /\ new \in Database /\ VersionInv(new) /\ Kept(d, new)
         /\ new.events = Append(d.events, row)
         /\ new.journal = d.journal /\ new.tables = d.tables /\ new.chained = d.chained
<1> DEFINE half == WithFact(d)
           new == WithRow(half, row)
<1>1. /\ half \in Database
      /\ half.journal = d.journal /\ half.tables = d.tables /\ half.chained = d.chained
      /\ half.trigger = d.trigger /\ half.events = d.events /\ half.seq = d.seq
  BY WithFactType
<1> HIDE DEF half
<1>2. VersionInv(half)
  BY <1>1, SameVersion
<1>3. VersionInv(new)
  BY <1>1, <1>2, AppendedVersion
<1>4. /\ new \in Database
      /\ new.journal = half.journal /\ new.tables = half.tables /\ new.chained = half.chained
      /\ new.events = Append(half.events, row)
  BY <1>1, WithRowType
<1> HIDE DEF new
<1>5. Kept(d, new)
  BY <1>1, <1>4 DEF Kept
<1> QED
  BY <1>1, <1>3, <1>4, <1>5 DEF half, new

\* A call of an open server finds the chain, and carries it on.
LEMMA CallKeeps ==
  ASSUME IInv, NEW p \in Process, Call(p)
  PROVE  IInv' /\ LastCommitted'.events = Append(LastCommitted.events, ChainedRow(LastCommitted, p))
<1> DEFINE label == "open"
           row == ChainedRow(LastCommitted, p)
           new == WithRow(WithFact(LastCommitted), row)
<1>1. pc[p] = label /\ p \in Server /\ label \notin Holding
  BY DEF Call, At, Holding, Migrating
<1>2. /\ LastCommitted \in Database /\ VersionInv(LastCommitted) /\ LastCommitted.chained
      /\ LastCommitted.journal = "wal" /\ Made(label) \subseteq LastCommitted.tables
      /\ sealing[p] = NotSealing /\ writer # p
  BY <1>1, Facts, NotLocking DEF Placed, At
<1>3. /\ row \in Rows /\ row.id = LastCommitted.seq + 1
      /\ row.prev_hash = ChainHead(LastCommitted.events)
      /\ row.event_hash = Digest(row.prev_hash, Fields(row))
      /\ row.prev_hash \in Digests /\ row.event_hash \in Digests
  BY <1>2, ChainedRowType
<1> HIDE DEF row
<1>4. /\ new \in Database /\ VersionInv(new) /\ Kept(LastCommitted, new)
      /\ new.events = Append(LastCommitted.events, row)
      /\ new.journal = LastCommitted.journal /\ new.tables = LastCommitted.tables
      /\ new.chained = LastCommitted.chained
  BY <1>2, <1>3, WrittenVersion
<1>5. /\ wal' = Append(wal, new) /\ draft' = draft /\ UNCHANGED crashes
      /\ writer \in {NoProcess, p} /\ writer' = NoProcess
  BY <1>2 DEF Call, Autocommit, Locked, row
<1>6. /\ pc' = [pc EXCEPT ![p] = label] /\ sealing' = [sealing EXCEPT ![p] = NotSealing]
      /\ writes' \in 0..MaxWrites
  BY <1>1, <1>2, Facts, OpenAssumption DEF Call, local, TypeOK
<1>7. label \in Opening \union {"closed", "open"}
  OBVIOUS
<1> HIDE DEF new, label
<1>8. IInv' /\ LastCommitted' = new
  BY <1>1, <1>2, <1>4, <1>5, <1>6, <1>7, CommitStep
<1> QED
  BY <1>4, <1>8 DEF row

\* A fact of an older server stays its own until its event is written.
LEMMA LegacyFactKeeps ==
  ASSUME IInv, NEW p \in Process, LegacyFact(p)
  PROVE  IInv'
<1> DEFINE label == "log"
<1>1. pc[p] = "open" /\ p \notin Server /\ pc[p] \notin Holding
  BY DEF LegacyFact, At, Legacy, Holding, Migrating
<1>2. View(p) = LastCommitted /\ sealing[p] = NotSealing /\ WithFact(LastCommitted) \in Database
  BY <1>1, NotLocking, Facts, WithFactType
<1>3. /\ wal' = wal /\ writer' = p /\ draft' = WithFact(LastCommitted) /\ writer \in {NoProcess, p}
      /\ pc' = [pc EXCEPT ![p] = label] /\ UNCHANGED <<sealing, crashes>>
      /\ writes' \in 0..MaxWrites
  BY <1>2, Facts, OpenAssumption DEF LegacyFact, Write, Locked, Goto, TypeOK
<1>4. pc'[p] = label /\ LastCommitted' = LastCommitted
  BY <1>3, Facts DEF LastCommitted
<1>5. TypeOK'
  BY <1>2, <1>3, Facts DEF TypeOK
<1>6. Placed(p)'
  BY <1>1, <1>2, <1>3, <1>4 DEF Placed, InTransaction, Holding, At
<1>7. DraftInv(p)'
  BY <1>3, <1>4 DEF DraftInv, At, Migrating
<1> HIDE DEF label
<1> QED
  BY <1>3, <1>5, <1>6, <1>7, PrivateStep

\* The event of an older server ends its transaction: the trigger refuses both,
\* or there is no chain and both are committed.
LEMMA LegacyEventKeeps ==
  ASSUME IInv, NEW p \in Process, LegacyEvent(p)
  PROVE  /\ IInv'
         /\ \/ LastCommitted' = LastCommitted
            \/ \E row \in Rows : LastCommitted'.events = Append(LastCommitted.events, row)
<1> DEFINE label == "open"
           row == LegacyRow(draft, p)
           new == WithRow(draft, row)
<1>1. /\ pc[p] = "log" /\ p \notin Server /\ pc[p] \in Holding /\ label \notin Holding
      /\ pc[p] \notin {"seal", "trigger", "commit"}
  BY DEF LegacyEvent, At, Legacy, Holding, Migrating
<1>2. /\ draft = WithFact(LastCommitted) /\ LastCommitted \in Database /\ VersionInv(LastCommitted)
      /\ writer = p /\ View(p) = draft /\ sealing[p] = NotSealing /\ draft \in Database
  BY <1>1, Facts DEF DraftInv, Placed, InTransaction, View, At
<1>3. /\ pc' = [pc EXCEPT ![p] = label] /\ sealing' = [sealing EXCEPT ![p] = NotSealing]
      /\ UNCHANGED <<writes, crashes>> /\ writes' \in 0..MaxWrites /\ crashes' \in 0..MaxCrashes
  BY <1>2, Facts DEF LegacyEvent, Move, Goto, TypeOK
<1>4. CASE draft.trigger
  <2>1. Rollback(p)
    BY <1>2, <1>4 DEF LegacyEvent
  <2>2. GiveUp(p, label)
    BY <1>3, <2>1 DEF GiveUp, Goto
  <2>3. LastCommitted' = LastCommitted
    BY <2>1 DEF Rollback, LastCommitted
  <2>4. label = "open"
    OBVIOUS
  <2> HIDE DEF label
  <2>5. IInv'
    BY <1>1, <1>3, <2>2, <2>4, GiveUpKeeps
  <2> QED
    BY <2>3, <2>5
<1>5. CASE ~draft.trigger
  <2>1. /\ ~LastCommitted.chained /\ draft.seq = LastCommitted.seq
        /\ LastCommitted.seq \in Nat
    BY <1>2, <1>5, WithFactType, DatabaseType DEF VersionInv
  <2>2. row \in Rows /\ row.id = LastCommitted.seq + 1 /\ row.event_hash = Null
    <3> DEFINE id == LastCommitted.seq + 1
    <3>1. row = Row(id, p, Null, Null) /\ id \in Nat
      BY <2>1 DEF LegacyRow
    <3> HIDE DEF id, row
    <3>2. row \in Rows /\ row.id = id /\ row.event_hash = Null
      BY <3>1, RowType
    <3> QED
      BY <3>2 DEF id
  <2>3. /\ wal' = Append(wal, new) /\ draft' = draft /\ writer' = NoProcess
    BY <1>2, <1>5 DEF LegacyEvent
  <2> HIDE DEF row
  <2>4. new \in Database /\ VersionInv(new) /\ Kept(LastCommitted, new)
        /\ new.events = Append(LastCommitted.events, row)
    BY <1>2, <2>1, <2>2, WrittenVersion
  <2> HIDE DEF new
  <2>5. label \in {"open"}
    OBVIOUS
  <2> HIDE DEF label
  <2>6. IInv' /\ LastCommitted' = new
    BY <1>1, <1>2, <1>3, <2>3, <2>4, <2>5, CommitStep
  <2> QED
    BY <2>2, <2>4, <2>6
<1> QED
  BY <1>4, <1>5

----------------------------------------------------------------------------
(* The invariant. *)

\* The invariant holds of a fresh file and of one that older servers wrote.
LEMMA InitHolds == Init => IInv
<1> SUFFICES ASSUME Init PROVE IInv
  OBVIOUS
<1>1. \E database \in Database : Open(database) /\ VersionInv(database)
  <2>1. CASE Open(FreshFile)
    BY <2>1, InitialFiles
  <2>2. ASSUME NEW n \in LegacyRows, NEW journal \in {"delete", "wal"}, Open(LegacyFile(n, journal))
        PROVE  \E database \in Database : Open(database) /\ VersionInv(database)
    BY <2>2, InitialFiles, OpenAssumption
  <2> QED
    BY <2>1, <2>2 DEF Init
<1>2. PICK database \in Database : Open(database) /\ VersionInv(database)
  BY <1>1
<1>3. /\ wal = <<database>> /\ draft = database /\ writer = NoProcess
      /\ pc = [p \in Process |-> IF p \in Server THEN "closed" ELSE "open"]
      /\ sealing = [p \in Process |-> NotSealing] /\ writes = 0 /\ crashes = 0
  BY <1>2 DEF Open, Init
<1>4. wal \in Seq(Database) /\ wal # <<>> /\ DOMAIN wal = {1} /\ wal[1] = database
  BY <1>2, <1>3
<1>5. NotSealing \in [rows: Seq(Rows), previous: Digests]
  BY EmptySeq DEF NotSealing, GENESIS, Digests
<1>6. TypeOK
  BY <1>2, <1>3, <1>4, <1>5, OpenAssumption DEF TypeOK
<1>7. ASSUME NEW p \in Process PROVE Placed(p) /\ DraftInv(p)
  <2>1. /\ p \in Server => pc[p] = "closed"
        /\ p \notin Server => pc[p] = "open"
        /\ sealing[p] = NotSealing /\ writer # p
    BY <1>3, <1>7, NoProcessAssumption
  <2>2. pc[p] \notin Holding /\ Made("closed") = {}
    BY <2>1 DEF Holding, Migrating, Made
  <2>3. Placed(p)
    BY <2>1, <2>2 DEF Placed, InTransaction, At
  <2>4. DraftInv(p)
    BY <2>2 DEF DraftInv, Holding, At
  <2> QED
    BY <2>3, <2>4
<1> QED
  BY <1>2, <1>4, <1>6, <1>7 DEF IInv

\* A step in which nothing moves.
LEMMA Stutter ==
  ASSUME IInv, UNCHANGED vars
  PROVE  IInv'
<1>1. UNCHANGED <<sqlite, pc, sealing, writes, crashes>>
  BY DEF vars, local
<1>2. ASSUME NEW p \in Process PROVE Placed(p)' /\ DraftInv(p)'
  BY <1>1, OthersKeep
<1>3. TypeOK'
  BY <1>1 DEF IInv, TypeOK, sqlite
<1>4. \A v \in DOMAIN wal' : VersionInv(wal[v])'
  BY <1>1 DEF IInv, VersionInv, sqlite
<1> QED
  BY <1>2, <1>3, <1>4 DEF IInv

\* Every step keeps it.
LEMMA StepHolds == IInv /\ [Next]_vars => IInv'
<1> SUFFICES ASSUME IInv, [Next]_vars PROVE IInv'
  OBVIOUS
<1>1. ASSUME NEW p \in Process, Connect(p) PROVE IInv'
  BY <1>1, ConnectKeeps
<1>2. ASSUME NEW p \in Process, Step(p) PROVE IInv'
  BY <1>2, JournalModeKeeps, CreateTableKeeps, EndsKeep, CheckKeeps, BeginKeeps, RecheckKeeps,
     AlterKeeps, SelectRowsKeeps, SealRowKeeps, SealEndsKeeps, CreateTriggerKeeps,
     CommitSealKeeps, LegacyEventKeeps DEF Step
<1>3. ASSUME NEW p \in Process, Call(p) PROVE IInv'
  BY <1>3, CallKeeps
<1>4. ASSUME NEW p \in Process, LegacyFact(p) PROVE IInv'
  BY <1>4, LegacyFactKeeps
<1>5. ASSUME NEW p \in Process, Crash(p) PROVE IInv'
  BY <1>5, EndsKeep
<1>6. CASE Quiescent \/ UNCHANGED vars
  BY <1>6, Stutter DEF Quiescent
<1> QED
  BY <1>1, <1>2, <1>3, <1>4, <1>5, <1>6 DEF Next

\* The invariant holds in every reachable state.
LEMMA Invariant == Spec => []IInv
  BY InitHolds, StepHolds, PTL DEF Spec

----------------------------------------------------------------------------
(* The properties. *)

\* Every variable keeps its type, whoever opens the file, dies at it or writes to it.
THEOREM TypeCorrect == Spec => []TypeOK
<1>1. IInv => TypeOK
  BY DEF IInv
<1> QED
  BY <1>1, Invariant, PTL

\* migrate's seal is whole in every version that is ever committed: the trigger
\* and a chain that audit.verify accepts, or neither.
THEOREM Whole == Spec => []SealedWhole
<1>1. IInv => SealedWhole
  <2> SUFFICES ASSUME IInv, NEW v \in DOMAIN wal
               PROVE  LET database == wal[v] IN
                      IF database.chained
                        THEN /\ database.trigger /\ Verifies(database.events)
                             /\ IdsIncrease(database.events)
                        ELSE /\ ~database.trigger
                             /\ \A i \in DOMAIN database.events : database.events[i].event_hash = Null
    BY DEF SealedWhole
  <2>1. VersionInv(wal[v]) /\ wal[v].events \in Seq(Rows)
    BY DatabaseType DEF IInv, TypeOK
  <2>2. ChainVerifies(wal[v].events) => Verifies(wal[v].events)
    BY <2>1, VerifyIsLocal
  <2> QED
    BY <2>1, <2>2 DEF VersionInv, Linked, ChainVerifies
<1> QED
  BY <1>1, Invariant, PTL

\* migrate seals once, under the write lock, whatever its unlocked check has seen.
THEOREM ByOne == Spec => []SealedByOne
<1>1. IInv => SealedByOne
  <2> SUFFICES ASSUME IInv, NEW p \in Process
               PROVE  /\ pc[p] \in Migrating => InTransaction(p)
                      /\ pc[p] \in Migrating \ {"recheck"} => ~LastCommitted.chained
    BY DEF SealedByOne
  <2> QED
    BY SealerHolds DEF InTransaction, Drafted
<1> QED
  BY <1>1, Invariant, PTL

\* A connection that _db keeps is on a file in WAL mode with every table and the chain.
THEOREM Ready == Spec => []OpenMeansReady
<1>1. IInv => OpenMeansReady
  <2> SUFFICES ASSUME IInv, NEW p \in Server, At(p, "open")
               PROVE  /\ LastCommitted.journal = "wal" /\ LastCommitted.tables = Tables
                      /\ LastCommitted.chained
    BY DEF OpenMeansReady
  <2>1. p \in Process /\ pc[p] = "open"
    BY OpenAssumption DEF At
  <2>2. Made("open") = Tables
    BY DEF Made
  <2> QED
    BY <2>1, <2>2, Facts, DatabaseType DEF Placed, At
<1> QED
  BY <1>1, Invariant, PTL

\* What a step may do to the rows that are committed.
RowsKept(old, new) ==
  \A i \in DOMAIN old :
    /\ i \in DOMAIN new
    /\ Fields(new[i]) = Fields(old[i])
    /\ old[i].event_hash # Null => new[i] = old[i]

\* A row that is appended leaves those before it alone.
LEMMA AppendKeeps ==
  ASSUME NEW events \in Seq(Rows), NEW row
  PROVE  RowsKept(events, events) /\ RowsKept(events, Append(events, row))
  BY DEF RowsKept

\* A version that is committed is the last one.
LEMMA Appended ==
  ASSUME TypeOK, NEW database, wal' = Append(wal, database)
  PROVE  LastCommitted' = database
<1>1. wal \in Seq(Database) /\ Len(wal) \in Nat
  BY LastType
<1> QED
  BY <1>1 DEF LastCommitted

\* No step loses, renumbers or changes a committed row, nor hashes one again.
LEMMA StepKeepsHistory ==
  ASSUME IInv, [Next]_vars
  PROVE  RowsKept(LastCommitted.events, LastCommitted'.events)
<1> DEFINE old == LastCommitted.events
<1>1. old \in Seq(Rows) /\ RowsKept(old, old) /\ \A row : RowsKept(old, Append(old, row))
  <2>1. old \in Seq(Rows)
    BY LastType, DatabaseType DEF IInv
  <2> QED
    BY <2>1, AppendKeeps
<1>2. CASE wal' = wal
  <2>1. LastCommitted' = LastCommitted
    BY <1>2 DEF LastCommitted
  <2> QED
    BY <1>1, <2>1
<1>3. ASSUME NEW p \in Process, JournalMode(p) \/ CreateTable(p), wal' # wal
      PROVE  RowsKept(old, LastCommitted'.events)
  <2>1. \E database : wal' = Append(wal, database) /\ database.events = old
    <3>1. LastCommitted \in Database
      BY LastType DEF IInv
    <3>2. CASE JournalMode(p)
      BY <1>3, <3>1, <3>2 DEF JournalMode, Autocommit, sqlite, Database
    <3>3. CASE CreateTable(p)
      BY <1>3, <3>1, <3>3 DEF CreateTable, Autocommit, sqlite, Database
    <3> QED
      BY <1>3, <3>2, <3>3
  <2> QED
    BY <1>1, <2>1, Appended DEF IInv
<1>4. ASSUME NEW p \in Process, CommitSeal(p)
      PROVE  RowsKept(old, LastCommitted'.events)
  <2>1. /\ pc[p] = "commit" /\ pc[p] \in Migrating /\ wal' = Append(wal, draft)
    BY <1>4 DEF CommitSeal, Commit, At, Migrating
  <2>2. LastCommitted' = draft
    BY <2>1, Appended DEF IInv
  <2>3. SameRows(draft.events, old) /\ ~LastCommitted.chained
    BY <2>1, SealerHolds DEF Drafted
  <2>4. \A i \in DOMAIN old : old[i].event_hash = Null
    BY <2>3, Facts DEF VersionInv
  <2> QED
    BY <2>2, <2>3, <2>4 DEF RowsKept, SameRows
<1>5. ASSUME NEW p \in Process, Call(p) \/ LegacyEvent(p)
      PROVE  RowsKept(old, LastCommitted'.events)
  <2>1. \/ LastCommitted' = LastCommitted
        \/ \E row : LastCommitted'.events = Append(old, row)
    BY <1>5, CallKeeps, LegacyEventKeeps
  <2> QED
    BY <1>1, <2>1
<1>6. \/ wal' = wal
      \/ \E p \in Process : \/ JournalMode(p) \/ CreateTable(p) \/ CommitSeal(p)
                            \/ Call(p) \/ LegacyEvent(p)
  BY DEF Next, Step, Connect, OpenFails, Check, Begin, Recheck, Alter, SelectRows, SealRow,
         SealEnds, CreateTrigger, LegacyFact, Crash, Quiescent, GiveUp, Rollback, Write,
         BeginImmediate, sqlite, vars
<1> QED
  BY <1>2, <1>3, <1>4, <1>5, <1>6

\* "Historical attribution" (README.md:421): what a migration and the writes do to
\* committed rows, in every behaviour.
THEOREM History == Spec => HistoryKept
<1>1. IInv /\ [Next]_vars => [RowsKept(LastCommitted.events, LastCommitted'.events)]_vars
  BY StepKeepsHistory
<1>2. Spec => [][RowsKept(LastCommitted.events, LastCommitted'.events)]_vars
  BY <1>1, Invariant, PTL DEF Spec
<1> QED
  BY <1>2 DEF HistoryKept, RowsKept

----------------------------------------------------------------------------
(* Why opening ends: what FairSpec needs of the safety of the model.       *)

\* How many labels lie before a process that is at one.
Left(label) ==
  CASE label = "journal" -> 13 [] label = "facts" -> 12 [] label = "events" -> 11
    [] label = "fact_embeddings" -> 10 [] label = "check" -> 9 [] label = "begin" -> 8
    [] label = "recheck" -> 7 [] label = "alter" -> 6 [] label = "select" -> 5
    [] label = "seal" -> 4 [] label = "trigger" -> 3 [] label = "commit" -> 2
    [] label = "log" -> 1 [] OTHER -> 0

\* The next label, or the next row to seal.
Nearer(p) ==
  \/ Left(pc'[p]) < Left(pc[p])
  \/ pc[p] = "seal" /\ pc'[p] = "seal" /\ Len(sealing'[p].rows) < Len(sealing[p].rows)

\* The steps of the others leave a process where it is, and its own bring it nearer to
\* the end of _db.
Forward ==
  \A p \in Process :
    /\ pc'[p] # pc[p] \/ sealing'[p] # sealing[p] =>
         Connect(p) \/ Step(p) \/ LegacyFact(p) \/ Crash(p)
    /\ Step(p) => Nearer(p)

\* Sealing leaves one row fewer to seal.
LEMMA SealRowNearer ==
  ASSUME TypeOK, NEW p \in Process, SealRow(p)
  PROVE  Nearer(p)
<1> DEFINE s == sealing[p]
<1>1. /\ pc[p] = "seal" /\ pc'[p] = "seal" /\ s.rows \in Seq(Rows) /\ s.rows # <<>>
      /\ DOMAIN sealing = Process
  BY DEF TypeOK, SealRow, At
<1>2. sealing'[p].rows = Tail(s.rows)
  BY <1>1 DEF SealRow
<1>3. Len(Tail(s.rows)) = Len(s.rows) - 1 /\ Len(s.rows) \in Nat
  <2> HIDE DEF s
  <2> QED
    BY <1>1, HeadTailProperties, LenProperties
<1> QED
  BY <1>1, <1>2, <1>3 DEF Nearer

\* memory_server.py:160: opening and migrating go round no loop but that over the rows to
\* be sealed; what other servers do to the file sends no server back.
THEOREM OpeningGoesForward == Spec => [][Forward]_vars
<1>1. TypeOK /\ [Next]_vars => [Forward]_vars
  <2> SUFFICES ASSUME TypeOK, Next PROVE Forward
    OBVIOUS
  <2>1. DOMAIN pc = Process /\ DOMAIN sealing = Process
    BY DEF TypeOK
  <2>2. ASSUME NEW p \in Process, Step(p) PROVE Nearer(p)
    <3>1. CASE JournalMode(p) \/ Check(p) \/ Begin(p) \/ Recheck(p) \/ Alter(p)
      BY <2>1, <3>1 DEF JournalMode, Check, Begin, Recheck, Alter, Move, Goto, At, Left, Nearer
    <3>2. CASE CreateTable(p)
      BY <2>1, <3>2 DEF CreateTable, Tables, NextStatement, Move, Goto, Left, Nearer
    <3>3. CASE OpenFails(p)
      BY <2>1, <3>3 DEF OpenFails, GiveUp, Opening, Tables, Migrating, Goto, Left, Nearer
    <3>4. CASE SelectRows(p) \/ SealEnds(p) \/ CreateTrigger(p) \/ CommitSeal(p) \/ LegacyEvent(p)
      BY <2>1, <3>4 DEF SelectRows, SealEnds, CreateTrigger, CommitSeal, LegacyEvent, Move, Goto,
                        At, Left, Nearer
    <3> QED
      BY <2>2, <3>1, <3>2, <3>3, <3>4, SealRowNearer DEF Step
  <2>3. ASSUME NEW p \in Process, pc'[p] # pc[p] \/ sealing'[p] # sealing[p]
        PROVE  Connect(p) \/ Step(p) \/ LegacyFact(p) \/ Crash(p)
    <3>1. ASSUME NEW q \in Process, q # p,
                 Connect(q) \/ Step(q) \/ Call(q) \/ LegacyFact(q) \/ Crash(q)
          PROVE  pc'[p] = pc[p] /\ sealing'[p] = sealing[p]
      <4>1. CASE Connect(q) \/ Call(q) \/ LegacyFact(q) \/ Crash(q) \/ OpenFails(q)
        BY <2>1, <3>1, <4>1 DEF Connect, Call, LegacyFact, Crash, OpenFails, GiveUp, Move, Goto, local
      <4>2. CASE \/ JournalMode(q) \/ CreateTable(q) \/ Check(q) \/ Begin(q) \/ Recheck(q)
                 \/ Alter(q) \/ SealEnds(q) \/ CreateTrigger(q) \/ LegacyEvent(q)
        BY <2>1, <3>1, <4>2 DEF JournalMode, CreateTable, Check, Begin, Recheck, Alter, SealEnds,
                                CreateTrigger, LegacyEvent, Move, Goto
      <4>3. CASE SelectRows(q) \/ SealRow(q) \/ CommitSeal(q)
        BY <2>1, <3>1, <4>3 DEF SelectRows, SealRow, CommitSeal, Goto
      <4> QED
        BY <3>1, <4>1, <4>2, <4>3 DEF Step
    <3>2. ~Call(p) /\ ~Quiescent
      BY <2>3 DEF Call, Quiescent, vars, local
    <3> QED
      BY <2>3, <3>1, <3>2 DEF Next
  <2> QED
    BY <2>2, <2>3 DEF Forward
<1> QED
  BY <1>1, TypeCorrect, PTL DEF Spec

====
