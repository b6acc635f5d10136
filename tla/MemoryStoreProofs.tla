---- MODULE MemoryStoreProofs ----
(***************************************************************************)
(* Proofs about MemoryStore, for every number of processes, keys, values   *)
(* and calls.                                                              *)
(***************************************************************************)
EXTENDS MemoryStoreInvariant, AlgorithmProofs

----------------------------------------------------------------------------
(* Types. *)

\* The last committed version is one of the wal.
LEMMA LastCommittedType ==
  ASSUME TypeOK
  PROVE  /\ Len(wal) \in Nat \ {0}
         /\ LastCommitted \in Database
         /\ \A v \in DOMAIN wal : v \in 1..Len(wal) /\ wal[v] \in Database
         /\ Len(wal) \in DOMAIN wal
<1>1. wal \in Seq(Database) /\ wal # <<>>
  BY DEF TypeOK
<1>2. Len(wal) \in Nat \ {0}
  BY <1>1, EmptySeq
<1>3. \A v \in 1..Len(wal) : wal[v] \in Database
  BY <1>1, ElementOfSeq
<1> QED
  BY <1>1, <1>2, <1>3, LenProperties DEF LastCommitted

\* What the connection of p sees is a database.
LEMMA ViewType ==
  ASSUME TypeOK, NEW p \in Process
  PROVE  View(p) \in Database
BY LastCommittedType DEF View, TypeOK

\* The parts of a database.
LEMMA DatabaseParts ==
  ASSUME NEW d \in Database
  PROVE  /\ d.facts \in [Key -> Fact \union {None}]
         /\ d.vectors \in [Key -> Value \union {None}]
         /\ d.events \in Seq(Event)
         /\ d.seq \in Nat
         /\ Len(d.events) \in Nat
<1>1. /\ d.facts \in [Key -> Fact \union {None}]
      /\ d.vectors \in [Key -> Value \union {None}]
      /\ d.events \in Seq(Event)
      /\ d.seq \in Nat
  BY DEF Database
<1> QED
  BY <1>1, LenProperties

\* Replacing a fact, a vector or the events of a database.
LEMMA PutFactType ==
  ASSUME NEW d \in Database, NEW k \in Key, NEW fact \in Fact \union {None}
  PROVE  /\ PutFact(d, k, fact) \in Database
         /\ PutFact(d, k, fact).facts = [d.facts EXCEPT ![k] = fact]
         /\ PutFact(d, k, fact).events = d.events
         /\ PutFact(d, k, fact).seq = d.seq
<1>1. [d.facts EXCEPT ![k] = fact] \in [Key -> Fact \union {None}]
  BY DatabaseParts
<1> QED
  BY <1>1 DEF PutFact, Database

\* Storing a vector keeps the database one, and changes nothing but the vectors.
LEMMA PutVectorType ==
  ASSUME NEW d \in Database, NEW k \in Key, NEW vector \in Value \union {None}
  PROVE  /\ PutVector(d, k, vector) \in Database
         /\ PutVector(d, k, vector).facts = d.facts
         /\ PutVector(d, k, vector).events = d.events
         /\ PutVector(d, k, vector).seq = d.seq
<1>1. [d.vectors EXCEPT ![k] = vector] \in [Key -> Value \union {None}]
  BY DatabaseParts
<1> QED
  BY <1>1 DEF PutVector, Database

\* Appending an event keeps the database one, and its facts.
LEMMA AppendEventType ==
  ASSUME NEW d \in Database, NEW e \in Event, NEW n \in Nat
  PROVE  LET new == [d EXCEPT !.events = Append(@, e), !.seq = n] IN
         /\ new \in Database
         /\ new.facts = d.facts
         /\ new.events = Append(d.events, e)
         /\ new.seq = n
<1>1. Append(d.events, e) \in Seq(Event)
  BY DatabaseParts, AppendProperties
<1> QED
  BY <1>1 DEF Database

\* A request that is under way, and what the tools ask of it.
LEMMA RequestType ==
  ASSUME TypeOK, NEW p \in Process, CallInv(p), pc[p] # "idle"
  PROVE  /\ Req(p) \in Request
         /\ ClientId(p) \in Client
         /\ Req(p).tool \in {"set", "get", "delete", "search", "history", "list", "lock_hold"}
         /\ Req(p).key \in Key \union BadKey \union {None}
         /\ Req(p).value \in Value \union BadValue \union {None}
         /\ pc[p] # "refuse" /\ Req(p).tool \in {"set", "get", "delete"} => Req(p).key \in Key
         /\ pc[p] # "refuse" /\ Req(p).tool = "set" => Req(p).value \in Value
         /\ Req(p).tool # "set" => Req(p).value = None
<1>1. calls[serial[p]] \in Call
  BY ElementOfSeq, LenProperties DEF TypeOK, CallInv
<1>2. Req(p) \in Request
  BY <1>1 DEF Req, Call
<1>3. Req(p).claimed \in Client \union {None}
  BY <1>2 DEF Request, SetRequest, KeyRequest, StoreRequest
<1>4. ClientId(p) \in Client
  BY <1>3, StoreAssumption DEF ClientId
<1>5. pc[p] # "refuse" => ~Refused(p, Req(p))
  BY DEF CallInv
<1> QED
  BY <1>2, <1>4, <1>5 DEF Request, SetRequest, KeyRequest, StoreRequest, Refused

\* The row that append inserts is a row of the table.
LEMMA NewEventType ==
  ASSUME TypeOK, NEW p \in Process, CallInv(p), pc[p] \in {"insert", "commit"}
  PROVE  /\ NewEvent(p) \in Event
         /\ NewEvent(p).id = tail[p].seq + 1
         /\ NewEvent(p).timestamp = now[p]
         /\ NewEvent(p).client = ClientId(p)
         /\ NewEvent(p).action = LogAction(p)
         /\ NewEvent(p).key = LogKey(p)
         /\ NewEvent(p).value = LogValue(p)
         /\ NewEvent(p).prev_hash = tail[p].hash
         /\ NewEvent(p).event_hash = Digest(tail[p].hash, Fields(NewEvent(p)))
         /\ NewEvent(p).call = serial[p]
<1> DEFINE fields ==
      [id |-> tail[p].seq + 1, timestamp |-> now[p], client |-> ClientId(p),
       action |-> LogAction(p), key |-> LogKey(p), value |-> LogValue(p)]
<1>1. /\ tail[p].seq + 1 \in Nat
      /\ tail[p].hash \in Seq(EventFields)
      /\ now[p] \in Time
      /\ serial[p] \in Nat
  BY DEF TypeOK
<1>2. /\ ClientId(p) \in Client
      /\ Req(p).tool \in {"set", "delete", "get", "search", "lock_hold"}
  BY RequestType DEF CallInv, OnItsPath, Logging
<1>3. LogAction(p) \in Action
  BY <1>2 DEF LogAction, Action
<1>4. LogKey(p) \in Key \union {None}
  <2>1. CASE Req(p).tool = "search"
    <3>1. DOMAIN found[p].facts # {} /\ DOMAIN found[p].facts \subseteq Key
      BY <2>1 DEF CallInv, Logging, TypeOK, Found, SomeRows
    <3> QED
      BY <2>1, <3>1 DEF LogKey, Best
  <2>2. CASE Req(p).tool \in {"set", "delete", "get"}
    BY <2>2, RequestType DEF LogKey
  <2>3. CASE Req(p).tool = "lock_hold"
    <3>1. Req(p) \in StoreRequest
      BY <2>3, RequestType DEF Request, SetRequest, KeyRequest
    <3> QED
      BY <2>3, <3>1 DEF StoreRequest, LogKey
  <2> QED
    BY <1>2, <2>1, <2>2, <2>3
<1>5. LogValue(p) \in Value \union {None}
  <2>1. CASE cas[p].failed
    BY <2>1 DEF LogValue, TypeOK
  <2>2. CASE ~cas[p].failed
    BY <2>2, RequestType DEF LogValue
  <2> QED
    BY <2>1, <2>2
<1>6. fields \in EventFields
  BY <1>1, <1>2, <1>3, <1>4, <1>5 DEF EventFields
<1>7. Digest(tail[p].hash, fields) \in Seq(EventFields)
  BY <1>1, <1>6, AppendProperties DEF Digest
<1>8. NewEvent(p) =
        [id |-> tail[p].seq + 1, timestamp |-> now[p], client |-> ClientId(p),
         action |-> LogAction(p), key |-> LogKey(p), value |-> LogValue(p),
         prev_hash |-> tail[p].hash, event_hash |-> Digest(tail[p].hash, fields),
         call |-> serial[p]]
  BY DEF NewEvent
<1>9. fields = Fields(NewEvent(p))
  BY <1>8 DEF Fields
<1>10. NewEvent(p) \in Event
  BY <1>1, <1>2, <1>3, <1>4, <1>5, <1>7, <1>8 DEF Event
<1> HIDE DEF fields
<1> QED
  BY <1>8, <1>9, <1>10

----------------------------------------------------------------------------
(* Every step keeps the types. *)

StoreTypeOK ==
  /\ wal \in Seq(Database) /\ wal # <<>>
  /\ draft \in Database
  /\ writer \in Process \union {NoProcess}

LocalTypeOK ==
  /\ pc \in [Process -> Label]
  /\ serial \in [Process -> Nat]
  /\ cas \in [Process -> [failed: BOOLEAN, actual: Value \union {None}]]
  /\ found \in [Process -> Found]
  /\ now \in [Process -> Time]
  /\ tail \in [Process -> [hash: Seq(EventFields), seq: Nat]]

HistoryTypeOK ==
  /\ clock \in [time: Time, steady: BOOLEAN]
  /\ calls \in Seq(Call)
  /\ powerLost \in BOOLEAN

\* The type invariant is the conjunction of its three parts.
LEMMA TypeParts == TypeOK <=> StoreTypeOK /\ LocalTypeOK /\ HistoryTypeOK
BY DEF TypeOK, StoreTypeOK, LocalTypeOK, HistoryTypeOK

\* The operations of SQLite.
LEMMA WriteKeepsTypes ==
  ASSUME TypeOK, NEW p \in Process, NEW d \in Database, Write(p, d)
  PROVE  StoreTypeOK'
BY DEF TypeOK, StoreTypeOK, Write

\* A commit keeps every type.
LEMMA CommitKeepsTypes ==
  ASSUME TypeOK, NEW p \in Process, Commit(p)
  PROVE  StoreTypeOK' /\ wal' = Append(wal, draft) /\ LastCommitted' = draft
<1>1. /\ wal' \in Seq(Database)
      /\ Len(wal') = Len(wal) + 1
      /\ wal'[Len(wal) + 1] = draft
  BY AppendProperties DEF TypeOK, Commit
<1>2. wal' # <<>>
  BY <1>1, LastCommittedType, EmptySeq
<1> QED
  BY <1>1, <1>2 DEF TypeOK, StoreTypeOK, Commit, LastCommitted

\* A rollback keeps every type.
LEMMA RollbackKeepsTypes ==
  ASSUME TypeOK, NEW p \in Process, Rollback(p)
  PROVE  StoreTypeOK'
BY LastCommittedType DEF TypeOK, StoreTypeOK, Rollback

\* A sync leaves the last version alone in the log.
LEMMA SyncKeepsTypes ==
  ASSUME TypeOK, Sync
  PROVE  /\ StoreTypeOK'
         /\ LastCommitted' = LastCommitted
         /\ Len(wal') = 1
<1>1. LastCommitted \in Database
  BY LastCommittedType
<1>2. wal' \in Seq(Database) /\ Len(wal') = 1 /\ wal'[1] = LastCommitted
  BY <1>1 DEF Sync
<1>3. wal' # <<>>
  BY <1>2, EmptySeq
<1> QED
  BY <1>2, <1>3 DEF TypeOK, StoreTypeOK, Sync, LastCommitted

\* A power loss leaves a prefix of the log and no writer.
LEMMA LosePowerKeepsTypes ==
  ASSUME TypeOK, LosePower
  PROVE  /\ StoreTypeOK'
         /\ Len(wal') \in 1..Len(wal)
         /\ \A v \in 1..Len(wal') : wal'[v] = wal[v]
         /\ writer' = NoProcess
<1>1. PICK n \in 1..Len(wal) : wal' = SubSeq(wal, 1, n) /\ draft' = wal[n]
                               /\ writer' = NoProcess
  BY DEF LosePower
<1>2. Len(wal) \in Nat /\ \A i \in 1..n : wal[i] \in Database
  BY LastCommittedType, LenProperties DEF TypeOK
<1>3. n \in Int /\ 1 <= n /\ n <= Len(wal)
  BY <1>2
<1>4. /\ wal' \in Seq(Database)
      /\ Len(wal') = n
      /\ \A i \in 1..n : wal'[i] = wal[i]
  BY <1>1, <1>2, <1>3, SubSeqProperties
<1>5. wal' # <<>>
  BY <1>3, <1>4, EmptySeq
<1> QED
  BY <1>1, <1>2, <1>3, <1>4, <1>5 DEF StoreTypeOK

\* The end of a call.
LEMMA ReturnKeepsTypes ==
  ASSUME TypeOK, NEW p \in Process, CallInv(p), pc[p] # "idle",
         NEW answer \in Answer, Return(p, answer)
  PROVE  LocalTypeOK' /\ HistoryTypeOK'
<1>1. serial[p] \in 1..Len(calls) /\ calls[serial[p]] \in Call
  BY LenProperties, ElementOfSeq DEF TypeOK, CallInv
<1>2. [calls[serial[p]] EXCEPT !.answer = answer] \in Call
  BY <1>1 DEF Call
<1>3. calls' \in Seq(Call)
  BY <1>1, <1>2, ExceptSeq DEF TypeOK, Return
<1>4. Nothing \in Found /\ NotLost \in [failed: BOOLEAN, actual: Value \union {None}]
  <2>1. NoRows \in [{} -> Fact \union {None}]
    BY DEF NoRows
  <2>2. {} \in SUBSET Key
    OBVIOUS
  <2>3. NoRows \in UNION {[ks -> Fact \union {None}] : ks \in SUBSET Key}
    BY <2>1, <2>2
  <2> QED
    BY <2>3 DEF Nothing, Found, SomeRows, NotLost
<1>5. NoTail \in [hash: Seq(EventFields), seq: Nat]
  BY DEF NoTail, GENESIS
<1>6. 0 \in Time
  BY StoreAssumption DEF Time
<1> QED
  BY <1>3, <1>4, <1>5, <1>6 DEF TypeOK, LocalTypeOK, HistoryTypeOK, Return, Goto, Label

\* A step that replaces the answer, adds a call, or leaves the calls alone,
\* leaves every earlier request as it was.
KeepsCalls ==
  /\ DOMAIN calls \subseteq DOMAIN calls'
  /\ \A n \in DOMAIN calls :
       /\ calls'[n].request = calls[n].request
       /\ calls'[n].process = calls[n].process

\* Receiving a call keeps every type.
LEMMA ReceiveKeepsTypes ==
  ASSUME TypeOK, NEW p \in Process, NEW request \in Requests, Receive(p, request)
  PROVE  LocalTypeOK' /\ HistoryTypeOK'
<1>1. request \in Request
  BY StoreAssumption
<1>2. Len(LastCommitted.events) \in Nat /\ Len(calls) \in Nat
  BY LastCommittedType, DatabaseParts, LenProperties DEF TypeOK
<1>3. [process |-> p, request |-> request, answer |-> "pending",
       since |-> Len(LastCommitted.events)] \in Call
  BY <1>1, <1>2 DEF Call, Answer
<1>4. calls' \in Seq(Call)
  BY <1>3, AppendProperties DEF TypeOK, Receive
<1>5. Entry(p, request) \in Label
  BY DEF Entry, Label
<1>6. LocalTypeOK'
  BY <1>2, <1>5 DEF TypeOK, LocalTypeOK, Receive, Goto
<1>7. HistoryTypeOK'
  BY <1>4 DEF TypeOK, HistoryTypeOK, Receive
<1> QED
  BY <1>6, <1>7

\* Fetching a result keeps every type.
LEMMA FetchKeepsTypes ==
  ASSUME TypeOK, NEW p \in Process, NEW ks \in SUBSET Key, NEW next \in Label,
         Fetch(p, ks, next)
  PROVE  TypeOK'
<1>1. /\ View(p).facts \in [Key -> Fact \union {None}]
      /\ Len(View(p).events) \in Nat
  BY ViewType, DatabaseParts
<1>2. [k \in ks |-> View(p).facts[k]] \in [ks -> Fact \union {None}]
  BY <1>1
<1>3. Rows(p, ks) \in Found
  BY <1>1, <1>2 DEF Rows, Found, SomeRows
<1> QED
  BY <1>3 DEF TypeOK, Fetch, Goto, sqlite

\* A power loss keeps every type.
LEMMA PowerLossKeepsTypes ==
  ASSUME TypeOK, PowerLoss
  PROVE  TypeOK'
<1>1. StoreTypeOK'
  BY LosePowerKeepsTypes DEF PowerLoss
<1>2. calls \in Seq(Call) /\ calls \in [1..Len(calls) -> Call] /\ Len(calls) \in Nat
  BY LenProperties DEF TypeOK
<1>3. \A n \in 1..Len(calls) :
        (IF calls[n].answer = "pending"
           THEN [calls[n] EXCEPT !.answer = "lost"] ELSE calls[n]) \in Call
  <2> SUFFICES ASSUME NEW n \in 1..Len(calls)
               PROVE  [calls[n] EXCEPT !.answer = "lost"] \in Call /\ calls[n] \in Call
    OBVIOUS
  <2>1. calls[n] \in Call
    BY <1>2
  <2> QED
    BY <2>1 DEF Call, Answer
<1>4. calls' \in [1..Len(calls) -> Call]
  BY <1>2, <1>3 DEF PowerLoss
<1>5. calls' \in Seq(Call)
  BY <1>2, <1>4, SeqDef
<1>6. Nothing \in Found /\ NotLost \in [failed: BOOLEAN, actual: Value \union {None}]
  <2>1. NoRows \in [{} -> Fact \union {None}] /\ {} \in SUBSET Key
    BY DEF NoRows
  <2>2. NoRows \in UNION {[ks -> Fact \union {None}] : ks \in SUBSET Key}
    BY <2>1
  <2> QED
    BY <2>2 DEF Nothing, Found, SomeRows, NotLost
<1>7. NoTail \in [hash: Seq(EventFields), seq: Nat]
  BY DEF NoTail, GENESIS
<1>8. LocalTypeOK'
  BY <1>6, <1>7, StoreAssumption DEF TypeOK, LocalTypeOK, PowerLoss, Label, Time
<1>9. HistoryTypeOK'
  BY <1>5 DEF TypeOK, HistoryTypeOK, PowerLoss
<1> QED
  BY <1>1, <1>8, <1>9, TypeParts DEF StoreTypeOK, LocalTypeOK, HistoryTypeOK, TypeOK

\* A step of one process, the statements of memory_set and memory_delete first.
LEMMA StatementKeepsTypes ==
  ASSUME TypeOK, NEW p \in Process, CallInv(p),
         \/ Embed(p) \/ SetFact(p) \/ LoseCas(p) \/ ReadActual(p) \/ SetVector(p)
         \/ DeleteFact(p) \/ DeleteVector(p)
  PROVE  TypeOK'
<1> USE ViewType, RequestType, DatabaseParts
<1>1. CASE Embed(p)
  BY <1>1 DEF Embed, TypeOK, At, Goto, sqlite, Label
<1>2. CASE SetFact(p)
  <2> DEFINE fact == [value |-> Req(p).value, source |-> ClientId(p), updated |-> now[p]]
  <2>1. Req(p).key \in Key /\ fact \in Fact \union {None}
    BY <1>2 DEF SetFact, At, TypeOK, Fact
  <2>2. PutFact(View(p), Req(p).key, fact) \in Database
    BY <2>1, PutFactType
  <2>3. StoreTypeOK'
    BY <1>2, <2>2, WriteKeepsTypes DEF SetFact
  <2> QED
    BY <1>2, <2>3 DEF SetFact, TypeOK, StoreTypeOK, Goto, Label
<1>3. CASE LoseCas(p)
  <2>1. StoreTypeOK'
    BY <1>3, WriteKeepsTypes DEF LoseCas
  <2> QED
    BY <1>3, <2>1 DEF LoseCas, TypeOK, StoreTypeOK, Goto, Label
<1>4. CASE ReadActual(p)
  <2>1. Req(p).key \in Key
    BY <1>4 DEF ReadActual, At, CallInv, OnItsPath
  <2>2. View(p).facts[Req(p).key] \in Fact \union {None}
    BY <2>1
  <2>3. (IF View(p).facts[Req(p).key] = None THEN None ELSE View(p).facts[Req(p).key].value)
          \in Value \union {None}
    BY <2>2 DEF Fact
  <2> QED
    BY <1>4, <2>3 DEF ReadActual, TypeOK, Goto, Label, sqlite
<1>5. CASE SetVector(p)
  <2>1. Req(p).key \in Key /\ Req(p).value \in Value
    BY <1>5 DEF SetVector, At
  <2>2. PutVector(View(p), Req(p).key, Req(p).value) \in Database
    BY <2>1, PutVectorType
  <2>3. StoreTypeOK'
    BY <1>5, <2>2, WriteKeepsTypes DEF SetVector
  <2> QED
    BY <1>5, <2>3 DEF SetVector, TypeOK, StoreTypeOK, Goto, Label
<1>6. CASE DeleteFact(p)
  <2>1. Req(p).key \in Key
    BY <1>6 DEF DeleteFact, At
  <2>2. PutFact(View(p), Req(p).key, None) \in Database
    BY <2>1, PutFactType
  <2>3. StoreTypeOK'
    BY <1>6, <2>2, WriteKeepsTypes DEF DeleteFact
  <2> QED
    BY <1>6, <2>3 DEF DeleteFact, TypeOK, StoreTypeOK, Goto, Label
<1>7. CASE DeleteVector(p)
  <2>1. Req(p).key \in Key
    BY <1>7 DEF DeleteVector, At
  <2>2. PutVector(View(p), Req(p).key, None) \in Database
    BY <2>1, PutVectorType
  <2>3. StoreTypeOK'
    BY <1>7, <2>2, WriteKeepsTypes DEF DeleteVector
  <2> QED
    BY <1>7, <2>3 DEF DeleteVector, TypeOK, StoreTypeOK, Goto, Label
<1> QED
  BY <1>1, <1>2, <1>3, <1>4, <1>5, <1>6, <1>7

\* The steps of the audit append, the commit and the reads.
LEMMA LogKeepsTypes ==
  ASSUME TypeOK, NEW p \in Process, CallInv(p),
         \/ Log(p) \/ AppendBegin(p) \/ ReadTail(p) \/ InsertEvent(p) \/ CommitTx(p)
  PROVE  TypeOK'
<1> USE ViewType, DatabaseParts
<1>1. CASE Log(p)
  BY <1>1 DEF Log, TypeOK, Goto, sqlite, Label
<1>2. CASE AppendBegin(p)
  <2>1. StoreTypeOK'
    BY <1>2, WriteKeepsTypes DEF AppendBegin, BeginImmediate
  <2> QED
    BY <1>2, <2>1 DEF AppendBegin, TypeOK, StoreTypeOK, Goto, Label
<1>3. CASE ReadTail(p)
  <2>1. ChainHead(View(p).events) \in Seq(EventFields)
    <3>1. CASE View(p).events = <<>>
      BY <3>1 DEF ChainHead, GENESIS
    <3>2. CASE View(p).events # <<>>
      <4>1. Len(View(p).events) \in 1..Len(View(p).events)
        BY <3>2, EmptySeq
      <4>2. View(p).events[Len(View(p).events)] \in Event
        BY <4>1, ElementOfSeq
      <4> QED
        BY <3>2, <4>2 DEF ChainHead, Event
    <3> QED
      BY <3>1, <3>2
  <2> QED
    BY <1>3, <2>1 DEF ReadTail, TypeOK, Goto, Label, sqlite
<1>4. CASE InsertEvent(p)
  <2>1. /\ NewEvent(p) \in Event
        /\ NewEvent(p).id \in Nat
    BY <1>4, NewEventType DEF InsertEvent, At, Event
  <2>2. [View(p) EXCEPT !.events = Append(@, NewEvent(p)), !.seq = NewEvent(p).id] \in Database
    BY <2>1, AppendEventType
  <2>3. StoreTypeOK'
    BY <1>4, <2>2, WriteKeepsTypes DEF InsertEvent
  <2> QED
    BY <1>4, <2>3 DEF InsertEvent, TypeOK, StoreTypeOK, Goto, Label
<1>5. CASE CommitTx(p)
  <2>1. StoreTypeOK'
    BY <1>5, CommitKeepsTypes DEF CommitTx
  <2>2. AfterRead(p) \in Label
    BY DEF AfterRead, Label
  <2> QED
    BY <1>5, <2>1, <2>2 DEF CommitTx, TypeOK, StoreTypeOK, Goto
<1> QED
  BY <1>1, <1>2, <1>3, <1>4, <1>5

\* A read keeps every type.
LEMMA ReadKeepsTypes ==
  ASSUME TypeOK, NEW p \in Process, CallInv(p),
         \/ GetRow(p) \/ Events(p) \/ Select(p) \/ ScanEmpty(p) \/ ScanHit(p) \/ Query(p)
  PROVE  TypeOK'
<1> USE ViewType, DatabaseParts
<1>1. CASE GetRow(p)
  <2>1. Req(p).key \in Key
    BY <1>1, RequestType DEF GetRow, At, CallInv, OnItsPath
  <2>2. \E next \in Label : Fetch(p, {Req(p).key}, next)
    BY <1>1 DEF GetRow, Label
  <2> QED
    BY <2>1, <2>2, FetchKeepsTypes
<1>2. CASE Events(p)
  <2>1. [found[p] EXCEPT !.upTo = Len(View(p).events)] \in Found
    <3>1. found[p] \in Found /\ Len(View(p).events) \in Nat
      BY DEF TypeOK
    <3> QED
      BY <3>1 DEF Found
  <2> QED
    BY <1>2, <2>1 DEF Events, TypeOK, Goto, Label, sqlite
<1>3. CASE Select(p)
  <2>1. \E ks \in SUBSET Key : Fetch(p, ks, "reply")
    BY <1>3 DEF Select
  <2> QED
    BY <2>1, FetchKeepsTypes DEF Label
<1>4. CASE ScanEmpty(p)
  <2>1. \E ks \in SUBSET Key : Fetch(p, ks, "reply")
    BY <1>4 DEF ScanEmpty
  <2> QED
    BY <2>1, FetchKeepsTypes DEF Label
<1>5. CASE ScanHit(p)
  <2>1. \E ks \in SUBSET Key : Fetch(p, ks, "query")
    BY <1>5 DEF ScanHit, Searchable
  <2> QED
    BY <2>1, FetchKeepsTypes DEF Label
<1>6. CASE Query(p)
  BY <1>6 DEF Query, TypeOK, Goto, Label, sqlite
<1> QED
  BY <1>1, <1>2, <1>3, <1>4, <1>5, <1>6

\* The steps that end a call.
LEMMA EndKeepsTypes ==
  ASSUME TypeOK, NEW p \in Process, CallInv(p), LockInv,
         \/ Refuse(p) \/ Reply(p) \/ Busy(p) \/ EmbedFails(p) \/ TxFails(p)
         \/ StatementFails(p) \/ Crash(p)
  PROVE  TypeOK'
<1>1. Outcome(p) \in Answer
  BY DEF Outcome, Answer
<1>2. pc[p] # "idle" /\ \E answer \in Answer : Return(p, answer)
  BY <1>1 DEF Refuse, Reply, Busy, EmbedFails, TxFails, StatementFails, Crash, At, Answer,
              LockInv, Holding
<1>3. LocalTypeOK' /\ HistoryTypeOK'
  BY <1>2, ReturnKeepsTypes
<1>4. StoreTypeOK'
  BY RollbackKeepsTypes DEF Refuse, Reply, Busy, EmbedFails, TxFails, StatementFails, Crash, sqlite, TypeOK,
     StoreTypeOK
<1> QED
  BY <1>3, <1>4 DEF TypeOK, StoreTypeOK, LocalTypeOK, HistoryTypeOK

\* Every step keeps every type.
LEMMA TypeStep == IInv /\ [Next]_vars => TypeOK'
<1> SUFFICES ASSUME IInv, [Next]_vars PROVE TypeOK'
  OBVIOUS
<1> USE DEF IInv
<1>1. ASSUME NEW p \in Process, NEW request \in Requests, Receive(p, request) PROVE TypeOK'
  BY <1>1, ReceiveKeepsTypes
     DEF Receive, sqlite, TypeOK, StoreTypeOK, LocalTypeOK, HistoryTypeOK
<1>2. ASSUME NEW p \in Process, Step(p) \/ Fault(p) PROVE TypeOK'
  BY <1>2, StatementKeepsTypes, LogKeepsTypes, ReadKeepsTypes, EndKeepsTypes DEF Step, Fault
<1>3. CASE PowerLoss
  BY <1>3, PowerLossKeepsTypes
<1>4. CASE Checkpoint
  BY <1>4, SyncKeepsTypes DEF Checkpoint, process, TypeOK, StoreTypeOK
<1>5. CASE Tick
  <2>1. clock' \in [time: Time, steady: BOOLEAN]
    BY <1>5 DEF Tick, TypeOK
  <2> QED
    BY <1>5, <2>1 DEF Tick, sqlite, process, TypeOK
<1>6. CASE UNCHANGED vars
  BY <1>6 DEF vars, sqlite, process, TypeOK
<1> QED
  BY <1>1, <1>2, <1>3, <1>4, <1>5, <1>6 DEF Next, Quiescent

----------------------------------------------------------------------------
(* Every step keeps the shape of the calls under way and the lock.          *)

\* What a step of one process leaves alone in another.
Untouched(q) ==
  /\ pc'[q] = pc[q] /\ serial'[q] = serial[q] /\ cas'[q] = cas[q]
  /\ found'[q] = found[q] /\ now'[q] = now[q] /\ tail'[q] = tail[q]

\* A call that a step does not touch is still where the invariant says.
LEMMA UntouchedKeeps ==
  ASSUME TypeOK, NEW q \in Process, CallInv(q), Untouched(q), KeepsCalls
  PROVE  /\ CallInv(q)'
         /\ Holding(q)' <=> Holding(q)
         /\ pc[q] # "idle" =>
              /\ Req(q)' = Req(q)
              /\ ClientId(q)' = ClientId(q)
              /\ NewEvent(q)' = NewEvent(q)
<1>1. pc[q] # "idle" => Req(q)' = Req(q)
  BY DEF CallInv, Untouched, KeepsCalls, Req
<1>3. CallInv(q)'
  BY <1>1 DEF CallInv, Untouched, KeepsCalls, Refused
<1>4. Holding(q)' <=> Holding(q)
  BY <1>1 DEF Holding, Untouched
<1>5. ASSUME pc[q] # "idle"
      PROVE  ClientId(q)' = ClientId(q) /\ NewEvent(q)' = NewEvent(q)
  <2>1. /\ ClientId(q)' = ClientId(q)
        /\ LogAction(q)' = LogAction(q)
        /\ LogKey(q)' = LogKey(q)
        /\ LogValue(q)' = LogValue(q)
    BY <1>1, <1>5 DEF ClientId, LogAction, LogKey, LogValue, Untouched
  <2> QED
    BY <2>1 DEF NewEvent, Untouched
<1> QED
  BY <1>1, <1>3, <1>4, <1>5

\* A step of p touches no other process, and no request.
LEMMA OneProcessMoves ==
  ASSUME IInv, NEW p \in Process,
         (\E request \in Requests : Receive(p, request)) \/ Step(p) \/ Fault(p)
  PROVE  /\ \A q \in Process : q # p => Untouched(q)
         /\ KeepsCalls
         /\ clock' = clock
<1> USE DEF IInv, Goto
<1>1. CASE \E request \in Requests : Receive(p, request)
  <2>1. Len(calls) \in Nat /\ DOMAIN calls = 1..Len(calls)
    BY LenProperties DEF TypeOK
  <2>2. PICK call \in Call : calls' = Append(calls, call)
    <3>1. PICK request \in Requests : Receive(p, request)
      BY <1>1
    <3>2. Len(LastCommitted.events) \in Nat
      BY LastCommittedType, DatabaseParts
    <3>3. [process |-> p, request |-> request, answer |-> "pending",
           since |-> Len(LastCommitted.events)] \in Call
      BY <3>2, StoreAssumption DEF Call, Answer
    <3> QED
      BY <3>1, <3>3 DEF Receive
  <2>3. /\ Len(calls') = Len(calls) + 1
        /\ calls' \in Seq(Call)
        /\ \A n \in 1..Len(calls) : calls'[n] = calls[n]
    BY <2>1, <2>2, AppendProperties DEF TypeOK
  <2>4. KeepsCalls
    BY <2>1, <2>3, LenProperties DEF KeepsCalls
  <2> QED
    BY <1>1, <2>4 DEF Receive, TypeOK, Untouched
<1>2. ASSUME pc[p] # "idle", NEW answer \in Answer, Return(p, answer)
      PROVE  (\A q \in Process : q # p => Untouched(q)) /\ KeepsCalls /\ clock' = clock
  <2>1. DOMAIN calls = 1..Len(calls) /\ serial[p] \in DOMAIN calls
        /\ \A n \in DOMAIN calls : calls[n] \in Call
    BY <1>2, LenProperties, ElementOfSeq DEF TypeOK, CallInv
  <2>2. KeepsCalls
    BY <1>2, <2>1 DEF KeepsCalls, Return, Call
  <2> QED
    BY <1>2, <2>2 DEF Return, TypeOK, Untouched
<1>3. CASE \/ Refuse(p) \/ Reply(p) \/ Busy(p) \/ EmbedFails(p) \/ TxFails(p)
           \/ StatementFails(p) \/ Crash(p)
  <2>1. Outcome(p) \in Answer
    BY DEF Outcome, Answer
  <2>2. pc[p] # "idle" /\ \E answer \in Answer : Return(p, answer)
    BY <1>3, <2>1 DEF Refuse, Reply, Busy, EmbedFails, TxFails, StatementFails, Crash, At, Answer,
                LockInv, Holding
  <2> QED
    BY <1>2, <2>2
<1>4. CASE \/ Embed(p) \/ SetFact(p) \/ LoseCas(p) \/ ReadActual(p) \/ SetVector(p)
           \/ DeleteFact(p) \/ DeleteVector(p)
           \/ Log(p) \/ AppendBegin(p) \/ ReadTail(p) \/ InsertEvent(p) \/ CommitTx(p)
           \/ GetRow(p) \/ Events(p) \/ Select(p) \/ ScanEmpty(p) \/ ScanHit(p) \/ Query(p)
  <2>1. UNCHANGED <<calls, clock>>
    BY <1>4 DEF Embed, SetFact, LoseCas, ReadActual, SetVector, DeleteFact, DeleteVector,
         Log, AppendBegin, ReadTail, InsertEvent, CommitTx, GetRow, Events, Select,
         ScanEmpty, ScanHit, Query, Fetch
  <2>2. \A q \in Process : q # p => Untouched(q)
    BY <1>4 DEF Embed, SetFact, LoseCas, ReadActual, SetVector, DeleteFact, DeleteVector,
         Log, AppendBegin, ReadTail, InsertEvent, CommitTx, GetRow, Events, Select,
         ScanEmpty, ScanHit, Query, Fetch, TypeOK, Untouched
  <2> QED
    BY <2>1, <2>2 DEF KeepsCalls
<1> QED
  BY <1>1, <1>3, <1>4 DEF Step, Fault

\* Only p's own steps give p the lock or take it from p.
LEMMA LockMoves ==
  ASSUME TypeOK, NEW p \in Process, NEW q \in Process, q # p,
         (\E request \in Requests : Receive(p, request)) \/ Step(p) \/ Fault(p)
  PROVE  InTransaction(q)' <=> InTransaction(q)
<1> USE NoProcessAssumption DEF InTransaction
<1>1. CASE \/ SetFact(p) \/ LoseCas(p) \/ SetVector(p) \/ DeleteFact(p) \/ DeleteVector(p)
           \/ AppendBegin(p) \/ InsertEvent(p)
  <2>1. \E d : Write(p, d)
    BY <1>1 DEF SetFact, LoseCas, SetVector, DeleteFact, DeleteVector, AppendBegin,
                BeginImmediate, InsertEvent
  <2> QED
    BY <2>1 DEF Write, Locked
<1>2. CASE CommitTx(p)
  BY <1>2 DEF CommitTx, Commit
<1>3. CASE Busy(p) \/ TxFails(p) \/ Crash(p)
  BY <1>3 DEF Busy, TxFails, Crash, Rollback
<1>4. CASE \/ \E request \in Requests : Receive(p, request)
           \/ Refuse(p) \/ Reply(p) \/ Embed(p) \/ ReadActual(p) \/ Log(p) \/ ReadTail(p)
           \/ GetRow(p) \/ Events(p) \/ Select(p) \/ ScanEmpty(p) \/ ScanHit(p) \/ Query(p)
           \/ EmbedFails(p) \/ StatementFails(p)
  <2>1. UNCHANGED sqlite
    BY <1>4 DEF Receive, Refuse, Reply, Embed, ReadActual, Log, ReadTail, GetRow,
         Events, Select, ScanEmpty, ScanHit, Query, Fetch, EmbedFails, StatementFails
  <2> QED
    BY <2>1 DEF sqlite
<1> QED
  BY <1>1, <1>2, <1>3, <1>4 DEF Step, Fault

\* What a step inside a call has to keep for the call to stay in shape.
LEMMA SameCall ==
  ASSUME TypeOK, NEW p \in Process, CallInv(p), pc[p] \notin {"idle", "refuse"},
         UNCHANGED <<serial, calls>>,
         pc'[p] # "idle",
         OnItsPath(pc'[p], Req(p).tool),
         cas'[p].failed => Req(p).tool = "set" /\ pc'[p] \in Logging \union {"reply"},
         ~cas'[p].failed => cas'[p] = NotLost,
         Req(p).tool = "search" /\ pc'[p] \in Logging \union {"query"} =>
           DOMAIN found'[p].facts # {}
  PROVE  CallInv(p)' /\ Req(p)' = Req(p)
<1>1. Req(p)' = Req(p)
  BY DEF Req
<1>2. ~Refused(p, Req(p))
  BY DEF CallInv
<1>3. ~Refused(p, Req(p))'
  BY <1>1, <1>2 DEF Refused
<1>4. serial'[p] \in DOMAIN calls' /\ calls'[serial'[p]].process = p
  BY DEF CallInv
<1>5. OnItsPath(pc[p], Req(p).tool)'
  BY <1>1 DEF OnItsPath, Logging
<1> QED
  BY <1>1, <1>3, <1>4, <1>5 DEF CallInv, Logging

\* The step of p keeps its own call in shape and its lock in step with it.
LEMMA MoverKeeps ==
  ASSUME IInv, NEW p \in Process,
         (\E request \in Requests : Receive(p, request)) \/ Step(p) \/ Fault(p)
  PROVE  CallInv(p)' /\ (InTransaction(p)' <=> Holding(p)')
<1>0. /\ TypeOK
      /\ CallInv(p)
      /\ InTransaction(p) <=> Holding(p)
  BY DEF IInv, LockInv
<1>01. pc \in [Process -> Label]
  BY <1>0 DEF TypeOK
<1>02. pc[p] # "idle" =>
            /\ OnItsPath(pc[p], Req(p).tool)
            /\ cas[p].failed => Req(p).tool = "set" /\ pc[p] \in Logging \union {"reply"}
            /\ ~cas[p].failed => cas[p] = NotLost
            /\ Req(p).tool = "search" /\ pc[p] \in Logging \union {"query"} =>
                 DOMAIN found[p].facts # {}
  BY <1>0 DEF CallInv
<1> USE NoProcessAssumption DEF At, Goto
<1>1. CASE \E request \in Requests : Receive(p, request)
  <2>1. PICK request \in Requests : Receive(p, request)
    BY <1>1
  <2>2. Len(calls) \in Nat
    BY <1>0, LenProperties DEF TypeOK
  <2>3. /\ Len(calls) + 1 \in DOMAIN calls'
        /\ calls'[Len(calls) + 1].request = request
        /\ calls'[Len(calls) + 1].process = p
    <3>1. Len(LastCommitted.events) \in Nat
      BY <1>0, LastCommittedType, DatabaseParts
    <3>2. [process |-> p, request |-> request, answer |-> "pending",
           since |-> Len(LastCommitted.events)] \in Call
      BY <3>1, StoreAssumption DEF Call, Answer
    <3>3. /\ calls' \in Seq(Call)
          /\ Len(calls') = Len(calls) + 1
          /\ calls'[Len(calls) + 1] =
               [process |-> p, request |-> request, answer |-> "pending",
                since |-> Len(LastCommitted.events)]
      BY <1>0, <2>1, <3>2, AppendProperties DEF Receive, TypeOK
    <3>4. DOMAIN calls' = 1 .. Len(calls) + 1
      BY <3>3, LenProperties
    <3> QED
      BY <2>2, <3>3, <3>4
  <2>4. Req(p)' = request /\ serial'[p] = Len(calls) + 1
    BY <1>0, <2>1, <2>3 DEF Receive, Req, TypeOK
  <2>5. pc'[p] = Entry(p, request) /\ pc[p] = "idle"
    BY <2>1, <1>01 DEF Receive
  <2>6. /\ cas' = cas /\ writer' = writer
        /\ cas[p] = NotLost /\ writer # p
    BY <2>1, <2>5, <1>0 DEF Receive, sqlite, CallInv, Holding, InTransaction
  <2>7. /\ pc'[p] \in {"refuse", "embed", "stmt", "row", "scan", "select", "log"}
        /\ pc'[p] # "refuse" => ~Refused(p, request)
        /\ OnItsPath(pc'[p], request.tool)
        /\ pc'[p] = "log" => request.tool = "lock_hold"
    <3>1. request.tool \in {"set", "get", "delete", "search", "history", "list", "lock_hold"}
      BY StoreAssumption DEF Request, SetRequest, KeyRequest, StoreRequest
    <3> QED
      BY <2>5, <3>1 DEF Entry, OnItsPath, Logging
  <2>8. pc'[p] # "refuse" => ~Refused(p, Req(p))'
    BY <2>4, <2>7 DEF Refused
  <2>9. CallInv(p)'
    BY <2>3, <2>4, <2>6, <2>7, <2>8, <1>01, <1>02 DEF CallInv, OnItsPath, NotLost, Logging
  <2> QED
    BY <2>4, <2>6, <2>7, <2>9 DEF Holding, InTransaction
<1>2. CASE \/ Refuse(p) \/ Reply(p) \/ Busy(p) \/ EmbedFails(p) \/ TxFails(p)
           \/ StatementFails(p) \/ Crash(p)
  <2>1. pc'[p] = "idle" /\ cas'[p] = NotLost
    BY <1>2, <1>0 DEF Refuse, Reply, Busy, EmbedFails, TxFails, StatementFails, Crash, Return, TypeOK
  <2>2. writer' # p
    <3>1. CASE Busy(p) \/ TxFails(p) \/ Crash(p)
      BY <3>1 DEF Busy, TxFails, Crash, Rollback, InTransaction
    <3>2. CASE Refuse(p) \/ Reply(p) \/ EmbedFails(p) \/ StatementFails(p)
      BY <3>2, <1>0 DEF Refuse, Reply, EmbedFails, StatementFails, sqlite, Holding, InTransaction
    <3> QED
      BY <1>2, <3>1, <3>2
  <2> QED
    BY <2>1, <2>2, <1>01 DEF CallInv, InTransaction, Holding
<1>4. CASE \/ SetFact(p) \/ LoseCas(p) \/ SetVector(p) \/ DeleteFact(p) \/ DeleteVector(p)
           \/ AppendBegin(p) \/ InsertEvent(p)
  <2>1. /\ pc[p] \in {"stmt", "vector", "append", "insert"}
        /\ UNCHANGED <<serial, cas, found, now, clock, calls>>
        /\ pc[p] \in {"stmt", "vector"} =>
             pc'[p] \in {"actual", "vector", "log"} /\ Req(p).tool \in {"set", "delete"}
        /\ pc'[p] = "actual" => Req(p).tool = "set"
        /\ pc[p] = "append" => pc'[p] = "tail"
        /\ pc[p] = "insert" => pc'[p] = "commit"
    BY <1>4, <1>01 DEF SetFact, LoseCas, SetVector, DeleteFact, DeleteVector, AppendBegin,
                      InsertEvent
  <2>2. writer' = p
    BY <1>4 DEF SetFact, LoseCas, SetVector, DeleteFact, DeleteVector, AppendBegin,
                BeginImmediate, InsertEvent, Write
  <2>3. CallInv(p)' /\ Req(p)' = Req(p)
    BY <2>1, <1>0, <1>01, <1>02, SameCall DEF OnItsPath, Logging
  <2> QED
    BY <2>1, <2>2, <2>3 DEF Holding, InTransaction
<1>5. CASE CommitTx(p)
  <2>1. /\ pc[p] = "commit" /\ UNCHANGED <<serial, cas, found, now, clock, calls>>
        /\ pc'[p] = AfterRead(p)
        /\ writer' = NoProcess
    BY <1>5, <1>01 DEF CommitTx, Commit
  <2>2. /\ AfterRead(p) \in {"events", "reply"}
        /\ AfterRead(p) = "events" => Req(p).tool = "get"
    BY DEF AfterRead
  <2>3. CallInv(p)' /\ Req(p)' = Req(p)
    BY <2>1, <2>2, <1>0, <1>01, <1>02, SameCall DEF OnItsPath, Logging
  <2> QED
    BY <2>1, <2>2, <2>3 DEF Holding, InTransaction
<1>6. CASE Embed(p) \/ Log(p)
  <2>1. /\ pc[p] \in {"embed", "log"} /\ UNCHANGED <<serial, cas, found, clock, calls, writer>>
        /\ pc'[p] = IF pc[p] = "embed" THEN "stmt" ELSE "append"
    BY <1>6, <1>0 DEF Embed, Log, TypeOK, sqlite
  <2>2. CallInv(p)' /\ Req(p)' = Req(p)
    BY <2>1, <1>0, <1>01, <1>02, SameCall DEF OnItsPath, Logging
  <2> QED
    BY <2>1, <2>2, <1>0, <1>02 DEF Holding, InTransaction, OnItsPath, Logging
<1>7. CASE ReadActual(p)
  <2>1. /\ pc[p] = "actual" /\ UNCHANGED <<serial, found, now, clock, calls, writer>>
        /\ pc'[p] = "log"
        /\ cas'[p].failed
    BY <1>7, <1>0 DEF ReadActual, TypeOK, sqlite
  <2>2. CallInv(p)' /\ Req(p)' = Req(p)
    BY <2>1, <1>0, <1>01, <1>02, SameCall DEF OnItsPath, Logging
  <2> QED
    BY <2>1, <2>2, <1>0, <1>02 DEF Holding, InTransaction, OnItsPath, Logging
<1>8. CASE ReadTail(p)
  <2>1. /\ pc[p] = "tail" /\ UNCHANGED <<serial, cas, found, now, clock, calls, writer>>
        /\ pc'[p] = "insert"
    BY <1>8, <1>01 DEF ReadTail, sqlite
  <2>2. CallInv(p)' /\ Req(p)' = Req(p)
    BY <2>1, <1>0, <1>01, <1>02, SameCall DEF OnItsPath, Logging
  <2> QED
    BY <2>1, <2>2, <1>0 DEF Holding, InTransaction
<1>9. CASE GetRow(p) \/ Events(p) \/ Select(p) \/ ScanEmpty(p) \/ ScanHit(p) \/ Query(p)
  <2>1. /\ pc[p] \in {"row", "events", "select", "scan", "query"}
        /\ UNCHANGED <<serial, cas, now, clock, calls, writer>>
        /\ pc[p] = "row" => pc'[p] \in {"log", "events", "reply"}
        /\ pc[p] \in {"events", "select"} => pc'[p] = "reply"
        /\ pc[p] = "scan" => pc'[p] \in {"reply", "query"}
        /\ pc[p] = "query" => pc'[p] = "log"
    BY <1>9, <1>01 DEF GetRow, Events, Select, ScanEmpty, ScanHit, Query, Fetch, sqlite
  <2>2. pc'[p] = "query" => DOMAIN found'[p].facts # {}
    <3>1. ASSUME ScanHit(p) PROVE DOMAIN found'[p].facts # {}
      BY <3>1, <1>0 DEF ScanHit, Fetch, Rows, TypeOK
    <3> QED
      BY <1>9, <3>1, <1>01
         DEF GetRow, Events, Select, ScanEmpty, Query, Fetch
  <2>3. pc[p] = "query" => found' = found
    BY <1>9 DEF GetRow, Events, Select, ScanEmpty, ScanHit, Query
  <2>4. CallInv(p)' /\ Req(p)' = Req(p)
    BY <2>1, <2>2, <2>3, <1>0, <1>01, <1>02, SameCall DEF OnItsPath, Logging
  <2> QED
    BY <2>1, <2>4, <1>0, <1>02 DEF Holding, InTransaction, OnItsPath
<1> QED
  BY <1>1, <1>2, <1>4, <1>5, <1>6, <1>7, <1>8, <1>9 DEF Step, Fault

\* Every step keeps each call where the invariant says, and one holder of the lock.
LEMMA ControlStep ==
  IInv /\ [Next]_vars => (\A p \in Process : CallInv(p))' /\ LockInv'
<1> SUFFICES ASSUME IInv, [Next]_vars
             PROVE  (\A p \in Process : CallInv(p)') /\ LockInv'
  OBVIOUS
<1>0. TypeOK /\ (\A p \in Process : CallInv(p)) /\ LockInv
  BY DEF IInv
<1>1. ASSUME NEW p \in Process,
             (\E request \in Requests : Receive(p, request)) \/ Step(p) \/ Fault(p)
      PROVE  (\A q \in Process : CallInv(q)') /\ LockInv'
  <2>1. CallInv(p)' /\ (InTransaction(p)' <=> Holding(p)')
    BY <1>1, MoverKeeps
  <2>2. ASSUME NEW q \in Process, q # p
        PROVE  CallInv(q)' /\ (InTransaction(q)' <=> Holding(q)')
    <3>1. Untouched(q) /\ KeepsCalls
      BY <1>1, <2>2, OneProcessMoves
    <3>2. CallInv(q)' /\ (Holding(q)' <=> Holding(q))
      BY <1>0, <3>1, UntouchedKeeps
    <3>3. InTransaction(q)' <=> InTransaction(q)
      BY <1>0, <1>1, <2>2, LockMoves
    <3> QED
      BY <1>0, <3>2, <3>3 DEF LockInv
  <2> QED
    BY <2>1, <2>2 DEF LockInv
<1>2. CASE PowerLoss
  <2>1. \A p \in Process : pc'[p] = "idle" /\ cas'[p] = NotLost
    BY <1>2 DEF PowerLoss
  <2>2. writer' = NoProcess
    BY <1>0, <1>2, LosePowerKeepsTypes DEF PowerLoss
  <2> QED
    BY <2>1, <2>2, NoProcessAssumption DEF CallInv, LockInv, InTransaction, Holding
<1>3. CASE Checkpoint \/ Tick \/ UNCHANGED vars
  <2>1. /\ \A p \in Process : Untouched(p)
        /\ KeepsCalls
        /\ writer' = writer
    BY <1>3 DEF Checkpoint, Sync, Tick, vars, sqlite, process, Untouched, KeepsCalls
  <2>2. \A p \in Process : CallInv(p)' /\ (Holding(p)' <=> Holding(p))
    BY <1>0, <2>1, UntouchedKeeps
  <2> QED
    BY <1>0, <2>1, <2>2 DEF LockInv, InTransaction
<1> QED
  BY <1>1, <1>2, <1>3 DEF Next, Quiescent

----------------------------------------------------------------------------
(* Every step keeps the draft in step with the call that writes it.         *)

\* The draft of a process that another process's step leaves alone.
LEMMA UntouchedDraft ==
  ASSUME TypeOK, NEW q \in Process, CallInv(q), Holding(q), Untouched(q), KeepsCalls,
         draft' = draft, LastCommitted' = LastCommitted,
         DraftEventsInv(q), DraftFactsInv(q)
  PROVE  DraftEventsInv(q)' /\ DraftFactsInv(q)'
<1>1. pc[q] # "idle"
  BY DEF Holding
<1>2. Req(q)' = Req(q) /\ ClientId(q)' = ClientId(q) /\ NewEvent(q)' = NewEvent(q)
  BY <1>1, UntouchedKeeps
<1>3. DraftEventsInv(q)'
  BY <1>2 DEF DraftEventsInv, Untouched
<1>6. DraftFactsInv(q)'
  BY <1>2 DEF DraftFactsInv, FactWritten, FactKept, Untouched, WriteMatches
<1> QED
  BY <1>3, <1>6

\* A step of p leaves the draft of another lock holder alone.
LEMMA OthersDraft ==
  ASSUME TypeOK, NEW p \in Process, NEW q \in Process, q # p, InTransaction(q),
         (\E request \in Requests : Receive(p, request)) \/ Step(p) \/ Fault(p)
  PROVE  draft' = draft /\ wal' = wal
<1> USE NoProcessAssumption DEF InTransaction
<1>1. CASE \/ SetFact(p) \/ LoseCas(p) \/ SetVector(p) \/ DeleteFact(p) \/ DeleteVector(p)
           \/ AppendBegin(p) \/ InsertEvent(p)
  <2>1. \E d : Write(p, d)
    BY <1>1 DEF SetFact, LoseCas, SetVector, DeleteFact, DeleteVector, AppendBegin,
                BeginImmediate, InsertEvent
  <2> QED
    BY <2>1 DEF Write, Locked
<1>2. CASE CommitTx(p)
  BY <1>2 DEF CommitTx, Commit
<1>3. CASE Busy(p) \/ TxFails(p) \/ Crash(p)
  BY <1>3 DEF Busy, TxFails, Crash, Rollback
<1>4. CASE \/ \E request \in Requests : Receive(p, request)
           \/ Refuse(p) \/ Reply(p) \/ Embed(p) \/ ReadActual(p) \/ Log(p) \/ ReadTail(p)
           \/ GetRow(p) \/ Events(p) \/ Select(p) \/ ScanEmpty(p) \/ ScanHit(p) \/ Query(p)
           \/ EmbedFails(p) \/ StatementFails(p)
  <2>1. UNCHANGED sqlite
    BY <1>4 DEF Receive, Refuse, Reply, Embed, ReadActual, Log, ReadTail, GetRow,
         Events, Select, ScanEmpty, ScanHit, Query, Fetch, EmbedFails, StatementFails
  <2> QED
    BY <2>1 DEF sqlite
<1> QED
  BY <1>1, <1>2, <1>3, <1>4 DEF Step, Fault

\* The two first statements of a transaction that changes a fact.
LEMMA FirstStatementDraft ==
  ASSUME IInv, NEW p \in Process, SetFact(p) \/ LoseCas(p) \/ DeleteFact(p)
  PROVE  DraftEventsInv(p)' /\ DraftFactsInv(p)'
<1> DEFINE k == Req(p).key
<1>1. /\ TypeOK /\ CallInv(p) /\ pc[p] = "stmt"
      /\ UNCHANGED <<serial, cas, found, now, tail, clock, calls, wal>>
      /\ ~InTransaction(p)
      /\ pc'[p] \in {"vector", "log", "actual"}
      /\ pc'[p] = "actual" <=> LoseCas(p)
      /\ ~cas[p].failed
  <2>1. TypeOK /\ CallInv(p) /\ LockInv
    BY DEF IInv
  <2>2. pc[p] = "stmt" /\ pc \in [Process -> Label]
    BY <2>1 DEF SetFact, LoseCas, DeleteFact, At, TypeOK
  <2>3. ~InTransaction(p)
    BY <2>1, <2>2 DEF LockInv, Holding
  <2>4. ~cas[p].failed
    BY <2>1, <2>2 DEF CallInv, Logging
  <2> QED
    BY <2>1, <2>2, <2>3, <2>4
       DEF SetFact, LoseCas, DeleteFact, Write, Goto
<1>2. /\ View(p) = LastCommitted /\ LastCommitted' = LastCommitted
      /\ LastCommitted \in Database
      /\ Req(p)' = Req(p) /\ ClientId(p)' = ClientId(p) /\ k \in Key
      /\ Req(p).tool \in {"set", "delete"}
  <2>1. Req(p)' = Req(p) /\ Req(p).tool \in {"set", "delete"}
    BY <1>1 DEF Req, CallInv, OnItsPath
  <2>2. View(p) = LastCommitted /\ LastCommitted' = LastCommitted
    BY <1>1 DEF View, LastCommitted
  <2>3. ClientId(p)' = ClientId(p)
    BY <2>1 DEF ClientId
  <2> QED
    BY <1>1, <2>1, <2>2, <2>3, LastCommittedType, RequestType
<1>3. CASE SetFact(p)
  <2> DEFINE fact == [value |-> Req(p).value, source |-> ClientId(p), updated |-> now[p]]
  <2>0. fact \in Fact /\ fact # None
    <3>1. Req(p).value \in Value /\ ClientId(p) \in Client
      BY <1>1, <1>3, RequestType DEF SetFact
    <3>2. now[p] \in Time
      BY <1>1 DEF TypeOK
    <3> QED
      BY <3>1, <3>2, StoreAssumption DEF Fact
  <2>1. draft' = PutFact(LastCommitted, k, fact)
    BY <1>2, <1>3 DEF SetFact, Write
  <2>2. /\ draft'.facts = [LastCommitted.facts EXCEPT ![k] = fact]
        /\ draft'.events = LastCommitted.events
        /\ draft'.seq = LastCommitted.seq
    BY <1>2, <2>0, <2>1, PutFactType
  <2>3. draft'.facts[k] = fact
    BY <1>2, <2>2, DatabaseParts
  <2>4. WriteMatches(Req(p), LastCommitted.facts) /\ Req(p).tool = "set"
    BY <1>2, <1>3 DEF SetFact
  <2>5. pc'[p] \in {"vector", "log"}
    BY <1>1, <1>3 DEF SetFact, TypeOK, Goto
  <2>6. DraftEventsInv(p)'
    BY <1>2, <2>2, <2>5 DEF DraftEventsInv
  <2>8. WriteMatches(Req(p), LastCommitted.facts)'
    BY <1>2, <2>4 DEF WriteMatches
  <2>9. /\ draft'.facts[k].value = Req(p)'.value
        /\ draft'.facts[k].source = ClientId(p)'
        /\ draft'.facts[k] # None
        /\ draft'.facts = [LastCommitted'.facts EXCEPT ![k] = draft'.facts[k]]
        /\ Req(p)'.key = k /\ Req(p)'.tool = "set"
        /\ ~cas'[p].failed
    BY <1>1, <1>2, <2>0, <2>2, <2>3, <2>4
  <2> HIDE DEF fact, k
  <2>10. FactWritten(p)'
    BY <2>8, <2>9 DEF FactWritten
  <2> QED
    BY <2>5, <2>6, <2>9, <2>10 DEF DraftFactsInv
<1>4. CASE LoseCas(p)
  <2>1. /\ draft' = LastCommitted /\ Req(p).tool = "set"
        /\ ~WriteMatches(Req(p), LastCommitted.facts)
    BY <1>2, <1>4 DEF LoseCas, Write
  <2>2. ~WriteMatches(Req(p), LastCommitted.facts)'
    BY <1>2, <2>1 DEF WriteMatches
  <2> QED
    BY <1>1, <1>2, <1>4, <2>1, <2>2 DEF DraftFactsInv, FactKept, DraftEventsInv
<1>5. CASE DeleteFact(p)
  <2>1. draft' = PutFact(LastCommitted, k, None) /\ Req(p).tool = "delete"
    BY <1>2, <1>5 DEF DeleteFact, Write
  <2>2. /\ draft'.facts = [LastCommitted.facts EXCEPT ![k] = None]
        /\ draft'.events = LastCommitted.events
        /\ draft'.seq = LastCommitted.seq
    BY <1>2, <2>1, PutFactType
  <2>3. pc'[p] = "vector"
    BY <1>1, <1>5 DEF DeleteFact, TypeOK, Goto
  <2> QED
    BY <1>1, <1>2, <2>1, <2>2, <2>3 DEF DraftFactsInv, DraftEventsInv
<1> QED
  BY <1>3, <1>4, <1>5

\* The statements that follow it in the same transaction.
LEMMA NextStatementDraft ==
  ASSUME IInv, NEW p \in Process,
         SetVector(p) \/ DeleteVector(p) \/ ReadActual(p) \/ (Log(p) /\ InTransaction(p))
  PROVE  DraftEventsInv(p)' /\ DraftFactsInv(p)'
<1>1. /\ TypeOK /\ CallInv(p) /\ pc[p] \in {"actual", "vector", "log"}
      /\ UNCHANGED <<serial, found, tail, clock, calls, wal>>
      /\ pc'[p] \in {"log", "append"}
      /\ InTransaction(p) /\ DraftEventsInv(p) /\ DraftFactsInv(p)
  <2>1. TypeOK /\ CallInv(p) /\ LockInv /\ DraftInv
    BY DEF IInv
  <2>2. pc[p] \in {"actual", "vector", "log"} /\ pc \in [Process -> Label]
    BY <2>1 DEF SetVector, DeleteVector, ReadActual, Log, At, TypeOK
  <2>3. InTransaction(p)
    BY <2>1, <2>2 DEF SetVector, DeleteVector, ReadActual, At, LockInv, Holding
  <2> QED
    BY <2>1, <2>2, <2>3
       DEF SetVector, DeleteVector, ReadActual, Log, Write, Goto, sqlite, DraftInv
<1>2. /\ View(p) = draft /\ LastCommitted' = LastCommitted
      /\ Req(p)' = Req(p) /\ ClientId(p)' = ClientId(p) /\ Req(p).key \in Key
      /\ Req(p).tool \in {"set", "delete"}
      /\ draft \in Database
  <2>1. Req(p)' = Req(p)
    BY <1>1 DEF Req
  <2>2. View(p) = draft /\ LastCommitted' = LastCommitted
    BY <1>1 DEF View, LastCommitted
  <2>3. Req(p).tool \in {"set", "delete"}
    BY <1>1 DEF IInv, LockInv, Holding, CallInv, OnItsPath
  <2> QED
    BY <1>1, <2>1, <2>2, <2>3, RequestType DEF ClientId, TypeOK
<1>3. /\ draft'.facts = draft.facts
      /\ draft'.events = draft.events
      /\ draft'.seq = draft.seq
  <2>1. CASE SetVector(p)
    <3>1. Req(p).value \in Value
      BY <1>1, <2>1, RequestType DEF SetVector
    <3> QED
      BY <1>2, <2>1, <3>1, PutVectorType DEF SetVector, Write
  <2>2. CASE DeleteVector(p)
    BY <1>2, <2>2, PutVectorType DEF DeleteVector, Write
  <2>3. CASE ReadActual(p) \/ Log(p)
    BY <2>3 DEF ReadActual, Log, sqlite
  <2> QED
    BY <2>1, <2>2, <2>3
<1>4. DraftEventsInv(p)'
  BY <1>1, <1>2, <1>3 DEF DraftEventsInv
<1>5. (WriteMatches(Req(p), LastCommitted.facts))' <=> WriteMatches(Req(p), LastCommitted.facts)
  BY <1>2 DEF WriteMatches
<1>6. CASE ReadActual(p)
  <2>1. /\ pc[p] = "actual" /\ pc'[p] = "log" /\ Req(p).tool = "set"
        /\ cas'[p] = [failed |-> TRUE,
                      actual |-> IF draft.facts[Req(p).key] = None
                                 THEN None ELSE draft.facts[Req(p).key].value]
    BY <1>1, <1>2, <1>6 DEF ReadActual, At, Goto, TypeOK, CallInv, OnItsPath
  <2>2. FactKept(p)
    BY <1>1, <2>1 DEF DraftFactsInv
  <2>3. FactKept(p)'
    BY <1>2, <1>3, <1>5, <2>1, <2>2 DEF FactKept
  <2> QED
    BY <1>2, <1>4, <2>1, <2>3 DEF DraftFactsInv
<1>7. CASE SetVector(p) \/ DeleteVector(p) \/ Log(p)
  <2>1. /\ cas' = cas /\ pc[p] # "actual" /\ pc'[p] # "actual"
    BY <1>1, <1>7 DEF SetVector, DeleteVector, Log, At, Goto, TypeOK
  <2>2. FactKept(p) => FactKept(p)'
    BY <1>2, <1>3, <1>5, <2>1 DEF FactKept
  <2>5. FactWritten(p) => FactWritten(p)'
    BY <1>2, <1>3, <1>5 DEF FactWritten
  <2> QED
    BY <1>1, <1>2, <1>3, <1>4, <2>1, <2>2, <2>5 DEF DraftFactsInv
<1> QED
  BY <1>6, <1>7

\* The steps of append, under the lock.
LEMMA AppendDraft ==
  ASSUME IInv, NEW p \in Process, AppendBegin(p) \/ ReadTail(p) \/ InsertEvent(p)
  PROVE  DraftEventsInv(p)' /\ DraftFactsInv(p)'
<1>1. /\ TypeOK /\ CallInv(p) /\ pc[p] \in {"append", "tail", "insert"}
      /\ UNCHANGED <<serial, cas, found, now, clock, calls, wal>>
      /\ pc[p] = "append" => pc'[p] = "tail" /\ tail' = tail /\ draft' = View(p)
      /\ pc[p] = "tail" =>
           /\ pc'[p] = "insert" /\ draft' = draft
           /\ tail'[p] = [hash |-> ChainHead(View(p).events), seq |-> View(p).seq]
      /\ pc[p] = "insert" => pc'[p] = "commit" /\ tail' = tail
      /\ InTransaction(p) => DraftEventsInv(p) /\ DraftFactsInv(p)
      /\ pc[p] # "append" => InTransaction(p)
      /\ Req(p).tool \in {"set", "delete"} => InTransaction(p)
  <2>1. TypeOK /\ CallInv(p) /\ LockInv /\ DraftInv
    BY DEF IInv
  <2>2. pc[p] \in {"append", "tail", "insert"} /\ pc \in [Process -> Label]
    BY <2>1 DEF AppendBegin, ReadTail, InsertEvent, At, TypeOK
  <2>3. /\ pc[p] # "append" => InTransaction(p)
        /\ Req(p).tool \in {"set", "delete"} => InTransaction(p)
    BY <2>1, <2>2 DEF LockInv, Holding
  <2> QED
    BY <2>1, <2>2, <2>3
       DEF AppendBegin, ReadTail, InsertEvent, BeginImmediate, Write, Goto, At, sqlite,
           DraftInv, TypeOK
<1>2. /\ LastCommitted' = LastCommitted
      /\ Req(p)' = Req(p) /\ ClientId(p)' = ClientId(p)
  BY <1>1 DEF LastCommitted, Req, ClientId
<1>3. View(p).facts = draft'.facts
  <2>1. CASE InsertEvent(p)
    <3>1. NewEvent(p) \in Event /\ NewEvent(p).id \in Nat
      BY <1>1, <2>1, NewEventType DEF InsertEvent, At, Event
    <3> QED
      BY <1>1, <2>1, <3>1, ViewType, AppendEventType DEF InsertEvent, Write
  <2>2. CASE AppendBegin(p) \/ ReadTail(p)
    BY <1>1, <2>2 DEF AppendBegin, ReadTail, At, View
  <2> QED
    BY <2>1, <2>2
<1>4. (WriteMatches(Req(p), LastCommitted.facts))' <=> WriteMatches(Req(p), LastCommitted.facts)
  BY <1>2 DEF WriteMatches
<1>5. DraftFactsInv(p)'
  <2>1. CASE InTransaction(p)
    <3>1. draft'.facts = draft.facts /\ pc[p] # "actual" /\ pc'[p] # "actual"
      BY <1>1, <1>3, <2>1 DEF View
    <3>2. FactKept(p) => FactKept(p)'
      BY <1>1, <1>2, <1>4, <3>1 DEF FactKept
    <3>5. FactWritten(p) => FactWritten(p)'
      BY <1>2, <1>4, <3>1 DEF FactWritten
    <3> QED
      BY <1>1, <1>2, <2>1, <3>1, <3>2, <3>5 DEF DraftFactsInv
  <2>2. CASE ~InTransaction(p)
    BY <1>1, <1>2, <1>3, <2>2 DEF DraftFactsInv, View
  <2> QED
    BY <2>1, <2>2
<1>6. DraftEventsInv(p)'
  <2>1. CASE AppendBegin(p)
    <3>1. pc[p] = "append" /\ pc'[p] = "tail" /\ draft' = View(p)
      BY <1>1, <2>1 DEF AppendBegin, At
    <3>2. View(p).events = LastCommitted.events /\ View(p).seq = LastCommitted.seq
      BY <1>1, <3>1 DEF View, DraftEventsInv
    <3> QED
      BY <1>2, <3>1, <3>2 DEF DraftEventsInv
  <2>2. CASE ReadTail(p)
    <3>1. pc[p] = "tail" /\ InTransaction(p) /\ View(p) = draft
      BY <1>1, <2>2 DEF ReadTail, At, View
    <3> QED
      BY <1>1, <1>2, <3>1 DEF DraftEventsInv
  <2>3. CASE InsertEvent(p)
    <3>1. pc[p] = "insert" /\ InTransaction(p) /\ View(p) = draft
      BY <1>1, <2>3 DEF InsertEvent, At, View
    <3>2. NewEvent(p) \in Event /\ NewEvent(p).id \in Nat
      BY <1>1, <3>1, NewEventType DEF Event
    <3>3. /\ draft'.events = Append(draft.events, NewEvent(p))
          /\ draft'.seq = NewEvent(p).id
      <4>1. draft' = [draft EXCEPT !.events = Append(@, NewEvent(p)), !.seq = NewEvent(p).id]
        BY <2>3, <3>1 DEF InsertEvent, Write
      <4>2. draft \in Database
        BY <1>1 DEF TypeOK
      <4> QED
        BY <3>2, <4>1, <4>2, AppendEventType
    <3>4. NewEvent(p)' = NewEvent(p)
      BY <1>1, <1>2, <3>1 DEF NewEvent, LogAction, LogKey, LogValue
    <3> QED
      BY <1>1, <1>2, <3>1, <3>3, <3>4 DEF DraftEventsInv
  <2> QED
    BY <2>1, <2>2, <2>3
<1> QED
  BY <1>5, <1>6

\* After these steps p is not in a transaction.
LEMMA EndFreesLock ==
  ASSUME TypeOK, NEW p \in Process, LockInv,
         \/ \E request \in Requests : Receive(p, request)
         \/ Refuse(p) \/ Reply(p) \/ Embed(p) \/ CommitTx(p)
         \/ GetRow(p) \/ Events(p) \/ Select(p) \/ ScanEmpty(p) \/ ScanHit(p)
         \/ Query(p) \/ Busy(p) \/ EmbedFails(p) \/ TxFails(p)
         \/ StatementFails(p) \/ Crash(p)
  PROVE  ~InTransaction(p)'
<1> USE NoProcessAssumption
<1>1. CASE Busy(p) \/ TxFails(p) \/ Crash(p)
  BY <1>1 DEF Busy, TxFails, Crash, Rollback, InTransaction
<1>2. CASE CommitTx(p)
  BY <1>2 DEF CommitTx, Commit, InTransaction
<1>3. CASE \/ \E request \in Requests : Receive(p, request)
           \/ Refuse(p) \/ Reply(p) \/ Embed(p)
           \/ GetRow(p) \/ Events(p) \/ Select(p) \/ ScanEmpty(p) \/ ScanHit(p)
           \/ Query(p) \/ EmbedFails(p)
  <2>1. UNCHANGED sqlite
    BY <1>3 DEF Receive, Refuse, Reply, Embed, GetRow, Events, Select, ScanEmpty, ScanHit,
         Query, Fetch, EmbedFails
  <2>2. ~Holding(p)
    BY <1>3 DEF Receive, Refuse, Reply, Embed, GetRow, Events, Select, ScanEmpty, ScanHit,
         Query, EmbedFails, At, Holding
  <2> QED
    BY <2>1, <2>2 DEF LockInv, InTransaction, sqlite
<1>4. CASE StatementFails(p)
  BY <1>4 DEF StatementFails, sqlite, InTransaction
<1> QED
  BY <1>1, <1>2, <1>3, <1>4

\* Every step keeps what a draft may hold.
LEMMA DraftStep == IInv /\ [Next]_vars => DraftInv'
<1> SUFFICES ASSUME IInv, [Next]_vars PROVE DraftInv'
  OBVIOUS
<1>0. TypeOK /\ (\A p \in Process : CallInv(p)) /\ LockInv /\ DraftInv
  BY DEF IInv
<1>1. ASSUME NEW p \in Process,
             (\E request \in Requests : Receive(p, request)) \/ Step(p) \/ Fault(p)
      PROVE  DraftInv'
  <2>1. ASSUME InTransaction(p)' PROVE DraftEventsInv(p)' /\ DraftFactsInv(p)'
    <3>2. ASSUME Log(p) PROVE InTransaction(p)
      BY <2>1, <3>2 DEF Log, sqlite, InTransaction
    <3>4. ~(\/ \E request \in Requests : Receive(p, request)
            \/ Refuse(p) \/ Reply(p) \/ Embed(p) \/ CommitTx(p)
            \/ GetRow(p) \/ Events(p) \/ Select(p) \/ ScanEmpty(p) \/ ScanHit(p)
            \/ Query(p) \/ Busy(p) \/ EmbedFails(p) \/ TxFails(p)
            \/ StatementFails(p) \/ Crash(p))
      BY <1>0, <2>1, EndFreesLock
    <3>5. \/ SetFact(p) \/ LoseCas(p) \/ DeleteFact(p)
          \/ SetVector(p) \/ DeleteVector(p) \/ ReadActual(p) \/ (Log(p) /\ InTransaction(p))
          \/ AppendBegin(p) \/ ReadTail(p) \/ InsertEvent(p)
      BY <1>1, <3>2, <3>4 DEF Step, Fault
    <3>6. CASE SetFact(p) \/ LoseCas(p) \/ DeleteFact(p)
      BY <3>6, FirstStatementDraft
    <3>7. CASE SetVector(p) \/ DeleteVector(p) \/ ReadActual(p) \/ (Log(p) /\ InTransaction(p))
      BY <3>7, NextStatementDraft
    <3>8. CASE AppendBegin(p) \/ ReadTail(p) \/ InsertEvent(p)
      BY <3>8, AppendDraft
    <3> QED
      BY <3>5, <3>6, <3>7, <3>8
  <2>2. ASSUME NEW q \in Process, q # p, InTransaction(q)'
        PROVE  DraftEventsInv(q)' /\ DraftFactsInv(q)'
    <3>1. InTransaction(q) /\ Holding(q)
      BY <1>0, <1>1, <2>2, LockMoves DEF LockInv
    <3>2. draft' = draft /\ LastCommitted' = LastCommitted
      BY <1>0, <1>1, <2>2, <3>1, OthersDraft DEF LastCommitted
    <3>3. Untouched(q) /\ KeepsCalls
      BY <1>1, <2>2, OneProcessMoves
    <3> QED
      BY <1>0, <3>1, <3>2, <3>3, UntouchedDraft DEF DraftInv
  <2> QED
    BY <2>1, <2>2 DEF DraftInv
<1>2. CASE PowerLoss
  <2>1. writer' = NoProcess
    BY <1>0, <1>2, LosePowerKeepsTypes DEF PowerLoss
  <2> QED
    BY <2>1, NoProcessAssumption DEF DraftInv, InTransaction
<1>3. CASE Checkpoint \/ Tick \/ UNCHANGED vars
  <2>1. /\ \A p \in Process : Untouched(p)
        /\ KeepsCalls
        /\ writer' = writer /\ draft' = draft
    BY <1>3 DEF Checkpoint, Sync, Tick, vars, sqlite, process, Untouched, KeepsCalls
  <2>2. LastCommitted' = LastCommitted
    <3>1. CASE Checkpoint
      BY <1>0, <3>1, SyncKeepsTypes DEF Checkpoint
    <3>2. CASE Tick \/ UNCHANGED vars
      BY <3>2 DEF Tick, vars, sqlite, LastCommitted
    <3> QED
      BY <1>3, <3>1, <3>2
  <2>3. ASSUME NEW q \in Process, InTransaction(q)'
        PROVE  DraftEventsInv(q)' /\ DraftFactsInv(q)'
    <3>1. InTransaction(q) /\ Holding(q)
      BY <1>0, <2>1, <2>3 DEF LockInv, InTransaction
    <3> QED
      BY <1>0, <2>1, <2>2, <3>1, UntouchedDraft DEF DraftInv
  <2> QED
    BY <2>3 DEF DraftInv
<1> QED
  BY <1>1, <1>2, <1>3 DEF Next, Quiescent

----------------------------------------------------------------------------
(* Every step keeps what is true of the committed versions.                 *)

\* One more row: the facts it does not write are shown as before, and the
\* one it writes is shown as it says.
LEMMA AppendShows ==
  ASSUME NEW events \in Seq(Event), NEW e \in Event, NEW k \in Key,
         NEW fact \in Fact \union {None}
  PROVE  LET rows == Append(events, e)  n == Len(events) IN
         /\ ~Writes(e, k) /\ AuditShows(events, n, k, fact) => AuditShows(rows, n + 1, k, fact)
         /\ Writes(e, k) /\ e.action = "delete" => AuditShows(rows, n + 1, k, None)
         /\ /\ Writes(e, k) /\ e.action = "set" /\ fact # None
            /\ fact.value = e.value /\ fact.source = e.client
            => AuditShows(rows, n + 1, k, fact)
<1> DEFINE rows == Append(events, e)  n == Len(events)
<1>1. n \in Nat
  BY LenProperties
<1>2. /\ rows[n + 1] = e
      /\ \A i \in 1..n : rows[i] = events[i]
  BY AppendProperties
<1> HIDE DEF rows, n
<1>3. ASSUME ~Writes(e, k), NEW i \in 1 .. n + 1
      PROVE  LastWrite(rows, n + 1, k, i) <=> i \in 1..n /\ LastWrite(events, n, k, i)
  BY <1>1, <1>2, <1>3 DEF LastWrite, Writes
<1>4. ASSUME Writes(e, k), NEW i \in 1 .. n + 1
      PROVE  LastWrite(rows, n + 1, k, i) <=> i = n + 1
  BY <1>1, <1>2, <1>4 DEF LastWrite, Writes
<1>5. ~Writes(e, k) /\ AuditShows(events, n, k, fact) => AuditShows(rows, n + 1, k, fact)
  BY <1>1, <1>2, <1>3 DEF AuditShows
<1>6. Writes(e, k) /\ e.action = "delete" => AuditShows(rows, n + 1, k, None)
  BY <1>1, <1>2, <1>4 DEF AuditShows
<1>7. /\ Writes(e, k) /\ e.action = "set" /\ fact # None
      /\ fact.value = e.value /\ fact.source = e.client
      => AuditShows(rows, n + 1, k, fact)
  BY <1>1, <1>2, <1>4 DEF AuditShows
<1> QED
  BY <1>5, <1>6, <1>7 DEF rows, n

\* The version that a commit adds.
LEMMA CommitVersion ==
  ASSUME IInv, NEW p \in Process, CommitTx(p)
  PROVE  VersionInv(draft)
<1> DEFINE old == LastCommitted  e == NewEvent(p)
<1>1. /\ TypeOK /\ CallInv(p) /\ pc[p] = "commit" /\ InTransaction(p)
      /\ DraftEventsInv(p) /\ DraftFactsInv(p)
      /\ VersionInv(old) /\ old \in Database /\ draft \in Database
  BY LastCommittedType DEF IInv, CommitTx, Commit, At, DraftInv, TypeOK, LastCommitted
<1>2. /\ e \in Event /\ e.id = tail[p].seq + 1
      /\ e.client = ClientId(p) /\ e.action = LogAction(p) /\ e.key = LogKey(p)
      /\ e.value = LogValue(p) /\ e.prev_hash = tail[p].hash
      /\ e.event_hash = Digest(tail[p].hash, Fields(e))
      /\ e.call = serial[p]
  BY <1>1, NewEventType
<1>3. /\ draft.events = Append(old.events, e)
      /\ draft.seq = e.id
      /\ tail[p] = [hash |-> ChainHead(old.events), seq |-> old.seq]
  BY <1>1 DEF DraftEventsInv
<1>4. old.events \in Seq(Event) /\ Len(old.events) \in Nat
  BY <1>1, DatabaseParts
<1> HIDE DEF old, e
<1>5. /\ Len(draft.events) = Len(old.events) + 1
      /\ DOMAIN draft.events = 1 .. Len(old.events) + 1
      /\ DOMAIN old.events = 1 .. Len(old.events)
      /\ draft.events[Len(old.events) + 1] = e
      /\ \A i \in 1 .. Len(old.events) : draft.events[i] = old.events[i]
  BY <1>2, <1>3, <1>4, AppendProperties, LenProperties
<1>6. Numbered(draft)
  BY <1>1, <1>2, <1>3, <1>4, <1>5 DEF VersionInv, Numbered
<1>7. ChainVerifies(draft.events)
  <2>1. ASSUME NEW i \in 1 .. Len(old.events)
        PROVE  /\ draft.events[i].prev_hash = PrevHash(draft.events, i)
               /\ draft.events[i].event_hash =
                    Digest(draft.events[i].prev_hash, Fields(draft.events[i]))
    <3>1. PrevHash(draft.events, i) = PrevHash(old.events, i)
      BY <1>4, <1>5 DEF PrevHash
    <3> QED
      BY <1>1, <1>4, <1>5, <3>1 DEF VersionInv, ChainVerifies
  <2>2. PrevHash(draft.events, Len(old.events) + 1) = ChainHead(old.events)
    <3>1. CASE old.events = <<>>
      BY <3>1, EmptySeq DEF PrevHash, ChainHead
    <3>2. CASE old.events # <<>>
      BY <1>4, <1>5, <3>2, EmptySeq DEF PrevHash, ChainHead
    <3> QED
      BY <3>1, <3>2
  <2>3. /\ e.prev_hash = PrevHash(draft.events, Len(old.events) + 1)
        /\ e.event_hash = Digest(e.prev_hash, Fields(e))
    BY <1>2, <1>3, <2>2
  <2> QED
    BY <1>4, <1>5, <2>1, <2>3 DEF ChainVerifies
<1>8. FactsShown(draft)
  <2> SUFFICES ASSUME NEW k \in Key
               PROVE  AuditShows(draft.events, Len(draft.events), k, draft.facts[k])
    BY DEF FactsShown
  <2>1. /\ AuditShows(old.events, Len(old.events), k, old.facts[k])
        /\ old.facts \in [Key -> Fact \union {None}]
        /\ draft.facts[k] \in Fact \union {None} /\ old.facts[k] \in Fact \union {None}
    BY <1>1, DatabaseParts DEF VersionInv, FactsShown
  <2>2. ASSUME ~Writes(e, k), draft.facts[k] = old.facts[k]
        PROVE  AuditShows(draft.events, Len(draft.events), k, draft.facts[k])
    BY <1>2, <1>3, <1>4, <1>5, <2>1, <2>2, AppendShows
  <2>3. /\ Req(p).tool \in {"set", "delete", "get", "search", "lock_hold"}
        /\ Req(p).tool # "set" => ~cas[p].failed
        /\ Req(p).tool \in {"set", "delete"} => Req(p).key \in Key
    BY <1>1, RequestType DEF CallInv, OnItsPath, Logging
  <2>4. CASE Req(p).tool = "set" /\ ~cas[p].failed
    <3>1. /\ e.action = "set" /\ e.key = Req(p).key /\ e.value = Req(p).value
          /\ FactWritten(p)
      BY <1>1, <1>2, <2>4 DEF LogAction, LogKey, LogValue, DraftFactsInv
    <3>2. CASE k = Req(p).key
      <4>1. /\ draft.facts[k] # None /\ draft.facts[k].value = e.value
            /\ draft.facts[k].source = e.client
        BY <1>1, <1>2, <3>1, <3>2 DEF FactWritten
      <4>2. Writes(e, k)
        BY <3>1, <3>2 DEF Writes
      <4> QED
        BY <1>2, <1>3, <1>4, <1>5, <2>1, <3>1, <4>1, <4>2, AppendShows
    <3>3. CASE k # Req(p).key
      <4>1. draft.facts[k] = old.facts[k]
        BY <2>1, <2>3, <2>4, <3>1, <3>3 DEF FactWritten, old
      <4>2. ~Writes(e, k)
        BY <3>1, <3>3 DEF Writes
      <4> QED
        BY <2>2, <4>1, <4>2
    <3> QED
      BY <3>2, <3>3
  <2>5. CASE Req(p).tool = "set" /\ cas[p].failed
    <3>1. e.action = "cas_fail" /\ draft.facts = old.facts
      BY <1>1, <1>2, <2>5 DEF LogAction, DraftFactsInv, FactKept, old
    <3> QED
      BY <2>2, <3>1 DEF Writes
  <2>6. CASE Req(p).tool = "delete"
    <3>1. /\ e.action = "delete" /\ e.key = Req(p).key
          /\ draft.facts = [old.facts EXCEPT ![Req(p).key] = None]
      BY <1>1, <1>2, <2>6 DEF LogAction, LogKey, DraftFactsInv, old
    <3>2. CASE k = Req(p).key
      <4>1. draft.facts[k] = None /\ Writes(e, k)
        BY <2>1, <3>1, <3>2 DEF Writes
      <4> QED
        BY <1>2, <1>3, <1>4, <1>5, <2>1, <3>1, <4>1, AppendShows
    <3>3. CASE k # Req(p).key
      BY <2>1, <2>2, <3>1, <3>3 DEF Writes
    <3> QED
      BY <3>2, <3>3
  <2>7. CASE Req(p).tool \notin {"set", "delete"}
    <3>1. e.action \notin {"set", "delete"} /\ draft.facts = old.facts
      BY <1>1, <1>2, <2>7 DEF LogAction, DraftFactsInv, old
    <3> QED
      BY <2>2, <3>1 DEF Writes
  <2> QED
    BY <2>4, <2>5, <2>6, <2>7
<1>9. RowsHaveCalls(draft)
  <2>1. serial[p] \in DOMAIN calls
    BY <1>1 DEF CallInv
  <2> QED
    BY <1>1, <1>2, <1>4, <1>5, <2>1 DEF RowsHaveCalls, VersionInv
<1> QED
  BY <1>6, <1>7, <1>8, <1>9 DEF VersionInv

\* Of the steps of a process, only a commit adds a version.
LEMMA OnlyCommitAppends ==
  ASSUME NEW p \in Process,
         (\E request \in Requests : Receive(p, request)) \/ Step(p) \/ Fault(p)
  PROVE  CommitTx(p) \/ wal' = wal
<1>1. CASE \/ SetFact(p) \/ LoseCas(p) \/ SetVector(p) \/ DeleteFact(p) \/ DeleteVector(p)
           \/ AppendBegin(p) \/ InsertEvent(p)
  BY <1>1 DEF SetFact, LoseCas, SetVector, DeleteFact, DeleteVector, AppendBegin,
              BeginImmediate, InsertEvent, Write
<1>2. CASE Busy(p) \/ TxFails(p) \/ Crash(p)
  BY <1>2 DEF Busy, TxFails, Crash, Rollback
<1>3. CASE \/ \E request \in Requests : Receive(p, request)
           \/ Refuse(p) \/ Reply(p) \/ Embed(p) \/ ReadActual(p) \/ Log(p) \/ ReadTail(p)
           \/ GetRow(p) \/ Events(p) \/ Select(p) \/ ScanEmpty(p) \/ ScanHit(p) \/ Query(p)
           \/ EmbedFails(p) \/ StatementFails(p)
  <2>1. UNCHANGED sqlite
    BY <1>3 DEF Receive, Refuse, Reply, Embed, ReadActual, Log, ReadTail, GetRow,
         Events, Select, ScanEmpty, ScanHit, Query, Fetch, EmbedFails, StatementFails
  <2> QED
    BY <2>1 DEF sqlite
<1> QED
  BY <1>1, <1>2, <1>3 DEF Step, Fault

\* No step takes back a call, its number or its request.
LEMMA CallsStay == IInv /\ [Next]_vars => KeepsCalls
<1> SUFFICES ASSUME IInv, [Next]_vars PROVE KeepsCalls
  OBVIOUS
<1>0. TypeOK
  BY DEF IInv
<1>1. CASE \E p \in Process :
             (\E request \in Requests : Receive(p, request)) \/ Step(p) \/ Fault(p)
  BY <1>1, OneProcessMoves
<1>2. CASE PowerLoss
  <2>1. \A n \in DOMAIN calls : calls[n] \in Call
    BY <1>0, ElementOfSeq, LenProperties DEF TypeOK
  <2> QED
    BY <1>2, <2>1 DEF PowerLoss, KeepsCalls, Call
<1>3. CASE UNCHANGED calls
  BY <1>3 DEF KeepsCalls
<1> QED
  BY <1>1, <1>2, <1>3 DEF Next, Checkpoint, Tick, Quiescent, vars

\* Every step keeps what a committed version may hold.
LEMMA VersionStep ==
  IInv /\ [Next]_vars => (\A v \in DOMAIN wal : VersionInv(wal[v]))'
<1> SUFFICES ASSUME IInv, [Next]_vars, NEW v \in DOMAIN wal'
             PROVE  VersionInv(wal[v])'
  OBVIOUS
<1>0. TypeOK /\ \A w \in DOMAIN wal : VersionInv(wal[w])
  BY DEF IInv
<1>1. KeepsCalls
  BY CallsStay
<1>2. VersionInv(wal'[v])
  <2>1. CASE \E p \in Process : CommitTx(p)
    <3>1. PICK p \in Process : CommitTx(p)
      BY <2>1
    <3>2. wal' = Append(wal, draft) /\ VersionInv(draft)
      BY <1>0, <3>1, CommitVersion, CommitKeepsTypes DEF CommitTx
    <3>3. /\ Len(wal) \in Nat /\ DOMAIN wal = 1..Len(wal)
          /\ DOMAIN wal' = 1 .. Len(wal) + 1
          /\ wal'[Len(wal) + 1] = draft
          /\ \A w \in 1..Len(wal) : wal'[w] = wal[w]
      <4>1. wal \in Seq(Database) /\ draft \in Database
        BY <1>0 DEF TypeOK
      <4>2. wal' \in Seq(Database) /\ Len(wal') = Len(wal) + 1
        BY <3>2, <4>1, AppendProperties
      <4> QED
        BY <3>2, <4>1, <4>2, AppendProperties, LenProperties
    <3> QED
      BY <1>0, <3>2, <3>3
  <2>2. CASE PowerLoss
    <3>1. DOMAIN wal' \subseteq DOMAIN wal /\ wal'[v] = wal[v]
      <4>1. Len(wal') \in 1..Len(wal) /\ wal' \in Seq(Database) /\ wal \in Seq(Database)
            /\ \A w \in 1..Len(wal') : wal'[w] = wal[w]
        BY <1>0, <2>2, LosePowerKeepsTypes DEF PowerLoss, StoreTypeOK, TypeOK
      <4>2. Len(wal) \in Nat /\ DOMAIN wal = 1..Len(wal) /\ DOMAIN wal' = 1..Len(wal')
        BY <4>1, LenProperties
      <4> QED
        BY <4>1, <4>2
    <3> QED
      BY <1>0, <3>1
  <2>3. CASE Checkpoint
    <3>1. wal' \in Seq(Database) /\ LastCommitted' = LastCommitted /\ Len(wal') = 1
      BY <1>0, <2>3, SyncKeepsTypes DEF Checkpoint, StoreTypeOK
    <3>2. v = 1 /\ wal'[1] = LastCommitted
      BY <3>1, LenProperties DEF LastCommitted
    <3> QED
      BY <1>0, <3>2, LastCommittedType DEF LastCommitted
  <2>4. CASE wal' = wal
    BY <1>0, <2>4
  <2>5. ASSUME NEW p \in Process,
               (\E request \in Requests : Receive(p, request)) \/ Step(p) \/ Fault(p)
        PROVE  CommitTx(p) \/ wal' = wal
    BY <2>5, OnlyCommitAppends
  <2> QED
    BY <2>1, <2>2, <2>3, <2>4, <2>5 DEF Next, Tick, Quiescent, vars, sqlite
<1>3. /\ Numbered(wal'[v]) /\ ChainVerifies(wal'[v].events) /\ FactsShown(wal'[v])
      /\ \A i \in DOMAIN wal'[v].events : wal'[v].events[i].call \in DOMAIN calls'
  BY <1>1, <1>2 DEF VersionInv, RowsHaveCalls, KeepsCalls
<1> QED
  BY <1>3 DEF VersionInv, RowsHaveCalls, Numbered, FactsShown, AuditShows, LastWrite, Writes,
              ChainVerifies, PrevHash, GENESIS

----------------------------------------------------------------------------
(* The theorems. *)

\* The inductive invariant holds initially.
LEMMA InitInv == Init => IInv
<1> SUFFICES ASSUME Init PROVE IInv
  OBVIOUS
<1>1. EmptyDatabase \in Database
  BY DEF EmptyDatabase, Database
<1>2. /\ wal = <<EmptyDatabase>> /\ draft = EmptyDatabase /\ writer = NoProcess
      /\ Len(wal) = 1 /\ DOMAIN wal = {1} /\ wal[1] = EmptyDatabase
  BY DEF Init, Open
<1>3. TypeOK
  <2>1. wal \in Seq(Database) /\ wal # <<>>
    BY <1>1, <1>2, EmptySeq
  <2>2. Nothing \in Found /\ NotLost \in [failed: BOOLEAN, actual: Value \union {None}]
    <3>1. NoRows \in [{} -> Fact \union {None}] /\ {} \in SUBSET Key
      BY DEF NoRows
    <3>2. NoRows \in UNION {[ks -> Fact \union {None}] : ks \in SUBSET Key}
      BY <3>1
    <3> QED
      BY <3>2 DEF Nothing, Found, SomeRows, NotLost
  <2>3. NoTail \in [hash: Seq(EventFields), seq: Nat]
    BY DEF NoTail, GENESIS
  <2>4. 0 \in Time /\ "idle" \in Label
    BY StoreAssumption DEF Time, Label
  <2>5. calls = <<>> /\ calls \in Seq(Call)
    BY EmptySeq DEF Init
  <2>6. /\ draft \in Database /\ writer \in Process \union {NoProcess}
        /\ pc \in [Process -> Label] /\ serial \in [Process -> Nat]
        /\ now \in [Process -> Time] /\ clock \in [time: Time, steady: BOOLEAN]
        /\ powerLost \in BOOLEAN
    BY <1>1, <1>2, <2>4 DEF Init
  <2>7. cas \in [Process -> [failed: BOOLEAN, actual: Value \union {None}]]
        /\ found \in [Process -> Found]
        /\ tail \in [Process -> [hash: Seq(EventFields), seq: Nat]]
    BY <2>2, <2>3 DEF Init
  <2> QED
    BY <2>1, <2>5, <2>6, <2>7 DEF TypeOK
<1>4. \A p \in Process : pc[p] = "idle" /\ cas[p] = NotLost
  BY DEF Init
<1>5. \A p \in Process : CallInv(p)
  BY <1>4 DEF CallInv
<1>6. LockInv /\ DraftInv
  BY <1>2, <1>4, NoProcessAssumption DEF LockInv, DraftInv, InTransaction, Holding
<1>7. VersionInv(EmptyDatabase)
  <2>1. EmptyDatabase.events = <<>> /\ EmptyDatabase.seq = 0
        /\ \A k \in Key : EmptyDatabase.facts[k] = None
    BY DEF EmptyDatabase
  <2>2. Len(EmptyDatabase.events) = 0 /\ DOMAIN EmptyDatabase.events = {}
    BY <2>1
  <2> QED
    BY <2>1, <2>2 DEF VersionInv, Numbered, ChainVerifies, FactsShown, AuditShows, RowsHaveCalls
<1> QED
  BY <1>2, <1>3, <1>5, <1>6, <1>7 DEF IInv

\* The invariant is inductive.
LEMMA InductiveStep == IInv /\ [Next]_vars => IInv'
<1> SUFFICES ASSUME IInv, [Next]_vars PROVE IInv'
  OBVIOUS
<1>1. TypeOK' /\ (\A p \in Process : CallInv(p))' /\ LockInv' /\ DraftInv'
  BY TypeStep, ControlStep, DraftStep
<1>2. (\A v \in DOMAIN wal : VersionInv(wal[v]))'
  BY VersionStep
<1> QED
  BY <1>1, <1>2 DEF IInv

\* Every reachable state of the server processes and their database keeps the
\* invariant: calls in shape, lock, draft and committed versions.
THEOREM InvariantHolds == Spec => []IInv
<1>1. Init => IInv
  BY InitInv
<1>2. IInv /\ [Next]_vars => IInv'
  BY InductiveStep
<1> QED
  BY <1>1, <1>2, PTL DEF Spec

\* Variables have their types, whatever the keys, values and processes.
THEOREM TypeCorrect == Spec => []TypeOK
<1>1. IInv => TypeOK
  BY DEF IInv
<1> QED
  BY <1>1, InvariantHolds, PTL

\* memory_server.py:335: a fact and its audit row commit together, so that in
\* every committed version the trail accounts for every fact.
THEOREM FactsAreAudited == Spec => []FactsMatchAudit
<1>1. IInv => FactsMatchAudit
  BY DEF IInv, VersionInv, FactsShown, FactsMatchAudit
<1> QED
  BY <1>1, InvariantHolds, PTL

\* audit.py:61: verification succeeds on every committed version, and the ids
\* it walks are strictly increasing.
THEOREM ChainNeverForks == Spec => []AuditChainIntact
<1>1. IInv => AuditChainIntact
  <2> SUFFICES ASSUME IInv, NEW v \in DOMAIN wal
               PROVE  Verifies(wal[v].events) /\ IdsIncrease(wal[v].events)
    BY DEF AuditChainIntact
  <2>1. VersionInv(wal[v]) /\ wal[v] \in Database
    BY LastCommittedType DEF IInv
  <2>2. wal[v].events \in Seq(Event) /\ DOMAIN wal[v].events = 1..Len(wal[v].events)
    BY <2>1, DatabaseParts, LenProperties
  <2>3. IdsIncrease(wal[v].events)
    BY <2>1, <2>2 DEF VersionInv, Numbered, IdsIncrease
  <2>4. Verifies(wal[v].events)
    BY <2>1, <2>2, VerifyIsLocal DEF VersionInv
  <2> QED
    BY <2>3, <2>4
<1> QED
  BY <1>1, InvariantHolds, PTL

\* The fact that a list of rows shows is the one that any list of the same fields shows.
LEMMA SameRowsShowSame ==
  ASSUME NEW d \in Database, NEW e \in Database, FactsShown(d), FactsShown(e), NEW k \in Key,
         Len(d.events) = Len(e.events),
         \A i \in 1..Len(d.events) : Fields(d.events[i]) = Fields(e.events[i])
  PROVE  AbstractFact(d.facts[k]) = AbstractFact(e.facts[k])
<1> DEFINE n == Len(d.events)
<1>1. /\ n \in Nat /\ d.facts[k] \in Fact \union {None} /\ e.facts[k] \in Fact \union {None}
  BY DatabaseParts, LenProperties
<1>2. ASSUME NEW i \in 1..n
      PROVE  /\ d.events[i].key = e.events[i].key /\ d.events[i].action = e.events[i].action
             /\ d.events[i].value = e.events[i].value
             /\ d.events[i].client = e.events[i].client
  BY DEF Fields
<1>3. \A i \in Nat : LastWrite(d.events, n, k, i) <=> LastWrite(e.events, n, k, i)
  BY <1>1, <1>2 DEF LastWrite, Writes
<1>4. /\ AuditShows(d.events, n, k, d.facts[k])
      /\ AuditShows(e.events, n, k, e.facts[k])
  BY DEF FactsShown
<1>5. \A i, j \in 1..n :
        LastWrite(d.events, n, k, i) /\ LastWrite(d.events, n, k, j) => i = j
  BY <1>1 DEF LastWrite
<1>6. CASE d.facts[k] = None
  <2>1. e.facts[k] = None
    BY <1>1, <1>2, <1>3, <1>4, <1>6 DEF AuditShows
  <2> QED
    BY <1>6, <2>1
<1>7. CASE d.facts[k] # None
  <2>1. PICK i \in 1..n : /\ LastWrite(d.events, n, k, i)
                          /\ d.events[i].action = "set"
                          /\ d.facts[k].value = d.events[i].value
                          /\ d.facts[k].source = d.events[i].client
    BY <1>4, <1>7 DEF AuditShows
  <2>2. LastWrite(e.events, n, k, i) /\ e.events[i].action = "set"
    BY <1>1, <1>2, <1>3, <2>1
  <2>3. e.facts[k] # None
    BY <1>4, <2>2 DEF AuditShows
  <2>4. PICK j \in 1..n : /\ LastWrite(e.events, n, k, j)
                          /\ e.facts[k].value = e.events[j].value
                          /\ e.facts[k].source = e.events[j].client
    BY <1>4, <2>3 DEF AuditShows
  <2>5. i = j
    BY <1>1, <1>3, <1>5, <2>1, <2>4
  <2> QED
    BY <1>2, <1>7, <2>1, <2>3, <2>4, <2>5 DEF AbstractFact
<1> QED
  BY <1>6, <1>7

\* README.md:424: "the event chain covers the event records only", but since the facts of
\* every committed version are those that its records show, a head saved outside SQLite
\* also tells every value and its author: two versions that verify to it agree on them.
THEOREM HeadFixesFacts ==
  ASSUME NEW d \in Database, NEW e \in Database, FactsShown(d), FactsShown(e), NEW head,
         VerifiesTo(d.events, head), VerifiesTo(e.events, head)
  PROVE  \A k \in Key : AbstractFact(d.facts[k]) = AbstractFact(e.facts[k])
<1>1. d.events \in Seq(Event) /\ e.events \in Seq(Event)
  BY DatabaseParts
<1>2. /\ Len(d.events) = Len(e.events)
      /\ \A i \in 1..Len(d.events) : Fields(d.events[i]) = Fields(e.events[i])
  BY <1>1, HeadFixesTrail
<1> QED
  BY <1>2, SameRowsShowSame

----------------------------------------------------------------------------
(* Why calls return: what FairSpec needs of the safety of the model.       *)

\* A call that has no answer yet is under way in some process.
PendingIsUnderWay ==
  \A n \in DOMAIN calls :
    calls[n].answer = "pending" => \E p \in Process : serial[p] = n /\ pc[p] # "idle"

\* How many of its own steps may lie before a process that is at a label.
Left(label) ==
  CASE label = "embed" -> 10 [] label = "stmt" -> 9 [] label = "scan" -> 9
    [] label \in {"actual", "vector", "row", "query"} -> 8 [] label = "log" -> 7
    [] label = "append" -> 6 [] label = "tail" -> 5 [] label = "insert" -> 4
    [] label = "commit" -> 3 [] label \in {"events", "select"} -> 2
    [] label \in {"refuse", "reply"} -> 1 [] OTHER -> 0

\* The steps of the others leave a process where it is, and its own bring it nearer to
\* its answer.
Forward ==
  \A p \in Process :
    /\ pc'[p] # pc[p] =>
         \/ \E request \in Requests : Receive(p, request)
         \/ Step(p) \/ Fault(p) \/ PowerLoss
    /\ Step(p) => Left(pc'[p]) < Left(pc[p])

\* The steps that go on with a call.
Proceeds(p) ==
  \/ Embed(p) \/ SetFact(p) \/ LoseCas(p) \/ ReadActual(p) \/ SetVector(p)
  \/ DeleteFact(p) \/ DeleteVector(p)
  \/ Log(p) \/ AppendBegin(p) \/ ReadTail(p) \/ InsertEvent(p) \/ CommitTx(p)
  \/ GetRow(p) \/ Events(p) \/ Select(p) \/ ScanEmpty(p) \/ ScanHit(p) \/ Query(p)

\* A step of a call either goes on with it or ends it with an answer.
LEMMA StepComesNearer ==
  ASSUME TypeOK, NEW p \in Process, Step(p) \/ Fault(p)
  PROVE  \/ /\ Proceeds(p) /\ UNCHANGED <<calls, serial>> /\ pc'[p] # "idle"
            /\ Left(pc'[p]) < Left(pc[p])
         \/ /\ \E answer \in Answer \ {"pending"} : Return(p, answer)
            /\ Step(p) => Left(pc'[p]) < Left(pc[p])
<1>1. DOMAIN pc = Process
  BY DEF TypeOK
<1>2. CASE Embed(p) \/ SetFact(p) \/ LoseCas(p) \/ ReadActual(p) \/ SetVector(p)
  BY <1>1, <1>2 DEF Embed, SetFact, LoseCas, ReadActual, SetVector, Goto, At, Left, Proceeds
<1>3. CASE DeleteFact(p) \/ DeleteVector(p) \/ Log(p) \/ AppendBegin(p) \/ ReadTail(p)
  BY <1>1, <1>3 DEF DeleteFact, DeleteVector, Log, AppendBegin, ReadTail, Goto, At, Left, Proceeds
<1>4. CASE InsertEvent(p) \/ CommitTx(p) \/ GetRow(p) \/ Events(p)
  BY <1>1, <1>4 DEF InsertEvent, CommitTx, AfterRead, GetRow, Fetch, Events, Goto, At, Left, Proceeds
<1>5. CASE Select(p) \/ ScanEmpty(p) \/ ScanHit(p) \/ Query(p)
  <2>1. CASE Select(p) \/ ScanEmpty(p)
    BY <1>1, <2>1 DEF Select, ScanEmpty, Fetch, Goto, At, Left, Proceeds
  <2>2. CASE Query(p)
    BY <1>1, <2>2 DEF Query, Goto, At, Left, Proceeds
  <2>3. CASE ScanHit(p)
    <3>1. /\ pc[p] = "scan" /\ pc' = [pc EXCEPT ![p] = "query"]
          /\ UNCHANGED <<calls, serial>>
      BY <2>3 DEF ScanHit, Fetch, Goto, At
    <3>2. Proceeds(p)
      BY <2>3 DEF Proceeds
    <3> QED
      BY <1>1, <3>1, <3>2 DEF Left
  <2> QED
    BY <1>5, <2>1, <2>2, <2>3
<1>6. CASE Refuse(p) \/ Reply(p) \/ Busy(p)
  <2>1. Outcome(p) \in Answer \ {"pending"} /\ "error" \in Answer \ {"pending"}
    BY DEF Outcome, Answer
  <2>2. \E answer \in Answer \ {"pending"} : Return(p, answer)
    BY <1>6, <2>1 DEF Refuse, Reply, Busy
  <2>3. Left(pc'[p]) < Left(pc[p])
    BY <1>1, <1>6 DEF Refuse, Reply, Busy, Return, Goto, At, Left
  <2> QED
    BY <2>2, <2>3
<1>7. CASE Fault(p) /\ ~Step(p)
  <2>1. "lost" \in Answer \ {"pending"} /\ "error" \in Answer \ {"pending"}
    BY DEF Answer
  <2> QED
    BY <1>7, <2>1 DEF Fault, EmbedFails, TxFails, StatementFails, Crash
<1> QED
  BY <1>2, <1>3, <1>4, <1>5, <1>6, <1>7 DEF Step

\* memory_server.py:287: no call is forgotten; the process that was given it is at one of
\* its labels until it is answered, or lost with the process.
THEOREM NoCallForgotten == Spec => []PendingIsUnderWay
<1>1. Init => PendingIsUnderWay
  BY EmptySeq DEF Init, PendingIsUnderWay
<1>2. IInv /\ PendingIsUnderWay /\ [Next]_vars => PendingIsUnderWay'
  <2> SUFFICES ASSUME IInv, PendingIsUnderWay, [Next]_vars PROVE PendingIsUnderWay'
    OBVIOUS
  <2>1. TypeOK /\ calls \in Seq(Call) /\ DOMAIN calls = 1..Len(calls) /\ Len(calls) \in Nat
    BY LenProperties DEF IInv, TypeOK
  <2>2. DOMAIN pc = Process /\ DOMAIN serial = Process
    BY <2>1 DEF TypeOK
  <2>3. ASSUME NEW p \in Process, NEW request \in Requests, Receive(p, request)
        PROVE  PendingIsUnderWay'
    <3> DEFINE call == [process |-> p, request |-> request, answer |-> "pending",
                        since |-> Len(LastCommitted.events)]
    <3>1. /\ pc[p] = "idle" /\ pc' = [pc EXCEPT ![p] = Entry(p, request)]
          /\ serial' = [serial EXCEPT ![p] = Len(calls) + 1]
          /\ calls' = Append(calls, call)
      BY <2>3 DEF Receive, At, Goto
    <3>2. Entry(p, request) # "idle"
      BY DEF Entry
    <3>3. call \in Call
      <4>1. Len(LastCommitted.events) \in Nat
        BY <2>1, LastCommittedType, DatabaseParts
      <4> QED
        BY <4>1, StoreAssumption DEF Call, Answer
    <3>4. /\ DOMAIN calls' = 1 .. Len(calls) + 1
          /\ \A n \in 1..Len(calls) : calls'[n] = calls[n]
      <4> HIDE DEF call
      <4> QED
        BY <2>1, <3>1, <3>3, AppendProperties, LenProperties
    <3> QED
      BY <2>1, <2>2, <3>1, <3>2, <3>4 DEF PendingIsUnderWay
  <2>4. ASSUME NEW p \in Process, Step(p) \/ Fault(p) PROVE PendingIsUnderWay'
    <3>1. CASE UNCHANGED <<calls, serial>> /\ pc'[p] # "idle"
      <4>1. \A q \in Process : q # p => pc'[q] = pc[q]
        BY <2>4, OneProcessMoves DEF Untouched
      <4> QED
        BY <3>1, <4>1 DEF PendingIsUnderWay
    <3>2. ASSUME NEW answer \in Answer \ {"pending"}, Return(p, answer)
          PROVE  PendingIsUnderWay'
      <4>1. /\ serial' = serial /\ \A q \in Process : q # p => pc'[q] = pc[q]
            /\ calls' = [calls EXCEPT ![serial[p]].answer = answer]
        BY <2>2, <3>2 DEF Return, Goto
      <4>2. /\ DOMAIN calls' = DOMAIN calls
            /\ \A n \in DOMAIN calls : calls[n] \in Call
        BY <2>1, <4>1
      <4>3. ASSUME NEW n \in DOMAIN calls, calls'[n].answer = "pending"
            PROVE  n # serial[p] /\ calls[n].answer = "pending"
        BY <4>1, <4>2, <4>3 DEF Call
      <4> QED
        BY <4>1, <4>2, <4>3 DEF PendingIsUnderWay
    <3> QED
      BY <2>1, <2>4, <3>1, <3>2, StepComesNearer
  <2>5. CASE PowerLoss
    <3>1. \A n \in DOMAIN calls : calls[n] \in Call
      BY <2>1
    <3> QED
      BY <2>5, <3>1 DEF PowerLoss, PendingIsUnderWay, Call
  <2>6. CASE Checkpoint \/ Tick \/ Quiescent \/ UNCHANGED vars
    BY <2>6 DEF Checkpoint, Tick, Quiescent, vars, process, PendingIsUnderWay
  <2> QED
    BY <2>3, <2>4, <2>5, <2>6 DEF Next
<1> QED
  BY <1>1, <1>2, InvariantHolds, PTL DEF Spec

\* memory_server.py:287: no tool goes round in a loop; a call is answered after at most
\* ten steps of its process, whatever the other processes do to the file meanwhile.
THEOREM CallsGoForward == Spec => [][Forward]_vars
<1>1. IInv /\ [Next]_vars => [Forward]_vars
  <2> SUFFICES ASSUME IInv, Next PROVE Forward
    OBVIOUS
  <2>1. TypeOK
    BY DEF IInv
  <2>2. ASSUME NEW p \in Process, pc'[p] # pc[p]
        PROVE  \/ \E request \in Requests : Receive(p, request)
               \/ Step(p) \/ Fault(p) \/ PowerLoss
    <3>1. ASSUME NEW q \in Process,
                 (\E request \in Requests : Receive(q, request)) \/ Step(q) \/ Fault(q)
          PROVE  q = p
      BY <2>2, <3>1, OneProcessMoves DEF Untouched
    <3>2. ~(Checkpoint \/ Tick \/ Quiescent)
      BY <2>2 DEF Checkpoint, Tick, Quiescent, vars, process
    <3> QED
      BY <3>1, <3>2 DEF Next
  <2>3. \A p \in Process : Step(p) => Left(pc'[p]) < Left(pc[p])
    BY <2>1, StepComesNearer
  <2> QED
    BY <2>2, <2>3 DEF Forward
<1> QED
  BY <1>1, InvariantHolds, PTL DEF Spec

====
