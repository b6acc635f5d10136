---- MODULE MemoryStoreTrail ----
(***************************************************************************)
(* What the audit trail says of the calls, proved for any keys, values,    *)
(* processes and calls: compare-and-swap and create-only decided on the    *)
(* fact as it stood right before their own row, the rows of writes are in  *)
(* the order of their timestamps, a call was told what its row says, and   *)
(* what a read found, or a search ranks by, is what the trail accounts     *)
(* for.  And, last, that the store implements AuditedStore: the initial    *)
(* states map to the initial state, a commit to one logged call, a         *)
(* checkpoint to a sync, a power loss to a power loss, and every other     *)
(* step to a stutter.                                                      *)
(*                                                                         *)
(* Each property has an invariant of its own, kept by every step of a      *)
(* store in which IInv holds.  The rows before a row never change, so what *)
(* is to be shown of a row is shown when it is committed.                  *)
(***************************************************************************)
EXTENDS MemoryStoreProofs

----------------------------------------------------------------------------
(* Decisions. *)

\* The value of k before row i.
Stood(events, i, k, value) ==
  IF value = None
    THEN AuditShows(events, i - 1, k, None)
    ELSE \E j \in 1 .. i - 1 :
           /\ LastWrite(events, i - 1, k, j)
           /\ events[j].action = "set" /\ events[j].value = value

\* What is to be shown of row i, of a call with that request.
RowDecides(events, i, request) ==
  /\ events[i].action = "set" /\ request.absent => Stood(events, i, request.key, None)
  /\ events[i].action = "set" /\ request.expected # None =>
       Stood(events, i, request.key, request.expected)
  /\ events[i].action = "cas_fail" =>
       /\ Stood(events, i, request.key, events[i].value)
       /\ request.absent => events[i].value # None
       /\ request.expected # None => events[i].value # request.expected

Decides(events, cs) == \A i \in DOMAIN events : RowDecides(events, i, cs[events[i].call].request)

\* In every committed version, one that a power loss may fall back to included.
CasInv == \A v \in DOMAIN wal : Decides(wal[v].events, calls)

\* The property is the last version's part of it.
LEMMA DecidesIs == CasDecidesOnCurrent <=> Decides(LastCommitted.events, calls)
BY DEF CasDecidesOnCurrent, Decides, RowDecides, Stood

\* The rows before a row decide what stood there, and do not change.
LEMMA PrefixStands ==
  ASSUME NEW events \in Seq(Event), NEW e \in Event, NEW i \in 1 .. Len(events) + 1, NEW k, NEW value
  PROVE  Stood(Append(events, e), i, k, value) <=> Stood(events, i, k, value)
<1> DEFINE rows == Append(events, e)
           n == i - 1
<1>1. /\ Len(events) \in Nat /\ n \in Nat /\ n <= Len(events)
      /\ \A j \in 1..Len(events) : rows[j] = events[j]
  BY AppendProperties, LenProperties
<1> HIDE DEF rows, n
<1>2. \A j \in 1..n : rows[j] = events[j]
  BY <1>1
<1>3. \A j \in 1..n : LastWrite(rows, n, k, j) <=> LastWrite(events, n, k, j)
  <2> SUFFICES ASSUME NEW j \in 1..n
               PROVE  LastWrite(rows, n, k, j) <=> LastWrite(events, n, k, j)
    OBVIOUS
  <2>1. \A x \in 1..n : Writes(rows[x], k) <=> Writes(events[x], k)
    BY <1>2
  <2>2. \A x \in j + 1 .. n : x \in 1..n
    BY <1>1
  <2> QED
    BY <2>1, <2>2 DEF LastWrite
<1>4. AuditShows(rows, n, k, None) <=> AuditShows(events, n, k, None)
  BY <1>2, <1>3 DEF AuditShows
<1> QED
  BY <1>2, <1>3, <1>4 DEF Stood, rows, n

\* A row decides as it did when another comes after it.
LEMMA AppendDecides ==
  ASSUME NEW events \in Seq(Event), NEW e \in Event, NEW cs, Decides(events, cs),
         RowDecides(Append(events, e), Len(events) + 1, cs[e.call].request)
  PROVE  Decides(Append(events, e), cs)
<1> DEFINE rows == Append(events, e)
<1>1. /\ Len(events) \in Nat /\ DOMAIN events = 1..Len(events)
      /\ DOMAIN rows = 1 .. Len(events) + 1 /\ rows[Len(events) + 1] = e
      /\ \A i \in 1..Len(events) : rows[i] = events[i]
  BY AppendProperties, LenProperties
<1>2. ASSUME NEW i \in 1..Len(events)
      PROVE  RowDecides(rows, i, cs[rows[i].call].request)
  <2>1. RowDecides(events, i, cs[events[i].call].request)
    BY <1>1, <1>2 DEF Decides
  <2>2. rows[i] = events[i] /\ i \in 1 .. Len(events) + 1
    BY <1>1, <1>2
  <2>3. \A k, value : Stood(rows, i, k, value) <=> Stood(events, i, k, value)
    BY <2>2, PrefixStands
  <2> HIDE DEF rows
  <2> QED
    BY <2>1, <2>2, <2>3 DEF RowDecides
<1>3. \A i \in 1 .. Len(events) + 1 : i \in 1..Len(events) \/ i = Len(events) + 1
  BY <1>1
<1> HIDE DEF rows
<1>4. RowDecides(rows, Len(events) + 1, cs[e.call].request)
  BY DEF rows
<1>5. Decides(rows, cs)
  BY <1>1, <1>2, <1>3, <1>4 DEF Decides
<1> QED
  BY <1>5 DEF rows

\* The value of a fact is what stood there, by the trail that accounts for it.
LEMMA FactStood ==
  ASSUME NEW d \in Database, FactsShown(d), NEW k \in Key
  PROVE  LET fact == d.facts[k] IN
         Stood(d.events, Len(d.events) + 1, k, IF fact = None THEN None ELSE fact.value)
<1> DEFINE fact == d.facts[k]
           n == Len(d.events)
<1>1. AuditShows(d.events, n, k, fact) /\ fact \in Fact \union {None} /\ n \in Nat /\ n + 1 - 1 = n
  BY DatabaseParts DEF FactsShown
<1> HIDE DEF fact, n
<1>2. CASE fact = None
  BY <1>1, <1>2 DEF Stood, fact, n
<1>3. CASE fact # None
  <2>1. fact.value # None
    BY <1>1, <1>3, StoreAssumption DEF Fact
  <2>2. \E i \in 1..n : /\ LastWrite(d.events, n, k, i)
                        /\ d.events[i].action = "set" /\ d.events[i].value = fact.value
    BY <1>1, <1>3 DEF AuditShows
  <2>3. Stood(d.events, n + 1, k, fact.value)
    BY <1>1, <2>1, <2>2 DEF Stood
  <2> QED
    BY <1>3, <2>3 DEF fact, n
<1> QED
  BY <1>2, <1>3

\* The row that a call commits tells what its write has seen.
LEMMA NewRowDecides ==
  ASSUME IInv, NEW p \in Process, CommitTx(p)
  PROVE  /\ draft.events = Append(LastCommitted.events, NewEvent(p))
         /\ NewEvent(p) \in Event /\ LastCommitted.events \in Seq(Event)
         /\ RowDecides(draft.events, Len(LastCommitted.events) + 1, calls[NewEvent(p).call].request)
<1> DEFINE old == LastCommitted.events
           facts == LastCommitted.facts
           n == Len(old)
           e == NewEvent(p)
           request == Req(p)
           k == request.key
           value == IF facts[k] = None THEN None ELSE facts[k].value
<1>1. /\ TypeOK /\ CallInv(p) /\ pc[p] = "commit" /\ InTransaction(p)
      /\ DraftEventsInv(p) /\ DraftFactsInv(p)
      /\ LastCommitted \in Database /\ VersionInv(LastCommitted)
  BY LastCommittedType DEF IInv, CommitTx, Commit, At, DraftInv, LastCommitted
<1>2. /\ e \in Event /\ e.action = LogAction(p) /\ e.value = LogValue(p) /\ e.call = serial[p]
      /\ old \in Seq(Event) /\ n \in Nat /\ facts \in [Key -> Fact \union {None}]
      /\ draft.events = Append(old, e)
  BY <1>1, NewEventType, DatabaseParts DEF DraftEventsInv
<1>3. draft.events[n + 1] = e
  BY <1>2, AppendProperties
<1>4. request = calls[e.call].request
  BY <1>2 DEF Req
<1>5. CASE request.tool # "set"
  <2>1. e.action \notin {"set", "cas_fail"}
    <3>1. request.tool \in {"set", "get", "delete", "search", "history", "list", "lock_hold"}
      BY <1>1, RequestType
    <3> QED
      BY <1>2, <1>5, <3>1 DEF LogAction
  <2> HIDE DEF e, request, old, n
  <2> QED
    BY <1>2, <1>3, <1>4, <2>1 DEF RowDecides, old, n, e
<1>6. CASE request.tool = "set"
  <2>1. /\ k \in Key /\ ~(request.absent /\ request.expected # None)
        /\ request.absent \in BOOLEAN
    BY <1>1, <1>6, RequestType DEF CallInv, Refused, Request, SetRequest, KeyRequest, StoreRequest
  <2>2. \A x : Stood(draft.events, n + 1, k, x) <=> Stood(old, n + 1, k, x)
    <3>1. n + 1 \in 1 .. n + 1
      BY <1>2
    <3> HIDE DEF e, k, old
    <3> QED
      BY <1>2, <3>1, PrefixStands
  <2>3. Stood(draft.events, n + 1, k, value)
    BY <1>1, <2>1, <2>2, FactStood DEF VersionInv
  <2>4. facts[k] # None => value = facts[k].value /\ value # None
    <3>1. facts[k] # None => facts[k].value # None
      BY <1>2, <2>1, StoreAssumption DEF Fact
    <3> QED
      BY <3>1
  <2>5. facts[k] = None => value = None
    OBVIOUS
  <2>6. CASE ~cas[p].failed
    <3>1. e.action = "set" /\ WriteMatches(request, facts)
      BY <1>1, <1>2, <1>6, <2>6 DEF LogAction, DraftFactsInv, FactWritten
    <3>2. /\ request.absent => value = None
          /\ request.expected # None => value = request.expected
      BY <2>4, <2>5, <3>1 DEF WriteMatches
    <3> HIDE DEF e, request, old, n, value
    <3> QED
      BY <1>2, <1>3, <1>4, <2>3, <3>1, <3>2 DEF RowDecides, old, n, e
  <2>7. CASE cas[p].failed
    <3>1. /\ e.action = "cas_fail" /\ ~WriteMatches(request, facts)
          /\ e.value = value
      BY <1>1, <1>2, <1>6, <2>7 DEF LogAction, LogValue, DraftFactsInv, FactKept
    <3>2. /\ request.absent => value # None
          /\ request.expected # None => value # request.expected
      BY <2>1, <2>4, <2>5, <3>1 DEF WriteMatches
    <3> HIDE DEF e, request, old, n, value
    <3> QED
      BY <1>2, <1>3, <1>4, <2>3, <3>1, <3>2 DEF RowDecides, old, n, e
  <2> QED
    BY <2>6, <2>7
<1> QED
  BY <1>5, <1>6

\* Calls keep their requests, so rows decide as they did.
LEMMA CallsDecide ==
  ASSUME NEW v \in DOMAIN wal, VersionInv(wal[v]), KeepsCalls, Decides(wal[v].events, calls)
  PROVE  Decides(wal[v].events, calls')
<1>1. ASSUME NEW i \in DOMAIN wal[v].events
      PROVE  calls'[wal[v].events[i].call].request = calls[wal[v].events[i].call].request
  BY <1>1 DEF VersionInv, RowsHaveCalls, KeepsCalls
<1> QED
  BY <1>1 DEF Decides

\* A version after a step was there before, or is the draft that was committed.
LEMMA VersionsOfStep ==
  ASSUME IInv, [Next]_vars, NEW v \in DOMAIN wal'
  PROVE  \/ \E w \in DOMAIN wal : wal'[v] = wal[w]
         \/ \E p \in Process : CommitTx(p) /\ wal'[v] = draft
<1>1. TypeOK /\ wal \in Seq(Database) /\ draft \in Database /\ Len(wal) \in DOMAIN wal
  BY LastCommittedType DEF IInv, TypeOK
<1>2. ASSUME NEW p \in Process, CommitTx(p)
      PROVE  (\E w \in DOMAIN wal : wal'[v] = wal[w]) \/ wal'[v] = draft
  <2>1. wal' = Append(wal, draft)
    BY <1>2 DEF CommitTx, Commit
  <2>2. /\ wal' \in Seq(Database) /\ Len(wal) \in Nat /\ Len(wal') = Len(wal) + 1
        /\ wal'[Len(wal) + 1] = draft /\ \A w \in 1..Len(wal) : wal'[w] = wal[w]
    BY <1>1, <2>1, AppendProperties, LenProperties
  <2>3. DOMAIN wal = 1..Len(wal) /\ DOMAIN wal' = 1 .. Len(wal) + 1
    BY <1>1, <2>2, LenProperties
  <2>4. v \in 1..Len(wal) \/ v = Len(wal) + 1
    BY <2>2, <2>3
  <2> QED
    BY <2>2, <2>3, <2>4
<1>3. CASE PowerLoss
  <2>1. /\ Len(wal') \in 1..Len(wal) /\ wal' \in Seq(Database)
        /\ \A w \in 1..Len(wal') : wal'[w] = wal[w]
    BY <1>1, <1>3, LosePowerKeepsTypes DEF PowerLoss, StoreTypeOK, TypeOK
  <2>2. Len(wal) \in Nat /\ DOMAIN wal = 1..Len(wal) /\ DOMAIN wal' = 1..Len(wal')
    BY <1>1, <2>1, LenProperties
  <2> QED
    BY <2>1, <2>2
<1>4. CASE Checkpoint
  <2>1. wal' = <<LastCommitted>>
    BY <1>4 DEF Checkpoint, Sync
  <2>2. wal'[v] = wal[Len(wal)]
    BY <2>1 DEF LastCommitted
  <2> QED
    BY <1>1, <2>2
<1>5. CASE wal' = wal
  BY <1>5
<1>6. ASSUME NEW p \in Process,
             (\E request \in Requests : Receive(p, request)) \/ Step(p) \/ Fault(p)
      PROVE  CommitTx(p) \/ wal' = wal
  BY <1>6, OnlyCommitAppends
<1> QED
  BY <1>2, <1>3, <1>4, <1>5, <1>6 DEF Next, Tick, Quiescent, vars, sqlite

\* Every step keeps the decisions of the rows.
LEMMA CasStep == IInv /\ CasInv /\ [Next]_vars => CasInv'
<1> SUFFICES ASSUME IInv, CasInv, [Next]_vars, NEW v \in DOMAIN wal'
             PROVE  Decides(wal'[v].events, calls')
  BY DEF CasInv
<1>1. KeepsCalls
  BY CallsStay
<1>2. CASE \E w \in DOMAIN wal : wal'[v] = wal[w]
  BY <1>1, <1>2, CallsDecide DEF CasInv, IInv
<1>3. ASSUME NEW p \in Process, CommitTx(p), wal'[v] = draft
      PROVE  Decides(wal'[v].events, calls')
  <2>1. Decides(LastCommitted.events, calls) /\ calls' = calls
    BY <1>3, LastCommittedType DEF CasInv, LastCommitted, IInv, CommitTx
  <2>2. Decides(draft.events, calls)
    BY <1>3, <2>1, NewRowDecides, AppendDecides
  <2> QED
    BY <1>3, <2>1, <2>2
<1> QED
  BY <1>2, <1>3, VersionsOfStep

\* memory_server.py:335-347: a swap or a creation that is recorded found the value
\* it named, or none, and one that lost is recorded with the value that beat it.
THEOREM SwapsDecideOnCurrent == Spec => []CasDecidesOnCurrent
<1>1. Init => CasInv
  <2> SUFFICES ASSUME Init PROVE CasInv
    OBVIOUS
  <2>1. wal = <<EmptyDatabase>>
    BY DEF Init, Open
  <2>2. \A v \in DOMAIN wal : DOMAIN wal[v].events = {}
    BY <2>1 DEF EmptyDatabase
  <2> QED
    BY <2>2 DEF CasInv, Decides
<1>2. IInv /\ CasInv => CasDecidesOnCurrent
  BY LastCommittedType, DecidesIs DEF CasInv, LastCommitted, IInv
<1> QED
  BY <1>1, <1>2, CasStep, InvariantHolds, PTL DEF Spec

----------------------------------------------------------------------------
(* Timestamps. *)

IsWrite(event) == event.action \in {"set", "cas_fail", "delete"}

Ordered(events) ==
  \A i, j \in DOMAIN events :
    i < j /\ IsWrite(events[i]) /\ IsWrite(events[j]) => events[i].timestamp <= events[j].timestamp

StampedBy(events, time) == \A i \in DOMAIN events : events[i].timestamp <= time

\* A write that has taken the timestamp of its row: it has the lock.
Stamping(p) ==
  pc[p] \in {"append", "tail", "insert", "commit"} /\ Req(p).tool \in {"set", "delete"}

\* As long as the clock has not been set back, nothing is stamped later than now.
StampInv ==
  clock.steady =>
    /\ \A v \in DOMAIN wal : Ordered(wal[v].events) /\ StampedBy(wal[v].events, clock.time)
    /\ \A p \in Process : now[p] <= clock.time
    /\ \A p \in Process : Stamping(p) => StampedBy(LastCommitted.events, now[p])

\* A timestamp is taken from the clock or given up, or it stays.
LEMMA StampsTaken ==
  ASSUME IInv, NEW p \in Process,
         (\E request \in Requests : Receive(p, request)) \/ Step(p) \/ Fault(p)
  PROVE  \A q \in Process : now'[q] \in {now[q], clock.time, 0}
<1>1. now \in [Process -> Time]
  BY DEF IInv, TypeOK
<1>2. CASE Embed(p) \/ Log(p)
  BY <1>1, <1>2 DEF Embed, Log
<1>3. CASE \E answer : Return(p, answer)
  BY <1>1, <1>3 DEF Return
<1>4. CASE now' = now
  BY <1>4
<1>5. \/ Embed(p) \/ Log(p)
      \/ \E answer : Return(p, answer)
      \/ now' = now
  BY DEF Receive, Step, Fault, Refuse, Reply, Busy, SetFact, LoseCas, ReadActual, SetVector,
         DeleteFact, DeleteVector, AppendBegin, ReadTail, InsertEvent, CommitTx, GetRow, Events,
         Select, ScanEmpty, ScanHit, Query, Fetch, EmbedFails, TxFails, StatementFails, Crash
<1> QED
  BY <1>2, <1>3, <1>4, <1>5

\* A write has the timestamp of its row from Log on.
LEMMA MoverStamps ==
  ASSUME IInv, NEW p \in Process, Stamping(p)',
         (\E request \in Requests : Receive(p, request)) \/ Step(p) \/ Fault(p)
  PROVE  /\ wal' = wal
         /\ \/ now'[p] = clock.time
            \/ Stamping(p) /\ now'[p] = now[p]
<1>1. TypeOK
  BY DEF IInv
<1>2. pc'[p] \in {"append", "tail", "insert", "commit"}
  BY DEF Stamping
<1>3. CASE Log(p)
  <2>1. UNCHANGED sqlite /\ now' = [now EXCEPT ![p] = clock.time]
    BY <1>3 DEF Log
  <2>2. now'[p] = clock.time
    BY <1>1, <2>1 DEF TypeOK
  <2>3. wal' = wal
    BY <2>1 DEF sqlite
  <2> QED
    BY <2>2, <2>3
<1>4. CASE AppendBegin(p) \/ ReadTail(p) \/ InsertEvent(p)
  <2>1. /\ pc[p] \in {"append", "tail", "insert"} /\ UNCHANGED <<serial, calls, now>> /\ wal' = wal
    BY <1>4 DEF AppendBegin, BeginImmediate, ReadTail, InsertEvent, Write, At, sqlite
  <2>2. Req(p)' = Req(p)
    BY <2>1 DEF Req
  <2> QED
    BY <2>1, <2>2 DEF Stamping
<1>5. CASE \E request \in Requests : Receive(p, request)
  <2>1. PICK request \in Requests : Receive(p, request)
    BY <1>5
  <2>2. pc'[p] = Entry(p, request)
    BY <1>1, <2>1 DEF Receive, Goto, TypeOK
  <2> QED
    BY <1>2, <2>2 DEF Entry
<1>6. CASE \/ Refuse(p) \/ Reply(p) \/ Busy(p) \/ EmbedFails(p) \/ TxFails(p)
           \/ StatementFails(p) \/ Crash(p)
  <2>1. \E answer : Return(p, answer)
    BY <1>6 DEF Refuse, Reply, Busy, EmbedFails, TxFails, StatementFails, Crash
  <2>2. pc'[p] = "idle"
    BY <1>1, <2>1 DEF Return, Goto, TypeOK
  <2> QED
    BY <1>2, <2>2
<1>7. CASE \/ Embed(p) \/ SetFact(p) \/ LoseCas(p) \/ ReadActual(p) \/ SetVector(p)
           \/ DeleteFact(p) \/ DeleteVector(p) \/ CommitTx(p)
           \/ GetRow(p) \/ Events(p) \/ Select(p) \/ ScanEmpty(p) \/ ScanHit(p) \/ Query(p)
  <2>1. pc'[p] \in {"stmt", "actual", "vector", "log", "events", "reply", "query"}
    BY <1>1, <1>7 DEF Embed, SetFact, LoseCas, ReadActual, SetVector, DeleteFact, DeleteVector,
         CommitTx, AfterRead, GetRow, Events, Select, ScanEmpty, ScanHit, Query, Fetch, Goto, TypeOK
  <2> QED
    BY <1>2, <2>1
<1> QED
  BY <1>3, <1>4, <1>5, <1>6, <1>7 DEF Step, Fault

\* While a write has the lock nobody else commits.
LEMMA OthersStamp ==
  ASSUME IInv, NEW p \in Process, NEW q \in Process, q # p, Stamping(q)',
         (\E request \in Requests : Receive(p, request)) \/ Step(p) \/ Fault(p)
  PROVE  wal' = wal /\ Stamping(q) /\ now'[q] = now[q]
<1>1. Untouched(q) /\ KeepsCalls /\ TypeOK /\ CallInv(q)
  BY OneProcessMoves DEF IInv
<1>2. pc[q] \in {"append", "tail", "insert", "commit"}
  BY <1>1 DEF Stamping, Untouched
<1>3. Req(q)' = Req(q)
  BY <1>1, <1>2, UntouchedKeeps
<1>4. Stamping(q) /\ now'[q] = now[q]
  BY <1>1, <1>2, <1>3 DEF Stamping, Untouched
<1>5. InTransaction(q)
  BY <1>4 DEF IInv, LockInv, Holding, Stamping
<1>6. ~CommitTx(p)
  BY <1>5 DEF CommitTx, Commit, InTransaction
<1> QED
  BY <1>4, <1>6, OnlyCommitAppends

\* The row that a call commits is stamped no later than now, and no earlier than any
\* row before it if the call is a write.
LEMMA CommitStamps ==
  ASSUME IInv, StampInv, clock.steady, NEW p \in Process, CommitTx(p)
  PROVE  Ordered(draft.events) /\ StampedBy(draft.events, clock.time)
<1> DEFINE old == LastCommitted.events
           e == NewEvent(p)
           n == Len(old)
<1>1. /\ draft.events = Append(old, e) /\ old \in Seq(Event) /\ pc[p] = "commit"
      /\ TypeOK /\ CallInv(p)
  BY NewRowDecides DEF CommitTx, At, IInv
<1>2. /\ e.timestamp = now[p] /\ e.action = LogAction(p) /\ now[p] <= clock.time
  BY <1>1, NewEventType DEF StampInv
<1>3. Ordered(old) /\ StampedBy(old, clock.time)
  BY <1>1, LastCommittedType DEF StampInv, LastCommitted
<1>4. IsWrite(e) => StampedBy(old, now[p])
  <2>1. /\ cas[p].failed => Req(p).tool = "set"
        /\ Req(p).tool \in {"set", "get", "delete", "search", "history", "list", "lock_hold"}
    BY <1>1, RequestType DEF CallInv
  <2>2. IsWrite(e) => Req(p).tool \in {"set", "delete"}
    BY <1>2, <2>1 DEF IsWrite, LogAction
  <2> QED
    BY <1>1, <2>2 DEF StampInv, Stamping
<1>5. /\ n \in Nat /\ DOMAIN old = 1..n
      /\ DOMAIN draft.events = 1 .. n + 1 /\ draft.events[n + 1] = e
      /\ \A i \in 1..n : draft.events[i] = old[i]
  <2>1. e \in Event
    BY NewRowDecides
  <2> HIDE DEF e
  <2> QED
    BY <1>1, <2>1, AppendProperties, LenProperties
<1> HIDE DEF old, e, n
<1>6. \A i \in 1 .. n + 1 : i \in 1..n \/ i = n + 1
  BY <1>5
<1>7. StampedBy(draft.events, clock.time)
  BY <1>2, <1>3, <1>5, <1>6 DEF StampedBy
<1>8. Ordered(draft.events)
  <2> SUFFICES ASSUME NEW i \in 1 .. n + 1, NEW j \in 1 .. n + 1, i < j,
                      IsWrite(draft.events[i]), IsWrite(draft.events[j])
               PROVE  draft.events[i].timestamp <= draft.events[j].timestamp
    BY <1>5 DEF Ordered
  <2>1. i \in 1..n
    BY <1>5
  <2>2. CASE j \in 1..n
    BY <1>3, <1>5, <2>1, <2>2 DEF Ordered
  <2>3. CASE j = n + 1
    <3>1. old[i].timestamp <= now[p]
      BY <1>4, <1>5, <2>1, <2>3 DEF StampedBy
    <3> QED
      BY <1>2, <1>5, <2>1, <2>3, <3>1
  <2> QED
    BY <1>6, <2>2, <2>3
<1> QED
  BY <1>7, <1>8

\* Time does not go back, so what was stamped by then is stamped by now.
LEMMA StampedLater ==
  ASSUME NEW events \in Seq(Event), NEW t \in Nat, NEW u \in Nat, t <= u, StampedBy(events, t)
  PROVE  StampedBy(events, u)
<1>1. \A i \in DOMAIN events : events[i].timestamp \in Nat
  <2>1. \A i \in DOMAIN events : events[i] \in Event
    BY LenProperties, ElementOfSeq
  <2> QED
    BY <2>1, StoreAssumption DEF Event, Time
<1> QED
  BY <1>1 DEF StampedBy

\* Every step keeps the order of the writes.
LEMMA StampStep == IInv /\ StampInv /\ [Next]_vars => StampInv'
<1> SUFFICES ASSUME IInv, StampInv, [Next]_vars, clock'.steady PROVE StampInv'
  BY DEF StampInv
<1>1. /\ TypeOK /\ TypeOK' /\ clock.steady
      /\ clock.time \in Nat /\ clock'.time \in Nat /\ clock.time <= clock'.time
  <2>1. TypeOK /\ TypeOK'
    BY TypeStep DEF IInv
  <2>2. clock.time \in Nat /\ clock'.time \in Nat
    BY <2>1, StoreAssumption DEF TypeOK, Time
  <2>3. CASE Tick
    <3>1. PICK t \in Time : clock' = [time |-> t, steady |-> clock.steady /\ clock.time < t]
      BY <2>3 DEF Tick
    <3> DEFINE ahead == clock.steady /\ clock.time < t
    <3>2. clock' = [time |-> t, steady |-> ahead]
      BY <3>1
    <3> HIDE DEF ahead
    <3>3. clock'.time = t /\ clock'.steady = ahead
      BY <3>2
    <3>4. ahead
      BY <3>3, Zenon
    <3>5. clock.steady /\ clock.time < t /\ t \in Nat
      BY <3>4, StoreAssumption DEF Time, ahead
    <3> QED
      BY <2>1, <2>2, <3>3, <3>5
  <2>4. CASE clock' = clock
    BY <2>1, <2>2, <2>4
  <2>5. Tick \/ clock' = clock
    BY OneProcessMoves DEF Next, PowerLoss, Checkpoint, Quiescent, vars
  <2> QED
    BY <2>3, <2>4, <2>5
<1>2. ASSUME NEW v \in DOMAIN wal'
      PROVE  Ordered(wal'[v].events) /\ StampedBy(wal'[v].events, clock'.time)
  <2>1. Ordered(wal'[v].events) /\ StampedBy(wal'[v].events, clock.time)
    <3>1. CASE \E w \in DOMAIN wal : wal'[v] = wal[w]
      BY <1>1, <3>1 DEF StampInv
    <3>2. CASE \E p \in Process : CommitTx(p) /\ wal'[v] = draft
      BY <1>1, <3>2, CommitStamps
    <3> QED
      BY <1>2, <3>1, <3>2, VersionsOfStep
  <2>2. wal'[v].events \in Seq(Event)
    <3>1. wal'[v] \in Database
      BY <1>1, <1>2, LenProperties, ElementOfSeq DEF TypeOK
    <3> QED
      BY <3>1, DatabaseParts
  <2> QED
    BY <1>1, <2>1, <2>2, StampedLater
<1>3. ASSUME NEW q \in Process, Stamping(q)'
      PROVE  StampedBy(LastCommitted'.events, now'[q])
  <2>1. StampedBy(LastCommitted.events, clock.time)
    BY <1>1, LastCommittedType DEF StampInv, LastCommitted
  <2>2. CASE \E p \in Process :
               (\E request \in Requests : Receive(p, request)) \/ Step(p) \/ Fault(p)
    <3>1. /\ wal' = wal
          /\ \/ now'[q] = clock.time
             \/ Stamping(q) /\ now'[q] = now[q]
      BY <1>3, <2>2, MoverStamps, OthersStamp
    <3>2. LastCommitted' = LastCommitted
      BY <3>1 DEF LastCommitted
    <3> QED
      BY <1>1, <2>1, <3>1, <3>2 DEF StampInv
  <2>3. CASE PowerLoss
    <3>1. pc'[q] = "idle"
      BY <2>3 DEF PowerLoss
    <3> QED
      BY <1>3, <3>1 DEF Stamping
  <2>4. CASE Checkpoint \/ Tick \/ UNCHANGED vars
    <3>1. UNCHANGED <<pc, now, serial, calls>>
      BY <2>4 DEF Checkpoint, Tick, vars, process
    <3>2. Stamping(q)
      BY <1>3, <3>1 DEF Stamping, Req
    <3>3. LastCommitted' = LastCommitted
      <4>1. CASE Checkpoint
        BY <1>1, <4>1, SyncKeepsTypes DEF Checkpoint, StoreTypeOK, TypeOK
      <4>2. CASE Tick \/ UNCHANGED vars
        BY <4>2 DEF Tick, vars, sqlite, LastCommitted
      <4> QED
        BY <2>4, <4>1, <4>2
    <3> QED
      BY <1>1, <3>1, <3>2, <3>3 DEF StampInv
  <2> QED
    BY <2>2, <2>3, <2>4 DEF Next, Quiescent
<1>4. ASSUME NEW q \in Process
      PROVE  now'[q] <= clock'.time
  <2>1. now[q] <= clock.time /\ now[q] \in Nat /\ now'[q] \in Nat
    BY <1>1, StoreAssumption DEF StampInv, TypeOK, Time
  <2>2. now'[q] \in {now[q], clock.time, 0}
    <3>1. CASE \E p \in Process :
                 (\E request \in Requests : Receive(p, request)) \/ Step(p) \/ Fault(p)
      BY <3>1, StampsTaken
    <3>2. CASE PowerLoss \/ Checkpoint \/ Tick \/ UNCHANGED vars
      BY <3>2 DEF PowerLoss, Checkpoint, Tick, vars, process
    <3> QED
      BY <3>1, <3>2 DEF Next, Quiescent
  <2> QED
    BY <1>1, <2>1, <2>2
<1> QED
  BY <1>2, <1>3, <1>4 DEF StampInv, Ordered, StampedBy, IsWrite

\* memory_server.py:264: the timestamp of a row is taken when _log is called; a write
\* has the lock by then, so that its row is not stamped before those it comes after,
\* unless the wall clock (121-123) has been set back.
THEOREM WritesInOrder == Spec => []WriteTimestampsOrdered
<1>1. Init => StampInv
  <2> SUFFICES ASSUME Init PROVE StampInv
    OBVIOUS
  <2>1. wal = <<EmptyDatabase>>
    BY DEF Init, Open
  <2>2. \A v \in DOMAIN wal : DOMAIN wal[v].events = {}
    BY <2>1 DEF EmptyDatabase
  <2>3. \A p \in Process : ~Stamping(p)
    BY DEF Init, Stamping
  <2>4. 0 <= clock.time /\ \A p \in Process : now[p] = 0
    BY DEF Init
  <2> QED
    BY <2>2, <2>3, <2>4 DEF StampInv, Ordered, StampedBy
<1>2. StampInv => WriteTimestampsOrdered
  BY DEF StampInv, Ordered, IsWrite, WriteTimestampsOrdered
<1> QED
  BY <1>1, <1>2, StampStep, InvariantHolds, PTL DEF Spec

----------------------------------------------------------------------------
(* Answers. *)

\* The labels after the transaction, where a call has left all it will leave.
Told == {"reply", "events"}

HasRow(n) == \E i \in DOMAIN LastCommitted.events : LastCommitted.events[i].call = n

\* Whether the call of p leaves a row by the time it is told.
Leaves(p) ==
  \/ Req(p).tool \in {"set", "delete", "lock_hold"}
  \/ Req(p).tool = "get" /\ p \in ReadLoggers
  \/ Req(p).tool = "search" /\ DOMAIN found[p].facts # {}

OneRowEach(events) == \A i, j \in DOMAIN events : events[i].call = events[j].call => i = j

\* A row belongs to a call that is about to be told, or was told what the row says.
RowTells(event) ==
  LET answer == calls[event.call].answer IN
  /\ answer = "error" => ReadsAfterRow(calls[event.call])
  /\ answer \in {"done", "cas_fail"} => (event.action = "cas_fail" <=> answer = "cas_fail")
  /\ \A p \in Process : pc[p] # "idle" /\ serial[p] = event.call =>
       /\ pc[p] \in Told /\ (event.action = "cas_fail" <=> cas[p].failed)
       /\ pc[p] = "events" => ReadsAfterRow(calls[event.call])

UnderWay(p) ==
  pc[p] # "idle" =>
    /\ calls[serial[p]].answer = "pending"
    /\ pc[p] \in Logging /\ Req(p).tool = "get" => p \in ReadLoggers
    /\ pc[p] \in Told /\ ~powerLost => (HasRow(serial[p]) <=> Leaves(p))

CallsTold ==
  \A n \in DOMAIN calls :
    calls[n].answer \in {"done", "cas_fail", "missing", "empty"} /\ ~powerLost =>
      (HasRow(n) <=> OwesRow(calls[n]))

AnswerInv ==
  /\ \A v \in DOMAIN wal :
       /\ OneRowEach(wal[v].events)
       /\ \A i \in DOMAIN wal[v].events : RowTells(wal[v].events[i])
  /\ \A p \in Process : UnderWay(p)
  /\ CallsTold

\* What is asked of an answer is part of it.
LEMMA AnswersTold == TypeOK /\ AnswerInv => AnswerMatchesAudit
<1> SUFFICES ASSUME TypeOK, AnswerInv PROVE AnswerMatchesAudit
  OBVIOUS
<1>1. /\ OneRowEach(LastCommitted.events)
      /\ \A i \in DOMAIN LastCommitted.events : RowTells(LastCommitted.events[i])
  BY LastCommittedType DEF AnswerInv, LastCommitted
<1>2. \A n : HasRow(n) <=> RowsOf(n) # {}
  BY DEF HasRow, RowsOf
<1> QED
  BY <1>1, <1>2 DEF AnswerInv, CallsTold, AnswerMatchesAudit, RowsOf, OneRowEach, RowTells

\* A call goes on, and once it is about to be told stays so.
GoesOn(p) ==
  /\ UNCHANGED <<calls, serial>> /\ pc[p] # "idle"
  /\ pc[p] \in Told => pc'[p] = "reply" /\ cas'[p] = cas[p]

\* A call ends, with an error only before all it has to do is to tell.
Ends(p) ==
  /\ pc[p] # "idle" /\ pc'[p] = "idle" /\ DOMAIN calls' = DOMAIN calls
  /\ \A n \in DOMAIN calls : n # serial[p] => calls'[n] = calls[n]
  /\ LET answer == calls'[serial[p]].answer IN
     \/ answer = "lost"
     \/ answer = "error" /\ pc[p] # "reply"
     \/ answer = Outcome(p) /\ pc[p] = "reply"

\* A call begins: it is not one of those that are there.
Begins(p) ==
  /\ pc[p] = "idle" /\ pc'[p] \notin Told
  /\ pc'[p] \in Logging => calls'[serial'[p]].request.tool # "get"
  /\ serial'[p] \notin DOMAIN calls /\ calls'[serial'[p]].answer = "pending"
  /\ calls'[serial'[p]].since = Len(LastCommitted.events)
  /\ \A n \in DOMAIN calls : calls'[n] = calls[n]
  /\ \A n \in DOMAIN calls' : n \in DOMAIN calls \/ n = serial'[p]

\* What a step of p is to the call of p.
LEMMA StepOfCall ==
  ASSUME IInv, NEW p \in Process,
         (\E request \in Requests : Receive(p, request)) \/ Step(p) \/ Fault(p)
  PROVE  (GoesOn(p) \/ Ends(p) \/ Begins(p)) /\ powerLost' = powerLost
<1>1. TypeOK /\ CallInv(p) /\ LockInv
  BY DEF IInv
<1>2. ASSUME NEW request \in Requests, Receive(p, request)
      PROVE  Begins(p) /\ powerLost' = powerLost
  <2> DEFINE call == [process |-> p, request |-> request, answer |-> "pending",
                      since |-> Len(LastCommitted.events)]
  <2>1. /\ pc[p] = "idle" /\ pc'[p] = Entry(p, request) /\ calls' = Append(calls, call)
        /\ serial'[p] = Len(calls) + 1 /\ powerLost' = powerLost
    BY <1>1, <1>2 DEF Receive, At, Goto, TypeOK
  <2>2. call \in Call
    BY <1>1, LastCommittedType, DatabaseParts, StoreAssumption DEF Call, Answer
  <2>3. /\ calls \in Seq(Call) /\ Len(calls) \in Nat /\ DOMAIN calls = 1..Len(calls)
        /\ calls' \in Seq(Call) /\ Len(calls') = Len(calls) + 1
        /\ \A n \in 1..Len(calls) : calls'[n] = calls[n]
        /\ calls'[Len(calls) + 1] = call /\ DOMAIN calls' = 1 .. Len(calls) + 1
    <3> HIDE DEF call
    <3> QED
      BY <1>1, <2>1, <2>2, AppendProperties, LenProperties DEF TypeOK
  <2>4. /\ calls'[serial'[p]].answer = "pending" /\ calls'[serial'[p]].request = request
        /\ calls'[serial'[p]].since = Len(LastCommitted.events)
    BY <2>1, <2>3
  <2>5. /\ Entry(p, request) \notin Told
        /\ Entry(p, request) \in Logging => request.tool # "get"
    BY DEF Entry, Logging, Told
  <2> HIDE DEF call
  <2>6. Len(calls) + 1 \notin DOMAIN calls
    BY <2>3
  <2>7. \A n \in DOMAIN calls' : n \in DOMAIN calls \/ n = serial'[p]
    BY <2>1, <2>3
  <2> QED
    BY <2>1, <2>3, <2>4, <2>5, <2>6, <2>7 DEF Begins
<1>3. ASSUME NEW answer \in Answer, pc[p] # "idle", Return(p, answer),
             \/ answer = "lost"
             \/ answer = "error" /\ pc[p] # "reply"
             \/ answer = Outcome(p) /\ pc[p] = "reply"
      PROVE  Ends(p) /\ powerLost' = powerLost
  <2>1. /\ DOMAIN calls = 1..Len(calls) /\ serial[p] \in DOMAIN calls
        /\ \A n \in DOMAIN calls : calls[n] \in Call
    BY <1>1, <1>3, LenProperties, ElementOfSeq DEF TypeOK, CallInv
  <2>2. calls' = [calls EXCEPT ![serial[p]].answer = answer] /\ pc'[p] = "idle"
    BY <1>1, <1>3 DEF Return, Goto, TypeOK
  <2>3. calls'[serial[p]].answer = answer
    BY <2>1, <2>2 DEF Call
  <2> QED
    BY <1>3, <2>1, <2>2, <2>3 DEF Ends, Return
<1>4. CASE \/ Refuse(p) \/ Reply(p) \/ Busy(p) \/ EmbedFails(p) \/ TxFails(p)
           \/ StatementFails(p) \/ Crash(p)
  <2>1. Outcome(p) \in Answer
    BY DEF Outcome, Answer
  <2>2. pc[p] # "idle" /\ \E answer \in Answer :
           /\ Return(p, answer)
           /\ \/ answer = "lost"
              \/ answer = "error" /\ pc[p] # "reply"
              \/ answer = Outcome(p) /\ pc[p] = "reply"
    BY <1>1, <1>4, <2>1 DEF Refuse, Reply, Busy, EmbedFails, TxFails, StatementFails, Crash, At, Answer,
         LockInv, Holding, Told
  <2> QED
    BY <1>3, <2>2
<1>5. CASE \/ Embed(p) \/ SetFact(p) \/ LoseCas(p) \/ ReadActual(p) \/ SetVector(p)
           \/ DeleteFact(p) \/ DeleteVector(p)
           \/ Log(p) \/ AppendBegin(p) \/ ReadTail(p) \/ InsertEvent(p) \/ CommitTx(p)
           \/ GetRow(p) \/ Events(p) \/ Select(p) \/ ScanEmpty(p) \/ ScanHit(p) \/ Query(p)
  <2>1. UNCHANGED <<calls, serial, powerLost>> /\ pc[p] # "idle"
    BY <1>5 DEF Embed, SetFact, LoseCas, ReadActual, SetVector, DeleteFact, DeleteVector,
         Log, AppendBegin, ReadTail, InsertEvent, CommitTx, GetRow, Events, Select,
         ScanEmpty, ScanHit, Query, Fetch, At
  <2>2. pc[p] \in Told => pc'[p] = "reply" /\ cas'[p] = cas[p]
    BY <1>1, <1>5 DEF Embed, SetFact, LoseCas, ReadActual, SetVector, DeleteFact, DeleteVector,
         Log, AppendBegin, ReadTail, InsertEvent, CommitTx, GetRow, Events, Select,
         ScanEmpty, ScanHit, Query, Fetch, At, Told, Goto, TypeOK
  <2> QED
    BY <2>1, <2>2 DEF GoesOn
<1> QED
  BY <1>2, <1>4, <1>5 DEF Step, Fault

\* Two processes are never in the same call.
LEMMA OwnCalls ==
  ASSUME IInv, NEW p \in Process, NEW q \in Process, p # q, pc[p] # "idle", pc[q] # "idle"
  PROVE  serial[p] # serial[q]
BY DEF IInv, CallInv

\* A row goes on telling the truth.
LEMMA RowStays ==
  ASSUME IInv, AnswerInv, [Next]_vars, NEW e, RowTells(e), e.call \in DOMAIN calls
  PROVE  RowTells(e)'
<1> DEFINE late == ReadsAfterRow(calls[e.call])
<1>0. ReadsAfterRow(calls'[e.call]) <=> late
  BY CallsStay DEF KeepsCalls, ReadsAfterRow
<1> HIDE DEF late
<1> SUFFICES /\ calls'[e.call].answer = "error" => late
             /\ calls'[e.call].answer \in {"done", "cas_fail"} =>
                  (e.action = "cas_fail" <=> calls'[e.call].answer = "cas_fail")
             /\ \A q \in Process : pc'[q] # "idle" /\ serial'[q] = e.call =>
                  /\ pc'[q] \in Told /\ (e.action = "cas_fail" <=> cas'[q].failed)
                  /\ pc'[q] = "events" => late
  BY <1>0 DEF RowTells
<1>4. RowTells(e) <=>
        /\ calls[e.call].answer = "error" => late
        /\ calls[e.call].answer \in {"done", "cas_fail"} =>
             (e.action = "cas_fail" <=> calls[e.call].answer = "cas_fail")
        /\ \A q \in Process : pc[q] # "idle" /\ serial[q] = e.call =>
             /\ pc[q] \in Told /\ (e.action = "cas_fail" <=> cas[q].failed)
             /\ pc[q] = "events" => late
  BY DEF RowTells, late
<1>5. RowTells(e)' <=>
        /\ calls'[e.call].answer = "error" => late
        /\ calls'[e.call].answer \in {"done", "cas_fail"} =>
             (e.action = "cas_fail" <=> calls'[e.call].answer = "cas_fail")
        /\ \A q \in Process : pc'[q] # "idle" /\ serial'[q] = e.call =>
             /\ pc'[q] \in Told /\ (e.action = "cas_fail" <=> cas'[q].failed)
             /\ pc'[q] = "events" => late
  BY <1>0 DEF RowTells
<1>1. ASSUME NEW p \in Process,
             (\E request \in Requests : Receive(p, request)) \/ Step(p) \/ Fault(p)
      PROVE  RowTells(e)'
  <2>1. /\ \A q \in Process : q # p => Untouched(q)
        /\ GoesOn(p) \/ Ends(p) \/ Begins(p)
        /\ CallInv(p)
    BY <1>1, OneProcessMoves, StepOfCall DEF IInv
  <2>2. CASE GoesOn(p)
    BY <1>4, <1>5, <2>1, <2>2 DEF GoesOn, Untouched, Told
  <2>3. CASE Ends(p) /\ e.call = serial[p]
    <3>1. /\ pc[p] \in Told /\ (e.action = "cas_fail" <=> cas[p].failed)
          /\ pc[p] = "events" => late
      BY <1>4, <2>3 DEF Ends
    <3>2. Outcome(p) # "error" /\ (Outcome(p) \in {"done", "cas_fail"} =>
            (e.action = "cas_fail" <=> Outcome(p) = "cas_fail"))
      BY <2>1, <2>3, <3>1 DEF Outcome, CallInv, Ends
    <3>3. /\ calls'[e.call].answer = "error" => late
          /\ calls'[e.call].answer \in {"done", "cas_fail"} =>
               (e.action = "cas_fail" <=> calls'[e.call].answer = "cas_fail")
      BY <2>3, <3>1, <3>2 DEF Ends, Told
    <3>4. \A q \in Process : pc'[q] # "idle" => serial'[q] # e.call
      BY <2>1, <2>3, OwnCalls DEF Ends, Untouched
    <3> QED
      BY <1>5, <3>3, <3>4
  <2>4. CASE Ends(p) /\ e.call # serial[p]
    BY <1>4, <1>5, <2>1, <2>4 DEF Ends, Untouched
  <2>5. CASE Begins(p)
    BY <1>4, <1>5, <2>1, <2>5 DEF Begins, Untouched
  <2> QED
    BY <2>1, <2>2, <2>3, <2>4, <2>5
<1>2. CASE PowerLoss
  <2>1. \A n \in DOMAIN calls : calls[n] \in Call
    BY ElementOfSeq, LenProperties DEF IInv, TypeOK
  <2>2. /\ \A q \in Process : pc'[q] = "idle"
        /\ calls'[e.call].answer \in {"lost", calls[e.call].answer}
    BY <1>2, <2>1 DEF PowerLoss, Call
  <2> QED
    BY <1>4, <1>5, <2>2
<1>3. CASE Checkpoint \/ Tick \/ UNCHANGED vars
  <2>1. UNCHANGED <<calls, pc, serial, cas>>
    BY <1>3 DEF Checkpoint, Tick, vars, process
  <2> QED
    BY <1>4, <1>5, <2>1
<1> QED
  BY <1>1, <1>2, <1>3, <1>5 DEF Next, Quiescent

\* The row that a call commits is its only one, and tells what the call will.
LEMMA OwnRowTells ==
  ASSUME IInv, AnswerInv, NEW p \in Process, CommitTx(p)
  PROVE  /\ OneRowEach(draft.events)
         /\ \A e : (\E i \in DOMAIN draft.events : e = draft.events[i]) => RowTells(e)'
         /\ \E i \in DOMAIN draft.events : draft.events[i].call = serial[p]
         /\ \A n : n # serial[p] =>
              ((\E i \in DOMAIN draft.events : draft.events[i].call = n) <=> HasRow(n))
<1> DEFINE old == LastCommitted.events
           row == NewEvent(p)
           n == Len(old)
<1>1. /\ draft.events = Append(old, row) /\ old \in Seq(Event) /\ row \in Event
      /\ TypeOK /\ CallInv(p) /\ pc[p] = "commit"
  BY NewRowDecides DEF CommitTx, At, IInv
<1>2. row.action = LogAction(p) /\ row.call = serial[p]
  BY <1>1, NewEventType
<1>3. /\ OneRowEach(old) /\ \A i \in DOMAIN old : RowTells(old[i]) /\ old[i].call \in DOMAIN calls
  BY <1>1, LastCommittedType DEF AnswerInv, LastCommitted, IInv, VersionInv, RowsHaveCalls
<1>4. /\ n \in Nat /\ DOMAIN old = 1..n
      /\ DOMAIN draft.events = 1 .. n + 1 /\ draft.events[n + 1] = row
      /\ \A i \in 1..n : draft.events[i] = old[i]
  <2> HIDE DEF row
  <2> QED
    BY <1>1, AppendProperties, LenProperties
<1>5. \A e : e = row => RowTells(e)'
  <2>1. /\ UNCHANGED <<calls, serial, cas>> /\ pc'[p] \in Told
        /\ \A q \in Process : q # p => pc'[q] = pc[q]
    BY <1>1 DEF CommitTx, Goto, TypeOK, AfterRead, Told
  <2>2. calls[serial[p]].answer = "pending"
    BY <1>1 DEF AnswerInv, UnderWay
  <2>3. row.action = "cas_fail" <=> cas[p].failed
    <3>1. /\ Req(p).tool \in {"set", "get", "delete", "search", "history", "list", "lock_hold"}
          /\ cas[p].failed => Req(p).tool = "set"
      BY <1>1, RequestType DEF CallInv
    <3> QED
      BY <1>2, <3>1 DEF LogAction
  <2>4. \A q \in Process : q # p /\ pc'[q] # "idle" => serial[q] # serial[p]
    BY <1>1, <2>1, OwnCalls
  <2>5. pc'[p] = "events" => ReadsAfterRow(calls'[serial[p]])
    <3>1. ASSUME pc'[p] = "events"
          PROVE  Req(p).tool = "get" /\ Req(p).events
      <4>1. CommitTx(p) /\ pc'[p] = AfterRead(p)
        BY <1>1 DEF CommitTx, Goto, TypeOK
      <4> QED
        BY <3>1, <4>1 DEF AfterRead
    <3>2. Req(p).tool = "get" => p \in ReadLoggers
      BY <1>1 DEF AnswerInv, UnderWay, Logging
    <3>3. calls[serial[p]].process = p
      BY <1>1 DEF CallInv
    <3> QED
      BY <2>1, <3>1, <3>2, <3>3 DEF ReadsAfterRow, Req
  <2> HIDE DEF row
  <2> QED
    BY <1>2, <2>1, <2>2, <2>3, <2>4, <2>5 DEF RowTells
<1>6. \A i \in DOMAIN old : old[i].call # serial[p]
  BY <1>1, <1>3 DEF RowTells, Told
<1>7. \A e : RowTells(e) /\ e.call \in DOMAIN calls => RowTells(e)'
  <2>1. [Next]_vars
    BY DEF Next, Step
  <2> QED
    BY <2>1, RowStays
<1>8. \A x : HasRow(x) <=> \E i \in DOMAIN old : old[i].call = x
  BY DEF HasRow
<1> HIDE DEF old, row, n
<1>9. \A i \in 1 .. n + 1 : i \in 1..n \/ i = n + 1
  BY <1>4
<1>10. OneRowEach(draft.events)
  BY <1>2, <1>3, <1>4, <1>6, <1>9 DEF OneRowEach
<1>11. \A e : (\E i \in DOMAIN draft.events : e = draft.events[i]) => RowTells(e)'
  BY <1>3, <1>4, <1>5, <1>7, <1>9
<1>12. \E i \in DOMAIN draft.events : draft.events[i].call = serial[p]
  BY <1>2, <1>4
<1>13. \A x : x # serial[p] =>
         ((\E i \in DOMAIN draft.events : draft.events[i].call = x) <=> HasRow(x))
  <2>1. \A i \in 1..n : i \in 1 .. n + 1
    BY <1>4
  <2> QED
    BY <1>2, <1>4, <1>8, <1>9, <2>1
<1> QED
  BY <1>10, <1>11, <1>12, <1>13

\* Only a commit gives a call a row, its own.
LEMMA RowsOfStep ==
  ASSUME IInv, AnswerInv, NEW p \in Process,
         (\E request \in Requests : Receive(p, request)) \/ Step(p) \/ Fault(p)
  PROVE  /\ \A n : n # serial[p] => (HasRow(n)' <=> HasRow(n))
         /\ CommitTx(p) => HasRow(serial[p])'
         /\ ~CommitTx(p) => \A n : HasRow(n)' <=> HasRow(n)
<1>1. CASE CommitTx(p)
  <2>1. LastCommitted' = draft /\ serial' = serial
    BY <1>1, CommitKeepsTypes DEF CommitTx, IInv
  <2> QED
    BY <1>1, <2>1, OwnRowTells DEF HasRow
<1>2. CASE ~CommitTx(p)
  <2>1. LastCommitted' = LastCommitted
    BY <1>2, OnlyCommitAppends DEF LastCommitted
  <2> QED
    BY <1>2, <2>1 DEF HasRow
<1> QED
  BY <1>1, <1>2

\* A call under way has no row before its commit.
LEMMA NoRowYet ==
  ASSUME TypeOK, AnswerInv, NEW p \in Process, pc[p] \notin {"idle"} \union Told
  PROVE  ~HasRow(serial[p])
BY LastCommittedType DEF AnswerInv, LastCommitted, HasRow, RowTells

\* By the time a call is told it has left the row it owes.
LEMMA MoverUnderWay ==
  ASSUME IInv, AnswerInv, NEW p \in Process,
         (\E request \in Requests : Receive(p, request)) \/ Step(p) \/ Fault(p)
  PROVE  UnderWay(p)'
<1>1. /\ TypeOK /\ CallInv(p) /\ UnderWay(p) /\ powerLost' = powerLost
      /\ GoesOn(p) \/ Ends(p) \/ Begins(p)
  BY StepOfCall DEF IInv, AnswerInv
<1>2. CASE Ends(p)
  BY <1>2 DEF Ends, UnderWay
<1>3. CASE Begins(p)
  BY <1>3 DEF Begins, UnderWay, Req
<1>4. CASE GoesOn(p)
  <2>1. /\ pc[p] # "idle" /\ calls[serial[p]].answer = "pending"
        /\ Req(p)' = Req(p) /\ serial' = serial /\ calls' = calls
    BY <1>1, <1>4 DEF GoesOn, UnderWay, Req
  <2>2. CASE CommitTx(p)
    <3>1. pc[p] = "commit" /\ pc'[p] \in Told /\ found' = found
      BY <1>1, <2>2 DEF CommitTx, At, Goto, AfterRead, Told, TypeOK
    <3>2. Leaves(p)'
      <4>1. Leaves(p)
        BY <1>1, <3>1, RequestType DEF CallInv, OnItsPath, Logging, UnderWay, Leaves
      <4> QED
        BY <2>1, <3>1, <4>1 DEF Leaves
    <3>3. HasRow(serial[p])'
      BY <2>2, RowsOfStep
    <3> QED
      BY <2>1, <3>1, <3>2, <3>3 DEF UnderWay, Logging, Told
  <2>3. CASE GetRow(p) \/ Select(p) \/ ScanEmpty(p)
    <3>1. /\ pc[p] \in {"row", "select", "scan"} /\ ~CommitTx(p)
          /\ pc'[p] \in Logging => p \in ReadLoggers
          /\ pc'[p] \in Told /\ pc[p] = "row" => p \notin ReadLoggers
          /\ pc[p] = "scan" => DOMAIN found'[p].facts = {}
      BY <1>1, <2>3 DEF GetRow, Select, ScanEmpty, Fetch, Rows, At, Goto, TypeOK, CommitTx,
           Logging, Told
    <3>2. pc'[p] \in Told => ~Leaves(p)'
      BY <1>1, <2>1, <3>1 DEF Leaves, CallInv, OnItsPath
    <3>3. ~HasRow(serial[p])'
      BY <1>1, <2>1, <3>1, NoRowYet, RowsOfStep DEF Told
    <3> QED
      BY <2>1, <3>1, <3>2, <3>3 DEF UnderWay
  <2>4. CASE Events(p)
    <3>1. /\ pc[p] = "events" /\ pc'[p] = "reply" /\ ~CommitTx(p)
          /\ Req(p).tool = "get"
      BY <1>1, <2>4 DEF Events, At, Goto, TypeOK, CommitTx, CallInv, OnItsPath
    <3>2. HasRow(serial[p])' <=> HasRow(serial[p])
      BY <2>1, <3>1, RowsOfStep
    <3>3. Leaves(p)' <=> Leaves(p)
      BY <2>1, <3>1 DEF Leaves
    <3> QED
      BY <1>1, <2>1, <3>1, <3>2, <3>3 DEF UnderWay, Told, Logging
  <2>5. CASE \/ Embed(p) \/ SetFact(p) \/ LoseCas(p) \/ ReadActual(p) \/ SetVector(p)
             \/ DeleteFact(p) \/ DeleteVector(p)
             \/ Log(p) \/ AppendBegin(p) \/ ReadTail(p) \/ InsertEvent(p)
             \/ ScanHit(p) \/ Query(p)
    <3>1. /\ pc'[p] \notin Told
          /\ pc'[p] \in Logging => pc[p] \in Logging \/ Req(p).tool # "get"
      BY <1>1, <2>5 DEF Embed, SetFact, LoseCas, ReadActual, SetVector, DeleteFact, DeleteVector,
           Log, AppendBegin, ReadTail, InsertEvent, ScanHit, Query, Fetch, At, Goto, TypeOK,
           Told, Logging, CallInv, OnItsPath
    <3> QED
      BY <1>1, <2>1, <3>1 DEF UnderWay
  <2>6. CASE \/ Refuse(p) \/ Reply(p) \/ Busy(p) \/ EmbedFails(p) \/ TxFails(p)
             \/ StatementFails(p) \/ Crash(p)
    <3>1. pc'[p] = "idle"
      BY <1>1, <2>6 DEF Refuse, Reply, Busy, EmbedFails, TxFails, StatementFails, Crash, Return, Goto, TypeOK
    <3> QED
      BY <3>1 DEF UnderWay
  <2>7. ~\E request \in Requests : Receive(p, request)
    BY <2>1 DEF Receive, At
  <2> QED
    BY <2>2, <2>3, <2>4, <2>5, <2>6, <2>7 DEF Step, Fault
<1> QED
  BY <1>1, <1>2, <1>3, <1>4

\* A step of one process keeps the others under way.
LEMMA UnderWayStays ==
  ASSUME IInv, AnswerInv, NEW p \in Process, NEW q \in Process, q # p,
         (\E request \in Requests : Receive(p, request)) \/ Step(p) \/ Fault(p)
  PROVE  UnderWay(q)'
<1>1. /\ Untouched(q) /\ UnderWay(q) /\ CallInv(q) /\ powerLost' = powerLost
      /\ GoesOn(p) \/ Ends(p) \/ Begins(p)
  BY OneProcessMoves, StepOfCall DEF IInv, AnswerInv
<1>2. SUFFICES ASSUME pc[q] # "idle" PROVE UnderWay(q)'
  BY <1>1 DEF UnderWay, Untouched
<1>3. /\ serial[q] \in DOMAIN calls
      /\ pc[p] # "idle" => serial[q] # serial[p]
      /\ CommitTx(p) => pc[p] # "idle"
  BY <1>2, OwnCalls DEF IInv, CallInv, CommitTx, At
<1>4. calls'[serial[q]] = calls[serial[q]] /\ serial'[q] = serial[q]
  BY <1>1, <1>3 DEF GoesOn, Ends, Begins, Untouched
<1>5. Req(q)' = Req(q)
  BY <1>4 DEF Req
<1>6. Leaves(q)' <=> Leaves(q)
  BY <1>1, <1>5 DEF Leaves, Untouched
<1>7. HasRow(serial[q])' <=> HasRow(serial[q])
  BY <1>3, <1>4, RowsOfStep
<1> QED
  BY <1>1, <1>4, <1>5, <1>6, <1>7 DEF UnderWay, Untouched

\* A call that has been told is left alone, and one that is told now is told the truth.
LEMMA ToldStep ==
  ASSUME IInv, AnswerInv, NEW p \in Process,
         (\E request \in Requests : Receive(p, request)) \/ Step(p) \/ Fault(p)
  PROVE  CallsTold'
<1>1. /\ TypeOK /\ CallInv(p) /\ UnderWay(p) /\ CallsTold /\ powerLost' = powerLost /\ KeepsCalls
      /\ GoesOn(p) \/ Ends(p) \/ Begins(p)
  BY OneProcessMoves, StepOfCall DEF IInv, AnswerInv
<1> SUFFICES ASSUME NEW n \in DOMAIN calls', ~powerLost,
                    calls'[n].answer \in {"done", "cas_fail", "missing", "empty"}
             PROVE  HasRow(n)' <=> OwesRow(calls'[n])
  BY <1>1 DEF CallsTold, OwesRow
<1>2. CASE n \in DOMAIN calls /\ calls'[n] = calls[n] /\ (n # serial[p] \/ ~CommitTx(p))
  BY <1>1, <1>2, RowsOfStep DEF CallsTold
<1>3. CASE GoesOn(p)
  <2>1. calls' = calls
    BY <1>3 DEF GoesOn
  <2>2. CommitTx(p) => n # serial[p]
    BY <1>1, <1>3, <2>1 DEF UnderWay, GoesOn
  <2> QED
    BY <1>2, <2>1, <2>2
<1>4. CASE Begins(p)
  BY <1>2, <1>4 DEF Begins, CommitTx, At
<1>5. CASE Ends(p) /\ n # serial[p]
  BY <1>2, <1>5 DEF Ends
<1>6. CASE Ends(p) /\ n = serial[p]
  <2>1. /\ calls'[n].answer = Outcome(p) /\ pc[p] = "reply" /\ n \in DOMAIN calls
        /\ calls'[n].request = Req(p) /\ calls'[n].process = p
    BY <1>1, <1>6 DEF Ends, KeepsCalls, CallInv, Req
  <2>2. HasRow(n) <=> Leaves(p)
    BY <1>1, <1>6, <2>1 DEF UnderWay, Told
  <2>3. ~CommitTx(p)
    BY <2>1 DEF CommitTx, At
  <2>4. HasRow(n)' <=> HasRow(n)
    BY <2>3, RowsOfStep
  <2>5. OwesRow(calls'[n]) <=> Leaves(p)
    BY <2>1 DEF OwesRow, Leaves, Outcome
  <2> QED
    BY <2>2, <2>4, <2>5
<1> QED
  BY <1>1, <1>3, <1>4, <1>5, <1>6

\* Every step keeps the answers and the rows in agreement.
LEMMA AnswerStep == IInv /\ AnswerInv /\ [Next]_vars => AnswerInv'
<1> SUFFICES ASSUME IInv, AnswerInv, [Next]_vars PROVE AnswerInv'
  OBVIOUS
<1>1. ASSUME NEW v \in DOMAIN wal'
      PROVE  /\ OneRowEach(wal'[v].events)
             /\ \A e : (\E i \in DOMAIN wal'[v].events : e = wal'[v].events[i]) => RowTells(e)'
  <2>1. CASE \E w \in DOMAIN wal : wal'[v] = wal[w]
    <3>1. PICK w \in DOMAIN wal : wal'[v] = wal[w]
      BY <2>1
    <3>2. /\ OneRowEach(wal[w].events)
          /\ \A i \in DOMAIN wal[w].events :
               RowTells(wal[w].events[i]) /\ wal[w].events[i].call \in DOMAIN calls
      BY DEF AnswerInv, IInv, VersionInv, RowsHaveCalls
    <3>3. \A e : RowTells(e) /\ e.call \in DOMAIN calls => RowTells(e)'
      BY RowStays
    <3> QED
      BY <3>1, <3>2, <3>3
  <2>2. CASE \E p \in Process : CommitTx(p) /\ wal'[v] = draft
    BY <2>2, OwnRowTells
  <2> QED
    BY <1>1, <2>1, <2>2, VersionsOfStep
<1>2. \A v \in DOMAIN wal' :
        /\ OneRowEach(wal'[v].events)
        /\ \A i \in DOMAIN wal'[v].events : RowTells(wal[v].events[i])'
  BY <1>1 DEF RowTells
<1>3. ASSUME NEW p \in Process,
             (\E request \in Requests : Receive(p, request)) \/ Step(p) \/ Fault(p)
      PROVE  (\A q \in Process : UnderWay(q)') /\ CallsTold'
  BY <1>3, MoverUnderWay, UnderWayStays, ToldStep
<1>4. ASSUME PowerLoss PROVE (\A q \in Process : UnderWay(q)') /\ CallsTold'
  <2>1. powerLost' = TRUE /\ \A q \in Process : pc'[q] = "idle"
    BY <1>4 DEF PowerLoss
  <2> QED
    BY <2>1 DEF UnderWay, CallsTold
<1>5. ASSUME Checkpoint \/ Tick \/ UNCHANGED vars
      PROVE  (\A q \in Process : UnderWay(q)') /\ CallsTold'
  <2>1. UNCHANGED <<calls, pc, serial, cas, found, powerLost>>
    BY <1>5 DEF Checkpoint, Tick, vars, process
  <2>2. LastCommitted' = LastCommitted
    <3>1. CASE Checkpoint
      BY <3>1, SyncKeepsTypes DEF Checkpoint, IInv
    <3>2. CASE Tick \/ UNCHANGED vars
      BY <3>2 DEF Tick, vars, sqlite, LastCommitted
    <3> QED
      BY <1>5, <3>1, <3>2
  <2>3. \A n : HasRow(n)' <=> HasRow(n)
    BY <2>2 DEF HasRow
  <2>4. ASSUME NEW q \in Process PROVE UnderWay(q)'
    <3>1. (Leaves(q)' <=> Leaves(q)) /\ Req(q)' = Req(q)
      BY <2>1 DEF Leaves, Req
    <3>2. HasRow(serial[q])' <=> HasRow(serial[q])
      BY <2>1, <2>2 DEF HasRow
    <3> QED
      BY <2>1, <3>1, <3>2 DEF AnswerInv, UnderWay
  <2>5. CallsTold'
    BY <2>1, <2>3 DEF AnswerInv, CallsTold, OwesRow
  <2> QED
    BY <2>4, <2>5
<1>6. (\A q \in Process : UnderWay(q)') /\ CallsTold'
  BY <1>3, <1>4, <1>5 DEF Next, Quiescent
<1> QED
  BY <1>2, <1>6 DEF AnswerInv, OneRowEach

\* memory_server.py:335, 431, 496, 534, 554 (`with db`) and 388: a call leaves at most one row; an
\* error left none, but for a get whose history could not be read (439) once its row
\* was committed; and a result left the row that the tool owes, of what it tells.
THEOREM AnswersAreAudited == Spec => []AnswerMatchesAudit
<1>1. Init => AnswerInv
  <2> SUFFICES ASSUME Init PROVE AnswerInv
    OBVIOUS
  <2>1. wal = <<EmptyDatabase>> /\ calls = <<>> /\ \A p \in Process : pc[p] = "idle"
    BY DEF Init, Open
  <2>2. (\A v \in DOMAIN wal : DOMAIN wal[v].events = {}) /\ DOMAIN calls = {}
    BY <2>1 DEF EmptyDatabase
  <2> QED
    BY <2>1, <2>2 DEF AnswerInv, OneRowEach, UnderWay, CallsTold
<1>2. IInv /\ AnswerInv => AnswerMatchesAudit
  BY AnswersTold DEF IInv
<1> QED
  BY <1>1, <1>2, AnswerStep, InvariantHolds, PTL DEF Spec

----------------------------------------------------------------------------
(* Reads. *)

\* What p has found was the committed state at one moment since its call came in, and
\* not after the end of the history it has seen.
Current(p) ==
  /\ pc[p] = "idle" => found[p] = Nothing
  /\ pc[p] # "idle" =>
       /\ calls[serial[p]].since <= Len(LastCommitted.events)
       /\ DOMAIN found[p].facts # {} =>
            \E n \in calls[serial[p]].since .. Len(LastCommitted.events) :
              /\ n <= found[p].upTo
              /\ \A k \in DOMAIN found[p].facts :
                   AuditShows(LastCommitted.events, n, k, found[p].facts[k])

ReadInv == \A p \in Process : Current(p)

\* A step of a process leaves the trail, or adds to it.
LEMMA TrailGrows ==
  ASSUME IInv, NEW p \in Process,
         (\E request \in Requests : Receive(p, request)) \/ Step(p) \/ Fault(p)
  PROVE  /\ Len(LastCommitted.events) \in Nat /\ Len(LastCommitted'.events) \in Nat
         /\ Len(LastCommitted.events) <= Len(LastCommitted'.events)
         /\ \A n \in 0 .. Len(LastCommitted.events) : \A k, fact :
              AuditShows(LastCommitted.events, n, k, fact) =>
                AuditShows(LastCommitted'.events, n, k, fact)
<1> DEFINE old == LastCommitted.events
           new == LastCommitted'.events
<1>1. TypeOK /\ old \in Seq(Event) /\ Len(old) \in Nat
  BY LastCommittedType, DatabaseParts DEF IInv
<1>2. CASE CommitTx(p)
  <2>1. new = Append(old, NewEvent(p)) /\ NewEvent(p) \in Event
    <3>1. LastCommitted' = draft
      BY <1>1, <1>2, CommitKeepsTypes DEF CommitTx
    <3> QED
      BY <1>2, <3>1, NewRowDecides
  <2> HIDE DEF old, new
  <2>2. /\ Len(new) = Len(old) + 1 /\ \A i \in 1..Len(old) : new[i] = old[i]
    BY <1>1, <2>1, AppendProperties
  <2>3. ASSUME NEW n \in 0..Len(old), NEW k, NEW fact, AuditShows(old, n, k, fact)
        PROVE  AuditShows(new, n, k, fact)
    <3>1. \A i \in 1..n : new[i] = old[i]
      BY <1>1, <2>2
    <3>2. \A i \in 1..n : LastWrite(new, n, k, i) <=> LastWrite(old, n, k, i)
      <4> SUFFICES ASSUME NEW i \in 1..n PROVE LastWrite(new, n, k, i) <=> LastWrite(old, n, k, i)
        OBVIOUS
      <4>1. \A x \in 1..n : Writes(new[x], k) <=> Writes(old[x], k)
        BY <3>1
      <4>2. \A x \in i + 1 .. n : x \in 1..n
        BY <1>1
      <4> QED
        BY <4>1, <4>2 DEF LastWrite
    <3> QED
      BY <2>3, <3>1, <3>2 DEF AuditShows
  <2> QED
    BY <1>1, <2>2, <2>3 DEF old, new
<1>3. CASE ~CommitTx(p)
  <2>1. LastCommitted' = LastCommitted
    BY <1>3, OnlyCommitAppends DEF LastCommitted
  <2> QED
    BY <1>1, <2>1
<1> QED
  BY <1>2, <1>3

\* What was found stays what stood there.
LEMMA CurrentStays ==
  ASSUME IInv, NEW p \in Process, NEW q \in Process, Current(q),
         (\E request \in Requests : Receive(p, request)) \/ Step(p) \/ Fault(p),
         pc[q] # "idle", pc'[q] # "idle", serial'[q] = serial[q],
         calls'[serial[q]] = calls[serial[q]],
         found'[q].facts = found[q].facts,
         found'[q].upTo = found[q].upTo \/ found'[q].upTo >= Len(LastCommitted.events)
  PROVE  Current(q)'
<1> DEFINE since == calls[serial[q]].since
<1>1. since \in Nat /\ found[q].upTo \in Nat
  <2>1. serial[q] \in DOMAIN calls /\ \A n \in DOMAIN calls : calls[n] \in Call
    BY LenProperties, ElementOfSeq DEF IInv, CallInv, TypeOK
  <2> QED
    BY <2>1 DEF IInv, TypeOK, Call, Found
<1>2. /\ Len(LastCommitted.events) \in Nat /\ Len(LastCommitted'.events) \in Nat
      /\ Len(LastCommitted.events) <= Len(LastCommitted'.events)
  BY TrailGrows
<1>3. since <= Len(LastCommitted'.events) /\ calls'[serial'[q]].since = since
  BY <1>1, <1>2 DEF Current
<1>4. ASSUME DOMAIN found[q].facts # {}
      PROVE  \E n \in since .. Len(LastCommitted'.events) :
               /\ n <= found'[q].upTo
               /\ \A k \in DOMAIN found[q].facts :
                    AuditShows(LastCommitted'.events, n, k, found[q].facts[k])
  <2>1. PICK n \in since .. Len(LastCommitted.events) :
          /\ n <= found[q].upTo
          /\ \A k \in DOMAIN found[q].facts :
               AuditShows(LastCommitted.events, n, k, found[q].facts[k])
    BY <1>4 DEF Current
  <2>2. n \in 0 .. Len(LastCommitted.events) /\ n \in since .. Len(LastCommitted'.events)
    BY <1>1, <1>2
  <2>3. n <= found'[q].upTo
    <3>1. CASE found'[q].upTo = found[q].upTo
      BY <2>1, <3>1
    <3>2. CASE found'[q].upTo >= Len(LastCommitted.events)
      <4>1. found'[q].upTo \in Nat
        BY TypeStep DEF Next, TypeOK, Found
      <4> QED
        BY <1>1, <1>2, <2>2, <3>2, <4>1
    <3> QED
      BY <3>1, <3>2
  <2>4. \A k \in DOMAIN found[q].facts :
          AuditShows(LastCommitted'.events, n, k, found[q].facts[k])
    BY <2>1, <2>2, TrailGrows
  <2> QED
    BY <2>2, <2>3, <2>4
<1> QED
  BY <1>3, <1>4 DEF Current

\* What a statement fetches outside a transaction is the last committed state.
LEMMA FetchIsCurrent ==
  ASSUME IInv, NEW p \in Process, Current(p), NEW ks \in SUBSET Key, pc[p] # "idle",
         ~InTransaction(p), NEW next, next # "idle", Fetch(p, ks, next)
  PROVE  Current(p)'
<1> DEFINE n == Len(LastCommitted.events)
<1>1. /\ TypeOK /\ found'[p] = Rows(p, ks) /\ LastCommitted' = LastCommitted /\ pc'[p] = next
      /\ serial' = serial /\ calls' = calls
  BY DEF IInv, Fetch, Goto, TypeOK, sqlite, LastCommitted
<1>2. Rows(p, ks) = [facts |-> [k \in ks |-> LastCommitted.facts[k]], upTo |-> n]
  BY DEF Rows, View
<1>3. /\ n \in Nat /\ FactsShown(LastCommitted)
      /\ calls[serial[p]].since <= n /\ calls[serial[p]].since \in Nat
  <2>1. serial[p] \in DOMAIN calls /\ \A m \in DOMAIN calls : calls[m] \in Call
    BY LenProperties, ElementOfSeq DEF IInv, CallInv, TypeOK
  <2> QED
    BY <1>1, <2>1, LastCommittedType, DatabaseParts
       DEF Current, Call, IInv, VersionInv, LastCommitted
<1>4. \A k \in ks : AuditShows(LastCommitted.events, n, k, LastCommitted.facts[k])
  BY <1>3 DEF FactsShown
<1>5. /\ found'[p].facts = [k \in ks |-> LastCommitted.facts[k]] /\ found'[p].upTo = n
      /\ n \in calls[serial[p]].since .. n /\ n <= n
  BY <1>1, <1>2, <1>3
<1> QED
  BY <1>1, <1>3, <1>4, <1>5 DEF Current

\* A step of p keeps current what p has found.
LEMMA MoverReads ==
  ASSUME IInv, ReadInv, NEW p \in Process,
         (\E request \in Requests : Receive(p, request)) \/ Step(p) \/ Fault(p)
  PROVE  Current(p)'
<1>1. /\ TypeOK /\ LockInv /\ Current(p)
      /\ GoesOn(p) \/ Ends(p) \/ Begins(p)
  BY StepOfCall DEF IInv, ReadInv
<1>2. CASE Ends(p)
  <2>1. found'[p] = Nothing
    <3>1. \/ Refuse(p) \/ Reply(p) \/ Busy(p) \/ EmbedFails(p) \/ TxFails(p)
          \/ StatementFails(p) \/ Crash(p)
      <4>1. ~\E request \in Requests : Receive(p, request)
        BY <1>2 DEF Ends, Receive, At
      <4>2. ~(\/ Embed(p) \/ SetFact(p) \/ LoseCas(p) \/ ReadActual(p) \/ SetVector(p)
              \/ DeleteFact(p) \/ DeleteVector(p)
              \/ Log(p) \/ AppendBegin(p) \/ ReadTail(p) \/ InsertEvent(p) \/ CommitTx(p)
              \/ GetRow(p) \/ Events(p) \/ Select(p) \/ ScanEmpty(p) \/ ScanHit(p) \/ Query(p))
        BY <1>1, <1>2 DEF Ends, Embed, SetFact, LoseCas, ReadActual, SetVector, DeleteFact,
             DeleteVector, Log, AppendBegin, ReadTail, InsertEvent, CommitTx, AfterRead, GetRow,
             Events, Select, ScanEmpty, ScanHit, Query, Fetch, Goto, TypeOK
      <4> QED
        BY <4>1, <4>2 DEF Step, Fault
    <3> QED
      BY <1>1, <3>1 DEF Refuse, Reply, Busy, EmbedFails, TxFails, StatementFails, Crash, Return, TypeOK
  <2> QED
    BY <1>2, <2>1 DEF Ends, Current
<1>3. CASE Begins(p)
  <2>1. PICK request \in Requests : Receive(p, request)
    BY <1>3 DEF Begins, Step, Fault, Refuse, Reply, Busy, Embed, SetFact, LoseCas, ReadActual,
         SetVector, DeleteFact, DeleteVector, Log, AppendBegin, ReadTail, InsertEvent, CommitTx,
         GetRow, Events, Select, ScanEmpty, ScanHit, Query, EmbedFails, TxFails, StatementFails, Crash, At,
         LockInv, Holding, IInv
  <2>2. /\ found'[p] = Nothing /\ LastCommitted' = LastCommitted /\ pc'[p] # "idle"
    BY <1>1, <1>3, <2>1 DEF Receive, Begins, Current, sqlite, LastCommitted, Goto, Entry, TypeOK
  <2>3. DOMAIN found'[p].facts = {}
    BY <2>2 DEF Nothing, NoRows
  <2>4. Len(LastCommitted.events) <= Len(LastCommitted.events)
    BY <1>1, LastCommittedType, DatabaseParts
  <2> QED
    BY <1>3, <2>2, <2>3, <2>4 DEF Begins, Current
<1>4. CASE GoesOn(p)
  <2>1. pc[p] # "idle" /\ serial' = serial /\ calls' = calls
    BY <1>4 DEF GoesOn
  <2>2. CASE GetRow(p) \/ Select(p) \/ ScanEmpty(p) \/ ScanHit(p)
    <3>1. ~InTransaction(p)
      BY <1>1, <2>2 DEF LockInv, Holding, GetRow, Select, ScanEmpty, ScanHit, At
    <3>2. \E ks \in SUBSET Key : \E next : next # "idle" /\ Fetch(p, ks, next)
      <4>1. CASE GetRow(p)
        <5>1. Req(p).key \in Key
          BY <1>1, <2>1, <4>1, RequestType DEF GetRow, At, CallInv, Refused, OnItsPath, IInv
        <5> QED
          BY <4>1, <5>1 DEF GetRow
      <4>2. CASE Select(p) \/ ScanEmpty(p) \/ ScanHit(p)
        BY <4>2 DEF Select, ScanEmpty, ScanHit, Searchable
      <4> QED
        BY <2>2, <4>1, <4>2
    <3> QED
      BY <1>1, <2>1, <3>1, <3>2, FetchIsCurrent
  <2>3. CASE Events(p)
    <3>1. ~InTransaction(p)
      BY <1>1, <2>3 DEF LockInv, Holding, Events, At
    <3>2. /\ found'[p].facts = found[p].facts /\ found'[p].upTo = Len(LastCommitted.events)
          /\ pc'[p] # "idle"
      BY <1>1, <2>3, <3>1 DEF Events, View, Goto, TypeOK, Found
    <3>3. Len(LastCommitted.events) >= Len(LastCommitted.events)
      BY <1>1, LastCommittedType, DatabaseParts
    <3> QED
      BY <1>1, <2>1, <3>2, <3>3, CurrentStays
  <2>4. CASE \/ Embed(p) \/ SetFact(p) \/ LoseCas(p) \/ ReadActual(p) \/ SetVector(p)
             \/ DeleteFact(p) \/ DeleteVector(p)
             \/ Log(p) \/ AppendBegin(p) \/ ReadTail(p) \/ InsertEvent(p) \/ CommitTx(p)
             \/ Query(p)
    <3>1. found' = found /\ pc'[p] # "idle"
      BY <1>1, <2>4 DEF Embed, SetFact, LoseCas, ReadActual, SetVector, DeleteFact, DeleteVector,
           Log, AppendBegin, ReadTail, InsertEvent, CommitTx, AfterRead, Query, Goto, TypeOK
    <3> QED
      BY <1>1, <2>1, <3>1, CurrentStays
  <2>5. CASE \/ Refuse(p) \/ Reply(p) \/ Busy(p) \/ EmbedFails(p) \/ TxFails(p)
             \/ StatementFails(p) \/ Crash(p)
    <3>1. pc'[p] = "idle" /\ found'[p] = Nothing
      BY <1>1, <2>5 DEF Refuse, Reply, Busy, EmbedFails, TxFails, StatementFails, Crash, Return, Goto, TypeOK
    <3> QED
      BY <3>1 DEF Current
  <2>6. ~\E request \in Requests : Receive(p, request)
    BY <2>1 DEF Receive, At
  <2> QED
    BY <2>2, <2>3, <2>4, <2>5, <2>6 DEF Step, Fault
<1> QED
  BY <1>1, <1>2, <1>3, <1>4

\* Every step keeps reads current.
LEMMA ReadStep == IInv /\ ReadInv /\ [Next]_vars => ReadInv'
<1> SUFFICES ASSUME IInv, ReadInv, [Next]_vars, NEW q \in Process PROVE Current(q)'
  BY DEF ReadInv
<1>1. Current(q) /\ CallInv(q)
  BY DEF ReadInv, IInv
<1>2. ASSUME NEW p \in Process,
             (\E request \in Requests : Receive(p, request)) \/ Step(p) \/ Fault(p)
      PROVE  Current(q)'
  <2>1. CASE q = p
    BY <1>2, <2>1, MoverReads
  <2>2. CASE q # p
    <3>1. Untouched(q) /\ (GoesOn(p) \/ Ends(p) \/ Begins(p))
      BY <1>2, <2>2, OneProcessMoves, StepOfCall
    <3>2. CASE pc[q] = "idle"
      BY <1>1, <3>1, <3>2 DEF Untouched, Current
    <3>3. CASE pc[q] # "idle"
      <4>1. serial[q] \in DOMAIN calls /\ calls'[serial[q]] = calls[serial[q]]
        BY <1>1, <2>2, <3>1, <3>3, OwnCalls DEF CallInv, GoesOn, Ends, Begins
      <4> QED
        BY <1>1, <1>2, <3>1, <3>3, <4>1, CurrentStays DEF Untouched
    <3> QED
      BY <3>2, <3>3
  <2> QED
    BY <2>1, <2>2
<1>3. CASE PowerLoss
  BY <1>3 DEF PowerLoss, Current
<1>4. CASE Checkpoint \/ Tick \/ UNCHANGED vars
  <2>1. UNCHANGED <<calls, pc, serial, found>>
    BY <1>4 DEF Checkpoint, Tick, vars, process
  <2>2. LastCommitted' = LastCommitted
    <3>1. CASE Checkpoint
      BY <3>1, SyncKeepsTypes DEF Checkpoint, IInv
    <3>2. CASE Tick \/ UNCHANGED vars
      BY <3>2 DEF Tick, vars, sqlite, LastCommitted
    <3> QED
      BY <1>4, <3>1, <3>2
  <2> QED
    BY <1>1, <2>1, <2>2 DEF Current
<1> QED
  BY <1>2, <1>3, <1>4 DEF Next, Quiescent

\* memory_server.py:421-449, 452-465, 471-490: what a read returns stood in the store at one moment
\* between the arrival of its call and the end of the history it has seen.
THEOREM ReadsStood == Spec => []ReadsAreCurrent
<1>1. Init => ReadInv
  BY DEF Init, ReadInv, Current
<1>2. IInv /\ ReadInv => ReadsAreCurrent
  <2> SUFFICES ASSUME IInv, ReadInv, NEW p \in Process, DOMAIN found[p].facts # {}
               PROVE  \E n \in calls[serial[p]].since .. found[p].upTo :
                        \A k \in DOMAIN found[p].facts :
                          AuditShows(LastCommitted.events, n, k, found[p].facts[k])
    BY DEF ReadsAreCurrent
  <2>1. pc[p] # "idle"
    BY DEF ReadInv, Current, Nothing, NoRows
  <2>2. PICK n \in calls[serial[p]].since .. Len(LastCommitted.events) :
          /\ n <= found[p].upTo
          /\ \A k \in DOMAIN found[p].facts :
               AuditShows(LastCommitted.events, n, k, found[p].facts[k])
    BY <2>1 DEF ReadInv, Current
  <2>3. n \in calls[serial[p]].since .. found[p].upTo
    BY <2>2
  <2> QED
    BY <2>2, <2>3
<1> QED
  BY <1>1, <1>2, ReadStep, InvariantHolds, PTL DEF Spec

----------------------------------------------------------------------------
(* Vectors. *)

Mirrors(fact, vector) ==
  IF Embedders = Process
    THEN vector = IF fact = None THEN None ELSE fact.value
    ELSE fact = None => vector = None

Mirrored(database, ks) == \A k \in ks : Mirrors(database.facts[k], database.vectors[k])

\* Between its two statements a write has changed the fact of its key and not
\* the vector; at no other time is the draft out of step.
DraftMirrors(p) ==
  Mirrored(draft, IF pc[p] = "vector" THEN Key \ {Req(p).key} ELSE Key)

MirrorInv ==
  /\ \A v \in DOMAIN wal : Mirrored(wal[v], Key)
  /\ \A p \in Process : InTransaction(p) => DraftMirrors(p)

\* The first statement starts from the last committed version.
LEMMA FirstStatementMirrors ==
  ASSUME IInv, MirrorInv, NEW p \in Process, SetFact(p) \/ LoseCas(p) \/ DeleteFact(p)
  PROVE  DraftMirrors(p)'
<1> DEFINE k == Req(p).key
<1>1. /\ TypeOK /\ CallInv(p) /\ pc[p] = "stmt" /\ UNCHANGED <<serial, calls>>
  BY DEF IInv, SetFact, LoseCas, DeleteFact, At
<1>2. View(p) = LastCommitted
  BY <1>1 DEF View, IInv, LockInv, Holding
<1>3. /\ LastCommitted \in Database /\ Mirrored(LastCommitted, Key)
      /\ LastCommitted.facts \in [Key -> Fact \union {None}]
  BY <1>1, LastCommittedType, DatabaseParts DEF MirrorInv, LastCommitted
<1>4. Req(p)' = Req(p)
  BY <1>1 DEF Req
<1>5. CASE SetFact(p)
  <2> DEFINE fact == [value |-> Req(p).value, source |-> ClientId(p), updated |-> now[p]]
  <2>1. /\ draft' = PutFact(LastCommitted, k, fact)
        /\ pc'[p] = IF p \in Embedders THEN "vector" ELSE "log"
    BY <1>1, <1>2, <1>5 DEF SetFact, Write, Goto, TypeOK
  <2>2. /\ draft'.facts = [LastCommitted.facts EXCEPT ![k] = fact]
        /\ draft'.vectors = LastCommitted.vectors
    BY <1>3, <2>1 DEF PutFact, Database
  <2>3. fact # None
    <3>1. k \in Key /\ Req(p).value \in Value
      BY <1>1, <1>5, RequestType DEF CallInv, Refused, SetFact
    <3>2. fact \in Fact
      BY <1>1, <3>1, RequestType DEF Fact, TypeOK
    <3> QED
      BY <3>2, StoreAssumption DEF Fact
  <2> HIDE DEF fact, k
  <2>4. \A x \in Key \ {k} : draft'.facts[x] = LastCommitted.facts[x]
    BY <1>3, <2>2
  <2>5. CASE p \in Embedders
    BY <1>3, <1>4, <2>1, <2>2, <2>4, <2>5 DEF DraftMirrors, Mirrored, k
  <2>6. CASE p \notin Embedders
    <3>1. Embedders # Process /\ pc'[p] = "log"
      BY <2>1, <2>6
    <3>2. \A x \in Key : x = k => draft'.facts[x] # None
      BY <1>3, <2>2, <2>3
    <3>3. \A x \in Key : draft'.facts[x] = None => draft'.vectors[x] = None
      BY <1>3, <2>2, <2>4, <3>1, <3>2 DEF Mirrored, Mirrors
    <3> QED
      BY <3>1, <3>3 DEF DraftMirrors, Mirrored, Mirrors
  <2> QED
    BY <2>5, <2>6
<1>6. CASE LoseCas(p)
  <2>1. draft' = LastCommitted /\ pc'[p] = "actual"
    BY <1>1, <1>2, <1>6 DEF LoseCas, Write, Goto, TypeOK
  <2> QED
    BY <1>3, <2>1 DEF DraftMirrors
<1>7. CASE DeleteFact(p)
  <2>1. draft' = PutFact(LastCommitted, k, None) /\ pc'[p] = "vector"
    BY <1>1, <1>2, <1>7 DEF DeleteFact, Write, Goto, TypeOK
  <2>2. /\ draft'.facts = [LastCommitted.facts EXCEPT ![k] = None]
        /\ draft'.vectors = LastCommitted.vectors
    BY <1>3, <2>1 DEF PutFact, Database
  <2> HIDE DEF k
  <2>3. \A x \in Key \ {k} : draft'.facts[x] = LastCommitted.facts[x]
    BY <1>3, <2>2
  <2> QED
    BY <1>3, <1>4, <2>1, <2>2, <2>3 DEF DraftMirrors, Mirrored, k
<1> QED
  BY <1>5, <1>6, <1>7

\* The second statement brings the vector of the key up to its fact.
LEMMA VectorMirrors ==
  ASSUME IInv, MirrorInv, NEW p \in Process, SetVector(p) \/ DeleteVector(p)
  PROVE  DraftMirrors(p)'
<1> DEFINE k == Req(p).key
           vector == IF SetVector(p) THEN Req(p).value ELSE None
<1>1. /\ TypeOK /\ CallInv(p) /\ pc[p] = "vector" /\ InTransaction(p) /\ draft \in Database
  BY DEF IInv, LockInv, Holding, TypeOK, SetVector, DeleteVector, At
<1>2. DraftFactsInv(p) /\ Mirrored(draft, Key \ {k})
  BY <1>1 DEF IInv, DraftInv, MirrorInv, DraftMirrors
<1>3. /\ draft' = PutVector(draft, k, vector) /\ pc'[p] = "log"
      /\ Req(p).tool = IF SetVector(p) THEN "set" ELSE "delete"
  BY <1>1 DEF SetVector, DeleteVector, Write, View, Goto, TypeOK
<1>4. /\ draft'.facts = draft.facts
      /\ draft'.vectors = [draft.vectors EXCEPT ![k] = vector]
      /\ draft.facts \in [Key -> Fact \union {None}] /\ draft.vectors \in [Key -> Value \union {None}]
      /\ LastCommitted.facts \in [Key -> Fact \union {None}]
  BY <1>1, <1>3, LastCommittedType, DatabaseParts DEF PutVector, Database
<1>5. ~cas[p].failed
  BY <1>1 DEF CallInv, Logging
<1>6. k \in Key => vector = IF draft.facts[k] = None THEN None ELSE draft.facts[k].value
  <2>1. CASE SetVector(p)
    BY <1>1, <1>2, <1>3, <1>5, <2>1 DEF DraftFactsInv, FactWritten
  <2>2. CASE ~SetVector(p)
    BY <1>2, <1>3, <1>4, <2>2 DEF DraftFactsInv
  <2> QED
    BY <2>1, <2>2
<1> HIDE DEF k, vector
<1>7. \A x \in Key : Mirrors(draft'.facts[x], draft'.vectors[x])
  <2> SUFFICES ASSUME NEW x \in Key PROVE Mirrors(draft'.facts[x], draft'.vectors[x])
    OBVIOUS
  <2>1. CASE x = k
    <3>1. draft'.vectors[x] = IF draft'.facts[x] = None THEN None ELSE draft'.facts[x].value
      BY <1>4, <1>6, <2>1
    <3> QED
      BY <3>1 DEF Mirrors
  <2>2. CASE x # k
    BY <1>2, <1>4, <2>2 DEF Mirrored
  <2> QED
    BY <2>1, <2>2
<1> QED
  BY <1>3, <1>7 DEF DraftMirrors, Mirrored

\* The statements of _log and append leave facts and vectors alone.
LEMMA LogMirrors ==
  ASSUME IInv, MirrorInv, NEW p \in Process,
         ReadActual(p) \/ Log(p) \/ AppendBegin(p) \/ ReadTail(p) \/ InsertEvent(p),
         InTransaction(p)'
  PROVE  DraftMirrors(p)'
<1>1. /\ TypeOK /\ pc[p] \in {"actual", "log", "append", "tail", "insert"}
      /\ pc'[p] \in {"log", "append", "tail", "insert", "commit"}
      /\ View(p) \in Database
  BY ViewType DEF IInv, TypeOK, ReadActual, Log, AppendBegin, ReadTail, InsertEvent, At, Goto
<1>2. InTransaction(p) => Mirrored(draft, Key)
  BY <1>1 DEF MirrorInv, DraftMirrors
<1>3. Mirrored(View(p), Key)
  BY <1>1, <1>2, LastCommittedType DEF View, MirrorInv, LastCommitted
<1>4. CASE ReadActual(p) \/ Log(p) \/ ReadTail(p)
  <2>1. draft' = draft /\ writer' = writer
    BY <1>4 DEF ReadActual, Log, ReadTail, sqlite
  <2> QED
    BY <1>1, <1>2, <2>1 DEF DraftMirrors, InTransaction
<1>5. CASE AppendBegin(p)
  BY <1>1, <1>3, <1>5 DEF AppendBegin, BeginImmediate, Write, DraftMirrors
<1>6. CASE InsertEvent(p)
  <2>1. draft'.facts = View(p).facts /\ draft'.vectors = View(p).vectors
    BY <1>1, <1>6 DEF InsertEvent, Write, Database
  <2> QED
    BY <1>1, <1>3, <2>1 DEF DraftMirrors, Mirrored
<1> QED
  BY <1>4, <1>5, <1>6

\* A draft after a step mirrors its facts.
LEMMA DraftsMirror ==
  ASSUME IInv, MirrorInv, [Next]_vars, NEW q \in Process, InTransaction(q)'
  PROVE  DraftMirrors(q)'
<1>1. TypeOK /\ LockInv /\ CallInv(q) /\ q # NoProcess
  BY NoProcessAssumption DEF IInv
<1>2. ASSUME NEW p \in Process,
             (\E request \in Requests : Receive(p, request)) \/ Step(p) \/ Fault(p)
      PROVE  DraftMirrors(q)'
  <2>1. CASE q = p
    BY <1>1, <1>2, <2>1, FirstStatementMirrors, VectorMirrors, LogMirrors, EndFreesLock
       DEF Step, Fault
  <2>2. CASE q # p
    <3>1. InTransaction(q)
      BY <1>1, <1>2, <2>2, LockMoves
    <3>2. draft' = draft /\ Untouched(q) /\ KeepsCalls /\ clock' = clock
      BY <1>1, <1>2, <2>2, <3>1, OthersDraft, OneProcessMoves
    <3>3. pc'[q] = pc[q] /\ pc[q] # "idle"
      BY <1>1, <3>1, <3>2 DEF LockInv, Holding, Untouched
    <3>4. Req(q)' = Req(q)
      BY <1>1, <3>2, <3>3, UntouchedKeeps
    <3> QED
      BY <3>1, <3>2, <3>3, <3>4 DEF DraftMirrors, MirrorInv
  <2> QED
    BY <2>1, <2>2
<1>3. CASE PowerLoss
  BY <1>1, <1>3, LosePowerKeepsTypes DEF PowerLoss, InTransaction
<1>4. CASE Checkpoint \/ Tick \/ UNCHANGED vars
  <2>1. UNCHANGED <<draft, writer, pc, serial, calls>>
    BY <1>4 DEF Checkpoint, Sync, Tick, vars, process, sqlite
  <2> QED
    BY <2>1 DEF MirrorInv, DraftMirrors, InTransaction, Req
<1> QED
  BY <1>2, <1>3, <1>4 DEF Next, Quiescent

\* memory_server.py:181: "mirrors facts.key": in every committed version no vector
\* outlives its fact and, where every process embeds, each fact has its own.
THEOREM VectorsBelong == Spec => []VectorsMirrorFacts
<1>1. Init => MirrorInv
  <2> SUFFICES ASSUME Init PROVE MirrorInv
    OBVIOUS
  <2>1. wal = <<EmptyDatabase>> /\ writer = NoProcess
    BY DEF Init, Open
  <2>2. \A v \in DOMAIN wal : wal[v] = EmptyDatabase
    BY <2>1
  <2>3. \A p \in Process : ~InTransaction(p)
    BY <2>1, NoProcessAssumption DEF InTransaction
  <2>4. Mirrored(EmptyDatabase, Key)
    BY DEF EmptyDatabase, Mirrored, Mirrors
  <2> QED
    BY <2>2, <2>3, <2>4 DEF MirrorInv
<1>2. IInv /\ MirrorInv /\ [Next]_vars => MirrorInv'
  <2> SUFFICES ASSUME IInv, MirrorInv, [Next]_vars PROVE MirrorInv'
    OBVIOUS
  <2>1. ASSUME NEW v \in DOMAIN wal'
        PROVE  Mirrored(wal'[v], Key)
    <3>1. CASE \E w \in DOMAIN wal : wal'[v] = wal[w]
      BY <3>1 DEF MirrorInv
    <3>2. ASSUME NEW p \in Process, CommitTx(p), wal'[v] = draft
          PROVE  Mirrored(wal'[v], Key)
      BY <3>2 DEF MirrorInv, DraftMirrors, CommitTx, Commit, At
    <3> QED
      BY <2>1, <3>1, <3>2, VersionsOfStep
  <2>2. \A p \in Process : InTransaction(p)' => DraftMirrors(p)'
    BY DraftsMirror
  <2> QED
    BY <2>1, <2>2 DEF MirrorInv
<1>3. MirrorInv => VectorsMirrorFacts
  BY DEF MirrorInv, Mirrored, Mirrors, VectorsMirrorFacts
<1> QED
  BY <1>1, <1>2, <1>3, InvariantHolds, PTL DEF Spec

----------------------------------------------------------------------------
(* The refinement mapping, with the calls it consults as a parameter.      *)

EntryOf(event, cs) ==
  [client |-> event.client, action |-> event.action, key |-> event.key,
   value |-> event.value,
   condition |-> [absent |-> cs[event.call].request.absent,
                  expected |-> cs[event.call].request.expected]]

LogOf(events, cs) == [i \in DOMAIN events |-> EntryOf(events[i], cs)]
FactsOf(d) == [k \in Key |-> AbstractFact(d.facts[k])]
VersionOf(d, cs) == [facts |-> FactsOf(d), log |-> LogOf(d.events, cs)]
Mapping(ws, cs) == [v \in DOMAIN ws |-> VersionOf(ws[v], cs)]

\* What the mapping replaces the variable of AuditedStore by.
LEMMA MappingIs ==
  [v \in DOMAIN wal |-> AbstractVersion(wal[v])] = Mapping(wal, calls)
BY DEF AbstractVersion, AbstractEntry, Mapping, VersionOf, LogOf, FactsOf, EntryOf

\* The mapping of the next state is the mapping with primes.
LEMMA MappingIsPrimed ==
  [v \in DOMAIN wal |-> AbstractVersion(wal[v])]' = Mapping(wal', calls')
BY DEF AbstractVersion, AbstractEntry, Mapping, VersionOf, LogOf, FactsOf, EntryOf,
       AbstractFact

\* Calls whose requests stay give the rows the same entries.
LEMMA SameMapping ==
  ASSUME NEW ws, NEW cs, NEW cs2,
         \A v \in DOMAIN ws : \A i \in DOMAIN ws[v].events :
           cs2[ws[v].events[i].call].request = cs[ws[v].events[i].call].request
  PROVE  Mapping(ws, cs2) = Mapping(ws, cs)
<1>1. ASSUME NEW v \in DOMAIN ws
      PROVE  LogOf(ws[v].events, cs2) = LogOf(ws[v].events, cs)
  BY DEF LogOf, EntryOf
<1> QED
  BY <1>1 DEF Mapping, VersionOf

\* The mapping of a sequence of versions is a sequence, version by version.
LEMMA MappingSeq ==
  ASSUME NEW S, NEW ws \in Seq(S), NEW cs
  PROVE  /\ Mapping(ws, cs) \in Seq({VersionOf(d, cs) : d \in S})
         /\ Len(Mapping(ws, cs)) = Len(ws)
         /\ \A v \in 1..Len(ws) : Mapping(ws, cs)[v] = VersionOf(ws[v], cs)
<1> DEFINE T == {VersionOf(d, cs) : d \in S}
<1>1. Len(ws) \in Nat /\ DOMAIN ws = 1..Len(ws) /\ \A v \in 1..Len(ws) : ws[v] \in S
  BY LenProperties, ElementOfSeq
<1>2. Mapping(ws, cs) \in [1..Len(ws) -> T]
  BY <1>1 DEF Mapping
<1>3. Mapping(ws, cs) \in Seq(T)
  BY <1>1, <1>2, SeqDef
<1>4. DOMAIN Mapping(ws, cs) = 1..Len(ws)
  BY <1>1 DEF Mapping
<1>5. Len(Mapping(ws, cs)) = Len(ws)
  <2>1. /\ Len(Mapping(ws, cs)) \in Nat
        /\ DOMAIN Mapping(ws, cs) = 1..Len(Mapping(ws, cs))
    BY <1>3, LenProperties
  <2> QED
    BY <1>1, <1>4, <2>1
<1> QED
  BY <1>1, <1>3, <1>5 DEF Mapping

\* The mapping of the log of one more row.
LEMMA LogAppend ==
  ASSUME NEW events \in Seq(Event), NEW e \in Event, NEW cs
  PROVE  LogOf(Append(events, e), cs) = Append(LogOf(events, cs), EntryOf(e, cs))
<1> DEFINE T == {EntryOf(x, cs) : x \in Event}
           rows == Append(events, e)
           logged == LogOf(events, cs)
           both == Append(LogOf(events, cs), EntryOf(e, cs))
<1>1. /\ Len(events) \in Nat /\ DOMAIN events = 1..Len(events)
      /\ \A i \in 1..Len(events) : events[i] \in Event
  BY LenProperties, ElementOfSeq
<1>2. /\ rows \in Seq(Event) /\ Len(rows) = Len(events) + 1
      /\ DOMAIN rows = 1 .. Len(events) + 1
      /\ rows[Len(events) + 1] = e
      /\ \A i \in 1..Len(events) : rows[i] = events[i]
  BY <1>1, AppendProperties, LenProperties
<1> HIDE DEF rows
<1>3. EntryOf(e, cs) \in T /\ \A i \in 1..Len(events) : EntryOf(events[i], cs) \in T
  BY <1>1
<1> HIDE DEF T
<1>4. LogOf(events, cs) \in [1..Len(events) -> T]
  BY <1>1, <1>3 DEF LogOf
<1>5. LogOf(events, cs) \in Seq(T)
  BY <1>1, <1>4, SeqDef
<1>6. Len(LogOf(events, cs)) = Len(events)
  <2>1. /\ Len(LogOf(events, cs)) \in Nat
        /\ DOMAIN LogOf(events, cs) = 1..Len(LogOf(events, cs))
    BY <1>5, LenProperties
  <2>2. DOMAIN LogOf(events, cs) = 1..Len(events)
    BY <1>1 DEF LogOf
  <2>3. Len(events) \in Nat
    BY <1>1
  <2> HIDE DEF T, logged, both
  <2>4. ASSUME NEW m \in Nat, NEW n \in Nat, 1..m = 1..n PROVE m = n
    BY <2>4
  <2> QED
    BY <2>1, <2>2, <2>3, <2>4
<1>7. /\ both \in Seq(T) /\ Len(both) = Len(logged) + 1
      /\ both[Len(logged) + 1] = EntryOf(e, cs)
      /\ \A i \in 1..Len(logged) : both[i] = logged[i]
  BY <1>3, <1>5, AppendProperties
<1>8. /\ both \in [1 .. Len(events) + 1 -> T]
      /\ \A i \in 1..Len(events) : both[i] = EntryOf(rows[i], cs)
      /\ both[Len(events) + 1] = EntryOf(rows[Len(events) + 1], cs)
  <2>1. \A i \in 1..Len(events) : logged[i] = EntryOf(rows[i], cs)
    BY <1>1, <1>2 DEF LogOf
  <2> HIDE DEF both, logged
  <2> QED
    BY <1>2, <1>6, <1>7, <2>1, LenProperties DEF logged
<1>9. LogOf(rows, cs) = [i \in 1 .. Len(events) + 1 |-> EntryOf(rows[i], cs)]
  BY <1>2 DEF LogOf
<1> HIDE DEF both, logged
<1>10. both = [i \in 1 .. Len(events) + 1 |-> EntryOf(rows[i], cs)]
  BY <1>1, <1>8
<1> QED
  BY <1>9, <1>10 DEF rows, both

\* One more version is one more mapped version.
LEMMA MappingAppend ==
  ASSUME NEW S, NEW ws \in Seq(S), NEW d \in S, NEW cs
  PROVE  Mapping(Append(ws, d), cs) = Append(Mapping(ws, cs), VersionOf(d, cs))
<1> DEFINE T == {VersionOf(x, cs) : x \in S}
<1>1. /\ Append(ws, d) \in Seq(S) /\ Len(ws) \in Nat
      /\ Len(Append(ws, d)) = Len(ws) + 1
      /\ Append(ws, d)[Len(ws) + 1] = d
      /\ \A v \in 1..Len(ws) : Append(ws, d)[v] = ws[v]
  BY AppendProperties, LenProperties
<1>2. /\ Mapping(ws, cs) \in Seq(T) /\ Len(Mapping(ws, cs)) = Len(ws)
      /\ \A v \in 1..Len(ws) : Mapping(ws, cs)[v] = VersionOf(ws[v], cs)
  BY MappingSeq
<1>3. /\ Mapping(Append(ws, d), cs) \in Seq(T)
      /\ Len(Mapping(Append(ws, d), cs)) = Len(ws) + 1
      /\ \A v \in 1 .. Len(ws) + 1 :
           Mapping(Append(ws, d), cs)[v] = VersionOf(Append(ws, d)[v], cs)
  BY <1>1, MappingSeq
<1>4. VersionOf(d, cs) \in T
  OBVIOUS
<1> HIDE DEF T
<1>5. /\ Append(Mapping(ws, cs), VersionOf(d, cs)) \in Seq(T)
      /\ Len(Append(Mapping(ws, cs), VersionOf(d, cs))) = Len(ws) + 1
      /\ Append(Mapping(ws, cs), VersionOf(d, cs))[Len(ws) + 1] = VersionOf(d, cs)
      /\ \A v \in 1..Len(ws) :
           Append(Mapping(ws, cs), VersionOf(d, cs))[v] = Mapping(ws, cs)[v]
  BY <1>2, <1>4, AppendProperties
<1>6. \A v \in 1 .. Len(ws) + 1 :
        Mapping(Append(ws, d), cs)[v] = Append(Mapping(ws, cs), VersionOf(d, cs))[v]
  BY <1>1, <1>2, <1>3, <1>5
<1> QED
  BY <1>3, <1>5, <1>6, SeqEqual

\* The mapping of a prefix is a prefix of the mapping.
LEMMA MappingPrefix ==
  ASSUME NEW S, NEW ws \in Seq(S), NEW n \in 1..Len(ws), NEW cs
  PROVE  Mapping(SubSeq(ws, 1, n), cs) = SubSeq(Mapping(ws, cs), 1, n)
<1> DEFINE T == {VersionOf(x, cs) : x \in S}
<1>1. Len(ws) \in Nat /\ n \in Int /\ 1 \in Int /\ 1 <= n
      /\ \A i \in 1..n : i \in 1..Len(ws) /\ ws[i] \in S
  BY LenProperties, ElementOfSeq
<1>2. /\ SubSeq(ws, 1, n) \in Seq(S) /\ Len(SubSeq(ws, 1, n)) = n
      /\ \A i \in 1..n : SubSeq(ws, 1, n)[i] = ws[i]
  BY <1>1, SubSeqProperties
<1>3. /\ Mapping(ws, cs) \in Seq(T) /\ Len(Mapping(ws, cs)) = Len(ws)
      /\ \A v \in 1..Len(ws) : Mapping(ws, cs)[v] = VersionOf(ws[v], cs)
  BY MappingSeq
<1>4. /\ Mapping(SubSeq(ws, 1, n), cs) \in Seq(T)
      /\ Len(Mapping(SubSeq(ws, 1, n), cs)) = n
      /\ \A v \in 1..n :
           Mapping(SubSeq(ws, 1, n), cs)[v] = VersionOf(SubSeq(ws, 1, n)[v], cs)
  BY <1>2, MappingSeq
<1> HIDE DEF T
<1>5. \A i \in 1..n : Mapping(ws, cs)[i] \in T
  BY <1>1, <1>3, ElementOfSeq
<1>6. /\ SubSeq(Mapping(ws, cs), 1, n) \in Seq(T)
      /\ Len(SubSeq(Mapping(ws, cs), 1, n)) = n
      /\ \A i \in 1..n : SubSeq(Mapping(ws, cs), 1, n)[i] = Mapping(ws, cs)[i]
  BY <1>1, <1>5, SubSeqProperties
<1>7. \A v \in 1..n :
        Mapping(SubSeq(ws, 1, n), cs)[v] = SubSeq(Mapping(ws, cs), 1, n)[v]
  BY <1>1, <1>2, <1>3, <1>4, <1>6
<1> QED
  BY <1>4, <1>6, <1>7, SeqEqual

----------------------------------------------------------------------------
(* The steps. *)

\* The rows of every version keep their entries while calls are made and
\* answered.
LEMMA EntriesStay ==
  ASSUME IInv, KeepsCalls
  PROVE  Mapping(wal, calls') = Mapping(wal, calls)
<1>1. ASSUME NEW v \in DOMAIN wal, NEW i \in DOMAIN wal[v].events
      PROVE  calls'[wal[v].events[i].call].request = calls[wal[v].events[i].call].request
  BY <1>1 DEF IInv, VersionInv, RowsHaveCalls, KeepsCalls
<1> QED
  BY <1>1, SameMapping

\* What a commit adds, in the terms of AuditedStore: the entry of its row, and
\* the facts of its draft.
CommittedEntry(p) ==
  [client |-> ClientId(p), action |-> LogAction(p), key |-> LogKey(p), value |-> LogValue(p),
   condition |-> [absent |-> Req(p).absent, expected |-> Req(p).expected]]

\* A commit appends to the mapped versions the one that the draft maps to.
LEMMA CommitMaps ==
  ASSUME IInv, NEW p \in Process, CommitTx(p)
  PROVE  LET old == Mapping(wal, calls) IN
         /\ old[Len(old)] = VersionOf(LastCommitted, calls)
         /\ Mapping(wal', calls') =
              Append(old, [facts |-> FactsOf(draft), log |-> Append(old[Len(old)].log, CommittedEntry(p))])
<1>1. /\ TypeOK /\ CallInv(p) /\ pc[p] = "commit" /\ InTransaction(p) /\ DraftEventsInv(p)
      /\ wal' = Append(wal, draft) /\ calls' = calls
  BY DEF IInv, DraftInv, CommitTx, Commit, At
<1>2. /\ wal \in Seq(Database) /\ draft \in Database
      /\ LastCommitted \in Database /\ Len(wal) \in Nat \ {0}
      /\ LastCommitted.events \in Seq(Event)
  BY <1>1, LastCommittedType, DatabaseParts DEF TypeOK
<1>3. /\ Len(Mapping(wal, calls)) = Len(wal)
      /\ Mapping(wal, calls)[Len(wal)] = VersionOf(LastCommitted, calls)
  <2>1. /\ Len(Mapping(wal, calls)) = Len(wal)
        /\ \A v \in 1..Len(wal) : Mapping(wal, calls)[v] = VersionOf(wal[v], calls)
    BY <1>2, MappingSeq
  <2>2. Len(wal) \in 1..Len(wal)
    BY <1>2
  <2> QED
    BY <2>1, <2>2 DEF LastCommitted
<1>4. /\ NewEvent(p) \in Event /\ draft.events = Append(LastCommitted.events, NewEvent(p))
  BY <1>1, NewEventType DEF DraftEventsInv
<1>5. EntryOf(NewEvent(p), calls) = CommittedEntry(p)
  BY <1>1, NewEventType DEF EntryOf, CommittedEntry, Req
<1>6. LogOf(draft.events, calls) = Append(LogOf(LastCommitted.events, calls), CommittedEntry(p))
  BY <1>2, <1>4, <1>5, LogAppend
<1>7. Mapping(wal', calls') = Append(Mapping(wal, calls), VersionOf(draft, calls))
  BY <1>1, <1>2, MappingAppend
<1>8. VersionOf(draft, calls) =
        [facts |-> FactsOf(draft), log |-> Append(VersionOf(LastCommitted, calls).log, CommittedEntry(p))]
  BY <1>6 DEF VersionOf
<1> QED
  BY <1>3, <1>7, <1>8

\* The condition of a request, as AuditedStore judges it on the fact's image.
LEMMA ConditionMaps ==
  ASSUME NEW request \in SetRequest, NEW facts \in [Key -> Fact \union {None}], request.key \in Key
  PROVE  LET condition == [absent |-> request.absent, expected |-> request.expected]
             fact == AbstractFact(facts[request.key]) IN
         /\ condition \in Audited!Condition
         /\ Audited!Holds(condition, fact) <=> WriteMatches(request, facts)
         /\ Audited!ValueOf(fact) =
              IF facts[request.key] = None THEN None ELSE facts[request.key].value
<1> DEFINE fact == facts[request.key]
<1>1. /\ request.absent \in BOOLEAN /\ request.expected \in Value \union {None}
      /\ fact \in Fact \union {None}
  BY DEF SetRequest
<1>2. fact # None => AbstractFact(fact) = [value |-> fact.value, source |-> fact.source]
  BY DEF AbstractFact
<1>3. fact = None => AbstractFact(fact) = None
  BY DEF AbstractFact
<1>4. AbstractFact(fact) = None <=> fact = None
  <2>1. fact # None => AbstractFact(fact) \in [value: Value, source: Client]
    BY <1>1, <1>2 DEF Fact
  <2> QED
    BY <1>3, <2>1, StoreAssumption
<1>5. Audited!ValueOf(AbstractFact(fact)) = IF fact = None THEN None ELSE fact.value
  BY <1>2, <1>3, <1>4 DEF Audited!ValueOf
<1>6. [absent |-> request.absent, expected |-> request.expected] \in Audited!Condition
  BY <1>1 DEF Audited!Condition
<1> QED
  BY <1>1, <1>4, <1>5, <1>6 DEF Audited!Holds, WriteMatches

\* A fact replaced is the fact's image replaced.
LEMMA FactsPut ==
  ASSUME NEW old \in Database, NEW new \in Database, NEW k \in Key,
         new.facts = [old.facts EXCEPT ![k] = new.facts[k]]
  PROVE  FactsOf(new) = [FactsOf(old) EXCEPT ![k] = AbstractFact(new.facts[k])]
<1>1. old.facts \in [Key -> Fact \union {None}]
  BY DatabaseParts
<1>2. \A x \in Key : x # k => new.facts[x] = old.facts[x]
  BY <1>1
<1> QED
  BY <1>2 DEF FactsOf

\* What the row of a committing call records, by its tool.
LEMMA EntryParts ==
  ASSUME TypeOK, NEW p \in Process, CallInv(p), pc[p] = "commit"
  PROVE  /\ ClientId(p) \in Client
         /\ LogKey(p) \in Key \union {None}
         /\ LogAction(p) = IF cas[p].failed THEN "cas_fail" ELSE Req(p).tool
         /\ cas[p].failed => Req(p).tool = "set"
         /\ ~cas[p].failed => LogValue(p) = Req(p).value
         /\ Req(p).tool \in {"set", "delete", "get", "search", "lock_hold"}
         /\ Req(p).tool \in {"set", "delete"} => LogKey(p) = Req(p).key /\ Req(p).key \in Key
         /\ Req(p).tool = "set" => Req(p) \in SetRequest /\ Req(p).value \in Value
         /\ Req(p).tool # "set" =>
              Req(p).value = None /\ Req(p).absent = FALSE /\ Req(p).expected = None
<1>1. /\ Req(p) \in Request /\ ClientId(p) \in Client
      /\ Req(p).tool \in {"set", "delete"} => Req(p).key \in Key
      /\ Req(p).tool = "set" => Req(p).value \in Value
      /\ Req(p).tool # "set" => Req(p).value = None
  BY RequestType
<1>2. LogKey(p) \in Key \union {None}
  <2>1. NewEvent(p) \in Event /\ NewEvent(p).key = LogKey(p)
    BY NewEventType
  <2> QED
    BY <2>1 DEF Event
<1>3. Req(p).tool \in {"set", "delete", "get", "search", "lock_hold"}
  BY DEF CallInv, OnItsPath, Logging
<1>4. cas[p].failed => Req(p).tool = "set"
  BY DEF CallInv
<1>5. Req(p).tool = "set" => Req(p) \in SetRequest
  BY <1>1 DEF Request, KeyRequest, StoreRequest
<1>6. Req(p).tool # "set" => Req(p).absent = FALSE /\ Req(p).expected = None
  BY <1>1 DEF Request, SetRequest, KeyRequest, StoreRequest
<1> QED
  BY <1>1, <1>2, <1>3, <1>4, <1>5, <1>6 DEF LogAction, LogKey, LogValue

\* A commit is the logged call as one step of AuditedStore.
LEMMA CommitIsACall ==
  ASSUME IInv, NEW p \in Process, CommitTx(p)
  PROVE  Audited!Next
<1> DEFINE k == Req(p).key
           condition == [absent |-> Req(p).absent, expected |-> Req(p).expected]
           old == Mapping(wal, calls)
<1>1. /\ TypeOK /\ CallInv(p) /\ pc[p] = "commit" /\ DraftFactsInv(p)
  BY DEF IInv, DraftInv, CommitTx, Commit, At
<1>2. /\ LastCommitted \in Database /\ draft \in Database
      /\ LastCommitted.facts \in [Key -> Fact \union {None}]
  BY <1>1, LastCommittedType, DatabaseParts DEF TypeOK
<1>3. Audited!Latest = VersionOf(LastCommitted, calls)
  BY CommitMaps, MappingIs DEF Audited!Latest
<1>4. Audited!Latest.facts = FactsOf(LastCommitted)
  BY <1>3 DEF VersionOf
<1>5. Audited!Record(FactsOf(draft), ClientId(p), LogAction(p), LogKey(p), LogValue(p), condition)
  BY CommitMaps, MappingIs, MappingIsPrimed DEF Audited!Record, Audited!Latest, CommittedEntry
<1>6. \A x \in Key : FactsOf(LastCommitted)[x] = AbstractFact(LastCommitted.facts[x])
  BY DEF FactsOf
<1> HIDE DEF k, condition, old
<1>7. CASE Req(p).tool = "set" /\ ~cas[p].failed
  <2>1. /\ FactWritten(p) /\ k \in Key /\ Req(p) \in SetRequest /\ LogKey(p) = k
        /\ LogAction(p) = "set" /\ LogValue(p) = Req(p).value /\ Req(p).value \in Value
        /\ ClientId(p) \in Client
    BY <1>1, <1>7, EntryParts DEF DraftFactsInv, k
  <2>2. /\ draft.facts = [LastCommitted.facts EXCEPT ![k] = draft.facts[k]]
        /\ AbstractFact(draft.facts[k]) = [value |-> Req(p).value, source |-> ClientId(p)]
        /\ WriteMatches(Req(p), LastCommitted.facts)
    BY <2>1 DEF FactWritten, AbstractFact, k
  <2>3. FactsOf(draft) = [FactsOf(LastCommitted) EXCEPT
          ![k] = [value |-> Req(p).value, source |-> ClientId(p)]]
    BY <1>2, <2>1, <2>2, FactsPut
  <2>4. /\ condition \in Audited!Condition
        /\ Audited!Holds(condition, AbstractFact(LastCommitted.facts[k]))
    BY <1>2, <2>1, <2>2, ConditionMaps DEF condition, k
  <2>5. Audited!Set(ClientId(p), k, Req(p).value, condition)
    BY <1>4, <1>5, <1>6, <2>1, <2>3, <2>4 DEF Audited!Set
  <2> QED
    BY <2>1, <2>4, <2>5 DEF Audited!Next
<1>8. CASE Req(p).tool = "set" /\ cas[p].failed
  <2>1. /\ FactKept(p) /\ k \in Key /\ Req(p) \in SetRequest /\ LogKey(p) = k
        /\ LogAction(p) = "cas_fail" /\ LogValue(p) = cas[p].actual
        /\ ClientId(p) \in Client
    BY <1>1, <1>8, EntryParts DEF DraftFactsInv, LogValue, k
  <2>2. /\ FactsOf(draft) = FactsOf(LastCommitted)
        /\ ~WriteMatches(Req(p), LastCommitted.facts)
        /\ LogValue(p) =
             IF LastCommitted.facts[k] = None THEN None ELSE LastCommitted.facts[k].value
    BY <1>8, <2>1 DEF FactKept, FactsOf, k
  <2>3. /\ condition \in Audited!Condition
        /\ ~Audited!Holds(condition, AbstractFact(LastCommitted.facts[k]))
        /\ Audited!ValueOf(AbstractFact(LastCommitted.facts[k])) = LogValue(p)
    BY <1>2, <2>1, <2>2, ConditionMaps DEF condition, k
  <2>4. Audited!Lose(ClientId(p), k, condition)
    BY <1>4, <1>5, <1>6, <2>1, <2>2, <2>3 DEF Audited!Lose
  <2> QED
    BY <2>1, <2>3, <2>4 DEF Audited!Next
<1>9. Req(p).tool # "set" =>
        condition = Audited!Unconditional /\ LogValue(p) = None /\ LogAction(p) = Req(p).tool
  BY <1>1, EntryParts DEF condition, Audited!Unconditional
<1>10. CASE Req(p).tool = "delete"
  <2>1. k \in Key /\ LogKey(p) = k /\ ClientId(p) \in Client
    BY <1>1, <1>10, EntryParts DEF k
  <2>2. draft.facts = [LastCommitted.facts EXCEPT ![k] = None]
    BY <1>1, <1>10 DEF DraftFactsInv, k
  <2>3. draft.facts[k] = None
    BY <1>2, <2>1, <2>2
  <2>4. FactsOf(draft) = [FactsOf(LastCommitted) EXCEPT ![k] = None]
    BY <1>2, <2>1, <2>2, <2>3, FactsPut DEF AbstractFact
  <2>5. Audited!Delete(ClientId(p), k)
    BY <1>4, <1>5, <1>9, <1>10, <2>1, <2>4 DEF Audited!Delete
  <2> QED
    BY <2>1, <2>5 DEF Audited!Next
<1>11. CASE Req(p).tool \in {"get", "search", "lock_hold"}
  <2>1. LogKey(p) \in Key \union {None} /\ ClientId(p) \in Client
    BY <1>1, EntryParts
  <2>2. FactsOf(draft) = FactsOf(LastCommitted)
    BY <1>1, <1>11 DEF DraftFactsInv, FactsOf
  <2>3. Audited!Observe(ClientId(p), Req(p).tool, LogKey(p))
    BY <1>4, <1>5, <1>9, <1>11, <2>2 DEF Audited!Observe
  <2> QED
    BY <1>11, <2>1, <2>3 DEF Audited!Next
<1> QED
  BY <1>1, <1>7, <1>8, <1>10, <1>11, EntryParts

\* A version alone is mapped alone.
LEMMA MappingOne ==
  ASSUME NEW d \in Database, NEW cs
  PROVE  Mapping(<<d>>, cs) = <<VersionOf(d, cs)>>
<1> DEFINE T == {VersionOf(x, cs) : x \in Database}
<1>1. <<d>> \in Seq(Database) /\ Len(<<d>>) = 1 /\ <<d>>[1] = d
  OBVIOUS
<1>2. /\ Mapping(<<d>>, cs) \in Seq(T) /\ Len(Mapping(<<d>>, cs)) = 1
      /\ \A v \in 1..1 : Mapping(<<d>>, cs)[v] = VersionOf(<<d>>[v], cs)
  BY <1>1, MappingSeq
<1>3. VersionOf(d, cs) \in T
  OBVIOUS
<1> HIDE DEF T
<1>4. <<VersionOf(d, cs)>> \in Seq(T) /\ Len(<<VersionOf(d, cs)>>) = 1
  BY <1>3
<1>5. \A v \in 1..1 : Mapping(<<d>>, cs)[v] = <<VersionOf(d, cs)>>[v]
  BY <1>1, <1>2
<1> QED
  BY <1>2, <1>4, <1>5, SeqEqual

\* The new database is the initial state of AuditedStore.
LEMMA InitMaps == Init => Audited!Init
<1> SUFFICES ASSUME Init PROVE Audited!Init
  OBVIOUS
<1>1. wal = <<EmptyDatabase>> /\ EmptyDatabase \in Database
  BY DEF Init, Open, EmptyDatabase, Database
<1>2. Mapping(wal, calls) = <<VersionOf(EmptyDatabase, calls)>>
  BY <1>1, MappingOne
<1>3. FactsOf(EmptyDatabase) = [k \in Key |-> None]
  BY DEF FactsOf, EmptyDatabase, AbstractFact
<1>4. LogOf(EmptyDatabase.events, calls) = <<>>
  BY DEF LogOf, EmptyDatabase
<1> QED
  BY <1>2, <1>3, <1>4, MappingIs DEF Audited!Init, VersionOf

\* Every step of the processes, of the disk and of the machine is a step of
\* AuditedStore, or none.
LEMMA StepMaps ==
  IInv /\ [Next]_vars => [Audited!Next]_([v \in DOMAIN wal |-> AbstractVersion(wal[v])])
<1> SUFFICES ASSUME IInv, [Next]_vars
             PROVE  Audited!Next \/ Mapping(wal', calls') = Mapping(wal, calls)
  BY MappingIs, MappingIsPrimed
<1>1. TypeOK /\ wal \in Seq(Database) /\ LastCommitted \in Database /\ Len(wal) \in Nat \ {0}
  BY LastCommittedType DEF IInv, TypeOK
<1>2. Mapping(wal, calls') = Mapping(wal, calls)
  BY CallsStay, EntriesStay
<1>3. CASE wal' = wal
  BY <1>2, <1>3
<1>4. CASE \E p \in Process : CommitTx(p)
  BY <1>4, CommitIsACall
<1>5. CASE Checkpoint
  <2>1. wal' = <<LastCommitted>> /\ calls' = calls
    BY <1>5 DEF Checkpoint, Sync
  <2>2. Mapping(wal', calls') = <<VersionOf(LastCommitted, calls)>>
    BY <1>1, <2>1, MappingOne
  <2>3. Mapping(wal, calls)[Len(Mapping(wal, calls))] = VersionOf(LastCommitted, calls)
    <3>1. /\ Len(Mapping(wal, calls)) = Len(wal)
          /\ \A v \in 1..Len(wal) : Mapping(wal, calls)[v] = VersionOf(wal[v], calls)
      BY <1>1, MappingSeq
    <3>2. Len(wal) \in 1..Len(wal)
      BY <1>1
    <3> QED
      BY <3>1, <3>2 DEF LastCommitted
  <2>4. Audited!Sync
    BY <2>2, <2>3, MappingIs, MappingIsPrimed DEF Audited!Sync, Audited!Latest
  <2> QED
    BY <2>4 DEF Audited!Next
<1>6. CASE PowerLoss
  <2>1. PICK n \in 1..Len(wal) : wal' = SubSeq(wal, 1, n)
    BY <1>6 DEF PowerLoss, LosePower
  <2>2. Mapping(wal', calls') = SubSeq(Mapping(wal, calls), 1, n)
    BY <1>1, <1>2, <2>1, MappingPrefix
  <2>3. Len(Mapping(wal, calls)) = Len(wal)
    BY <1>1, MappingSeq
  <2>4. Audited!PowerLoss
    BY <2>1, <2>2, <2>3, MappingIs, MappingIsPrimed DEF Audited!PowerLoss
  <2> QED
    BY <2>4 DEF Audited!Next
<1>7. ASSUME NEW p \in Process,
             (\E request \in Requests : Receive(p, request)) \/ Step(p) \/ Fault(p)
      PROVE  CommitTx(p) \/ wal' = wal
  BY <1>7, OnlyCommitAppends
<1> QED
  BY <1>3, <1>4, <1>5, <1>6, <1>7 DEF Next, Tick, Quiescent, vars, sqlite

----------------------------------------------------------------------------

\* The server processes implement AuditedStore: however their calls interleave,
\* fail, or are cut off by a crash or a power loss, the committed versions
\* evolve as if every logged call were one atomic, self-recording step.
THEOREM Refines == Spec => ImplementsAuditedStore
<1>1. Init => Audited!Init
  BY InitMaps
<1>2. IInv /\ [Next]_vars => [Audited!Next]_([v \in DOMAIN wal |-> AbstractVersion(wal[v])])
  BY StepMaps
<1> QED
  BY <1>1, <1>2, InvariantHolds, PTL DEF Spec, ImplementsAuditedStore, Audited!Spec

====
