---- MODULE HttpAuthProofs ----
(***************************************************************************)
(* Proofs about HttpAuth, for any number of programs, clients, tokens,     *)
(* starts and requests.                                                    *)
(***************************************************************************)
EXTENDS HttpAuth, TLAPS

----------------------------------------------------------------------------
(* The table and the messages. *)

\* A clients file gives each token of its table to one client, the one that the
\* file gives that token.
LEMMA FileTable ==
  ASSUME NEW file \in Files, Loadable(file), NEW t \in DOMAIN ByToken(file)
  PROVE  /\ t \in Range(file) \ Weak
         /\ t \in Token
         /\ ByToken(file)[t] \in DOMAIN file
         /\ ByToken(file)[t] \in Client
         /\ \A c \in DOMAIN file : file[c] = t <=> c = ByToken(file)[t]
<1>1. /\ t \in Range(file)
      /\ ByToken(file)[t] = CHOOSE c \in DOMAIN file : file[c] = t
  BY DEF ByToken
<1>2. PICK d \in DOMAIN file : file[d] = t
  BY <1>1 DEF Range
<1>3. ByToken(file)[t] \in DOMAIN file /\ file[ByToken(file)[t]] = t
  BY <1>1, <1>2
<1>4. PICK names \in SUBSET (Client \union BadId) : file \in [names -> Token]
  BY DEF Files
<1> QED
  BY <1>1, <1>3, <1>4 DEF Loadable

\* What a token in force says: it is the shared one, or a client's of the file.
LEMMA TableGives ==
  ASSUME NEW c \in Config, Table(c) # None, NEW t \in DOMAIN Table(c)
  PROVE  /\ t \in Token
         /\ \/ /\ c.file = None /\ t = c.token
               /\ Table(c)[t] = None /\ DOMAIN Table(c) = {t}
            \/ /\ c.token = None /\ c.file # None /\ c.file \in Files /\ c.file # Unreadable
               /\ t \in Range(c.file) \ Weak
               /\ Table(c)[t] \in DOMAIN c.file /\ Table(c)[t] \in Client
               /\ \A d \in DOMAIN c.file : c.file[d] = t <=> d = Table(c)[t]
<1>1. CASE c.token # None
  <2>1. c.file = None /\ Table(c) = [u \in {c.token} |-> None]
    BY <1>1 DEF Table
  <2>2. c.token \in Token
    BY <1>1 DEF Config
  <2> QED
    BY <2>1, <2>2
<1>2. CASE c.token = None
  <2>1. c.file # None /\ Loadable(c.file) /\ Table(c) = ByToken(c.file)
    BY <1>2 DEF Table
  <2>2. c.file \in Files /\ c.file # Unreadable
    BY <2>1 DEF Config, Loadable
  <2> HIDE DEF Config
  <2> QED
    BY <1>2, <2>1, <2>2, FileTable
<1> QED
  BY <1>1, <1>2

\* One client has one token: two tokens in force with the same user are the same.
LEMMA OneTokenEach ==
  ASSUME NEW c \in Config, Table(c) # None, NEW t \in DOMAIN Table(c), NEW u \in DOMAIN Table(c),
         Table(c)[t] = Table(c)[u]
  PROVE  t = u
<1>1. CASE c.file = None
  <2>1. DOMAIN Table(c) = {t}
    BY <1>1, TableGives
  <2> QED
    BY <2>1
<1>2. CASE c.file # None
  <2>1. /\ Table(c)[t] \in DOMAIN c.file
        /\ \A d \in DOMAIN c.file : c.file[d] = t <=> d = Table(c)[t]
    BY <1>2, TableGives
  <2>2. \A d \in DOMAIN c.file : c.file[d] = u <=> d = Table(c)[u]
    BY <1>2, TableGives
  <2> QED
    BY <2>1, <2>2
<1> QED
  BY <1>1, <1>2

\* A table has tokens for keys and clients, or None, for values.
LEMMA TableType ==
  ASSUME NEW c \in Config, Table(c) # None
  PROVE  DOMAIN Table(c) \subseteq Token /\ Range(Table(c)) \subseteq Client \union {None}
<1>1. \A t \in DOMAIN Table(c) : t \in Token /\ Table(c)[t] \in Client \union {None}
  BY TableGives
<1> QED
  BY <1>1 DEF Range

\* A server that is not up has a configuration without credentials.
LEMMA MadeConfig == NoConfig \in Config
  BY DEF NoConfig, Config

\* A client's one header, or none, is what headers may be.
LEMMA Headed == <<>> \in Headers /\ \A t \in Token : <<t>> \in Headers
  BY DEF Headers

\* A request that is made is a request.
LEMMA FreshRequest ==
  ASSUME NEW stage \in {"idle", "sent"}, NEW method \in {"initialize", "notify", "call", "delete"},
         NEW headers \in Headers, NEW id \in Nat \union {None},
         NEW claimed \in Client \union {None}
  PROVE  LET new == Fresh(stage, method, headers, id, claimed) IN
         new \in Request /\ new.session = id /\ new.stage = stage
<1> QED
  BY DEF Fresh, Request

\* So is the one that nobody has made.
LEMMA IdleRequest == Idle \in Request /\ Idle.stage = "idle" /\ Idle.session = None
<1> QED
  BY Headed DEF Idle, Fresh, Request

----------------------------------------------------------------------------
(* The steps. *)

NamesHolder(row) ==
  row.config.file # None =>
    /\ row.client \in DOMAIN row.config.file
    /\ \A c \in DOMAIN row.config.file : row.config.file[c] = row.headers[1] <=> c = row.client

HasCredential(row) ==
  /\ Len(row.headers) = 1
  /\ \/ row.config.file = None /\ row.headers[1] = row.config.token
     \/ /\ row.config.token = None /\ row.config.file # Unreadable
        /\ row.headers[1] \in Range(row.config.file) \ Weak

\* What a row must say of the request it came from.
GoodRow(row) == row \in Row /\ NamesHolder(row) /\ HasCredential(row)

\* What the invariant says of the rows.
LEMMA RowsAreGood ==
  TypeOK /\ RowsNameHolder /\ RowsNeedCredential => \A i \in DOMAIN rows : GoodRow(rows[i])
  BY DEF TypeOK, RowsNameHolder, RowsNeedCredential, GoodRow, NamesHolder, HasCredential

\* A session that is as the invariant says.
GoodSession(s) ==
  /\ s \in [user: Client \union {None}, header: Token]
  /\ s.header \in DOMAIN credentials /\ s.user = credentials[s.header]

\* A step that gives one request another form, makes or ends at most one session
\* and writes at most one row keeps the invariant if all of these are good.
LEMMA RequestStep ==
  ASSUME IInv, NEW a \in Program, NEW r \in Request, request' = [request EXCEPT ![a] = r],
         UNCHANGED <<server, config, credentials, starts, token>>,
         session' \in [Agent -> 1..issued \union {None}], sends' \in 0..MaxSends,
         r.session \in 1..issued' \union {None},
         r.stage \in {"admitted", "queued"} => Admitted(r),
         r.stage = "queued" =>
           /\ r.session \in 1..issued
           /\ r.session \in DOMAIN sessions => r.headers[1] = sessions[r.session].header,
         issued' \in {issued, issued + 1},
         sessions' = sessions \/ server = "up",
         \A s \in DOMAIN sessions' :
           \/ s \in DOMAIN sessions /\ sessions'[s] = sessions[s]
           \/ s = issued + 1 /\ issued' = s /\ GoodSession(sessions'[s]),
         rows' = rows \/ \E row \in Row : GoodRow(row) /\ rows' = Append(rows, row)
  PROVE  IInv'
<1> USE DEF IInv
<1>1. issued \in Nat /\ issued' \in Nat /\ 1..issued \subseteq 1..issued'
  BY DEF TypeOK
<1>2. DOMAIN sessions' \subseteq 1..issued'
  BY <1>1 DEF TypeOK
<1>3. rows' \in Seq(Row) /\ \A i \in DOMAIN rows' : GoodRow(rows'[i])
  <2>1. rows \in Seq(Row) /\ \A i \in DOMAIN rows : GoodRow(rows[i])
    BY RowsAreGood DEF TypeOK
  <2>2. ASSUME NEW row \in Row, GoodRow(row), rows' = Append(rows, row)
        PROVE  rows' \in Seq(Row) /\ \A i \in DOMAIN rows' : GoodRow(rows'[i])
    <3>1. /\ Len(rows) \in Nat /\ DOMAIN rows = 1..Len(rows)
          /\ rows' \in Seq(Row) /\ DOMAIN rows' = 1..Len(rows) + 1
          /\ \A i \in 1..Len(rows) : rows'[i] = rows[i]
          /\ rows'[Len(rows) + 1] = row
      BY <2>1, <2>2
    <3>2. ASSUME NEW i \in DOMAIN rows' PROVE GoodRow(rows'[i])
      <4>1. i \in 1..Len(rows) \/ i = Len(rows) + 1
        BY <3>1
      <4> QED
        BY <2>1, <2>2, <3>1, <4>1
    <3> QED
      BY <3>1, <3>2
  <2> QED
    BY <2>1, <2>2
<1>4. RowsNameHolder' /\ RowsNeedCredential'
  BY <1>3 DEF RowsNameHolder, RowsNeedCredential, GoodRow, NamesHolder, HasCredential
<1>5. \A s \in DOMAIN sessions' : sessions'[s] \in [user: Client \union {None}, header: Token]
  BY DEF TypeOK, GoodSession
<1>6. request' \in [Program -> Request]
  BY DEF TypeOK
<1>7. \A b \in Program : request'[b] = IF b = a THEN r ELSE request[b]
  BY DEF TypeOK
<1>8. \A b \in Program : request'[b].session \in 1..issued' \union {None}
  BY <1>1, <1>7 DEF TypeOK
<1>9. TypeOK'
  BY <1>1, <1>2, <1>3, <1>5, <1>6, <1>8 DEF TypeOK
<1>10. TableInv'
  BY DEF TableInv
<1>11. AdmittedInv' /\ QueuedInv'
  BY <1>1, <1>7 DEF AdmittedInv, QueuedInv, At, Admitted
<1>12. SessionInv'
  BY DEF SessionInv, GoodSession
<1>13. SessionsServeTheirMaker'
  BY <1>1, <1>7 DEF SessionsServeTheirMaker, QueuedInv, At, TypeOK
<1> QED
  BY <1>9, <1>10, <1>11, <1>12, <1>13, <1>4

\* Sending is a request of its own, with a session that was issued or none.
LEMMA SendStep ==
  ASSUME IInv, NEW a \in Program, NEW method \in {"initialize", "notify", "call", "delete"},
         NEW headers \in Headers, NEW id \in 1..issued \union {None},
         NEW claimed \in Client \union {None}, Send(a, method, headers, id, claimed)
  PROVE  IInv'
<1> DEFINE r == Fresh("sent", method, headers, id, claimed)
<1>1. issued \in Nat
  BY DEF IInv, TypeOK
<1>2. r \in Request /\ r.session = id /\ r.stage = "sent"
  BY <1>1, FreshRequest
<1>3. /\ request' = [request EXCEPT ![a] = r]
      /\ sends' \in 0..MaxSends
      /\ UNCHANGED <<process, token, session, rows>>
  BY HttpAssumption DEF Send, IInv, TypeOK
<1>4. session' \in [Agent -> 1..issued \union {None}]
  BY <1>3 DEF IInv, TypeOK
<1> HIDE DEF r
<1> QED
  BY <1>2, <1>3, <1>4, RequestStep DEF process

\* A request that changes its stage, a field at a time, is a request.
LEMMA AnsweredIsRequest ==
  ASSUME NEW f \in Request, NEW status \in {"ok", "unauthorized", "not found"}, NEW id \in Nat \union {None}
  PROVE  LET r == Answered(f, status, id) IN
         r \in Request /\ r.stage = "answered" /\ r.session = id
<1> DEFINE g == [f EXCEPT !.stage = "answered"]
           h == [g EXCEPT !.status = status]
           r == Answered(f, status, id)
<1>1. g \in Request
  BY DEF Request
<1>2. r = [h EXCEPT !.session = id] /\ r.stage = "answered" /\ r.session = id
  BY DEF Request, Answered
<1> HIDE DEF g
<1>3. h \in Request
  BY <1>1 DEF Request
<1> HIDE DEF h
<1> QED
  BY <1>2, <1>3 DEF Request

\* So is one that the middleware lets pass, with its user.
LEMMA PassedIsRequest ==
  ASSUME NEW f \in Request, NEW user \in Client \union {None}
  PROVE  LET r == Passed(f, user) IN
         /\ r \in Request /\ r.stage = "admitted" /\ r.session = f.session
         /\ r.headers = f.headers /\ r.user = user
<1> DEFINE g == [f EXCEPT !.stage = "admitted"]
           r == Passed(f, user)
<1>1. g \in Request
  BY DEF Request
<1>2. /\ r = [g EXCEPT !.user = user]
      /\ r.stage = "admitted" /\ r.session = f.session /\ r.headers = f.headers /\ r.user = user
  BY DEF Request, Passed
<1> HIDE DEF g
<1>3. r \in Request
  BY <1>1, <1>2 DEF Request
<1> QED
  BY <1>2, <1>3

\* So is one that waits for the lock.
LEMMA QueuedIsRequest ==
  ASSUME NEW f \in Request
  PROVE  LET r == [f EXCEPT !.stage = "queued"] IN
         /\ r \in Request /\ r.stage = "queued" /\ r.session = f.session
         /\ r.headers = f.headers /\ r.user = f.user
  BY DEF Request

\* What the types say of the request that a step is about.
LEMMA RequestTyped ==
  ASSUME IInv, NEW a \in Program
  PROVE  /\ request[a] \in Request /\ issued \in Nat
         /\ request[a].session \in 1..issued \union {None}
         /\ request[a].session \in Nat \union {None}
<1>1. request[a] \in Request /\ issued \in Nat /\ request[a].session \in 1..issued \union {None}
  BY DEF IInv, TypeOK
<1> QED
  BY <1>1

\* The middleware lets a request pass only with a token of the table.
LEMMA AuthenticateStep ==
  ASSUME IInv, NEW a \in Program, Authenticate(a)
  PROVE  IInv'
<1>1. /\ request[a] \in Request /\ request[a].session \in 1..issued \union {None}
      /\ sends' \in 0..MaxSends /\ session' \in [Agent -> 1..issued \union {None}]
      /\ UNCHANGED <<process, token, session, rows>>
  BY DEF Authenticate, IInv, TypeOK
<1>2. CASE Len(request[a].headers) = 1 /\ request[a].headers[1] \in DOMAIN credentials
  <2> DEFINE r == Passed(request[a], credentials[request[a].headers[1]])
  <2>1. credentials[request[a].headers[1]] \in Client \union {None}
    BY <1>2 DEF IInv, TypeOK, Range
  <2>2. /\ r \in Request /\ r.stage = "admitted" /\ r.session = request[a].session
        /\ Admitted(r)
    BY <1>1, <1>2, <2>1, PassedIsRequest DEF Admitted
  <2>3. request' = [request EXCEPT ![a] = r]
    BY <1>2 DEF Authenticate
  <2> HIDE DEF r
  <2> QED
    BY <1>1, <2>2, <2>3, RequestStep DEF process
<1>3. CASE ~(Len(request[a].headers) = 1 /\ request[a].headers[1] \in DOMAIN credentials)
  <2> DEFINE r == Answered(request[a], "unauthorized", request[a].session)
  <2>1. r \in Request /\ r.stage = "answered" /\ r.session = request[a].session
    BY <1>1, RequestTyped, AnsweredIsRequest
  <2>2. request' = [request EXCEPT ![a] = r]
    BY <1>3 DEF Authenticate, Answer
  <2> HIDE DEF r
  <2> QED
    BY <1>1, <2>1, <2>2, RequestStep DEF process
<1> QED
  BY <1>2, <1>3

\* The SDK gives a session the user of the request that makes it, and lets no
\* other client's requests through.
LEMMA RouteStep ==
  ASSUME IInv, NEW a \in Program, Route(a)
  PROVE  IInv'
<1> DEFINE q == request[a]
<1>1. /\ q \in Request /\ issued \in Nat
      /\ q.session \in 1..issued \union {None} /\ q.session \in Nat \union {None}
  BY RequestTyped
<1>2. /\ At(a, "admitted")
      /\ UNCHANGED <<server, config, credentials, starts, token, session, sends, rows>>
  BY DEF Route
<1>3. Admitted(q)
  BY <1>2 DEF IInv, AdmittedInv
<1>4. server = "up"
  BY <1>3 DEF IInv, TableInv, Admitted
<1>5. /\ session \in [Agent -> 1..issued \union {None}] /\ sends' \in 0..MaxSends
      /\ DOMAIN sessions \subseteq 1..issued
  BY <1>2 DEF IInv, TypeOK
<1>6. ASSUME MakeSession(a) PROVE IInv'
  <2> DEFINE r == Answered(q, "ok", issued')
             made == [user |-> q.user, header |-> q.headers[1]]
  <2>1. /\ issued' = issued + 1
        /\ sessions' = [s \in DOMAIN sessions \union {issued'} |->
                          IF s = issued' THEN made ELSE sessions[s]]
        /\ request' = [request EXCEPT ![a] = r]
    BY <1>6 DEF MakeSession, Answer
  <2>2. issued' \in Nat /\ issued' \in 1..issued'
    BY <1>1, <2>1
  <2>3. r \in Request /\ r.stage = "answered" /\ r.session = issued'
    BY <1>1, <2>2, AnsweredIsRequest
  <2>4. GoodSession(made)
    <3>1. q.user \in Client \union {None} /\ q.headers[1] \in Token
      BY <1>1, <1>3 DEF Request, Admitted, IInv, TypeOK
    <3> QED
      BY <1>3, <3>1 DEF GoodSession, Admitted
  <2>5. session' \in [Agent -> 1..issued' \union {None}]
    BY <1>1, <1>2, <1>5, <2>1
  <2>6. \A s \in DOMAIN sessions' :
           \/ s \in DOMAIN sessions /\ sessions'[s] = sessions[s]
           \/ s = issued + 1 /\ issued' = s /\ sessions'[s] = made
    BY <1>1, <1>5, <2>1
  <2> HIDE DEF r, q, made
  <2>7. \A s \in DOMAIN sessions' :
           \/ s \in DOMAIN sessions /\ sessions'[s] = sessions[s]
           \/ s = issued + 1 /\ issued' = s /\ GoodSession(sessions'[s])
    BY <2>4, <2>6
  <2> QED
    BY <1>2, <1>4, <1>5, <2>1, <2>2, <2>3, <2>5, <2>7, RequestStep
<1>7. ASSUME Deliver(a) PROVE IInv'
  <2>1. q.session \in DOMAIN sessions /\ sessions[q.session].user = q.user /\ issued' = issued
    BY <1>7 DEF Deliver, Admits
  <2>2. \A s \in DOMAIN sessions' : s \in DOMAIN sessions /\ sessions'[s] = sessions[s]
    BY <1>7 DEF Deliver, Restrict
  <2>3. session' \in [Agent -> 1..issued' \union {None}]
    BY <1>2, <1>5, <2>1
  <2>4. q.headers[1] = sessions[q.session].header
    <3>1. /\ config \in Config /\ Table(config) # None /\ credentials = Table(config)
      BY <1>4 DEF IInv, TypeOK, TableInv
    <3> HIDE DEF q
    <3>2. /\ sessions[q.session].header \in DOMAIN credentials
          /\ sessions[q.session].user = credentials[sessions[q.session].header]
      BY <2>1 DEF IInv, SessionInv
    <3> QED
      BY <1>3, <2>1, <3>1, <3>2, OneTokenEach DEF Admitted
  <2>5. CASE q.method = "call"
    <3> DEFINE r == [q EXCEPT !.stage = "queued"]
    <3>1. request' = [request EXCEPT ![a] = r]
      BY <1>7, <2>5 DEF Deliver
    <3>2. /\ r \in Request /\ r.stage = "queued" /\ r.session = q.session
          /\ r.headers = q.headers /\ r.user = q.user
      BY <1>1, QueuedIsRequest
    <3> HIDE DEF r, q
    <3>3. Admitted(r) /\ q.session \in 1..issued
      BY <1>3, <1>5, <2>1, <3>2 DEF Admitted
    <3> QED
      BY <1>2, <1>4, <1>5, <2>1, <2>2, <2>3, <2>4, <3>1, <3>2, <3>3, RequestStep
  <2>6. CASE q.method # "call"
    <3> DEFINE r == Answered(q, "ok", q.session)
    <3>1. request' = [request EXCEPT ![a] = r]
      BY <1>7, <2>6 DEF Deliver, Answer
    <3>2. r \in Request /\ r.stage = "answered" /\ r.session = q.session
      BY <1>1, AnsweredIsRequest
    <3> HIDE DEF r, q
    <3> QED
      BY <1>1, <1>2, <1>4, <1>5, <2>1, <2>2, <2>3, <3>1, <3>2, RequestStep
  <2> QED
    BY <2>5, <2>6
<1>8. ASSUME TurnAway(a) PROVE IInv'
  <2> DEFINE r == Answered(q, "not found", q.session)
  <2>1. UNCHANGED <<sessions, issued>> /\ request' = [request EXCEPT ![a] = r]
    BY <1>8 DEF TurnAway, Answer
  <2>2. r \in Request /\ r.stage = "answered" /\ r.session = q.session
    BY <1>1, AnsweredIsRequest
  <2> HIDE DEF r, q
  <2> QED
    BY <1>1, <1>2, <1>5, <2>1, <2>2, RequestStep
<1> QED
  BY <1>6, <1>7, <1>8 DEF Route

\* A call's row names the client of its own request's token.
LEMMA ExecuteStep ==
  ASSUME IInv, NEW a \in Program, Execute(a)
  PROVE  IInv'
<1> DEFINE q == request[a]
           r == Answered(q, "ok", q.session)
           row == [client |-> ClientId(q), headers |-> q.headers, session |-> q.session,
                   config |-> config]
<1>1. /\ q \in Request /\ issued \in Nat
      /\ q.session \in 1..issued \union {None} /\ q.session \in Nat \union {None}
  BY RequestTyped
<1>2. /\ At(a, "queued")
      /\ rows' = rows \/ rows' = Append(rows, row)
      /\ request' = [request EXCEPT ![a] = r]
      /\ UNCHANGED <<process, token, session, sends>>
  BY DEF Execute, Answer
<1>3. Admitted(q) /\ q.session \in 1..issued
  BY <1>2 DEF IInv, AdmittedInv, QueuedInv
<1>4. /\ config \in Config /\ Table(config) # None /\ credentials = Table(config)
      /\ q.headers[1] \in DOMAIN Table(config)
  BY <1>3 DEF IInv, TypeOK, TableInv, Admitted
<1>5. r \in Request /\ r.stage = "answered" /\ r.session = q.session
  BY <1>1, AnsweredIsRequest
<1>6. row \in Row /\ GoodRow(row)
  <2>1. ClientId(q) \in Client \union {None}
    BY <1>1 DEF ClientId, Request
  <2>2. row \in Row
    <3>1. q.headers \in Headers
      BY <1>1 DEF Request
    <3>2. q.session \in Nat
      BY <1>1, <1>3
    <3> HIDE DEF q
    <3> QED
      BY <1>4, <2>1, <3>1, <3>2 DEF Row
  <2>3. NamesHolder(row)
    <3>1. SUFFICES ASSUME config.file # None
                   PROVE  /\ q.user \in DOMAIN config.file
                          /\ \A c \in DOMAIN config.file :
                               config.file[c] = q.headers[1] <=> c = q.user
      BY DEF NamesHolder, ClientId
    <3> HIDE DEF q
    <3> DEFINE t == q.headers[1]
    <3>2. q.user = Table(config)[t] /\ t \in DOMAIN Table(config)
      BY <1>3, <1>4 DEF Admitted
    <3> HIDE DEF t
    <3>3. /\ Table(config)[t] \in DOMAIN config.file
          /\ \A d \in DOMAIN config.file : config.file[d] = t <=> d = Table(config)[t]
      BY <1>4, <3>1, <3>2, TableGives
    <3> QED
      BY <3>2, <3>3 DEF t
  <2>4. HasCredential(row)
    <3>1. Len(q.headers) = 1
      BY <1>3 DEF Admitted
    <3> HIDE DEF q
    <3>2. \/ config.file = None /\ q.headers[1] = config.token
          \/ /\ config.token = None /\ config.file # Unreadable
             /\ q.headers[1] \in Range(config.file) \ Weak
      BY <1>4, TableGives
    <3> QED
      BY <3>1, <3>2 DEF HasCredential
  <2> QED
    BY <2>2, <2>3, <2>4 DEF GoodRow
<1>7. session' \in [Agent -> 1..issued \union {None}] /\ sends' \in 0..MaxSends
  BY <1>2 DEF IInv, TypeOK
<1> HIDE DEF r, q, row
<1> QED
  BY <1>1, <1>2, <1>5, <1>6, <1>7, RequestStep DEF process

\* A client that receives an answer keeps the session it was given.
LEMMA ReceiveStep ==
  ASSUME IInv, NEW a \in Program, Receive(a)
  PROVE  IInv'
<1>1. /\ issued \in Nat /\ request[a].session \in 1..issued \union {None}
      /\ request[a].session \in Nat \union {None}
  BY RequestTyped
<1>2. /\ UNCHANGED <<process, token, sends, rows>>
      /\ sends' \in 0..MaxSends
      /\ session \in [Agent -> 1..issued \union {None}] /\ token \in [Agent -> Token]
  BY DEF Receive, IInv, TypeOK
<1>3. CASE a \in Agent /\ request[a].method = "initialize" /\ request[a].status = "ok"
  <2> DEFINE headers == <<token[a]>>
             r == Fresh("sent", "notify", headers, request[a].session, None)
  <2>1. /\ session' = [session EXCEPT ![a] = request[a].session]
        /\ request' = [request EXCEPT ![a] = r]
    BY <1>3 DEF Receive
  <2>2. session' \in [Agent -> 1..issued \union {None}]
    BY <1>1, <1>2, <2>1
  <2>3. headers \in Headers
    BY <1>2, <1>3, Headed
  <2> HIDE DEF headers
  <2>4. r \in Request /\ r.session = request[a].session /\ r.stage = "sent"
    BY <1>1, <2>3 DEF Fresh, Request
  <2> HIDE DEF r
  <2> QED
    BY <1>1, <1>2, <2>1, <2>2, <2>4, RequestStep DEF process
<1>4. CASE ~(a \in Agent /\ request[a].method = "initialize" /\ request[a].status = "ok")
  <2>1. request' = [request EXCEPT ![a] = Idle] /\ UNCHANGED session
    BY <1>4 DEF Receive
  <2> QED
    BY <1>1, <1>2, <2>1, IdleRequest, RequestStep DEF process
<1> QED
  BY <1>3, <1>4

\* A server that starts has the table of what it read, or none and no sessions.
LEMMA StartStep ==
  ASSUME IInv, Start
  PROVE  IInv'
<1> USE DEF IInv
<1>1. /\ server # "up" /\ credentials = <<>> /\ sessions = <<>> /\ config = NoConfig
      /\ starts' \in 0..MaxStarts
      /\ UNCHANGED <<sessions, issued, clients, rows>>
  BY HttpAssumption DEF Start, TableInv, TypeOK
<1>2. PICK c \in Config :
        IF Table(c) = None
          THEN server' = "refused" /\ UNCHANGED <<config, credentials>>
          ELSE server' = "up" /\ config' = c /\ credentials' = Table(c)
  BY DEF Start
<1>3. /\ server' \in {"down", "up", "refused"} /\ config' \in Config
      /\ DOMAIN credentials' \subseteq Token /\ Range(credentials') \subseteq Client \union {None}
      /\ TableInv'
  BY <1>1, <1>2, TableType DEF TypeOK, TableInv
<1>4. TypeOK'
  BY <1>1, <1>3 DEF TypeOK, clients
<1>5. \A a \in Program : ~Admitted(request[a])
  BY <1>1 DEF Admitted
<1>6. AdmittedInv' /\ QueuedInv' /\ SessionsServeTheirMaker'
  BY <1>1, <1>5 DEF AdmittedInv, QueuedInv, SessionsServeTheirMaker, At, clients
<1>7. SessionInv' /\ RowsNameHolder' /\ RowsNeedCredential'
  BY <1>1 DEF SessionInv, RowsNameHolder, RowsNeedCredential
<1> QED
  BY <1>3, <1>4, <1>6, <1>7

\* A server that ends leaves no request past its middleware.
LEMMA StopStep ==
  ASSUME IInv, Stop
  PROVE  IInv'
<1> USE DEF IInv, Stop
<1>1. \A a \in Program : request'[a] = Idle
  OBVIOUS
<1>2. request' \in [Program -> Request]
  BY IdleRequest
<1>3. TypeOK'
  <2>1. config' \in Config
    BY MadeConfig
  <2>2. DOMAIN credentials' = {} /\ Range(credentials') = {} /\ DOMAIN sessions' = {}
    BY DEF Range
  <2>3. \A a \in Program : request'[a].session \in 1..issued' \union {None}
    BY <1>1, IdleRequest
  <2> QED
    BY <1>2, <2>1, <2>2, <2>3 DEF TypeOK
<1>4. TableInv' /\ SessionInv'
  BY DEF TableInv, SessionInv
<1>5. AdmittedInv' /\ QueuedInv' /\ SessionsServeTheirMaker'
  BY <1>1, IdleRequest DEF AdmittedInv, QueuedInv, SessionsServeTheirMaker, At
<1>6. RowsNameHolder' /\ RowsNeedCredential'
  BY DEF RowsNameHolder, RowsNeedCredential
<1> QED
  BY <1>3, <1>4, <1>5, <1>6

----------------------------------------------------------------------------
(* The theorems. *)

\* The inductive invariant holds initially: nothing is up and nothing sent.
THEOREM InitHolds == Init => IInv
<1> SUFFICES ASSUME Init PROVE IInv
  OBVIOUS
<1> USE DEF Init
<1>1. TypeOK
  <2>1. config \in Config
    BY MadeConfig
  <2>2. DOMAIN credentials = {} /\ Range(credentials) = {} /\ DOMAIN sessions = {}
    BY DEF Range
  <2>3. request \in [Program -> Request] /\ \A a \in Program : request[a].session = None
    BY IdleRequest
  <2>4. rows \in Seq(Row)
    OBVIOUS
  <2> QED
    BY <2>1, <2>2, <2>3, <2>4, HttpAssumption DEF TypeOK
<1>2. TableInv /\ SessionInv
  BY DEF TableInv, SessionInv
<1>3. AdmittedInv /\ QueuedInv /\ SessionsServeTheirMaker
  BY IdleRequest DEF AdmittedInv, QueuedInv, SessionsServeTheirMaker, At
<1>4. RowsNameHolder /\ RowsNeedCredential
  BY DEF RowsNameHolder, RowsNeedCredential
<1> QED
  BY <1>1, <1>2, <1>3, <1>4 DEF IInv

\* Every step keeps the inductive invariant.
THEOREM StepHolds == IInv /\ [Next]_vars => IInv'
<1> SUFFICES ASSUME IInv, [Next]_vars PROVE IInv'
  OBVIOUS
<1>1. ASSUME NEW a \in Agent, Initialize(a) \/ CallTool(a) \/ Close(a) PROVE IInv'
  <2>1. /\ a \in Program /\ <<token[a]>> \in Headers
        /\ session[a] \in 1..issued \union {None}
    BY Headed DEF Program, IInv, TypeOK
  <2> QED
    BY <1>1, <2>1, SendStep DEF Initialize, CallTool, Close
<1>2. ASSUME NEW a \in Other, SendAnything(a) PROVE IInv'
  <2>1. PICK method \in {"initialize", "call", "delete"}, headers \in Headers,
             id \in 1..issued \union {None} :
          \E claimed \in {None} \union IF method = "call" THEN Client ELSE {} :
            Send(a, method, headers, id, claimed)
    BY <1>2 DEF SendAnything
  <2>2. PICK claimed \in Client \union {None} : Send(a, method, headers, id, claimed)
    BY <2>1
  <2> QED
    BY <2>2, SendStep DEF Program
<1>3. ASSUME NEW a \in Program, Authenticate(a) \/ Route(a) \/ Execute(a) \/ Receive(a)
      PROVE  IInv'
  BY <1>3, AuthenticateStep, RouteStep, ExecuteStep, ReceiveStep
<1>4. ASSUME UNCHANGED vars PROVE IInv'
  <2> USE <1>4 DEF IInv, vars, process, clients
  <2>1. TypeOK' /\ TableInv' /\ SessionInv'
    BY DEF TypeOK, TableInv, SessionInv
  <2>2. AdmittedInv' /\ QueuedInv' /\ SessionsServeTheirMaker'
    BY DEF AdmittedInv, QueuedInv, SessionsServeTheirMaker, At, Admitted
  <2>3. RowsNameHolder' /\ RowsNeedCredential'
    BY DEF RowsNameHolder, RowsNeedCredential
  <2> QED
    BY <2>1, <2>2, <2>3
<1> QED
  BY <1>1, <1>2, <1>3, <1>4, StartStep, StopStep DEF Next, Rest

\* The inductive invariant holds in every state.
THEOREM Invariant == Spec => []IInv
  BY InitHolds, StepHolds, PTL DEF Spec

\* Every variable keeps its type.
THEOREM TypeCorrect == Spec => []TypeOK
<1>1. IInv => TypeOK
  BY DEF IInv
<1> QED
  BY <1>1, Invariant, PTL

\* Every audit row names the client to whom the file gives its request's token.
THEOREM IdentityIsBound == Spec => []RowsNameHolder
<1>1. IInv => RowsNameHolder
  BY DEF IInv
<1> QED
  BY <1>1, Invariant, PTL

\* No row without one token that was in force.
THEOREM FailsClosed == Spec => []RowsNeedCredential
<1>1. IInv => RowsNeedCredential
  BY DEF IInv
<1> QED
  BY <1>1, Invariant, PTL

\* A session admits the requests of the client that made it and of no other.
THEOREM SessionsAreBound == Spec => []SessionsServeTheirMaker
<1>1. IInv => SessionsServeTheirMaker
  BY DEF IInv
<1> QED
  BY <1>1, Invariant, PTL

====
