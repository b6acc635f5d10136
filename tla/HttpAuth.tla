---- MODULE HttpAuth ----
(***************************************************************************)
(* The HTTP transport: starting or refusing to start, the credentials, the *)
(* bearer-token middleware and the identity of tool calls                  *)
(* (server/memory_server.py), with RawHTTPMCPClient (client/raw_client.py) *)
(* at the other end and other programs that send what they like.           *)
(*                                                                         *)
(* The SDK is external: it binds each session to the principal of the      *)
(* request that made it, answers 404 for a session that is unknown or      *)
(* another's, and hands the request to the tool.  What a call does to the  *)
(* store is MemoryStore's; here it writes the row that names its client.   *)
(***************************************************************************)
EXTENDS Integers, Sequences, Functions

CONSTANTS
  Agent,      \* programs that use RawHTTPMCPClient
  Other,      \* programs that send what they like
  Client,     \* client ids
  BadId,      \* names in a clients file that are no client ids
  Token,      \* bearer tokens
  Weak,       \* those that are too short or have other characters
  None,       \* no token, no file, no session, no user
  Unreadable, \* a file that is not there or not JSON
  MaxStarts,  \* bound: starts of the server
  MaxSends    \* bound: requests sent

ASSUME HttpAssumption ==
  /\ Agent \intersect Other = {}
  /\ Weak \subseteq Token
  /\ None \notin Client \union Token
  /\ BadId \intersect Client = {}
  /\ MaxStarts \in Nat /\ MaxSends \in Nat

VARIABLES
  server,       \* "down", "up", or "refused" to start
  config,       \* MCP_AUTH_TOKEN and the clients file, as it started with them
  credentials,  \* the table: for each token the client, or None for a shared one
  sessions,     \* the SDK's sessions, each with its user and, for history, its header
  issued,       \* history: sessions issued, by which they are numbered
  starts,       \* history: starts of the server
  token,        \* RawHTTPMCPClient.token of each agent
  session,      \* RawHTTPMCPClient.session_id
  request,      \* the request of each agent that is under way
  sends,        \* history: requests sent
  rows          \* the audit rows that calls have written

Program == Agent \union Other

process == <<server, config, credentials, sessions, issued, starts>>
clients == <<token, session, request, sends>>
vars == <<process, clients, rows>>

\* A clients file: a JSON object maps names to tokens, or nothing can be read.
Files == UNION {[names -> Token] : names \in SUBSET (Client \union BadId)}
Config == [token: Token \union {None}, file: Files \union {None, Unreadable}]
NoConfig == [token |-> None, file |-> None]

\* The Authorization headers of a request.
Headers == {<<>>} \union [{1} -> Token] \union [{1, 2} -> Token]

Request == [stage: {"idle", "sent", "admitted", "queued", "answered"},
            method: {"initialize", "notify", "call", "delete"},
            headers: Headers, session: Nat \union {None}, claimed: Client \union {None},
            user: Client \union {None}, status: {"none", "ok", "unauthorized", "not found"}]

Fresh(stage, method, headers, id, claimed) ==
  [stage |-> stage, method |-> method, headers |-> headers, session |-> id,
   claimed |-> claimed, user |-> None, status |-> "none"]

Idle == Fresh("idle", "notify", <<>>, None, None)

Init ==
  /\ server = "down" /\ config = NoConfig /\ credentials = <<>>
  /\ sessions = <<>> /\ issued = 0 /\ starts = 0
  /\ token \in [Agent -> Token]
  /\ session = [a \in Agent |-> None]
  /\ request = [a \in Program |-> Idle]
  /\ sends = 0
  /\ rows = <<>>

At(a, stage) == request[a].stage = stage

----------------------------------------------------------------------------
(* The server starts and stops. *)

\* _load_client_tokens accepts a nonempty object of client ids with strong tokens, no
\* two the same.
Loadable(file) ==
  /\ file # Unreadable
  /\ DOMAIN file # {} /\ DOMAIN file \subseteq Client
  /\ \A c \in DOMAIN file : file[c] \notin Weak
  /\ \A c, d \in DOMAIN file : file[c] = file[d] => c = d

\* Mutant of ByToken: the table has clients for keys.
ByClient(file) == file

ByToken(file) == [t \in Range(file) |-> CHOOSE c \in DOMAIN file : file[c] = t]

\* Mutant of Table: a token may be set beside the file.
TableOfBoth(c) ==
  IF c.file \notin {None, Unreadable} THEN IF Loadable(c.file) THEN ByToken(c.file) ELSE None
  ELSE IF c.token # None THEN [t \in {c.token} |-> None]
  ELSE None

\* _run_http: the credentials, or None to refuse.
Table(c) ==
  IF (c.token # None) = (c.file # None) THEN None
  ELSE IF c.token # None THEN [t \in {c.token} |-> None]
  ELSE IF Loadable(c.file) THEN ByToken(c.file)
  ELSE None

\* The environment and the file are read once; a server that refuses serves nobody.
Start ==
  /\ server # "up" /\ starts < MaxStarts
  /\ \E c \in Config :
       IF Table(c) = None
         THEN server' = "refused" /\ UNCHANGED <<config, credentials>>
         ELSE server' = "up" /\ config' = c /\ credentials' = Table(c)
  /\ starts' = starts + 1
  /\ UNCHANGED <<sessions, issued, clients, rows>>

\* The server ends, at any point: sessions and what it works on are gone, and
\* the clients see their connection break.
Stop ==
  /\ server = "up"
  /\ server' = "down" /\ config' = NoConfig /\ credentials' = <<>> /\ sessions' = <<>>
  /\ request' = [a \in Program |-> Idle]
  /\ UNCHANGED <<issued, starts, token, session, sends, rows>>

----------------------------------------------------------------------------
(* The client. *)

Send(a, method, headers, id, claimed) ==
  /\ server = "up" /\ At(a, "idle") /\ sends < MaxSends
  /\ request' = [request EXCEPT ![a] = Fresh("sent", method, headers, id, claimed)]
  /\ sends' = sends + 1
  /\ UNCHANGED <<process, token, session, rows>>

\* initialize, call_tool and close: one header, and the session it has, if any.
Initialize(a) == Send(a, "initialize", <<token[a]>>, session[a], None)
CallTool(a) == \E claimed \in Client \union {None} : Send(a, "call", <<token[a]>>, session[a], claimed)
Close(a) == session[a] # None /\ Send(a, "delete", <<token[a]>>, session[a], None)

\* Another program: any headers, any session.
SendAnything(a) ==
  \E method \in {"initialize", "call", "delete"}, headers \in Headers,
     id \in 1..issued \union {None} :
    \E claimed \in {None} \union IF method = "call" THEN Client ELSE {} :
      Send(a, method, headers, id, claimed)

\* The answer: initialize takes the id that was issued and sends its notification,
\* whose answer it ignores; any other status is raised.
Receive(a) ==
  /\ At(a, "answered")
  /\ IF a \in Agent /\ request[a].method = "initialize" /\ request[a].status = "ok"
       THEN /\ session' = [session EXCEPT ![a] = request[a].session]
            /\ request' = [request EXCEPT ![a] =
                 Fresh("sent", "notify", <<token[a]>>, request[a].session, None)]
       ELSE request' = [request EXCEPT ![a] = Idle] /\ UNCHANGED session
  /\ UNCHANGED <<process, token, sends, rows>>

----------------------------------------------------------------------------
(* The server: middleware, sessions, tools. *)

Answered(r, status, id) == [r EXCEPT !.stage = "answered", !.status = status, !.session = id]

Answer(a, status, id) == request' = [request EXCEPT ![a] = Answered(@, status, id)]

\* The request goes on with a user in its scope.
Passed(r, user) == [r EXCEPT !.stage = "admitted", !.user = user]

\* Mutant of Authenticate: the user is not put in the scope of the request.
AuthenticateBare(a) ==
  /\ At(a, "sent")
  /\ IF Len(request[a].headers) = 1 /\ request[a].headers[1] \in DOMAIN credentials
       THEN request' = [request EXCEPT ![a].stage = "admitted"]
       ELSE Answer(a, "unauthorized", request[a].session)
  /\ UNCHANGED <<process, token, session, sends, rows>>

\* _auth_middleware: exactly one header, and it is one of the table; the user of
\* the request is its client, if it has one.
Authenticate(a) ==
  /\ At(a, "sent")
  /\ IF Len(request[a].headers) = 1 /\ request[a].headers[1] \in DOMAIN credentials
       THEN request' = [request EXCEPT ![a] = Passed(@, credentials[request[a].headers[1]])]
       ELSE Answer(a, "unauthorized", request[a].session)
  /\ UNCHANGED <<process, token, session, sends, rows>>

Opens(r) == r.method = "initialize" /\ r.session = None
Admits(r) == r.session \in DOMAIN sessions /\ sessions[r.session].user = r.user

\* The SDK makes a session, whose id is the answer,
MakeSession(a) ==
  LET r == request[a] IN
  /\ Opens(r)
  /\ issued' = issued + 1
  /\ sessions' = [s \in DOMAIN sessions \union {issued'} |->
                    IF s = issued' THEN [user |-> r.user, header |-> r.headers[1]] ELSE sessions[s]]
  /\ Answer(a, "ok", issued')

\* or ends it, takes a notification or hands over a call,
Deliver(a) ==
  LET r == request[a] IN
  /\ ~Opens(r) /\ Admits(r)
  /\ IF r.method = "call" THEN request' = [request EXCEPT ![a].stage = "queued"]
     ELSE Answer(a, "ok", r.session)
  /\ sessions' = IF r.method = "delete" THEN Restrict(sessions, DOMAIN sessions \ {r.session})
                 ELSE sessions
  /\ UNCHANGED issued

\* or knows no such session of this user (404, or 400 if none is named).
TurnAway(a) ==
  /\ ~Opens(request[a]) /\ ~Admits(request[a])
  /\ Answer(a, "not found", request[a].session)
  /\ UNCHANGED <<sessions, issued>>

Route(a) ==
  /\ At(a, "admitted")
  /\ MakeSession(a) \/ Deliver(a) \/ TurnAway(a)
  /\ UNCHANGED <<server, config, credentials, starts, token, session, sends, rows>>

\* Mutant of ClientId: the user is a variable of the process.
ClientIdShared(r) ==
  IF config.file = None THEN r.claimed
  ELSE CHOOSE user \in {request[a].user : a \in Program} \ {None} : TRUE

\* _client_id: of the request the call came with, or as the caller says; None
\* stands for MCP_CLIENT_ID.
ClientId(r) == IF config.file # None THEN r.user ELSE r.claimed

\* The call runs when it gets _SERVER_LOCK, and logs its row; without a user to
\* name it is a ToolError.
Execute(a) ==
  LET r == request[a] IN
  /\ At(a, "queued")
  /\ IF config.file # None /\ r.user = None
       THEN UNCHANGED rows
       ELSE rows' = Append(rows, [client |-> ClientId(r), headers |-> r.headers,
                                  session |-> r.session, config |-> config])
  /\ Answer(a, "ok", r.session)
  /\ UNCHANGED <<process, token, session, sends>>

\* The bounds are reached.
Rest ==
  /\ \/ server # "up" /\ starts = MaxStarts
     \/ server = "up" /\ sends = MaxSends /\ \A a \in Program : At(a, "idle")
  /\ UNCHANGED vars

Next ==
  \/ Start \/ Stop \/ Rest
  \/ \E a \in Agent : Initialize(a) \/ CallTool(a) \/ Close(a)
  \/ \E a \in Other : SendAnything(a)
  \/ \E a \in Program :
       \/ Authenticate(a) \/ Route(a) \/ Execute(a) \/ Receive(a)

Spec == Init /\ [][Next]_vars

----------------------------------------------------------------------------
(* Properties. *)

Row == [client: Client \union {None}, headers: Headers, session: Nat, config: Config]

\* Types of every variable.
TypeOK ==
  /\ server \in {"down", "up", "refused"}
  /\ config \in Config
  /\ DOMAIN credentials \subseteq Token /\ Range(credentials) \subseteq Client \union {None}
  /\ DOMAIN sessions \subseteq 1..issued
  /\ \A s \in DOMAIN sessions : sessions[s] \in [user: Client \union {None}, header: Token]
  /\ issued \in Nat /\ starts \in 0..MaxStarts /\ sends \in 0..MaxSends
  /\ token \in [Agent -> Token] /\ session \in [Agent -> 1..issued \union {None}]
  /\ request \in [Program -> Request]
  /\ \A a \in Program : request[a].session \in 1..issued \union {None}
  /\ rows \in Seq(Row)

\* "Facts and audit records use that identity even when tool arguments include a
\* different client_id" (docs/AUTH.md:32): while a clients file is in force, every
\* row names the one client to whom the file gives the token of its request, of
\* whatever session and however many others run in between.
RowsNameHolder ==
  \A i \in DOMAIN rows :
    LET row == rows[i]  file == row.config.file IN
    file # None =>
      /\ row.client \in DOMAIN file
      /\ \A c \in DOMAIN file : file[c] = row.headers[1] <=> c = row.client

\* "Fails closed" (memory_server.py:638) and "to revoke a client, remove its entry
\* and restart" (docs/AUTH.md:37): no row without exactly one header, whose token
\* was in force when the row was written; a server with no credentials, with two
\* sources of them, or with a file it cannot take, writes none.
RowsNeedCredential ==
  \A i \in DOMAIN rows :
    LET row == rows[i]  c == row.config IN
    /\ Len(row.headers) = 1
    /\ \/ c.file = None /\ row.headers[1] = c.token
       \/ /\ c.token = None /\ c.file # Unreadable
          /\ row.headers[1] \in Range(c.file) \ Weak

\* "binds the session to the configured identity" (docs/AUTH.md:31): a session
\* admits the requests of the client that made it and of no other, although ids
\* can be sent by anyone who knows them.
SessionsServeTheirMaker ==
  \A a \in Program :
    LET r == request[a] IN
    At(a, "queued") /\ r.session \in DOMAIN sessions => r.headers[1] = sessions[r.session].header

\* "the restart ends active sessions, so remaining clients must reconnect"
\* (docs/AUTH.md:39): a client that initializes with a token in force is not
\* turned away.
ClientsCanReconnect ==
  \A a \in Agent :
    At(a, "answered") /\ request[a].method = "initialize" => request[a].status # "not found"

----------------------------------------------------------------------------
(* The inductive invariant. *)

\* The table is that of the configuration in force; without one there are neither
\* tokens nor sessions.
TableInv ==
  /\ server = "up" => Table(config) # None /\ credentials = Table(config)
  /\ server # "up" => config = NoConfig /\ credentials = <<>> /\ sessions = <<>>

\* A request past the middleware has one token of the table, and its user.
Admitted(r) ==
  /\ Len(r.headers) = 1 /\ r.headers[1] \in DOMAIN credentials
  /\ r.user = credentials[r.headers[1]]

AdmittedInv == \A a \in Program : At(a, "admitted") \/ At(a, "queued") => Admitted(request[a])

\* A session was made with a token of the table, and has its user.
SessionInv ==
  \A s \in DOMAIN sessions :
    /\ sessions[s].header \in DOMAIN credentials
    /\ sessions[s].user = credentials[sessions[s].header]

\* A call under way names a session that was issued.
QueuedInv == \A a \in Program : At(a, "queued") => request[a].session \in 1..issued

IInv ==
  /\ TypeOK /\ TableInv /\ AdmittedInv /\ SessionInv /\ QueuedInv
  /\ SessionsServeTheirMaker /\ RowsNameHolder /\ RowsNeedCredential

====
