---- MODULE RawClient ----
(***************************************************************************)
(* The stdio client, client/raw_client.py: the thread of the application,  *)
(* which makes one request at a time, the thread that reads the server's   *)
(* stdout into a queue, the thread that drains its stderr, and the three   *)
(* pipes.                                                                  *)
(*                                                                         *)
(* The server is external: any program that may answer a request late, out *)
(* of order or never, send notifications and requests of its own, print    *)
(* what is not JSON, log to stderr, stop reading and die.  A line is       *)
(* modelled by what the client does with it.                               *)
(***************************************************************************)
EXTENDS Integers, Sequences, FiniteSets

CONSTANTS
  Methods,      \* the methods the application calls
  ServerIds,    \* the ids of the server's own requests, one each
  Noise,        \* the kinds of other lines on stdout
  LogLines,     \* the kinds of lines on stderr
  PipeSize,     \* how many lines the stderr pipe holds
  MaxRequests,  \* bound: requests of the application
  MaxNoise,     \* bound: other lines on stdout ...
  Endless       \* ... unless the server never falls silent

ASSUME ClientAssumption ==
  /\ Methods \subseteq {"initialize", "tools/list", "tools/call"}
  /\ ServerIds \subseteq Nat
  /\ Noise \subseteq {"notification", "junk", "undecodable"}
  /\ LogLines \subseteq {"text", "undecodable"}
  /\ PipeSize \in Nat \ {0}
  /\ MaxRequests \in Nat
  /\ MaxNoise \in Nat
  /\ Endless \in BOOLEAN

VARIABLES
  pc,         \* where the application's thread is
  requests,   \* the requests made so far; the id of a request is its index
  incoming,   \* the queue between the reader thread and the application
  reading,    \* the reader thread is alive
  draining,   \* the stderr thread is alive
  stdin, stdout, stderr,  \* the pipes: what is written and not yet read
  running,    \* the server process is alive
  working,    \* requests the server has read and not answered
  executed,   \* those it has carried out, in that order
  asked,      \* ids of the requests the server has made
  told,       \* ids of those whose answer it has read
  noise       \* how many other lines it has written

client == <<pc, requests, incoming, reading, draining>>
server == <<working, executed, asked, told, noise>>
vars == <<client, stdin, stdout, stderr, running, server>>

\* A line or a queued message.  A "partial" result is a page of tools with a
\* nextCursor, or the answer to initialize without serverInfo.
Message(kind, id) == [kind |-> kind, id |-> id]
Eof == Message("eof", 0)
Pending == Message("pending", 0)
Failed == Message("failed", 0)        \* ConnectionError
Answers == {"result", "partial", "error"}

Init ==
  /\ pc = "idle"
  /\ requests = <<>> /\ incoming = <<>>
  /\ reading = TRUE /\ draining = TRUE
  /\ stdin = <<>> /\ stdout = <<>> /\ stderr = <<>>
  /\ running = TRUE
  /\ working = {} /\ executed = <<>>
  /\ asked = {} /\ told = {} /\ noise = 0

----------------------------------------------------------------------------
(* The application's thread. *)

\* The id of the request under way.
RequestId == Len(requests)
Method == requests[RequestId].method

\* A line for the server; a dead server's pipe is broken.
Sent(line) == IF running THEN Append(stdin, line) ELSE stdin

Settle(outcome, next) ==
  /\ requests' = [requests EXCEPT ![RequestId].outcome = outcome]
  /\ pc' = next

\* _request: a fresh id is taken and the request written.
Send(method) ==
  /\ RequestId < MaxRequests
  /\ requests' = Append(requests, [method |-> method,
                                   outcome |-> IF running THEN Pending ELSE Failed])
  /\ pc' = IF running THEN "waiting" ELSE "idle"
  /\ stdin' = Sent(Message("request", RequestId + 1))
  /\ UNCHANGED <<incoming, reading, draining, stdout, stderr, running, server>>

\* Mutant of Request: it does not wait for the request before it.
RequestPipelined(method) == pc \in {"idle", "waiting"} /\ Send(method)

Request(method) == pc = "idle" /\ Send(method)

\* list_tools follows the cursor it was given.
NextPage == pc = "paging" /\ Send("tools/list")

\* The bound on requests, reached in the middle of a list.
PagesEnd ==
  /\ pc = "paging" /\ RequestId = MaxRequests
  /\ pc' = "idle"
  /\ UNCHANGED <<requests, incoming, reading, draining, stdin, stdout, stderr, running, server>>

\* The message at the head of the queue is taken.
Take(kinds) ==
  /\ pc = "waiting"
  /\ incoming # <<>>
  /\ Head(incoming).kind \in kinds
  /\ incoming' = Tail(incoming)
  /\ UNCHANGED <<reading, draining, stdout, stderr, running, server>>

\* Notifications are stashed; a response with another id is left alone.
Skip ==
  /\ Take({"notification"} \union Answers)
  /\ Head(incoming).kind \in Answers => Head(incoming).id # RequestId
  /\ UNCHANGED <<pc, requests, stdin>>

\* Mutant of AnswerServer: the server's request is skipped like a response.
AnswerServerIgnored ==
  /\ Take({"request"})
  /\ Head(incoming).id # RequestId
  /\ UNCHANGED <<pc, requests, stdin>>

\* A request of the server's is refused, and the wait goes on.
AnswerServer ==
  /\ Take({"request"})
  /\ Head(incoming).id # RequestId
  /\ stdin' = Sent(Message("reply", Head(incoming).id))
  /\ IF running THEN UNCHANGED <<pc, requests>> ELSE Settle(Failed, "idle")

\* What follows a result of each method.
After(outcome) ==
  CASE outcome.kind = "result" /\ Method = "initialize" -> "greeting"
    [] outcome.kind = "partial" /\ Method = "tools/list" -> "paging"
    [] OTHER -> "idle"

\* Mutant of Finish: the next response is taken for the one awaited.
FinishUnmatched ==
  /\ Take(Answers)
  /\ Settle(Head(incoming), After(Head(incoming)))
  /\ UNCHANGED stdin

\* Whatever bears the id of the request is its response.
Finish ==
  /\ Take(Answers \union {"request"})
  /\ Head(incoming).id = RequestId
  /\ Settle(Head(incoming), After(Head(incoming)))
  /\ UNCHANGED stdin

\* Mutant of Break: the sentinel is handed to the caller.
BreakRaw ==
  /\ Take({"eof", "junk"})
  /\ Settle(Head(incoming), "idle")
  /\ UNCHANGED stdin

\* End of file, or a line that was not JSON.
Break ==
  /\ Take({"eof", "junk"})
  /\ Settle(Failed, "idle")
  /\ UNCHANGED stdin

\* Mutant of Timeout: the wait starts over.
TimeoutRetried ==
  /\ pc = "waiting"
  /\ incoming = <<>>
  /\ UNCHANGED vars

\* Nothing has come for as long as the timeout allows.
Timeout ==
  /\ pc = "waiting"
  /\ incoming = <<>>
  /\ Settle(Failed, "idle")
  /\ UNCHANGED <<incoming, reading, draining, stdin, stdout, stderr, running, server>>

\* initialize ends with notifications/initialized.
Greet ==
  /\ pc = "greeting"
  /\ pc' = "idle"
  /\ stdin' = Sent(Message("initialized", 0))
  /\ UNCHANGED <<requests, incoming, reading, draining, stdout, stderr, running, server>>

\* The server is gone, and with it what it had read and not answered.
Die ==
  /\ running' = FALSE
  /\ stdin' = <<>> /\ working' = {}
  /\ UNCHANGED <<stdout, stderr, executed, asked, told, noise>>

\* close: stdin is closed, then the server is given time, a signal, no choice.
Close ==
  /\ pc = "idle"
  /\ pc' = "closing"
  /\ UNCHANGED <<requests, incoming, reading, draining, stdin, stdout, stderr, running, server>>

Terminate ==
  /\ pc = "closing" /\ running
  /\ pc' = "terminating"
  /\ UNCHANGED <<requests, incoming, reading, draining, stdin, stdout, stderr, running, server>>

\* Mutant of Kill: a server that ignores the signal is left behind.
KillForgotten ==
  /\ pc = "terminating" /\ running
  /\ pc' = "closed"
  /\ UNCHANGED <<requests, incoming, reading, draining, stdin, stdout, stderr, running, server>>

Kill ==
  /\ pc = "terminating" /\ running
  /\ pc' = "killing"
  /\ Die
  /\ UNCHANGED <<requests, incoming, reading, draining>>

Closed ==
  /\ pc \in {"closing", "terminating", "killing"} /\ ~running
  /\ pc' = "closed"
  /\ UNCHANGED <<requests, incoming, reading, draining, stdin, stdout, stderr, running, server>>

----------------------------------------------------------------------------
(* The reader and the stderr threads. *)

ReadLine ==
  /\ reading /\ stdout # <<>>
  /\ stdout' = Tail(stdout)
  /\ IF Head(stdout).kind = "undecodable"
       THEN incoming' = Append(incoming, Eof) /\ reading' = FALSE
       ELSE incoming' = Append(incoming, Head(stdout)) /\ UNCHANGED reading
  /\ UNCHANGED <<pc, requests, draining, stdin, stderr, running, server>>

\* The sentinel is queued once.
ReadEof ==
  /\ reading /\ stdout = <<>> /\ ~running
  /\ incoming' = Append(incoming, Eof)
  /\ reading' = FALSE
  /\ UNCHANGED <<pc, requests, draining, stdin, stdout, stderr, running, server>>

\* Mutant of Drain: stderr is read once the process has ended.
DrainAtExit ==
  /\ draining /\ stderr # <<>> /\ ~running
  /\ stderr' = Tail(stderr)
  /\ UNCHANGED <<client, stdin, stdout, running, server>>

\* UnicodeDecodeError is a ValueError: the thread ends as at teardown.
Drain ==
  /\ draining /\ stderr # <<>>
  /\ stderr' = Tail(stderr)
  /\ draining' = (Head(stderr) # "undecodable")
  /\ UNCHANGED <<pc, requests, incoming, reading, stdin, stdout, running, server>>

----------------------------------------------------------------------------
(* The server. *)

ServerRead ==
  /\ running /\ stdin # <<>>
  /\ stdin' = Tail(stdin)
  /\ LET line == Head(stdin) IN
     /\ working' = IF line.kind = "request" THEN working \union {line.id} ELSE working
     /\ told' = IF line.kind = "reply" THEN told \union {line.id} ELSE told
  /\ UNCHANGED <<client, stdout, stderr, running, executed, asked, noise>>

Executed == {executed[i] : i \in DOMAIN executed}

\* The server cannot log, and so not go on, while the pipe is full.
Blocked == running /\ Len(stderr) = PipeSize

\* A request is carried out, and logged.
Execute(id) ==
  /\ running /\ id \in working \ Executed
  /\ ~Blocked
  /\ \E line \in LogLines : stderr' = Append(stderr, line)
  /\ executed' = Append(executed, id)
  /\ UNCHANGED <<client, stdin, stdout, running, working, asked, told, noise>>

Respond(id) ==
  /\ running /\ id \in working \intersect Executed
  /\ \E kind \in Answers :
       /\ kind = "partial" => requests[id].method # "tools/call"
       /\ stdout' = Append(stdout, Message(kind, id))
  /\ working' = working \ {id}
  /\ UNCHANGED <<client, stdin, stderr, running, executed, asked, told, noise>>

Ask(id) ==
  /\ running /\ id \in ServerIds \ asked
  /\ stdout' = Append(stdout, Message("request", id))
  /\ asked' = asked \union {id}
  /\ UNCHANGED <<client, stdin, stderr, running, working, executed, told, noise>>

\* Endless lines come one at a time.
Interject ==
  /\ running
  /\ IF Endless
       THEN stdout = <<>> /\ incoming = <<>> /\ UNCHANGED noise
       ELSE noise < MaxNoise /\ noise' = noise + 1
  /\ \E kind \in Noise : stdout' = Append(stdout, Message(kind, 0))
  /\ UNCHANGED <<client, stdin, stderr, running, working, executed, asked, told>>

\* It ends when stdin does, when it is terminated, or when it fails.
Exit ==
  /\ running
  /\ Die
  /\ UNCHANGED client

Finished == pc = "closed" /\ UNCHANGED vars

----------------------------------------------------------------------------
Application ==
  \/ NextPage \/ PagesEnd \/ Greet
  \/ Skip \/ AnswerServer \/ Finish \/ Break \/ Timeout
  \/ Terminate \/ Kill \/ Closed

Reader == ReadLine \/ ReadEof

Server ==
  \/ ServerRead \/ Interject \/ Exit
  \/ \E id \in 1..MaxRequests : Execute(id) \/ Respond(id)
  \/ \E id \in ServerIds : Ask(id)

Next ==
  \/ \E method \in Methods : Request(method)
  \/ Close \/ Application \/ Reader \/ Drain \/ Server \/ Finished

Spec == Init /\ [][Next]_vars

\* The client's three threads run; nothing is assumed of the server, nor that
\* the application makes another call.
FairSpec == Spec /\ WF_vars(Application) /\ WF_vars(Reader) /\ WF_vars(Drain)

----------------------------------------------------------------------------
(* Properties. *)

Kinds == Answers \union Noise \union {"request"}
Lines == [kind: Kinds, id: Nat]
Outcome == [kind: Answers \union {"request", "pending", "failed"}, id: Nat]

\* Types of every variable.
TypeOK ==
  /\ pc \in {"idle", "waiting", "paging", "greeting", "closing", "terminating", "killing",
             "closed"}
  /\ requests \in Seq([method: Methods \union {"tools/list"}, outcome: Outcome])
  /\ incoming \in Seq(Lines \union {Eof})
  /\ reading \in BOOLEAN /\ draining \in BOOLEAN
  /\ stdin \in Seq([kind: {"request", "reply", "initialized"}, id: Nat])
  /\ stdout \in Seq(Lines)
  /\ stderr \in Seq(LogLines)
  /\ running \in BOOLEAN
  /\ working \subseteq Nat /\ executed \in Seq(Nat)
  /\ asked \subseteq ServerIds /\ told \subseteq ServerIds
  /\ noise \in Nat

\* A request that returned or raised MCPError did so by the server's own answer
\* to it, whatever answers to requests given up on arrive in between.
OwnAnswer ==
  \A n \in DOMAIN requests :
    LET outcome == requests[n].outcome IN
    outcome \notin {Pending, Failed} =>
      outcome.kind \in Answers /\ outcome.id = n /\ n \in Executed

\* The client has turned away from a request it made: it gave up on it, or it took a
\* request of the server's own with the same id for its answer.
Abandoned(n) ==
  requests[n].outcome = Failed \/ requests[n].outcome.kind = "request"

\* The server carries calls out in the order they were made, but for calls the
\* client has turned away from: only those may still take effect after later ones.
OnlyAbandonedCallsLag ==
  \A i, j \in DOMAIN executed :
    i < j /\ executed[j] < executed[i] => Abandoned(executed[j])

\* "answers server-initiated requests with a method-not-found error so the
\* server never blocks on us" (raw_client.py:169): a request of the server's
\* that the client has taken off its queue has been answered.
InTransit(id) ==
  \/ \E i \in DOMAIN stdout : stdout[i] = Message("request", id)
  \/ \E i \in DOMAIN incoming : incoming[i] = Message("request", id)
ServerRequestsAnswered ==
  \A id \in asked :
    running /\ ~InTransit(id) =>
      id \in told \/ \E i \in DOMAIN stdin : stdin[i] = Message("reply", id)

\* "A server that never replies must surface as ConnectionError within the
\* configured timeout, not block the client forever" (test_phase1_client.py:61).
EveryRequestEnds ==
  \A n \in 1..MaxRequests :
    (n \in DOMAIN requests /\ requests[n].outcome = Pending) ~>
      (n \in DOMAIN requests /\ requests[n].outcome # Pending)

\* "Drain the server's stderr forever so it can never block on a log write"
\* (raw_client.py:121).
LoggingNeverWedges == Blocked ~> ~Blocked

\* close ends, and leaves no server process behind.
CloseReapsServer == (pc = "closing") ~> (pc = "closed" /\ ~running)

====
