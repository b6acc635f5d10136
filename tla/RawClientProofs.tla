---- MODULE RawClientProofs ----
(***************************************************************************)
(* Safety of the stdio client, proved for any methods, noise, log lines,   *)
(* pipe and bounds, and for any server that answers each request at most   *)
(* once: a caller is given the answer to its own request, calls take       *)
(* effect in the order they were made unless given up on, no request of    *)
(* the server's is left without a reply, and a wait uses up the messages   *)
(* it can still be sent.                                                   *)
(*                                                                         *)
(* The first and the third hold as long as no id of the server's own       *)
(* requests is one of the client's.                                        *)
(***************************************************************************)
EXTENDS RawClient, FiniteSetTheorems, SequenceTheorems, TLAPS

\* raw_client.py:108: the client numbers its requests from 1; a server that counts
\* its own far above them cannot be mistaken.
NoClash == \A id \in ServerIds : id > MaxRequests

----------------------------------------------------------------------------
(* Sequences as pipes and queues. *)

Has(s, m) == \E i \in DOMAIN s : s[i] = m

\* What is in a queue after one more line.
LEMMA HasAppend ==
  ASSUME NEW S, NEW s \in Seq(S), NEW e \in S
  PROVE  /\ Append(s, e) \in Seq(S)
         /\ \A m : Has(Append(s, e), m) <=> Has(s, m) \/ m = e
<1>1. /\ Len(s) \in Nat /\ DOMAIN s = 1..Len(s) /\ DOMAIN Append(s, e) = 1 .. Len(s) + 1
      /\ Append(s, e)[Len(s) + 1] = e /\ \A i \in 1..Len(s) : Append(s, e)[i] = s[i]
      /\ Append(s, e) \in Seq(S)
  BY AppendProperties, LenProperties
<1>2. \A i \in 1 .. Len(s) + 1 : i \in 1..Len(s) \/ i = Len(s) + 1
  BY <1>1
<1>3. /\ Len(s) + 1 \in 1 .. Len(s) + 1
      /\ \A i \in 1..Len(s) : i \in 1 .. Len(s) + 1
  BY <1>1
<1> QED
  BY <1>1, <1>2, <1>3 DEF Has

\* What is in a queue once its head is taken.
LEMMA HasTail ==
  ASSUME NEW S, NEW s \in Seq(S), s # <<>>
  PROVE  /\ Tail(s) \in Seq(S) /\ Head(s) \in S
         /\ \A m : Has(s, m) <=> m = Head(s) \/ Has(Tail(s), m)
<1>1. /\ Len(s) \in Nat /\ DOMAIN s = 1..Len(s) /\ Head(s) = s[1] /\ Head(s) \in S
      /\ Tail(s) \in Seq(S) /\ Len(Tail(s)) = Len(s) - 1 /\ Len(s) # 0
      /\ \A i \in 1..Len(Tail(s)) : Tail(s)[i] = s[i + 1]
  <2>1. /\ Len(s) \in Nat /\ DOMAIN s = 1..Len(s) /\ Len(s) # 0
    BY LenProperties, EmptySeq
  <2>2. Head(s) = s[1] /\ Head(s) \in S
    BY HeadTailProperties, <2>1, ElementOfSeq
  <2> QED
    BY <2>1, <2>2, HeadTailProperties
<1>2. DOMAIN Tail(s) = 1 .. Len(s) - 1
  BY <1>1, LenProperties
<1>3. \A i \in 1..Len(s) : i = 1 \/ i - 1 \in 1 .. Len(s) - 1
  BY <1>1
<1>4. \A i \in 1 .. Len(s) - 1 : i + 1 \in 1..Len(s)
  BY <1>1
<1>5. 1 \in 1..Len(s)
  BY <1>1
<1>6. \A m : Has(s, m) => m = Head(s) \/ Has(Tail(s), m)
  <2> SUFFICES ASSUME NEW m, NEW i \in 1..Len(s), s[i] = m, i # 1
               PROVE  Has(Tail(s), m)
    BY <1>1 DEF Has
  <2>1. i - 1 \in 1 .. Len(s) - 1 /\ i - 1 + 1 = i
    BY <1>1, <1>3
  <2>2. Tail(s)[i - 1] = m
    BY <1>1, <2>1
  <2> QED
    BY <1>2, <2>1, <2>2 DEF Has
<1>7. \A m : m = Head(s) \/ Has(Tail(s), m) => Has(s, m)
  BY <1>1, <1>2, <1>4, <1>5 DEF Has
<1> QED
  BY <1>1, <1>6, <1>7

\* A queue that loses its head, or gains an element of its set, stays over it.
LEMMA QueueMoves ==
  ASSUME NEW S, NEW s \in Seq(S), NEW t,
         \/ t = s
         \/ t = <<>>
         \/ s # <<>> /\ t = Tail(s)
         \/ \E e \in S : t = Append(s, e)
  PROVE  t \in Seq(S)
<1>1. CASE t = s
  BY <1>1
<1>2. CASE t = <<>>
  BY <1>2, EmptySeq
<1>3. CASE s # <<>> /\ t = Tail(s)
  BY <1>3, HeadTailProperties
<1>4. CASE \E e \in S : t = Append(s, e)
  BY <1>4, AppendProperties
<1> QED
  BY <1>1, <1>2, <1>3, <1>4

\* A sequence over a set is one over a larger set.
LEMMA SeqGrows ==
  ASSUME NEW S, NEW T, S \subseteq T, NEW s \in Seq(S)
  PROVE  s \in Seq(T)
<1>1. Len(s) \in Nat /\ s \in [1..Len(s) -> S]
  BY LenProperties
<1>2. s \in [1..Len(s) -> T]
  BY <1>1
<1> QED
  BY <1>1, <1>2, SeqDef

----------------------------------------------------------------------------
(* One request at a time. *)

RequestInv ==
  /\ Len(requests) <= MaxRequests
  /\ pc = "waiting" => requests # <<>> /\ requests[RequestId].outcome = Pending
  /\ \A n \in DOMAIN requests :
       requests[n].outcome = Pending => pc = "waiting" /\ n = RequestId

CallOf(method, outcome) == [method |-> method, outcome |-> outcome]

\* What a step is to the requests: one is made, one is settled, or they rest.
Makes ==
  /\ pc # "waiting" /\ RequestId < MaxRequests
  /\ \E method \in Methods \union {"tools/list"}, outcome \in {Pending, Failed} :
       /\ requests' = Append(requests, CallOf(method, outcome))
       /\ pc' = IF outcome = Pending THEN "waiting" ELSE "idle"

\* What a caller may be given: its own response, or a ConnectionError.
Due(outcome) ==
  \/ outcome = Failed
  \/ /\ incoming # <<>> /\ outcome = Head(incoming)
     /\ outcome.kind \in Answers \union {"request"} /\ outcome.id = RequestId

Settles ==
  /\ pc = "waiting" /\ pc' \in {"idle", "greeting", "paging"}
  /\ \E outcome : Due(outcome) /\ requests' = [requests EXCEPT ![RequestId].outcome = outcome]

Rests == requests' = requests /\ (pc' = "waiting" <=> pc = "waiting")

\* Every step does one of these; only a server that is not answering meanwhile
\* carries a request out.
LEMMA StepOfRequests ==
  ASSUME [Next]_vars
  PROVE  \/ Makes /\ executed' = executed
         \/ Settles /\ executed' = executed
         \/ Rests /\ executed' = executed
         \/ Rests /\ \E id \in 1..MaxRequests : Execute(id)
<1>1. CASE (\E method \in Methods : Request(method)) \/ NextPage
  BY <1>1 DEF Request, NextPage, Send, Makes, CallOf, server, Pending, Failed, Message
<1>2. CASE Skip \/ PagesEnd \/ Greet \/ Close \/ Terminate \/ Kill \/ Closed
  BY <1>2 DEF Skip, Take, PagesEnd, Greet, Close, Terminate, Kill, Die, Closed, server, Rests
<1>3. CASE AnswerServer
  BY <1>3 DEF AnswerServer, Take, Settle, Settles, Rests, Due, server
<1>4. CASE Finish
  <2>1. After(Head(incoming)) \in {"idle", "greeting", "paging"}
    BY DEF After
  <2> QED
    BY <1>4, <2>1 DEF Finish, Take, Settle, Settles, Due, server
<1>5. CASE Break \/ Timeout
  BY <1>5 DEF Break, Timeout, Take, Settle, Settles, Due, server
<1>6. CASE Reader \/ Drain
  BY <1>6 DEF Reader, ReadLine, ReadEof, Drain, server, Rests
<1>7. CASE ServerRead \/ Interject \/ Exit \/ Finished \/ UNCHANGED vars
  BY <1>7 DEF ServerRead, Interject, Exit, Die, Finished, client, server, vars, Rests
<1>8. CASE (\E id \in 1..MaxRequests : Respond(id)) \/ (\E id \in ServerIds : Ask(id))
  BY <1>8 DEF Respond, Ask, client, Rests
<1>9. CASE \E id \in 1..MaxRequests : Execute(id)
  BY <1>9 DEF Execute, client, Rests
<1> QED
  BY <1>1, <1>2, <1>3, <1>4, <1>5, <1>6, <1>7, <1>8, <1>9 DEF Next, Application, Server

Call == [method: Methods \union {"tools/list"}, outcome: Outcome]

\* A request is made at the end of those there are.
LEMMA MakesOne ==
  ASSUME TypeOK, Makes
  PROVE  /\ requests' \in Seq(Call) /\ Len(requests') = Len(requests) + 1
         /\ Len(requests) \in Nat
         /\ DOMAIN requests = 1..Len(requests) /\ DOMAIN requests' = 1 .. Len(requests) + 1
         /\ \A n \in DOMAIN requests : requests'[n] = requests[n]
         /\ requests'[Len(requests) + 1].outcome \in {Pending, Failed}
         /\ requests'[Len(requests) + 1].outcome = Pending <=> pc' = "waiting"
<1>1. PICK method \in Methods \union {"tools/list"}, outcome \in {Pending, Failed} :
        /\ requests' = Append(requests, CallOf(method, outcome))
        /\ pc' = IF outcome = Pending THEN "waiting" ELSE "idle"
  BY DEF Makes
<1>2. requests \in Seq(Call) /\ CallOf(method, outcome) \in Call
  BY DEF TypeOK, Call, CallOf, Outcome, Pending, Failed, Message
<1>3. CallOf(method, outcome).outcome = outcome
  BY DEF CallOf
<1>4. /\ requests' \in Seq(Call) /\ Len(requests') = Len(requests) + 1
      /\ \A n \in 1..Len(requests) : requests'[n] = requests[n]
      /\ requests'[Len(requests) + 1] = CallOf(method, outcome)
  BY <1>1, <1>2, AppendProperties
<1> QED
  BY <1>1, <1>2, <1>3, <1>4, LenProperties

\* The last request is settled, and no other.
LEMMA SettlesOne ==
  ASSUME TypeOK, RequestInv, Settles
  PROVE  /\ requests' \in Seq(Call) /\ Len(requests') = Len(requests)
         /\ DOMAIN requests' = DOMAIN requests /\ RequestId \in DOMAIN requests
         /\ \A n \in DOMAIN requests : n # RequestId => requests'[n] = requests[n]
         /\ Due(requests'[RequestId].outcome)
         /\ requests'[RequestId].outcome # Pending
<1>1. PICK outcome : Due(outcome) /\ requests' = [requests EXCEPT ![RequestId].outcome = outcome]
  BY DEF Settles
<1>2. /\ requests \in Seq(Call) /\ incoming \in Seq(Lines \union {Eof})
      /\ Len(requests) \in Nat /\ DOMAIN requests = 1..Len(requests) /\ Len(requests) # 0
  BY LenProperties, EmptySeq DEF TypeOK, Call, RequestInv, Settles
<1>3. RequestId \in 1..Len(requests) /\ requests[RequestId] \in Call
  BY <1>2, ElementOfSeq DEF RequestId
<1>4. outcome \in Outcome /\ outcome # Pending
  <2>1. incoming # <<>> => Head(incoming) \in Lines \union {Eof}
    BY <1>2, HeadTailProperties
  <2> QED
    BY <1>1, <2>1 DEF Due, Outcome, Failed, Pending, Message, Lines, Eof, Answers
<1>5. [requests[RequestId] EXCEPT !.outcome = outcome] \in Call
  BY <1>3, <1>4 DEF Call
<1>6. requests' \in Seq(Call) /\ Len(requests') = Len(requests)
  BY <1>1, <1>2, <1>3, <1>5, ExceptSeq
<1>7. requests'[RequestId].outcome = outcome
  BY <1>1, <1>2, <1>3 DEF Call
<1> QED
  BY <1>1, <1>2, <1>3, <1>4, <1>6, <1>7

\* Every step leaves at most one request pending, the last.
LEMMA RequestStep == TypeOK /\ RequestInv /\ [Next]_vars => RequestInv'
<1> SUFFICES ASSUME TypeOK, RequestInv, [Next]_vars PROVE RequestInv'
  OBVIOUS
<1>1. CASE Makes
  <2>1. RequestId < MaxRequests /\ pc # "waiting" /\ MaxRequests \in Nat
    BY <1>1, ClientAssumption DEF Makes
  <2>2. Len(requests') <= MaxRequests /\ requests' # <<>>
    BY <1>1, <2>1, MakesOne, EmptySeq DEF RequestId
  <2>3. \A n \in DOMAIN requests' : n \in DOMAIN requests \/ n = Len(requests')
    BY <1>1, MakesOne
  <2> QED
    BY <1>1, <2>1, <2>2, <2>3, MakesOne DEF RequestInv, RequestId
<1>2. CASE Settles
  <2>1. pc' # "waiting" /\ \A n \in DOMAIN requests' : requests'[n].outcome # Pending
    BY <1>2, SettlesOne DEF Settles, RequestInv
  <2> QED
    BY <1>2, <2>1, SettlesOne DEF RequestInv
<1>3. CASE Rests
  BY <1>3 DEF Rests, RequestInv, RequestId
<1> QED
  BY <1>1, <1>2, <1>3, StepOfRequests

----------------------------------------------------------------------------
(* Types. *)

Order == [kind: {"request", "reply", "initialized"}, id: Nat]

\* The threads of the client keep every type.
LEMMA ClientKeepsTypes ==
  ASSUME TypeOK, RequestInv,
         \/ \E method \in Methods : Request(method)
         \/ Application \/ Close \/ Reader \/ Drain
  PROVE  TypeOK'
<1> USE DEF TypeOK
<1>1. /\ requests \in Seq(Call) /\ stdin \in Seq(Order) /\ <<>> \in Seq(Order)
      /\ incoming # <<>> => Tail(incoming) \in Seq(Lines \union {Eof})
      /\ incoming # <<>> => Head(incoming) \in Lines \union {Eof}
      /\ Len(requests) \in Nat
  BY HeadTailProperties, EmptySeq, LenProperties DEF Call, Order
<1>2. ASSUME NEW kind \in {"request", "reply", "initialized"}, NEW id \in Nat
      PROVE  Sent(Message(kind, id)) \in Seq(Order)
  <2>1. Message(kind, id) \in Order
    BY DEF Message, Order
  <2> QED
    BY <1>1, <2>1, AppendProperties DEF Sent
<1>3. CASE (\E method \in Methods : Request(method)) \/ NextPage
  <2>1. PICK method \in Methods \union {"tools/list"} : Send(method)
    BY <1>3 DEF Request, NextPage
  <2>2. requests' \in Seq(Call)
    BY <1>3, StepOfRequests, MakesOne, <2>1, <1>1, AppendProperties
       DEF Send, Next, Request, NextPage, Call, Outcome, Pending, Failed, Message
  <2>3. stdin' \in Seq(Order)
    BY <1>1, <1>2, <2>1 DEF Send, RequestId
  <2> QED
    BY <2>1, <2>2, <2>3 DEF Send, Call, Order, server
<1>4. CASE PagesEnd \/ Close \/ Terminate \/ Closed
  BY <1>4 DEF PagesEnd, Close, Terminate, Closed, server
<1>5. CASE Greet
  <2>1. stdin' \in Seq(Order)
    BY <1>2, <1>5 DEF Greet
  <2> QED
    BY <1>5, <2>1 DEF Greet, Order, server
<1>6. CASE Kill
  BY <1>1, <1>6 DEF Kill, Die, Order
<1>7. CASE Skip \/ AnswerServer \/ Finish \/ Break \/ Timeout
  <2>1. requests' \in Seq(Call)
    <3>1. CASE Settles
      BY <3>1, SettlesOne
    <3>2. CASE requests' = requests
      BY <1>1, <3>2
    <3>3. ~Makes
      BY <1>7 DEF Makes, Skip, AnswerServer, Finish, Break, Timeout, Take
    <3> QED
      BY <1>7, <3>1, <3>2, <3>3, StepOfRequests DEF Next, Application, Rests
  <2>2. stdin' \in Seq(Order)
    <3>1. CASE AnswerServer
      <4>1. Head(incoming).id \in Nat
        BY <1>1, <3>1 DEF AnswerServer, Take, Lines, Eof, Message
      <4> QED
        BY <1>2, <3>1, <4>1 DEF AnswerServer
    <3>2. CASE stdin' = stdin
      BY <1>1, <3>2
    <3> QED
      BY <1>7, <3>1, <3>2 DEF Skip, Finish, Break, Timeout
  <2>3. incoming' \in Seq(Lines \union {Eof})
    BY <1>1, <1>7 DEF Skip, AnswerServer, Finish, Break, Timeout, Take
  <2>4. pc' \in {pc, "idle", "greeting", "paging"}
    BY <1>7 DEF Skip, AnswerServer, Finish, Break, Timeout, Settle, After
  <2>5. UNCHANGED <<reading, draining, stdout, stderr, running, server>>
    BY <1>7 DEF Skip, AnswerServer, Finish, Break, Timeout, Take
  <2> QED
    BY <2>1, <2>2, <2>3, <2>4, <2>5 DEF Call, Order, server
<1>8. CASE ReadLine
  <2>1. Head(stdout) \in Lines /\ Tail(stdout) \in Seq(Lines)
    BY <1>8, HeadTailProperties DEF ReadLine
  <2>2. incoming' \in Seq(Lines \union {Eof})
    <3>1. \E line \in Lines \union {Eof} : incoming' = Append(incoming, line)
      BY <1>8, <2>1 DEF ReadLine
    <3> QED
      BY <3>1, QueueMoves
  <2> QED
    BY <1>8, <2>1, <2>2 DEF ReadLine, server
<1>9. CASE ReadEof
  <2>1. incoming' \in Seq(Lines \union {Eof})
    BY <1>9, AppendProperties DEF ReadEof
  <2> QED
    BY <1>9, <2>1 DEF ReadEof, server
<1>10. CASE Drain
  <2>1. stderr' \in Seq(LogLines)
    BY <1>10, HeadTailProperties DEF Drain
  <2> QED
    BY <1>10, <2>1 DEF Drain, server
<1> QED
  BY <1>3, <1>4, <1>5, <1>6, <1>7, <1>8, <1>9, <1>10 DEF Application, Reader

\* So does the server, if the client's replies are to its own requests.
LEMMA ServerKeepsTypes ==
  ASSUME TypeOK, Server,
         stdin # <<>> /\ Head(stdin).kind = "reply" => Head(stdin).id \in ServerIds
  PROVE  TypeOK'
<1> USE DEF TypeOK
<1>1. stdin \in Seq(Order) /\ <<>> \in Seq(Order) /\ MaxRequests \in Nat /\ ServerIds \subseteq Nat
  BY EmptySeq, ClientAssumption DEF Order
<1>2. CASE ServerRead
  <2>1. Head(stdin) \in Order /\ Tail(stdin) \in Seq(Order)
    BY <1>1, <1>2, HeadTailProperties DEF ServerRead
  <2> QED
    BY <1>2, <2>1 DEF ServerRead, Order, client
<1>3. ASSUME NEW id \in 1..MaxRequests, Execute(id) PROVE TypeOK'
  <2>1. executed' \in Seq(Nat) /\ stderr' \in Seq(LogLines)
    BY <1>1, <1>3, AppendProperties DEF Execute
  <2> QED
    BY <1>3, <2>1 DEF Execute, client
<1>4. ASSUME NEW line \in Lines, stdout' = Append(stdout, line)
      PROVE  stdout' \in Seq(Lines)
  BY <1>4, AppendProperties
<1>5. ASSUME NEW id \in 1..MaxRequests, Respond(id) PROVE TypeOK'
  <2>1. \A kind \in Answers : Message(kind, id) \in Lines
    BY <1>1 DEF Message, Lines, Kinds
  <2>2. stdout' \in Seq(Lines)
    BY <1>4, <1>5, <2>1 DEF Respond
  <2> QED
    BY <1>5, <2>2 DEF Respond, client
<1>6. ASSUME NEW id \in ServerIds, Ask(id) PROVE TypeOK'
  <2>1. Message("request", id) \in Lines
    BY <1>1 DEF Message, Lines, Kinds
  <2>2. stdout' \in Seq(Lines)
    BY <1>4, <1>6, <2>1 DEF Ask
  <2> QED
    BY <1>6, <2>2 DEF Ask, client
<1>7. CASE Interject
  <2>1. \A kind \in Noise : Message(kind, 0) \in Lines
    BY DEF Message, Lines, Kinds
  <2>2. stdout' \in Seq(Lines)
    BY <1>4, <1>7, <2>1 DEF Interject
  <2>3. noise' \in Nat
    BY <1>7 DEF Interject
  <2> QED
    BY <1>7, <2>2, <2>3 DEF Interject, client
<1>8. CASE Exit
  BY <1>1, <1>8 DEF Exit, Die, client, Order
<1> QED
  BY <1>2, <1>3, <1>5, <1>6, <1>7, <1>8 DEF Server

----------------------------------------------------------------------------
(* What is on its way is true. *)

\* An answer is to a request that was carried out, a request the server's own.
TrueLines ==
  {line \in Lines : /\ line.kind \in Answers => line.id \in Executed
                    /\ line.kind = "request" => line.id \in ServerIds}

\* The client sends the requests it has made, and replies to the server's.
TrueOrders ==
  {line \in Order : /\ line.kind = "request" => line.id \in DOMAIN requests
                    /\ line.kind = "reply" => line.id \in ServerIds}

PipeInv ==
  /\ stdout \in Seq(TrueLines)
  /\ incoming \in Seq(TrueLines \union {Eof})
  /\ stdin \in Seq(TrueOrders)
  /\ working \subseteq DOMAIN requests
  /\ Executed \subseteq DOMAIN requests

\* What has been carried out, or made, stays so.
LEMMA TruthGrows ==
  ASSUME TypeOK, RequestInv, [Next]_vars
  PROVE  /\ Executed \subseteq Executed' /\ DOMAIN requests \subseteq DOMAIN requests'
         /\ TrueLines \subseteq TrueLines' /\ TrueOrders \subseteq TrueOrders'
<1>1. DOMAIN requests \subseteq DOMAIN requests'
  <2>1. CASE Makes
    BY <2>1, MakesOne
  <2>2. CASE Settles
    BY <2>2, SettlesOne
  <2> QED
    BY <2>1, <2>2, StepOfRequests DEF Rests
<1>2. Executed \subseteq Executed'
  <2>1. CASE executed' = executed
    BY <2>1 DEF Executed
  <2>2. ASSUME NEW id \in 1..MaxRequests, Execute(id) PROVE Executed \subseteq Executed'
    <3>1. id \in Nat /\ executed \in Seq(Nat) /\ executed' = Append(executed, id)
      BY <2>2, ClientAssumption DEF Execute, TypeOK
    <3>2. \A i \in DOMAIN executed : i \in DOMAIN executed' /\ executed'[i] = executed[i]
      BY <3>1, AppendProperties, LenProperties
    <3> QED
      BY <3>2 DEF Executed
  <2> QED
    BY <2>1, <2>2, StepOfRequests
<1> QED
  BY <1>1, <1>2 DEF TrueLines, TrueOrders

\* What comes off a queue leaves the rest true, and what goes on it was true.
LEMMA TruePipes ==
  ASSUME TypeOK, RequestInv, PipeInv, [Next]_vars,
         \/ incoming' = incoming
         \/ incoming # <<>> /\ incoming' = Tail(incoming)
         \/ stdout # <<>> /\ incoming' = Append(incoming, Head(stdout))
         \/ incoming' = Append(incoming, Eof),
         \/ stdout' = stdout
         \/ stdout # <<>> /\ stdout' = Tail(stdout)
         \/ \E line \in TrueLines' : stdout' = Append(stdout, line),
         \/ stdin' = stdin
         \/ stdin' = <<>>
         \/ stdin # <<>> /\ stdin' = Tail(stdin)
         \/ \E line \in TrueOrders' : stdin' = Append(stdin, line)
  PROVE  /\ stdout' \in Seq(TrueLines') /\ incoming' \in Seq(TrueLines' \union {Eof})
         /\ stdin' \in Seq(TrueOrders')
<1>1. /\ stdout \in Seq(TrueLines') /\ stdin \in Seq(TrueOrders')
      /\ incoming \in Seq(TrueLines' \union {Eof})
  <2>1. TrueLines \subseteq TrueLines' /\ TrueOrders \subseteq TrueOrders'
    BY TruthGrows
  <2>2. TrueLines \union {Eof} \subseteq TrueLines' \union {Eof}
    BY <2>1
  <2> QED
    BY <2>1, <2>2, SeqGrows DEF PipeInv
<1>2. stdout # <<>> => Head(stdout) \in TrueLines'
  BY <1>1, HeadTailProperties
<1>3. stdout' \in Seq(TrueLines')
  BY <1>1, QueueMoves
<1>4. incoming' \in Seq(TrueLines' \union {Eof})
  <2>1. \/ incoming' = incoming
        \/ incoming # <<>> /\ incoming' = Tail(incoming)
        \/ \E line \in TrueLines' \union {Eof} : incoming' = Append(incoming, line)
    BY <1>2
  <2> QED
    BY <1>1, <2>1, QueueMoves
<1>5. stdin' \in Seq(TrueOrders')
  BY <1>1, QueueMoves
<1> QED
  BY <1>3, <1>4, <1>5

\* The requests carried out grow by the one that is carried out now.
LEMMA ExecuteOne ==
  ASSUME TypeOK, NEW id \in 1..MaxRequests, Execute(id)
  PROVE  /\ Executed' = Executed \union {id}
         /\ Len(executed) \in Nat /\ DOMAIN executed = 1..Len(executed)
         /\ DOMAIN executed' = 1 .. Len(executed) + 1
         /\ \A i \in DOMAIN executed : executed'[i] = executed[i]
         /\ executed'[Len(executed) + 1] = id
<1>1. id \in Nat /\ executed \in Seq(Nat) /\ executed' = Append(executed, id)
  BY ClientAssumption DEF Execute, TypeOK
<1>2. /\ Len(executed) \in Nat /\ DOMAIN executed = 1..Len(executed)
      /\ DOMAIN executed' = 1 .. Len(executed) + 1
      /\ \A i \in 1..Len(executed) : executed'[i] = executed[i]
      /\ executed'[Len(executed) + 1] = id
  BY <1>1, AppendProperties, LenProperties
<1>3. /\ \A i \in 1 .. Len(executed) + 1 : i \in 1..Len(executed) \/ i = Len(executed) + 1
      /\ \A i \in 1..Len(executed) : i \in 1 .. Len(executed) + 1
      /\ Len(executed) + 1 \in 1 .. Len(executed) + 1
  BY <1>2
<1> QED
  BY <1>2, <1>3 DEF Executed

\* Every step keeps the pipes true.
LEMMA PipeStep == TypeOK /\ RequestInv /\ PipeInv /\ [Next]_vars => PipeInv'
<1> SUFFICES ASSUME TypeOK, RequestInv, PipeInv, [Next]_vars PROVE PipeInv'
  OBVIOUS
<1>1. /\ DOMAIN requests \subseteq DOMAIN requests' /\ Executed \subseteq Executed'
      /\ working \subseteq DOMAIN requests' /\ Executed \subseteq DOMAIN requests'
      /\ incoming # <<>> => Head(incoming) \in TrueLines \union {Eof}
      /\ stdin # <<>> => Head(stdin) \in TrueOrders
      /\ MaxRequests \in Nat /\ ServerIds \subseteq Nat
  BY TruthGrows, HeadTailProperties, ClientAssumption DEF PipeInv
<1>2. ASSUME executed' = executed PROVE Executed' = Executed
  BY <1>2 DEF Executed
<1> SUFFICES /\ working' \subseteq DOMAIN requests' /\ Executed' \subseteq DOMAIN requests'
             /\ \/ incoming' = incoming
                \/ incoming # <<>> /\ incoming' = Tail(incoming)
                \/ stdout # <<>> /\ incoming' = Append(incoming, Head(stdout))
                \/ incoming' = Append(incoming, Eof)
             /\ \/ stdout' = stdout
                \/ stdout # <<>> /\ stdout' = Tail(stdout)
                \/ \E line \in TrueLines' : stdout' = Append(stdout, line)
             /\ \/ stdin' = stdin
                \/ stdin' = <<>>
                \/ stdin # <<>> /\ stdin' = Tail(stdin)
                \/ \E line \in TrueOrders' : stdin' = Append(stdin, line)
  <2>1. /\ stdout' \in Seq(TrueLines') /\ incoming' \in Seq(TrueLines' \union {Eof})
        /\ stdin' \in Seq(TrueOrders')
    BY TruePipes
  <2> QED
    BY <2>1 DEF PipeInv
<1>3. CASE (\E method \in Methods : Request(method)) \/ NextPage
  <2>1. PICK method \in Methods \union {"tools/list"} : Send(method)
    BY <1>3 DEF Request, NextPage
  <2>2. Makes
    BY <1>3, <2>1 DEF Request, NextPage, Send, Makes, CallOf, Pending, Failed, Message
  <2>3. Message("request", RequestId + 1) \in TrueOrders'
    BY <2>2, MakesOne DEF TrueOrders, Order, Message, RequestId
  <2> QED
    BY <1>1, <1>2, <2>1, <2>3 DEF Send, Sent, server
<1>4. CASE Greet
  <2>1. Message("initialized", 0) \in TrueOrders'
    BY DEF TrueOrders, Order, Message
  <2> QED
    BY <1>1, <1>2, <1>4, <2>1 DEF Greet, Sent, server
<1>5. CASE AnswerServer
  <2>1. Message("reply", Head(incoming).id) \in TrueOrders'
    <3>1. Head(incoming).id \in ServerIds
      BY <1>1, <1>5 DEF AnswerServer, Take, Message, TrueLines, Eof
    <3> QED
      BY <1>1, <3>1 DEF TrueOrders, Order, Message
  <2> QED
    BY <1>1, <1>2, <1>5, <2>1 DEF AnswerServer, Take, Sent, server
<1>6. CASE Skip \/ Finish \/ Break \/ Timeout \/ PagesEnd \/ Close \/ Terminate \/ Closed
  BY <1>1, <1>2, <1>6 DEF Skip, Finish, Break, Timeout, Take, PagesEnd, Close, Terminate,
     Closed, server
<1>7. CASE Kill \/ Exit
  BY <1>1, <1>2, <1>7 DEF Kill, Exit, Die, client
<1>8. CASE Reader \/ Drain
  BY <1>1, <1>2, <1>8 DEF Reader, ReadLine, ReadEof, Drain, server
<1>9. CASE ServerRead
  <2>1. Head(stdin).kind = "request" => Head(stdin).id \in DOMAIN requests
    BY <1>1, <1>9 DEF ServerRead, TrueOrders
  <2> QED
    BY <1>1, <1>2, <1>9, <2>1 DEF ServerRead, client
<1>10. ASSUME NEW id \in 1..MaxRequests, Execute(id)
       PROVE  /\ working' = working /\ UNCHANGED <<client, stdin, stdout>>
              /\ Executed' \subseteq DOMAIN requests'
  BY <1>1, <1>10, ExecuteOne DEF Execute, PipeInv
<1>11. ASSUME NEW id \in 1..MaxRequests, Respond(id)
       PROVE  /\ working' \subseteq working /\ executed' = executed /\ UNCHANGED <<client, stdin>>
              /\ \E line \in TrueLines' : stdout' = Append(stdout, line)
  <2>1. id \in Executed' /\ executed' = executed
    BY <1>1, <1>11 DEF Respond
  <2>2. \A kind \in Answers : Message(kind, id) \in TrueLines'
    BY <1>1, <2>1 DEF Message, TrueLines, Lines, Kinds, Answers
  <2> QED
    BY <1>11, <2>1, <2>2 DEF Respond
<1>12. ASSUME NEW id \in ServerIds, Ask(id)
       PROVE  /\ UNCHANGED <<working, executed, client, stdin>>
              /\ \E line \in TrueLines' : stdout' = Append(stdout, line)
  <2>1. Message("request", id) \in TrueLines'
    BY <1>1 DEF Message, TrueLines, Lines, Kinds, Answers
  <2> QED
    BY <1>12, <2>1 DEF Ask
<1>13. ASSUME Interject
       PROVE  /\ UNCHANGED <<working, executed, client, stdin>>
              /\ \E line \in TrueLines' : stdout' = Append(stdout, line)
  <2>1. \A kind \in Noise : Message(kind, 0) \in TrueLines'
    BY ClientAssumption DEF Message, TrueLines, Lines, Kinds, Answers
  <2> QED
    BY <1>13, <2>1 DEF Interject
<1>14. CASE Finished \/ UNCHANGED vars
  BY <1>1, <1>2, <1>14 DEF Finished, vars, client, server
<1>15. CASE Server /\ ~ServerRead /\ ~Exit
  BY <1>1, <1>2, <1>10, <1>11, <1>12, <1>13, <1>15 DEF Server, client
<1> QED
  BY <1>3, <1>4, <1>5, <1>6, <1>7, <1>8, <1>9, <1>14, <1>15 DEF Next, Application, Server

\* Every step keeps the types.
LEMMA TypeStep == TypeOK /\ RequestInv /\ PipeInv /\ [Next]_vars => TypeOK'
<1> SUFFICES ASSUME TypeOK, RequestInv, PipeInv, [Next]_vars PROVE TypeOK'
  OBVIOUS
<1>1. stdin # <<>> /\ Head(stdin).kind = "reply" => Head(stdin).id \in ServerIds
  BY HeadTailProperties DEF PipeInv, TrueOrders
<1>2. CASE Finished \/ UNCHANGED vars
  BY <1>2 DEF Finished, vars, client, server, TypeOK
<1> QED
  BY <1>1, <1>2, ClientKeepsTypes, ServerKeepsTypes DEF Next

----------------------------------------------------------------------------
(* Answers and their order. *)

\* What settled a request, whatever ids the server uses: its own answer, or a request
\* of the server's with its id.
OwnMessage ==
  \A n \in DOMAIN requests :
    LET outcome == requests[n].outcome IN
    outcome \notin {Pending, Failed} /\ outcome.kind # "request" =>
      outcome.kind \in Answers /\ outcome.id = n /\ n \in Executed

IInv == TypeOK /\ RequestInv /\ PipeInv /\ OwnMessage /\ OnlyAbandonedCallsLag

\* A caller is handed the message for its id, or none.
LEMMA MessageStep == IInv /\ [Next]_vars => OwnMessage'
<1> SUFFICES ASSUME IInv, [Next]_vars, NEW n \in DOMAIN requests',
                    requests'[n].outcome \notin {Pending, Failed},
                    requests'[n].outcome.kind # "request"
             PROVE  LET outcome == requests'[n].outcome IN
                    outcome.kind \in Answers /\ outcome.id = n /\ n \in Executed'
  BY DEF OwnMessage
<1>1. TypeOK /\ RequestInv /\ PipeInv /\ OwnMessage /\ Executed \subseteq Executed'
  BY TruthGrows DEF IInv
<1>2. CASE n \in DOMAIN requests /\ requests'[n] = requests[n]
  BY <1>1, <1>2 DEF OwnMessage
<1>3. CASE Makes
  <2>1. n \in DOMAIN requests \/ n = Len(requests) + 1
    BY <1>1, <1>3, MakesOne
  <2> QED
    BY <1>1, <1>2, <1>3, <2>1, MakesOne
<1>4. CASE Settles /\ n = RequestId
  <2>1. /\ incoming # <<>> /\ requests'[n].outcome = Head(incoming)
        /\ Head(incoming).kind \in Answers \union {"request"} /\ Head(incoming).id = n
    BY <1>1, <1>4, SettlesOne DEF Due
  <2>2. Head(incoming) \in TrueLines
    BY <1>1, <2>1, HeadTailProperties DEF PipeInv, Eof, Message, Answers
  <2> QED
    BY <1>1, <2>1, <2>2 DEF TrueLines
<1>5. CASE Settles /\ n # RequestId
  BY <1>1, <1>2, <1>5, SettlesOne
<1>6. CASE Rests
  BY <1>2, <1>6 DEF Rests
<1> QED
  BY <1>3, <1>4, <1>5, <1>6, StepOfRequests

\* No request of the server's is taken for an answer.
Unmistaken == \A n \in DOMAIN requests : requests[n].outcome.kind # "request"

\* Nothing but an answer settles a request when the ids are apart.
LEMMA UnmistakenStep == NoClash /\ IInv /\ Unmistaken /\ [Next]_vars => Unmistaken'
<1> SUFFICES ASSUME NoClash, IInv, Unmistaken, [Next]_vars, NEW n \in DOMAIN requests'
             PROVE  requests'[n].outcome.kind # "request"
  BY DEF Unmistaken
<1>1. TypeOK /\ RequestInv /\ PipeInv
  BY DEF IInv
<1>2. CASE n \in DOMAIN requests /\ requests'[n] = requests[n]
  BY <1>2 DEF Unmistaken
<1>3. CASE Makes
  <2>1. n \in DOMAIN requests \/ n = Len(requests) + 1
    BY <1>1, <1>3, MakesOne
  <2> QED
    BY <1>1, <1>2, <1>3, <2>1, MakesOne DEF Pending, Failed, Message
<1>4. CASE Settles /\ n = RequestId
  <2>1. CASE requests'[n].outcome = Failed
    BY <2>1 DEF Failed, Message
  <2>2. CASE requests'[n].outcome # Failed
    <3>1. /\ incoming # <<>> /\ requests'[n].outcome = Head(incoming)
          /\ Head(incoming).kind \in Answers \union {"request"} /\ Head(incoming).id = n
      BY <1>1, <1>4, <2>2, SettlesOne DEF Due
    <3>2. Head(incoming) \in TrueLines
      BY <1>1, <3>1, HeadTailProperties DEF PipeInv, Eof, Message, Answers
    <3>3. n \notin ServerIds
      <4>1. n <= MaxRequests /\ n \in Nat /\ MaxRequests \in Nat /\ ServerIds \subseteq Nat
        BY <1>1, <1>4, ClientAssumption, LenProperties DEF RequestInv, RequestId, TypeOK
      <4> QED
        BY <4>1 DEF NoClash
    <3> QED
      BY <3>1, <3>2, <3>3 DEF TrueLines
  <2> QED
    BY <2>1, <2>2
<1>5. CASE Settles /\ n # RequestId
  BY <1>1, <1>2, <1>5, SettlesOne
<1>6. CASE Rests
  BY <1>2, <1>6 DEF Rests
<1> QED
  BY <1>3, <1>4, <1>5, <1>6, StepOfRequests

\* A request that is carried out after a later one has been turned away from.
LEMMA LagStep == IInv /\ [Next]_vars => OnlyAbandonedCallsLag'
<1> SUFFICES ASSUME IInv, [Next]_vars,
                    NEW i \in DOMAIN executed', NEW j \in DOMAIN executed',
                    i < j, executed'[j] < executed'[i]
             PROVE  LET outcome == requests'[executed'[j]].outcome IN
                    outcome = Failed \/ outcome.kind = "request"
  BY DEF OnlyAbandonedCallsLag, Abandoned
<1>1. TypeOK /\ RequestInv /\ PipeInv /\ OwnMessage /\ OnlyAbandonedCallsLag
  BY DEF IInv
<1>2. CASE executed' = executed
  <2>1. Abandoned(executed[j]) /\ executed[j] \in DOMAIN requests
    BY <1>1, <1>2 DEF OnlyAbandonedCallsLag, PipeInv, Executed
  <2>2. requests[executed[j]].outcome # Pending
    BY <2>1 DEF Abandoned, Failed, Pending, Message
  <2>3. CASE Makes
    BY <1>1, <1>2, <2>1, <2>3, MakesOne DEF Abandoned
  <2>4. CASE Settles
    <3>1. executed[j] # RequestId
      BY <1>1, <2>1, <2>2, <2>4 DEF RequestInv, Settles
    <3> QED
      BY <1>1, <1>2, <2>1, <2>4, <3>1, SettlesOne DEF Abandoned
  <2>5. CASE Rests
    BY <1>2, <2>1, <2>5 DEF Rests, Abandoned
  <2> QED
    BY <2>3, <2>4, <2>5, StepOfRequests, <1>2, <2>1
<1>3. ASSUME NEW id \in 1..MaxRequests, Execute(id), requests' = requests
      PROVE  Abandoned(executed'[j])
  <2>1. /\ Len(executed) \in Nat /\ DOMAIN executed = 1..Len(executed)
        /\ DOMAIN executed' = 1 .. Len(executed) + 1
        /\ \A k \in DOMAIN executed : executed'[k] = executed[k]
        /\ executed'[Len(executed) + 1] = id
    BY <1>1, <1>3, ExecuteOne
  <2>2. i \in DOMAIN executed /\ (j \in DOMAIN executed \/ j = Len(executed) + 1)
    BY <2>1
  <2>3. CASE j \in DOMAIN executed
    BY <1>1, <2>1, <2>2, <2>3 DEF OnlyAbandonedCallsLag
  <2>4. CASE j = Len(executed) + 1
    <3>1. /\ executed[i] \in DOMAIN requests /\ id \in DOMAIN requests /\ id < executed[i]
          /\ id \notin Executed
      BY <1>1, <1>3, <2>1, <2>2, <2>4 DEF PipeInv, Executed, Execute
    <3>2. id # RequestId
      BY <1>1, <3>1, LenProperties DEF TypeOK, RequestId
    <3>3. requests[id].outcome # Pending
      BY <1>1, <3>1, <3>2 DEF RequestInv
    <3> QED
      BY <1>1, <2>1, <2>4, <3>1, <3>3 DEF OwnMessage, Abandoned
  <2> QED
    BY <2>2, <2>3, <2>4
<1>4. CASE \E id \in 1..MaxRequests : Execute(id) /\ requests' = requests
  BY <1>3, <1>4 DEF Abandoned
<1> QED
  BY <1>2, <1>3, <1>4, StepOfRequests DEF Rests, Abandoned

\* Initially nothing is on its way.
LEMMA InitInv == Init => IInv
<1> SUFFICES ASSUME Init PROVE IInv
  OBVIOUS
<1>1. /\ \A S : <<>> \in Seq(S)
      /\ Len(<<>>) = 0 /\ DOMAIN <<>> = {} /\ Executed = {}
  BY EmptySeq, LenProperties DEF Init, Executed
<1>2. TypeOK
  BY <1>1, ClientAssumption DEF Init, TypeOK
<1>3. RequestInv
  BY <1>1, ClientAssumption DEF Init, RequestInv
<1>4. PipeInv
  BY <1>1 DEF Init, PipeInv
<1>5. OwnMessage /\ OnlyAbandonedCallsLag
  BY <1>1 DEF Init, OwnMessage, OnlyAbandonedCallsLag
<1> QED
  BY <1>2, <1>3, <1>4, <1>5 DEF IInv

\* Every variable of the client, the pipes and the server keeps its type, whatever
\* ids the server uses.
THEOREM TypeCorrect == Spec => []TypeOK
<1>1. Init => TypeOK /\ RequestInv /\ PipeInv
  BY InitInv DEF IInv
<1>2. TypeOK /\ RequestInv /\ PipeInv /\ [Next]_vars => (TypeOK /\ RequestInv /\ PipeInv)'
  BY TypeStep, RequestStep, PipeStep
<1> QED
  BY <1>1, <1>2, PTL DEF Spec

\* What the other theorems rest on, whatever ids the server uses.
THEOREM InvariantHolds == Spec => []IInv
<1>1. Init => IInv
  BY InitInv
<1>2. IInv /\ [Next]_vars => IInv'
  BY TypeStep, RequestStep, PipeStep, MessageStep, LagStep DEF IInv
<1> QED
  BY <1>1, <1>2, PTL DEF Spec

\* raw_client.py:160: _request returns, or raises MCPError, by the server's own answer
\* to it, whatever answers to requests given up on come before.
THEOREM AnswersAreOwn ==
  ASSUME NoClash
  PROVE  Spec => []OwnAnswer
<1>1. Init => Unmistaken
  BY EmptySeq, LenProperties DEF Init, Unmistaken
<1>2. IInv /\ Unmistaken /\ [Next]_vars => Unmistaken'
  BY NoClash, UnmistakenStep
<1>3. IInv /\ Unmistaken => OwnAnswer
  BY DEF IInv, OwnMessage, Unmistaken, OwnAnswer
<1> QED
  BY <1>1, <1>2, <1>3, InvariantHolds, PTL DEF Spec

\* raw_client.py:173: a request that timed out stays with the server, and so does one
\* for whose answer a request of the server's was taken (160-163); whatever ids the
\* server uses, no other may be carried out after one that was made later.
THEOREM OnlyAbandonedLag == Spec => []OnlyAbandonedCallsLag
<1>1. IInv => OnlyAbandonedCallsLag
  BY DEF IInv
<1> QED
  BY <1>1, InvariantHolds, PTL

----------------------------------------------------------------------------
(* The server's requests. *)

Asking(id) == Message("request", id)
Replying(id) == Message("reply", id)

\* A request of the server's is on its way, or its reply is, or has arrived.
Attended(id) ==
  \/ Has(stdout, Asking(id)) \/ Has(incoming, Asking(id))
  \/ Has(stdin, Replying(id)) \/ id \in told

AskedInv == running => \A id \in asked : Attended(id)

\* It is the property.
LEMMA AskedIs == AskedInv <=> ServerRequestsAnswered
BY DEF AskedInv, Attended, Asking, Replying, Has, InTransit, ServerRequestsAnswered

\* A line that is written to a pipe is in it, with those that were.
LEMMA Written ==
  ASSUME TypeOK
  PROVE  /\ \A line \in Lines : \A m : Has(Append(stdout, line), m) <=> Has(stdout, m) \/ m = line
         /\ \A line \in Lines \union {Eof} : \A m :
              Has(Append(incoming, line), m) <=> Has(incoming, m) \/ m = line
         /\ \A line \in Order : \A m : Has(Append(stdin, line), m) <=> Has(stdin, m) \/ m = line
<1>1. /\ stdout \in Seq(Lines) /\ incoming \in Seq(Lines \union {Eof})
      /\ stdin \in Seq(Order)
  BY DEF TypeOK, Order
<1>2. \A line \in Lines : \A m : Has(Append(stdout, line), m) <=> Has(stdout, m) \/ m = line
  BY <1>1, HasAppend
<1>3. \A line \in Lines \union {Eof} : \A m :
        Has(Append(incoming, line), m) <=> Has(incoming, m) \/ m = line
  BY <1>1, HasAppend
<1>4. \A line \in Order : \A m : Has(Append(stdin, line), m) <=> Has(stdin, m) \/ m = line
  BY <1>1, HasAppend
<1> QED
  BY <1>2, <1>3, <1>4

\* A line that is read is the only one that the pipe loses.
LEMMA Read ==
  ASSUME TypeOK
  PROVE  /\ stdout # <<>> => /\ Head(stdout) \in Lines
                             /\ \A m : Has(stdout, m) => m = Head(stdout) \/ Has(Tail(stdout), m)
         /\ incoming # <<>> =>
              /\ Head(incoming) \in Lines \union {Eof}
              /\ \A m : Has(incoming, m) => m = Head(incoming) \/ Has(Tail(incoming), m)
         /\ stdin # <<>> => /\ Head(stdin) \in Order
                            /\ \A m : Has(stdin, m) => m = Head(stdin) \/ Has(Tail(stdin), m)
BY HasTail DEF TypeOK, Order

\* A line is what it says.
LEMMA LineIs ==
  /\ \A line \in Lines \union {Eof} : \A id : line = Asking(id) <=> line.kind = "request" /\ line.id = id
  /\ \A line \in Order : \A id : line = Replying(id) <=> line.kind = "reply" /\ line.id = id
BY DEF Lines, Eof, Order, Asking, Replying, Message

\* What the client writes keeps what was on its way to the server.
LEMMA SentKeeps ==
  ASSUME TypeOK, NEW line \in Order, stdin' = Sent(line), NEW id
  PROVE  /\ Has(stdin, Replying(id)) => Has(stdin', Replying(id))
         /\ running /\ line = Replying(id) => Has(stdin', Replying(id))
BY Written DEF Sent

\* Every step keeps the server's requests attended to.
LEMMA AskedStep == NoClash /\ IInv /\ AskedInv /\ [Next]_vars => AskedInv'
<1> SUFFICES ASSUME NoClash, IInv, AskedInv, [Next]_vars, running', NEW id \in asked'
             PROVE  Attended(id)'
  BY DEF AskedInv
<1>1. /\ TypeOK /\ RequestInv /\ PipeInv /\ id \in ServerIds /\ id \in Nat
      /\ MaxRequests \in Nat /\ ServerIds \subseteq Nat
  BY TypeStep, ClientAssumption DEF IInv, TypeOK
<1>2. running
  <2>1. CASE UNCHANGED running
    BY <2>1
  <2>2. CASE Kill \/ Exit
    BY <2>2 DEF Kill, Exit, Die
  <2> QED
    BY <2>1, <2>2 DEF Next, Request, Send, Close, Application, NextPage, PagesEnd, Greet, Skip,
       AnswerServer, Finish, Break, Timeout, Take, Terminate, Closed, Reader, ReadLine, ReadEof,
       Drain, Server, ServerRead, Interject, Execute, Respond, Ask, Finished, vars
<1>3. ASSUME asked' = asked, told' = told,
             Has(stdout, Asking(id)) \/ Has(incoming, Asking(id)) =>
               Has(stdout', Asking(id)) \/ Has(incoming', Asking(id)) \/ Has(stdin', Replying(id)),
             Has(stdin, Replying(id)) => Has(stdin', Replying(id))
      PROVE  Attended(id)'
  BY <1>2, <1>3 DEF AskedInv, Attended, Asking, Replying, Message
<1>4. \A n \in Nat : /\ Message("request", n) \in Order /\ Message("reply", n) \in Order
                     /\ Message("initialized", 0) \in Order
  BY DEF Message, Order
<1>5. CASE (\E method \in Methods : Request(method)) \/ NextPage
  <2>1. /\ stdin' = Sent(Message("request", RequestId + 1)) /\ UNCHANGED <<stdout, incoming, server>>
    <3>1. PICK method : Send(method)
      BY <1>5 DEF Request, NextPage
    <3> QED
      BY <3>1 DEF Send
  <2>2. RequestId + 1 \in Nat
    <3>1. requests \in Seq([method: Methods \union {"tools/list"}, outcome: Outcome])
      BY <1>1 DEF TypeOK
    <3>2. Len(requests) \in Nat
      BY <3>1, LenProperties
    <3> QED
      BY <3>2 DEF RequestId
  <2>3. Has(stdin, Replying(id)) => Has(stdin', Replying(id))
    BY <1>1, <1>4, <2>1, <2>2, SentKeeps
  <2> QED
    BY <1>3, <2>1, <2>3 DEF server
<1>6. CASE Greet
  <2>1. Has(stdin, Replying(id)) => Has(stdin', Replying(id))
    BY <1>1, <1>4, <1>6, SentKeeps DEF Greet
  <2> QED
    BY <1>3, <1>6, <2>1 DEF Greet, server
<1>7. CASE AnswerServer
  <2>1. /\ incoming # <<>> /\ incoming' = Tail(incoming) /\ UNCHANGED <<stdout, server>>
        /\ Head(incoming).kind = "request" /\ stdin' = Sent(Message("reply", Head(incoming).id))
    BY <1>7 DEF AnswerServer, Take
  <2>2. Head(incoming).id \in Nat
    BY <1>1, <2>1, Read DEF Lines, Eof, Message
  <2>3. Has(incoming, Asking(id)) => Has(incoming', Asking(id)) \/ Has(stdin', Replying(id))
    <3>1. CASE Head(incoming) = Asking(id)
      BY <1>1, <1>2, <1>4, <2>1, <2>2, <3>1, SentKeeps DEF Asking, Replying, Message
    <3>2. CASE Head(incoming) # Asking(id)
      BY <1>1, <2>1, <3>2, Read
    <3> QED
      BY <3>1, <3>2
  <2>4. Has(stdin, Replying(id)) => Has(stdin', Replying(id))
    BY <1>1, <1>4, <2>1, <2>2, SentKeeps
  <2> QED
    BY <1>3, <2>1, <2>3, <2>4 DEF server
<1>8. CASE Skip \/ Finish \/ Break
  <2>1. /\ incoming # <<>> /\ incoming' = Tail(incoming) /\ UNCHANGED <<stdout, stdin, server>>
        /\ pc = "waiting"
        /\ Head(incoming).kind = "request" => Head(incoming).id = RequestId
    BY <1>8 DEF Skip, Finish, Break, Take, Answers
  <2>2. Head(incoming) # Asking(id)
    <3>1. RequestId <= MaxRequests /\ RequestId \in Nat /\ id > MaxRequests
      BY <1>1, LenProperties DEF RequestInv, RequestId, TypeOK, NoClash
    <3> QED
      BY <1>1, <2>1, <3>1, Read, LineIs
  <2>3. Has(incoming, Asking(id)) => Has(incoming', Asking(id))
    BY <1>1, <2>1, <2>2, Read
  <2> QED
    BY <1>3, <2>1, <2>3 DEF server
<1>9. CASE \/ Timeout \/ PagesEnd \/ Close \/ Terminate \/ Closed \/ ReadEof \/ Drain
           \/ Finished \/ UNCHANGED vars
  <2>1. Has(incoming, Asking(id)) => Has(incoming', Asking(id))
    <3>1. CASE ReadEof
      BY <1>1, <3>1, Written DEF ReadEof
    <3>2. CASE incoming' = incoming
      BY <3>2
    <3> QED
      BY <1>9, <3>1, <3>2 DEF Timeout, PagesEnd, Close, Terminate, Closed, Drain, Finished, vars,
         client
  <2>2. UNCHANGED <<stdout, stdin, server>>
    BY <1>9 DEF Timeout, PagesEnd, Close, Terminate, Closed, ReadEof, Drain, Finished, vars
  <2> QED
    BY <1>3, <2>1, <2>2 DEF server
<1>10. CASE ReadLine
  <2>1. /\ stdout # <<>> /\ stdout' = Tail(stdout) /\ UNCHANGED <<stdin, server>>
        /\ \/ Head(stdout).kind = "undecodable" /\ incoming' = Append(incoming, Eof)
           \/ incoming' = Append(incoming, Head(stdout))
    BY <1>10 DEF ReadLine
  <2>2. /\ Head(stdout) \in Lines
        /\ Has(stdout, Asking(id)) => Asking(id) = Head(stdout) \/ Has(stdout', Asking(id))
        /\ Has(incoming, Asking(id)) => Has(incoming', Asking(id))
    <3>1. /\ Head(stdout) \in Lines
          /\ Has(stdout, Asking(id)) => Asking(id) = Head(stdout) \/ Has(stdout', Asking(id))
      BY <1>1, <2>1, Read
    <3>2. Head(stdout) \in Lines \union {Eof} /\ Eof \in Lines \union {Eof}
      BY <3>1
    <3>3. /\ Has(incoming, Asking(id)) => Has(Append(incoming, Eof), Asking(id))
          /\ Has(incoming, Asking(id)) => Has(Append(incoming, Head(stdout)), Asking(id))
      BY <1>1, <3>2, Written
    <3> QED
      BY <2>1, <3>1, <3>3
  <2>3. Asking(id) = Head(stdout) => Has(incoming', Asking(id))
    <3>1. SUFFICES ASSUME Asking(id) = Head(stdout) PROVE Has(incoming', Asking(id))
      OBVIOUS
    <3>2. Head(stdout).kind # "undecodable"
      BY <3>1 DEF Asking, Message
    <3>3. incoming' = Append(incoming, Head(stdout))
      BY <2>1, <3>2
    <3>4. Head(stdout) \in Lines \union {Eof}
      BY <2>2
    <3>5. Has(Append(incoming, Head(stdout)), Head(stdout))
      BY <1>1, <3>4, Written
    <3> QED
      BY <3>1, <3>3, <3>5
  <2> QED
    BY <1>3, <2>1, <2>2, <2>3 DEF server
<1>11. CASE ServerRead
  <2>1. /\ stdin # <<>> /\ stdin' = Tail(stdin) /\ UNCHANGED <<client, stdout, asked>>
        /\ told \subseteq told' /\ (Head(stdin).kind = "reply" => Head(stdin).id \in told')
    BY <1>11 DEF ServerRead
  <2>2. Has(stdin, Replying(id)) => Has(stdin', Replying(id)) \/ id \in told'
    <3>1. Replying(id) = Head(stdin) => id \in told'
      BY <1>1, <2>1, Read, LineIs
    <3> QED
      BY <1>1, <2>1, <3>1, Read
  <2> QED
    BY <1>2, <2>1, <2>2 DEF AskedInv, Attended, Asking, Replying, Message, client
<1>12. ASSUME NEW n \in ServerIds, Ask(n) PROVE Attended(id)'
  <2>1. /\ stdout' = Append(stdout, Asking(n)) /\ asked' = asked \union {n}
        /\ UNCHANGED <<client, stdin, told>>
    BY <1>12 DEF Ask, Asking
  <2>2. Asking(n) \in Lines
    BY <1>1 DEF Asking, Message, Lines, Kinds
  <2>3. \A m : Has(stdout', m) <=> Has(stdout, m) \/ m = Asking(n)
    BY <1>1, <2>1, <2>2, Written
  <2>4. CASE id = n
    <3>1. Has(stdout', Asking(id))
      BY <2>3, <2>4
    <3> QED
      BY <3>1 DEF Attended, Asking, Message
  <2>5. CASE id # n
    <3>1. id \in asked
      BY <2>1, <2>5
    <3> QED
      BY <1>2, <2>1, <2>3, <3>1 DEF AskedInv, Attended, Asking, Replying, Message, client
  <2> QED
    BY <2>4, <2>5
<1>13. CASE Interject \/ \E n \in 1..MaxRequests : Respond(n)
  <2>1. /\ UNCHANGED <<client, stdin, asked, told>>
        /\ \E line \in Lines : stdout' = Append(stdout, line)
    <3>1. /\ \A kind \in Noise : Message(kind, 0) \in Lines
          /\ \A kind \in Answers : \A n \in 1..MaxRequests : Message(kind, n) \in Lines
      BY <1>1 DEF Message, Lines, Kinds
    <3> QED
      BY <1>13, <3>1 DEF Interject, Respond
  <2>2. Has(stdout, Asking(id)) => Has(stdout', Asking(id))
    BY <1>1, <2>1, Written
  <2> QED
    BY <1>3, <2>1, <2>2 DEF client
<1>14. CASE \E n \in 1..MaxRequests : Execute(n)
  BY <1>3, <1>14 DEF Execute, client
<1>15. CASE Kill \/ Exit
  BY <1>15 DEF Kill, Exit, Die
<1> QED
  BY <1>5, <1>6, <1>7, <1>8, <1>9, <1>10, <1>11, <1>12, <1>13, <1>14, <1>15
     DEF Next, Application, Reader, Server

\* raw_client.py:168: "so the server never blocks on us": a request of the server's is on
\* its way to the client, or answered.
THEOREM ServerIsAnswered ==
  ASSUME NoClash
  PROVE  Spec => []ServerRequestsAnswered
<1>1. Init => AskedInv
  BY DEF Init, AskedInv
<1>2. IInv /\ AskedInv /\ [Next]_vars => AskedInv'
  BY NoClash, AskedStep
<1>3. AskedInv => ServerRequestsAnswered
  BY AskedIs
<1> QED
  BY <1>1, <1>2, <1>3, InvariantHolds, PTL DEF Spec

----------------------------------------------------------------------------
(* Why requests end: what FairSpec needs of the safety of the model.       *)

\* The ids of the requests in a pipe, and that none is in it twice.
CallIds(s) == {s[i].id : i \in {k \in DOMAIN s : s[k].kind = "request"}}
Once(s) ==
  \A i, j \in DOMAIN s :
    s[i].kind = "request" /\ s[j].kind = "request" /\ s[i].id = s[j].id => i = j

\* What is in a pipe after one more line.
LEMMA CallsAppend ==
  ASSUME NEW s \in Seq(Order), NEW e \in Order
  PROVE  /\ CallIds(Append(s, e)) =
              CallIds(s) \union (IF e.kind = "request" THEN {e.id} ELSE {})
         /\ Once(s) /\ (e.kind = "request" => e.id \notin CallIds(s)) => Once(Append(s, e))
<1> DEFINE t == Append(s, e)
<1>1. /\ Len(s) \in Nat /\ DOMAIN s = 1..Len(s) /\ DOMAIN t = 1 .. Len(s) + 1
      /\ t[Len(s) + 1] = e /\ \A i \in 1..Len(s) : t[i] = s[i]
  BY AppendProperties, LenProperties
<1> HIDE DEF t
<1>2. \A i \in DOMAIN t : i \in DOMAIN s \/ i = Len(s) + 1
  BY <1>1
<1>3. DOMAIN s \subseteq DOMAIN t /\ Len(s) + 1 \in DOMAIN t
  BY <1>1
<1>4. CallIds(t) = CallIds(s) \union (IF e.kind = "request" THEN {e.id} ELSE {})
  BY <1>1, <1>2, <1>3 DEF CallIds
<1>5. Once(s) /\ (e.kind = "request" => e.id \notin CallIds(s)) => Once(t)
  BY <1>1, <1>2, <1>3 DEF Once, CallIds
<1> QED
  BY <1>4, <1>5 DEF t

\* What is in a pipe once its head is taken.
LEMMA CallsTail ==
  ASSUME NEW s \in Seq(Order), s # <<>>, Once(s)
  PROVE  /\ Once(Tail(s))
         /\ CallIds(s) =
              CallIds(Tail(s)) \union (IF Head(s).kind = "request" THEN {Head(s).id} ELSE {})
         /\ Head(s).kind = "request" => Head(s).id \notin CallIds(Tail(s))
<1> DEFINE t == Tail(s)
<1>1. /\ Len(s) \in Nat /\ DOMAIN s = 1..Len(s) /\ Len(s) # 0 /\ Head(s) = s[1]
      /\ DOMAIN t = 1 .. Len(s) - 1 /\ \A i \in 1 .. Len(s) - 1 : t[i] = s[i + 1]
  <2>1. Len(s) \in Nat /\ DOMAIN s = 1..Len(s) /\ Len(s) # 0
    BY LenProperties, EmptySeq
  <2>2. /\ Head(s) = s[1] /\ t \in Seq(Order) /\ Len(t) = Len(s) - 1
        /\ \A i \in 1..Len(t) : t[i] = s[i + 1]
    BY <2>1, HeadTailProperties
  <2> QED
    BY <2>1, <2>2, LenProperties
<1> HIDE DEF t
<1>2. /\ \A i \in DOMAIN s : i = 1 \/ (i - 1 \in DOMAIN t /\ t[i - 1] = s[i])
      /\ \A i \in DOMAIN t : i + 1 \in DOMAIN s /\ t[i] = s[i + 1] /\ i + 1 # 1
      /\ \A i, j \in DOMAIN t : i + 1 = j + 1 => i = j
      /\ 1 \in DOMAIN s
  BY <1>1
<1>3. Once(t)
  BY <1>2 DEF Once
<1>4. CallIds(s) = CallIds(t) \union (IF Head(s).kind = "request" THEN {Head(s).id} ELSE {})
  <2>1. \A m : m \in CallIds(s) =>
          m \in CallIds(t) \union (IF Head(s).kind = "request" THEN {Head(s).id} ELSE {})
    <3> SUFFICES ASSUME NEW i \in DOMAIN s, s[i].kind = "request", s[i].id \notin CallIds(t)
                 PROVE  i = 1
      BY <1>1 DEF CallIds
    <3> QED
      BY <1>2 DEF CallIds
  <2>2. CallIds(t) \subseteq CallIds(s)
    BY <1>2 DEF CallIds
  <2>3. Head(s).kind = "request" => Head(s).id \in CallIds(s)
    <3>1. 1 \in DOMAIN s /\ Head(s) = s[1]
      BY <1>1, <1>2
    <3> QED
      BY <3>1 DEF CallIds
  <2> QED
    BY <2>1, <2>2, <2>3
<1>5. Head(s).kind = "request" => Head(s).id \notin CallIds(t)
  BY <1>1, <1>2 DEF CallIds, Once
<1> QED
  BY <1>3, <1>4, <1>5 DEF t

\* The requests that the server may still answer.
Awaited == working \union CallIds(stdin)

\* A request is in one place only, and the server has not interjected more often than
\* the bound allows.
OnceInv ==
  /\ Once(stdin)
  /\ \A id \in working : id \notin CallIds(stdin)
  /\ ~Endless => noise <= MaxNoise

\* What the client can still be sent before it sends another request: an answer to each
\* request that is awaited, each request of the server's own, and the sentinel.
Replies == Cardinality(Awaited)
Questions == Cardinality(ServerIds \ asked)
Sentinel == IF reading THEN 1 ELSE 0

\* With the interjections to come and the messages in the pipe and in the queue.
Weight ==
  Replies + Questions + (MaxNoise - noise) + Len(stdout) + Len(incoming) + Sentinel

\* While a request waits that number never grows, and each step that does not end the
\* wait takes one off it.
Shortens ==
  pc = "waiting" /\ pc' = "waiting" =>
    Weight' <= Weight /\ (Application => Weight' < Weight)

Pipes == TypeOK /\ RequestInv /\ PipeInv /\ OnceInv

\* What a step does to the requests on their way to the server.
SendsCall ==
  /\ pc # "waiting" /\ working' = working
  /\ stdin' = Append(stdin, Message("request", Len(requests) + 1))
SendsOther == \E line \in Order :
  line.kind # "request" /\ stdin' = Append(stdin, line) /\ working' = working
Dies == stdin' = <<>> /\ working' = {}
Answering == \E id \in 1..MaxRequests : Respond(id)

\* There is nothing else that a step does to them.
LEMMA Flow ==
  ASSUME TypeOK, [Next]_vars
  PROVE  \/ SendsCall \/ SendsOther \/ ServerRead \/ Answering \/ Dies
         \/ UNCHANGED <<stdin, working>>
<1>1. CASE (\E method \in Methods : Request(method)) \/ NextPage
  BY <1>1 DEF Request, NextPage, Send, Sent, SendsCall, RequestId, server
<1>2. CASE Greet
  <2>1. Message("initialized", 0) \in Order
    BY DEF Message, Order
  <2> QED
    BY <1>2, <2>1 DEF Greet, Sent, SendsOther, server, Message
<1>3. CASE AnswerServer
  <2>1. Head(incoming).id \in Nat
    BY <1>3, HeadTailProperties DEF AnswerServer, Take, TypeOK, Lines, Eof, Message
  <2>2. Message("reply", Head(incoming).id) \in Order
    BY <2>1 DEF Message, Order
  <2> QED
    BY <1>3, <2>2 DEF AnswerServer, Take, Sent, SendsOther, server, Message
<1>4. CASE Kill \/ Exit
  BY <1>4 DEF Kill, Exit, Die, Dies
<1>5. CASE \/ Skip \/ Finish \/ Break \/ Timeout \/ PagesEnd \/ Close \/ Terminate \/ Closed
           \/ Reader \/ Drain \/ Finished \/ UNCHANGED vars
  BY <1>5 DEF Skip, Finish, Break, Timeout, Take, PagesEnd, Close, Terminate, Closed, Reader,
     ReadLine, ReadEof, Drain, Finished, vars, server
<1>6. CASE Server /\ ~ServerRead /\ ~Exit
  BY <1>6 DEF Server, Interject, Execute, Respond, Ask, Answering
<1> QED
  BY <1>1, <1>2, <1>3, <1>4, <1>5, <1>6 DEF Next, Application, Server

\* The requests in the pipe have been made.
LEMMA CallsMade ==
  ASSUME TypeOK, PipeInv
  PROVE  CallIds(stdin) \subseteq DOMAIN requests /\ Awaited \subseteq DOMAIN requests
<1>1. \A i \in DOMAIN stdin : stdin[i] \in TrueOrders
  BY ElementOfSeq, LenProperties DEF PipeInv
<1> QED
  BY <1>1 DEF CallIds, Awaited, TrueOrders, PipeInv

\* What the flow of requests leaves in the pipe and with the server.
LEMMA FlowKeeps ==
  ASSUME Pipes, [Next]_vars
  PROVE  /\ Once(stdin)' /\ \A id \in working' : id \notin CallIds(stdin)'
         /\ pc = "waiting" => Awaited' \subseteq Awaited
         /\ \A id \in 1..MaxRequests : Respond(id) => id \in Awaited /\ id \notin Awaited'
<1> USE DEF Pipes
<1>1. stdin \in Seq(Order) /\ requests \in Seq(Call) /\ Len(requests) \in Nat
  BY LenProperties DEF TypeOK, Order, Call
<1>2. CASE SendsCall
  <2>1. Message("request", Len(requests) + 1) \in Order
    BY <1>1 DEF Message, Order
  <2>2. Len(requests) + 1 \notin DOMAIN requests
    BY <1>1, LenProperties
  <2>3. /\ Once(stdin)'
        /\ CallIds(stdin)' = CallIds(stdin) \union {Len(requests) + 1}
    BY <1>1, <1>2, <2>1, <2>2, CallsAppend, CallsMade DEF SendsCall, Message, OnceInv
  <2> QED
    BY <1>2, <2>2, <2>3, CallsMade DEF SendsCall, OnceInv, Respond, client, Awaited
<1>3. CASE SendsOther
  BY <1>1, <1>3, CallsAppend DEF SendsOther, OnceInv, Awaited, Respond
<1>4. CASE ServerRead
  <2>1. /\ Once(Tail(stdin))
        /\ CallIds(stdin) = CallIds(Tail(stdin)) \union
             (IF Head(stdin).kind = "request" THEN {Head(stdin).id} ELSE {})
        /\ Head(stdin).kind = "request" => Head(stdin).id \notin CallIds(Tail(stdin))
    BY <1>1, <1>4, CallsTail DEF ServerRead, OnceInv
  <2>2. /\ stdin' = Tail(stdin)
        /\ working' = IF Head(stdin).kind = "request" THEN working \union {Head(stdin).id}
                      ELSE working
        /\ \A id \in 1..MaxRequests : ~Respond(id)
    <3>1. stdin # <<>> /\ stdin' = Tail(stdin)
      BY <1>4 DEF ServerRead
    <3>2. Tail(stdin) # stdin
      BY <1>1, <3>1, HeadTailProperties, LenProperties
    <3> QED
      BY <1>4, <3>1, <3>2 DEF ServerRead, Respond
  <2> QED
    BY <2>1, <2>2 DEF OnceInv, Awaited
<1>5. CASE Answering
  BY <1>5 DEF Answering, Respond, OnceInv, Awaited
<1>6. CASE Dies
  <2>1. CallIds(<<>>) = {} /\ Once(<<>>)
    BY EmptySeq DEF CallIds, Once
  <2> QED
    BY <1>6, <2>1 DEF Dies, Awaited, Respond
<1>7. CASE UNCHANGED <<stdin, working>>
  BY <1>7 DEF OnceInv, Awaited, Respond
<1> QED
  BY <1>2, <1>3, <1>4, <1>5, <1>6, <1>7, Flow

\* The interjections keep to their bound, and only they count towards it.
LEMMA NoiseStep ==
  ASSUME Pipes, [Next]_vars
  PROVE  /\ ~Endless => noise' <= MaxNoise
         /\ noise' = noise \/ (Interject /\ (~Endless => noise' = noise + 1 /\ noise < MaxNoise))
<1> USE ClientAssumption DEF Pipes
<1>1. CASE noise' = noise
  BY <1>1 DEF OnceInv
<1>2. CASE Interject
  BY <1>2 DEF Interject, TypeOK
<1>3. CASE Application \/ Reader \/ Drain \/ Close \/ \E method \in Methods : Request(method)
  BY <1>1, <1>3 DEF Request, Close, Application, NextPage, PagesEnd, Greet, Skip, Send,
     AnswerServer, Finish, Break, Timeout, Take, Terminate, Kill, Die, Closed, Reader, ReadLine,
     ReadEof, Drain, server
<1>4. CASE Server /\ ~Interject
  BY <1>1, <1>4 DEF Server, ServerRead, Exit, Die, Execute, Respond, Ask
<1>5. CASE Finished \/ UNCHANGED vars
  BY <1>1, <1>5 DEF Finished, vars, server
<1> QED
  BY <1>2, <1>3, <1>4, <1>5 DEF Next

\* The pipes keep what has been said of them.
LEMMA PipesHold == Spec => []Pipes
<1>1. Init => Pipes
  <2>1. CallIds(<<>>) = {} /\ Once(<<>>)
    BY EmptySeq DEF CallIds, Once
  <2> QED
    BY <2>1, InitInv, ClientAssumption DEF Pipes, IInv, Init, OnceInv
<1>2. Pipes /\ [Next]_vars => Pipes'
  BY FlowKeeps, NoiseStep, TypeStep, RequestStep, PipeStep DEF Pipes, OnceInv
<1> QED
  BY <1>1, <1>2, PTL DEF Spec

\* The parts of the weight are numbers.
LEMMA WeightType ==
  ASSUME IsFiniteSet(ServerIds), ~Endless, Pipes
  PROVE  /\ IsFiniteSet(Awaited) /\ IsFiniteSet(ServerIds \ asked)
         /\ Cardinality(Awaited) \in Nat /\ Cardinality(ServerIds \ asked) \in Nat
         /\ MaxNoise - noise \in Nat /\ noise \in Nat /\ MaxNoise \in Nat
         /\ Len(stdout) \in Nat /\ Len(incoming) \in Nat /\ reading \in BOOLEAN
         /\ Replies \in Nat /\ Questions \in Nat /\ Sentinel \in {0, 1} /\ Weight \in Nat
<1> USE DEF Pipes
<1>1. Len(requests) \in Nat /\ DOMAIN requests = 1..Len(requests)
  BY LenProperties DEF TypeOK
<1>2. IsFiniteSet(Awaited)
  <2>1. IsFiniteSet(1..Len(requests))
    BY <1>1, FS_Interval
  <2>2. Awaited \subseteq 1..Len(requests)
    BY <1>1, CallsMade
  <2> QED
    BY <2>1, <2>2, FS_Subset
<1>3. IsFiniteSet(ServerIds \ asked)
  BY FS_Subset
<1>4. Len(stdout) \in Nat /\ Len(incoming) \in Nat
  BY LenProperties DEF TypeOK
<1>5. noise \in Nat /\ MaxNoise \in Nat /\ MaxNoise - noise \in Nat
  BY ClientAssumption DEF TypeOK, OnceInv
<1>6. Cardinality(Awaited) \in Nat /\ Cardinality(ServerIds \ asked) \in Nat
  BY <1>2, <1>3, FS_CardinalityType
<1>7. Replies \in Nat /\ Questions \in Nat /\ Sentinel \in {0, 1} /\ reading \in BOOLEAN
  BY <1>6 DEF Replies, Questions, Sentinel, TypeOK
<1>8. Weight \in Nat
  BY <1>4, <1>5, <1>7 DEF Weight
<1> QED
  BY <1>2, <1>3, <1>4, <1>5, <1>6, <1>7, <1>8

\* What a step of a wait does to the messages still to come, and to those that have.
LEMMA WeightStep ==
  ASSUME IsFiniteSet(ServerIds), ~Endless, Pipes, Pipes', Next, pc = "waiting", pc' = "waiting"
  PROVE  Weight' <= Weight /\ (Application => Weight' < Weight)
<1>1. /\ Replies \in Nat /\ Questions \in Nat /\ MaxNoise - noise \in Nat /\ noise \in Nat /\ MaxNoise \in Nat
      /\ Len(stdout) \in Nat /\ Len(incoming) \in Nat /\ Sentinel \in {0, 1}
  BY WeightType
<1>2. /\ Replies' \in Nat /\ Questions' \in Nat /\ noise' \in Nat
      /\ Len(stdout') \in Nat /\ Len(incoming') \in Nat /\ Sentinel' \in {0, 1}
  <2>1. /\ IsFiniteSet(Awaited') /\ IsFiniteSet(ServerIds \ asked')
    <3>1. Len(requests') \in Nat /\ DOMAIN requests' = 1..Len(requests')
      BY LenProperties DEF Pipes, TypeOK
    <3>2. Awaited' \subseteq Awaited
      BY FlowKeeps
    <3> QED
      BY <3>2, WeightType, FS_Subset
  <2>2. Cardinality(Awaited') \in Nat /\ Cardinality(ServerIds \ asked') \in Nat
    BY <2>1, FS_CardinalityType
  <2> QED
    BY <2>2, LenProperties DEF Pipes, TypeOK, Replies, Questions, Sentinel
<1>3. Replies' <= Replies
  BY FlowKeeps, WeightType, FS_Subset DEF Replies
<1>4. PICK a \in Nat, b \in Nat, n \in Nat, o \in Nat, i \in Nat, z \in {0, 1} :
        /\ Replies' = a /\ Questions' = b /\ noise' = n
        /\ Len(stdout') = o /\ Len(incoming') = i /\ Sentinel' = z
  BY <1>2
<1>5. /\ Weight = Replies + Questions + (MaxNoise - noise) + Len(stdout) + Len(incoming) + Sentinel
      /\ Weight' = a + b + (MaxNoise - n) + o + i + z
      /\ a <= Replies
  BY <1>3, <1>4 DEF Weight
<1>6. /\ incoming # <<>> => Len(Tail(incoming)) = Len(incoming) - 1
      /\ stdout # <<>> => Len(Tail(stdout)) = Len(stdout) - 1
      /\ \A line \in Lines : Len(Append(stdout, line)) = Len(stdout) + 1
      /\ \A line \in Lines \union {Eof} : Len(Append(incoming, line)) = Len(incoming) + 1
      /\ stdout # <<>> => Head(stdout) \in Lines
  BY HeadTailProperties, AppendProperties DEF Pipes, TypeOK
<1>7. ASSUME Application PROVE Weight' < Weight
  <2>1. Skip \/ AnswerServer
    BY <1>7 DEF Application, NextPage, PagesEnd, Greet, Finish, Break, Timeout, Take, Settle,
       After, Terminate, Kill, Closed
  <2>2. /\ incoming # <<>> /\ incoming' = Tail(incoming)
        /\ UNCHANGED <<stdout, asked, noise, reading>>
    BY <2>1 DEF Skip, AnswerServer, Take, server
  <2>3. b = Questions /\ n = noise /\ o = Len(stdout) /\ i = Len(incoming) - 1 /\ z = Sentinel
    BY <1>4, <1>6, <2>2 DEF Questions, Sentinel
  <2> QED
    BY <1>1, <1>5, <2>3
<1> SUFFICES ASSUME ~Application PROVE Weight' <= Weight
  BY <1>1, <1>5, <1>7
<1>8. CASE Reader
  <2>1. b = Questions /\ n = noise
    BY <1>4, <1>8 DEF Reader, ReadLine, ReadEof, server, Questions
  <2>2. CASE ReadLine
    <3>1. o = Len(stdout) - 1 /\ i = Len(incoming) + 1
      BY <1>4, <1>6, <2>2 DEF ReadLine
    <3>2. z <= Sentinel
      BY <1>1, <1>4, <2>2 DEF ReadLine, Sentinel
    <3> QED
      BY <1>1, <1>5, <2>1, <3>1, <3>2
  <2>3. CASE ReadEof
    <3>1. o = Len(stdout) /\ i = Len(incoming) + 1 /\ Sentinel = 1 /\ z = 0
      BY <1>4, <1>6, <2>3 DEF ReadEof, Sentinel
    <3> QED
      BY <1>1, <1>5, <2>1, <3>1
  <2> QED
    BY <1>8, <2>2, <2>3 DEF Reader
<1>9. ASSUME NEW id \in 1..MaxRequests, Respond(id) PROVE Weight' <= Weight
  <2>1. /\ o = Len(stdout) + 1
        /\ b = Questions /\ n = noise /\ i = Len(incoming) /\ z = Sentinel
    <3>1. \A kind \in Answers : Message(kind, id) \in Lines
      BY ClientAssumption DEF Message, Lines, Kinds
    <3> QED
      BY <1>4, <1>6, <1>9, <3>1 DEF Respond, client, Questions, Sentinel
  <2>2. a < Replies
    <3>1. Awaited' \subseteq Awaited /\ Awaited' # Awaited
      BY <1>9, FlowKeeps
    <3>2. Cardinality(Awaited') # Cardinality(Awaited)
      BY <3>1, WeightType, FS_Subset
    <3>3. a # Replies
      BY <1>4, <3>2 DEF Replies
    <3> QED
      BY <1>1, <1>5, <3>3
  <2> QED
    BY <1>1, <1>5, <2>1, <2>2
<1>10. ASSUME NEW id \in ServerIds, Ask(id) PROVE Weight' <= Weight
  <2>1. o = Len(stdout) + 1 /\ n = noise /\ i = Len(incoming) /\ z = Sentinel
    <3>1. Message("request", id) \in Lines
      BY ClientAssumption DEF Message, Lines, Kinds
    <3> QED
      BY <1>4, <1>6, <1>10, <3>1 DEF Ask, client, Sentinel
  <2>2. b = Questions - 1
    <3>1. ServerIds \ asked' = (ServerIds \ asked) \ {id} /\ id \in ServerIds \ asked
      BY <1>10 DEF Ask
    <3>2. Cardinality((ServerIds \ asked) \ {id}) = Cardinality(ServerIds \ asked) - 1
      BY <3>1, WeightType, FS_RemoveElement
    <3> QED
      BY <1>4, <3>1, <3>2 DEF Questions
  <2> QED
    BY <1>1, <1>5, <2>1, <2>2
<1>11. CASE Interject
  <2>1. PICK kind \in Noise : stdout' = Append(stdout, Message(kind, 0))
    BY <1>11 DEF Interject
  <2>2. Message(kind, 0) \in Lines
    BY DEF Message, Lines, Kinds
  <2>3. /\ o = Len(stdout) + 1 /\ n = noise + 1
        /\ b = Questions /\ i = Len(incoming) /\ z = Sentinel
    BY <1>4, <1>6, <1>11, <2>1, <2>2 DEF Interject, client, Questions, Sentinel
  <2> QED
    BY <1>1, <1>5, <2>3
<1>12. CASE Drain \/ ServerRead \/ Exit \/ \E id \in 1..MaxRequests : Execute(id)
  <2>1. UNCHANGED <<asked, noise, stdout, incoming, reading>>
    BY <1>12 DEF Drain, ServerRead, Exit, Die, Execute, client, server
  <2>2. b = Questions /\ n = noise /\ o = Len(stdout) /\ i = Len(incoming) /\ z = Sentinel
    BY <1>4, <2>1 DEF Questions, Sentinel
  <2> QED
    BY <1>1, <1>5, <2>2
<1>13. CASE Close \/ Finished \/ \E method \in Methods : Request(method)
  BY <1>13 DEF Close, Finished, Request
<1> QED
  BY <1>8, <1>9, <1>10, <1>11, <1>12, <1>13 DEF Next, Server

\* raw_client.py:175: a request waits for at most Weight messages, whatever the server
\* sends in whatever order, if it sends finitely many that nobody asked for; so much does
\* the timeout, which each message starts again, let pass before the request ends.
THEOREM WaitsShorten ==
  ASSUME IsFiniteSet(ServerIds), ~Endless
  PROVE  Spec => [](Weight \in Nat) /\ [][Shortens]_vars
<1>1. Pipes => Weight \in Nat
  BY WeightType
<1>2. Pipes /\ Pipes' /\ [Next]_vars => [Shortens]_vars
  BY WeightStep DEF Shortens
<1> QED
  BY <1>1, <1>2, PipesHold, PTL DEF Spec

====
