---- MODULE ServerThreads ----
(***************************************************************************)
(* The threads of one server process (server/memory_server.py): the SDK's  *)
(* workers, which run tool calls under _SERVER_LOCK, the thread that       *)
(* preloads the embedding model, the double-checked load under _model_lock *)
(* and the MCP_DEBUG_LOG line written after the call.                      *)
(*                                                                         *)
(* What the calls do to the database is MemoryStore's; here a transaction  *)
(* commits or fails.  The cache of models on disk and the network are      *)
(* external: other processes fill the cache, an online load may hang.      *)
(***************************************************************************)
EXTENDS Integers, Sequences

CONSTANTS
  Worker,     \* worker threads of the SDK
  Preloader,  \* the thread of _maybe_preload_model
  NoThread,   \* a lock is free
  Tools,      \* the kinds of calls: how they use the model and the database
  MaxCalls    \* bound: calls of one behaviour

ASSUME ThreadAssumption ==
  /\ Preloader \notin Worker
  /\ NoThread \notin Worker \union {Preloader}
  /\ Tools \subseteq {"set", "search", "get", "delete"}
  /\ MaxCalls \in Nat

Thread == Worker \union {Preloader}

VARIABLES
  env,         \* the environment: MCP_EMBEDDINGS, MCP_PRELOAD_MODEL, MCP_DEBUG_LOG
  pc,          \* where each thread is
  calls,       \* the calls so far
  call,        \* the call of each thread, an index of calls
  outcome,     \* how its body ended, for the debug log
  serverLock,  \* owner of _SERVER_LOCK
  modelLock,   \* owner of _model_lock
  model,       \* _model is set
  loads,       \* how many models have been constructed
  cache,       \* ~/.cache/huggingface: nothing, some files or all of them
  offline,     \* HF_HUB_OFFLINE in os.environ
  hub,         \* what the HF libraries took from it when they were imported
  inTime       \* history: a look said "cached" before the libraries were imported

locks == <<serverLock, modelLock>>
disk == <<cache, offline, hub, inTime>>
vars == <<env, pc, calls, call, outcome, locks, model, loads, disk>>

Init ==
  /\ env \in [embeddings: BOOLEAN, preload: BOOLEAN, debugLog: BOOLEAN]
  /\ env.preload => env.embeddings  \* it means nothing otherwise
  /\ pc = [t \in Thread |-> IF t \in Worker THEN "idle"
                            ELSE IF env.preload THEN "test" ELSE "done"]
  /\ calls = <<>>
  /\ call = [t \in Thread |-> 0]
  /\ outcome = [t \in Thread |-> "pending"]
  /\ serverLock = NoThread /\ modelLock = NoThread
  /\ model = FALSE /\ loads = 0
  /\ cache \in {"absent", "partial", "whole"}
  /\ offline \in {"unset", "0", "1"}  \* whoever starts the server may have set it
  /\ hub = "unread" /\ inTime = FALSE

----------------------------------------------------------------------------
(* The guard: _tool_guard. *)

At(t, label) == pc[t] = label
Goto(t, label) == pc' = [pc EXCEPT ![t] = label]
Tool(t) == calls[call[t]].tool

\* A call of the SDK's, on a thread that is free.
Receive(t) ==
  /\ At(t, "idle") /\ Len(calls) < MaxCalls
  /\ \E tool \in Tools :
       calls' = Append(calls, [tool |-> tool, done |-> FALSE, answer |-> "pending"])
  /\ call' = [call EXCEPT ![t] = Len(calls) + 1]
  /\ Goto(t, "enter")
  /\ UNCHANGED <<env, outcome, locks, model, loads, disk>>

\* `with _SERVER_LOCK`
Enter(t) ==
  /\ At(t, "enter") /\ serverLock = NoThread
  /\ serverLock' = t
  /\ Goto(t, "body")
  /\ UNCHANGED <<env, calls, call, outcome, modelLock, model, loads, disk>>

\* The body has returned or raised: the lock goes, the line of the log is next.
\* done: everything the call does to the database is done and committed.
Leave(t, result, done) ==
  /\ serverLock' = NoThread
  /\ outcome' = [outcome EXCEPT ![t] = result]
  /\ Goto(t, "trace")
  /\ calls' = [calls EXCEPT ![call[t]].done = done]
  /\ UNCHANGED <<env, call, model, loads>>

Answer(t, answer) ==
  /\ calls' = [calls EXCEPT ![call[t]].answer = answer]
  /\ outcome' = [outcome EXCEPT ![t] = "pending"]
  /\ call' = [call EXCEPT ![t] = 0]
  /\ Goto(t, "idle")
  /\ UNCHANGED <<env, locks, model, loads, disk>>

\* The call's own result, or its exception: "database is locked" is made a
\* ToolError, whose text the client sees; so are refusals.
Reply(t) == At(t, "trace") /\ Answer(t, outcome[t])

\* Mutant of TraceFails: the exception of the log is swallowed as success.
TraceFailsQuietly(t) == At(t, "trace") /\ env.debugLog /\ Answer(t, "ok")

\* The log cannot be opened: its exception takes the place of the call's result
\* and, raised in a handler, of the call's exception.
TraceFails(t) == At(t, "trace") /\ env.debugLog /\ Answer(t, "error")

----------------------------------------------------------------------------
(* The body of a call. *)

\* ToolError of _validate, or of a search without embeddings.
Refuse(t) ==
  /\ At(t, "body")
  /\ Tool(t) = "search" => ~env.embeddings
  /\ Leave(t, "refused", FALSE)
  /\ UNCHANGED <<modelLock, disk>>

\* memory_search reads the vectors first, and may find none.
Scan(t) ==
  /\ At(t, "body") /\ Tool(t) = "search" /\ env.embeddings
  /\ \/ Goto(t, "test") /\ UNCHANGED <<env, calls, call, outcome, serverLock, model, loads>>
     \/ Leave(t, "ok", TRUE)
  /\ UNCHANGED <<modelLock, disk>>

\* memory_set embeds before it opens its transaction; the rest do not embed, and
\* "delete" stands for those of them that read nothing after their transaction.
Prepare(t) ==
  /\ At(t, "body") /\ Tool(t) # "search"
  /\ Goto(t, IF Tool(t) = "set" /\ env.embeddings THEN "test" ELSE "statements")
  /\ UNCHANGED <<env, calls, call, outcome, locks, model, loads, disk>>

\* Opening the database, or a statement of the transaction: the write lock is
\* not to be had, or another error.
StatementFails(t) ==
  /\ pc[t] \in {"body", "statements"}
  /\ \E result \in {"locked", "error"} : Leave(t, result, FALSE)
  /\ UNCHANGED <<modelLock, disk>>

\* The SELECT of a fact's history fails, with the row of the get committed.
HistoryFails(t) ==
  /\ At(t, "statements") /\ Tool(t) = "get"
  /\ \E result \in {"locked", "error"} : Leave(t, result, TRUE)
  /\ UNCHANGED <<modelLock, disk>>

\* With the transaction committed the call returns, or raises: a lost
\* compare-and-swap and a get of no fact are ToolErrors after the commit.
Statements(t) ==
  /\ At(t, "statements")
  /\ \E result \in {"ok", "refused"} : Leave(t, result, TRUE)
  /\ UNCHANGED <<modelLock, disk>>

----------------------------------------------------------------------------
(* The model: _embed. *)

\* `if _model is None`, without the lock.
Test(t) ==
  /\ At(t, "test")
  /\ Goto(t, IF model THEN "encode" ELSE "await")
  /\ UNCHANGED <<env, calls, call, outcome, locks, model, loads, disk>>

\* Mutant of Await: the test is not repeated under the lock.
AwaitOnce(t) ==
  /\ At(t, "await") /\ modelLock = NoThread
  /\ modelLock' = t
  /\ Goto(t, "look")
  /\ UNCHANGED <<env, calls, call, outcome, serverLock, model, loads, disk>>

\* Mutant of Await: the load takes both locks.
AwaitBoth(t) ==
  /\ At(t, "await") /\ modelLock = NoThread
  /\ modelLock' = t /\ serverLock' = t
  /\ Goto(t, "retest")
  /\ UNCHANGED <<env, calls, call, outcome, model, loads, disk>>

\* `with _model_lock`
Await(t) ==
  /\ At(t, "await") /\ modelLock = NoThread
  /\ modelLock' = t
  /\ Goto(t, "retest")
  /\ UNCHANGED <<env, calls, call, outcome, serverLock, model, loads, disk>>

\* The second test, under the lock.
Retest(t) ==
  /\ At(t, "retest")
  /\ Goto(t, IF model THEN "encode" ELSE "look")
  /\ modelLock' = IF model THEN NoThread ELSE modelLock
  /\ UNCHANGED <<env, calls, call, outcome, serverLock, model, loads, disk>>

\* The libraries read HF_HUB_OFFLINE once, when they are first imported.
HubRead(value) ==
  IF hub # "unread" THEN hub ELSE IF value = "1" THEN "offline" ELSE "online"

Cached == cache # "absent"

\* os.environ.setdefault: a value that is there stays, "0" as well as "1".
SetDefault == IF Cached /\ offline = "unset" THEN "1" ELSE offline

\* Mutant of Look: huggingface_hub is imported for the look, before the variable is set.
LookImports(t) ==
  /\ At(t, "look")
  /\ offline' = SetDefault
  /\ inTime' = (inTime \/ (Cached /\ hub = "unread"))
  /\ hub' = HubRead(offline)
  /\ Goto(t, "import")
  /\ UNCHANGED <<env, calls, call, outcome, locks, model, loads, cache>>

\* _hf_model_cached sees a snapshot directory with anything in it.
Look(t) ==
  /\ At(t, "look")
  /\ offline' = SetDefault
  /\ inTime' = (inTime \/ (Cached /\ hub = "unread"))
  /\ Goto(t, "import")
  /\ UNCHANGED <<env, calls, call, outcome, locks, model, loads, cache, hub>>

\* The deferred import of sentence_transformers.
Import(t) ==
  /\ At(t, "import")
  /\ hub' = HubRead(offline)
  /\ Goto(t, "load")
  /\ UNCHANGED <<env, calls, call, outcome, locks, model, loads, cache, offline, inTime>>

\* SentenceTransformer(...): an offline one needs the whole cache.
Load(t) ==
  /\ At(t, "load") /\ (hub = "offline" => cache = "whole")
  /\ model' = TRUE /\ loads' = loads + 1
  /\ cache' = "whole"
  /\ modelLock' = NoThread
  /\ Goto(t, "encode")
  /\ UNCHANGED <<env, calls, call, outcome, serverLock, offline, hub, inTime>>

\* The exception of _embed ends the call; the preload thread swallows it.
Raise(t) ==
  IF t \in Worker THEN Leave(t, "error", FALSE)
  ELSE Goto(t, "done") /\ UNCHANGED <<env, calls, call, outcome, serverLock, model, loads>>

\* Mutant of LoadFails: `with _model_lock` is lost on the way out.
LoadFailsHolding(t) ==
  /\ At(t, "load")
  /\ modelLock' = modelLock
  /\ cache' \in {cache, IF hub = "online" /\ cache = "absent" THEN "partial" ELSE cache}
  /\ Raise(t)
  /\ UNCHANGED <<offline, hub, inTime>>

\* The load fails; a broken download leaves some of its files.
LoadFails(t) ==
  /\ At(t, "load")
  /\ modelLock' = NoThread
  /\ cache' \in {cache, IF hub = "online" /\ cache = "absent" THEN "partial" ELSE cache}
  /\ Raise(t)
  /\ UNCHANGED <<offline, hub, inTime>>

\* The import fails, before or after the libraries have read the variable.
ImportFails(t) ==
  /\ At(t, "import")
  /\ modelLock' = NoThread
  /\ hub' \in {hub, HubRead(offline)}
  /\ Raise(t)
  /\ UNCHANGED <<cache, offline, inTime>>

\* The network never answers.
LoadHangs(t) ==
  /\ At(t, "load") /\ hub = "online"
  /\ Goto(t, "hung")
  /\ UNCHANGED <<env, calls, call, outcome, locks, model, loads, disk>>

\* _model.encode(texts)
Encode(t) ==
  /\ At(t, "encode")
  /\ Goto(t, IF t \in Worker THEN "statements" ELSE "done")
  /\ UNCHANGED <<env, calls, call, outcome, locks, model, loads, disk>>

EncodeFails(t) ==
  /\ At(t, "encode")
  /\ Raise(t)
  /\ UNCHANGED <<modelLock, disk>>

----------------------------------------------------------------------------
\* Another process downloads the model.
OtherDownload ==
  /\ cache' = CASE cache = "absent" -> "partial" [] OTHER -> "whole"
  /\ cache # "whole"
  /\ UNCHANGED <<env, pc, calls, call, outcome, locks, model, loads>>
  /\ UNCHANGED <<offline, hub, inTime>>

Embed(t) ==
  \/ Test(t) \/ Await(t) \/ Retest(t) \/ Look(t) \/ Import(t) \/ Load(t)
  \/ LoadFails(t) \/ ImportFails(t) \/ Encode(t) \/ EncodeFails(t)

Run(t) ==
  \/ Enter(t) \/ Refuse(t) \/ Scan(t) \/ Prepare(t)
  \/ StatementFails(t) \/ HistoryFails(t) \/ Statements(t)
  \/ Reply(t) \/ TraceFails(t)

Hung == \E t \in Thread : pc[t] = "hung"

\* Nothing left to do, or nothing that can be done.
Rest ==
  /\ Hung \/ \A t \in Thread : pc[t] \in {"idle", "done"}
  /\ UNCHANGED vars

Next ==
  \/ \E t \in Worker : Receive(t) \/ Run(t)
  \/ \E t \in Thread : Embed(t) \/ LoadHangs(t)
  \/ OtherDownload
  \/ Rest

Spec == Init /\ [][Next]_vars

\* A thread that can go on does.  Nothing is assumed of the network, of other
\* processes, nor that calls arrive.
FairSpec ==
  /\ Spec
  /\ \A t \in Worker : WF_vars(Run(t) \/ Embed(t))
  /\ WF_vars(Embed(Preloader))

----------------------------------------------------------------------------
(* Properties. *)

Results == {"ok", "refused", "locked", "error"}
Call == [tool: Tools, done: BOOLEAN, answer: Results \union {"pending"}]

\* Types of every variable.
TypeOK ==
  /\ env \in [embeddings: BOOLEAN, preload: BOOLEAN, debugLog: BOOLEAN]
  /\ pc \in [Thread -> {"idle", "enter", "body", "test", "await", "retest", "look", "import",
                        "load", "encode", "statements", "trace", "done", "hung"}]
  /\ calls \in Seq(Call)
  /\ call \in [Thread -> 0..Len(calls)]
  /\ outcome \in [Thread -> Results \union {"pending"}]
  /\ serverLock \in Worker \union {NoThread}
  /\ modelLock \in Thread \union {NoThread}
  /\ model \in BOOLEAN /\ loads \in Nat
  /\ cache \in {"absent", "partial", "whole"}
  /\ offline \in {"unset", "0", "1"}
  /\ hub \in {"unread", "online", "offline"}
  /\ inTime \in BOOLEAN

\* A thread that uses the connection, or may go on to use it in this call.
InBody(t) == pc[t] \notin {"idle", "enter", "trace"}

\* "serialize all db access across SDK worker threads" (memory_server.py:287):
\* from its first statement to its last, model load included, a call has the
\* connection to itself.
ConnectionHasOneUser ==
  \A t, u \in Worker : InBody(t) /\ InBody(u) => t = u

\* "double-checked: only one thread ever loads" (memory_server.py:227): whichever
\* of the preload thread and the calls comes first, one model is constructed, and
\* nobody encodes with _model unset.
ModelLoadedOnce ==
  /\ loads <= 1
  /\ \A t \in Thread : pc[t] = "encode" => model

\* "Offline-vs-online decided BEFORE any HF import" (memory_server.py:233): a
\* process that finds the model in the cache before it imports the libraries never
\* goes online for it, in no later attempt and on no thread, unless it was started
\* with HF_HUB_OFFLINE=0.
CachedNeverOnline ==
  offline # "0" /\ inTime => \A t \in Thread : pc[t] \in {"load", "hung"} => hub = "offline"

\* "cached -> force offline so network freshness checks can never hang a tool
\* call" (memory_server.py:234): with HF_HUB_OFFLINE=1 set no load waits for the
\* network.
ForcedNeverHangs == offline = "1" => ~Hung

\* An answer tells what became of the call: a result means it is committed, the
\* ToolError that asks for a retry that nothing was done; an error hides a commit
\* only if the debug log could not be written.  A get is apart: its history is
\* read after its row is committed.
AnswersTell ==
  \A n \in DOMAIN calls :
    /\ calls[n].answer = "ok" => calls[n].done
    /\ calls[n].answer = "locked" /\ calls[n].done => calls[n].tool = "get"
    /\ calls[n].answer = "error" /\ calls[n].done => env.debugLog \/ calls[n].tool = "get"

\* No call waits for ever for a lock, whatever fails while it is held, unless an
\* online load hangs.
EveryCallReturns ==
  \A n \in 1..MaxCalls :
    (n \in DOMAIN calls) ~> (Hung \/ (n \in DOMAIN calls /\ calls[n].answer # "pending"))

----------------------------------------------------------------------------
(* The inductive invariant. *)

\* Who holds which lock follows from where the threads are.
LockInv ==
  /\ \A t \in Worker : serverLock = t <=> InBody(t)
  /\ \A t \in Thread : modelLock = t <=> pc[t] \in {"retest", "look", "import", "load", "hung"}
  /\ pc[Preloader] \in {"test", "await", "retest", "look", "import", "load", "encode", "done",
                        "hung"}
  /\ \A t \in Worker : pc[t] # "done"

\* Each call is some worker's, and unanswered as long as it is.
CallInv ==
  /\ \A t \in Worker : call[t] # 0 <=> pc[t] # "idle"
  /\ \A t, u \in Worker : call[t] # 0 /\ call[t] = call[u] => t = u
  /\ call[Preloader] = 0

\* The model is constructed by the thread that found none under the lock.
ModelInv ==
  /\ loads = IF model THEN 1 ELSE 0
  /\ \A t \in Thread :
       /\ pc[t] = "encode" => model
       /\ pc[t] \in {"look", "import", "load", "hung"} => ~model

\* HF_HUB_OFFLINE is set before the libraries read it.
HubInv ==
  /\ inTime => offline # "unset"
  /\ inTime /\ offline = "1" => hub # "online"
  /\ \A t \in Thread : pc[t] \in {"load", "hung"} => hub # "unread"

\* What a thread that has left the body is about to answer is true.
AnswerInv ==
  /\ \A t \in Worker :
       LET done == calls[call[t]].done IN
       call[t] # 0 =>
         /\ calls[call[t]].answer = "pending"
         /\ pc[t] # "trace" => ~done
         /\ pc[t] = "trace" /\ outcome[t] \in {"locked", "error"} /\ done =>
              calls[call[t]].tool = "get"
         /\ pc[t] = "trace" => outcome[t] # "pending"
         /\ pc[t] = "trace" /\ outcome[t] = "ok" => done
  /\ AnswersTell

IInv == TypeOK /\ LockInv /\ CallInv /\ ModelInv /\ HubInv /\ AnswerInv

====
