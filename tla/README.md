# Formal model of mcp-memory-bridge

TLA+ modules for the memory server (`server/memory_server.py`,
`server/audit.py`), its two clients (`client/raw_client.py`) and the backup tool
(`tools/memory_admin.py`), TLC configurations that check them on small
instances, and TLAPS proofs of what matters most. `PROJECT.json` lists the runs, the mutants
that show each property can fail, the source lines behind every definition, the
hazards and the theorems.

    tlc -workers 2 -config store_race.cfg MCMemoryStore.tla
    tlc -workers 2 -config open.cfg StoreOpen.tla
    tlc -workers 2 -config client.cfg RawClient.tla
    tlc -workers 2 -config threads.cfg ServerThreads.tla
    tlc -workers 2 -config threads_live.cfg ServerThreads.tla
    tlc -workers 2 -config http.cfg HttpAuth.tla
    tlc -workers 2 -config admin.cfg AdminTool.tla
    tlapm MemoryStoreProofs.tla
    tlapm MemoryStoreTrail.tla
    tlapm ServerThreadsProofs.tla
    tlapm AdminToolProofs.tla
    tlapm HttpAuthProofs.tla
    tlapm StoreOpenProofs.tla
    tlapm RawClientProofs.tla
    tlapm AlgorithmProofs.tla

## The system

| part | state it keeps | operations | talks to |
|---|---|---|---|
| memory tools (`memory_server.py:318-557`) | nothing between calls but the connection | set (plain, compare-and-swap, create-only), get, list, search, history, delete, lock_hold | SQLite, audit chain, embedding model |
| audit chain (`audit.py`) | the `events` rows and their two hash columns | `append`, `verify`, `migrate` | SQLite, inside the caller's transaction |
| SQLite file (external) | `facts`, `events`, `fact_embeddings`, `sqlite_sequence`; WAL; write lock | statements, BEGIN IMMEDIATE, COMMIT, ROLLBACK, checkpoint | shared by every server process |
| opening (`_db`, `_initialize_db`) | `_conn`, the schema | open, create, migrate | SQLite |
| server lock and model (`_tool_guard`, `_embed`, `_maybe_preload_model`) | `_SERVER_LOCK`, `_model`, `_model_lock` | serialise calls, load once | the SDK's worker threads |
| HTTP transport (`_run_http`, `_bearer_auth_asgi`) | the table of credentials, SDK sessions | start or refuse, authenticate, attribute | HTTP clients |
| raw stdio client (`RawMCPClient`) | request ids, incoming queue, stderr tail | request, notify, handshake, close | one server over stdio |
| raw HTTP client (`RawHTTPMCPClient`) | session id | initialize, call, close | one server over HTTP |
| admin tool (`tools/memory_admin.py`) | archives, restored files | verify, backup, restore | SQLite file, file system |
| inspector, stress, demo and benchmark scripts, deployment | none | | |

Every MCP client of the stdio transport spawns a server process of its own, and
all of them open the same SQLite file: the store is where they meet. Within a
process `_SERVER_LOCK` runs one tool call at a time. A write is one SQLite
transaction: the fact, its embedding and its audit row. A read is one or two
SELECTs, each in a snapshot of its own, and, unless `MCP_LOG_READS=off`, a second
transaction for its audit row. The client matches responses to requests by id,
waits for each with a timeout and may give up on a call that the server goes on
to commit.

What is hard to test here: the interleavings of statements of several processes
around SQLite's write lock, where each may wait, time out, fail or die;
timestamps taken before such waits; reads whose audit row comes in a later
transaction; commits that a power loss takes back; servers of different
configuration or version on one file; replies that arrive after their timeout;
worker threads that meet in a model load which may fail or hang; a backup that
copies chunk by chunk while commits go on; sessions that outlive credentials.
`PROJECT.json`, "hazards", has each at its line.

### What makes each part correct

- Memory tools: facts and audit trail never disagree; compare-and-swap decides on
  the value the write replaces; every answer matches what is in the trail; no
  lock outlives its call; every call is answered.
- Audit chain: one unbroken chain whatever processes append to it.
- Opening: a file is sealed exactly once, whoever opens it first, and an old
  server cannot append outside the chain.
- Server lock and model: one user of the connection, one load, no load online when
  the model is cached (unless the environment asks for it), no deadlock with the
  preload thread.
- HTTP: nothing served without a credential in force; each row names its holder.
- Raw client: a result belongs to its request; no request waits without end.
- Admin tool: an archive or a restored file is complete or absent, and verifies.

## Modules

`AuditChain` - the hash chain: `Verifies` is `audit.verify`, with the digest that its
loop carries (`Walk`), `VerifiesTo` is `verify` with an expected head, and `ChainVerifies`
says the same row by row, which `AlgorithmProofs` proves. SHA-256 over a
JSON array is taken to be injective, so a digest is the sequence of everything
it covers.

`SqliteWal` - SQLite as the server uses it (external): `wal`, the committed
versions since the last sync; `draft`, the version of the open transaction;
`writer`, who holds the write lock. A statement of a process without the lock
waits (is disabled) while another has it; SELECTs never wait. A rolled back
transaction gives its AUTOINCREMENT number back, because `sqlite_sequence` is
rolled back with it.

`MemoryStore` - the tools, one action per statement. `pc[p]` is where process p
is in its call:

| label | code | action |
|---|---|---|
| `idle` | no call; `Receive` is `_SERVER_LOCK` taken | `Receive` |
| `refuse` | `ToolError` of `_validate`, of both conditions at once, or of a search without embeddings | `Refuse` |
| `embed` | `_embed`, then `_now()` for the write | `Embed`, `EmbedFails` |
| `stmt` | INSERT, UPDATE, upsert or DELETE on `facts` | `SetFact`, `LoseCas`, `DeleteFact`, `Busy` |
| `actual` | SELECT of the value that beat the write | `ReadActual` |
| `vector` | upsert or DELETE on `fact_embeddings` | `SetVector`, `DeleteVector` |
| `log` | the arguments of `_log`, `_now()` among them | `Log` |
| `append` | BEGIN IMMEDIATE, unless in a transaction | `AppendBegin`, `Busy` |
| `tail`, `insert` | `audit.append`: head and number read, row inserted | `ReadTail`, `InsertEvent` |
| `commit` | the end of `with db` | `CommitTx`, `TxFails` |
| `row`, `events` | the two SELECTs of `memory_get` | `GetRow`, `Events` |
| `select` | `memory_list`, `memory_history` | `Select` |
| `scan`, `query` | the join of `memory_search`; the query embedded | `ScanEmpty`, `ScanHit`, `Query` |
| `reply` | the return value or the final `ToolError` | `Reply` |

`serial`, `cas`, `found`, `now`, `tail` are the locals of the call (its number,
`cas_failure`, rows read, timestamp, chain tail); `calls` and `powerLost` are
history variables, as is the column `call` of an event. An INSERT refused by the
primary key and an UPDATE of no row still open a transaction and take the write
lock, which is why `LoseCas` is a `Write`; the lost race is then logged in that
transaction. `TxFails` stands for any failing statement or COMMIT of a
transaction, `StatementFails` for one outside it: the SELECTs of a read, or the
statement that would have opened a transaction. The history of `memory_get` is
read after its row is committed, so that call alone may be told of an error and
have its row (`ReadsAfterRow`). `Crash` stands for the death of a process at any
point of a call; `PowerLoss` for a loss of the machine, after which any prefix of
the unsynced commits may survive (`synchronous=NORMAL`). `_now()` is the wall
clock: `Tick` moves it forward or sets it back, and `clock.steady` remembers
whether it has ever been set back. Fact values are opaque; an embedding is the value it was
computed from; which fact scores best in a search is left open. `key` and `value`
limits are two sets of refused arguments, `BadKey` and `BadValue`.

`AuditedStore` - the promise, without processes or locks: each logged call is one
atomic step that changes the facts and records itself, its condition judged on
the facts it changes; a power loss takes back a suffix of whole steps.
`MemoryStore` implements it (`ImplementsAuditedStore`) under a mapping that
drops hashes, ids, timestamps and vectors and gives each row the condition of its
call.

`MemoryStoreInvariant`, `MemoryStoreProofs`, `MemoryStoreTrail` - the inductive
invariant and the theorems.
`MCMemoryStore` - workloads for TLC.

`LikePrefix` - the prefix of `memory_list`: the three replacements as they are
made, SQLite's LIKE with ESCAPE (external, and without regard to the case of
letters), and what "starts with" means. Texts are written character by character
because escaping is about nothing else. They are sequences over an alphabet of
six characters, the two wildcards and the backslash among them; the theorem about
it is for any alphabet that has those three.

`StoreOpen` - the first call of a process, before there is a connection. It
extends `AuditChain` and `SqliteWal`; a version of the file has its journal mode,
its tables, the two hash columns (`chained`), the trigger, the events and a
count of facts written.

| label | code | action |
|---|---|---|
| `closed` | `_conn is None` | `Connect` |
| `journal` | `PRAGMA journal_mode=WAL` | `JournalMode` |
| `facts`, `events`, `fact_embeddings` | the statements of `executescript`, each a commit of its own | `CreateTable` |
| `check` | `_has_chain` without the lock | `Check` |
| `begin`, `recheck` | BEGIN IMMEDIATE, `_has_chain` under it | `Begin`, `Recheck` |
| `alter`, `select`, `seal`, `trigger`, `commit` | the columns, the loop over the rows with its running digest (`sealing`), the trigger, the end of `with db` | `Alter`, `SelectRows`, `SealRow`, `SealEnds`, `CreateTrigger`, `CommitSeal` |
| any of these | lock timeout or failing statement: `conn.close()`, the next call starts over | `OpenFails` |
| `open` | `_conn` is set | `Call` |

A `Call` is one step, which is what `MemoryStore` implementing `AuditedStore`
allows. The older servers are external and known from the comment at
audit.py:38: their transactions write a fact (`LegacyFact`) and a row without hashes
(`LegacyEvent`), at any time, before, between and after the openings. Ids of
legacy rows have gaps, as in the file of tests/test_memory_admin.py. `Crash` is the
death of any process; its transaction is rolled back.

`RawClient` - the stdio client. `pc` is the application's thread (`waiting` inside
`_request`; `paging`, `greeting` between two steps of `list_tools` and
`initialize`; `closing`, `terminating`, `killing` inside `close`), `requests` the requests it has made,
whose index is their id, with their outcome (`Failed` is `ConnectionError`);
`incoming` is the queue that the reader thread fills (`ReadLine`, `ReadEof`),
`draining` the stderr thread. `_request` takes messages off the queue one by one:
`Finish` its own id, `Skip` notifications and other ids, `AnswerServer` requests
of the server, `Break` the sentinel or junk, `Timeout` when nothing has come. A
message is modelled by what the client does with it: `junk` is a line that is
not JSON, `undecodable` one that is not text. The server is external: it reads, carries
out and answers requests in any order or never, makes requests of its own, sends
noise and logs, and ends, at any time. It does not invent ids (it answers only what it
was asked, once), and its pipes are closed when it ends: one that lives on with stdin or
stdout closed is not modelled. Its log writes block while the stderr pipe
is full; stdin and stdout are unbounded. Theorems are in `RawClientProofs`.

`ServerThreads` - one server process from the inside. `pc[t]` is where a worker
thread of the SDK, or the thread of `_maybe_preload_model`, is:

| label | code | action |
|---|---|---|
| `idle`, `enter` | a call arrives; `with _SERVER_LOCK` | `Receive`, `Enter` |
| `body` | the tool up to its first embedding or statement | `Refuse`, `Scan`, `Prepare` |
| `test` | `if _model is None`, unlocked | `Test` |
| `await`, `retest` | `with _model_lock`, the second test | `Await`, `Retest` |
| `look` | `_hf_model_cached`, `os.environ.setdefault` of `HF_HUB_OFFLINE` | `Look` |
| `import`, `load` | the deferred import, the constructor | `Import`, `ImportFails`, `Load`, `LoadFails`, `LoadHangs` |
| `encode` | `_model.encode` | `Encode`, `EncodeFails` |
| `statements` | the transaction of the tool, in one step | `Statements`, `StatementFails`, `HistoryFails` |
| `trace` | after the lock: the `MCP_DEBUG_LOG` line, then the answer | `Reply`, `TraceFails` |
| `hung` | an online load the network never answers | |

`env` is the environment it was started with, and `offline` the variable
`HF_HUB_OFFLINE`: unset, 0 or 1 at first, and only an unset one is set by the look. The
libraries read it once, at their import (`hub`); `inTime` remembers that a look found
the model before that. The cache on disk may be absent,
partial or whole, and another process may fill it at any time. `_hf_model_cached`
takes a partial cache for a whole one, so an offline load may fail for ever, which
is an answer to each call all the same. The transaction is one step because
`MemoryStore` has its statements; what matters here is whether it was done
when the answer is given (`done`). `HistoryFails` is the SELECT of a get after its row
is committed.

`HttpAuth` - the HTTP transport and `RawHTTPMCPClient`. A request goes through
`sent` (`_auth_middleware`: `Authenticate`), `admitted` (the SDK's session manager,
external: `Route`, which is `MakeSession`, `Deliver` or `TurnAway`), `queued` (waiting for `_SERVER_LOCK`; `_client_id` and
`_log` in `Execute`) and `answered` (`Receive`). `Start` takes any combination of
`MCP_AUTH_TOKEN` and clients file, one with a name that is no client id included, and `Table` is what it makes of them, or its
refusal; `Stop` ends the server at any point. The SDK's sessions
are bound to the user of the request that made them, as the comment at
memory_server.py:627 says, and are gone with the process; ids are never issued twice.
Programs other than the project's client send any number of headers and any
session id that has ever been issued.

`AdminTool` - `memory_admin.py`, any number of runs at once. `pc[j]` goes through
`copy` (`Connection.backup`, 256 pages at a time: `CopyChunk`) or `extract`,
`check` (`_check_database`: `Pack`, `Verify`), `sync` and `link` (`_publish`) and `clean`
(the staging directory). The content of the store is, for each chunk of pages,
the number of the commit that last wrote it, so that a mixture of two commits can be told from
either. Servers (`Commit`, `Serve`, `Leave`), the operator (`Remove`), the file system
(`SyncDirectory`, `PowerLoss`) and the archive's medium (`Damage`) are external. A
power loss may take a name whose directory was not synced (the tool never does
that) and tears a file that was not synced. The operator is assumed not to remove
the destination of a job that is running: between its check of the sidecars and
its link, restore does not look again. `verify` changes no state;
its check is `HasChain`, a step of the other two.

## Runs

The runs of the store use two processes; three would add longer queues for one lock but no
new pair of steps. Values: two, so that a swap can win, lose and find its value
gone. Keys: one where races on it are the point, two where rows of different
keys must not be mixed up. `MaxCalls` is the total number of calls: three is what
a lost update needs (a value, a change, a stale decision). `MaxClock` is 1 where
timestamps matter, 0 elsewhere: two times, and back. One power loss per behaviour.

- `store_race` - set, create, swap and delete race for one key. `FactsMatchAudit`,
  `CasDecidesOnCurrent`. The processes are interchangeable, and so reduced by
  symmetry.
- `store_reads` - get with its history, list and search against a writer and a
  deleter; one process logs reads and one does not. `ReadsAreCurrent` (what a
  read holds was true at one moment of its call), `VectorsMirrorFacts`,
  `AuditChainIntact`. `ListFindsItsPrefix` compares the LIKE of
  a list with "starts with", up to case, for all prefixes of two characters and keys of three:
  a wildcard, its backslash and one character more.
- `store_tools` - every tool and every refusal, one process with embeddings and
  one without, two keys, a clock that moves and is set back. `IInv` is the invariant of
  the proofs. `AnswerMatchesAudit`: a call told of an error left no row, but for a get
  whose history failed after it, and one told a result, a lost swap included, left the
  row that says so. `WriteTimestampsOrdered` is conditional on a clock that has not been
  set back: nothing in the code holds the order against one that has. While it is steady
  it holds because the row of a write is stamped after its
  statement has the lock. `updated_at` is not ordered in this way: it is taken
  before the wait.
- `store_live` - `EveryCallReturns`, `WriteLockReleased`, and `ImplementsAuditedStore`
  over every kind of audit row and `lock_hold`, which sleeps with the lock.
- `open` - two servers and an older one, a fresh file or one with no or two legacy
  rows in either journal mode, three writes, one crash. `SealedWhole` (in no
  committed version is a file half sealed; once sealed, every row verifies, those
  the older server added before included), `SealedByOne`, `OpenMeansReady`,
  `HistoryKept`, `EveryOpenEnds`. Two rows are what a digest that
  is not carried from row to row needs; two servers, what a stale check needs.
- `client` - two requests, `initialize` and `tools/list` with its pages, a close, and one
  request and one other line of the server's. `OwnAnswer`,
  `OnlyAbandonedCallsLag` (a call may take effect after a later one only if the
  client has turned away from it), `ServerRequestsAnswered`. The server's request has an id
  the client does not use; client_id_clash.cfg is what happens otherwise.
- `client_live` - `EveryRequestEnds`, `LoggingNeverWedges`, `CloseReapsServer`, for
  a server that sends finitely many lines nobody asked for and logs text. Its pipe
  holds one line, so that it is full after each.
- `threads` - two workers and the preload thread, two calls, every setting of the
  environment and state of the cache. `ModelLoadedOnce`, `CachedNeverOnline` (unless it
  was started with `HF_HUB_OFFLINE=0`, a process that has found the model before it
  imports the libraries never goes online for it, later attempts included),
  `AnswersTell` (a result means a commit; only an unwritable debug log, or a get's
  history after its row, can hide one behind an error). Two workers are what a wait for either
  lock needs, two calls what a second attempt after a failed load needs.
- `threads_live` - the same threads with a call that embeds before its statements and one that
  embeds among them: `EveryCallReturns`, unless an online load
  hangs, which holds `_SERVER_LOCK` and with it every call.
- `http` - one program of each sort, two clients, three tokens, one of them too
  weak, two starts, three requests. `RowsNameHolder`, `RowsNeedCredential`,
  `SessionsServeTheirMaker`. Two starts are what a session or a credential from
  before a restart needs; three requests, a session and two calls that compete for it.
- `admin` - two jobs, two names, a store of two chunks, one commit and one death,
  power loss or damaged archive. `WholeOrAbsent`, `NoForeignSidecar`, `NothingOverwritten`,
  `EveryJobEnds`. Two chunks and one commit make a mixed copy possible; two
  jobs, a race for one name or a restore of what the other publishes.
- `mixed_embeddings` (violated) - a process with `MCP_EMBEDDINGS=off` overwrites
  a fact another has embedded: the old vector stays and ranks the new value,
  where README.md:179 says that every set embeds its fact.

Configurations kept beside them, each of which TLC finds violated in a few
seconds, for divergences that `PROJECT.json` lists without a run:

- empty_search.cfg (`MCMemoryStore`) - README.md:182 says every search is
  audit-logged; one with nothing to rank is not.
- client_chatter.cfg (`RawClient`) - each message restarts the timeout, so a server
  that keeps sending notifications holds a request for ever, where
  test_phase1_client.py:61 promises an error within the timeout.
- client_id_clash.cfg (`RawClient`) - a server request that bears the pending id is
  taken for the response and not answered, against raw_client.py:169.
- client_log.cfg (`RawClient`) - a line of stderr that is not text ends the draining
  thread (`UnicodeDecodeError` is a `ValueError`), against raw_client.py:121.
- hub_online.cfg (`ServerThreads`) - memory_server.py:234 says that a cached model forces
  the process offline "so network freshness checks can never hang a tool call". A first load
  that goes online and breaks leaves part of the model; the next look finds that and sets
  `HF_HUB_OFFLINE`, which the libraries, imported by then, do not read again, and the
  load hangs.
- admin_legacy.cfg (`AdminTool`) - README.md:420 asks for a backup before a legacy
  store is opened with the new server; `backup` refuses such a store, which has no chain.
- http_reconnect.cfg (`HttpAuth`) - after a restart of the server `initialize` is
  sent with the session id from before and answered 404, against docs/AUTH.md:39.

Fairness of `MemoryStore` (`FairSpec`): weak fairness of `Step(p)`, what a process does by itself.
A process that is scheduled takes its next step; the only wait, for the write
lock, ends by the lock or by `Busy`, since `busy_timeout` is finite. Faults, the
arrival of calls, checkpoints and the clock are not fair. `StoreOpen` is fair in the
same way to what a process does once a call has begun, not to the start of a
call. `RawClient` is fair to the client's three threads only, which are never
blocked for ever by one another; nothing is assumed of the server. `ServerThreads`
is fair to what a thread does when it is not waiting
for a lock, `Run(t)` or `Embed(t)`; weak fairness is enough for a lock because at the end of the bounded
calls nobody is left to take it first. Nothing is assumed of the
network (`LoadHangs` is not fair, nor is its absence), of other processes or of
arrivals. `AdminTool` is fair to the steps of a job that runs, not to its errors and
not to the world around it: each commit makes a copy start over, so `EveryJobEnds` rests on
commits coming to an end, which `MaxCommits` grants and a busy store need not.

## Proofs

`MemoryStoreProofs` proves, for any keys, values, processes, requests and
bounds, under `StoreAssumption` (the names of things are distinct) and
`NoProcessAssumption`:

- `InvariantHolds`: `Spec => []IInv`
- `TypeCorrect`, `FactsAreAudited`, `ChainNeverForks`: `TypeOK`,
  `FactsMatchAudit`, `AuditChainIntact` always hold.
- `NoCallForgotten`, `CallsGoForward`: see "Why things end" below.
- `HeadFixesFacts`: versions that verify to one head have the same values and authors.
- `Refines` (in `MemoryStoreTrail`): `Spec => ImplementsAuditedStore`.

None of the invariants is inductive. That the chain does not fork needs to know that
the tail a process has read is still the committed one when it inserts, hence
that it holds the write lock from its first statement (`LockInv`), and that its
draft differs from the last committed version by exactly its own row
(`DraftEventsInv`). That facts match the trail needs what the draft has changed
and under which condition (`DraftFactsInv`), and the shape of the call at each
label (`CallInv`). `VersionInv` then says what holds of each committed version, not
only the last, because a power loss may fall back to any of them. The proof goes
conjunct by conjunct: types (`TypeStep`), calls and lock (`ControlStep`), draft
(`DraftStep`), versions (`VersionStep`); in each, processes that do not move keep
their part (`UntouchedKeeps`, `OthersDraft`), and the one that moves is followed
action by action.

The refinement rests on the same invariant. The mapping is restated with the
calls it consults as a parameter (`Mapping`), so that a step that answers a call can
be seen to leave it alone (`EntriesStay`: requests never change). Only a commit
appends a version; `CommitIsACall` shows, tool by tool, that the version is one
step of `AuditedStore`, by `DraftFactsInv` (what was written, and that the
condition of the call held on the facts it replaced, or did not) and
`DraftEventsInv` (the row). A checkpoint maps to `Sync`, a power loss to
`PowerLoss`, because the mapping of a prefix is a prefix of the mapping, and all
else to a stutter.

`MemoryStoreTrail` proves from the same invariant `SwapsDecideOnCurrent`
(`CasDecidesOnCurrent`) and `WritesInOrder` (`WriteTimestampsOrdered`, for a clock that has
not been set back). Decisions are shown
row by row, in every committed version (`CasInv`): a row is decided by those before it,
which later rows do not change (`PrefixStands`, `AppendDecides`), so only the row that is
committed is at issue, and it tells what its write has seen of facts that the
trail accounts for (`NewRowDecides`, from `DraftFactsInv`; `FactStood`). For the order
of timestamps (`StampInv`), a write that has stamped its row has the lock, and every row
committed by then was stamped no later (`MoverStamps`, `OthersStamp`, `CommitStamps`).
Of reads nothing follows: they are stamped before they wait for the lock.

The same module proves `AnswersAreAudited` (`AnswerMatchesAudit`), `ReadsStood`
(`ReadsAreCurrent`) and `VectorsBelong` (`VectorsMirrorFacts`), each by an invariant beside
`IInv`. `AnswerInv` says of a row that its call is about to be told, or was told, what the row
says (`RowTells`), and of a call that it has no row before its commit and, once past it, the one
it owes (`UnderWay`); two processes are never in one call (`OwnCalls`), and only a commit
adds a row (`RowsOfStep`). `Current` says that what a call has found stood in the store at one
row count since it came in; later rows do not change what stood there (`TrailGrows`).
`DraftMirrors` says that a draft is out of step with its vectors only between the two
statements of a write, and only at its key.

`ServerThreadsProofs` proves, for any number of workers and calls, under
`ThreadAssumption` (the names of threads are distinct, the kinds of calls are
among the four), that `TypeOK`, `ConnectionHasOneUser`, `ModelLoadedOnce`, `CachedNeverOnline`
and `AnswersTell` always hold. The invariant (`IInv`, in `ServerThreads`) says who
holds which lock from where the threads are (`LockInv`: two threads in one
section would both be its owner), that a thread between the second test and the
end of the load has seen no model and nobody else can make one (`ModelInv`), that
a look in time has left the variable set by the time the libraries are imported (`HubInv`), and that what a
thread is about to answer is true of its call, which no other thread has
(`CallInv`, `AnswerInv`). Each conjunct is proved by a lemma of its own, action by action
(`LockStep`, `ModelStep`, `HubStep`, `CallStep`, `AnswerStep`, `TypeStep`).

`AdminToolProofs` proves, for any number of jobs, names, chunks, commits and faults,
under `AdminAssumption` (there is a chunk, the bounds are numbers, and a damaged or
torn content is no content of the store), that `TypeOK`, `WholeOrAbsent`,
`NoForeignSidecar` and `NothingOverwritten` always hold. What is published is what
was staged, so the invariant follows a content from the store to the name: the chunks
copied so far are those of the version that the job has last seen, and a copy that
ends is a version (`CopyInv`); what is staged is a version, then one with a chain, then
synced (`StagedInv`); nothing stands at a name that was not synced, so a power loss
tears nothing (`SyncedInv`). Sidecars are looked for before the copy only: that is
enough because a destination without a file never gets a sidecar without getting a file
as well, which the link then meets (`DestinationInv`).

`HttpAuthProofs` proves, for any programs, clients, tokens, starts and requests, under
`HttpAssumption` (None is neither a client nor a token), that `TypeOK`,
`RowsNameHolder`, `RowsNeedCredential` and `SessionsServeTheirMaker` always hold. The table in
force is the configuration's (`TableInv`), a request past the middleware has one
token of it and its user (`AdmittedInv`), a session the token and user it was made with
(`SessionInv`); that users of one session have one token is that a table gives no
two tokens to a client (`OneTokenEach`). All steps of requests are instances of one
lemma (`RequestStep`).

`StoreOpenProofs` proves, for any number of servers, older servers, legacy rows, writes and
crashes, under `OpenAssumption` (bounds are numbers, servers are processes) and
`NoProcessAssumption`, that `TypeOK`, `SealedWhole`, `SealedByOne`, `OpenMeansReady` and
`HistoryKept` always hold. The invariant says that a process has the write lock exactly at
the labels from `recheck` to `commit`, or between the two writes of an older server
(`Placed`); that the draft of a server at those labels has the rows of the last
committed version, hashes aside (`Drafted`, `SameRows`), with those it has visited
linked up to the running digest and the others as the cursor will yield them
(`SealInv`); and that a committed version is sealed whole or not at all (`VersionInv`).
The UPDATE by id touches one row because ids increase (`HashedRow`); `SealInvStep` carries
the digest from row to row. What a server has seen to (`Made`, the journal mode, the chain)
stays true while others commit because no commit takes any of it back (`Kept`). A step
is one of a process without the lock (`WalkStep`), of one that seals (`DraftStep`), or a
commit (`CommitStep`).

`RawClientProofs` proves, for any methods, noise, log lines, server ids and bounds,
under `ClientAssumption`, the types of `RawClient`. `RequestInv` says one request at a
time: only the last can be pending, and only inside `_request`. `PipeInv` says what is on
its way is true, by giving the three queues a narrower type: a response in stdout or in
the queue is to a request that was carried out (`TrueLines`), what is in stdin is a
request that was made or a reply to one the server made (`TrueOrders`). Both grow with
`executed` and `requests`, so `Append` and `Tail` keep the type (`QueueMoves`). `Finish`
takes only the id of the last request, so a request is settled by its own answer, or by a
request of the server's with its id (`OwnMessage`). A request is read by the
server no earlier than it is made, and by then the ones before it are settled, so one
that is carried out later than a newer one was given up on, or such a request was taken
for its answer (`Abandoned`, `OnlyAbandonedLag`). So much holds whatever ids the server uses.
`AnswersAreOwn` (`Unmistaken`) and `ServerIsAnswered`, which follows a request of the
server's through stdout, the queue and back
(`AskedInv`), assume `NoClash`: the ids of the server's own requests are
above those the client uses. Without it they are false: `client_id_clash.cfg` has the
client take such a request for its response.

### Recursive definitions

`AlgorithmProofs` proves what the recursive functions of `AuditChain` and `LikePrefix`
compute, for every input. The induction theorems of the library take an operator as a
parameter, which no backend instantiates, so `Induction` is stated of a set of numbers and
proved from finite sets: if 0 is in S, and with a number the next, but m is not,
then the successor maps the part of S below m into itself, one to one, hence onto
(`FS_Injection`), and 0 would be a successor. `Recursion` gets from it the function that
begins with a value and goes on by a step.

- `VerifyIsLocal`: `Verifies(events) <=> ChainVerifies(events)`. The invariants of
  `MemoryStore` and `StoreOpen` speak of neighbouring rows, their properties
  (`AuditChainIntact`, `SealedWhole`) of the walk that `audit.verify` makes.
- `HeadFixesTrail`: tables that verify to one head have the same rows. README.md:424 says
  that a head kept outside SQLite detects a truncated or rewritten chain; it rests on
  `Digest` being injective. With `FactsMatchAudit` it follows that the head fixes the facts as
  well (`HeadFixesFacts`, in `MemoryStoreProofs`), although the chain covers the events only.
- `PrefixIsFound`: for texts of any length over any alphabet with the wildcards and the
  backslash, `Lists` is `StartsWith` up to case. The three replacements amount to a backslash
  before each special character, whatever their order does in between
  (`EscapedAppend`: a character more of the prefix is one more at the end); a
  character so written matches itself only (`OneCharacter`), the percent sign at the end
  everything, and the prefix is followed from its end to its beginning (`PrefixMatches`), which
  is the direction in which `Places` recurs.

### Why things end

Liveness needs fairness and `ENABLED`, which the provers do not have, but what it rests on
in the code is safety: no loop, no cycle of waits, no step of another that sends one back.
That much is proved, for any constants, and names the exceptions.

- `MemoryStoreProofs`: each step of a process lowers `Left`, at most ten, and the steps of
  the others leave it where it is (`CallsGoForward`); a call without an answer has a process
  on its way with it (`NoCallForgotten`).
- `ServerThreadsProofs`: the same for a thread that is not waiting for a lock
  (`CallsGoForward`), and no chain of waits has three links (`WaitsEnd`): a call waits for
  `_SERVER_LOCK`, its owner perhaps for `_model_lock`, whose owner waits for nobody.
- `StoreOpenProofs`: opening goes round no loop but that over the rows to seal, which loses a
  row each time (`OpeningGoesForward`).
- `AdminToolProofs`: a job goes round no loop but that over the chunks, which adds one each
  time unless the store was committed to since (`JobsGoForward`); only commits make a copy
  start over.
- `RawClientProofs`: while a request waits, `Weight` bounds the messages that can still reach it:
  an answer to each request on its way or in work, the server's own requests and
  interjections to come, those in the pipe and in the queue, the sentinel. No step of
  anybody raises it and each message taken lowers it (`WaitsShorten`), so a request lasts at
  most that many timeouts. It assumes `~Endless`: without that bound on
  interjections it is false, as client_chatter.cfg shows. That no request is counted twice needs to know
  that its id is once in stdin or with the server (`OnceInv`).

Model-checked only: `ListFindsItsPrefix`, a bounded comparison whose general statement is
`PrefixIsFound`, and liveness under fairness (`EveryCallReturns`, `WriteLockReleased`,
`EveryOpenEnds`, `EveryRequestEnds`, `LoggingNeverWedges`, `CloseReapsServer`,
`EveryJobEnds`), which also needs that a step is possible where the above says
that it would be progress. That `Digest` is injective is an assumption of the model.

## Plan

Done: every part of the table above that keeps state, and the proofs of their safety
properties, of the algorithms and of progress. Next, `StdioSession`: `RawClient` composed
with `ServerThreads`; and abstract specifications that `StoreOpen` (a table sealed in one
step) and `AdminTool` (a version published in one step) implement, as `MemoryStore` does
`AuditedStore`.

## Not modelled

A client blocked in a write to a full stdin pipe, lines that are JSON but not
objects, what replies say beyond their kind, `top_k`, the cosine ranking, the
allow-list of hosts and the parsing of requests (the SDK's), the expiry of
sessions, a server that lives on with its stdin or stdout closed, the removal by hand of
the destination of a running restore, a failing connection while the HTTP client closes (`URLError` escapes
`close`, listed as a finding), and a power loss of the backed-up store itself
while a backup runs (`MemoryStore` has power losses, `AdminTool` copies whatever
is committed). The inspector reads and prints. The stress, benchmark and demo drivers
start servers and count answers; the deployment files configure. None of them
keeps state that another part sees.
