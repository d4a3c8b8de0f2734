# aicare-desk-agent: TLA+ models, checks and proofs

A verification development kept beside the Agent service of this repository
(`src/src/aicare_agent_service`). It models the parts whose correctness depends on the
order of steps taken by several actors, checks them with TLC on small instances and
proves the most important facts for all instances with TLAPS. Paths below are relative
to `src/src/aicare_agent_service` unless they start with `src/`.

## 1. The system

A Java backend owns conversations and asks this service for runs. One run answers one
message. The service keeps three stores: Redis (run ledger), PostgreSQL (LangGraph
checkpoints, one thread per conversation), Elasticsearch (knowledge).

| Part | State | Operations | Talks to |
|---|---|---|---|
| Run store (`persistence/scripts.py`, `redis_run_store.py`) | run hash (retention TTL), lease (TTL), active-run reference (no TTL), cleanup guard (TTL) | begin, get, renew, request_cancel, is_cancel_requested, complete/fail/cancel, is_conversation_active, acquire/release guard | lifecycle, cleanup, Java (cancel) |
| Run lifecycle (`lifecycle_runner.py`) | a coroutine per call, its graph task, its event list | execute, _drive_graph (heartbeat, cancel poll, timeout), replay, request_cancel | store, graph, event sink |
| Graph (`graph/`, `nodes/`, `subgraphs/`) | checkpoint channels of a thread | context_sync, classify, branches, output gate, finalize | model providers, Java tools, retriever |
| Event contract (`contracts/events.py`) | last index, terminal type | accept | consumers of the stream |
| Checkpoint cleanup (`checkpoint_cleanup.py`, `cleanup_checkpoints.py`) | a list of candidates, a guard token | list, check, guard, delete, release | store, PostgreSQL |
| Knowledge index (`rag/elasticsearch_store.py`, `index_manager.py`) | version markers, chunks, aliases | replace, delete, search, switch generation | Elasticsearch |
| Knowledge subgraph (`subgraphs/knowledge_rag.py`) | one pass: answer, citations, repairs | retrieve, gate, generate, verify, repair, safe answer | retriever, model providers |
| Retrieval (`rag/retriever.py`, `fusion.py`, `reranker.py`) | a deadline, two channels | rewrite, search, fuse, rerank, judge | index, model runtime |
| Model runtime (`rag/model_runtime.py`) | a semaphore, worker threads, closed, warmed up | run, warm_up, close | BGE models |
| Ingestion (`rag/chunking.py`) | a loop over tokens | chunk_sections | (a worker outside the repository) |
| Java tools (`tools/`) | a deadline | execute_tool with one retry, evidence | Java gateway |
| Application (`api/lifecycle.py`, `persistence/lifecycle.py`) | resources in an exit stack | open, audit, warm up, serve, close | all of the above |

What is hard in it:

* Calls of one conversation, on one or several hosts, interleave between any two awaits.
  The Lua scripts are atomic, everything else is check-then-act.
* Leases expire under slow calls; the slow call goes on with its token.
* Calls die between begin and the first checkpoint, between the commit and its event;
  sinks and stores fail, with or without having had their effect.
* Cancel requests come at any moment; graphs hang; the caller's task may be cancelled.
* Cleaners list threads long before they delete them, and outlive their guards.
* Index events arrive late, twice or out of order, and bulk writes and deletions by query
  fail half way.
* A thread's channels outlive its runs: what one request left is there when the next one,
  or the same one after a crash, goes through the graph.
* Deadlines pass at any await, and a thread that runs a model cannot be stopped: slots,
  threads and callers come apart.
* Start-ups fail with some of their resources open, shutdowns meet running inferences.

`PROJECT.json` lists the hazards with the line where each bites and the property that
covers it, or the reason why none does yet.

## 2. Modules

    RunLedger          what the run store promises (abstract)
       ^ refined by                 ^ used by
    RunStore           the scripts     RunLifecycle      the calls and their graphs
       ^ extended by                   uses EventSequence, the stream validator
    CheckpointCleanup  cleaners beside executors

    RunLedgerProofs    what follows from RunLedger for whatever implements it
    RunStoreProofs     theorems about RunStore, and that it implements RunLedger,
       ^ extended by
    CleanupProofs      theorems about CheckpointCleanup
    RunLifecycleProofs theorems about RunLifecycle

    ServedDocument     what searches are promised about a document (abstract)
       ^ refined by
    KnowledgeIndex     a document's markers and chunks in Elasticsearch
    KnowledgeIndexProofs theorems about KnowledgeIndex, and that it implements
                       ServedDocument

    GraphThread        what RunLifecycle's graph tasks assume of the graph (abstract)
       ^ refined by
    RootGraph          the nodes on one conversation's thread
       extends KnowledgeRag (the knowledge subgraph) and ToolCall (a Java tool),
       which share RequestDeadline
    RootGraphProofs    theorems about RootGraph, and that it implements GraphThread

    ModelRuntime       slots and threads of the BGE models
       ^ extended by
    HybridRetrieval    retrievals over it, with RankFusion
       ^ extended by
    AgentProcess       start-up, service and shutdown of a process
    Chunking           the windows of a section
    KnowledgeProcesses AgentProcess beside a worker that chunks
    KnowledgeProofs    theorems about KnowledgeProcesses

    DataInduction      least members, induction over finite sets, sorting: lemmas of
                       RunLifecycleProofs and KnowledgeProofs

**RunLedger** has an entry per run, an owner per conversation and a cleaner per
conversation. No keys, TTLs or references. Its actions are the promises: a run starts
once in a quiet conversation, is taken over only after the owner was lost, becomes
terminal at most once and by its owner, keeps an accepted cancel until then, and is not
forgotten while it is owned. What follows from them for callers is stated below the actions:
`LedgerConsistent`, `EntriesAdvance`, `OwnersDecide`.

**RunStore** has the four kinds of keys with their TTLs in clock ticks. One action per Lua
script; a script's replies that change nothing are predicates (`Conflicts`, `CanReplay`,
`InProgress`). `held[t]` is the request a lease token was returned for, and stays until its
executor is gone (`ForgetToken`), so tokens are used after they became stale. The token
digest in the hash is the token itself; the request digest is the request; clocks and
diagnostic times are left out. `_required_conversation_id` and the script that follows are
one step. `Tick` is one tick of Redis' clock for all keys.

**RunLifecycle** models each call of `execute` as a process whose steps end at awaits:
`start/resume/again` (send RUN_ACCEPTED), `drive`, `renew`, `beat`, `stop` (waiting for a
cancelled task), `recheck`, `read`, `commit`, `tell`, `replay`. While a call waits for the task it
cancelled, that task may still write, finish, or raise; what follows an error depends on whether
`_drive_graph` or a handler of `execute` was waiting (`AfterError`).
The store is RunLedger: a store call is one of its actions or a
reply that changes nothing. The graph is a task per call with the four checkpoints that
matter: input, after context_sync, the answer, end; LangGraph itself is external and
modelled from how the code relies on it (an input is merged into the thread's channels,
`ainvoke(None)` continues at the latest checkpoint and returns the values of a finished
thread). A checkpoint is identified by its channels, its node and the call that wrote it.
`Faults` says which faults the environment has; each run names its set. Among them: an input that
`adapt_run_request` refuses after RUN_ACCEPTED (`"input"`), and a process that shuts down under a
graph that runs, whose CancelledError no handler of `execute` catches (`GraphCancelled`, with
`"crash"`). A caller's cancellation that arrives while a call waits for its cancelled task is
swallowed with the task's own (`_cancel_task`), so `Abort` is not a step there.

**EventSequence** is `AgentEventSequenceValidator`, fed a stream one event at a time.

**CheckpointCleanup** adds to RunStore the age of each thread and the cleaners: list, check,
guard, delete with a time limit of half the guard, release; store errors leave the whole
batch; cleaners die in a delete. A thread is fresh or old as compared with the cutoff; the old
ones are kept in the order of their latest checkpoints (`aged`), of which a cleaner lists the
first `Limit`: the batch size or, where that is less, the scan limit. A cleaner may lose `Slack`
ticks between getting the guard and starting the delete, and in waiting for a delete that
`wait_for` has cancelled; nothing in the code measures or bounds this.

**KnowledgeIndex** is one document of one tenant. Its events (replace with a version,
delete at a version) are attempted by workers: `Read` is `_read_marker` and the early
returns, `Claim` the INDEXING marker, `WriteChunk` one item of the bulk, `BulkDone` its
return after `wait_for`, `Publish` the PUBLISHED marker, `Lose` the conflict there, `Bury`
the tombstone, `Search`/`Purge`/`PurgeDone` a `delete_by_query`. Elasticsearch is external
and modelled from what the code asks of it: reads by id are real-time, a marker write below
the stored version is refused (`external_gte`), queries see the last refresh, a chunk
written again after a query found it is a conflict which the deletion proceeds over. `Fail`
is an attempt that returns FAILED, raises or dies at any step in `FailAt`; a partial bulk is
one that fails with some items written. Checksums are left out because a version names one
content. The events differ in their versions.

**ServedDocument** is that document without markers, bulks and refreshes: the events that took
effect, the events that are open (attempted, or with a failed attempt), the chunks searches
find. An event takes effect in one step, over older ones only and with its version found;
otherwise what is found only changes so that the version in effect is complete and anything
else is a trace of an open event. KnowledgeIndex implements it (`ServesDocument`).

**RootGraph** is one thread. `thread` holds the channels of the latest checkpoint and the node
to run next; LangGraph (external) writes one after every node (`Commit`), none when a node
raises (`Raise`), and starts again at the entry when it is given an input (`Invoke`, with
`preserve_identity`) or at the node it had reached when it is given none (`Resume`).
`Crash` ends a call anywhere. There is an action per node: `ContextSync`, `Classify` (one
structured call that may say anything or fail), the two kinds of fixed terminals, the
knowledge branch, the professional branches, `OutputGate`, `Finalize`. The professional
branches are parameters of `build_customer_service_graph` and not in the repository: they ask
up to `MaxAsks` tools of their capability package and set or leave each field the contract of
`graph/branches.py` allows them. Texts are abstracted to whose request they answer, which
order and status they name, and whether the patterns of the gate refuse them (`unfit` for a
terminal, `dirty` for a message). The route decision keeps its intent and the band its
confidence falls in. Citations are the request they were made for.

**KnowledgeRag** is one pass of the subgraph, which has no checkpointer: it is lost with its
call. An answer is one of three texts, so that "the text that was verified" and "the text that
is returned" can differ. `calls` counts calls of the answering models (the query rewrite is
the retriever's, and not in the code's budget of four either).

**ToolCall** is one `execute_tool` with the wrapper of `tools/registry.py`: two attempts,
replies by class of status, waiting for a `Retry-After` never past the deadline, a body that
is late, breaks, is malformed or names another call. Its result is a `SafeToolResult`.
**RequestDeadline** is the clock of both; it stops at the deadline.

**ModelRuntime** has what became of each caller's call of `run` (`job`) and the number of
threads that work for a caller who gave up (`orphans`). `asyncio.Semaphore` is fair;
`ThreadPoolExecutor` (external) starts queued work on a free thread and cancels its queue at
`shutdown(cancel_futures=True)`.

**HybridRetrieval** gives each retrieval its place, the state of its two channels, and what
they found; deadlines are the set `late`. Every inference of it is a call of ModelRuntime, so
retrievals act on each other through slots and threads. A channel's `CancelledError` is kept
by `gather(return_exceptions=True)` like any failure, which is what the code does.
**RankFusion** computes the fused order with exact fractions. The code's floats agree with them
unless two chunks have different ranks and equal sums (with the default limits, ranks 6 and 39
beside 12 and 28); these the code orders by a rounding error, the model by id.

**AgentProcess** is one life of a service process: the exit stack of `application_lifespan`
(checkpointer, Redis, RAG, Java) with every place it can fail, the warm-up through the same
runtime, traffic, and closing in the opposite order. A close that raises does not keep the exit
stack from the others, except the models', whose failure skips the statement that closes the
index client (`ModelsCloseRaises`). `leaked` are resources no handler will close.
**Chunking** is the loop of `chunk_sections` for one section, on token positions.
**KnowledgeProcesses** puts the two beside each other as the processes that run this code: a
service, or a worker that chunks; they share no state.

## 3. Runs

| Run | Question | Instance | Result |
|---|---|---|---|
| `store` | do the scripts keep the store consistent and RunLedger's promises | 2 runs, 2 conversations, 3 requests, 2 tokens, 2 guard tokens, TTLs 2/3/2 (lease/hash/guard) | holds |
| `store_live` | is every blocked request freed | 1 conversation, 3 requests, 2 tokens, 1 guard token, fairness below | holds |
| `lifecycle` | are streams valid and ends unique, whatever fails | 3 calls of 1 request of which 2 work at a time, sinks, stores, inputs and caller tasks fail, graphs hang, leases expire under live calls | holds |
| `lifecycle_live` | do calls end, leases go, graphs stop | 2 calls, 3 requests, crashes, forgotten runs | holds |
| `cleanup` | do cleaners keep off running conversations, do stranded threads go | 1 run, 2 cleaners, 2 executors, a second conversation without runs, batches of 1, TTLs 1/2/3, slack 1, store errors, dying cleaners | holds |
| `index` | do old events stay out, is the newest version always served, where do stray chunks come from, is the whole what searches are promised | 3 workers, versions 1 and 3, a deletion at 2, failures at every step | holds |
| `graph` | does a thread only show what was checked, for its own request, in time, whatever crashes and resumes | 3 requests (two of one customer in order, one of another), 1 order, 2 statuses of which one reads like the order, 1 tool call per branch, deadline 2 ticks, retry wait up to 1 | holds |
| `knowledge` | do inferences stay bounded, verdicts follow from what was found, resources outlive their users, everything end | 1 retrieval, 1 other caller, the warm-up, 1 thread, up to 3 chunks in 5 orders, fusion limit 2, batches of 1; or any section up to 5 tokens with any boundaries and limits up to 4 | holds |
| `stale_answer` | is an answer always the request's own | 1 failing sink | violated |
| `late_cancel` | does an accepted cancel prevent completion | no faults | violated |
| `cleanup_fresh` | are only threads past the retention deleted | 1 cleaner, no faults | violated |
| `index_retry` | does repeating a failed attempt finish its work | 1 worker, 2 versions in order, a deletion by query fails | violated |

Bounds. Two requests that share a conversation are needed for single flight, two tokens
for a takeover (in `lifecycle` three calls of one request, for a takeover of a takeover
and a replay beside it; at most two calls are alive at once, beside the graphs of ended ones,
`TwoAtOnce`; two requests of one conversation are in `lifecycle_live`), two guard tokens for a
guard taken over by another cleaner. In `cleanup` the batch of one makes the two old threads
compete for it; a guard of three ticks, a delete of one and a slack of one leave no tick to spare.
The lease is one tick shorter than the hash, so it expires under a live hash, and a hash may expire first
under a dangling reference; longer TTLs only repeat states. `MaxBeats` (1)
bounds the heartbeats a call sends: a second heartbeat sees nothing a first one does not.
Tokens are never used twice while anything remembers them (`token_urlsafe` never repeats),
but may be used again afterwards, so runs go on for ever. In `index` every event can be
attempted at once by a worker of its own; version 3 has two chunks so that a bulk or a
deletion can stop half way, and the deletion between the versions is late for one and
early for the other. In `graph` a fact may read like an order and like a status, because the
gate takes both from any field of a tool's result; the second request
is the first one's successor, so channels are carried over; the third belongs to another
customer and has to be refused; the order is only in the second one's context, so that
evidence for an order and for a status come apart; two ticks let a call be late before, during
and after each of two attempts. In `knowledge` one thread is enough for a lost inference to
block the next one; the theorems are for any number of callers and threads. Another caller is
followed only through its inferences: retrievals share nothing else. Three chunks in
different orders make ties, agreement, disagreement and a list that repeats an entry; the limit
of two cuts a list. Five tokens are enough for three windows with an overlap. Runs whose calls
may all have ended are checked without deadlock detection.

Fairness. `store_live` and `cleanup`: time passes, and an executor does not live for ever
(`execute` ends after `timeout_seconds` and then its token is not used). Nobody has to
begin, renew, cancel or clean. `cleanup` further assumes that cleanups are run again and
again with `--apply`, that the store answers and that deletes do not fail for ever.
`lifecycle_live`: the event loop runs every call that can go on, the deadline of a call
comes, and the lease of an ended call expires. Graphs may hang: nothing is fair about them, but a
graph task that is cancelled ends (`Stopped`): one that swallows its cancellation would hang its
call. Cleanups assume that deletes do not fail for ever: a cleaner lists oldest first, and one
thread whose deletes always fail keeps a batch of one from all others.
`graph`: a call's node goes on when it can (its awaits are under the clients' timeouts: a
reply that never comes is a timeout the client raises), and time passes. Nobody has to invoke
or resume. `knowledge`: the start-up and the shutdown go on, and the timers of retrievals and
warm-up inferences fire; models, searches and threads need never answer.

### What the violated runs show

* `stale_answer`: begin writes the run before its graph wrote a checkpoint. If the call is
  lost in between, the next one is RESUMED with input `None` on a thread that still holds
  the finished previous run, and commits that run's answer as its own
  (`lifecycle_runner.py:238-262, 302-331`). The comment at `nodes/context_sync.py:66`
  says that a new run clears what the last one left; on this path it does not run.
  An input that `adapt_run_request` refuses leaves the same behind as the failing sink of the
  run. `lifecycle_live` checks the same property with calls that die only after their input was
  written, where it holds.
* `late_cancel`: a cancel accepted between lines 297 and 329 of `lifecycle_runner.py` is
  followed by COMPLETED and FINAL_MESSAGE, against `src/README.md:115`.
* `cleanup_fresh`: the age of a thread is looked at once. A run that begins and completes
  between the listing and the guard loses its fresh checkpoint, against
  `src/stage-4.md:927`.
* `index_retry`: the marker says PUBLISHED before the older chunks are deleted
  (`rag/elasticsearch_store.py:135-156`). When that deletion fails, the retry finds the
  marker PUBLISHED, returns SKIPPED, and the old version stays searchable beside the new
  one, against `src/stage-4.md:1616`. A deletion has the same order (204-232).

Known limits that the models show and no run states: when the caller's task is cancelled
(`"abort"`) the graph task goes on without a lease, so `NoOrphanTask` and `AnswerIsOwn` are
checked without that fault. A call whose lease expired may still tell an end that equals
the committed one (ALREADY_TERMINAL). A failing store ends the whole cleanup batch. A lost
reply to a commit leaves the caller without a terminal event. `NewestServed` assumes that no
two workers have the same event at once (`Overlap = FALSE`): otherwise the second may put
INDEXING over the first's PUBLISHED, lose to a newer event that never finishes, and take
back chunks that are served. While a new version replaces an old one, searches find both.

In the graph:

* A message classified `HUMAN_REQUEST` is routed to `human_handoff` (`graph/routes.py:30`),
  whose node refuses an input whose disposition is `ALLOW` (`nodes/input_guard.py:31`): the run
  fails, though `prompts/router.md:9,19` asks the model for that intent. In the model
  `InputTerminal` raises, and every resumption raises again.
* The gate looks at all messages of the thread (`nodes/output_gate.py:74`): one text it refuses,
  left by a branch, makes every later run of the conversation fail there.
* The gate takes an order from one source and a status from any tool result of the request; it
  does not relate the two. `StatusHasFreshEvidence` says no more than that.
* A connection that breaks inside a tool's body raises httpx's own error
  (`tools/java_client.py:151` catches timeouts only); the branch gets no `SafeToolResult`.
* The allow-list of `persistence/checkpointer.py:56-71` has neither `InputSafetyAssessment` nor
  `RouteClassificationFailure`, both of which the graph checkpoints; the model keeps them.

In retrieval and the process:

* `close()` cancels queued futures: in a rerank the `CancelledError` reaches the caller, in a
  dense search `gather` makes it a failed channel.
* A timed out inference frees its slot but not its thread; a caller let in then waits for the
  lost one. This is why `RetrievalsEnd` rests on the timer alone.
* Adapters are made outside the handler that closes client and models
  (`rag/model_runtime.py:197-241`); settings allow a reranker batch of up to 64, the reranker 30.
  Such a start-up leaks both (`leaked`); a `close()` of the models that raises leaks the client.
* `shutdown(wait=False)` returns at once, but Python still joins running threads when the
  interpreter ends; the model ends with the lifespan.

## 4. Proofs

`RunStoreProofs` proves, for all finite or infinite sets of runs, conversations, requests and
tokens and all TTLs that the constructor accepts (`RequestAssumption`, `TTLAssumption`,
`NoneAssumption`), that every behaviour of `RunStore!Spec` satisfies `TypeOK`,
`SingleFlight`, `LeaseBacked`, `GuardExcludesRuns`, `GrantMatchesRecord` and `CancelIntentKept`.

`SingleFlight`, `LeaseBacked`, `GuardExcludesRuns` and `GrantMatchesRecord` are not
inductive one by one. The invariant is their conjunction `Consistent`, over `TypeOK`:

* `SingleFlight` holds after a begin because healing keeps every reference to an existing
  hash, so a begin that finds none finds no RUNNING run (`StartIsQuiet`).
* `LeaseBacked` holds after a renewal or a commit because the RUNNING run of the token's
  holder is by `SingleFlight` the active one, and by `LeaseBacked` no other lease's
  (`HolderIsActive`). It survives a tick because it says that the lease ends no later than
  the hash, which every write re-establishes from `LeaseTicks <= RetentionTicks`.
* `GrantMatchesRecord` needs `LeaseBacked`: a run id can only be used again when its hash is
  gone, and the hash cannot go while there is a lease.
* `GuardExcludesRuns` needs `StartIsQuiet` for the guard and the guard check in begin for the
  rest.

There is one lemma per action and part (`Type...` for `TypeOK`, `Inv...` for `Consistent`),
`TypeNext` and `InvNext` collect them, and the theorems follow. `CancelIntentKept` needs only
`TypeOK`: `IntentNext` goes through the writes of a hash.

The module also proves `Spec => ImplementsLedger`: under the mapping of `RunStore`
every script is the ledger action of its name or a stutter. `EntryFacts` says what the
mapping makes of a hash and `EntryIsRecord` that it is one of the ledger's records. A begin
maps to `Start` because of `StartIsQuiet`. A tick may end a lease, a hash and a guard at
once; it maps to `Lose`, which forgets no owned run because of `SingleFlight` and
`LeaseBacked`.

`RunLedgerProofs` proves what the ledger's actions amount to, for any constants
(`LedgerAssumption`): `LedgerConsistent` (one run in flight per conversation; an owner has a run
to finish and no cleaner beside it; what is cleaned is at rest), `EntriesAdvance` (a remembered
entry keeps its request, its final and, until it ends, a recorded cancel) and `OwnersDecide` (a
run in flight ends together with its ownership, which is never passed on directly). The
conjunction is inductive with the types; one lemma per action. Whatever implements the ledger
inherits it: `StoreKeepsPromises` for RunStore and `CallsKeepPromises` for RunLifecycle take it
through their refinement mappings. RunStore's own properties speak of keys and TTLs and do not
imply it: that a final is never replaced, and a lease never passed on, is said only here.

`RunLifecycleProofs` proves, for any number of calls and requests and any set of faults
(`LifeAssumption`, `LifeNoneAssumption`):

* `LifeTypeOK`, through `CallsSteady`, which adds what a call knows at each await: which
  request its graph works for, that it has an end to commit, and how many events it may
  have sent by then. One lemma per step (`Move...`) shows that it moves only its own call.
* `EndsAgree`, the invariant that the ends rest on: while a call lives the store remembers
  its run under its own request (`Kept`), and what it is about to tell is what the store
  holds (`Told`). It is inductive because an entry keeps its request, and its final once it
  has one, until its hash expires (`EntryStays`).
* `TerminalEventsCommitted`: only `Tell` adds a terminal event (`NewEvents`), and by
  `EndsAgree` the store then holds that end.
* `OneEndPerRun`, through `EndsRemembered`: as long as no run is forgotten, what was ever
  told about it is what the store still says.
* `NoOrphanTask`, if callers' tasks are never cancelled (`"abort" \notin Faults`): a graph
  works only while its call drives it (`Driven`).
* `AnswerIsOwn`, in an environment with no fault but crashes after the input was written and
  run hashes that expire (`Calm`; with others the code does not give it, see `stale_answer`).
  The invariant is `OwnWork`: a call holds the lease of its conversation from its begin to its
  commit (`Holding`), so it alone writes the thread (`GraphFrame`); whoever resumes a run
  finds that run's input in the thread (`Resumable`, which `TakenOver` hands to the new owner
  and which a call that dies must leave behind); a finished thread answers the request whose
  input it holds (`Whole`), and so does what a call is to commit (`Ready`) and what a hash
  remembers for a replay (`Remembered`).
* `StreamsValidated`. `ValidatorAppend` says that the validator of a stream with one more event
  is the next state of the validator, by induction over the stream; so the invariant
  `StreamsInTurn` can speak of validators: no stream is rejected, its last index is its length,
  one that reached an await after RUN_ACCEPTED has begun, and one whose validator saw a
  terminal event belongs to a call that is past every send. One lemma per step again.
* `CallsUseTheLedger`: the calls' begin, cancel, commit and the losses beside them are steps of
  RunLedger. RunLifecycle is written over the ledger's operators; the theorem says that its
  guards and its environment never leave it. With `ImplementsLedger` of RunStore, the runner
  relies on nothing the scripts do not give.

`CleanupProofs` proves, for any cleaners, executors, conversations and TTLs:

* `CleanupTypeOK`, with the guard a cleaner took at each of its stages (`CleanerOK`).
* `GuardHeldWhileDeleting`. Every step of cleaners and executors is a step of RunStore or leaves
  it alone (`StoreSteps`), so the store's invariants carry over. The guard's TTL and the ticks its
  cleaner has waited never fall below `GuardTicks` together (`GuardLasts`), and the delete's
  time limit with the slack is below `GuardTicks` (`Limits`, from `CleanupAssumption`), so the guard
  outlives the delete. Without such a bound on pauses and on cancelling a delete it does not.
* `DeletesOnlyIdle`: a delete has its guard, and `GuardExcludesRuns` of the store says that a
  guarded conversation has neither a lease nor a RUNNING run.
* `CleanupKeepsLedger`: the cleaners' system implements RunStore's `Spec`, hence RunLedger too.

`KnowledgeIndexProofs` proves, for any number of workers, events, chunks and failing steps
(`IndexAssumption`, `VersionsDiffer`, `MarkerNoneAssumption`):

* `IndexTypeOK`, with what a worker has in hand at each step (`StepsTyped`).
* `LateEventsIgnored`: the marker's version never falls (`MarkerRises`) and is at least that
  of every event that took effect (`MarkerLeads`), so an event that is not refused is newer.
* `NewestServed`, if no two workers have the same event at once. Its invariant is `Serving`: an
  event that took effect is not attempted again (`Exclusive`, `Once`), so whoever takes
  chunks back does so for an event that never takes effect; deletions only find chunks of
  events that no search has to find any more (`HitsDoomed`, and `DoomedStays`: once doomed, an
  event stays so); and what is about to be published is stored and visible (`Written`).
* `StraysComeFromFailures`, also when workers share events, by `Traced`: every stored chunk is
  served, or owned by an attempt that still writes or takes back, or chased by one that deletes
  it, or was left by a failure (`Accounted`). An event that takes effect chases all older chunks
  (`TakesOver`). A search finds what it chases unless that was written after the last
  refresh; then a bulk is still writing it or one failed (`Pending`, `SearchAccounts`).
* `ServesDocument`, if no two workers have the same event at once: the refinement of
  ServedDocument. `Accounted` speaks of stored chunks, searches find deleted ones until a
  refresh; `Fading` says that these are a trace of a deletion under way or failed. With it the
  invariants above are what the abstract document may show (`Presents`); `Publish` and `Bury`
  map to `TakeEffect` unless the event took effect before (`EffectMapped`), `Take` to `Open`, all
  other steps to `Change` or a stutter (`DocumentStep`). The run checks the order of effects
  through it; `LateEventsIgnored` is proved on its own because it also holds with overlap.

`RootGraphProofs` proves, for any sets of requests, orders and statuses, any sequence numbers,
customers and contexts, any deadline and any number of tool calls per branch
(`DeadlineAssumption`, `ToolAssumption`, `GraphAssumption`, `NoneAssumption`):

* `GraphTypeOK`, with what a tool call and a knowledge pass know at each of their places
  (`ToolOK`, `RagOK`): at most one request was sent per attempt; a pass that verifies has made
  one model call, or three after a repair, and what it is done with was verified.
* `GraphOK`, the invariant of the channels. Between context_sync and a branch they are empty;
  after the branch every terminal, citation and tool result is of the thread's request, and a
  knowledge answer is one its pass had verified; after the gate what it looked at holds. A
  crash or an error leaves a checkpoint as it is, and an input only changes what context_sync
  is about to clear, so the invariant says nothing of the channels at the entry.
* `NothingUnfitShown`, `NothingUnverifiedShown`, `StatusHasFreshEvidence`: what `GraphOK` says at
  `END`. The last needs that the tool results a branch returns are those of calls it made
  in this very node, for this request (`found` in `GraphOK`).
* `NothingAskedLate`: only sending and the three model calls raise a count, and each of them
  looks at the clock in the same step; the rest is that no other step of the graph raises one.
* `ImplementsThread`, for the safety part the whole of GraphThread: the entry is its `Input`,
  context_sync its `Sync`, finalize its `Answer`, for which exactly one terminal of the
  right owner is needed (`GraphOK`), and everything else stutters. So the four
  checkpoints RunLifecycle's graph tasks write are those of this graph.

`KnowledgeProofs` proves, for any finite set of callers, any retrievals among them, any pool and
any configurations (`RuntimeAssumption`, `ProcessAssumption`, ...):

* `InferenceBounded` and `NoInferenceAfterClose`, by an invariant of the runtime that says
  nothing of retrievals: every step of the system leaves the runtime alone, calls `run`, gives up
  or is a step of the pool. After close no call is queued, so none can begin.
* `ResourcesInOrder`, by `LifespanOK`: which resources are held at each step of the start-up
  and in which order, so that closing from the end takes the models before their client, and
  the two that are lost together are these two (`TwoGo`).
* `OutcomesExplained`, by `RetrievalsOK`: a retrieval that reranks has a channel that did not
  fail and candidates that are not all scored, at most as many as fusion keeps; whatever it
  returns is explained by the channels it had. That a verdict of enough evidence comes with a
  chunk needs that sorting the candidates loses none (`JudgeKeeps`).
* `BestDecides`: a retrieval is sufficient exactly when one of its candidates reaches the
  threshold, because the sort brings one that does to the front (`BestFirst`).
* `FusionRespectsRanks`, for lists of any length. `Outranks` is a strict total order, for which
  the products of the fractions have to be compared (`FractionOrder`, `OutrankingOrders`);
  a finite set has an enumeration in such an order, by induction over the set (`Enumerates`),
  and it is a bijection, so `InOrder` is the sorted list (`SortedFacts`); better ranks in every
  channel make the larger sum, also against a chunk only one channel found
  (`BetterRanksOutrank`); a prefix of the sorted list keeps whoever outranks a member
  (`FuseFacts`).
* `KnowledgeTypeOK`, from these invariants.
* `ChunksCover`, for sections of any length, any boundaries and all limits `ChunkingLimits`
  accepts. The invariant adds that the next window starts the overlap before the last one's
  end, and so inside the section; `ChooseEnd` ends beyond the overlap and not after the target
  (`ChosenEnd`).

`DataInduction` has what these proofs need of data. The library's induction theorems take an
operator, which the provers cannot instantiate; but its well-foundedness theorem does not. A
set of naturals has a least member (`LeastNatural`), so an induction is over the set of those
inputs for which the claim holds (`SetInduction`); `Enumerates` and `ValidatorIs` are proved so.

Every safety property that a passing run checks is proved. Only model-checked: every
liveness property (`BlockedRequestFreed`, `CallsEnd`, `LeasesFreed`, `StrandedThreadsGo`,
`GraphCallsEnd`, `RetrievalsEnd`, `ShutdownEnds`): fairness and ENABLED are outside the prover.

## 5. Not modelled

* Text processing (redaction, security patterns, prompts, parsers, normalisation, sanitizing):
  pure functions of strings; where a decision depends on one, its outcome is free.
* Field schemas of contracts and settings: checked once per object, no steps in between.
* Model providers and their fakes: an outside service; the models that call it let it answer
  anything or fail.
* The professional branches: parameters of the graph, not in the repository. They are
  external and may return what the contract of `graph/branches.py` allows.
* Connections, encryption, database set-up, hashing of model files, health and readiness
  probes: I/O and reads. Evaluation and developer tools: the service does not use them.
* Run endpoints and the ingestion worker: not part of this commit. Calls of the runner and the
  chunker come at any time and in any order instead.
* Of the index: two events with one version, items of a bulk that Elasticsearch applies after
  its client gave up, and the switch of generations.
* Redis failover: Sentinel's asynchronous replication may lose acknowledged writes, and with
  them every safety property of the store. PostgreSQL applying a delete whose client gave up.

## 6. Plan

*Done*, in this order: RunLedger, RunStore, RunLifecycle, EventSequence, CheckpointCleanup with
the refinement of RunLedger; KnowledgeIndex with the refinement of ServedDocument; RootGraph
with ToolCall and KnowledgeRag and the refinement of GraphThread; ModelRuntime,
HybridRetrieval, AgentProcess; the algorithms RankFusion and Chunking; the theorems of
section 4, ending with those about data (the stream validator, fusion, verdicts) and the
refinements of RunLedger by its users.

Left, in this order:

1. The switch of generations (`rag/index_manager.py`): create, fill, validate, switch or roll
   back the aliases, beside replaces that look the alias up more than once.
2. A failover of Redis that forgets the last writes: which properties of RunStore survive it.
