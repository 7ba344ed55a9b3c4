# Formal models of the DeepSeek Infra runtime

This directory holds TLA+ specifications of the concurrent, durable and
stateful core of the repository, model-checked with TLC and, as far as the
prover reaches, proved with TLAPS. Each module is written from the source;
`PROJECT.json` ("map") names for every definition the lines it stands for.
Paths below are relative to `deepseek_infra/` unless they start with `docs/`,
`static/` or `tests/`.

## 1. The system

The program is a local server (`web/`, one asyncio loop with worker threads) in
front of remote model providers. It answers chats, runs teams of agents and
serves A2A tasks. The parts, the state each keeps and how they interact:

| Part | State | Operations | Interacts with |
|---|---|---|---|
| Request scheduler (`infra/gateway/scheduler.py`) | heap of tickets, counters, token bucket, dead-letter table | `lease` = admit, hold, release; `record_dead_letter`; `recover_orphans` on boot | every upstream call passes through `lease` |
| Request queue (`infra/gateway/resiliency.py`) | SQLite rows `request_queue_items` | `open_with_resiliency`: create, attempt, back off, settle | called inside a lease; its rows are recovered by the scheduler's boot code |
| LLM gateway (`infra/gateway/deepseek_client.py`, `web/server.py`) | per request: the round, the answer so far, a queue of events, a cancel event | stream, JSON call and cascade, with tool rounds, retries, cache, edge fallback | scheduler, queue, cache, ledger, tools, the client's generator |
| Prompt assembly (`static/modules/chat.js`, `context_manager.py`, `context_engine.py`, `model_router.py`, `edge_inference.py`) | the conversation, its summary and how many messages that stands for | compress, choose a model, assemble, window, trim | browser and gateway: three places that cut |
| Semantic cache, budget ledger | SQLite tables | lookup, store, touch, clear; check and record | gateway |
| Tool runtime (`tools.py`, `tool_policy.py`, `search.py`, `ocr.py`) | per turn: batches, results, taint, citation numbers; a cache of searches | execute the calls of one answer, search, recognise | gateway, agents |
| MCP bridge (`infra/mcp/`) | a catalogue with its age; health and circuit breaker per external server | discover, call, refresh | tool runtime |
| RAG (`infra/rag/`) | files, their texts and chunks; an index in SQLite beside them | upload, delete, search, rebuild, expire; extract, cut, select | tools, workspace |
| A2A task server (`infra/agent_runtime/a2a.py`) | `_TASKS`, cancel events, JSON snapshots in `.a2a/` | submit, worker thread, cancel, get, stream, resubscribe, evict, reload | workers call the gateway; SSE streams poll the store |
| Plan layering (`infra/agent_runtime/multi_agent.py`) | none (a pure loop) | `layered_plan` | gives the layers that runs execute |
| Durable agent runs (`agent_runs.py`, rest of `multi_agent.py`) | one JSON file per run, rewritten by each event; a registry of threads; the events browsers follow | create, confirm, execute layers, rerun, resume, sweep orphans, auto-resume | handlers of `web/server.py`; cleanup and boot of `app.py` |
| User data (`infra/data/`) | memories, reminders, projects: JSON files under locks | create, update, announce, evict | tools, browser |
| Skills (`infra/skills/`) | a file per skill and pack, revisions, a disabled list, a trust store | import, edit, roll back, trust, block, run, install | workspace, browser |
| Workspace (`infra/workspace/`, `projects.py`) | a directory per project with five files; generated files outside of it | documents, conversations, saved items, artifacts, exports, deletion | RAG, skills |
| Observability, evaluation, diagnostics, configuration, launchers, mobile shell, the rest of the browser front end | - | reporting, start-up, user interface | - |

What is hard to test here, and what the properties aim at (every hazard is in
`PROJECT.json` at its line):

* threads that share counters, a heap and a condition variable, leaving by
  admission, timeout, cancellation or exception;
* work done after a lock is released: snapshots of A2A tasks, dead letters,
  the orphan sweep, the refresh of a tool catalogue, a search that indexes what
  it read before;
* checks and writes that are apart: the daily budget, the touch of a cached
  answer, the announcement of a reminder;
* crashes between two writes, torn files, and what a restart makes of them;
* cancellation racing the answer it wants to discard; workers that were given
  up and go on; readers that disconnect and come back;
* in-band failures of a stream, retries, a fallback in the middle of an answer;
* dependency graphs, tool calls and searches that come from a language model;
* lists that are cut when they are written, and messages that are cut in three
  places, so that each leaves to the next what the next does not take.

For each part, what makes it correct:

* **scheduler**: the cap and the queue bound hold of real threads; the order of
  the heap is respected; nobody waits for ever with a timeout; no exit leaks a slot;
* **queue**: the row says where the call is, is settled once, and recovery
  reports each lost call at most once;
* **gateway**: a client gets one verdict, what is called an answer is all of it,
  a cancelled stream asks for nothing more, every call ends;
* **prompt**: a message is in the prompt, under the summary, or the user is
  told; the next prompt begins with the last one;
* **stores**: no update is lost or comes back; answers stay in their scope; the
  budget is overrun by a bounded amount; what is told is told once;
* **tools**: results answer their calls, serial tools work alone, a taint holds;
  a citation marker means the same page to the model and to the browser;
* **RAG**: what stays is found; a passage is whole in some chunk; no page is lost;
* **MCP**: a server that is back is used again;
* **A2A**: an answer belongs to a completed task and the reverse, in memory and
  on disk; every active task has a worker; an early cancellation wins;
  streams deliver once, in order, and end;
* **layering**: dependencies first, critic last, as parallel as possible, total;
* **runs**: what replays as succeeded is whole; busy means somebody works on it;
  resume keeps what succeeded; every run comes to rest; a browser that follows it
  gets every event;
* **skills**: nothing runs against what the user last said of it; what a skill
  said is kept before it is replaced;
* **workspace**: what is listed is there; nothing leaves a list on its own.

## 2. Modules

Machines that do not interact are checked in one run, one of them in each
behaviour: `which` is chosen in `Init`, and the others rest. That keeps the
number of runs small and costs the sum of the state spaces, not their product.

| Module | Models | Run |
|---|---|---|
| `AdmissionControl` | what the scheduler promises, with no counters, heap or polling | refined by `Scheduler` |
| `Scheduler`, `MCScheduler` | `RequestScheduler`, `TokenBucket`, the dead-letter table | `sched_safety` |
| `RequestQueue` | `open_with_resiliency`, `recover_orphans` | `queue_safety` |
| `A2ATask`, `MCA2ATask`, `MCA2AStore` | the A2A task server | `a2a_safety`, `a2a_canceling` |
| `MCGateway` | three machines: queue, scheduler, A2A tasks | `queue_safety` |
| `AgentRun`, `MCAgentRun` | one durable run and everything that touches it | `run_safety`, `run_sweep`, `run_revision` |
| `ChatStream` | the life of an answer | `streams` |
| `AgentLayer`, `LayerSizes` | one layer of agents run in parallel | `streams` |
| `RunEvents` | the event log of a run and the browsers that follow it | `streams` |
| `McpBridge` | the catalogue of external tools and the circuit breaker | `streams` |
| `MCStreams` | these four machines | `streams` |
| `PlanLayers` | `layered_plan` | `services` |
| `SemanticCache`, `BudgetLedger`, `Reminders`, `MemoryStore` | the four stores | `services` |
| `ToolTurn`, `WebSearch` | the tool calls of one answer; the web searches of a turn | `services` |
| `RagIndex` | the index beside the files | `services`, `rag_deleted` |
| `Services`, `MCServices` | these eight machines, and small values for them | `services` |
| `Skills`, `SkillPacks` | the registry, the trust store and the runner; packs in a project | `workbench` |
| `FileText`, `FileChunks`, `ChunkSizes` | from a file to its text and pages; its chunks | `workbench` |
| `PromptContext`, `MCTurns`, `MCPromptContext` | from a conversation to a prompt | `workbench`, `history_lost` |
| `Workspace` | projects and what is in them | `workbench` |
| `Workbench`, `MCWorkbench` | these six machines, and small values for them | `workbench` |
| `Lists` | sorting and selecting from lists without recursion, used by `SkillPacks`, `PromptContext` and `Workspace` | `workbench` |
| `SchedulerProofs`, `RequestQueueProofs`, `A2ATaskProofs`, `AgentRunProofs`, `StreamsProofs`, `ServicesProofs`, `WorkbenchProofs`, `ListsProofs` | theorems, section 4 | TLAPS |

`LayerSizes` and `ChunkSizes` hold the constants of an instantiated module
with what is assumed of them, so that the assumption is evaluated by the run.

### Scheduler

A client is a thread inside `lease()`. `_admit` holds the lock except in
`cond.wait`, so one iteration of its loop is one step (`Iteration`: cancelled,
admitted, timed out or waits, in the order of the code) and the first iteration
belongs to the step that takes the ticket (`Enter`, or `Shed` when the sum of
the two counters has reached the depth). `Poll` is an iteration after a wait;
the wait is bounded by 50 ms, so a notification that is lost only delays.
`Release` is the end of the with block, `RecordDeadLetter` the write outside of
the lock, which may fail. `UserCancels`, `DeadlinePasses` and `Refill` are the
environment. The heap is a set of `<<priority, seq>>` tickets: `AtHead` is what
`heap[0] is ticket` says of it. The bucket is counted in whole tokens.
The counters `in_flight` and `waiting` are kept beside `pc`, and are not derived
from it: that they agree is a property.

### RequestQueue

A call goes through created, checked (past the look at its cancel event), opening
(inside `urlopen`), asleep (the backoff) and reading (the body of the caller's with
statement); its row is on disk. The user may cancel between the look and the request,
which is then still sent. Each
SQL statement is one step and may raise (`MarkFails`). `Crash` loses every
thread, `Boot` starts recovery, `Recover` is the transaction of
`recover_orphans` (an SQLite error marks none), `DeadLetter` one of the writes
after it. Time is one bit per row: `Age` lets `updated_at` fall behind the
cutoff. Calls may run during recovery, because auto-resumed runs do. The
diagnostics callback and the disabled queue (one `urlopen`, no row) are left out.

### A2ATask

`_TASK_LOCK` makes every lookup and mutation a step. A mutation leaves a
snapshot in `io` for the thread that made it; opening the file truncates it
(`OpenFile`), `WriteFile` fills it, `WriteFails` gives up, and the steps of two
threads interleave. The worker's program counter names its checks of the cancel
event; the upstream call answers or fails. A client that cancels sets the event
and marks the task in two steps. Streams copy the chunks, send them, then read
the state, as `_stream_task_events` does. Eviction removes terminal tasks above
the limit and leaves open which go first (the code sorts by creation time).
Payloads are two chunks and a flag. A stream keeps the chunks it copied (`todo`) and
the index it sent last apart, so that copying, sending and moving the cursor on can
disagree; a peer names the last index it *received* when it subscribes again.

### AgentRun

The file (`status`, node states replayed from the events, outputs, answer) and
the thread (`pc`, `work`). Every event rewrites the file whole under a lock and
is one step, so a crash falls between two events. A handler has no `await`
between reading the run and `ensure_started`, and there is one event loop: it is
one step. The jobs are start, continue (a confirmed plan), resume, its automatic
form on boot, and rerun. The order of the events is that of the code: layers
with parallel agents, one retry after a broken stream, the outputs posted
after the layer, the budget gate, the critic's revision, the synthesis, done.
`SweepReads` and `SweepMarks` are the two halves of
`mark_orphan_runs_on_startup` when the periodic cleanup calls it; on boot
nothing runs beside it and it is part of `Boot`.

An entry of `agentOutputs` is none, partial, streamed, whole or failed. `agent done`
(`AgentDone`) only says that every delta has been appended: the entry is then what was
streamed, without the sources and the notes that the call adds, and `agent_output`, one
event later, brings the whole. A layer that times out (`AgentTimesOut`) leaves calls
behind which have passed their gate with an event in hand (`late`); such a straggler may
append its delta, its reset or its second start at any later time, over whatever the entry
holds by then (`Straggle`). `stained` remembers the entries it hit, until the thread resets
or posts them again; the properties except those and say so. Crashes, sweeps and stragglers
are bounded together, by `MaxTroubles`.

Abstractions: a salvaged or degraded output counts as whole, as the code treats it; the
plan is constant, with the
layers `PlanLayers` allows; the `agent_output` events of one layer are one step,
because between two of them the file differs in failed outputs, and in the notes of those
that are streamed. Left out: rerun of an agent that is not in the plan, disk errors. Run status "cancelled"
is not reachable: no cancel event is passed to a durable run. An invalid stored
payload fails a job only on auto-resume, because the handlers perform the same
validation before.

### AgentLayer, RunEvents, PlanLayers

`AgentLayer` is `_execute_agent_tier_parallel` with real threads: the layer's
thread submits, collects in the order of completion, gives up at the timeout
and posts; a worker checks its gate, holds an event in `hand`, and emits it in a
step of its own, so that a gate may close in between. `node` is what a replay of
the file would say of each agent, with the rule of `reduce_node_states`.

`RunEvents` has the file as a counter of events and each browser's generator as
read, send, check, wait: two reads of the file with the events sent in between.
A browser that lost its stream has all of what was sent or all but the last
event, and asks for what follows.

`PlanLayers`: one round of the loop of `_dependency_layers` is one step; a plan
with no dependency takes the three legacy tiers. Every set of dependencies that the
cleaning in `safe_agent_plan` can leave is an initial state: cycles, names outside
of the plan, but no dependency on oneself or on the critic.

### ChatStream

A request is a worker thread and the generator of its client, with a queue of
events between them (`sent`). `pc` names the places of the worker: before the
lease, in line, in the attempts of `open_with_resiliency`, reading, running
tools, the judge and the replay of a cascade, the local model, and the end. The
scheduler and the queue appear as their callers see them: a line, slots, and
attempts that fail. A stream looks at its cancel event before and after every
event it puts, before every attempt and before its tools; what it checked for comes in a
step of its own (`checked`, `called`), so that a client may leave in between, and `due`
remembers what had been checked for when it did. A round ends with `stop`, `length`, tool
calls, or a body that ends with none of them, which the code takes for `stop`. A cascade looks only in its replay, and a client that leaves is
noticed only with an event in hand: both are as in the code. What an answer says is
abstracted to the number of its chunks and to how the provider said it ended; an entry of
the cache is who stored it and the number of chunks.

### McpBridge

The catalogue is the set of servers whose tools it holds; a refresh visits the
servers in the configured order without the registry's lock and commits its
result under it. The circuit breaker is a counter, an open flag and its reset.
A server that answers, fails or comes back is the environment.

### SemanticCache, BudgetLedger, Reminders, MemoryStore

Four stores with the same shape: read, something else, write. The cache reads
candidate rows of a scope under its lock and touches the one it takes under a
new lock; a store looks for an id, then writes; `clear` comes in between. The ledger
is read before a request and written after it. Reminders and memories read the file
and write it under a lock: `_LOCK` within a process, an advisory file lock across
processes; each holder's copy is in the state, because a crash discards it. Answers
are numbered, so that `AnswersStayInScope` can say where an answer came from.

### ToolTurn, WebSearch

`ToolTurn` is the loop of `execute_tool_calls`: calls that may run side by side
are gathered and flushed to a pool, a serial call runs alone, a cancelled batch is
left with its stragglers at work. A call is judged by the policy when it starts
and its result is looked at when it ends, two steps apart.

`WebSearch` has both numberings of the citations: the offset with which a tool
result is given to the model, and the rounds that the browser looks a marker up in. Up
to two searches of the prefetch complete in any order; cache files may fail to be
saved or be unreadable. Ranking is the order in which pages come.

### RagIndex

Files are copies (a document in a home); rows are what is indexed. An upload writes
the file and then indexes it in three statement groups; a search lists files, compares
with the rows, indexes what is missing and removes what is gone, then reads the
matches; deletions, expiry, and rebuilds come in between. SQLite errors are
swallowed where the code swallows them.

### FileText, FileChunks

`FileText` follows a file through the parser of its kind, and a PDF without any text
through the recognisers in their order, page by page; a page's text is its number,
so that lost, doubled and reordered pages are seen. `FileChunks` cuts a text of which
only the length and the newlines are known; `Ends` is the choice the code makes by looking for
a good place to cut. Selection for a question and the reader's window are further actions.

### PromptContext

A conversation is a sequence of kinds of messages. `Prepare` is the browser's
compression with its three outcomes (not due, done, failed) and both limits; `Send`
is the gateway: choice of the model, edge routing, `normalize_chat_messages`, the
parts of the turn's context, the sliding window, the token trim. A prompt keeps the
places of its messages. Weights stand for tokens. Editing and posting through the
interface (all messages, no summary) are further actions.

### Skills, SkillPacks

Registry, revisions, disabled list and trust store are files; every handler is one
step of the event loop, so an operation is cut only by a crash, which leaves
a torn file or the first of two writes. A list that cannot be read is taken for
empty, as `security.py` and `registry.py` do. `SkillPacks` has the packs, the binding of one
project and the catalogue, whose operations all begin by listing it.
A skill in it is only there, torn or absent.

### Workspace

A project is a directory; `disk` says what is left of it. Lists keep what the
code keeps when it writes them (the newest or the first, up to the limits), and
the guards of the handlers are in the actions. Uploads stop at a file that is refused, with the
earlier ones cached and indexed. Generated files live outside of the projects and expire.
Ids of saved items and artifacts are random in the code, so that one in use is not drawn again.

## 3. Runs and what they show

| Run | Question | Bounds |
|---|---|---|
| `sched_safety` | Do the counters tell the truth for all interleavings? Does the scheduler implement `AdmissionControl`? | 4 threads (two can cancel), 2 slots, depth 3, bucket of 1, 4 requests, 2 letters |
| `queue_safety` | Do row and thread agree, is recovery idempotent? Does every wait end, and every task and stream? | queue: a stream and a JSON call, 2 attempts, 2 crashes; scheduler: 3 threads, 1 slot, depth 3, 3 requests, timeouts; A2A: 1 task, client, reader, drop, crash |
| `a2a_safety` | Do memory, disk, worker, streams and cancellation agree, eviction included? | 2 tasks, room for 1, a client or a reader, 1 drop, 1 crash |
| `run_safety` | Is the file right after any sequence of requests, sweeps and crashes, and does the run come to rest? | 3 agents in 2 layers, confirmation and auto-resume on, 2 requests, 2 troubles (crash, sweep or late event) |
| `streams` | One verdict per client; a final verdict per agent; every event once; servers are used again | 2 requests in 3 mixes, 1 tool round, 2 attempts, 1 slot, 2 chunks; 2 agents, 2 workers, 1 delta; 1 browser, 4 events, 2 drops, 1 restart; 1 server, 2 threads, 2 failures to open, 2 attempts |
| `services` | Layers for every plan; stores that lose nothing and keep their scopes; tools in order; files found | 4 agents; 2 cache items, 3 answers; limit 2 with costs 2 and 1; 3 reminders, room for 2; 3 memories, room for 2, 4 writes; 3 tool calls; 2 pages, 2 turns of 3 searches with up to 2 results; 1 document, 2 uploads, 1 failure |
| `workbench` | Skills that run; packs; whole passages and pages; prompts; projects | 2 skills, 3 bodies, 1 crash; 2 packs that share a skill, 2 imports, 1 torn file of a skill or a pack; text of 8 in chunks of 4 overlapping by 2; 3 pages, 4 recognisers; 9 messages, 7 kinds of turn, window 6; 2 projects of which 1 fits, 1 saved item or artifact, 2 documents, 2 chats, 1 crash |
| `a2a_canceling`, `run_sweep`, `run_revision`, `rag_deleted`, `history_lost` | one disagreement each between a text of the repository and the code (section 6) | small |

Why the bounds are enough to be interesting: two slots with four threads is
the first size at which a slot is free while a better ticket waits for a token;
depth 3 with two slots sheds both with and without waiters; two attempts give a
retry and a last attempt; two crashes allow recovery to be cut short and
repeated; room for one task of two forces eviction of a task whose snapshot is
still being written; three agents give two parallel workers and a reviewer after
them; two requests let a rerun or a resume follow a failed one; one slot for two
requests makes one wait for the other in every place it can be; four events with two
drops let a browser lose the stream, catch up and lose it again across a restart; a
list with room for one or two is full after one or two additions, and the next
shows what is dropped; nine messages outgrow the trigger, the window and the hard
limit; a text of twice the chunk size has a cut in the middle of anything. The
cut-offs (`MaxRequests`, `MaxCrashes`, `MaxDrops`, ...) are all in guards and named
in the modules. Symmetry is used only where no liveness is checked: over the two
clients that can cancel, over A2A tasks, and over workers and pages in `services`.
Every property of every passing run has a mutant: a plausible bug of the code under
which TLC finds it violated.

Checked under the bounds, each stated in words in its module:

* scheduler: `Accounting`, `ImplementsAdmissionControl`, `WaitingEnds`;
* queue: `RowTracksThread`, `RecoveredOnce`;
* A2A: `AnswerIffCompleted`, `ActiveIffWorked`, `ChunksOnceInOrder`, `DecisionsStand`, `TasksEnd`;
* runs: `SucceededIsWhole`, `EarlierLayersDurable`, `BusyHasWorker`, `ResumeKeepsSucceeded`, `EveryRunSettles`;
* streams: `OneVerdict`, `AnswersAreWhole`, `SendsWhatItChecked` (`ChatStream`), `VerdictIsFinal`
  (`AgentLayer`), `EndsWithEverything` (`RunEvents`), `RecoversWhenUp` (`McpBridge`), `EverythingEnds` (all);
* services: `WellLayered`, `AnswersStayInScope`, `OverrunBounded`, `AnnouncedOnceNeverLost`,
  `NoLostUpdate`, `CallsKeepOrder`, `SearchFindsWhatStays`, `MarkersAgree`;
* workbench: `RunsAreSanctioned`, `ContentIsKept`, `UninstallSpares`, `PassagesAreWhole`, `NoPageIsLost`,
  `NothingForgotten`, `PromptIsWhole`, `PrefixKept`, `DirectoriesAgree`, `NothingVanishes`.

### Fairness

* **Scheduler**: weak fairness of `Poll` (the wait is bounded by 50 ms), of
  deadlines and of the refill (time passes). None for holders: a streamed answer
  may go on for ever. Without a timeout (`acquire_timeout` 0) a low priority may
  starve, so `WaitingEnds` is claimed with timeouts only.
* **RequestQueue**: weak fairness of the attempts and of `urlopen` (it has a
  timeout). None for the caller's body, the users, or the operator.
* **A2ATask**: threads run, file writes return, the upstream call has a timeout, a
  peer that keeps its stream open reads it.
* **AgentRun**: weak fairness of the run's thread (each upstream call times out),
  of the second half of a sweep, and of `Boot`: liveness is claimed for a server
  that is started again.
* **ChatStream**: weak fairness of a worker's own steps (upstream calls, sleeps and
  tools time out) and of the generator taking an event; none for chunks to arrive,
  nor for clients.
* **AgentLayer**: of the layer's thread only, whose wait has a timeout. A worker
  may hang for ever and the layer still returns.
* **RunEvents**: of the generators, and of a browser that opens its stream again.
* **McpBridge**: threads run, an open circuit is reset by time, a catalogue expires.
* **RagIndex**: a search, an indexing and a directory removal that began go on.

Deadlock is checked in every run but `streams` and `services`, which hold machines that
really stop: a layer that is over, a call whose results are all in. Elsewhere the states
in which a bounded behaviour is over have an explicit stuttering action (`Quiet`,
`Returned`, `Full`).

## 4. Proofs

TLAPS checks every obligation with SMT (Z3), Zenon and LS4, for every value of the
constants. Nothing is assumed but the named `ASSUME`s on constants (finite sets
of clients, positive caps, a critic distinct from the researcher, an overlap of at most half
a chunk, times that can be compared, a file with pages and pages with letters), which TLC evaluates in the runs, and the hypotheses a
theorem states. Every safety property of the passing runs is a theorem.

**SchedulerProofs**: `TypeCorrect`, `AccountingHolds`, `BoundedHolds`, `TicketsAddUpHolds`
and `Refinement` (`Spec => AC!Spec`). The guards of the code compare *counters*, while
`Bounded` speaks of *threads*, so `Accounting` ties them; and removing one ticket from the
heap removes one client only when no two waiting clients share a number
(`TicketsDistinct`). The inductive invariant is `IInv == TypeOK /\ Accounting /\
TicketsDistinct /\ CountersBounded /\ TicketsAddUp`. There is a lemma for each way out of an
iteration, stated for a heap of `n` waiters so that it serves both `Enter` (the ticket has
just been pushed) and `Poll`. Refinement maps `Enter` to `Enqueue`, `EnterAtOnce` or a
stutter, `Poll` to `Admit`, `Leave` or a stutter, and `Release` to `Leave`; the strict order
of ticket numbers makes a new arrival last.

**RequestQueueProofs**: `RowTracksThreadHolds`, `RecoveredOnceHolds`, `SettledStay` and two
more. Row and thread meet through the place of the thread: for each place `Tracked`, `Progress`
and `Verdict` say what the row may be, and `Lettered` ties the dead letters to the row that the
transaction of the recovery has settled before. All of it is about one call at a time,
because no step of one call writes the row of another.

**A2ATaskProofs**: `AnswersBelong`, `ActiveAreWorked`, `ChunksInOrder`, `DecisionsHold`. A record
is whole wherever it is: in the store, on disk, in the hand of a writer who is late, in what a
reload has just read. The place of a worker says what its record holds, and that the store cannot
have evicted it; a task that was not submitted yet is nowhere. A reader's cursor never passes
the number of chunks that some copy of the record still has.

**AgentRunProofs**: `SucceededHolds`, `LayersDurable`, `BusyHolds`, `FinishAnswered` and
`ResumeKeeps`. `SucceededIsWhole` compares two parts of the file, while what keeps them together
is the thread. So `IInv` says where the thread is relative to the file: no node has succeeded
before the first execution (`Untouched`); nothing the thread runs, is about to run or has seen
fail is succeeded in the file (`Unfinished`); a resume resets only nodes the thread has no
output of (`Reopened`); what a layer builds on is settled in the thread and final in
the file (`LayersSettled`). A late call may append at any time and over anything, so what `IInv`
says of an entry of the file it says of those that are not `stained`. `ExecutingStatus` makes
`Untouched` inductive: a thread that makes nodes succeed has written `running`, over which a
sweep can write `orphaned` but nothing can write `awaiting_plan`. `Threaded`: the thread's
memory dies with the process.

**StreamsProofs**: `OneVerdictHolds`, `AnswersWhole`, `SendsOnlyTheChecked`, `VerdictFinal`, `EndsWhole`.
An open request has told progress only, and the last chunk it told numbers the answer it is
building; one that is closing has its verdict last, or its client has left. An entry of the cache by
a stream is what its client was told: the number of chunks does not change from the store to the done event
(`ShownPreserved`). A request whose client left owes what it had checked for (`due`) as
long as it stands between check and start, and nothing elsewhere (`OwesKept`). The gate of a layer
closes with the verdict, so only the event a worker had in hand can still come, and a worker
that returned has none. What a browser has is a beginning of the log, and the cursor of its
open stream is where that ends.

**ServicesProofs**, one part per machine, from its own `Init` and `Next`:

* memories: the copy of the one who holds the lock is worked out from the file as it is;
* files: a file that stays through a search was listed by it and is a file still, and
  what the search read first is completed by what it reads second;
* cache: ids and answers are numbers of answers, of which prompt and scope are settled;
* reminders: the copy of the lock's owner has all the file has, is not settled yet, and what
  was told is marked in the file and in every later copy;
* budget: below the limit what was spent bounds what was governed; from there on what is
  under way was let in before, so that one request per worker is all that can be added;
* tools: nothing is at work while the loop walks, except the stragglers of a cancelled
  pool; a serial call that began has all earlier ones behind it;
* searches (`MarkersAgreeAlways`): both sides number the results by their place over all rounds. A saved
  search is `Ripe`: a result has its own number or none yet (`Tidy`), so that `Marked`, which fills in what is
  missing, gives two places two markers (`PlacesDiffer`). Between two rounds of a turn without cached calls the
  tool's counter is the number of results so far, and what the model was given is among what the browser is
  shown (`Numbered`). What a search finds is bounded by `ResultLimit`, whatever that is;
* layers: for every dependency relation the critic is last, dependencies come first for
  agents no cycle blocks, none waits without need, and every round places somebody. `Blocked` is
  defined by a set that supports itself rather than by paths, which keeps induction out: if
  a round finds nobody ready, the set of the remaining agents is a witness
  that each of them is blocked.

`ServicesHold` joins them: whatever machine of the run moves, the others rest, so the
specification of the run implies that of each machine.

**ListsProofs** is about `Lists`: `InOrder` counts how many elements of a set come
before one, so the k-th element is the one with k - 1 before it. That such an element exists for every
k is a fact about finite sets (an injection between sets of equal size is onto), and not
an induction over the list. Where one is needed, it goes over sets of numbers: no theorem with an
operator parameter can be used here, but a set with 0 that has the next number of each of its
numbers is all of Nat (`Induct`, from the least number outside it). `Partials` are the lists that
`FlattenSeq` folds up, one more element each; that they exist at all follows in this way
(`FlattenIs`), and from it that a flattened list has the elements of its parts (`FlattenElements`). `Among` is `SelectSeq` with membership of a set:
its elements (`AmongElements`), their order (`AmongFacts`), and `AmongBegins`: what is selected
from the beginning of a list is the beginning of what is selected from the list. TLC
compares `Among` with `SelectSeq` on small lists (`AmongSelects`).

**WorkbenchProofs**, one part per machine:

* skills (`RunsSanctioned`, `ContentKept`): what the runner looks at is what the user last said
  (`Obeyed`): no operation but those on it writes the trust store, and only enabling and deleting
  take a skill off the disabled list; a content that will be replaced has its revision (`Kept`);
* packs (`UninstallSparesOthers`): when the catalogue can be listed, every other pack exists and can be
  exported, so that `_uninstall_pack` looks away from none; what is left is no longer than what was
  there, so that nothing is cut off it;
* chunks (`PassagesWhole`, `CuttingEnds`): the next chunk begins an overlap before the end of
  the last one, or further back;
* files (`NoPageLost`): `ScanInv` says while the pages are shown to the recognisers that what was read of a page
  is in the text or at hand (`Accounts`), that what is at hand was read, and by DeepSeek
  if that read anything, because nobody is asked after it (`Chosen`), and that the pages of the text rise
  (`Rising`). That the pages are the text needs what flattening does: equal parts, the last one
  with the rest, are the whole again (`SplitWhole`), and so are, of an ascending list of the pages the parser
  read, the pages one by one with nothing for those in between (`PagesWhole`);
* projects (`ProjectFilesAgree`, `ProjectsKeepTheirEntries`): `Sound` says of one project how its directory,
  its lists and the strays of uploads fit, `Grown` what a step may drop of its lists, and
  `StepOfOne` reduces a step to the project it is about. Versions of an artifact grow as a prefix does;
* prompts (`PromptsWhole`, `PrefixHolds`, `NothingIsForgotten`): what is sent is an end of the ascending
  list of what was said after the place where the request begins (`NormalizedIsTalk`,
  `ManagedDrops`, `EndOfTalk`). A prompt that was neither cut nor dropped from is settled by its
  question and its summary (`Whole`), and stays so while the conversation grows at its
  end. `NothingIsForgotten` has hypotheses on the limits, which the defaults fulfil: the browser's trigger
  (36) is even and within the gateway's window (36), and what it keeps (16) with the smallest delta (4)
  leaves room in it. Without them it does not hold: see section 6.

`WorkbenchHolds` joins them like `ServicesHold`.

The theorems also prove some properties that no run lists, because a run needs them
least: `TypeOK` of the larger machines, `Bounded` and `TicketsAddUp` (scheduler), `FailedRowsGaveUp`,
`SettledRowsStay` (queue), `FinishHasAnswer` (runs), `CriticReviewsAll`,
`DependenciesFirst`, `NoNeedlessWait` and `EveryRoundPlaces` (layering), `CutsAdvance` (chunks).

Only model-checked: the liveness properties (`WaitingEnds`, `TasksEnd`, `EveryRunSettles`, `EverythingEnds`,
`RecoversWhenUp`), because fairness and ENABLED are out of the prover's reach.

## 5. What is not modelled

The components with status `not_modelled` in `PROJECT.json` have the reason there: reporting
(observability, evaluation, diagnostics), configuration, launchers, the mobile shell, the
A2A client, and the user interface of `static/` except the compression of conversations.
Within what is modelled:

* **what texts say**: tokens are weights, the difficulty of a question, the ranking of chunks and pages,
  the recognition of a picture and the answer of a model are choices;
* **gateway**: titles, the OpenAI-compatible reader of a stream (a second reader like
  `chat_event_stream`), the parameters of a request, the effect of a disabled queue;
* **edge inference**: loading and running the local model;
* **MCP**: a disabled client, an empty list of servers, and two first refreshes that each make a
  health record;
* **skills**: what a skill says to the model, evaluation, statistics, the catalogue's security gate;
* **tools**: what each tool does, but for web search, recognition and generated files;
* **workspace**: titles, previews and the contents of exports;
* **SQLite errors** outside of the places where the code handles them, and **disk errors** except for
  snapshots of tasks, rows of the queue, dead letters and cached searches;
* a second process on the same directory, except for the lock of the memories.

## 6. Where code and texts disagree

Five runs are expected to fail, each shows a disagreement (`findings` quotes the lines):

* `a2a_canceling`: the completion only refuses terminal states (`a2a.py:442`), so a
  task acknowledged as canceling can end completed; `docs/API.md:265-266` says otherwise.
* `run_sweep`: the periodic cleanup marks live runs orphaned for "server_restart"
  (`agent_runs.py:684-700`, `app.py:151`); the thread later overwrites it.
* `run_revision`: a failed revision says it keeps the earlier conclusion; the
  file has lost it (`multi_agent.py:885, 920`).
* `rag_deleted`: a search in flight puts the rows of a deleted project back
  (`docs/API.md:67`, `docs/WORKSPACE.md:38`).
* `history_lost`: after failed compressions with an existing summary, the messages between
  that and the server's window are neither sent nor summarised, and the user is not told
  (`static/modules/chat.js:2863-2872` with `sliding_window_messages`).

Also seen while modelling, without a run of its own:

* prompts: the window of the gateway is configurable from 8 to 80 messages
  (`core/config.py:680`), the browser's trigger is not (36): with a window smaller than 36 a conversation that
  has a summary loses messages without a word until the next compression. With the defaults it holds by one message,
  because a conversation has an odd number of messages when it is sent. Token trimming may drop recent
  history although the compression worked; clients that post more than 40 messages without a summary get 409.
* gateway: a cascade looks at its cancel event only in its replay; the JSON path
  stores answers cut at "length", though the comment at `deepseek_client.py:2141-2142` says truncated answers are not
cached; so does a stream whose body ends without a finish_reason and without `[DONE]`, which is taken for complete
(`RoundEnds` with `eof`), shown as an answer and stored. A request that was checked for is sent though the user cancels
before it is (`resiliency.py:49-52`). A hit
  refreshes `updated_at`, so the TTL of a cached answer is extended.
* runs: the relay of the synthesis drops the in-band error of a broken stream (`multi_agent.py:1632-1634`) and the run
  ends done with half an answer (`SynthesisBreaks`); `CHANGELOG.md:892` says that no longer happens. A confirmation
  that arrives while the planning thread is still returning is answered `ok` and lost (`web/server.py:621`); a rerun
  is accepted in `awaiting_plan` (`web/server.py:625`). Resume keeps a fragment of a cut-off synthesis
  (`agent_runs.py:522`). `reduce_node_states`: one output after a reset leaves the node "retrying". A crash
between `agent done` and `agent_output` leaves a node that is resumed as succeeded with what was streamed, without its
sources and the notes on a degraded or interrupted answer (`multi_agent.py:571-578, 794`). A call that had passed its gate when its
layer timed out may reset, or append to, an entry that has been posted, while later layers run (`multi_agent.py:545, 633`).
* A2A: a completed task evicted before its last snapshot is written comes back as failed in the same process
  (`a2a.py:214-217, 257`); a stream may send the final status before the answer chunk it had not seen (`a2a.py:661-665`).
* queue: rows younger than the cutoff survive a quick restart (`scheduler.py:386`, against `docs/API.md:195`); a
  stream cancelled during its backoff leaves its row in flight.
* tools: an answer's message carries all its calls, and only the first six get results; `docs/ARCHITECTURE.md:183` says
  5 rounds, the code has 3. Within a parallel batch a taint does not stop the others.
* search: a page found in two rounds has two markers, of which the browser keeps one; cached results keep
  the markers of the turn that made them (`search.py:190`), so that within a turn one marker may stand for two pages. Two
  writers of a cache entry share a temporary name (`search.py:641`): the second call fails.
* files: pages without text of a mixed PDF are never recognised; the text of a recognised PDF is split into
  pages of equal length; on Android without poppler a scanned PDF is refused before ML Kit is tried, against `docs/APK.md:70`.
* reminders: with 200 pending the one due first is dropped though create reports success.
* MCP: a slow older refresh overwrites a newer catalogue; two threads may count a failure each while it is refreshed.
* RAG: uploading a temporary copy deletes the index rows of the same document in all projects; searches heal it.
* skills: packs installed through the workspace route, an upgrade or a rollback skip the catalogue's security
  gate (`docs/SKILLS.md:367`); an imported skill that says "disabled" cannot be enabled by the enable action; one dangling reference
  makes the catalogue fail (`catalog.py:220`); a torn trust store or disabled list is read as empty and rewritten.
* workspace: generated files expire after six hours while their artifact stays listed, so that an export
  lacks them (`docs/WORKSPACE.md:168`; `ZipHoldsArtifacts` states it and does not hold); an upsert at the limit of 200
  conversations drops another one; legacy entries of `project.json` are apart from `saved-items.json` and `artifacts.json`.
* browser and launcher: a conversation may be deleted while its history is compressed, and the summary then
creates and fills an empty one (`chat.js:2909-2911, 8041`; to open or begin one is refused meanwhile,
`chat.js:7692, 7719`, so that `Prepare` is one step); the palette may open another conversation while a dialog of the first is open; two tabs overwrite each
  other's storage; a Start between the reader's "stopped" and the return of `stop()` leaves a server nobody stops.

## 7. Plan

What is left, in order of importance:

1. A refinement between `AgentLayer` and the layer steps of `AgentRun`, and between `ChatStream`'s view of
   the queue and `RequestQueue`.
2. More of `tools.py` and `ocr.py`: document generation and its registration.
3. The browser's side of a chat: what is in flight while conversations are edited, regenerated and switched.
