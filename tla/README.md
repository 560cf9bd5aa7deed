# Verification of rfsn_v10 and agent_core

TLA+ models of the stateful parts of this repository and of its algorithms
over discrete data, the TLC runs that check them on small instances, and TLAPS
proofs of the properties that matter most for every instance. Paths below are
relative to `src/`; `async_writer.py` and the like are in `rfsn_v10/`.

## 1. The system

`rfsn_v10` is a decode runtime for language models that keeps the keys and
values of attention in a compressed cache. One decode step looks for a cached
entry, quantises and stores one if it may, runs sparse or dense attention, and
lets an audit of the result steer how sparse the next steps may be. Around it
are a memory guard, a telemetry pipeline, disk persistence of cache entries,
and a memory manager shared by tenants and models. A second, experimental
runtime keeps its cache in several formats at once and changes the bit widths
while it runs. `agent_core` is an agent that plans, reviews, applies and judges
patches to a source tree. `scripts` and `tools` hold the gates a release goes
through.

| Component | State it keeps | Operations | What makes it correct |
|---|---|---|---|
| Telemetry writer `async_writer.py` | current batch, bounded queue, drop count, stop event, timer, worker thread | `write`, timer flush, worker loop with retries, `stop` / `flush` | every event is written or counted as dropped, once, in order; `stop` returns and leaves nothing behind |
| ClickHouse client `clickhouse_client.py` | list of parked events, flush file | insert with retries, drain, flush at SIGTERM and exit, replay at start | no event is lost or sent twice without a fault that explains it |
| KV cache manager `kv_manager.py` | entries, order of use, total and pinned bytes; per entry its blocks, words, scales, signs | `store`, `retrieve`, `retrieve_blocks`, sketches, `pin_cache`, `evict_lru` | totals exact, budgets kept, pins respected; every code comes back at its place |
| Bit packing `bitpack.py` | none | `pack`, `unpack` at any width | the inverse of each other, padding included |
| Metal kernels `kernels/` | shared memory of a threadgroup | the Walsh-Hadamard transform, the routes that unpack selected blocks | the same result in every order of threads |
| Memory guard `memory_guard.py` | pressure flag, two switches | `check_pressure`, `enforce_safety`, emergency mode | nothing runs sparse or touches the cache while it forbids it |
| Sparsity controller `adaptive_sparsity.py` | per profile: kept ratio, clean steps, two switches | `update`, `reset` | ratios within bounds, a switch once off stays off |
| Decode runtime `runtime/engine.py` | the three above | `execute_decode_step` | the decision and what is done in the step agree |
| Sparse attention `attention.py`, `attention_reference.py` | none | choice of dense or sparse, of blocks, of keys | a query attends to the right keys and to no padding |
| Experimental runtime `runtime/experimental_quant_runtime.py` | one manager per pattern, a prepared cache, step count | `decode_step` in its scoring modes, audits | a step scores what belongs to its layer and pattern |
| Adaptive bit controller `runtime/adaptive_controller.py`, `audit.py` | bit widths, counters, window of audits | `update` | bits rise when quality is lost |
| Disk persistence `disk_persistence.py` | data and metadata file per key, one write-ahead log | `persist`, `load`, `evict`, `enforce_quota` | what was acknowledged is durable, what is in flight is logged, the quota evicts what it can read |
| Tenant memory `memory_manager.py` | allocations, usage, quotas, two locks | `allocate`, `release`, `enforce_quotas`, `evict` | usage is exactly what is held, never granted above quota, calls return |
| Model isolation `multi_model.py` | configurations, statistics, active model | register, switch, allocate, release, clean up | a model is known with its configuration, statistics and memory, or not at all |
| Patch manager `agent_core/patch_manager.py` | the files, the patches applied | `apply_patch_plan`, `rollback_patch` | all of a plan or none of it; a rollback restores and never overwrites other work |
| Task orchestrator `agent_core/orchestrator.py` | tasks with sub-tasks, state file | create, start, complete, fail, cancel, reset, save, load | what a call returned survives a crash; a task is in one tree |
| Agent pipeline `solver.py`, `critic.py`, `judge.py`, `finalizer.py`, ... | a verdict, an output, a review | solve, critique, judge, report, finalise | success is only claimed of what succeeded; hopeless patches are found |
| Tool runner `agent_core/tool_runner.py` | a child process and its group | `run_command` | a timeout leaves nothing of the command running |
| Promotion of configs `scripts/generate_experimental_comparison.py`, `classify_experimental_configs.py`, `check_release_integrity.py` | benchmark files, rows, labels | measure, compare, classify, check | a candidate passed every gate |
| Proof summary `scripts/generate_proof_summary.py`, `check_proof_summary_consistency.py` | result files, summary | generate, check | the check accepts what was generated |
| Regression gate `tools/proof_regression.py` | baseline, current results | compare, refresh the baseline | losses do not add up unseen |

How they interact. Producers call `AsyncWriter.write` from any thread; its
worker thread is the one caller of the client's inserts, while the client's
SIGTERM and exit handlers run in the main thread. The decode step calls the
guard, which may call back into `evict_lru` of the cache; then the cache, the
attention and the controller. The isolation manager calls the tenant memory
from several threads; the tenant memory's two locks nest. Disk persistence has
a lock it never takes. The experimental runtime feeds its audits to the bit
controller. The agent's judge and finalizer look at the orchestrator's tasks,
which their holders change at will; its critic and its patch manager each
decide what a change needs; its patch manager works on files the user edits as
well. The release scripts speak to each other through files of different ages.

What is hard. The telemetry writer and the client share data between threads
with locks that cover only some of it; the order of a stop, a timer and a full
queue matters. The model isolation manager has no lock at all. A crash may fall
between any two file operations of persistence, of the flush file, of the state
file and of a patch. A decode step takes its decisions before it evicts, stores
and falls back. A stored tensor is cut into blocks, words and groups whose last
ones are partly filled, and read back in several ways. A process may end or
refuse to end between a timeout and each of its signals. The list with lines is
in `PROJECT.json` under `hazards`.

## 2. Modules

| Module | What it is |
|---|---|
| `TelemetryLedger` | abstract promise of the writer: events numbered, settled once, delivered in order |
| `AsyncWriter`, `AsyncWriterProps` | the writer and its properties; implements `TelemetryLedger` |
| `AsyncWriterProofs` | theorems about the writer |
| `ClickHouseClient` | the client with its retry queue and flush file, and its properties |
| `ClickHouseClientProofs` | theorems about what is lost and what is sent twice |
| `KVManager` | the cache: operators on the state of one manager, and its calls as actions |
| `MemoryGuard`, `SparsityController` | operators on the state of a guard and of a profile |
| `DecodeRuntime`, `DecodeRuntimeProps` | composes the three modules above into the decode step; properties of all |
| `BlockCodec` | layout of a stored tensor, and every way of reading it back |
| `WhtKernel` | the transform kernel thread by thread, and the recursive transform |
| `SparseAttention` | the keys a query attends to |
| `AlgorithmsProps` | the three modules above against what they are for |
| `AlgorithmsProofs` | theorems about the layout, the kernel and the keys |
| `AdaptiveController` | the bit controller with the verdict of an audit |
| `QuantRuntime`, `QuantRuntimeProps` | the experimental runtime over it, and properties |
| `RuntimeProofs` | theorems about the decode step, the cache and the experimental runtime |
| `DiskPersistence`, `DiskPersistenceProps` | the files and the log, one action per file operation |
| `TenantLedger` | abstract promise of the tenant memory: grants within quota, dropped once |
| `TenantMemory` | the manager under its locks |
| `ModelIsolation`, `ModelIsolationProps` | models over `TenantMemory`, one system of several threads; implements `TenantLedger` |
| `ModelIsolationProofs` | theorems about the memory of tenants and about the dictionaries of models |
| `CommonLemmas` | lemmas about sums over finite sets, loops and joined sequences |
| `PatchManager` | plans applied and rolled back change by change, and properties |
| `Orchestrator` | the task store with its state file |
| `AgentPipeline` | solver, critic, judge, report generator and finalizer over the tasks of `Orchestrator` |
| `ToolRunner` | one command with its process group and its timeout |
| `AgentProps` | the three modules above as one system; properties |
| `AgentProofs` | theorems about it, and about failed plans and rollbacks of `PatchManager` |
| `Promotion`, `ProofSummary`, `ProofRegression`, `ReleaseProps` | the release scripts, and properties |
| `ArtifactProofs` | theorems about them, and about the files and the log of `DiskPersistence` |
| `MC...` | constants, symmetry and small instances for TLC |

An operator marked "Mutant of X" next to a definition is that definition with
a plausible bug; replacing X by it makes the property named in `PROJECT.json`
fail, which shows that the property depends on that line of code. Mutants are
used by nothing else. History variables (marked so) record what happened for
the properties and are never read by a guard.

### How state and actions correspond to the code

*AsyncWriter.* One action per stretch of code that no other thread can see
inside. The writer's lock is `cs`: a flush begun by `write`, the timer or a
stopper holds it through `FlushPut`, `FlushEvict`, `FlushReput` and the two
halves of `_events_dropped +=`, because the worker's `get`, its own unlocked
`+=` and `stop`'s sentinel go on meanwhile. `stop` is seven steps
(`StopCheck` to `StopJoin`), since the worker and the timer look at the stop
event between them. Events are the numbers of their acceptance; a batch is the
set of its numbers and its task; the sentinel is the batch of no task.

*ClickHouseClient.* The caller thread is in `_write_events` or
`_drain_pending_queue`; the main thread constructs the client (replay), serves
SIGTERM between any two of its steps and flushes at exit. Python runs a handler
between any two bytecodes of the main thread, those of a flush included, so a
SIGTERM may interrupt the flush of an earlier one or of the exit handler:
`outer` is the stack of the interrupted flushes, each with the lines it has in
its buffer and its place in the list. What an interrupted flush had already
given to the file is chosen freely, a cut line included. The parked list has
no lock in the code and none here. Faults are a constant set: a request
refused, an answer lost, a crash, a disk that fails (in a flush, in reading the
file, in removing it), a process that closes the client.

*KVManager.* It is checked inside `DecodeRuntime`, whose action `CacheCall` is
any call the owner of the cache makes between two steps. The state of a manager
is one record, `kv`, with the entries, their order of use and the two totals,
and every method is an operator from record to record; so `DecodeRuntime`
chains several in one step, as the code does. An entry is its bytes and its pin.
The order of use is the set `older` of pairs of keys: the first was used before
the second.

*DecodeRuntime.* `execute_decode_step` runs in one thread, so it is one action:
the chain of its stages (decision, cache, attention, dense fallback, audit and
controller), each the set of its possible results. A stage that raises keeps
what the stages before it changed. What the device reports and how an attention
path ends are chosen freely.

*BlockCodec.* `store` of one tensor and one read of it. A code is the element
it was made from, the scale of a group the set of its elements, and the sign of
an element the flat index it is hashed from; a read is right when each of the
three is the one of the element that belongs there. Blocks, words and groups
are cut as the code cuts them, so what padding does is visible.

*WhtKernel.* One action per read or write of a thread; a barrier is waited for
by every thread of the group. *SparseAttention.* One call, one action; the
order of the scores is an input.

*QuantRuntime.* One action per way a decode step can end: raised before its
audit, raised after it (the controller has taken the audit by then), unaudited,
audited. Layer ids and patterns are sequences of the parts between their
colons, for the key of the prepared cache joins them with one.
`AdaptiveController` is the controller's `update` on its counters, with the
margins of audits in units of 0.0001 as inputs.

*DiskPersistence.* One action per file operation; a file is the version
written to it, whether it is whole, and who has it open. A crash keeps the
files and loses the calls. Any operation may raise `OSError`: a persist or an
evict ends with it, a quota goes on to the next entry, but for the `stat` of
`get_cache_size`, which ends it. `load` and `recover` change nothing and are
left out.

*TenantMemory, ModelIsolation.* One action per stretch under one lock, or
between two changes of a dictionary that has none. Calls are records with the
place they go back to, so that a manager's call can be inside a call of the
isolation manager above it. `evict` waits for the lock it holds, as in the
code; an iteration over a dictionary another thread changed raises, over the
tenants and over the allocations. The memory usage in the statistics of a model
is read and written back in two steps; it is the set of the allocations it
counts, which no release lowers, and goes with the statistics.

*PatchManager.* One action per change applied, restored or undone. A change has
one of the three types the manager knows, or another, which it refuses. A write
may fail before or in the middle of it. `AsRead` is what `read_text` makes of the
bytes of a file: CRLF is read as LF.

*Orchestrator, AgentPipeline, ToolRunner.* One action per call on tasks; a save
is two more, the open that truncates and the dump. Holders change tasks without
a call. The judge and the finalizer each take what the task is at that moment.
`ToolRunner` has an action for each wait of `run_command` and for whatever the
processes may do meanwhile. The three share no state but the tasks, and the
model composes them so that a behaviour interleaves store and pipeline freely,
or is about a review, or about a command.

*Promotion, ProofSummary, ProofRegression.* One action per script run, and one
per measurement that replaces a file. A measured result is the verdict the
thresholds give it, but where the code computes with several: of the
free-running rows of a config the model counts those that matched none, half and
all of the tokens, and takes their average as the code does. The ratio, the
bytes and the basis of the memory file are three fields.

## 3. Runs

There are few runs, each with as much going on at once as TLC gets through in a
minute or two. Passing runs check that their properties hold; each property has
a mutant that breaks it. State counts are distinct states, rounded.

| Run | States | Bounds | What it shows |
|---|---|---|---|
| `AsyncWriterRaces` | 616 000 | 2 tasks, 2 events, 2 stoppers, batches of 2, queue of 2, no retries, DROP_OLDEST | accounting, order, what a sentinel means, refinement of the ledger |
| `AsyncWriterLiveness` | 65 000 | 2 tasks, 2 events, 1 stopper, queue of 1, 1 retry, the full queue refuses; fair | every accepted event is settled unless `stop` is called; `stop` returns and the worker ends |
| `ClickHouseClientFaults` | 2 710 000 | 3 events of 2 tables, 2 attempts, up to 3 processes and 2 signals, 4 of both together, all faults, 2 kinds of mishap in one behaviour | loss and duplication only after the mishaps named |
| `DecodeRuntimeGuarded` | 6 400 | 3 keys, one entry too big and one above its estimate, budget 3, pins 2, readings calm, soft and hard | the cache's totals, budgets and pins; guard, cache and controller agree through a step |
| `DiskPersistenceThreads` | 428 000 | 2 threads, 2 keys, 4 calls, 1 crash, failing operations, torn files and log lines, log of 2 | an acknowledged persist is durable; one in flight is logged; what a quota leaves it could not read or not unlink |
| `ModelIsolationThreads` | 324 000 | 2 threads, 2 models, 2 sizes, quotas 0, 1, 3, 5 calls of 8 kinds; fair | usage exact at every step, the dictionaries of a model agree and count what it holds, refinement of the ledger, calls return |
| `PatchManagerPlans` | 2 230 000 | 2 files, 2 contents, plans of 1 or 2 of the changes, one of an unknown type among them, 2 calls, 1 edit, failing and torn writes, failing restores, crashes | failed plans restore, rollbacks are exact, honest and careful |
| `AgentTasksAndCommands` | 731 000 | 3 tasks, 4 calls with crashes and failing saves; plans of at most one change; one command with a helper | what returned survives; one tree per task; success is earned; critic and patch manager agree; a timeout kills |
| `QuantRuntimeLive` | 31 600 | 2 requests that meet at one key, widths 3 to 5, window of 2, interval of 7, audits every 2 steps; fair | answers are a step's own; bits never fall by default and rise when audits stay bad |
| `Algorithms` | 48 000 | tensors up to 2 x 5 x 2, blocks of 1 to 3, words of 3 or 4 codes, groups of 2 or 4; 4 threads; up to 8 keys in blocks of 2 | reads are exact, the kernel is the transform, attention picks the right keys |
| `ReleaseGates` | 1 170 000 | 2 configs, 2 contexts, 2 measurements after the first; 2 tiers; 1 scenario, 3 rules | candidates passed every gate, integrity refuses only disagreement, summaries pass their check, losses do not add up |

Why the bounds are enough. A hazard of these components needs two of something:
two tasks to mix, two keys to confuse, two threads to race, two changes to a
path. Limits (queue, budget, quota, log) are small enough to be reached and
passed in every run, and the counters that would grow without end (events,
calls, crashes, edits) are capped at the number where a further one starts a
situation an earlier one has been in. The client's run has the
two that meet in one behaviour (two kinds of mishap, two signals for a flush
within a flush); that a drain which failed for one table sends the other again
takes a fourth event, so the run reaches the mishap "partial" and not its
duplicate. All the invariants these runs check are also proved for any number
of them. One profile of the controller is checked
for the same reason: what concerns profiles is proved for any number of them.
Both policies for a full queue are covered, one in each of the writer's runs.
Sizes in `Algorithms` include every remainder a block, word or group can be
left with. The transform is linear, so its unit vectors stand for all inputs;
four lanes have two levels of it, which is what a missing barrier needs.
Deadlock is checked for `DecodeRuntime` and `QuantRuntime`; the other systems
really stop, when the last call a bound allows has returned or, for the client,
when the last process has exited.

Fairness. `AsyncWriter`: weak fairness of each thread's own steps - the
operating system runs a thread that can run, and a timed wait ends. Nobody is
obliged to call `write` or `stop`. `ModelIsolationProps`: the same per thread;
a thread that waits for a lock gets it when it stays free, and with calls
bounded it does. `QuantRuntimeProps`: `DriftRaisesBits` is about a caller that
decodes for ever (weak fairness of a step) and gives reference logits for some
of the audits (strong fairness of an audited step); without either there is no
audit and nothing to react to.

### Disagreements between the code and what it says

One run checks a statement of the repository and TLC shows a behaviour of the
code that breaks it. `AsyncWriterFlushGap`: "Flush all pending telemetry and
stop the writer." (`async_writer.py:226`), but the worker can leave between the
stop event and the final flush; the batch stays in the queue.

The others were met while modelling. The models contain the behaviour, and the
properties are stated so as to name it; no run is spent on them.

Telemetry
* The flush at SIGTERM clears a list another thread appends to
  (`clickhouse_client.py:156`), against "Ensure zero log loss during pod
  termination" (`.tickets/4-3-retry-queue.md:16`): the mishap "overlap".
* A SIGTERM during a flush writes the same list again, before the first flush
  has cleared it (`clickhouse_client.py:33`): the lines are in the file twice
  (mishap "again"), or one of them is cut by the lines of the other ("spill").
* A replay that cannot remove its file leaves what it parked in it
  (`clickhouse_client.py:175`): the mishap "kept".
* Two unsynchronised `+=` on `_events_dropped` can lose one
  (`async_writer.py:212`), so the count is a lower bound.

Decode runtime, cache, attention
* With a guard the controller's quantised switch is ignored
  (`runtime/engine.py:217`).
* A store over a pinned key unpins it (`kv_manager.py:1274`); `PinnedSurvive`
  excepts the owner's own store.
* The Metal route that undoes signs drops the indices it is given
  (`kernels/__init__.py:266`): a selection that is no prefix gets wrong signs
  (`MisSigns`). A sketch reads a buffer of several blocks as one tensor
  (`kv_manager.py:1222`; `Misreads`). `ReadsExact` excepts these two.
* With more queries than keys, a query without a key of its own attends to all
  (`attention_reference.py:91`). Reserved blocks, which the docstring always
  retains (`attention.py:211`), are cut when the budget is smaller and may not
  overflow.
* The bit controller asks a window for a margin no audit can give, so that it
  never lowers a width by default; "immediately increase"
  (`runtime/adaptive_controller.py:39`) takes two bad audits.

Persistence and memory
* A persist that succeeds truncates the log of those that failed or are still
  running (`disk_persistence.py:132`), and half a line at the end of the log
  swallows the next entry; `InFlightLogged` speaks of persists nothing
  overlapped.
* `load` compares the checksum in the metadata and reads whatever data file is
  there (`disk_persistence.py:150`).
* `enforce_quota` cannot evict data whose metadata is missing or torn
  (`disk_persistence.py:210`) and passes over what it cannot unlink (`:231`),
  the cases `QuotaLeavesUnreadable` names.
* `evict()` waits for its own lock (`memory_manager.py:269`), the case
  `SelfBlocked`. `enforce_quotas` releases at most five allocations of a tenant
  and takes a quota of 0 for 0% used (`memory_manager.py:293`, `139`).
* `register_model` calls a method the memory manager does not have
  (`multi_model.py:77`), so the call raises after it registered the model, which
  keeps the default quota. Two calls that meet in the middle of a model leave it
  with one of its dictionaries or with memory nobody accounts for (`met`); so
  does, with no thread but one, a clean-up (`multi_model.py:232`) or another
  registration (`:73`) of a model that holds memory (`left`).
  `release_model_memory` never lowers the usage in the statistics
  (`multi_model.py:187`) and releases any model's allocation
  (`multi_model.py:183`).

Agent
* A crash leaves a patch plan half applied (`agent_core/patch_manager.py:225`),
  and a change to a file with CRLF line ends and its rollback leave LF
  (`agent_core/patch_manager.py:107`); `AsRead` is there for the second, and
  the run gives it files with LF.
* A save of the state empties the file first (`agent_core/orchestrator.py:254`);
  a crash there or an object that does not pickle leaves nothing. Changes made
  by holders of tasks are not saved (`agent_core/schemas.py:121`). A task whose
  parent is unknown is in no tree (`agent_core/orchestrator.py:63`; `Stray`).
* An output puts the title of an earlier verdict beside the numbers of now
  (`agent_core/finalizer.py:127`).

* The critic says nothing of a change whose type the patch manager refuses as
  unknown (`agent_core/patch_manager.py:133`, `agent_core/critic.py:92`);
  `CriticCatchesHopeless` is about the known types.
* A helper that left the process group, or whose parent is found dead half a
  second after the SIGTERM, outlives a timeout (`agent_core/tool_runner.py:245`),
  with the output cut short.

Release scripts
* A config without a row of its own takes that of another: in the real-model
  file the second row, where a "reference" is good enough, in the long-context
  file the only row of a context, where a "reference" is a failure
  (`scripts/generate_experimental_comparison.py:70`, `:119`).
* The comparison recommends a row by its ratio; the integrity check wants the
  bytes and the basis too and refuses a row without them
  (`scripts/generate_experimental_comparison.py:205`,
  `scripts/check_release_integrity.py:345`).
* Missing teacher-forced results pass; a label whose issue
  is a decode update is refused by the integrity check for its wording.
* The generated summary fails its own check when one recommended config is
  faster than the baseline and another is not, and when a context benchmark
  ended in an error.
* A metric that is NaN or missing breaks no rule of the regression gate, and
  the workflow that refreshes the baseline compares it with itself.

## 4. Proofs

All theorems hold for every value of the constants allowed by the named
assumptions, which TLC evaluates in the runs. Each component below has its
inductive invariant, because no property listed is inductive by itself.

**Telemetry writer** (`AsyncWriterProofs`, from `WriterAssumption`).

* `TypeCorrect`: `Spec => []TypeOK`, by one step per action. Among the types
  are the bound on the queue and "the lock has a holder exactly while a flush
  is in progress", which the actions of the three callers all rely on.
* `Conservation` (`EveryEventAccounted`) and `OrderInPipeline`
  (`PipelineInOrder`). That a batch moved from the queue to the worker is not
  already in the hand of a flush needs the stages to be disjoint, and that
  follows from their order. The inductive invariant is
  `IInv == TypeOK /\ Conserved`, where `Conserved` says of the five stages - in
  flight, queued, in hand, current, settled - that together they are `1..n`,
  that they are pairwise disjoint, and that each is older than the next. Lemmas
  `Move...` say what one move of events between two stages does to this, over
  plain sets; `QueuePut` and `QueueGet` relate the queue to the set of its
  events; each action is then one or two moves.
* `Refinement`: every step of the writer is a step of `TelemetryLedger` or
  leaves it alone. `OrderOfDelivery`: the action property, from the same
  invariant.
* `SentinelComesLast` (`SentinelMeansSettled`). `ExitInv` adds to `IInv` what
  makes the sentinel come last: the events not yet queued are newer than every
  final flush that is over (`EnteringLater`), so behind a sentinel in the queue
  there are only newer events (`SentinelLast`), and a flush never puts anything
  but a batch (`HandIsBatch`).

**ClickHouse client** (`ClickHouseClientProofs`, from `ClientAssumption`), for
any events, tables, attempts, processes and signals. Nothing is claimed after a
mishap and mishaps are never forgotten, so each invariant has the form "no such
mishap yet implies ...".

* `NothingIsLost` (`LossNeedsMishap`). `ClientInv == Clean => Sound`. `Sound`
  says, of everyone who may empty the parked list or the file, where the events
  are by then: what a drain that may still succeed is done with was received
  (`Draining`), a flush has in its buffer or on disk all it went past, and on
  disk what it is about to clear (`Gathered`), and so has every flush that waits
  for one that interrupted it (`Suspended`), a replay has parked the lines
  before its own (`Replayed`); and of who cannot meet: nobody calls while the
  client is constructed (`Constructing`), no flush runs beside a drain (`Apart`).
* `EventsArriveOnce` (`DuplicateNeedsMishap`). `OnceInv == NoDouble => Single`.
  `Single` counts the copies of an event that can still be sent: there is at
  most one, with the caller (`OnTheWay`), in the parked list or in a line of the
  file a replay has still to come to (`Live`, `OneCopy`), and none once it was
  received (`CopiesUnsent`); a drain that goes on has sent the tables it is done
  with and no other (`DrainedOnce`). The one moment an event is in list and file
  at once is between the closing of the file and the clearing of the list. A
  flush that waits for another one has no lines yet (`Waiting`), or the mishap
  "again" would have happened, and finds the list empty when it goes on. A
  SIGTERM in the middle of a replay writes parked events behind the lines it has
  been at, which is why a line counts only while the replay has still to come to
  it. TLC checked the invariant on `ClickHouseClientFaults` before it was proved.

**Common lemmas** (`CommonLemmas`). What is defined by a recursive function - a
sum over a set, the parts of a buffer joined, the trees of tasks - can be used
only once the recursion is known to have a solution. The induction theorems of
the library take the formula as a parameter and cannot be used, so the lemmas
argue by a smallest counterexample: for sets from the well-foundedness of the
strict subset relation (`SmallestSet`), for numbers from that of `<`
(`AllReached`). The recursion of a total has a solution on every finite set
(`AddsExtend`) and no two (`AddsAgree`), hence a total satisfies its equation,
and does not depend on the order in which elements are taken. `LoopRuns` gives
the states a bounded loop goes through, for any functions as its turns; what
`FlattenSeq` does (`FlattenMembers`) follows from it.

**Cache and decode runtime** (`RuntimeProofs`, from `RuntimeAssumption` and the
assumptions on cache, guard and controller), for any keys, sizes, budgets,
readings and profiles.

* `RuntimeTypes`: the guard and the profiles are well typed; the ratios never
  leave the controller's bounds, for any steps and bounds.
* `SparseGate` (`SparseNeedsCalm`): the lemmas follow the gate of the sparse
  path through the stages: the cache stage leaves it open only if the guard is
  calm at its end, and the attention stage only takes the sparse path through
  an open gate.
* `SparseStaysOff` (`SparseOffIsForever`): only a reset of the controller gives
  a profile its sparse path back, because the update that clears the switch
  needs a sparse step.
* `TotalsAreExact` (`TotalsExact`) and `BudgetsHold` (`WithinBudgets`), by
  `KVInv == Exact(kv) /\ Fits(kv)`: both totals are sums over the entries, keys
  are in an order of use, and both budgets are kept. There is one lemma for each
  operator of the cache, since a stage chains them: each takes a manager that
  is `Exact` and `Fits` to one that is, whatever the stage does with it. What an
  eviction takes frees the amount or leaves only pins (`VictimsFree`), and the
  pins fit the budget because all entries together did; so a store never runs
  out of victims, even where the pinned budget is the larger one.
* `PinsSurvive` (`PinnedSurvive`) and `PressureStops`
  (`PressureLeavesCacheAlone`), from the same lemmas, step by step.

**Algorithms** (`AlgorithmsProofs`), each for any sizes.

* `KernelIsTheTransform` (`KernelIsWHT`), from `LanesAssumption` and
  `BlocksAssumption`, for any power of two of lanes and any block of integers.
  `KernelInv`: all threads are in one round of width w; a thread that has
  written left the value of the next level, one that has not found that of this
  level in both places it reads, because the barriers keep reads and writes of
  a round apart. `Level` is what the levels are in terms of the reference: the
  transforms of consecutive parts of width w (`LevelDoubles`). The recursion of
  the reference has a solution, and only one, by the shortest sequence for
  which it would not (`SolutionExists`, `SolutionsAgree`).
* `KeysAreTheRightOnes` (`AttendsToTheRightKeys`), from `CallsAssumption`. The
  loop that collects blocks keeps each once, in order of appearance
  (`FirstOfGathered`); a sorted selection is found by the rank of each element
  (`SortedIsRanked`); the padded last block loses just its padding, so the keys
  of a sparse query are the tokens of its blocks, each once (`KeysRight`).
* `ReadsAreExact` (`ReadsExact`), from `CodecAssumption`. What a read cuts out
  of joined parts at their offsets are the parts (`PartCutOut`); blocks but the
  last have one size, so the offsets are multiples (`EvenOffsets`), and an
  element has its word and its group by division (`ElementAt`). `CodecInv` says
  of the stored tensor that every block is laid out so, and of a read that each
  of its elements is the code, scale and sign of its `Home`. A sketch treats the
  buffer of several blocks as one tensor, which is right where blocks fill
  their words and groups (`BuffersFill`); `ReadsExact` excepts the rest.

**Experimental runtime** (`RuntimeProofs`, from `QuantRuntimeAssumption`).

* `AnswersAreOwn` (`NoForeignAnswer`), for any layers and patterns, colons in
  them included. The invariant `AnswerInv` adds that an entry of the prepared
  cache lies under its own key; the lemma `KeyAndPatternDecide` is the reason the
  check of the pattern is enough: two requests with one key and one pattern have
  one layer.
* `DefaultNeverLowers` (`NeverLowersByDefault`), for any metrics: no audit has
  more than 10 in hand (`MarginBounded`), so no window does, and a window must
  show more than that before a width is lowered.

**Tenants and models** (`ModelIsolationProofs`, from `TenantAssumption`), for
any tenants, models, sizes, quotas, calls and any finite set of threads.

* `UsageIsExact` (`UsageExact`). The invariant is `Inv`, of types and of the two
  locks (a call at a place under a lock holds it, nobody else does, and the
  allocations change under it only), with `UsageExact`: the usage of a tenant
  is the sum over `Held`, which counts, between the two writes of a call - the
  usage and the dictionary - what is granted and not yet in the dictionary and
  leaves out what is released and still in it.
* `Refinement` (`ImplementsLedger`): every step is a step of `TenantLedger` or
  leaves it alone. A grant must have a fresh identifier, which needs `Counted`:
  the identifiers given and the calls that may still ask for one do not exceed
  the calls made.
* `DictionariesAgree` (`OneModelTwoDictionaries`), by `Dictionaries` and
  `MemoryInv`. In a model no two calls met in, whoever changes it is alone, and
  its registration and its statistics agree but between the two writes of that
  call. What it holds is counted, on its way into the statistics, or older than
  they are (`AllCounted`); for that, a call between reading and raising the
  memory usage has read all that is counted, because no other is there at the
  time, and an identifier that is inserted is new to all of them.

**Disk persistence** (`ArtifactProofs`, from `DiskAssumption`), for any
number of threads, keys, calls and crashes.

* `AckedStaysDurable` (`AckedIsDurable`). `DiskInv` adds how far a call that is
  alone with its key has come (`Progress`: which of its two files are whole or
  open for it), that two calls both alone never have one key, and that while a
  version is acknowledged every call for its key has not touched the files yet.
* `PersistIsLogged` (`InFlightLogged`). `LogInv` speaks of the log only while a
  call nothing overlapped runs: its entry is there, and whoever could remove it
  would overlap.
* `QuotaEndsUnreadable` (`QuotaLeavesUnreadable`). `QuotaInv` adds that such an
  enforcement has every entry it could still use in the list of those to visit;
  the ones it visited are gone or were noted when their unlink raised, so an
  exhausted list leaves only the others.

**Patch manager** (`AgentProofs`, from `PatchAssumption`), for any files,
changes, plans and faults, paths named several times included.

* `FailureLeavesNoTrace` (`FailureRestoresAll`). `PatchInv` says where a call
  may have left its marks: while it applies, only files of the plan differ from
  the snapshot; while it restores, only files still to be restored do.
* `EditsAreKept` (`RollbackKeepsEdits`). Undoing asks the file for what the
  change wrote, but for a deletion without content; `UndoInv` says why there is
  none: it would undo an addition without content, which cannot have been
  applied.
* `TrueRollbackReadsAsBefore`: after a rollback that returned True each file of
  the patch reads as it did before the patch, or is gone if there was none, for
  any `AsRead`. `TraceInv` keeps what a patch did: `FileAt` is a file after the
  first n changes, the result of the last of them that names it or what it was
  before, and every change found what it asks for in the file of its moment
  (`Ran`). A rollback that was never refused has undone the changes from the
  last, so each file holds the origin of the first undone change that names it
  (`UndoneFrom`); with all undone, that is what the patch found (`Ran` again).
  What a change found only reads as the text it gives.
* `TrueRollbackIsRollback` (`TrueMeansRolledBack`) and
  `UntouchedPatchRollsBack` (`UntouchedRollsBack`) follow under `PlainText`:
  files hold the text they are read as, that is, their line ends are LF. With
  CRLF both are false of the code (see above), and the run is of such files.

**Agent** (`AgentProofs`, from `OrchestratorAssumption`).

* `AckedTasksSurvive` (`AckedSurvives`), with `StoreInv`: the file holds the
  tasks the last call returned with, unless a save was cut short or is about to
  dump.
* `TasksAreInOneTree` (`EveryTaskInOneTree`), for any number of tasks.
  `ForestInv`: the tasks in memory, and those a load would find, are a `Forest`.
  A sub-task has one place under one parent, a known task beside its known
  parent is under it, and a task is deeper than its parent, which is what makes
  the recursion of `TaskTree` defined: its iterates stand still after as many
  turns as there are depths (`TreesExist`). Two trees that share a task are one
  inside the other (`SharedMeansNested`), which sub-tasks of one parent, and two
  tops, are not; so no task is in a tree twice or in two trees, and going up
  from a known task ends at a top whose tree holds it (`TopsCover`). The
  invariant is kept because an id is used once: a new task is a leaf
  (`LeafAdded`), and an unknown parent never becomes known later. TLC checked
  `ForestInv` on `AgentTasksAndCommands` before it was proved.
* `OutputsAreEarned` (`SuccessIsEarned`), with `PipeInv`: a verdict that says
  success is of a task that had earned it when it was judged, and an output is
  of its verdict and of the task as it was then finalised.
* `HopelessPlansAreCaught` (`CriticCatchesHopeless`), with `ReviewInv`: the
  findings of a review are those of its plan. It is about the change types the
  patch manager knows; of another the critic says nothing.
* `TimeoutKills` (`TimeoutLeavesNoGroup`), with `ToolInv`: where a command is
  in its waits decides which of its processes can still live, and whether the
  pipes were read to their end.

**Release scripts** (`ArtifactProofs`, from `PromotionAssumption`,
`SummaryAssumption` and `RegressionAssumption`), for any configs, contexts,
times, scenarios, metrics, rules and integers measured. A label and a
recommendation are the answer of the first rule of a list that applies;
`FirstApplies` says that every rule before it does not, so that an answer only
the last rule gives refutes all the other conditions.

* `CandidatesPassedEveryGate` (`EveryGateWasOpen`). Labels read rows that may be
  older than the measurements; `RowsKeep` says of each row what was true of the
  measurements it was made of.
  That a "free" gate is open means that of the free-running rows no more
  matched nothing than matched everything, which is an average of one half
  (`FreePasses`).
* `RefusalsAreDisagreements` (`RefusalIsDisagreement`): `MarkSays` and
  `StableSays` give, for every label, what it says of the measurements.
* `FreshSummaryIsConsistent` (`SummaryAgrees`), `RunsStayNearTheBaseline`
  (`LossesDoNotAddUp`).

What the assumptions on constants ask. Most are types and values that are their
own (`None` is no task, no content). `TenantAssumption` asks for finitely many
threads: otherwise an unbounded number of calls could be waiting for an
identifier. `PromotionAssumption` asks that the contexts are counted from 1
without a gap, as the list of context lengths is. `RegressionAssumption` gives
a rule one of the three kinds there are. `LanesAssumption` makes the width of a
block a power of two, 64 in the code, by asking that it has no odd divisor but
one; `BlocksAssumption` takes integers where the code has floats.
`CallsAssumption` and `CodecAssumption` ask that sizes, shapes and ratios are
positive and counts natural, as those of tensors and configurations are.

Only model-checked. Liveness under fairness is out of the prover's reach:
`EventuallySettled`, `StopEnds`, `CallsReturn`, `DriftRaisesBits`. Every
invariant and every action property of the passing runs, and both refinements,
are theorems.

## 5. Not modelled

* Floating-point code (quantisation, kernels other than the transform,
  attention arithmetic): where control depends on it, its result is a choice of
  outcomes. This is also why `quantization/` is left out but for what
  `QuantRuntime` needs of its managers.
* Parsing, formatting, logging, plots, DDL and queries of the client, and
  scripts that run commands one after the other and keep no state in between.
* `adaptive_batch.py`, `model_cache_policy.py`, `metrics.py`, `profiler.py` and
  `health.py`: heuristics and counters nothing in the runtime acts on.
* `kernels.py` is shadowed by the package `kernels/` and never imported;
  `quantization/block_unpack.py` is used by tests only.
* The content of cached tensors between calls, so that the reuse of an entry
  for other keys and values of the same shape (`runtime/engine.py:225`) is
  listed as a hazard and not checked; `load()` of the disk persistence, which
  may return data of another version. Several processes sharing the flush file
  of the client.

Every component is listed with its status and the reason in `PROJECT.json`.

## 6. What is left

The telemetry pipeline, the cache and the decode step, persistence, tenants and
models, the agent, the experimental runtime, the algorithms and the release
scripts are modelled, and every invariant and action property of the runs is
proved. What a next step would take up, in this order: the content of cached
entries, for the reuse of an entry at `runtime/engine.py:225`; `load()` of the
disk persistence beside a persist of the same key; more tenants' policies than
any choice of candidates.
