# IPA: inference pipeline adaptation — models and proofs

This directory is a TLA+ development about the program in `src/`: IPA, a system
that adapts multi-stage machine-learning inference pipelines to their load. IPA is two
programs in one repository: a fork of MLServer (`MLServer/mlserver`), the asyncio
inference server that every stage of a pipeline runs, and the adaptation loop
(`optimizer/`, driven from `experiments/`) that watches the load of a pipeline and
rewrites the Kubernetes objects of its stages.

The modules are translated from the code; TLC checks them on small instances and TLAPS
proves the central invariants for all instances. Sections 1 and 2 say what there is and what is
planned, 3 how the modules correspond to the code, 4 what the runs show, 5 what is proved, 6 what
is left out.

## 1. Inventory

| part | code | state it keeps | operations | hard because |
|---|---|---|---|---|
| Adaptive batcher | `MLServer/mlserver/batching/adaptive.py`, `hooks.py` | bounded request queue, futures by internal id, the batching task, prediction tasks | `predict`, the `_batcher` task, done-callbacks | coroutines, cancellation, a timer, failures at any await |
| Batch merge and split | `batching/requests.py`, `shape.py` | id mapping, minibatch sizes | merge, split | index arithmetic over requests that differ |
| Parallel inference | `parallel/dispatcher.py`, `worker.py`, `pool.py` | two queues per worker, one response queue, futures | dispatch, update, close | processes, late and lost answers, shutdown |
| Inference pool registry | `parallel/registry.py` | pools by environment hash | load, reload, unload, close | check-then-await-then-write |
| Model registry | `registry.py`, `handlers/model_repository.py` | versions, default | load, reload, unload | hooks awaited between reads and writes |
| Server, transports | `server.py`, `rest/`, `grpc/`, `kafka/` | tasks of the servers | start, stop, signals | order of start and stop |
| Batch command line | `batch_processing.py` | two bounded queues | produce, consume, finalize | partial failure, termination |
| Adapter | `optimizer/adapter.py` | the loop's locals, the step report | an adaptation step, one thread per node | optimistic concurrency, retries, deletion of the pipeline |
| Optimizer | `optimizer/optimizer.py`, `models.py`, `sim_adapter.py` | one pipeline object, read for the problem and overwritten with the answers | base allocation, solve, write, choose, save | what is read is what was written a step before; walks over indices; an integer program |
| Pipeline containers | `pipelines/router`, `pipelines/queue`, `pipelines/mlserver-centralized` | batches in flight; what travels with a request | route a request through the stages, add its times, drop late ones | metadata that is encoded differently at every batch size; a limit looked at in three places |
| Load tester | `load_tester/barazmoon` | responses, counters | generate load | time |
| Experiments | `experiments/` | files, `kubectl` | set up, run, remove a pipeline | it is the environment of the adapter |

How they interact: the load tester calls the *router* of a pipeline, the router calls the
*queue* of each stage and the queue calls the stage. All of them are MLServer models. In an
MLServer process a request goes through the data plane to the *model registry*, from there to
the model's `predict`, which *adaptive batching* wraps (so that the request joins a batch) and
which *parallel inference* replaces (so that the batch is sent to a worker process). The
*adapter* is a process of its own. It reads the load from Prometheus, asks the *optimizer* for
configurations and replaces the SeldonDeployment objects of stages and queues, which makes
Kubernetes restart their containers with other variants and batch sizes. The *experiment runner*
starts the adapter and the load tester and deletes the pipeline under the adapter's feet.

What makes each part correct:

- **Adaptive batcher**: every request is answered exactly once with its own outcome; a queued
  request always has a task that will take it; order is kept; nobody waits for room that is
  there; failures reach everyone they concern; a batch stays open for `max_batch_time`.
- **Merge and split**: splitting the response of a merged request gives every request what it
  would have got alone.
- **Parallel inference**: every dispatched message is answered or failed; the response loop
  survives every response; the workers have the model that the main registry serves, and none that it gave up;
  closing a pool leaves nobody waiting.
- **Registries**: what is registered is what was loaded last and has not been unloaded; one
  pool per environment; a failed load leaves what was there before.
- **Adapter**: what is reported as applied runs, what is reported as not applied does not; the
  running pipeline is changed as little as possible; the loop ends with the pipeline.
- **Batch command line**: one output line per input line, with its own answer; the command ends.
- **Pipeline**: a request is answered in time or dropped, and its times stay with it.
- **Optimizer**: what it answers carries the load and meets the SLA; the base allocations are the
  smallest that serve; no adaptation step is disturbed by what earlier ones left in the pipeline.

`PROJECT.json` lists the hazards line by line, with the properties that are about each.

## 2. Plan

In the order of what matters most to the system:

1. `BatchedInference`, `AdaptiveBatcher` and its proofs, `BatchWindow` — *done*.
2. `Adapter` and its proofs — *done*.
3. `ModelRegistry` and the proofs of its five invariants — *done*. Left: requests on one version at once.
4. `Parallel` and its proofs, for a pool at work — *done*. Left: the sentinels that end the queues, and a worker
   that dies.
5. `PoolRegistry`, which creates and closes pools, and the proofs of its three invariants — *done*.
6. `BatchedRequests`, merge and split as operators; `BatchFiles`, which uses them, and the proofs of its four invariants — *done*.
7. `Pipeline`, router, queues and nodes, and the proofs about its drop limit and its times — *done*. Left: the nodes of the
   video pipeline, which can end a request early, and batches that the adaptive batcher cuts (here a batch is any prefix of
   what waits).
8. `TaskProfiles` and `Optimizer`, and the proofs of the four invariants of its run — *done*. Left: profiles from regression, and the
   other accuracy methods.
9. A proof that `AdaptiveBatcher` refines `BatchedInference` — *done* for the safety part; TLC checks it with the liveness part.

Which module uses which: `AdaptiveBatcher` instantiates `BatchedInference` for the refinement, `BatchFiles` extends
`BatchedRequests`, `Optimizer` extends `TaskProfiles`. `AdaptiveBatcher_proofs` instantiates `BatchWindow` for its theorem. Modules named `...MC` hold the
instances for TLC, modules named `..._proofs` the theorems.

## 3. What is modelled

### AdaptiveBatcher

`AdaptiveBatcher.tla` models one `AdaptiveBatcher` object. A step is what a coroutine, a task
or a done-callback does between two suspension points; the run of the batching task is cut at its
loop iterations, and while it runs (`batchingTask = "running"`) nothing else moves.

| TLA+ | code |
|---|---|
| `pc[r]` | where the `predict()` coroutine of `r` is: waiting for room, woken, awaiting its future |
| `future[r]` | the future of `_async_responses[r]`, and its outcome when it is gone |
| `asyncResponses` | the keys of `_async_responses` in insertion order |
| `requests`, `putters` | `_requests` (`asyncio.Queue`) and its waiting putters |
| `batchingTask`, `failed` | `_batching_task`; its done-callback is due after an exception |
| `toBatch`, `inflight` | `to_batch` of `_batch_requests`; the batches of running prediction tasks |
| `leftOut` | history variable: the requests for which the answer to their batch had nothing |
| `faults` | what may go wrong in this behaviour: `"cancel"`, `"merge"`, `"predict"`, `"omit"` |

`Predict`, `WaitForRoom`, `ResumePut`, `WaitResponse` and `Cancel` are the client's side;
`RunBatcher`, `GetRequest` (in `TakeQueued`, `TakeAwaited`), `AwaitRequest`, `CloseBatch`,
`DispatchBatch`, `Timeout`, `MergeFails` and `FinishBatcher` the batching task;
`PredictSucceeds`, `PredictFails` and `BatchingTaskCallback` the callbacks. Details that matter:

- A loop that settles futures (`SettledBy`) stops at the first one that is gone or done, as the
  exception leaves it there.
- What a prediction settles are the keys of `split_response` (`Responses`), in the order of the heads: a request
  without inputs has no entry, and an answer without outputs has none for anybody (`"omit"`). Nothing raises then, and the
  future stays pending (`PredictSucceeds`). An exception of the model is for every request of the batch (`PredictFails`).
- Done-callbacks run before the first step of a task that is created later (the event loop is
  FIFO), so the callback of a failed task precedes the task that replaces it.
- `asyncio.Queue` wakes one putter per `get`, and a newcomer may take the place of a woken putter,
  which then waits again at the end of the line; a putter that is cancelled after its wakeup
  passes the wakeup on.
- The timer may expire whenever the batcher waits for a request, also when a request is there by
  then: the request stays in the queue.

`BatchedInference.tla` is the abstract service: a request is accepted, joins a batch of at most
`MaxBatchSize`, and the members of a batch get what they get in one step. An answer may leave some of them with nothing (`"unanswered"`) only
under `"omit"`, and an exception is for all or none of them unless clients leave or merging fails (`SharedFate`). A client may leave at any time, and what cannot
be merged takes others with it (`FailAll`). `ImplementsService` is the refinement under all faults, with the mapping in `AdaptiveBatcher.tla`;
that every accepted request is settled or left out in the end is part of it where clients stay and batches merge.

`BatchWindow.tla` models the arithmetic of the timeout for the same loop with an integer clock.
Requests are counted only, and the event loop is prompt (the clock stands still while something is
ready), so that it is the code's arithmetic that decides when a batch closes.

### ModelRegistry

`ModelRegistry.tla` models the registry of one model name: a `SingleModelRegistry`, its entry in
`MultiModelRegistry`, the repository handlers and the reads of the data plane.

| TLA+ | code |
|---|---|
| `known` | the name is in `_models` |
| `versions`, `default` | `_versions` and `_default`; a model is its version and an identity |
| `ready` | the models whose `ready` flag is set |
| `client[c]` | the request of `c`: which await it is at, the versions it has still to load, its `new_model` or `model`, its `old_model`, the models it has still to unload |
| `promised` | history variable: what was loaded last for each version and not unloaded since; none if its `load()` returned `False` |
| `refused` | history variable: the model of each version whose `load()` returned `False` last |
| `use` | one way of using the registry, fixed in the initial state: one request after the other or several, hooks that return the model they are given or another one, what may fail |

A load that finds no previous model registers, awaits the load hooks, registers what they returned and
awaits the model's own load (`Load`, `HooksReturn`, `LoadReturns`); one that finds one awaits hooks and load
and registers then (`ReloadReturns`). Both store what `load()` returns in `ready`, `False` included (`"notReady"`, `Returns`): a load then leaves
a registered model that serves nothing, and a reload puts one in the place of the old model. The code runs without an await from the end of one load to the start
of the next one in the same request: while a client is at `"next"` or `"stale"`, nothing else moves.
`default` is worked out lazily, as in the code, so that merely asking for a model changes the state
(`InferDefault`). Versions are numbers here; `_is_newer` compares other strings in a way that is not an order.

### Parallel

`Parallel.tla` models an inference pool at work: the main process with its `Dispatcher`, the worker processes, and
the queues between them, for one version of one model. The registry of the main process is the caller of the
updates and appears as what it does with their outcome.

| TLA+ | code |
|---|---|
| `future`, `registered` | the futures of requests, and the keys of `_async_responses` among them |
| `turn` | what `_workers_round_robin` gives next |
| `kind`, `answer`, `updating` | the updates dispatched so far, the outcome of each at each worker, and whether `dispatch_update` is awaited |
| `served`, `failedLoad` | the model in the main registry; whether the unload of a failed first load is due |
| `requests`, `updates` | the two queues of each worker |
| `active[w]` | the tasks in progress in worker `w` |
| `model[w]`, `entry[w]` | the model and the `SingleModelRegistry` object in the registry of the worker |
| `responses`, `loop` | the queue of responses and the task that reads it |
| `steady` | history variable: the requests that were sent while the model was served, with no unload since |

A worker reads its two queues in any order (`multiprocessing.Queue` hands messages over in a thread of its
own), starts a task for each message and puts an answer when the task ends. The answer to a request whose client
has been cancelled and is gone raises in the response loop (`ProcessResponse`), which the callback of its task starts
again (`RestartLoop`). An update that fails in one worker is over for the main process although others still work
on it (`UpdateRaises`), and what follows is queued behind it there. Requests are sent through the `ParallelModel` of a
load that returned, which a client may still hold after the unload (`ModelIsHeld`). What a prediction returns
or raises makes no difference here; that the model is not found does.

### PoolRegistry

`PoolRegistry.tla` models `InferencePoolRegistry` as the hooks of the model registry call it, with one pool per hash of
an environment tarball and the default pool of models that name none. Every await is a step: the extraction of a
tarball, the wait for the workers' answers, the wait for a pool to close. What happens between two awaits is one action.

| TLA+ | code |
|---|---|
| `pools` | `_pools`; an environment without a pool has `NoPool` |
| `pool[p]` | a pool, also one nobody refers to any more: whether it is up, stopping or stopped, its `_model_count` (which can be negative), the models its workers have, whether its environment was complete |
| `folder` | the folder of each environment on disk: absent, partial or whole |
| `task[m]` | the operation on model `m` and the await it is at, the pool it found, the pool it is leaving |
| `home`, `hash` | the pool the registered `ParallelModel` sends requests to, and `__env_hash__` |
| `closers` | the `_close_pool` coroutines under way |
| `disturbed`, `raced`, `spoiled`, `kept` | history variables: the models, environments and pools that met one of the races described in section 4 |

The properties claim what holds outside these races, and the history variables say exactly which races they are: a
model loaded next to an unload in its environment, a pool created or closed twice at once, a tarball that could not be
extracted, and a pool in which something was loaded again or failed. `PoolRegistry_proofs` has the theorems.

### BatchedRequests and BatchFiles

`BatchedRequests.tla` has no state: `MergeRequests` and `SplitResponse` are operators on sequences of requests, with
rows of several numbers, several input heads, and parameters that may be missing (`MergeInputParameters`,
`MinibatchSizes`, `SplitData`, `SplitParameters`). What is picked from a sequence is picked by its places (`At`): the keys of an
ordered dict (`Keys`), who has a head (`Having`), and the last of the inputs of a request with the same name (`InputOf`), which is the one
that `inputs_index` keeps. A merged input has the shape and datatype of its first part, the data of all parts, and the types of all (`MergeRequestInputs`), which
decides whether it can be converted. `BatchFiles.tla` is `mlserver infer`, which works with them.

| TLA+ | code |
|---|---|
| `setup` | the command line: the file, batch size, workers, retries, and what may fail |
| `main`, `next` | what `process_batch` awaits, and the lines the producer has read |
| `queueIn`, `queueOut` | the two bounded `asyncio.Queue`s, with their unfinished tasks |
| `worker[w]` | a consumer: its batch, the attempts made, the items it has still to put |
| `finalizer`, `written` | the finalizer with its file, and the lines it wrote |

An input of a line has a number of rows (`size`), numbers per row (`elem`), the number of its data (`length`), which need not agree with them, and a
`type`, which stands for its datatype, the kind of its data and a shape without rows. The constant `Convertible` says which types numpy and the client library can merge and
convert. `Preprocessed` are the batches for which `preprocess_items` does not raise: no line is garbled, and every merged input `Converts`.
`Get` prepares a batch (and `Vanish` is what happens to one that raises), `InferFails` and `InferReturns` are the
answers of the server, `PostprocessRaises` a response that cannot be split, `Put` hands items to the finalizer, which
opens the file and writes (`Open`, `Write`). The server answers with what it is given (`Infer`), so that an
answer shows which rows it was computed from.

### Pipeline

`Pipeline.tla` models a request's way through router, queues and nodes with central queues, over an integer clock.

| TLA+ | code |
|---|---|
| `at[r]`, `stage[r]` | where the request is, and the stage it was sent to last |
| `arrival[r]`, `times[r]` | `pipeline_arrival` and `times`, which travel in the parameters of the request |
| `waiting[s]` | the requests in the batcher of the queue of stage `s` |
| `batches` | the calls of `Queue.predict` under way, each with the ids of its requests and the times in its parameters |
| `passage`, `mates` | history variables: when each unit really had the request, and with whom it shared a batch |
| `now` | `time.time()` |

The times are Python values: text, lists and dicts, and `eval` of anything but text raises (`Str`, `List`, `Dict`,
`Eval`, `Update`). A text is not spelt out; it is the value that its evaluation gives. Each hop takes them apart
and puts them together as the code does, which differs for a batch of one and of several, for queues that batch and
queues that do not, and for the first stage and later ones (`Merged`, `Wrapped`, `Previous`, `NodeTimes`, `Received`,
`Served`, `QueueTimes`).

### TaskProfiles and Optimizer

`TaskProfiles.tla` has the arithmetic of `Task`: the SLA of a stage, whether an allocation sustains the threshold, and the
walk over the allocations that gives each variant its base allocation (`FirstIndicator`, `NextIndicator`,
`Indicators`). `Optimizer.tla` is the optimizer within the simulated adaptation loop.

| TLA+ | code |
|---|---|
| `setup` | the tasks and their profiles, the knobs at the start, `baseline_mode`, `num_state_limit`, the number of steps |
| `tasks` | `pipeline.inference_graph`: variant, cpus, replicas and batch size of each task, which is read and overwritten |
| `params` | the coefficients of the integer program: latencies and throughputs per variant and batch size, base allocations |
| `answers`, `next` | the solver's pool of solutions, and the one that is written next |
| `configs`, `old` | `new_configs` and `old_config` (with whether its batch sizes are still text) |
| `report` | what `saving_config_builder` saves |

`Start` predicts the load and reads the coefficients off the pipeline, `Solve` picks any of the optimal solutions as
Gurobi may (`Solutions`, `Objective`, `Answers`; at most `num_state_limit` of them, in any order), `WriteAnswer` writes one to
the pipeline and reads the configuration back, `Choose` compares the candidates with the old
configuration and saves one. Gurobi is taken to be exact. Latencies are integers and are multiplied by the load before they are
compared, so that nothing is rounded.

### Adapter

`Adapter.tla` models `start_adaptation` from startup to its end with one thread per node, and the
cluster around it.

| TLA+ | code |
|---|---|
| `pc` | where the main thread is in the loop |
| `candidates`, `toApply`, `results` | `new_configs`, `to_apply_config`, `config_change_results` (`Unbound` before its first assignment) |
| `report` | configuration and flags of the last `adaptation_step_report` |
| `worker[n]` | the thread of node `n` in `change_node_config`: place, attempt, result, and which of its bodies still have the current `resourceVersion` (`fresh`) |
| `deployment[n]`, `queue[n]` | the SeldonDeployment of the node, and the batch size in the one of its queue |
| `gone`, `routerUp` | objects that were deleted; whether the router still has pods |
| `before` | history variable: the pipeline as this step read it |

Each API call is a step. A replace is refused when its body is stale: the operator wrote the object
after we read it, or we wrote it ourselves (a replace that changes nothing leaves the version
alone). Replicas and cpu, which are always handled together, are one field (`size`). The optimizer
may answer with any of the candidate lists of the instance, or with none.

## 4. What is checked

| run | question | instance | result |
|---|---|---|---|
| `batcher_service` | wakeups and order; clients that wait get in and a queued request has a task, although others cancel; no request is dropped unanswered; the abstract service is implemented | up to 5 requests on batches of 2; cancellation, merge failures, predict failures, answers with gaps; 167 000 states | holds |
| `batcher_peers` | staying clients are answered | cancellation | **violated** |
| `window_short` | every batch gets the window | batches of 4, window 4, clock to 10 | **violated** |
| `adapter_faults` | reports are true under all faults; as a whole and without exceptions where nothing interferes; a change and the loop end | 2 nodes, 2 steps; no faults, conflicts only, all faults | holds |
| `adapter_torn` | a failed change leaves the node alone | operator writes | **violated** |
| `registry_ops` | what is served is what was loaded last; failures leave nothing behind; the repository is mirrored | 2 clients, versions 1 and 2 and the unversioned model; hooks and loads that fail, loads that return `False`; 2.5 million states | holds |
| `parallel_faults` | no answer is lost, updates end, workers agree with the main registry | 2 workers, 2 requests, 3 updates; cancelled clients, loads that fail | holds |
| `pools_ops` | models stay where they are served from; environments are whole; unused pools are closed | 3 models, 1 environment and the default pool, 4 operations; 3.4 million states | holds |
| `batch_lines` | every line once, with its own answer; no line vanishes but for the reasons named; the command ends | all files of 3 lines of 14 kinds in batches of 2 and 3, longer files that fill both queues, files without retries; 945 000 states | holds |
| `pipeline_times` | times survive every hop and are a request's own as far as it travels alone; the limit decides who is dropped | 3 requests, 2 stages, batches of 1 and 2, limit 2; 2.8 million states | holds |
| `optimizer_steps` | base allocations; load carried; steps independent; numbers of the saved configuration | 825 pipelines of one or two stages, two steps, loads 0, 3 and 40; 64 000 states | holds |
| `optimizer_sla` | answers meet the SLA | 1 stage, 2 batch sizes up to 16 | **violated** |

The violated ones are statements of the repository's docs, comments, messages or tests that the code
does not keep. Each is a finding in `PROJECT.json`:

1. One cancelled client strands the rest of its batch (`batcher_peers`).
2. The time since the batch was opened is deducted again at each request, so three requests are enough
   to close a batch early (`window_short`).
3. A conflict on the queue's object leaves the node changed, the queue unchanged, and the
   result `False`: the retries repeat a body whose version the first write used up (`adapter_torn`).
4. The queueing latency of the integer program is computed from the binary variable that says whether a batch size is
   chosen, and not from the batch size. It is negative, and answers pass whose latency is more than twice the SLA
   (`optimizer_sla`).

### Effects that no run reports

The properties are claimed where they hold; this is what happens where they are not claimed.

*Batcher and adapter.* `_predict_callback` answers the keys of `split_response` (`adaptive.py:117`). A request without inputs, or every request of a batch
when the answer has no outputs, is not among them, and its client waits for ever although nothing failed (`leftOut`;
`NoStrandedRequest` and `ImplementsService` say that this happens to nobody else where clients stay and batches merge). When the batching task has died
and a client leaves before its done-callback runs, `_clear_queue` raises at that client's future, which is done and still registered: the later
ones stay pending, and the queue is not emptied, so what is in it waits without a task. `DroppedMeansAnswered` says that nothing is dropped
from it unanswered, not that everybody is told. Without central
queues the batch size is always written as 1 (`SuccessMeansApplied` is claimed with central queues). A pipeline that disappears
between the check that it is up and the reads ends the loop with an exception, before the report is written (`OrderlyEnd` is
claimed without deletions).

*Registry.* A reload whose `load()` returns `False` puts a model that is not ready over one that was serving, against the comment at
`registry.py:180` that at least one is available; the data plane answers `ModelNotReady` from then on (`KeepsItsWord` promises nothing for the version then,
and `NotReadyMeansLoading` says that there is no other way to a model that is not ready and not being loaded). Load versions 2 and 3, unload 3, load 1: now 1 is the default, although 2 is there. The default was cleared when 3
went, and the next model that is registered takes its place whatever its version. A load hook that fails after an earlier one has
returned another object for the model leaves the first object behind as a default that is never ready (`"laterHook"` with `wraps`).

*Workers.* A reload that fails in one worker and succeeds in another leaves different models in them, for good: nothing
takes the successful ones back, and requests get one or the other in turn (`ServedEverywhere` claims that every worker has *a*
model, not the same one).

*Pools.* These are the races that `raced`, `disturbed`, `spoiled` and `kept` record, and for which the three invariants claim nothing. Two loads of one environment at once create two pools, of which the first is never closed; the second may also start its
workers on a half-extracted environment. A reload into the same pool counts its model twice, so that the pool is never closed. A
load into a pool that is closing succeeds and leaves a model without workers. The second of two closers deletes the entry of
whatever pool is registered by then, which may be a new one. An extraction that fails leaves its folder, which is then used as the
environment. A reload that changes the environment unloads the old model before the new one is registered, so if that raises,
what stays registered is served by nobody. A load that fails may leave the pool it created without a model. Unloads after the server has closed make `_model_count` negative.

*Batch command line.* A line that is not JSON takes its whole batch with it, the invalid lines already reported included. So does one whose data do not fit the merged shape or
datatype: the conversion of the merged request raises (`batch_processing.py:218`). If two lines have too much and too little data so that the sum fits, it does not raise, and each gets rows of the
other (`Uniform` excludes it). Of lines with the same id in a batch the earlier ones
disappear. A line without inputs gets no answer. With no retries nothing is sent, and a batch that has a request vanishes with its
invalid lines (`Reported` names these cases). Of two inputs with the same name in a request the last one is sent. A response that cannot be split raises
`UnboundLocalError`, and its batch is lost. A finalizer that cannot open its file leaves everybody else waiting (`Ends` allows
for that). Requests with different input heads, or whose heads have different numbers of rows, get each other's rows
(`Uniform`). Parameters are sliced out of merged lists and go to the wrong request if one is missing, a request
has several rows, or there is only one request, whose text is then taken apart by characters.

*Pipeline.* All requests of a batch carry on with the earlier times of the last one (`OwnTimes` claims what survives of a
request's own). A young request is dropped along with an old batch mate (`DroppedWithLate`). `LAST_NODE` is `bool` of an
environment variable's text, which is true for "False" too; the times do not depend on it.

*Optimizer.* The walk over allocations compares its index with the wrong length, so running past the end raises a `KeyError` rather
than the `ValueError` that is meant (either way there is no allocation). A base allocation may be one step above the first that
serves, if that serves more. From the second step on, every candidate's batch sizes count as changed, because numbers are compared
with text (`sim_adapter.py:214`; `Score`). After a step without a solution the first candidate is taken. With several solutions in
the pool the numbers saved are those of the last one, whichever is chosen (`NumbersOfConfig` is claimed for one).

**Bounds.** With batches of 2 and 4 or 5 requests there is a full queue, a waiting and a woken
putter, a batch in flight and a second batch, which are all the situations the code tells apart. The fifth request joins where clients
stay and only predictions fail, and behind another putter while a batch is open (`InTurn`); calls are numbered in the order in which they are made.
Every request is sent once, so the starvation of a waiting putter by an endless stream of newcomers is
not explored. A window of 4 ticks has room for interruptions at different times. Two nodes are enough
for two threads to interleave and for a report to be partly true; two steps for a
step that finds what the previous one left. In `registry_ops` two clients are enough for one request to move
between any two awaits of another, and three versions for an unversioned default, a newest and an older one;
three objects of a version are the registered one, a new one and the one a hook puts in its place. Any load or reload may return `False`.
In `parallel_faults` two workers are enough for one to succeed
and one to fail, or to lag behind; three updates for a load, a reload and an unload, or for a failed load, its
unload and another load; two requests for the late answer that crashes the loop and the one behind it. In `pools_ops` one environment
and the default pool are two pools to move between, three models let one stay while another leaves and a third arrives, and four
operations (`MaxOps`) let a pool be created, emptied and created again. In `batch_lines` three lines of every kind are all pairs of neighbours in a
batch and a batch before or after, with data that are too many, too few or of another width, and a datatype that cannot be converted when it comes first; seven lines fill both queues of one worker, which hold two each. In `pipeline_times` two stages have a first and a later
one, three requests a batch and one outside it, and a limit of two within two ticks (`LastTick`) lets requests become late at every hop. In
`optimizer_steps` the one-stage pipelines go through all 729 combinations of how many batch sizes each of three allocations serves for two
variants; the two-stage ones have a combination that was not profiled, both baselines, one and two solutions, a load of zero and
one that nothing carries. Runs that use symmetry check invariants only.

**Fairness.** In `AdaptiveBatcher` the event loop runs what is ready, timers expire and predictions end:
weak fairness of each of them; clients are never obliged to call or to cancel. In `Adapter` the main
thread and the node threads are scheduled by the operating system: weak fairness of each; nothing makes
the cluster act, and a failing API may fail forever. In `Parallel` the event loops of all processes run, and
predictions and loads end, one way or the other: weak fairness of each; nobody is obliged to send anything. In `BatchFiles` the event loop
runs the producer, each consumer and the finalizer, and the server answers or fails: weak fairness of each.
The other modules make safety claims only. `CHECK_DEADLOCK FALSE` is set because all of these
systems legitimately stop: the clients are served, the clock reaches its bound, the loop has ended.

## 5. What is proved

All proofs are checked by TLAPS with no assumptions but those on the constants.

- `AdaptiveBatcher_proofs` begins with what `Append`, `Tail`, `SubSeq` and the removal of an element do to the set of a
  sequence's elements, for every step that moves a request. `TypeCorrect` (no queue or batch exceeds `MaxBatchSize`) is
  inductive once the states in which the batcher holds requests are tied to `toBatch`.
  `QueueServed`: a nonempty queue has a live task unless merging can fail. The invariant has to say in
  addition that a task that is about to end has seen an empty queue. `NothingStranded`: a waiting client's
  request is in the queue, in the batch or with the model, or was left out by the answer to its batch, if clients stay and batches merge. Its
  strengthening relates the registered futures, the places a request can be and the states of the clients.
  The other four hold with all faults. `HeldAtMostOnce`: a client enters the queue once, because what is held stands for
  clients that have entered before (`HeldHaveEntered`) and a wakeup never reaches one of those. `RoomIsTaken`: who was woken and has
  not run yet is counted (`RoomInv`), since each step that frees a slot wakes one more and each step that spends a wakeup fills
  a slot, finds the queue full or passes the wakeup on. `ServedInOrder` and `ClearedMeansAnswered` rest on the registered responses
  as the record of arrivals (`OrderInv`): a client is registered once, while it waits, and no pending future is missing there.
  `ImplementsServiceSteps` is the refinement of `BatchedInference` without its fairness: initial states map to initial states under
  `clientStatus`, and every step is a step of the service or a stutter: an `Accept`, an `Answer`, and with the faults that allow it a `Leave` or a `FailAll`. An answer leaves
  somebody out only under `"omit"`, and fails for a part of the batch only where clients leave or merging fails. What a batch gets it gets in one step because
  its members are held in no other place (`HeldInv`, `OnceInv`) and none of them has an answer (`ServiceInv`); a client that has not
  asked has no future (`NotYetAsked`). That every request is answered in the end stays with TLC.
  Of the clock of the same loop, `BatchWindow`, it has `WindowBounded`: no batch waits beyond `max_batch_time`. What is left of the
  timeout is at most what is left of the window (`WindowInv`), because every deduction is at least the time that passed. The assumption on
  the constants is a hypothesis of the theorem; no run checks this property, which the proof covers for every size.
- `Adapter_proofs`: `AdapterTypeCorrect` and `SuccessApplied`: with central queues, a node reported as
  changed runs its chosen configuration. The invariant follows each thread: a thread that is to replace the
  queue has replaced the node, a success has replaced both, and no thread touches another node. `ReportIsTrue` adds that nothing
  is written between a report and the next choice (`StillRuns`), which is why a step that could not read the pipeline may save the
  flags of the step before. `EndsOrderly` (no thread raises, `MildInv`; stated for a pipeline that has a node) and `MovesAsAWhole` (what a thread has read stays
  valid, `CalmInv`) are about the behaviours with fewer faults. The proof
  that `ChooseIndex` is well defined rests on the well-foundedness of the natural numbers.
- `Parallel_proofs`: `ParallelTypeCorrect`, and `NoAnswerLost`: a request whose client waits is in the queue of a worker, in progress there or
  in an unprocessed answer. The invariant (`RequestsInv`) also says that the futures of such requests are registered and that
  what was not sent is nowhere; the response that crashes the loop is one that nobody waits for.
  About the models, it has `EveryWorkerServes`, `NoModelIsLeftBehind` and `NotFoundOnlyIfUnloaded`. Their invariant (`ModelsInv`) follows how far each worker has
  read the updates (`QueuesInOrder`). While a model is served, every worker holds it and has only loads in front of it (`ServedInv`); a first load that was
  followed by another one succeeded everywhere (`FollowedInv`); a worker answers only what it has read and finished (`AnswersInv`), and does not claim
  the success of a load that left it without a model (`WorkersInv`). The last theorem adds that while such requests exist the model is
  served and none of their answers is "not found" (`SteadyInv`).
- `Pipeline_proofs`: for every number of requests and stages, every limit and batch size. `DropLimitHolds`: that a request the
  router goes on with was in time needs only that the times of a batch are not later than the look at the limit that follows. That
  a dropped one shows a late one among its mates for good needs `PlaceInv`: a request is in at most one place, once, and the
  members of a batch have each other as mates. `TimesReachTheClient` and `TimesAreItsOwn` are `TimesSurvive` and `OwnTimes`. Their invariant
  (`TimesInv`) says what a request carries between two stages (`Carries`): the text of a list with the text of one dict, which has one
  entry of each unit passed, in order (`Complete`), and of each stage those of one request (`Owned`); and what a batch
  carries for its requests before and after the node (`Brought`, `Returned`). That every hop reads what the one before wrote is in the
  lemmas about the times: the node's updates leave what the last request knows, because the requests of a batch know the same units
  (`FoldKeepsLast`, `LaterNodeTimes`), and the queue finds a list exactly where it looks for one (`QueueTimesAre`). A request that was alone
  in its batch is the last of it, so that what it gets of the stages before is its own.
- `Optimizer_proofs`: `StepsIndependent`. The coefficients are read off the pipeline the last answer was written to; but each variant is switched to
  before it is read, and switching sets all by which a profile is looked up (`SwitchForgets`, `ParametersForget`). What a baseline
  fixes is fixed in every answer, since the answers are solved for the pipeline that has it (`AnswersKeepFixed`, `WriteKeeps`).
  `BaseAllocationsFound`: where the walk for a variant ends (`WalkFinds`, from the last allocation backwards) and what the walks before it leave
  (`IndicatorsType`) give the rule for every list of variants and allocations. `AnswersSustainLoad`: what was not profiled serves nothing, so it cannot
  carry a load; with no load it is too slow, unless a pipeline is allowed the 1000 seconds that stand for it (`LatencyBounded`), which is
  why the theorem asks for the one or the other. `NumbersBelong`: the best of finitely many solutions exists (`IntMaxExists`,
  `SolutionsFinite`, `ObjectiveType`), so that there is exactly one answer where one is asked for (`AnswersAre`), and the one candidate is what the pipeline still holds when
  the numbers are read off it. `SumBounds` has what these need of a sum: it is a number, and none of its terms is larger when none is negative. Profiles are assumed to
  be numbers (`Measured`).

- `PoolRegistry_proofs`: `RegistryServes`, `WorkersStartWhole`, `RegistryTracks` and `ReferencesRight`, for every number of models,
  environments and operations; of the constants it is assumed that the faults are those of the model and that `NoEnv` and `"server"`
  name no environment and no model (`PoolAssumption`). The invariant has four layers. `RefInv`: what an operation holds at an
  await (`TaskShape`), what the registry and the models refer to and what is being closed are pools of the right environment, and a number is
  left for the next pool. `WholeInv`: outside the environments whose pools were created twice at once, a partial folder has an
  extraction under way, or one that failed. These two hold in every state. `ServedInv`, until the server stops: a registered pool that is not up is
  being closed by somebody, a load into an environment in which another model is being unloaded or a pool is being closed has been recorded
  as disturbed, and the count of a running pool is never below the number of models its workers hold. `TrackedInv`, also until then: outside
  the raced environments a running pool is the registered one and is closed by one coroutine at most; its workers hold what the registry holds
  there and, unless recorded as kept, nothing else, its count is their number, and somebody uses it (`TrackedPair`, `TrackedPool`). The history
  variables carry the proof as they carry the properties: each names the step after which its claim is given up.

- `ModelRegistry_proofs`: `RegistryKeepsItsWord`, `RegistryHasDefault`, `NothingHalfLoaded`, `UnloadsFindTheirModel` and
  `RepositoryMirrored`, which are the five invariants of the run, for all clients, versions and ways of using the registry in which no
  hook raises after another has returned a new object (`HooksAgree`); section 4 has what happens in those, and the run leaves them out too. All of it is said of the
  model the registry has of each version (`At`): a load, a reload and an unload change it for one version (`RegisterPuts`, `ReloadPuts`, `DropPuts`), and to
  work out the default changes it for none (`SettleKeeps`). The invariant (`Inv`) says that requests under way name different versions and work on their
  own (`Apart`, `ClientInv`), so that no step touches what another request holds (`OtherKeeps`); that what is ready is what was promised
  (`PromiseInv`), and what is not ready was refused or is being loaded (`LoadingInv`); and how far a repository load has come (`RepositoryInv`). That the default is one of the versions rests on the maximum of a
  finite set of numbers (`MaxExists`), by way of a least counterexample.

- `BatchFiles_proofs`: `EveryLineWrittenOnce`, `NothingVanishesEver`, `EveryAnswerOwn` and `EveryParameterOwn`, which are the four invariants of
  the run, and `UniformConverts`, for every set of files, batch sizes, numbers of consumers and retries, and combinations of faults; of the constants it is assumed that the command lines are
  of these types (`SetupsAssumption`); `Convertible` is any set. Neither of the first two is inductive. The invariant (`IInv`) says in addition where the lines are: those of a batch that waits, of one
  that a consumer works on, those of items that wait and those in the output are disjoint (`Separate`), and when responses can be split and written, a line that
  has been read and has to be reported is in one of the four (`Covered`). What is in flight comes from the file as it was read
  (`Origin`), and the items that are put are an `Outcome` of their batch: one for a line at most, and one for each line that is kept. `Counted` and
  `Stages` are there because the end of the command depends on two counters of unfinished tasks: only if they count what is waiting and worked on does an
  awaited queue mean that nothing is left. `Separated` is kept by lemmas about families of sets that speak of no coroutine (`Arrives`, `Taken`, `Dropped`, `Passed`,
  `Stored`), one for each way in which lines move; there is a step lemma for each action. With the quantifier over `Nat` in
  `TypeOK` bounded, TLC finds no state of the run's instance that breaks a part of `IInv`.
  The other three theorems are about the merge and the split. What `At` and `FlattenSeq` make of any sequence is proved first (`AtProperties`, `KeysAre`,
  `FlattenIs`), then that a sum is the last running total (`SumIs`). If the requests of a batch are alike (`Uniform`), all of them have all heads and the
  minibatch sizes are in the order of the requests (`OrderAll`), so that the rows of a request are where the running total of those before it says
  (`SplitOwn`, with `TotalsTimes` for rows of several elements), and so are its parameters (`SplitParametersOwn`). `UniformConverts` says what keeps a batch from vanishing: lines that are all JSON, alike, with data that fit their shapes, and of
  types that can be converted together are preprocessed, because the data of a merged input are as many as its shape says (`MergedFits`).

Induction over data goes by a least counterexample where it was needed: for the folds and sums of `Optimizer_proofs`, `Pipeline_proofs` and `BatchFiles_proofs`,
a recursive function on the subsets of an index set is shown to exist and to be unique (`FoldRecExists`, `FoldRecUnique`) with the well-foundedness of
strict inclusion, and what it computes follows with that of the natural numbers. The recursive functions behind `At` and
`FlattenSeq` are treated likewise (`AtRecExists`, `FlatRecExists`).

Left to TLC: liveness, also that of `BatchedInference` (fairness is out of the prover's reach). Every invariant that a passing run checks is a theorem.

## 6. What is not modelled

*Registry.* Two requests on the *same* version of a model at once: `ModelRegistry` lets concurrent requests work on
different versions only. Nothing in the code orders requests on one version, and its awaits leave room for a
version to be deleted or replaced by the slower of the two; no property of the registry survives that.
The unversioned model, which stands for the default, is likewise used by one request at a time, and a load
that is cancelled (it leaves a model that is never ready) is left out.

*Workers and pools.* A worker that dies, of which the code takes no notice, and the sentinels that end the queues. In `PoolRegistry`
all workers of a pool act as one, at most one operation works on a model at a time, an exception is a step of its own, and what waits for an
answer from a pool that is closed waits forever. A later hook that raises after a reload and models that opt out of parallel
inference are left out.

*Batch files.* What numpy and the client library do to convert data, but for the count of them (the constant `Convertible`). Requested outputs, parameters of whole requests, content types and headers, of which the last request decides; the pause between
batches and its jitter; logging. A batch is read and put as one step.

*Pipeline.* Shapes and types of data, the early exits of the video nodes, cancelled clients, containers that are restarted by an
adaptation, and delays of the network other than those of the clock. A batch is any prefix of what waits, up to the batch size: when a
batch closes is the matter of `AdaptiveBatcher` and `BatchWindow`. Nodes have a batch size of one, as their deployment files say, and get what their queue sends.

*Optimizer.* The brute-force search is not modelled: its states have dicts for objectives, and taking the maximum of two raises a `TypeError`. Profiles from
regression, GPUs, accuracies that are multiplied or averaged, the lookup of solver variables by parts of their names, monitoring and prediction are left out.
Profiles are rectangular (`Rectangular`): the code raises on others before the loop begins.

*Adapter.* Teleport mode (the load is read from a file), the load series, and the
objectives, latencies and accuracies that are saved with a configuration.

The remaining components of `PROJECT.json` have no protocol of their own. The server's life cycle and its transports call the operations modelled here; the load
tester and the experiment runner are clients and environment; codecs, generated types, the command
line, runtimes, notebooks, infrastructure scripts and the stages' models are data conversion, packaging or
calls into libraries.
