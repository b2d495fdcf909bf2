# TLA+ models of the EPI / Recognition platform

The repository is a Python monorepo: a Flask API with Celery workers
(`src/services/api/app`), an agent that runs at the customer's site
(`src/services/edge-sync-agent`), a training script that runs on rented GPUs
(`src/training/vast`), detection services, and a React frontend. This directory
holds TLA+ models of the parts whose correctness depends on what happens
*between* steps — of several processes, of a process and a machine it pays for,
of a box behind a flaky link and the cloud — with the TLC runs that check them
and the TLAPS proofs about them.

`A/` below stands for `src/services/api/app/`.

## 1. The system

### Components, their state and how they interact

| Component | State | Operations | Interacts with |
|---|---|---|---|
| **Training job pipeline** (`A/api/v1/training/job_handlers.py`, `A/infrastructure/queue/tasks/training.py`, `A/infrastructure/database/repositories/training_repository.py`, `A/core/socket_bridge.py`, `src/training/vast/remote_train.py`) | row of `training_jobs` (status, `callback_token`, `gpu_instance_ref`), rows of `trained_models` | create, dispatch (HTTP, Celery fallback), retry, rent, watch, callback, stop, register model | Celery broker, Vast.ai, training-service, Redis |
| **GPU provider client** (`A/infrastructure/gpu`) | contracts at the provider | search, create, status, destroy | Vast.ai over HTTP |
| **Edge buffer and uploader** (`src/services/edge-sync-agent/app`) | SQLite `event_buffer`, `_backoff_idx` | enqueue, dequeue_batch, mark_sent, mark_failed, purge_old; upload loop | cloud ingest over HTTP |
| **Edge ingest** (`A/api/v1/edge_events/routes.py`, `edge_event_repository.py`) | `edge_events` with a unique `dedup_key` | ingest_events | edge uploader |
| **Edge commands and configuration** (`command_poller.py`, `config_poller.py`, `A/api/v1/edge_commands`, `A/api/v1/cameras/config_handler.py`) | `edge_commands`, the cameras' configuration columns, the agent's in-memory list | PATCH, queue, list pending, apply, acknowledge; poll, replace | agent ↔ cloud |
| **Local HLS streams** (`A/api/v1/cameras/local_stream_manager.py`, `stream_handlers.py`) | FFmpeg processes and `_sequences` of each gunicorn worker, Redis lock and `active` key, a directory | start, stop, watchdog, early-exit monitor, serve | Redis, several gunicorn workers, FFmpeg |
| **Quality gate** (`A/api/v1/quality`, `tasks/quality_inference.py`) | `quality_pieces` (status, rework count, export flag) | create, identify, inspect, result, false positive, release; export and its retry | operators' tablets, Wiser ERP, Celery beat |
| **Liveness alerts, worker registry** (`A/domain/services/liveness_service.py`, `A/infrastructure/queue/worker_registry.py`, `A/api/v1/admin/routes.py`) | Redis keys with a TTL, `alerts`, `worker_registry` | heartbeat, gap timer, open and acknowledge an alert, restart command | on-premise worker, operators |
| **Automatic retraining** (`tasks/auto_training.py`) | last completed job, annotated frames, ready dataset versions | periodic check, insert, dispatch | Celery beat, training pipeline |
| **Camera models and inference loop** (`A/api/v1/cameras/model_config_handlers.py`, `model_handlers.py`, `tasks/inference.py`) | `model_deployments`, `cameras.model_*_id`, detector caches | deploy, roll back, assign, notify; resolve, load, subscribe, reload | Redis pub/sub, Celery worker |
| Enrollment and claim codes, model rollout and registry | rows of a few tables | mostly one conditional UPDATE each | edge agents, administrators |
| Everything else (sessions, counting, canonical operations, access control, retention, extraction, inference service, desktop agent, frontend, DeepStream) | – | – | see "Not modelled" |

### What is hard, and what correctness means

*Training job.* Every SQL statement is a transaction of its own. The row is
written by the API's dispatch thread, by up to two concurrent executions of the
task (late acknowledgement, retry, redelivery after the broker's visibility
timeout or a crash), by HTTP callbacks of the rented machine, and by the stop
handler. Machines cost money. Correct means: a stop stays a stop; a machine
that is billed is somebody's; a job does not pay without bound; one job, one
model; the watchdog always ends.

*Edge events.* The agent may die at any point, the request may time out while
the cloud goes on working on it, a batch may be stored in part, and the wall
clock may step back. Correct means: no event is lost, none overtakes an older
one, each gets through unless the cloud refuses one before it, and none is
stored twice.

*Edge commands.* Two channels carry the same configuration, and each may be
older than the other; acknowledgements get lost, commands run again, the agent
forgets everything when it restarts. Correct means: the edge never runs a
configuration that no one ever set, it agrees with the cloud in the end, and no
command stays in the queue.

*Streams.* Requests, a watchdog and one monitor thread per FFmpeg call start()
and stop() of the same manager without a common lock, and several gunicorn
workers share a Redis lock that expires. Correct means: no process is lost
sight of, what nobody watches or what is frozen is stopped, and who keeps
asking gets a picture.

*Gate.* A request reads a piece, decides, and writes without looking again; the
export is tried by two parties. Correct means: no validation is skipped, what
is marked as exported was delivered, every approved piece gets there.

*Heartbeats.* The checks of two heartbeats overlap in different gunicorn
workers and share only Redis keys that expire and tables without unique
constraints. Correct means: an alert neither too early nor never, none left
open after the recovery, no restart nobody ordered.

*Retraining.* The beat and the drift task may run the check at once, and it
counts what others change. Correct means: a message for a job finds its row,
every grown tenant is trained, and one growth is one job.

*Camera models.* A deployment is two transactions and a notice that only those
who are listening hear, while the loop resolves, subscribes, downloads.
Correct means: one active deployment, and the loop runs it in the end.

## 2. Modules

| Module | What it is | for TLC | Theorems |
|---|---|---|---|
| `TrainingJob` | one training job and everything that writes its row | `MCTrainingJob` | `TrainingJob_proofs` |
| `DurableQueue` | abstract: what was accepted is owed until it is delivered | | |
| `EdgeUpload` | buffer, uploader, network and ingest; implements `DurableQueue` | `MCEdgeUpload` | `EdgeUpload_proofs` |
| `ConfigMirror` | abstract: a copy that may be old or forgotten, never invented | | |
| `EdgeCommands` | PATCH, command queue, both pollers; implements `ConfigMirror` | `MCEdgeCommands` | `EdgeCommands_proofs` |
| `LocalStream` | one camera's FFmpeg under every worker's stream manager | `MCLocalStream` | `LocalStream_proofs` |
| `QualityGate` | the life of a piece and its export; implements `DurableQueue` | `MCQualityGate` | `QualityGate_proofs` |
| `WorkerHeartbeat` | the heartbeats of one site, its alerts and its restart command | `MCWorkerHeartbeat` | `WorkerHeartbeat_proofs` |
| `AutoRetrain` | the periodic retraining check | `MCAutoRetrain` | `AutoRetrain_proofs` |
| `CameraModel` | which model a camera's inference runs | `MCCameraModel` | `CameraModel_proofs` |

Definitions that end in what a mistake would do (`UpdateJobUnguarded`,
`DeactivateNewest`, …) and are marked "Mutant:" are wrong variants of the
definition that follows them. No specification uses them: putting one in the
place of the right one must make a property fail, which `PROJECT.json` pairs up.

### TrainingJob and the code

`status`, `token`, `gpuRef` are the columns of the row; a token is the number
of its issue (0 is NULL), so "the same token" is equality. `models` counts rows
of `trained_models` with the job's id. `work[w]` is the execution of
`dispatch_training` in worker `w`: its program point, its retry number, its own
token and instance, its polls. `queue[r]` counts messages on their `r`-th
retry. `inst[i]` is a contract at the provider. `posts[p]` is a request of the
progress callback: `sent`, then `checked` (the token comparison, one SELECT),
then applied (an UPDATE): the window between the two is the code's. `stop` is
the handler between its UPDATE and its teardown, `bridge[b]` the registration
thread in API process `b`.

| Actions | Code |
|---|---|
| `CreatorIssuesToken`, `CreatorPosts`, `CreatorFallsBack` | `_issue_callback_token`, `_dispatch_to_training_service`, `_dispatch_celery_fallback` |
| `Take`, `Announce`, `Route`, `DispatchEdge`, `DispatchHub`, `PollHub`, `Simulate` | `dispatch_training` up to its result, `_dispatch_hub`, `_simulate_training` |
| `IssueToken` … `RevokeToken` | `_run_vast_remote_training`, statement by statement; `WatchStatus`/`WatchInstance` are the two halves of a poll of `_watch_vast_job` |
| `SelectModel`, `InsertModel`, `CompleteJob`, `FailJob`, `Retry`, `Raise` | the rest of `dispatch_training` and its except clauses |
| `Crash`, `Redeliver` | a worker that dies; `task_acks_late` with the broker's visibility timeout (the default hour is shorter than the watchdog's two) |
| `PostCallback`, `CheckToken`, `ApplyCallback`, `LosePost` | `remote_train.py`, `training_progress_callback_handler`, `update_job_status` |
| `StopJob`, `StopRevokes`, `StopDestroys` | `stop_job_handler`, `_teardown_vast_job` |
| `ServicePublishes`, `BridgeSelects`, `BridgeInserts`, `BridgeFails` | the Redis bridge and `_register_trained_model` |

`Raise` lets any statement fail. Before the `try` the exception goes to
`dispatch_training` directly, so nothing is destroyed and no token is revoked,
as in the code. A field `orphan` of a contract and the variable `raced` are
history variables: they record that a fault the code only logs set a machine
loose, and that two registrations overlapped; no action reads them in a guard.

External, modelled from how the code uses them: Vast.ai (`InstanceDies`, the
outcomes of `RentInstance` and `DestroyInstance`), the training-service, whose
source is not in the repository (`ServicePosts`, `ServicePublishes`), and the
network (`LosePost`).

### EdgeUpload and the code

`next`, `stamp`, `sent`, `purged`, `attempts` are the table `event_buffer`; the
row of a purged event is gone, its id stays in `sent` so that it can be spoken
of. `up` is the uploader thread between `dequeue_batch` and the mark;
`req[r]` is a POST on its way through `ingest_events`, which goes on after the
agent gave up on it (`Timeout`). `cloud` holds rows of `edge_events` by their
deduplication key, a record of what is hashed: the batch's ids, the event, and
the `attempts` it was sent with. Retries and restarts keep what SQLite keeps.

What the model takes for granted:
* the uploader posts to `/api/v1/edge/detections` under the key `detections`;
  the only handler in the repository is `/edge/events/ingest`, which reads
  `events`. The model composes the two as if address and key agreed.
* `ingest_events` skips entries without an `event_type` and answers 200;
  events have one here.
* the buffer runs with `synchronous=NORMAL`: a power failure may lose the last
  commits. `Restart` is the death of the process, which loses none.
* an exception of `mark_failed` ends the uploader thread; this is a `Restart`,
  and a supervisor that starts the agent again is assumed.
* `purge_old` and `enqueue` have no caller in the agent outside the tests;
  `PurgeOld` and `Enqueue` may happen at any time.

### EdgeCommands and the code

`db[c]` is the configuration of a camera's row and `past[c]` (history) every
one it has had; `patch[a]` is a PATCH between its UPDATE and the command it
queues; `queue` is `edge_commands` in the order of `created_at`. At the edge,
`cameras` is the list of the `ConfigPoller`, `reply` a config answer that was
read in the cloud and not yet applied, `todo` the fetched commands, `acks` the
acknowledgements on their way.

| Actions | Code |
|---|---|
| `PatchConfig`, `QueuePropagation`, `QueueFails` | `CameraService.patch_config` with its COALESCE, then `_queue_edge_propagation`; a failed or a conflicting INSERT is only logged |
| `CreateCommand` | the route by which an administrator queues a command of another type |
| `FetchConfig`, `ApplyConfig`, `ConfigPollFails` | `ConfigPoller._poll_once`, `_apply` |
| `FetchCommands`, `Handle` | `CommandPoller._poll_once`, `_handle` with `apply_camera_config` and `_ack`; a type the agent does not know is acknowledged as 'failed' |
| `UpdateStatus`, `LoseAck` | the PATCH of the acknowledgement, late, repeated or lost |
| `Restart` | the agent's process: its list is in memory only |

Neither poller is instantiated anywhere in the repository; the model runs both,
as their docstrings say, each in a thread. The endpoint of the config poll
answers with cameras only, so the agent's model manifest (`pending_model`,
`ack_model_applied`) and rules never change and are left out.

### LocalStream and the code

One camera. `lock` and `active` are its two Redis keys, `dir` its directory,
`ffmpeg[p]` and `owner[p]` the processes, `tracked[w]` and `seen[w]` the entries
of `_processes` and `_sequences` in worker `w`. `act[a]` is where an actor is
inside `start()` or `stop()`: a request, the watchdog of a worker, or the
early-exit monitor that each FFmpeg gets.

| Actions | Code |
|---|---|
| `FastPath`, `TakeLock`, `RedisSilent`, `AlreadyRunning`, `Spawn`, `PopenFails` | `start()`: the check without the lock, SETNX (and the path without Redis), the check under the lock, Popen |
| `Unlock`, `Pop`, `Terminate`, `Clean`, `CleanFails` | `stop()`, statement by statement; an `rmtree` that fails leaves the directory, perhaps with its playlist |
| `StartStream`, `StopStream`, `ServeHls`, `ServeUnrenewed`, `ServeFile` | the handlers; a renewal of the active key that Redis does not take |
| `WatchSequence`, `WatchStall`, `WatchInactive` | `_check_stall` and `_watchdog_tick` |
| `MonitorEnds`, `MonitorChecks`, `MonitorReleases` | `_monitor_early_exit` |
| `Write`, `Hang`, `Exit`, `Starve` | FFmpeg, as far as the manager can tell |
| `LockExpires`, `ActiveExpires`, `WorkerCrash` | the keys' times to live; a worker that is killed and leaves its children |

The camera gateway, which the handlers ask first, is offline. `atexit` calls
`stop()` for each stream, which is a `StopStream` here.

### QualityGate and the code

`status[p]`, `count[p]` and `exported[p]` are columns of `quality_pieces`.
`req[r]` is a request after its SELECT, with what it read and what it decided
(`Targets`, the union of the state machine's rules); `UpdatePieceStatus` writes
it by id, whatever has happened to the row. `batch` and `sent` are the beat
task `retry_failed_wiser_exports`. The rest is history: which stages have a
stored OK, how many NOK results, how many deliveries, which pieces two requests
had read at once.

The service is modelled as its unit tests drive it; two of its callers do not
reach it that way (section 6).

### WorkerHeartbeat and the code

One site. `pc[h]` is a gunicorn thread in the handler of a heartbeat, with
`obs[h]`, what that heartbeat reports. `beats`, `timer` and `command` are Redis
keys with the ages that matter, `rows` and `open` count rows of
`worker_registry` and open `camera_gap` alerts. The key with the worker's last
metrics is left out: only the panel and the health report read it.

| Actions | Code |
|---|---|
| `Receive`, `PublishHeartbeat`, `PersistWorkerMetrics`, `Register` | `heartbeat.py`, `publish_heartbeat`, `_persist_worker_metrics` |
| `HandleGap`, `EnsureGapAlert`, `NoAnchorCamera`, `CreateGapAlert` | `_evaluate`, the timer, the SELECT and the INSERT of an alert, which takes an active camera of the tenant |
| `ClearGapTimer`, `AcknowledgeGapAlerts` | the recovery |
| `ReadCommand`, `DeleteCommand`, `RestartWorker` | the answer that carries a restart, and the route that orders one |
| `Tick`, `…Expires`, `Die`, `Acknowledge` | time, keys, a thread that dies, an operator |

The SET NX and the GET of the gap timer are one step. Whether the tenant has a
row of its own (without one nothing is registered) and an active camera (without
one there is no alert) is a free choice of each look. `early` and `spurious`
(with `streak`, `owed`, `crowded`) are history variables for two properties.

### AutoRetrain and the code

`frame`, `ready`, `trained` and `job` are the tables, `message` the
`dispatch_training` messages, `check[c]` a run of `check_auto_retraining`
between its statements: `CountFrames` makes the queries about growth,
`InsertJob` the INSERT and commit, `Dispatch` the `delay()`. The queries of a
tenant in `Broken` always raise, any other call may (`Raise`): the loop goes on
with the next tenant, and a row already committed stays pending. `Wake` happens any time: besides
the beat, `model_drift.py:121` calls the check. What a job does after its
dispatch is in `TrainingJob`; here it completes or fails.

### CameraModel and the code

`deployments` are the rows of `model_deployments` of one camera and module,
`override` the camera's direct assignment, `req[r]` a request between its
transactions. `loop` is `inference_loop`: `ReadCamera` and `ReadDeployment` are
the two queries of `_resolve_camera_model`, `Load` and `FallBack` are
`_get_detector_for_camera` with the process's `cache`, `Subscribe` comes only
after that, as in the code, and `Drain` reads the message in `channel`.
`raced`, `halved`, `unheard`, `fallen` are history variables: two deployments
overlapped, the last one failed half-way, a change did not reach the loop, the
loop fell back to the environment's detector.

One process runs the loop; its retries are new starts and are not counted, and
a second loop after a redelivery would have a cache of its own.

## 3. Runs

Bounds are the constants of the `.cfg` files; "expected to fail" runs are
section 6.

| Run | Shows | Bounds and why they suffice |
|---|---|---|
| `training_redelivery` | `InstanceAccounted`, `StopGuarded`, `StopFinal` with two executions at once | two workers, one redelivery, all providers, a training-service that accepts or refuses, one machine, one callback in flight, one stop: a revival needs one callback, a second execution one redelivery |
| `training_live` | `RentalsBounded`: machines ≤ (retries + 1)(redeliveries + 1); `OneModelUnlessRaced`; `InstanceReleased` | one worker with a retry, a bridge (two registrations), three machines, so that the bound of two could be exceeded, a stop, a watchdog of two polls; no callbacks and no redelivery |
| `edge_safe` | `OldestFirst`, the refinement `KeepsPromise`, `EventuallyIngested` | three events in batches of two (a full and a partial batch), the second one refused by the cloud, two requests (one abandoned, one live), two clock readings (ties and steps back) |
| `edge_once` | expected to fail | two events |
| `commands` | the refinement `MirrorsConfig`, `StaysInStep`, `EventuallyAgrees`, `QueueDrains` | two overlapping PATCHes of both fields (a mixture is possible), two commands fetched one at a time, two readings of the millisecond clock (the same one twice), one restart |
| `stream` | `Held`, `IdleStops`, `StallStops`, `ViewerServed` | a request, the watchdog, two processes with a monitor each: four callers of start() and stop(); Redis may fall silent, the worker may be killed and come back |
| `stream_dead` | expected to fail | the same with a Redis that answers |
| `gate` | `NoStageSkipped`, the refinement `ExportsDurably`, `CountMatches`, `FollowsUnlessRaced`, `ApprovedIsExported` | two requests over a new piece and the beat over a second one that has failed, one at a time (`LIMIT`), one NOK |
| `heartbeat` | `NoDoubles`, `NoEarlyAlert`, `NoSpuriousRestart`, `GapIsAlerted`, `RecoveryAcknowledges` | two handlers at once, a threshold shorter than the timer's life, one fault of Redis or of a handler |
| `retrain` | `MessagesHaveRows`, `GrowthIsTrained` | two checks at once, two tenants, one whose queries raise, two frames, two unfinished jobs, one fault |
| `retrain_twice` | expected to fail | one tenant, one frame |
| `camera_model` | `OneDeployment`, `Followed`, `EventuallyFollowed` | two requests at once, three in all (an overlap and one after it), three models of which one has no ONNX file |

Every passing run but `training_live`, whose module has it in
`training_redelivery`, also checks its module's type invariant. The redeliveries
in the bound of `RentalsBounded` and two workers at once are in its theorem, not
in the run.

`StopSettled` is when a stop can be final at all: the dispatch thread has
issued its token, no callback is between its check and its UPDATE, and whatever
token is in the row is in nobody's hands. `StopFinal` then says that no later
step, of executions already under way or redelivered ones, leaves that
condition: the recheck before provisioning and the guard of `update_job`
together keep it.

Properties with "unless raced" say exactly what the code guarantees: without
locks and unique constraints, an overlap may break them, and only an overlap
does. The overlap is a history variable that names the two reads before either
write; section 6 lists what then goes wrong.

Deadlock is not checked: a finished job, an empty buffer after the last event
of the bound, an approved piece have nothing left to do.

### Bounds on counters

`MaxRedeliveries`, `MaxStops`, `MaxPolls` (polls before the deadline),
`Instances` (rentals) and `Posts` (callbacks in flight) bound `TrainingJob`;
`MaxEvents`, `Requests` and `MaxAttempts` bound `EdgeUpload`; `MaxPatches`,
`MaxCommands`, `MaxMillis`, `MaxRestarts` bound `EdgeCommands`; `Procs` and
`MaxCrashes` bound `LocalStream`; `MaxReworks` bounds `QualityGate`;
`MaxFaults` and the ages of the keys, which stop at the threshold that is asked
about, bound `WorkerHeartbeat`; `Jobs`, `MaxTime` and `MaxFaults` bound
`AutoRetrain`; `MaxChanges` bounds `CameraModel`. `attempts` of an event
saturates at its bound: `edge_safe` sets it to 0, where keys do not change
between retries, which only merges states, since no guard reads the counter;
`edge_once` sets it to 1, where they do.

### Fairness

* `TrainingJob!FairSpec`: weak fairness of each worker's execution (`Work(w)`),
  since a worker process that runs takes its next step; nothing is assumed of
  the network, the provider, callbacks or stops.
* `EdgeUpload!FairSpec`: weak fairness of the uploader thread and of the cloud's
  handler; strong fairness of `Answer`, `MarkSent`, `IngestEvent` of each event
  and `IngestDone`: link and databases may fail again and again but not on every
  attempt; weak fairness of `Vanish`, the tearing down of an abandoned
  connection. Without the strong part the cloud could refuse for ever, which the
  code neither prevents nor claims to.
* `EdgeCommands!FairSpec`: weak fairness of both pollers' steps and of a PATCH
  under way; strong fairness of `ApplyConfig` and of the acknowledgement of each
  command: answers get lost now and then, not always.
* `LocalStream!FairSpec`: every thread that is inside start(), stop(), a handler
  or a monitor comes to its end (`[]<>` idle; one that waits for a name of `Procs`
  waits for the bound only), the watchdog comes round (strong for the stall, which
  it sees only while the stream is in its table), FFmpeg writes unless its camera
  hangs and ends without its directory, the lock expires, and the active key
  expires if requests ever stop renewing it. `ViewerServed` and `DeadStreamLetGo`
  add premises of their own: a player asks for ever, and from some time on nothing
  fails, nobody stops the stream and the key is renewed before it expires.
  `IdleStops` has the premise that requests cease.
* `QualityGate!FairSpec`: the beat fires, and an export that is tried again and
  again succeeds some time, as does the UPDATE after it. Requests are under no
  obligation.
* `WorkerHeartbeat!FairSpec`: time passes, a running worker beats and gunicorn
  serves what it accepts.
* `AutoRetrain!FairSpec`: each check that runs goes on, the beat wakes it, a job
  that can complete does.
* `CameraModel!FairSpec`: requests and the loop go on. The loop looks for
  messages only between frames, so this includes that the camera delivers some.

## 4. Proofs

All theorems hold for every value of the constants under the modules'
`ConstantsOK`: disjoint sets of actors, null values outside their sets, natural
bounds, and in `AutoRetrain` finitely many frames, which it counts. Each `IInv`
has also been checked with TLC on the instance of its run.

* **TrainingJob_proofs.** `TypeCorrect`: `Spec => []TypeOK`, the type invariant
  being inductive. `StopIsGuarded`: `Spec => StopGuarded`, from `TypeOK` and one
  lemma per writer of `status`. `MachinesAccounted`: `Spec => []InstanceAccounted`.
  `InstanceAccounted` alone is not inductive: an execution that leaves its
  finally block must not be the last one to hold a machine, so the inductive
  invariant `RInv` adds `ReleasedInv`: at the revocation of the token, the last
  step of that block, an execution holds no machine any more. `OneModel`:
  `Spec => []OneModelUnlessRaced`, by `MInv`, whose `NotRacedInv` says that
  without an overlap at most one registration is between its SELECT and its
  INSERT, and only while there is no model.
  `StopsStay`: `Spec => StopFinal`, from `TInv`: tokens are numbered as they are
  issued, none is above `issued`, and what can post (a training machine, an
  execution about to rent one, a callback in flight) has one. A newly issued
  token is therefore in nobody's hands (`Disarmed`), and while the job is stopped
  it reaches nobody, because `Continues` says that an execution comes to the
  rental only past a look at the status. `StopCapsRentals` is what a stop can
  still cost: after a settled one nobody else comes to the rental.
  `RentalsAreBounded`: `Spec => []RentalsBounded`, by counting `Tickets`: one for
  each machine rented and for each rental still possible, by an execution, a
  queued message or the dispatch thread. A step exchanges tickets for no more
  others (`Exchanged`), and only a redelivery brings new ones, which the bound
  pays for (`Redelivered`); `RefInv` says that a machine that is referred to has
  been rented, so that destroying it cannot count as a rental. From `RefInv` also
  `MachinesUnshared`: no two executions hold the same machine. `ExecutionsEnd`
  is the variant under `InstanceReleased`: `StepsLeft` of an execution is its
  place in the task and the polls its deadlines leave it; each of its own steps
  lowers it, nobody else's raises it (`PollsInv`: outside the loops nothing is
  counted yet, inside them no more than the deadline).
* **EdgeUpload_proofs.** `Implements`: every step is a step of `DurableQueue` or a
  stutter, by `IInv`: a request has ingested every event of its batch that is not
  still to do (`RequestInv`), the uploader's request carries the uploader's batch,
  which is in the cloud by the time it is to be marked (`UploaderInv`), and what
  is marked stays there (`SentInv`). `DurablyKept`: by the refinement, an event
  that `enqueue()` returned for is unsent or in the cloud. `InOrder` by
  `OInv`, which adds `FrontInv`: what is older than an event of a request's batch
  is in the batch too, or already in the cloud. `NextBatch`: `dequeue_batch` is a
  function. `BatchExists` takes a smallest remainder of the queue whose front fits
  a batch, and its first event if the front is not full; smallest ones and first
  events come from the well-founded inclusion of finite sets (`MinimalSubset`,
  `FirstOf`). `BatchWithin` is the uniqueness.
* **EdgeCommands_proofs.** `Implements`: the commands and the polls implement
  `ConfigMirror`. Each step maps to `Change`, `Copy` or a stutter only if what is
  on its way is a configuration of the past: `PatchInv`, `QueueInv` and
  `ReplyInv` say so of the PATCHes under way, the queued commands and the config
  answers, with `RowInv` for the row itself. `NothingInvented` is the same of the
  edge's copy. `Truthful`: every acknowledgement on its way and every stored
  status says what became of the command, and ids are unique; with it
  `SettledForGood`: no late or repeated acknowledgement makes a settled command
  pending or changes its outcome. `AgreementStays`: `Spec => StaysInStep`, the
  half of `EventuallyAgrees` that says "for good": once everything under way for
  a camera carries what is stored, only a PATCH of it ends that. `RowsStep` says
  for all steps at once what can happen to the rows of the queue.
* **LocalStream_proofs.** `NoneLost`: `Spec => []Held`, for any number of workers
  and processes. `PlaceInv`: who is in start(), stop() or a monitor is so in some
  worker; `OwnInv`: a worker tracks, and its actors stop, only its own children —
  without it a `Pop` in one worker could take what another one holds.
  `HeldExclusively`: what is held is held in one place (`Apart`), so that no
  process is ended by two calls and a worker has at most one that nobody is
  ending (`OnePerWorker`).
* **QualityGate_proofs.** `StagesKept`, `ReworksCounted`, `TableFollowed`. A
  piece's status says nothing about a request that read an older one, so
  `RequestInv` says that whatever a request read had been earned and that its
  decision is one of the state machine's; `BeatInv` and `PieceInv` do that for
  the beat task and the row, and `SerialInv` says that while no two requests have
  read a piece, the one that did holds what is stored. `ExportImplements`: the
  export implements `DurableQueue`, a piece being owed from its last OK until a
  delivery is flagged; `PieceInv` and `BeatInv` have it that whoever flags a piece
  had it accepted. `NoneForgotten`: no piece is marked that Wiser does not have.
* **WorkerHeartbeat_proofs.** `DoublesRace` by `AlertInv` and `RowInv`: without a
  race whoever is about to insert is alone and nothing is there. `AlertsWait` by
  `TimerInv` and `StreakInv`: the timer is never older than the uninterrupted run
  of gap heartbeats, unless the heartbeat that ended the run has yet to clear it.
  `RestartsOrdered` by `CommandInv`: a command in Redis or in an answer has been
  ordered and not yet obeyed. `AloneInv` and `BranchInv` tie a handler to the
  heartbeat it serves. `AlertsFollowReports`: however two handlers overlap, only
  one that was told of the gap opens an alert, and only the operator or one that
  was told of all cameras closes some. `RecoveryStays`, the safety half of
  `RecoveryAcknowledges`: once no gap heartbeat is in work and no alert is open,
  none is opened while the cameras stay. Both read all the handler's actions
  through one summary (`HandlerMoves`).
* **AutoRetrain_proofs.** `RowsFirst` by `RowInv` (a job's dataset is its
  tenant's), `MessageInv` (messages follow rows) and `CheckInv` (a check that is
  about to dispatch has a committed row that nobody else knows of, and holds only
  active tenants). `TrainingSettlesGrowth`, the safety core of `GrowthIsTrained`:
  with a threshold above zero a training that completes leaves its tenant not
  due, and only an annotation of a newer frame makes it due again; `TimesInv` has
  the clock ahead of all it has stamped, and the counting is by cardinalities.
  (With a threshold of zero every check trains.) `OwnData`: a training that
  completes was of the tenant's own dataset. `ChecksEnd`: a check takes each
  tenant once, by the pair of what it has to do and `Rank`.
* **CameraModel_proofs.** `DeploymentsAlone` by `AloneInv`: without a race, who is
  about to create a deployment is alone, and nothing is active. `LoopFollows` by
  `LoopInv`: while no change is unannounced, on its way or missed, what the loop
  has read so far, at each of its program points, is what is stored.

Only model-checked: the liveness properties, which are out of the prover's reach
(fairness and ENABLED). `ExecutionsEnd`, `AgreementStays`, `RecoveryStays`,
`TrainingSettlesGrowth` and `ChecksEnd` prove the parts of their arguments that
are safety: that what makes progress cannot be undone, and how much of it there
is to make.

## 5. Not modelled

* `TrainingJob`: progress numbers, metrics and their publication on Redis; the
  legacy shell-based Vast.ai dispatch; the trigger of the model's evaluation,
  which is best effort; activation of models.
* `EdgeUpload`, `EdgeCommands`: payloads and authentication (an arbitrary
  refusal); rules, scenario and model manifest, which the endpoint never sends.
* `LocalStream`: the camera gateway's own streams. The run has one worker;
  `Held` is proved for any number.
* `QualityGate`: a second run of the beat task while the first is at work
  (`celery_app.py:108-112`), which can only deliver a piece once more;
  rows of `quality_reworks`, light tower, stations, OCR, the demo
  seed, the inspection tasks of `quality_inference.py` and their dispatch.
* `WorkerHeartbeat`: the worker's status key and metrics; `route_inference_task`, `get_inference_queue` and
  `fallback_to_railway`, which have no callers.
* `CameraModel`: several modules and cameras (each has rows and caches of its
  own), alerts, automatic capture of frames, the HLS task.
* Enrollment and claim codes, rollout and registry of models: conditional
  UPDATEs, mostly one statement each; section 6 has what was found on reading.
* Frontend, detectors, deployment and reports have no protocol that a state
  machine would clarify; access control and rate limits are request filters;
  canonical operations and metrics are pure functions that may be added as
  operators; dataset versioning and evaluation are sequential pipelines.

## 6. Disagreements between the code and what it says

By a counterexample of a run:

1. *An event can be stored twice* (`edge_once`). The deduplication key hashes
   the event with its `attempts` counter, which every failure increments, and
   the batch id, which changes with what else is unsent.
2. *One growth can start several trainings* (`retrain_twice`). Only completed
   jobs count as the last training (`auto_training.py:101-115`): while a job is
   pending or running each check counts the same frames and dispatches again.
3. *A dead stream is kept active for ever* (`stream_dead`), against
   `stream_handlers.py:210-213`. An FFmpeg ends, its worker is killed before the
   watchdog comes round; the playlist stays, `serve_hls` sends it and renews the
   active key (`:220-236`), and no worker's watchdog has the stream in its
   dictionary (`local_stream_manager.py:441`). An `rmtree` that fails (`:267`)
   ends the same way. `ViewerServed` excepts this end, and only this one.

Behaviour the models contain, which their properties therefore except:

4. *A paid machine can leak.* `_run_vast_remote_training` promises "nunca vazar
   GPU paga" (`training.py:572`); `instance_id` is known only from the answer of
   `create_instance` (`:656`), and if that is lost nothing destroys the machine.
5. *A token can survive its execution.* It is issued (`training.py:585`) before
   the `try` whose `finally` revokes it, so an early exception leaves it, while
   the docstring has it revoked "ao final, sucesso ou erro" (`:573`).
6. *A stop can be reverted.* `update_job_status` (`training_repository.py:118`)
   writes without the guard of its sibling `update_job`; a callback already past
   its token check puts a stopped job back to 'running' or 'failed'.
7. *A job can have two models.* SELECT and INSERT are separate transactions in
   both writers (`training.py:191`, `training_repository.py:129-131`).
8. *A command can be dropped and answered as queued.* Two PATCHes of a camera in
   one millisecond get one command id (`config_handler.py:52`); the second INSERT
   does nothing. Only the config poll brings the change.
9. *Two FFmpeg for one camera.* The lock lives 60 s, is never renewed
   (`local_stream_manager.py:146`), and any worker's `stop()` deletes it (`:244`).
   They are both `Held`, each by its worker.
10. *A stopped stream can come back*: the monitor checks that its process is the
    current one so as not to race an explicit stop (comment at `:395-397`), then
    releases the lock and starts; a stop fits in between (`:398`).
11. *A stream that freezes before its first playlist is not stopped as stalled*
    (`:333`, `:338`): hence `Frozen` asks for a playlist that has been seen.
12. *FFmpeg of a killed worker is nobody's* (`:432`): the watchdog walks its own
    dictionary only. It runs on without viewers, and `IdleStops` excepts it.
13. *Two requests on one piece leave the state machine's table*: the UPDATE does
    not look at the status it replaces (`gate_repository.py:204`), while
    `gate_service.py:6` promises "Aplicar state machine a cada transicao", and the
    terminal states of `state_machine.py:30` can be left.
14. *Wiser can get a piece twice*: the beat task selects what a request has
    delivered and not yet flagged (`quality_inference.py:706`).
15. *The route of a result passes one argument too many*
    (`quality/routes.py:1651`), and the service writes columns no migration adds
    (`last_inspection_confidence`, `approved_at`, `gate_service.py:289`). The model
    is of the service as its tests call it.
16. *Two open gap alerts*, in spite of "idempotent - one open alert per site":
    SELECT and INSERT are two transactions (`liveness_service.py:241`); and the
    gap timer of an old gap survives a DEL that failed (`:223`).
17. *Every site with cameras is in a gap*: `worker_onpremise/heartbeat.py:73` sends
    `cameras_active = 0` whatever runs. The model lets the count be full as well.
18. *Frames annotated after a training but uploaded before it do not count as
    new* (`auto_training.py:123` compares `created_at`).
19. *A change between resolve and subscribe is never heard* (`inference.py:584-585`),
    while the comment at `:335-337` has every change reload the detector; a failed
    download leaves the environment's detector until the next message
    (`:500-507`).
20. *Two active deployments, or none*: `model_config_handlers.py:142-146`
    deactivates and creates in two transactions ("desativa o ativo, cria novo").

Seen on reading, outside the models: `get_effective_model`
(`model_handlers.py:320`) ignores deployments, which the loop prefers;
`post_camera_model_config` never asks whether the model has an ONNX file; the
quality module's activation (`quality/routes.py:1174-1204`) publishes
`quality:model_changed`, to which nothing subscribes; two concurrent activations
of registry models leave two active ones (`model_registry_repository.py:79-105`);
`pin_model` of a module without a row leaves it without an active model
(`model_rollout_repository.py:88-132`).

## 7. Plan

In this order:
1. Model activation: the evaluation gate, registry and rollout, on top of what
   `TrainingJob` registers and before what `CameraModel` deploys.
2. Enrollment and claim codes: one-time use under concurrent claims.
3. `LocalStream` with two workers as a run, and the `active` key of the
   quality inference loop.
