---------------------------- MODULE TrainingJob ----------------------------
(***************************************************************************)
(* One row of training_jobs and everything that writes it: the thread of   *)
(* POST /training/jobs that dispatches it, the Celery workers that run     *)
(* dispatch_training (acks_late, max_retries, redelivery), the GPU         *)
(* contracts they rent from Vast.ai, the progress callbacks those machines *)
(* post, the stop handler, and the Redis bridge that registers a model.    *)
(*                                                                         *)
(* Every SQL statement of the code is its own transaction and every HTTP   *)
(* call is one step, so each is one action here.                           *)
(***************************************************************************)
EXTENDS Integers, FiniteSets

CONSTANTS
  Workers,          \* processes of the Celery "training" queue
  Bridges,          \* API processes, each with its own Redis bridge thread
  Instances,        \* GPU contracts the provider can offer (bounds rentals)
  Posts,            \* progress callbacks that can be in flight at once
  Providers,        \* what get_training_compute / the hub key can select
  ServiceReplies,   \* fates of the POST to the training-service that can occur
  NoInstance,       \* instance_id / gpu_instance_ref is NULL
  MaxRetries,       \* max_retries of the task (1 in the code)
  DeadPolls,        \* dead polls the watchdog tolerates (3 in the code)
  MaxPolls,         \* polls before a deadline
  MaxRedeliveries,  \* bound: messages the broker delivers a second time
  MaxStops          \* bound: calls of the stop handler that stop the job

ASSUME ConstantsOK ==
  /\ NoInstance \notin Instances
  /\ Workers \cap Bridges = {}
  /\ Providers \subseteq {"vast", "hub", "local", "edge"}
  /\ ServiceReplies \subseteq {"ok", "unheard", "refused"}
  /\ MaxRetries \in Nat /\ MaxPolls \in Nat /\ DeadPolls \in Nat \ {0}
  /\ MaxRedeliveries \in Nat /\ MaxStops \in Nat

VARIABLES
  status, token, gpuRef,   \* the row: status, callback_token (0: NULL), gpu_instance_ref
  models,                  \* rows of trained_models with this job_id
  issued,                  \* callback tokens generated so far
  creator,                 \* the thread create_job_handler starts
  service, serviceTok,     \* the external training-service, and the token it got
  queue,                   \* queue[r]: deliverable messages on their r-th retry
  work,                    \* work[w]: the execution of dispatch_training in w
  inst,                    \* inst[i]: a GPU contract
  posts,                   \* posts[p]: a request of the progress callback
  stop, stops,             \* the stop handler, and how often it stopped the job
  bridge,                  \* bridge[b]: _register_trained_model in process b
  redeliveries,            \* messages redelivered so far
  raced                    \* history: two registrations found no model and overlapped

row      == <<status, token, gpuRef>>
external == <<service, serviceTok, bridge>>
stopper  == <<stop, stops>>
vars == <<row, models, issued, creator, external, queue, work, inst, posts,
          stopper, redeliveries, raced>>

-----------------------------------------------------------------------------
Statuses == {"pending", "running", "completed", "failed", "stopped"}

\* A machine that exists at the provider (and is billed) is in one of these.
Rented == {"training", "finished", "dead"}

\* Program points of dispatch_training, before, inside and after the try/finally
\* of _run_vast_remote_training.
BeforeTry == {"start", "route", "hub", "local", "edge", "token", "upload",
              "announce", "recheck", "rent"}
InTry     == {"ref", "announceRented", "poll", "probe"}
Finally   == {"destroy", "revoke"}
AfterTry  == {"select", "insert", "complete", "fail", "retry"}
Points    == {"idle"} \cup BeforeTry \cup InTry \cup Finally \cup AfterTry

Idle == [pc |-> "idle", try |-> 0, tok |-> 0, inst |-> NoInstance,
         polls |-> 0, dead |-> 0, out |-> "none"]

Init ==
  /\ status = "pending" /\ token = 0 /\ gpuRef = NoInstance
  /\ models = 0 /\ issued = 0
  /\ creator = "token"
  /\ service = "none" /\ serviceTok = 0
  /\ queue = [r \in 0..MaxRetries |-> 0]
  /\ work = [w \in Workers |-> Idle]
  /\ inst = [i \in Instances |-> [state |-> "free", tok |-> 0, orphan |-> FALSE]]
  /\ posts = [p \in Posts |-> [pc |-> "idle", tok |-> 0, status |-> "running"]]
  /\ stop = [pc |-> "idle", ref |-> NoInstance] /\ stops = 0
  /\ bridge = [b \in Bridges |-> "listening"]
  /\ redeliveries = 0 /\ raced = FALSE

-----------------------------------------------------------------------------
(* The thread of create_job_handler.                                       *)

\* _issue_callback_token: best effort, a failed UPDATE sends no token.
CreatorIssuesToken ==
  /\ creator = "token" /\ creator' = "post"
  /\ \/ /\ issued' = issued + 1 /\ token' = issued'
        /\ serviceTok' = issued'
     \/ UNCHANGED <<issued, token, serviceTok>>
  /\ UNCHANGED <<status, gpuRef, models, service, bridge, queue, work, inst,
                 posts, stopper, redeliveries, raced>>

\* The POST to the training-service is accepted, or accepted without the API
\* hearing of it (5 s timeout), or refused.
CreatorPosts ==
  /\ creator = "post"
  /\ \E reply \in ServiceReplies :
       /\ creator' = IF reply = "ok" THEN "done" ELSE "fallback"
       /\ service' = IF reply = "refused" THEN "none" ELSE "training"
  /\ UNCHANGED <<row, models, issued, serviceTok, bridge, queue, work, inst,
                 posts, stopper, redeliveries, raced>>

\* _dispatch_celery_fallback: if the broker is down too the job stays pending.
CreatorFallsBack ==
  /\ creator = "fallback" /\ creator' = "done"
  /\ \/ queue' = [queue EXCEPT ![0] = @ + 1]
     \/ UNCHANGED queue
  /\ UNCHANGED <<row, models, issued, external, work, inst, posts, stopper,
                 redeliveries, raced>>

-----------------------------------------------------------------------------
(* dispatch_training, in worker w.                                         *)

Goto(w, from, to) ==
  /\ work[w].pc = from
  /\ work' = [work EXCEPT ![w].pc = to]

\* Mutant: update_job without AND status != 'stopped'.
UpdateJobUnguarded(s) == status' = s

\* update_job: the UPDATE matches no row once the job is stopped.
UpdateJob(s) == status' = IF status = "stopped" THEN status ELSE s

OnlyWork == UNCHANGED <<row, models, issued, creator, external, queue, inst, posts,
                        stopper, redeliveries, raced>>
OnlyStatus == UNCHANGED <<token, gpuRef, models, issued, creator, external, queue,
                          inst, posts, stopper, redeliveries, raced>>

\* Mutant: the same message is handed to whoever asks.
TakeAgain(w) ==
  /\ work[w].pc = "idle"
  /\ \E r \in 0..MaxRetries :
       /\ queue' = [queue EXCEPT ![r] = @ - 1]
       /\ work' = [work EXCEPT ![w] = [Idle EXCEPT !.pc = "start", !.try = r]]
  /\ UNCHANGED <<row, models, issued, creator, external, inst, posts, stopper,
                 redeliveries, raced>>

Take(w) ==
  /\ work[w].pc = "idle"
  /\ \E r \in 0..MaxRetries :
       /\ queue[r] > 0
       /\ queue' = [queue EXCEPT ![r] = @ - 1]
       /\ work' = [work EXCEPT ![w] = [Idle EXCEPT !.pc = "start", !.try = r]]
  /\ UNCHANGED <<row, models, issued, creator, external, inst, posts, stopper,
                 redeliveries, raced>>

\* update_fn("running"): on entry, before the recheck, and after the rental.
Announce(w) ==
  /\ \/ Goto(w, "start", "route")
     \/ Goto(w, "announce", "recheck")
     \/ Goto(w, "announceRented", "poll")
  /\ UpdateJob("running")
  /\ OnlyStatus

Route(w) ==
  /\ \E p \in Providers : Goto(w, "route", IF p = "vast" THEN "token" ELSE p)
  /\ OnlyWork

\* EdgeProvider: the job stays 'running'; no code path ever finishes it.
DispatchEdge(w) ==
  /\ work[w].pc = "edge" /\ work' = [work EXCEPT ![w] = Idle]
  /\ UpdateJob("running")
  /\ OnlyStatus

\* _simulate_training: a fixed number of writes, and no look at the status.
Simulate(w) ==
  /\ work[w].pc = "local"
  /\ work' = [work EXCEPT ![w].polls = @ + 1,
                          ![w].pc = IF work[w].polls < MaxPolls THEN "local" ELSE "select"]
  /\ UpdateJob("running")
  /\ OnlyStatus

\* _dispatch_hub: a refused dispatch becomes a simulation.
DispatchHub(w) ==
  /\ Goto(w, "hub", "local") /\ work[w].polls = 0
  /\ OnlyWork

\* A poll of the hub: progress, an error of the poll, or the end of training.
PollHub(w) ==
  /\ work[w].pc = "hub"
  /\ \/ /\ work[w].polls < MaxPolls
        /\ work' = [work EXCEPT ![w].polls = @ + 1]
        /\ UpdateJob("running") \/ UNCHANGED status
     \/ /\ work' = [work EXCEPT ![w].pc = "select"]
        /\ work[w].polls < MaxPolls
        /\ UNCHANGED status
     \/ /\ work' = [work EXCEPT ![w].pc = "fail"]
        /\ UNCHANGED status
  /\ OnlyStatus

IssueToken(w) ==
  /\ work[w].pc = "token"
  /\ issued' = issued + 1 /\ token' = issued'
  /\ work' = [work EXCEPT ![w].pc = "upload", ![w].tok = issued']
  /\ UNCHANGED <<status, gpuRef, models, creator, external, queue, inst, posts,
                 stopper, redeliveries, raced>>

UploadDataset(w) == Goto(w, "upload", "announce") /\ OnlyWork

\* Mutant: no second look at the status before provisioning.
RecheckSkipped(w) == Goto(w, "recheck", "rent") /\ OnlyWork

\* The look at the status that closes the window before provisioning.
Recheck(w) ==
  /\ IF status = "stopped"
     THEN work[w].pc = "recheck" /\ work' = [work EXCEPT ![w] = Idle]
     ELSE Goto(w, "recheck", "rent")
  /\ OnlyWork

\* search_offers and create_instance. Once the request is out, its answer may be
\* lost after the contract started: instance_id stays None.
RentInstance(w) ==
  /\ work[w].pc = "rent"
  /\ \/ \E i \in Instances, heard \in BOOLEAN :
          /\ inst[i].state = "free"
          /\ inst' = [inst EXCEPT ![i] = [state |-> "training", tok |-> work[w].tok,
                                          orphan |-> ~heard]]
          /\ work' = IF heard THEN [work EXCEPT ![w].pc = "ref", ![w].inst = i]
                     ELSE [work EXCEPT ![w].pc = "destroy", ![w].out = "error"]
     \/ /\ work' = [work EXCEPT ![w].pc = "destroy", ![w].out = "error"]
        /\ UNCHANGED inst
  /\ UNCHANGED <<row, models, issued, creator, external, queue, posts, stopper,
                 redeliveries, raced>>

RecordInstance(w) ==
  /\ Goto(w, "ref", "announceRented")
  /\ gpuRef' = work[w].inst
  /\ UNCHANGED <<status, token, models, issued, creator, external, queue, inst,
                 posts, stopper, redeliveries, raced>>

Finish(w, out) == work' = [work EXCEPT ![w].pc = "destroy", ![w].out = out]

\* _watch_vast_job, first half of a poll: the deadline, then the job's status.
WatchStatus(w) ==
  /\ work[w].pc = "poll"
  /\ IF work[w].polls >= MaxPolls \/ status = "failed" THEN Finish(w, "error")
     ELSE IF status = "completed" THEN Finish(w, "result")
     ELSE IF status = "stopped" THEN Finish(w, "stopped")
     ELSE Goto(w, "poll", "probe")
  /\ OnlyWork

\* Mutant: the watchdog counts its deadline in polls the provider answered.
WatchInstanceUncounted(w) ==
  /\ Goto(w, "probe", "poll")
  /\ OnlyWork

\* Second half: the machine's actual_status. An error of the API (as for a
\* destroyed machine) leaves dead_polls alone; any other answer than a dead
\* one resets it.
WatchInstance(w) ==
  /\ work[w].pc = "probe"
  /\ LET state == inst[work[w].inst].state
         polled(d) == work' = [work EXCEPT ![w].pc = "poll", ![w].dead = d,
                                           ![w].polls = @ + 1]
     IN \/ polled(work[w].dead)
        \/ state # "dead" /\ polled(0)
        \/ state = "dead" /\ IF work[w].dead + 1 >= DeadPolls
                             THEN Finish(w, "error") ELSE polled(work[w].dead + 1)
  /\ OnlyWork

\* Mutant: a stopped job leaves its machine to the stop handler.
DestroyUnlessStopped(w) ==
  /\ work[w].pc = "destroy"
  /\ work' = [work EXCEPT ![w].pc = "revoke", ![w].inst = NoInstance]
  /\ IF work[w].inst = NoInstance \/ work[w].out = "stopped" THEN UNCHANGED inst
     ELSE inst' = [inst EXCEPT ![work[w].inst].state = "gone"]
  /\ UNCHANGED <<row, models, issued, creator, external, queue, posts, stopper,
                 redeliveries, raced>>

\* finally: destroy_instance, which reports its failure only to the log.
DestroyInstance(w) ==
  /\ work[w].pc = "destroy"
  /\ work' = [work EXCEPT ![w].pc = "revoke", ![w].inst = NoInstance]
  /\ LET i == work[w].inst IN
     IF i = NoInstance THEN UNCHANGED inst
     ELSE \/ inst' = [inst EXCEPT ![i].state = "gone"]
          \/ inst' = [inst EXCEPT ![i].orphan = (inst[i].state # "gone")]
  /\ UNCHANGED <<row, models, issued, creator, external, queue, posts, stopper,
                 redeliveries, raced>>

\* finally: callback_token = NULL, errors suppressed; then the pending outcome.
RevokeToken(w) ==
  /\ work[w].pc = "revoke"
  /\ work' = [work EXCEPT ![w] =
       CASE @.out = "stopped" -> Idle
         [] @.out = "result"  -> [@ EXCEPT !.pc = "select"]
         [] OTHER             -> [@ EXCEPT !.pc = "fail"]]
  /\ token' \in {0, token}
  /\ UNCHANGED <<status, gpuRef, models, issued, creator, external, queue, inst,
                 posts, stopper, redeliveries, raced>>

\* Registrations that found no model and have not inserted theirs.
Inserting == {w \in Workers : work[w].pc = "insert"}
             \cup {b \in Bridges : bridge[b] = "insert"}

\* Mutant: dispatch_training inserts without looking for a model of the job.
SelectModelSkipped(w) ==
  /\ Goto(w, "select", "insert")
  /\ raced' = (raced \/ Inserting # {})
  /\ UNCHANGED <<row, models, issued, creator, external, queue, inst, posts, stopper,
                 redeliveries>>

SelectModel(w) ==
  /\ Goto(w, "select", IF models = 0 THEN "insert" ELSE "complete")
  /\ raced' = (raced \/ (models = 0 /\ Inserting # {}))
  /\ UNCHANGED <<row, models, issued, creator, external, queue, inst, posts,
                 stopper, redeliveries>>

InsertModel(w) ==
  /\ Goto(w, "insert", "complete")
  /\ models' = models + 1
  /\ UNCHANGED <<row, issued, creator, external, queue, inst, posts, stopper,
                 redeliveries, raced>>

CompleteJob(w) ==
  /\ work[w].pc = "complete" /\ work' = [work EXCEPT ![w] = Idle]
  /\ UpdateJob("completed")
  /\ OnlyStatus

\* except Exception: update_job("failed") with its own errors suppressed.
FailJob(w) ==
  /\ Goto(w, "fail", "retry")
  /\ UpdateJob("failed") \/ UNCHANGED status
  /\ OnlyStatus

\* Mutant: the retry is published as a fresh task.
RetryAfresh(w) ==
  /\ work[w].pc = "retry" /\ work' = [work EXCEPT ![w] = Idle]
  /\ queue' = [queue EXCEPT ![0] = @ + 1]
  /\ UNCHANGED <<row, models, issued, creator, external, inst, posts, stopper,
                 redeliveries, raced>>

\* self.retry: a new message, unless retries are spent or the broker is down.
Retry(w) ==
  /\ work[w].pc = "retry" /\ work' = [work EXCEPT ![w] = Idle]
  /\ \/ /\ work[w].try < MaxRetries
        /\ queue' = [queue EXCEPT ![work[w].try + 1] = @ + 1]
     \/ UNCHANGED queue
  /\ UNCHANGED <<row, models, issued, creator, external, inst, posts, stopper,
                 redeliveries, raced>>

\* Any statement may raise. Before the try block the exception goes straight to
\* dispatch_training: no destroy, and the token stays.
Raise(w) ==
  /\ work' = [work EXCEPT ![w] =
       IF @.pc \in InTry THEN [@ EXCEPT !.pc = "destroy", !.out = "error"]
                         ELSE [@ EXCEPT !.pc = "fail"]]
  /\ work[w].pc \in BeforeTry \cup (InTry \ {"probe"}) \cup {"select", "insert", "complete"}
  /\ OnlyWork

Work(w) ==
  \/ Take(w) \/ Announce(w) \/ Route(w) \/ DispatchEdge(w) \/ Simulate(w)
  \/ DispatchHub(w) \/ PollHub(w) \/ IssueToken(w) \/ UploadDataset(w)
  \/ Recheck(w) \/ RentInstance(w) \/ RecordInstance(w) \/ WatchStatus(w)
  \/ WatchInstance(w) \/ DestroyInstance(w) \/ RevokeToken(w) \/ SelectModel(w)
  \/ InsertModel(w) \/ CompleteJob(w) \/ FailJob(w) \/ Retry(w) \/ Raise(w)

\* The worker process dies. The message was acknowledged with the child
\* (task_reject_on_worker_lost is not set) or comes back (the container died).
Crash(w) ==
  /\ work[w].pc # "idle"
  /\ work' = [work EXCEPT ![w] = Idle]
  /\ LET i == work[w].inst IN
     IF i = NoInstance THEN UNCHANGED inst
     ELSE inst' = [inst EXCEPT ![i].orphan = (inst[i].state # "gone")]
  /\ \/ UNCHANGED <<queue, redeliveries>>
     \/ /\ redeliveries < MaxRedeliveries
        /\ redeliveries' = redeliveries + 1
        /\ queue' = [queue EXCEPT ![work[w].try] = @ + 1]
  /\ UNCHANGED <<row, models, issued, creator, external, posts, stopper, raced>>

\* acks_late and the broker's visibility timeout: an execution that outlives it
\* is delivered again while it still runs.
Redeliver(w) ==
  /\ work[w].pc # "idle"
  /\ redeliveries < MaxRedeliveries
  /\ redeliveries' = redeliveries + 1
  /\ queue' = [queue EXCEPT ![work[w].try] = @ + 1]
  /\ UNCHANGED <<row, models, issued, creator, external, work, inst, posts,
                 stopper, raced>>

-----------------------------------------------------------------------------
(* The rented machine (remote_train.py) and its progress callbacks.        *)

\* The container exits or goes offline; the contract lives on.
InstanceDies(i) ==
  /\ inst[i].state \in {"training", "finished"}
  /\ inst' = [inst EXCEPT ![i].state = "dead"]
  /\ UNCHANGED <<row, models, issued, creator, external, queue, work, posts,
                 stopper, redeliveries, raced>>

Send(p, tok, s) ==
  /\ posts[p].pc = "idle"
  /\ posts' = [posts EXCEPT ![p] = [pc |-> "sent", tok |-> tok, status |-> s]]

\* post_callback: 'running' as often as it likes, then one final status.
PostCallback(i, p) ==
  /\ inst[i].state = "training"
  /\ \E s \in {"running", "completed", "failed"} :
       /\ Send(p, inst[i].tok, s)
       /\ inst' = [inst EXCEPT ![i].state = IF s = "running" THEN @ ELSE "finished"]
  /\ UNCHANGED <<row, models, issued, creator, external, queue, work, stopper,
                 redeliveries, raced>>

\* The training-service was given a token for the same route.
ServicePosts(p) ==
  /\ service = "training" /\ serviceTok # 0
  /\ \E s \in {"running", "completed", "failed"} : Send(p, serviceTok, s)
  /\ UNCHANGED <<row, models, issued, creator, external, queue, work, inst,
                 stopper, redeliveries, raced>>

OnlyPosts == UNCHANGED <<models, issued, creator, external, queue, work, inst,
                         stopper, redeliveries, raced>>

\* The handler reads the row and compares the tokens, or the request is lost.
CheckToken(p) ==
  /\ posts[p].pc = "sent"
  /\ posts' = [posts EXCEPT ![p].pc = IF posts[p].tok = token THEN "checked" ELSE "idle"]
  /\ UNCHANGED row /\ OnlyPosts

LosePost(p) ==
  /\ posts[p].pc # "idle"
  /\ posts' = [posts EXCEPT ![p].pc = "idle"]
  /\ UNCHANGED row /\ OnlyPosts

\* update_job_status: an UPDATE with no look at the status it overwrites.
ApplyCallback(p) ==
  /\ posts[p].pc = "checked"
  /\ posts' = [posts EXCEPT ![p].pc = "idle"]
  /\ status' = posts[p].status
  /\ UNCHANGED <<token, gpuRef>> /\ OnlyPosts

-----------------------------------------------------------------------------
(* stop_job_handler and the Redis bridge.                                  *)

\* stop_job: the UPDATE returns the row, and the row's gpu_instance_ref.
StopJob ==
  /\ stop.pc = "idle" /\ stops < MaxStops
  /\ status \in {"pending", "running"}
  /\ status' = "stopped" /\ stops' = stops + 1
  /\ stop' = [pc |-> "revoke", ref |-> gpuRef]
  /\ UNCHANGED <<token, gpuRef, models, issued, creator, external, queue, work,
                 inst, posts, redeliveries, raced>>

\* _teardown_vast_job: both halves are best effort.
StopRevokes ==
  /\ stop.pc = "revoke"
  /\ stop' = IF stop.ref = NoInstance THEN [stop EXCEPT !.pc = "idle"]
             ELSE [stop EXCEPT !.pc = "destroy"]
  /\ token' \in {0, token}
  /\ UNCHANGED <<status, gpuRef, models, issued, creator, external, queue, work,
                 inst, posts, stops, redeliveries, raced>>

StopDestroys ==
  /\ stop.pc = "destroy"
  /\ stop' = [pc |-> "idle", ref |-> NoInstance]
  /\ \/ inst' = [inst EXCEPT ![stop.ref].state = "gone"]
     \/ UNCHANGED inst
  /\ UNCHANGED <<row, models, issued, creator, external, queue, work, posts,
                 stops, redeliveries, raced>>

\* The training-service publishes 'completed' on training:{job}; pub/sub
\* reaches the bridges that are connected.
ServicePublishes ==
  /\ service = "training" /\ service' = "finished"
  /\ \E heard \in SUBSET Bridges :
       bridge' = [b \in Bridges |-> IF b \in heard THEN "select" ELSE bridge[b]]
  /\ UNCHANGED <<row, models, issued, creator, serviceTok, queue, work, inst,
                 posts, stopper, redeliveries, raced>>

OnlyBridge == UNCHANGED <<row, issued, creator, service, serviceTok, queue, work,
                          inst, posts, stopper, redeliveries>>

BridgeSelects(b) ==
  /\ bridge[b] = "select"
  /\ bridge' = [bridge EXCEPT ![b] = IF models = 0 THEN "insert" ELSE "done"]
  /\ raced' = (raced \/ (models = 0 /\ Inserting # {}))
  /\ UNCHANGED models /\ OnlyBridge

BridgeInserts(b) ==
  /\ bridge[b] = "insert"
  /\ bridge' = [bridge EXCEPT ![b] = "done"]
  /\ models' = models + 1
  /\ UNCHANGED raced /\ OnlyBridge

BridgeFails(b) ==
  /\ bridge[b] \in {"select", "insert"}
  /\ bridge' = [bridge EXCEPT ![b] = "done"]
  /\ UNCHANGED <<models, raced>> /\ OnlyBridge

-----------------------------------------------------------------------------
Create == CreatorIssuesToken \/ CreatorPosts \/ CreatorFallsBack
Remote == \/ \E i \in Instances : InstanceDies(i) \/ \E p \in Posts : PostCallback(i, p)
          \/ \E p \in Posts : ServicePosts(p) \/ CheckToken(p) \/ LosePost(p) \/ ApplyCallback(p)
Stop   == StopJob \/ StopRevokes \/ StopDestroys
Bridge == \/ ServicePublishes
          \/ \E b \in Bridges : BridgeSelects(b) \/ BridgeInserts(b) \/ BridgeFails(b)

Next == \/ Create
        \/ \E w \in Workers : Work(w) \/ Crash(w) \/ Redeliver(w)
        \/ Remote \/ Stop \/ Bridge

Spec == Init /\ [][Next]_vars

\* A Celery worker that runs keeps running: every execution takes its next step.
FairSpec == Spec /\ \A w \in Workers : WF_vars(Work(w))
-----------------------------------------------------------------------------
TypeOK ==
  /\ status \in Statuses /\ token \in Nat /\ gpuRef \in Instances \cup {NoInstance}
  /\ models \in Nat /\ issued \in Nat
  /\ creator \in {"token", "post", "fallback", "done"}
  /\ service \in {"none", "training", "finished"} /\ serviceTok \in Nat
  /\ queue \in [0..MaxRetries -> Nat]
  /\ work \in [Workers -> [pc : Points, try : 0..MaxRetries, tok : Nat,
                           inst : Instances \cup {NoInstance}, polls : Nat, dead : Nat,
                           out : {"none", "result", "stopped", "error"}]]
  /\ inst \in [Instances -> [state : Rented \cup {"free", "gone"}, tok : Nat,
                             orphan : BOOLEAN]]
  /\ posts \in [Posts -> [pc : {"idle", "sent", "checked"}, tok : Nat,
                          status : {"running", "completed", "failed"}]]
  /\ stop \in [pc : {"idle", "revoke", "destroy"}, ref : Instances \cup {NoInstance}]
  /\ stops \in Nat /\ redeliveries \in Nat
  /\ bridge \in [Bridges -> {"listening", "select", "insert", "done"}]
  /\ raced \in BOOLEAN

\* No paid machine outlives the execution that rented it, unless a fault the
\* code only logs set it loose: the answer of create_instance was lost, the
\* worker died, or the provider refused the DELETE of the finally block.
InstanceAccounted ==
  \A i \in Instances : inst[i].state \in Rented =>
    \/ inst[i].orphan
    \/ \E w \in Workers : work[w].inst = i /\ work[w].pc \in InTry \cup Finally

\* max_retries bounds what a job can cost: each delivery of its message pays
\* for at most one machine and one retry.
RentalsBounded ==
  Cardinality({i \in Instances : inst[i].state # "free"})
    <= (MaxRetries + 1) * (redeliveries + 1)

\* The guard of update_job: only a callback that passed its token check before
\* the token was revoked takes a job out of 'stopped'; no worker does.
StopGuarded ==
  [][status = "stopped" /\ status' # "stopped" =>
       \E p \in Posts : posts[p].pc = "checked" /\ posts'[p].pc = "idle"]_vars

\* The stop has settled: the job was handed over before, no callback is past
\* its check, and the token in the row (an execution may have issued it since)
\* is in nobody's hands.
StopSettled ==
  /\ status = "stopped"
  /\ creator \in {"fallback", "done"}
  /\ \A p \in Posts : posts[p].pc # "checked"
  /\ token # 0 =>
       /\ \A p \in Posts : ~(posts[p].pc = "sent" /\ posts[p].tok = token)
       /\ \A i \in Instances : ~(inst[i].state = "training" /\ inst[i].tok = token)
       /\ \A w \in Workers : ~(work[w].pc = "rent" /\ work[w].tok = token)
       /\ service = "training" => serviceTok # token

\* Once settled a stop is for good, whatever executions are still under way:
\* none of them hands out a token that works before it has seen the stop.
StopFinal == [][StopSettled => StopSettled']_vars

\* A job has one trained model unless two registrations overlapped between
\* their SELECT and their INSERT (job_id has no UNIQUE constraint).
OneModelUnlessRaced == models > 1 => raced

\* Every rented machine is given back, or is one a logged fault set loose: the
\* watchdog's deadline ends every execution.
InstanceReleased ==
  \A i \in Instances : inst[i].state \in Rented ~> (inst[i].state = "gone" \/ inst[i].orphan)

=============================================================================
