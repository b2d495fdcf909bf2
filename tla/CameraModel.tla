---------------------------- MODULE CameraModel ----------------------------
(***************************************************************************)
(* Which model a camera's inference runs. Requests of the API deploy a     *)
(* model, roll back to an earlier deployment or assign a model directly,   *)
(* each in several statements, and then publish that something changed.    *)
(* The camera's inference loop resolves the model when it starts and again *)
(* when it hears of a change; it subscribes to the channel only after its  *)
(* first resolution. One camera, one module code, one worker process.      *)
(***************************************************************************)
EXTENDS Integers, Sequences, FiniteSetsExt

CONSTANTS
  Models,      \* trained_models of the tenant
  Usable,      \* those with an ONNX file
  Requests,    \* requests of the API at the same time
  MaxChanges,  \* bound: requests in all
  NoModel      \* no model; for a detector, the one of the environment

ASSUME ConstantsOK ==
  Usable \subseteq Models /\ NoModel \notin Models /\ MaxChanges \in Nat

VARIABLES
  deployments,  \* rows of model_deployments by created_at
  override,     \* cameras.model_{module}_id
  req,          \* req[r]: a request between its statements
  changes,      \* requests so far
  loop,         \* inference_loop: where it is, what it read, what it runs
  cache,        \* _camera_detectors[camera_id] of the process
  channel,      \* a message waits in the loop's subscription
  raced,        \* history: a deployment began inside another one
  halved,       \* history: the last deployment was not created
  unheard,      \* history: a change the loop was not told of
  fallen        \* history: the loop fell back because something failed

store == <<deployments, override, changes, raced, halved>>
vars  == <<store, req, loop, cache, channel, unheard, fallen>>

-----------------------------------------------------------------------------
NoRequest == [pc |-> "idle", model |-> NoModel]
NoLoop    == [pc |-> "off", seen |-> NoModel, resolved |-> NoModel,
              detector |-> NoModel, sub |-> "none"]

Actives == {d \in DOMAIN deployments : deployments[d].active}

\* get_active_for_camera takes the newest; without one the camera's own
\* column counts, as the loop has read it.
Cascade(column) == IF Actives = {} THEN column ELSE deployments[Max(Actives)].model

\* Without an ONNX file: the fallback of the environment.
Runs(m) == IF m \in Usable THEN m ELSE NoModel

Effective == Runs(Cascade(override))

Init ==
  /\ deployments = << >> /\ override = NoModel /\ changes = 0
  /\ req = [r \in Requests |-> NoRequest]
  /\ loop = NoLoop /\ cache = NoModel /\ channel = FALSE
  /\ raced = FALSE /\ halved = FALSE /\ unheard = FALSE /\ fallen = FALSE

-----------------------------------------------------------------------------
(* The requests. *)

Enter(r, pc, m) ==
  /\ req[r] = NoRequest /\ changes < MaxChanges
  /\ changes' = changes + 1
  /\ req' = [req EXCEPT ![r] = [pc |-> pc, model |-> m]]

\* post_camera_model_config up to its first write. Whether the model has an
\* ONNX file is not asked.
Deploy(r, m) ==
  /\ Enter(r, "deactivate", m)
  /\ UNCHANGED <<deployments, override, raced, halved, loop, cache, channel, unheard, fallen>>

\* post_camera_model_config_rollback: the model of an earlier row.
Rollback(r, d) ==
  /\ Enter(r, "deactivate", deployments[d].model)
  /\ UNCHANGED <<deployments, override, raced, halved, loop, cache, channel, unheard, fallen>>

\* set_camera_model, put_camera_models: one UPDATE; null takes the model away.
Assign(r, m) ==
  /\ Enter(r, "notify", m)
  /\ override' = m
  /\ UNCHANGED <<deployments, raced, halved, loop, cache, channel, unheard, fallen>>

\* Mutant: only the row the resolver would use.
DeactivateNewest(r) ==
  /\ req[r].pc = "deactivate"
  /\ deployments' = [d \in DOMAIN deployments |->
       [deployments[d] EXCEPT !.active = @ /\ d # Max(Actives)]]
  /\ raced' = (\E q \in Requests \ {r} : req[q].pc = "create")
  /\ req' = [req EXCEPT ![r].pc = "create"]
  /\ UNCHANGED <<override, changes, halved, loop, cache, channel, unheard, fallen>>

\* deactivate_active_for_camera
Deactivate(r) ==
  /\ req[r].pc = "deactivate"
  /\ deployments' = [d \in DOMAIN deployments |-> [deployments[d] EXCEPT !.active = FALSE]]
  /\ raced' = (\E q \in Requests \ {r} : req[q].pc = "create")
  /\ req' = [req EXCEPT ![r].pc = "create"]
  /\ UNCHANGED <<override, changes, halved, loop, cache, channel, unheard, fallen>>

\* ModelDeploymentRepository.create, a transaction of its own.
Create(r) ==
  /\ req[r].pc = "create"
  /\ deployments' = Append(deployments, [model |-> req[r].model, active |-> TRUE])
  /\ halved' = FALSE
  /\ req' = [req EXCEPT ![r].pc = "notify"]
  /\ UNCHANGED <<override, changes, raced, loop, cache, channel, unheard, fallen>>

\* A loop that is running, past the first of its reads, does not learn of it.
Miss == unheard' = (unheard \/ loop.pc \notin {"off", "camera"})

\* A statement fails or the process dies: answered 500, and not announced.
\* What the first statement deactivated stays inactive.
DeployFails(r) ==
  /\ req[r].pc \in {"deactivate", "create"}
  /\ IF req[r].pc = "create" THEN halved' = TRUE /\ Miss ELSE UNCHANGED <<halved, unheard>>
  /\ req' = [req EXCEPT ![r] = NoRequest]
  /\ UNCHANGED <<deployments, override, changes, raced, loop, cache, channel, fallen>>

\* _notify_model_change, _notify_model_assignment: Redis keeps a message only
\* for those who have subscribed.
Notify(r) ==
  /\ req[r].pc = "notify"
  /\ IF loop.sub = "open" THEN channel' = TRUE /\ UNCHANGED unheard
                          ELSE Miss /\ UNCHANGED channel
  /\ req' = [req EXCEPT ![r] = NoRequest]
  /\ UNCHANGED <<store, loop, cache, fallen>>

\* The exception is logged and swallowed.
NotifyFails(r) ==
  /\ req[r].pc = "notify" /\ Miss
  /\ req' = [req EXCEPT ![r] = NoRequest]
  /\ UNCHANGED <<store, loop, cache, channel, fallen>>

Statement(r) == Deactivate(r) \/ Create(r) \/ Notify(r)

-----------------------------------------------------------------------------
(* inference_loop *)

\* A resolution that begins reads whatever was written before it.
Resolve(sub) ==
  /\ loop' = [loop EXCEPT !.pc = "camera", !.sub = sub]
  /\ channel' = FALSE /\ unheard' = FALSE /\ fallen' = FALSE

Start == loop.pc = "off" /\ Resolve("none") /\ UNCHANGED <<store, req, cache>>

\* CameraRepository.get_by_id: the column, read before the deployments.
ReadCamera ==
  /\ loop.pc = "camera"
  /\ loop' = [loop EXCEPT !.pc = "deployment", !.seen = override]
  /\ UNCHANGED <<store, req, cache, channel, unheard, fallen>>

ReadDeployment ==
  /\ loop.pc = "deployment"
  /\ loop' = [loop EXCEPT !.pc = "load", !.resolved = Runs(Cascade(loop.seen))]
  /\ UNCHANGED <<store, req, cache, channel, unheard, fallen>>

\* After the first resolution the subscription, after the others the frame.
Run(m) == loop' = [loop EXCEPT
  !.pc = IF loop.sub = "none" THEN "subscribe" ELSE "frame",
  !.seen = NoModel, !.resolved = NoModel, !.detector = m]

\* Mutant: the cache is looked up by camera only.
LoadAnyCached ==
  /\ loop.pc = "load"
  /\ Run(IF cache # NoModel THEN cache ELSE loop.resolved)
  /\ cache' = IF cache = NoModel THEN loop.resolved ELSE cache
  /\ UNCHANGED <<store, req, channel, unheard, fallen>>

\* _get_detector_for_camera: the cached detector if it is of this model.
Load ==
  /\ loop.pc = "load" /\ Run(loop.resolved)
  /\ cache' = IF loop.resolved = NoModel THEN cache ELSE loop.resolved
  /\ UNCHANGED <<store, req, channel, unheard, fallen>>

\* A SELECT raises, or the download or the detector's start does: the
\* environment's detector, until the next change is heard of.
FallBack ==
  /\ \/ loop.pc \in {"camera", "deployment"}
     \/ loop.pc = "load" /\ loop.resolved \notin {NoModel, cache}
  /\ Run(NoModel) /\ fallen' = TRUE
  /\ UNCHANGED <<store, req, cache, channel, unheard>>

\* _subscribe_model_change; without Redis it returns None, and the loop
\* never hears of anything.
Subscribe(sub) ==
  /\ loop.pc = "subscribe"
  /\ loop' = [loop EXCEPT !.pc = "frame", !.sub = sub]
  /\ UNCHANGED <<store, req, cache, channel, unheard, fallen>>

\* Mutant: nothing cached, nothing to invalidate.
DrainIfCached ==
  /\ loop.pc = "frame" /\ channel /\ cache # NoModel
  /\ Resolve(loop.sub) /\ cache' = NoModel
  /\ UNCHANGED <<store, req>>

\* _drain_model_change, _invalidate_camera_detector, and a new resolution.
Drain ==
  /\ loop.pc = "frame" /\ channel
  /\ Resolve(loop.sub) /\ cache' = NoModel
  /\ UNCHANGED <<store, req>>

\* The connection drops: what was published meanwhile is gone.
Disconnect ==
  /\ channel
  /\ channel' = FALSE /\ unheard' = TRUE
  /\ UNCHANGED <<store, req, loop, cache, fallen>>

\* Mutant: the subscription outlives the loop.
EndUnclosed ==
  /\ loop.pc = "frame"
  /\ loop' = NoLoop /\ cache' \in {cache, NoModel}
  /\ unheard' = FALSE /\ fallen' = FALSE
  /\ UNCHANGED <<store, req, channel>>

\* The active key is gone, or an exception; its retry is a Start. The process
\* may go on with other tasks or be a new one.
End ==
  /\ loop.pc = "frame"
  /\ loop' = NoLoop /\ channel' = FALSE /\ cache' \in {cache, NoModel}
  /\ unheard' = FALSE /\ fallen' = FALSE
  /\ UNCHANGED <<store, req>>

LoopStep == ReadCamera \/ ReadDeployment \/ Load \/ Subscribe("open") \/ Drain

-----------------------------------------------------------------------------
Next ==
  \/ \E r \in Requests :
       \/ \E m \in Models : Deploy(r, m)
       \/ \E d \in DOMAIN deployments : Rollback(r, d)
       \/ \E m \in Models \cup {NoModel} : Assign(r, m)
       \/ Deactivate(r) \/ Create(r) \/ DeployFails(r)
       \/ Notify(r) \/ NotifyFails(r)
  \/ Start \/ ReadCamera \/ ReadDeployment \/ Load \/ FallBack
  \/ Subscribe("open") \/ Subscribe("failed") \/ Drain \/ Disconnect \/ End

Spec == Init /\ [][Next]_vars

\* Requests and the loop go on; nothing is assumed of Redis and failures.
FairSpec == /\ Spec /\ WF_vars(LoopStep)
            /\ \A r \in Requests : WF_vars(Statement(r))

-----------------------------------------------------------------------------
(* Properties *)

\* The variables keep their types; a loop with a message waiting subscribed.
TypeOK ==
  /\ deployments \in Seq([model : Models, active : BOOLEAN])
  /\ override \in Models \cup {NoModel}
  /\ changes \in 0..MaxChanges
  /\ req \in [Requests -> [pc : {"idle", "deactivate", "create", "notify"},
                           model : Models \cup {NoModel}]]
  /\ loop \in [pc : {"off", "camera", "deployment", "load", "subscribe", "frame"},
               seen : Models \cup {NoModel}, resolved : Usable \cup {NoModel},
               detector : Usable \cup {NoModel}, sub : {"none", "open", "failed"}]
  /\ cache \in Usable \cup {NoModel}
  /\ raced \in BOOLEAN /\ halved \in BOOLEAN
  /\ unheard \in BOOLEAN /\ fallen \in BOOLEAN
  /\ channel \in BOOLEAN /\ (channel => loop.sub = "open")

Creating == {r \in Requests : req[r].pc = "create"}

\* A camera that has ever been deployed to has exactly one active deployment
\* but while one is being replaced, after one failed half-way, or when two
\* requests deployed at once (deactivate and create are two transactions).
OneDeployment ==
  /\ ~raced => \A d, e \in Actives : d = e
  /\ (deployments # << >> /\ Creating = {} /\ ~halved) => Actives # {}

\* Between changes the loop runs the model the camera is configured for,
\* unless it was not told of the change or could not load it.
Followed ==
  (/\ loop.pc = "frame" /\ ~channel /\ ~unheard /\ ~fallen
   /\ \A r \in Requests : req[r].pc \notin {"create", "notify"})
    => loop.detector = Effective

\* Once the changes cease, the loop comes to run the effective model for good,
\* unless the last of them was lost on its way or could not be loaded.
EventuallyFollowed ==
  <>[](loop.pc = "frame" => loop.detector = Effective \/ unheard \/ fallen)
=============================================================================
