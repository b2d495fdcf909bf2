------------------------- MODULE CameraModel_proofs -------------------------
(***************************************************************************)
(* Proofs about CameraModel, for any models and any number of requests:    *)
(* when a camera can have two active deployments or none, and that a loop  *)
(* that has heard of everything runs the effective model. The latter rests *)
(* on what the loop holds half-way through a resolution: nothing that was  *)
(* read before a change stays in its hands without a message waiting.      *)
(***************************************************************************)
EXTENDS CameraModel, SequenceTheorems, TLAPS

\* Deployments write the model of a row, never "no model".
RequestInv == \A r \in Requests : req[r].pc \in {"deactivate", "create"} => req[r].model \in Models

\* Without a race, who is about to create is alone and nothing is active.
AloneInv == ~raced => /\ \A r, q \in Creating : r = q
                      /\ Creating # {} => Actives = {}

\* A message can be waiting only for a loop that has subscribed.
SubInv == loop.pc = "subscribe" => loop.sub = "none"

\* No change is unannounced, on its way or missed.
Settled == /\ ~channel /\ ~unheard /\ ~fallen
           /\ \A r \in Requests : req[r].pc \notin {"create", "notify"}

\* What the loop holds, wherever it is, is then what is stored.
LoopInv == Settled =>
  /\ loop.pc = "deployment" => loop.seen = override
  /\ loop.pc = "load" => loop.resolved = Effective
  /\ loop.pc \in {"subscribe", "frame"} => loop.detector = Effective

IInv == TypeOK /\ RequestInv /\ AloneInv /\ OneDeployment /\ SubInv /\ LoopInv

Row     == [model : Models, active : BOOLEAN]
ReqType == [pc : {"idle", "deactivate", "create", "notify"}, model : Models \cup {NoModel}]

-----------------------------------------------------------------------------
\* The initial states satisfy the inductive invariant.
LEMMA InitIInv == Init => IInv
<1> SUFFICES ASSUME Init PROVE IInv
  OBVIOUS
<1>1. deployments \in Seq(Row) /\ deployments = << >>
  BY EmptySeq DEF Init
<1>2. req \in [Requests -> ReqType] /\ loop.pc = "off" /\ \A r \in Requests : req[r].pc = "idle"
  BY DEF Init, ReqType, NoRequest, NoLoop
<1>3. TypeOK
  <2>1. /\ loop \in [pc : {"off", "camera", "deployment", "load", "subscribe", "frame"},
                     seen : Models \cup {NoModel}, resolved : Usable \cup {NoModel},
                     detector : Usable \cup {NoModel}, sub : {"none", "open", "failed"}]
    BY DEF Init, NoLoop
  <2>2. changes \in 0..MaxChanges
    BY ConstantsOK DEF Init
  <2> QED
    BY <1>1, <1>2, <2>1, <2>2 DEF Init, TypeOK, Row, ReqType
<1>4. Creating = {} /\ Actives = {}
  BY <1>1, <1>2, EmptySeq DEF Creating, Actives
<1> QED
  BY <1>1, <1>2, <1>3, <1>4 DEF IInv, RequestInv, AloneInv, OneDeployment, SubInv, LoopInv

\* A step that leaves the rows alone leaves Actives and the effective model.
LEMMA StoreKept == ASSUME UNCHANGED deployments
                   PROVE  Actives' = Actives /\ (override' = override => Effective' = Effective)
<1>1. Actives' = Actives
  BY DEF Actives
<1>2. ASSUME override' = override PROVE Effective' = Effective
  BY <1>1, <1>2 DEF Effective, Cascade
<1> QED
  BY <1>1, <1>2

\* One request moves to v.
LEMMA RequestMoves ==
  ASSUME IInv, NEW r \in Requests, NEW v \in ReqType, req' = [req EXCEPT ![r] = v]
  PROVE  /\ req' \in [Requests -> ReqType]
         /\ \A q \in Requests : req'[q] = IF q = r THEN v ELSE req[q]
         /\ Creating' = IF v.pc = "create" THEN Creating \cup {r} ELSE Creating \ {r}
<1>1. req \in [Requests -> ReqType]
  BY DEF IInv, TypeOK, ReqType
<1>2. \A q \in Requests : req'[q] = IF q = r THEN v ELSE req[q]
  BY <1>1
<1> QED
  BY <1>1, <1>2 DEF Creating

\* A request begins. An assignment is unannounced from its UPDATE on.
LEMMA EnterStep ==
  ASSUME IInv, NEW r \in Requests,
         \/ \E m \in Models : Deploy(r, m)
         \/ \E d \in DOMAIN deployments : Rollback(r, d)
         \/ \E m \in Models \cup {NoModel} : Assign(r, m)
  PROVE  IInv'
<1>1. PICK pc \in {"deactivate", "notify"}, m \in Models \cup {NoModel} :
        /\ Enter(r, pc, m) /\ (pc = "deactivate" => m \in Models /\ override' = override)
        /\ override' \in Models \cup {NoModel}
        /\ UNCHANGED <<deployments, raced, halved, loop, cache, channel, unheard, fallen>>
  <2>1. CASE \E m \in Models : Deploy(r, m)
    BY <2>1 DEF Deploy, IInv, TypeOK
  <2>2. CASE \E d \in DOMAIN deployments : Rollback(r, d)
    <3>1. \A d \in DOMAIN deployments : deployments[d].model \in Models
      <4>1. deployments \in [1..Len(deployments) -> Row]
        BY LenProperties DEF IInv, TypeOK, Row
      <4> QED
        BY <4>1 DEF Row
    <3> QED
      BY <2>2, <3>1 DEF Rollback, IInv, TypeOK
  <2>3. CASE \E m \in Models \cup {NoModel} : Assign(r, m)
    BY <2>3 DEF Assign
  <2> QED
    BY <2>1, <2>2, <2>3
<1> DEFINE v == [pc |-> pc, model |-> m]
<1>2. v \in ReqType /\ v.pc = pc /\ v.model = m
  BY DEF ReqType
<1>3. req[r].pc = "idle" /\ changes' \in 0..MaxChanges /\ req' = [req EXCEPT ![r] = v]
  BY <1>1, ConstantsOK DEF Enter, NoRequest, IInv, TypeOK
<1> HIDE DEF v
<1>4. /\ req' \in [Requests -> ReqType] /\ Creating' = Creating
      /\ \A q \in Requests : req'[q] = IF q = r THEN v ELSE req[q]
  BY <1>2, <1>3, RequestMoves DEF Creating
<1>5. Actives' = Actives /\ (override' = override => Effective' = Effective)
  BY <1>1, StoreKept
<1>6. TypeOK'
  BY <1>1, <1>3, <1>4 DEF IInv, TypeOK, ReqType
<1>7. RequestInv' /\ AloneInv' /\ OneDeployment' /\ SubInv'
  BY <1>1, <1>2, <1>4, <1>5 DEF IInv, RequestInv, AloneInv, OneDeployment, SubInv
<1>8. Settled' => Settled /\ override' = override
  BY <1>1, <1>2, <1>3, <1>4 DEF Settled
<1>9. LoopInv'
  BY <1>1, <1>5, <1>8 DEF IInv, LoopInv
<1> QED
  BY <1>6, <1>7, <1>9 DEF IInv

\* The first statement of a deployment.
LEMMA DeactivateStep == ASSUME IInv, NEW r \in Requests, Deactivate(r) PROVE IInv'
<1> DEFINE v == [req[r] EXCEPT !.pc = "create"]
<1>1. /\ deployments' = [d \in DOMAIN deployments |-> [deployments[d] EXCEPT !.active = FALSE]]
      /\ raced' = (\E q \in Requests \ {r} : req[q].pc = "create")
      /\ req' = [req EXCEPT ![r] = v] /\ req[r].pc = "deactivate"
      /\ UNCHANGED <<override, changes, halved, loop, cache, channel, unheard, fallen>>
  BY DEF Deactivate
<1>2. v \in ReqType /\ v.pc = "create" /\ v.model \in Models
  BY <1>1 DEF IInv, TypeOK, ReqType, RequestInv
<1> HIDE DEF v
<1>3. /\ req' \in [Requests -> ReqType] /\ Creating' = Creating \cup {r}
      /\ \A q \in Requests : req'[q] = IF q = r THEN v ELSE req[q]
  BY <1>1, <1>2, RequestMoves
<1>4. deployments' \in Seq(Row) /\ \A d \in DOMAIN deployments' : ~deployments'[d].active
  <2>1. deployments \in [1..Len(deployments) -> Row] /\ Len(deployments) \in Nat
    BY LenProperties DEF IInv, TypeOK, Row
  <2>2. deployments' \in [1..Len(deployments) -> Row]
    BY <1>1, <2>1 DEF Row
  <2> QED
    BY <1>1, <2>1, <2>2, IsASeq DEF Row
<1>5. Actives' = {}
  BY <1>4 DEF Actives
<1>6. TypeOK'
  <2>1. raced' \in BOOLEAN
    BY <1>1
  <2> QED
    BY <1>1, <1>3, <1>4, <2>1 DEF IInv, TypeOK, ReqType, Row
<1>7. RequestInv' /\ SubInv'
  BY <1>1, <1>2, <1>3 DEF IInv, RequestInv, SubInv
<1>8. AloneInv' /\ OneDeployment'
  <2>1. ~raced' => Creating' = {r}
    BY <1>1, <1>3 DEF Creating
  <2> QED
    BY <1>3, <1>5, <2>1 DEF AloneInv, OneDeployment
<1>9. LoopInv'
  BY <1>2, <1>3 DEF LoopInv, Settled
<1> QED
  BY <1>6, <1>7, <1>8, <1>9 DEF IInv

\* The second: the new row is the only active one unless somebody raced.
LEMMA CreateStep == ASSUME IInv, NEW r \in Requests, Create(r) PROVE IInv'
<1> DEFINE v == [req[r] EXCEPT !.pc = "notify"]
           new == [model |-> req[r].model, active |-> TRUE]
<1>1. /\ deployments' = Append(deployments, new) /\ halved' = FALSE
      /\ req' = [req EXCEPT ![r] = v] /\ req[r].pc = "create"
      /\ UNCHANGED <<override, changes, raced, loop, cache, channel, unheard, fallen>>
  BY DEF Create
<1>2. v \in ReqType /\ v.pc = "notify" /\ new \in Row /\ new.active
  BY <1>1 DEF IInv, TypeOK, ReqType, RequestInv, Row
<1> HIDE DEF v, new
<1>3. /\ req' \in [Requests -> ReqType] /\ Creating' = Creating \ {r} /\ r \in Creating
      /\ \A q \in Requests : req'[q] = IF q = r THEN v ELSE req[q]
  BY <1>1, <1>2, RequestMoves DEF Creating
<1> DEFINE n == Len(deployments) + 1
<1>4. deployments' \in Seq(Row) /\ Actives' = Actives \cup {n}
  <2>1. deployments \in Seq(Row)
    BY DEF IInv, TypeOK, Row
  <2>2. /\ deployments' \in Seq(Row) /\ DOMAIN deployments' = DOMAIN deployments \cup {n}
        /\ deployments'[n] = new /\ n \notin DOMAIN deployments
        /\ \A d \in DOMAIN deployments : deployments'[d] = deployments[d]
    BY <1>1, <1>2, <2>1, AppendProperties, LenProperties
  <2> QED
    BY <1>2, <2>2 DEF Actives
<1> HIDE DEF n
<1>5. TypeOK'
  <2>1. halved' \in BOOLEAN
    BY <1>1
  <2> QED
    BY <1>1, <1>3, <1>4, <2>1 DEF IInv, TypeOK, ReqType, Row
<1>6. RequestInv' /\ SubInv'
  BY <1>1, <1>2, <1>3 DEF IInv, RequestInv, SubInv
<1>7. AloneInv' /\ OneDeployment'
  BY <1>1, <1>3, <1>4 DEF IInv, AloneInv, OneDeployment
<1>8. LoopInv'
  BY <1>2, <1>3 DEF LoopInv, Settled
<1> QED
  BY <1>5, <1>6, <1>7, <1>8 DEF IInv

\* A request ends, announced or not: the loop has a message, has missed the
\* change, or has not read anything yet.
LEMMA EndStep ==
  ASSUME IInv, NEW r \in Requests, DeployFails(r) \/ Notify(r) \/ NotifyFails(r) PROVE IInv'
<1>1. /\ req' = [req EXCEPT ![r] = NoRequest]
      /\ UNCHANGED <<deployments, override, changes, raced, loop, cache, fallen>>
  BY DEF DeployFails, Notify, NotifyFails, store
<1>2. NoRequest \in ReqType /\ NoRequest.pc = "idle"
  BY DEF NoRequest, ReqType
<1>3. /\ req' \in [Requests -> ReqType] /\ Creating' = Creating \ {r}
      /\ \A q \in Requests : req'[q] = IF q = r THEN NoRequest ELSE req[q]
  BY <1>1, <1>2, RequestMoves
<1>4. Actives' = Actives /\ Effective' = Effective
  BY <1>1, StoreKept
<1>5. /\ halved' \in BOOLEAN /\ unheard' \in BOOLEAN /\ channel' \in BOOLEAN
      /\ (channel' => loop.sub = "open") /\ (r \in Creating => halved')
      /\ (r \notin Creating => halved' = halved)
  <2>1. CASE DeployFails(r)
    BY <2>1 DEF DeployFails, Miss, Creating, IInv, TypeOK
  <2>2. CASE Notify(r)
    BY <2>2 DEF Notify, Miss, Creating, store, IInv, TypeOK
  <2>3. CASE NotifyFails(r)
    BY <2>3 DEF NotifyFails, Miss, Creating, store, IInv, TypeOK
  <2> QED
    BY <2>1, <2>2, <2>3
<1>6. TypeOK'
  BY <1>1, <1>3, <1>5 DEF IInv, TypeOK, ReqType
<1>7. RequestInv' /\ SubInv'
  BY <1>1, <1>2, <1>3 DEF IInv, RequestInv, SubInv
<1>8. AloneInv' /\ OneDeployment'
  BY <1>1, <1>3, <1>4, <1>5 DEF IInv, AloneInv, OneDeployment
<1>9. LoopInv'
  <2>1. CASE req[r].pc = "deactivate"
    <3>1. UNCHANGED <<channel, unheard>>
      BY <2>1 DEF DeployFails, Notify, NotifyFails
    <3>2. Settled' => Settled
      BY <1>1, <1>3, <2>1, <3>1 DEF Settled
    <3> QED
      BY <1>1, <1>4, <3>2 DEF IInv, LoopInv
  <2>2. CASE req[r].pc # "deactivate"
    <3>1. channel' \/ unheard' \/ loop.pc \in {"off", "camera"}
      BY <2>2 DEF DeployFails, Notify, NotifyFails, Miss
    <3> QED
      BY <1>1, <3>1 DEF LoopInv, Settled
  <2> QED
    BY <2>1, <2>2
<1> QED
  BY <1>6, <1>7, <1>8, <1>9 DEF IInv

\* The loop's own steps leave store and requests alone.
LEMMA LoopKeeps ==
  ASSUME IInv, UNCHANGED <<store, req>>, TypeOK', SubInv', LoopInv' PROVE IInv'
<1>1. Actives' = Actives /\ Creating' = Creating
  BY StoreKept DEF Creating, store
<1> QED
  BY <1>1 DEF IInv, RequestInv, AloneInv, OneDeployment, store

\* What a loop may hold.
LoopType == [pc : {"off", "camera", "deployment", "load", "subscribe", "frame"},
             seen : Models \cup {NoModel}, resolved : Usable \cup {NoModel},
             detector : Usable \cup {NoModel}, sub : {"none", "open", "failed"}]

LEMMA LoopTyped ==
  ASSUME IInv, UNCHANGED <<store, req>>, loop' \in LoopType, cache' \in Usable \cup {NoModel},
         unheard' \in BOOLEAN, fallen' \in BOOLEAN, channel' \in BOOLEAN,
         channel' => loop'.sub = "open"
  PROVE  TypeOK'
  BY DEF IInv, TypeOK, LoopType, store

\* inference_loop: whatever it reads while nothing is unannounced stays right
\* until something is.
LEMMA LoopStepKeeps ==
  ASSUME IInv, \/ Start \/ ReadCamera \/ ReadDeployment \/ Load \/ FallBack
               \/ Subscribe("open") \/ Subscribe("failed") \/ Drain \/ Disconnect \/ End
  PROVE  IInv'
<1>1. UNCHANGED <<store, req>> /\ Effective' = Effective
  <2>1. UNCHANGED <<store, req>>
    BY DEF Start, ReadCamera, ReadDeployment, Load, FallBack, Subscribe, Drain, Disconnect, End
  <2> QED
    BY <2>1, StoreKept DEF store
<1>2. loop \in LoopType /\ (channel => loop.sub = "open") /\ cache \in Usable \cup {NoModel}
  BY DEF IInv, TypeOK, LoopType
<1>3. Settled' => ~channel' /\ ~unheard' /\ ~fallen'
                  /\ \A r \in Requests : req[r].pc \notin {"create", "notify"}
  BY <1>1 DEF Settled
<1>4. ASSUME Start \/ Drain PROVE IInv'
  <2>1. PICK sub \in {"none", "open", "failed"} : Resolve(sub)
    BY <1>2, <1>4 DEF Start, Drain, LoopType
  <2>2. loop' \in LoopType /\ loop'.pc = "camera" /\ ~channel' /\ unheard' \in BOOLEAN /\ fallen' \in BOOLEAN
    BY <1>2, <2>1 DEF Resolve, LoopType
  <2>3. cache' \in Usable \cup {NoModel}
    BY <1>2, <1>4 DEF Start, Drain
  <2>4. TypeOK'
    BY <1>1, <2>1, <2>2, <2>3, LoopTyped DEF Resolve
  <2>5. SubInv' /\ LoopInv'
    BY <2>2 DEF SubInv, LoopInv
  <2> QED
    BY <1>1, <2>4, <2>5, LoopKeeps
<1>5. ASSUME ReadCamera PROVE IInv'
  <2>1. /\ loop' \in LoopType /\ loop'.pc = "deployment" /\ loop'.seen = override /\ loop'.sub = loop.sub
        /\ UNCHANGED <<cache, channel, unheard, fallen>>
    BY <1>2, <1>5 DEF ReadCamera, IInv, TypeOK, LoopType
  <2>2. TypeOK'
    BY <1>1, <1>2, <2>1, LoopTyped DEF IInv, TypeOK
  <2>3. SubInv' /\ LoopInv'
    BY <1>1, <2>1 DEF SubInv, LoopInv, store
  <2> QED
    BY <1>1, <2>2, <2>3, LoopKeeps
<1>6. ASSUME ReadDeployment PROVE IInv'
  <2>1. Runs(Cascade(loop.seen)) \in Usable \cup {NoModel}
    BY DEF Runs
  <2>2. /\ loop' \in LoopType /\ loop'.pc = "load" /\ loop'.resolved = Runs(Cascade(loop.seen))
        /\ loop'.sub = loop.sub /\ loop.pc = "deployment"
        /\ UNCHANGED <<cache, channel, unheard, fallen>>
    BY <1>2, <1>6, <2>1 DEF ReadDeployment, LoopType
  <2>3. TypeOK'
    BY <1>1, <1>2, <2>2, LoopTyped DEF IInv, TypeOK
  <2>4. Settled' => loop'.resolved = Effective
    BY <1>1, <2>2 DEF IInv, LoopInv, Settled, Effective
  <2>5. SubInv' /\ LoopInv'
    BY <1>1, <2>2, <2>4 DEF SubInv, LoopInv
  <2> QED
    BY <1>1, <2>3, <2>5, LoopKeeps
<1>7. ASSUME Load \/ FallBack PROVE IInv'
  <2>1. PICK m \in Usable \cup {NoModel} : Run(m) /\ (fallen' \/ (m = loop.resolved /\ loop.pc = "load"))
    BY <1>2, <1>7 DEF Load, FallBack, LoopType
  <2>2. /\ loop' \in LoopType /\ loop'.pc \in {"subscribe", "frame"} /\ loop'.detector = m
        /\ loop'.sub = loop.sub /\ (loop'.pc = "subscribe" => loop.sub = "none")
    BY <1>2, <2>1 DEF Run, LoopType
  <2>3. /\ UNCHANGED <<channel, unheard>> /\ fallen' \in BOOLEAN /\ cache' \in Usable \cup {NoModel}
        /\ fallen' \/ fallen' = fallen
    BY <1>2, <1>7 DEF Load, FallBack, LoopType, IInv, TypeOK
  <2>4. TypeOK'
    BY <1>1, <1>2, <2>2, <2>3, LoopTyped DEF IInv, TypeOK
  <2>5. Settled' => m = Effective
    BY <1>1, <2>1, <2>3 DEF IInv, LoopInv, Settled
  <2>6. SubInv' /\ LoopInv'
    BY <1>1, <2>2, <2>5 DEF SubInv, LoopInv
  <2> QED
    BY <1>1, <2>4, <2>6, LoopKeeps
<1>8. ASSUME Subscribe("open") \/ Subscribe("failed") PROVE IInv'
  <2>1. /\ loop' \in LoopType /\ loop'.pc = "frame" /\ loop'.detector = loop.detector
        /\ loop.pc = "subscribe" /\ UNCHANGED <<cache, channel, unheard, fallen>>
    BY <1>2, <1>8 DEF Subscribe, LoopType
  <2>2. ~channel
    BY <1>2, <2>1 DEF IInv, SubInv
  <2>3. TypeOK'
    BY <1>1, <1>2, <2>1, <2>2, LoopTyped DEF IInv, TypeOK
  <2>4. Settled' => Settled
    BY <1>1, <2>1 DEF Settled
  <2>5. SubInv' /\ LoopInv'
    BY <1>1, <2>1, <2>4 DEF IInv, SubInv, LoopInv
  <2> QED
    BY <1>1, <2>3, <2>5, LoopKeeps
<1>9. ASSUME Disconnect PROVE IInv'
  <2>1. UNCHANGED <<loop, cache, fallen>> /\ ~channel' /\ channel' \in BOOLEAN /\ unheard'
        /\ unheard' \in BOOLEAN
    BY <1>9 DEF Disconnect
  <2>2. TypeOK'
    BY <1>1, <1>2, <2>1, LoopTyped DEF IInv, TypeOK
  <2>3. SubInv' /\ LoopInv'
    BY <2>1 DEF IInv, SubInv, LoopInv, Settled
  <2> QED
    BY <1>1, <2>2, <2>3, LoopKeeps
<1>10. ASSUME End PROVE IInv'
  <2>1. loop' \in LoopType /\ loop'.pc = "off" /\ ~channel' /\ channel' \in BOOLEAN
        /\ unheard' \in BOOLEAN /\ fallen' \in BOOLEAN /\ cache' \in Usable \cup {NoModel}
    BY <1>2, <1>10 DEF End, NoLoop, LoopType
  <2>2. TypeOK'
    BY <1>1, <2>1, LoopTyped
  <2>3. SubInv' /\ LoopInv'
    BY <2>1 DEF SubInv, LoopInv
  <2> QED
    BY <1>1, <2>2, <2>3, LoopKeeps
<1> QED
  BY <1>4, <1>5, <1>6, <1>7, <1>8, <1>9, <1>10

\* Every step keeps the inductive invariant.
LEMMA IInvStep == IInv /\ [Next]_vars => IInv'
<1> SUFFICES ASSUME IInv, [Next]_vars PROVE IInv'
  OBVIOUS
<1>1. ASSUME NEW r \in Requests,
             \/ \E m \in Models : Deploy(r, m)
             \/ \E d \in DOMAIN deployments : Rollback(r, d)
             \/ \E m \in Models \cup {NoModel} : Assign(r, m)
      PROVE  IInv'
  BY <1>1, EnterStep
<1>2. ASSUME NEW r \in Requests, Deactivate(r) \/ Create(r) PROVE IInv'
  BY <1>2, DeactivateStep, CreateStep
<1>3. ASSUME NEW r \in Requests, DeployFails(r) \/ Notify(r) \/ NotifyFails(r) PROVE IInv'
  BY <1>3, EndStep
<1>4. CASE \/ Start \/ ReadCamera \/ ReadDeployment \/ Load \/ FallBack
           \/ Subscribe("open") \/ Subscribe("failed") \/ Drain \/ Disconnect \/ End
  BY <1>4, LoopStepKeeps
<1>5. CASE UNCHANGED vars
  <2>1. UNCHANGED <<store, req>> /\ Effective' = Effective
    BY <1>5, StoreKept DEF vars, store
  <2>2. TypeOK' /\ SubInv' /\ LoopInv'
    BY <1>5, <2>1 DEF vars, store, IInv, TypeOK, SubInv, LoopInv, Settled
  <2> QED
    BY <2>1, <2>2, LoopKeeps
<1> QED
  BY <1>1, <1>2, <1>3, <1>4, <1>5 DEF Next

-----------------------------------------------------------------------------
\* The inductive invariant holds always.
THEOREM Invariance == Spec => []IInv
  BY InitIInv, IInvStep, PTL DEF Spec

\* The variables of CameraModel keep their types.
THEOREM TypeCorrect == Spec => []TypeOK
<1>1. IInv => TypeOK
  BY DEF IInv
<1> QED
  BY <1>1, Invariance, PTL

\* Two active deployments of a camera need two requests that deployed at once,
\* and none after one needs a request that failed between its transactions.
THEOREM DeploymentsAlone == Spec => []OneDeployment
<1>1. IInv => OneDeployment
  BY DEF IInv
<1> QED
  BY <1>1, Invariance, PTL

\* A loop that has missed nothing runs the effective model, at whatever of its
\* steps the changes came and whatever was cached.
THEOREM LoopFollows == Spec => []Followed
<1>1. IInv => Followed
  BY DEF IInv, LoopInv, Settled, Followed
<1> QED
  BY <1>1, Invariance, PTL
=============================================================================
