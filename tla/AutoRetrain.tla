---------------------------- MODULE AutoRetrain ----------------------------
(***************************************************************************)
(* The automatic retraining of the Celery beat: once an hour, and whenever *)
(* the drift check asks for it, every tenant whose annotated frames have   *)
(* grown enough since its last training gets a training job. The job is    *)
(* inserted, committed and dispatched in steps; several checks may run at  *)
(* once and a worker may die between the steps. What happens to a job once *)
(* it is dispatched is in TrainingJob; here it completes or fails.         *)
(***************************************************************************)
EXTENDS Integers, FiniteSets, FiniteSetsExt

CONSTANTS
  Tenants,    \* active tenants
  Broken,     \* tenants whose queries raise
  Frames,     \* rows of training_frames
  Checks,     \* runs of the task at the same time
  Jobs,       \* bound: unfinished rows of training_jobs
  Percent,    \* AUTO_TRAIN_THRESHOLD_PCT
  MaxTime,    \* bound: the clock
  MaxFaults,  \* bound: calls that raise, workers that die, jobs that fail
  None        \* no row, no tenant

ASSUME ConstantsOK ==
  /\ Broken \subseteq Tenants /\ None \notin Tenants /\ IsFiniteSet(Frames)
  /\ Percent \in Nat /\ MaxTime \in Nat /\ MaxFaults \in Nat

VARIABLES
  now,
  frame,    \* frame[f]: tenant, created_at, and when it was annotated
  ready,    \* tenants with a dataset version that is ready
  trained,  \* trained[t]: completed_at of the completed jobs
  job,      \* job[j]: an unfinished job, its tenant and its dataset's tenant
  message,  \* jobs with a dispatch_training message
  check,    \* check[c]: a run of check_auto_retraining
  faults

data == <<now, frame, ready, trained>>
vars == <<data, job, message, check, faults>>

-----------------------------------------------------------------------------
Never  == -1  \* _EPOCH_ZERO, and the time of what has not happened
NoRow  == [tenant |-> None, created |-> Never, annotated |-> Never]
NoJob  == [tenant |-> None, dataset |-> None]
Asleep == [pc |-> "idle", todo |-> {}, tenant |-> None, job |-> None]

\* Mutant: ORDER BY completed_at ASC.
LastTrainedFirst(t) == IF trained[t] = {} THEN Never ELSE Min(trained[t])

\* ORDER BY completed_at DESC LIMIT 1.
LastTrained(t) == IF trained[t] = {} THEN Never ELSE Max(trained[t])

Annotated(t)  == {f \in Frames : frame[f].tenant = t /\ frame[f].annotated # Never}
NewFrames(t)  == {f \in Annotated(t) : frame[f].created > LastTrained(t)}
BaseFrames(t) == {f \in Annotated(t) : frame[f].created <= LastTrained(t)}

\* new / max(base, 1) * 100 >= threshold
Due(t) == 100 * Cardinality(NewFrames(t)) >= Percent * Max({Cardinality(BaseFrames(t)), 1})

Init ==
  /\ now = 0 /\ ready = {} /\ message = {} /\ faults = 0
  /\ frame = [f \in Frames |-> NoRow]
  /\ trained = [t \in Tenants |-> {}]
  /\ job = [j \in Jobs |-> NoJob]
  /\ check = [c \in Checks |-> Asleep]

-----------------------------------------------------------------------------
(* The rest of the system. *)

Tick ==
  /\ now < MaxTime /\ now' = now + 1
  /\ UNCHANGED <<frame, ready, trained, job, message, check, faults>>

Upload(f, t) ==
  /\ frame[f] = NoRow
  /\ frame' = [frame EXCEPT ![f] = [tenant |-> t, created |-> now, annotated |-> Never]]
  /\ UNCHANGED <<now, ready, trained, job, message, check, faults>>

Annotate(f) ==
  /\ frame[f].tenant # None /\ frame[f].annotated = Never
  /\ frame' = [frame EXCEPT ![f].annotated = now]
  /\ UNCHANGED <<now, ready, trained, job, message, check, faults>>

VersionReady(t) ==
  /\ t \notin ready
  /\ ready' = ready \cup {t}
  /\ UNCHANGED <<now, frame, trained, job, message, check, faults>>

Complete(j) ==
  /\ j \in message /\ job[j] # NoJob
  /\ trained' = [trained EXCEPT ![job[j].tenant] = @ \cup {now}]
  /\ job' = [job EXCEPT ![j] = NoJob] /\ message' = message \ {j}
  /\ UNCHANGED <<now, frame, ready, check, faults>>

Fail(j) ==
  /\ j \in message /\ job[j] # NoJob /\ faults < MaxFaults
  /\ faults' = faults + 1
  /\ job' = [job EXCEPT ![j] = NoJob] /\ message' = message \ {j}
  /\ UNCHANGED <<data, check>>

-----------------------------------------------------------------------------
(* check_auto_retraining *)

\* The beat, or model_drift: SELECT ... FROM tenants WHERE is_active.
Wake(c) ==
  /\ check[c] = Asleep
  /\ check' = [check EXCEPT ![c] = [Asleep EXCEPT !.pc = "tenant", !.todo = Tenants]]
  /\ UNCHANGED <<data, job, message, faults>>

\* The next tenant of the loop, or the end of the run.
Continue(c, todo) ==
  check' = [check EXCEPT ![c] =
    IF todo = {} THEN Asleep ELSE [Asleep EXCEPT !.pc = "tenant", !.todo = todo]]

\* The three SELECTs of _check_and_trigger_tenant and the comparison. They
\* raise for a broken tenant, which ends that tenant only.
CountFrames(c, t) ==
  /\ check[c].pc = "tenant" /\ t \in check[c].todo
  /\ IF t \notin Broken /\ Due(t)
     THEN check' = [check EXCEPT ![c].pc = "insert", ![c].tenant = t, ![c].todo = @ \ {t}]
     ELSE Continue(c, check[c].todo \ {t})
  /\ UNCHANGED <<data, job, message, faults>>

\* Mutant: a tenant without a version is not left out.
ReadyVersionsNone(t) == IF t \in ready THEN {t} ELSE {None}

\* SELECT ... FROM dataset_versions WHERE tenant_id: whose version it is.
ReadyVersions(t) == ready \cap {t}

\* Mutant: the message is sent before the INSERT commits.
InsertJobLate(c) ==
  /\ check[c].pc = "insert"
  /\ \E j \in Jobs : /\ job[j] = NoJob /\ j \notin message
                     /\ message' = message \cup {j}
                     /\ check' = [check EXCEPT ![c].pc = "dispatch", ![c].job = j]
  /\ UNCHANGED <<data, job, faults>>

\* The SELECT of the version and the INSERT, one transaction; without a version
\* there is nothing to train.
InsertJob(c) ==
  LET t == check[c].tenant
  IN /\ check[c].pc = "insert"
     /\ IF ReadyVersions(t) = {}
        THEN Continue(c, check[c].todo) /\ UNCHANGED job
        ELSE \E j \in Jobs, d \in ReadyVersions(t) :
               /\ job[j] = NoJob
               /\ job' = [job EXCEPT ![j] = [tenant |-> t, dataset |-> d]]
               /\ check' = [check EXCEPT ![c].pc = "dispatch", ![c].job = j]
     /\ UNCHANGED <<data, message, faults>>

\* dispatch_training.delay after the commit.
Dispatch(c) ==
  /\ check[c].pc = "dispatch"
  /\ message' = message \cup {check[c].job}
  /\ Continue(c, check[c].todo)
  /\ UNCHANGED <<data, job, faults>>

\* A query, the INSERT or delay raises: the end of this tenant only, and of a
\* committed row that nobody dispatches.
Raise(c) ==
  /\ check[c] # Asleep /\ faults < MaxFaults
  /\ faults' = faults + 1
  /\ \/ check[c].pc \in {"insert", "dispatch"} /\ Continue(c, check[c].todo)
     \/ check[c].pc = "tenant" /\ \E t \in check[c].todo : Continue(c, check[c].todo \ {t})
  /\ UNCHANGED <<data, job, message>>

\* The worker dies: a row it has inserted stays pending.
Die(c) ==
  /\ check[c] # Asleep /\ faults < MaxFaults
  /\ faults' = faults + 1
  /\ check' = [check EXCEPT ![c] = Asleep]
  /\ UNCHANGED <<data, job, message>>

-----------------------------------------------------------------------------
Next ==
  \/ Tick
  \/ \E f \in Frames : Annotate(f) \/ \E t \in Tenants : Upload(f, t)
  \/ \E t \in Tenants : VersionReady(t)
  \/ \E j \in Jobs : Complete(j) \/ Fail(j)
  \/ \E c \in Checks :
       \/ Wake(c) \/ InsertJob(c) \/ Dispatch(c) \/ Raise(c) \/ Die(c)
       \/ \E t \in Tenants : CountFrames(c, t)

Spec == Init /\ [][Next]_vars

\* The beat wakes for ever and a dispatched job ends; not every one fails.
FairSpec ==
  /\ Spec
  /\ \A c \in Checks :
       /\ WF_vars(Wake(c)) /\ WF_vars(InsertJob(c)) /\ WF_vars(Dispatch(c))
       /\ WF_vars(\E t \in Tenants : CountFrames(c, t))
  /\ \A j \in Jobs : WF_vars(Complete(j))

-----------------------------------------------------------------------------
Times == {Never} \cup 0..MaxTime

TypeOK ==
  /\ now \in 0..MaxTime /\ ready \subseteq Tenants /\ faults \in 0..MaxFaults
  /\ frame \in [Frames -> [tenant : Tenants \cup {None}, created : Times, annotated : Times]]
  /\ trained \in [Tenants -> SUBSET (0..MaxTime)]
  /\ job \in [Jobs -> {NoJob} \cup [tenant : Tenants, dataset : Tenants]]
  /\ message \subseteq Jobs
  /\ check \in [Checks -> [pc : {"idle", "tenant", "insert", "dispatch"}, todo : SUBSET Tenants,
                           tenant : Tenants \cup {None}, job : Jobs \cup {None}]]

\* A worker that takes a dispatch_training message finds the row it names, also
\* when it takes it at once and also when the check died in between ("Dispatch so
\* depois do commit do INSERT"), and no other tenant's data in it.
MessagesHaveRows ==
  \A j \in message : job[j] # NoJob /\ job[j].dataset = job[j].tenant

\* A tenant whose frames have grown and that has a dataset is trained, whatever
\* checks die, jobs fail or messages are never sent, and whatever becomes of the
\* other tenants in the loop.
Untrained == {t \in ready : Due(t)}
GrowthIsTrained == \A t \in Tenants \ Broken : (t \in Untrained) ~> (t \notin Untrained)

-----------------------------------------------------------------------------
\* "atingiu o limiar de crescimento de frames anotados e, em caso positivo,
\* dispara automaticamente um novo job de treinamento": one job for one growth,
\* so a tenant has at most one automatic job unfinished.
OneJobPerGrowth ==
  \A i, j \in message : i # j => job[i].tenant # job[j].tenant
=============================================================================
