------------------------- MODULE AutoRetrain_proofs -------------------------
(***************************************************************************)
(* Proofs about AutoRetrain, for any tenants, frames, checks and bounds:   *)
(* no dispatch_training message names a row that is not there, or one with *)
(* another tenant's dataset. A message alone does not keep this up: the    *)
(* inductive invariant also follows the row between its INSERT and its     *)
(* dispatch, when it is in the hands of exactly one check.                 *)
(***************************************************************************)
EXTENDS AutoRetrain, FiniteSetTheorems, TLAPS

\* A row names one tenant, as its owner and as the owner of its dataset.
RowInv == \A j \in Jobs : job[j] # NoJob => job[j].tenant = job[j].dataset

\* The message of a row follows the INSERT.
MessageInv == \A j \in message : job[j] # NoJob

\* A check between INSERT and dispatch has a row that nobody else knows of.
Dispatching == {c \in Checks : check[c].pc = "dispatch"}
CheckInv ==
  /\ \A c \in Checks : check[c].pc = "insert" => check[c].tenant \in Tenants
  /\ \A c \in Dispatching :
       /\ check[c].job \in Jobs /\ job[check[c].job] # NoJob /\ check[c].job \notin message
       /\ \A d \in Dispatching : d # c => check[d].job # check[c].job

\* What a check may hold.
CheckType == [pc : {"idle", "tenant", "insert", "dispatch"}, todo : SUBSET Tenants,
              tenant : Tenants \cup {None}, job : Jobs \cup {None}]

IInv == TypeOK /\ RowInv /\ MessageInv /\ CheckInv

-----------------------------------------------------------------------------
\* The initial states satisfy the inductive invariant.
LEMMA InitIInv == Init => IInv
<1> SUFFICES ASSUME Init PROVE IInv
  OBVIOUS
<1>1. TypeOK
  BY ConstantsOK DEF Init, TypeOK, Times, Never, NoRow, NoJob, Asleep
<1>2. RowInv /\ MessageInv /\ CheckInv
  BY DEF Init, RowInv, MessageInv, CheckInv, Dispatching, NoJob, Asleep
<1> QED
  BY <1>1, <1>2 DEF IInv

\* Clock, frames and versions touch neither rows nor messages.
LEMMA DataStep ==
  ASSUME IInv, UNCHANGED <<job, message, check, faults>>,
         \/ Tick \/ \E t \in Tenants : VersionReady(t)
         \/ \E f \in Frames : Annotate(f) \/ \E t \in Tenants : Upload(f, t)
  PROVE  IInv'
<1>1. RowInv' /\ MessageInv' /\ CheckInv'
  BY DEF IInv, RowInv, MessageInv, CheckInv, Dispatching
<1> USE ConstantsOK DEF IInv, TypeOK, Times, Never, data
<1>2. CASE Tick
  BY <1>1, <1>2 DEF Tick
<1>3. CASE \E t \in Tenants : VersionReady(t)
  BY <1>1, <1>3 DEF VersionReady
<1>4. CASE \E f \in Frames : Annotate(f)
  <2>1. PICK f \in Frames : Annotate(f)
    BY <1>4
  <2>2. frame' \in [Frames -> [tenant : Tenants \cup {None}, created : Times, annotated : Times]]
    BY <2>1 DEF Annotate
  <2> QED
    BY <1>1, <2>1, <2>2 DEF Annotate
<1>5. CASE \E f \in Frames, t \in Tenants : Upload(f, t)
  BY <1>1, <1>5 DEF Upload
<1> QED
  BY <1>2, <1>3, <1>4, <1>5

\* A dispatched job ends: its row was in nobody's hands any more.
LEMMA JobEnds == ASSUME IInv, NEW j \in Jobs, Complete(j) \/ Fail(j) PROVE IInv'
<1> USE DEF IInv
<1>1. /\ j \in message /\ job[j] # NoJob /\ check' = check
      /\ job' = [job EXCEPT ![j] = NoJob] /\ message' = message \ {j}
  BY DEF Complete, Fail
<1>2. RowInv' /\ MessageInv'
  BY <1>1 DEF RowInv, MessageInv, TypeOK
<1>3. \A c \in Dispatching : check[c].job # j
  BY <1>1 DEF CheckInv
<1>4. CheckInv'
  BY <1>1, <1>3 DEF CheckInv, Dispatching, TypeOK
<1>5. job[j].tenant \in Tenants
  BY <1>1 DEF TypeOK
<1>6. CASE Complete(j)
  BY <1>1, <1>2, <1>4, <1>5, <1>6 DEF Complete, TypeOK
<1>7. CASE Fail(j)
  BY <1>1, <1>2, <1>4, <1>7, ConstantsOK DEF Fail, data, TypeOK
<1> QED
  BY <1>6, <1>7

\* A step that takes a check away from its row, or never had one, leaves the
\* others as they are.
LEMMA CheckLetsGo ==
  ASSUME IInv, NEW c \in Checks, UNCHANGED <<data, job, message>>, faults' \in 0..MaxFaults,
         NEW v, check' = [check EXCEPT ![c] = v], v.pc # "dispatch",
         v \in CheckType,
         v.pc = "insert" => v.tenant \in Tenants
  PROVE  IInv'
<1> USE DEF IInv
<1>1. TypeOK'
  BY DEF TypeOK, CheckType, data
<1>2. RowInv' /\ MessageInv'
  BY DEF RowInv, MessageInv
<1>3. \A d \in Checks : check'[d] = IF d = c THEN v ELSE check[d]
  BY DEF TypeOK
<1>4. CheckInv'
  BY <1>3 DEF CheckInv, Dispatching
<1> QED
  BY <1>1, <1>2, <1>4

\* The INSERT takes a row that nobody has.
LEMMA InsertStep == ASSUME IInv, NEW c \in Checks, InsertJob(c) PROVE IInv'
<1> USE DEF IInv
<1>1. check[c].pc = "insert" /\ check[c].tenant \in Tenants /\ check[c].todo \subseteq Tenants
  BY DEF InsertJob, CheckInv, TypeOK
<1>2. UNCHANGED <<data, message, faults>>
  BY DEF InsertJob
<1>3. CASE ReadyVersions(check[c].tenant) = {}
  <2> DEFINE v == IF check[c].todo = {} THEN Asleep
                  ELSE [Asleep EXCEPT !.pc = "tenant", !.todo = check[c].todo]
  <2>1. check' = [check EXCEPT ![c] = v] /\ job' = job
    BY <1>3 DEF InsertJob, Continue
  <2>2. v \in CheckType
        /\ v.pc \notin {"dispatch", "insert"}
    BY <1>1 DEF Asleep, CheckType
  <2>3. faults' \in 0..MaxFaults
    BY <1>2 DEF TypeOK
  <2> HIDE DEF v
  <2> QED
    BY <1>2, <2>1, <2>2, <2>3, CheckLetsGo
<1>4. CASE ReadyVersions(check[c].tenant) # {}
  <2>1. PICK j \in Jobs, d \in ReadyVersions(check[c].tenant) :
          /\ job[j] = NoJob
          /\ job' = [job EXCEPT ![j] = [tenant |-> check[c].tenant, dataset |-> d]]
          /\ check' = [check EXCEPT ![c].pc = "dispatch", ![c].job = j]
    BY <1>4 DEF InsertJob
  <2>2. d = check[c].tenant
    BY DEF ReadyVersions
  <2>3. job'[j] # NoJob /\ j \notin message /\ \A e \in Dispatching : check[e].job # j
    BY <1>1, <2>1, ConstantsOK DEF NoJob, TypeOK, MessageInv, CheckInv
  <2>4. \A i \in Jobs \ {j} : job'[i] = job[i]
    BY <2>1 DEF TypeOK
  <2>5. Dispatching' = Dispatching \cup {c} /\ check'[c].job = j
    BY <2>1 DEF Dispatching, TypeOK
  <2>6. \A e \in Checks \ {c} : check'[e] = check[e]
    BY <2>1 DEF TypeOK
  <2>7. TypeOK'
    <3>1. job' \in [Jobs -> {NoJob} \cup [tenant : Tenants, dataset : Tenants]]
      <4>1. [tenant |-> check[c].tenant, dataset |-> d] \in [tenant : Tenants, dataset : Tenants]
        BY <1>1, <2>2
      <4> QED
        BY <2>1, <4>1 DEF TypeOK
    <3>2. check' \in [Checks -> CheckType]
      <4>1. check \in [Checks -> CheckType] /\ check[c] \in CheckType
        BY DEF TypeOK, CheckType
      <4>2. [check[c] EXCEPT !.pc = "dispatch", !.job = j] \in CheckType
        BY <4>1 DEF CheckType
      <4>3. check' = [check EXCEPT ![c] = [check[c] EXCEPT !.pc = "dispatch", !.job = j]]
        BY <2>1, <4>1
      <4> QED
        BY <4>1, <4>2, <4>3
    <3> QED
      BY <1>2, <3>1, <3>2 DEF TypeOK, CheckType, data
  <2>8. RowInv'
    BY <1>1, <2>1, <2>2 DEF RowInv, TypeOK
  <2>9. MessageInv'
    BY <1>2, <2>3, <2>4 DEF MessageInv, TypeOK
  <2>10. CheckInv'
    <3>1. \A e \in Checks : check'[e].pc = "insert" => check'[e].tenant \in Tenants
      BY <2>5, <2>6 DEF CheckInv, Dispatching
    <3>2. c \notin Dispatching
      BY <1>1 DEF Dispatching
    <3> QED
      BY <1>2, <2>3, <2>4, <2>5, <2>6, <3>1, <3>2 DEF CheckInv, Dispatching
  <2> QED
    BY <2>7, <2>8, <2>9, <2>10
<1> QED
  BY <1>3, <1>4

\* The dispatch: the row passes from the check to the message.
LEMMA DispatchStep == ASSUME IInv, NEW c \in Checks, Dispatch(c) PROVE IInv'
<1> USE DEF IInv
<1> DEFINE v == IF check[c].todo = {} THEN Asleep
                ELSE [Asleep EXCEPT !.pc = "tenant", !.todo = check[c].todo]
<1>1. /\ c \in Dispatching /\ UNCHANGED <<data, job, faults>>
      /\ message' = message \cup {check[c].job} /\ check' = [check EXCEPT ![c] = v]
  BY DEF Dispatch, Continue, Dispatching
<1>2. v \in CheckType
      /\ v.pc \notin {"dispatch", "insert"}
  BY DEF Asleep, TypeOK, CheckType
<1> HIDE DEF v
<1>3. \A d \in Checks : check'[d] = IF d = c THEN v ELSE check[d]
  BY <1>1 DEF TypeOK
<1>4. Dispatching' = Dispatching \ {c}
  BY <1>2, <1>3 DEF Dispatching
<1>5. check[c].job \in Jobs /\ job[check[c].job] # NoJob
  BY <1>1 DEF CheckInv
<1>6. TypeOK'
  BY <1>1, <1>2, <1>5 DEF TypeOK, CheckType, data
<1>7. RowInv' /\ MessageInv'
  BY <1>1, <1>5 DEF RowInv, MessageInv
<1>8. CheckInv'
  BY <1>1, <1>2, <1>3, <1>4 DEF CheckInv, Dispatching
<1> QED
  BY <1>6, <1>7, <1>8

\* Every step keeps the inductive invariant.
LEMMA IInvStep == IInv /\ [Next]_vars => IInv'
<1> SUFFICES ASSUME IInv, [Next]_vars PROVE IInv'
  OBVIOUS
<1>1. CASE \/ Tick \/ \E t \in Tenants : VersionReady(t)
           \/ \E f \in Frames : Annotate(f) \/ \E t \in Tenants : Upload(f, t)
  <2>1. UNCHANGED <<job, message, check, faults>>
    BY <1>1 DEF Tick, VersionReady, Annotate, Upload
  <2> QED
    BY <1>1, <2>1, DataStep
<1>2. CASE \E j \in Jobs : Complete(j) \/ Fail(j)
  BY <1>2, JobEnds
<1>3. ASSUME NEW c \in Checks, InsertJob(c) \/ Dispatch(c) PROVE IInv'
  BY <1>3, InsertStep, DispatchStep
<1>4. ASSUME NEW c \in Checks, Wake(c) PROVE IInv'
  <2> DEFINE v == [Asleep EXCEPT !.pc = "tenant", !.todo = Tenants]
  <2>1. UNCHANGED <<data, job, message, faults>> /\ check' = [check EXCEPT ![c] = v]
    BY <1>4 DEF Wake
  <2>2. v \in CheckType
        /\ v.pc \notin {"dispatch", "insert"} /\ faults' \in 0..MaxFaults
    BY <2>1 DEF Asleep, IInv, TypeOK, CheckType
  <2> HIDE DEF v
  <2> QED
    BY <2>1, <2>2, CheckLetsGo
<1>5. ASSUME NEW c \in Checks, NEW t \in Tenants, CountFrames(c, t) PROVE IInv'
  <2> DEFINE todo == check[c].todo \ {t}
             v == IF t \notin Broken /\ Due(t)
                  THEN [check[c] EXCEPT !.pc = "insert", !.tenant = t, !.todo = @ \ {t}]
                  ELSE IF todo = {} THEN Asleep
                       ELSE [Asleep EXCEPT !.pc = "tenant", !.todo = todo]
  <2>1. UNCHANGED <<data, job, message, faults>> /\ check' = [check EXCEPT ![c] = v]
    BY <1>5 DEF CountFrames, Continue, IInv, TypeOK
  <2>2. v \in CheckType
        /\ v.pc # "dispatch" /\ (v.pc = "insert" => v.tenant \in Tenants)
        /\ faults' \in 0..MaxFaults
    BY <2>1 DEF Asleep, IInv, TypeOK, CheckType
  <2> HIDE DEF v
  <2> QED
    BY <2>1, <2>2, CheckLetsGo
<1>6. ASSUME NEW c \in Checks, Die(c) PROVE IInv'
  <2>1. UNCHANGED <<data, job, message>> /\ check' = [check EXCEPT ![c] = Asleep]
    BY <1>6 DEF Die
  <2>2. faults' \in 0..MaxFaults
    BY <1>6, ConstantsOK DEF Die, IInv, TypeOK
  <2>3. Asleep \in CheckType
        /\ Asleep.pc \notin {"dispatch", "insert"}
    BY DEF Asleep, CheckType
  <2> QED
    BY <2>1, <2>2, <2>3, CheckLetsGo
<1>7. ASSUME NEW c \in Checks, Raise(c) PROVE IInv'
  <2>1. PICK todo \in SUBSET check[c].todo : Continue(c, todo)
    BY <1>7 DEF Raise
  <2> DEFINE v == IF todo = {} THEN Asleep ELSE [Asleep EXCEPT !.pc = "tenant", !.todo = todo]
  <2>2. UNCHANGED <<data, job, message>> /\ check' = [check EXCEPT ![c] = v]
    BY <1>7, <2>1 DEF Raise, Continue
  <2>3. faults' \in 0..MaxFaults
    BY <1>7, ConstantsOK DEF Raise, IInv, TypeOK
  <2>4. v \in CheckType /\ v.pc \notin {"dispatch", "insert"}
    BY <2>1 DEF Asleep, IInv, TypeOK, CheckType
  <2> HIDE DEF v
  <2> QED
    BY <2>2, <2>3, <2>4, CheckLetsGo
<1>8. CASE UNCHANGED vars
  BY <1>8 DEF vars, data, IInv, TypeOK, RowInv, MessageInv, CheckInv, Dispatching
<1> QED
  BY <1>1, <1>2, <1>3, <1>4, <1>5, <1>6, <1>7, <1>8 DEF Next

-----------------------------------------------------------------------------
\* The inductive invariant holds always.
THEOREM Invariance == Spec => []IInv
  BY InitIInv, IInvStep, PTL DEF Spec

\* The variables of AutoRetrain keep their types, however many checks run at
\* once and die.
THEOREM TypeCorrect == Spec => []TypeOK
<1>1. IInv => TypeOK
  BY DEF IInv
<1> QED
  BY <1>1, Invariance, PTL

\* A dispatch_training message always names a row that is there and is of one
\* tenant: the dispatch follows the commit of the INSERT, whoever else inserts.
THEOREM RowsFirst == Spec => []MessagesHaveRows
<1>1. IInv => MessagesHaveRows
  BY DEF IInv, RowInv, MessageInv, TypeOK, MessagesHaveRows
<1> QED
  BY <1>1, Invariance, PTL

-----------------------------------------------------------------------------
(* One training settles one growth: the safety core of GrowthIsTrained.    *)

\* The clock runs ahead of what it has stamped.
TimesInv ==
  /\ \A f \in Frames : frame[f].created <= now
  /\ \A t \in Tenants : \A x \in trained[t] : x <= now

\* With a threshold above zero, no tenant is due after a training of its own has
\* completed, whatever was uploaded or annotated meanwhile, and it becomes due
\* again only by the annotation of a frame that is newer than that training: a
\* frame uploaded before it and annotated later never counts as growth.
GrowthSettled ==
  [][\A t \in Tenants : Percent > 0 =>
       /\ trained'[t] # trained[t] => ~Due(t)'
       /\ ~Due(t) /\ Due(t)' =>
            \E f \in Frames : /\ frame[f].tenant = t /\ frame[f].created > LastTrained(t)
                              /\ frame[f].annotated = Never /\ frame'[f].annotated # Never]_vars

\* A training that completes was of a dispatched row with its tenant's own data.
TrainsItsOwn ==
  [][\A t \in Tenants : trained'[t] # trained[t] =>
       \E j \in message : job[j].tenant = t /\ job[j].dataset = t]_vars

\* Where a check stands with the tenant it has taken from the loop.
Rank == [idle |-> 0, tenant |-> 1, dispatch |-> 2, insert |-> 3]

\* A check passes each tenant at most once, and forwards, whatever the queries
\* answer and whoever else checks: after its last tenant it has ended.
ChecksAdvance ==
  [][\A c \in Checks : check[c] # Asleep /\ check'[c] # check[c] =>
       \/ check'[c] = Asleep
       \/ /\ check'[c].todo \subseteq check[c].todo
          /\ check'[c].todo # check[c].todo \/ Rank[check'[c].pc] < Rank[check[c].pc]]_vars

\* The base of the comparison is never zero.
LEMMA MaxWithOne == \A a \in Nat : Max({a, 1}) = IF a > 1 THEN a ELSE 1
<1> TAKE a \in Nat
<1>1. CASE a > 1
  BY <1>1 DEF Max
<1>2. CASE ~(a > 1)
  BY <1>2 DEF Max
<1> QED
  BY <1>1, <1>2

\* The latest training is the one that completes now.
LEMMA MaxNow ==
  ASSUME NEW S, S \subseteq Int, NEW n \in S, \A x \in S : x <= n
  PROVE  Max(S) = n
<1>1. \A y \in S : n >= y
  OBVIOUS
<1>2. \A x \in S : (\A y \in S : x >= y) => x = n
  OBVIOUS
<1> QED
  BY <1>1, <1>2 DEF Max

\* Nothing is stamped later than now.
LEMMA TimesStep == ASSUME IInv, TimesInv, [Next]_vars PROVE TimesInv'
<1> USE DEF IInv, TypeOK
<1>1. now \in Int /\ now' \in Int /\ now <= now'
  <2>1. CASE Tick
    BY <2>1 DEF Tick
  <2>2. CASE UNCHANGED now
    BY <2>2
  <2> QED
    BY <2>1, <2>2 DEF Next, Annotate, Upload, VersionReady, Complete, Fail, Wake, InsertJob, Dispatch, Raise,
       Die, CountFrames, data, vars
<1>2. \A f \in Frames : frame'[f].created \in {frame[f].created, now}
  <2>1. CASE \E f \in Frames, t \in Tenants : Upload(f, t)
    BY <2>1 DEF Upload
  <2>2. CASE \E f \in Frames : Annotate(f)
    BY <2>2 DEF Annotate
  <2>3. CASE UNCHANGED frame
    BY <2>3
  <2> QED
    BY <2>1, <2>2, <2>3 DEF Next, Tick, VersionReady, Complete, Fail, Wake, InsertJob, Dispatch, Raise, Die,
       CountFrames, data, vars
<1>3. \A t \in Tenants : trained'[t] \subseteq trained[t] \cup {now}
  <2>1. CASE \E j \in Jobs : Complete(j)
    BY <2>1 DEF Complete
  <2>2. CASE UNCHANGED trained
    BY <2>2
  <2> QED
    BY <2>1, <2>2 DEF Next, Tick, Annotate, Upload, VersionReady, Fail, Wake, InsertJob, Dispatch, Raise, Die,
       CountFrames, data, vars
<1>4. \A f \in Frames : frame'[f].created <= now'
  <2> TAKE f \in Frames
  <2>1. frame[f].created \in Int /\ frame[f].created <= now
    BY ConstantsOK DEF TimesInv, Times, Never
  <2> QED
    BY <1>1, <1>2, <2>1
<1>5. \A t \in Tenants : \A x \in trained'[t] : x <= now'
  <2> TAKE t \in Tenants
  <2> TAKE x \in trained'[t]
  <2>1. x = now \/ (x \in Int /\ x <= now)
    BY <1>3 DEF TimesInv
  <2> QED
    BY <1>1, <2>1
<1> QED
  BY <1>4, <1>5 DEF TimesInv

\* The clock invariant holds always.
LEMMA TimesAlways == Spec => []TimesInv
<1>1. Init => TimesInv
  BY DEF Init, TimesInv, NoRow, Never
<1>2. IInv /\ TimesInv /\ [Next]_vars => TimesInv'
  BY TimesStep
<1> QED
  BY <1>1, <1>2, Invariance, PTL DEF Spec

\* Just trained, a tenant has nothing new.
LEMMA JustTrained ==
  ASSUME IInv, TimesInv, NEW j \in Jobs, Complete(j), NEW t \in Tenants, t = job[j].tenant,
         Percent > 0
  PROVE  ~Due(t)'
<1>1. trained' = [trained EXCEPT ![t] = @ \cup {now}] /\ UNCHANGED <<now, frame>>
  BY DEF Complete
<1>2. LastTrained(t)' = now
  <2>1. trained'[t] = trained[t] \cup {now} /\ trained[t] \subseteq Int /\ now \in Int
    BY <1>1 DEF IInv, TypeOK
  <2>2. \A x \in trained'[t] : x <= now
    BY <1>1, <2>1 DEF TimesInv
  <2>3. Max(trained'[t]) = now
    <3>1. trained'[t] \subseteq Int /\ now \in trained'[t]
      BY <2>1
    <3> QED
      BY <2>2, <3>1, MaxNow
  <2> QED
    BY <2>1, <2>3 DEF LastTrained
<1>3. NewFrames(t)' = {}
  <2>1. \A f \in Frames : frame'[f].created \in Int /\ frame'[f].created <= now /\ now \in Int
    BY <1>1, ConstantsOK DEF TimesInv, IInv, TypeOK, Times, Never
  <2> QED
    BY <1>2, <2>1 DEF NewFrames, Annotated
<1>4. Cardinality(NewFrames(t)') = 0
  BY <1>3, FS_EmptySet
<1>5. Cardinality(BaseFrames(t)') \in Nat
  <2>1. BaseFrames(t)' \subseteq Frames
    BY DEF BaseFrames, Annotated
  <2> QED
    BY <2>1, ConstantsOK, FS_Subset, FS_CardinalityType
<1>6. Max({Cardinality(BaseFrames(t)'), 1}) \in Nat \ {0}
  BY <1>5, MaxWithOne
<1>7. \A m \in Nat \ {0} : ~(100 * 0 >= Percent * m)
  BY ConstantsOK
<1> QED
  BY <1>4, <1>6, <1>7 DEF Due

\* Only the annotation of a frame that is newer than the last training makes a
\* tenant due.
LEMMA NewlyDue ==
  ASSUME IInv, NEW f \in Frames, Annotate(f), NEW t \in Tenants, ~Due(t), Due(t)'
  PROVE  /\ frame[f].tenant = t /\ frame[f].created > LastTrained(t)
         /\ frame[f].annotated = Never /\ frame'[f].annotated # Never
<1>1. /\ frame[f].tenant # None /\ frame[f].annotated = Never
      /\ frame' = [frame EXCEPT ![f].annotated = now] /\ trained' = trained
  BY DEF Annotate
<1>2. \A g \in Frames : /\ frame'[g].tenant = frame[g].tenant /\ frame'[g].created = frame[g].created
                        /\ g # f => frame'[g] = frame[g]
  BY <1>1 DEF IInv, TypeOK
<1>3. frame'[f].annotated # Never
  BY <1>1 DEF IInv, TypeOK, Never
<1>4. LastTrained(t)' = LastTrained(t)
  BY <1>1 DEF LastTrained
<1>5. ASSUME frame[f].tenant # t PROVE FALSE
  <2>1. NewFrames(t)' = NewFrames(t) /\ BaseFrames(t)' = BaseFrames(t)
    BY <1>2, <1>4, <1>5 DEF NewFrames, BaseFrames, Annotated
  <2> QED
    BY <2>1 DEF Due
<1>6. ASSUME ~(frame[f].created > LastTrained(t)) PROVE FALSE
  <2>1. NewFrames(t)' = NewFrames(t)
    BY <1>2, <1>4, <1>6 DEF NewFrames, Annotated
  <2>2. BaseFrames(t) \subseteq BaseFrames(t)' /\ BaseFrames(t)' \subseteq Frames /\ NewFrames(t) \subseteq Frames
    BY <1>1, <1>2, <1>4 DEF BaseFrames, NewFrames, Annotated
  <2>3. /\ Cardinality(BaseFrames(t)) \in Nat /\ Cardinality(BaseFrames(t)') \in Nat
        /\ Cardinality(BaseFrames(t)) <= Cardinality(BaseFrames(t)')
        /\ Cardinality(NewFrames(t)) \in Nat
    <3>1. IsFiniteSet(BaseFrames(t)') /\ IsFiniteSet(NewFrames(t))
      BY <2>2, ConstantsOK, FS_Subset
    <3>2. IsFiniteSet(BaseFrames(t)) /\ Cardinality(BaseFrames(t)) <= Cardinality(BaseFrames(t)')
      BY <2>2, <3>1, FS_Subset
    <3> QED
      BY <3>1, <3>2, FS_CardinalityType
  <2> DEFINE old == Max({Cardinality(BaseFrames(t)), 1})
             base == Max({Cardinality(BaseFrames(t)'), 1})
             n == Cardinality(NewFrames(t))
  <2>4. old \in Nat /\ base \in Nat /\ old <= base /\ n \in Nat
    BY <2>3, MaxWithOne
  <2>5. 100 * n >= Percent * base /\ ~(100 * n >= Percent * old)
    BY <2>1 DEF Due
  <2> HIDE DEF old, base, n
  <2>6. Percent * old <= Percent * base
    BY <2>4, ConstantsOK
  <2> QED
    BY <2>4, <2>5, <2>6, ConstantsOK
<1> QED
  BY <1>1, <1>3, <1>5, <1>6

\* One training settles one growth.
THEOREM TrainingSettlesGrowth == Spec => GrowthSettled
<1> DEFINE Settled == \A t \in Tenants : Percent > 0 =>
      /\ trained'[t] # trained[t] => ~Due(t)'
      /\ ~Due(t) /\ Due(t)' =>
           \E f \in Frames : /\ frame[f].tenant = t /\ frame[f].created > LastTrained(t)
                             /\ frame[f].annotated = Never /\ frame'[f].annotated # Never
<1>1. IInv /\ TimesInv /\ [Next]_vars => [Settled]_vars
  <2> SUFFICES ASSUME IInv, TimesInv, Next, NEW t \in Tenants, Percent > 0
               PROVE  /\ trained'[t] # trained[t] => ~Due(t)'
                      /\ ~Due(t) /\ Due(t)' =>
                           \E f \in Frames : /\ frame[f].tenant = t /\ frame[f].created > LastTrained(t)
                                             /\ frame[f].annotated = Never /\ frame'[f].annotated # Never
    OBVIOUS
  <2>1. ASSUME NEW j \in Jobs, Complete(j)
        PROVE  /\ trained'[t] # trained[t] => ~Due(t)'
               /\ Due(t)' => Due(t)
    <3>1. trained' = [trained EXCEPT ![job[j].tenant] = @ \cup {now}] /\ frame' = frame
      BY <2>1 DEF Complete
    <3>2. CASE t = job[j].tenant
      BY <2>1, <3>2, JustTrained
    <3>3. CASE t # job[j].tenant
      <4>1. trained'[t] = trained[t]
        BY <3>1, <3>3 DEF IInv, TypeOK
      <4>2. Due(t)' = Due(t)
        BY <3>1, <4>1 DEF Due, NewFrames, BaseFrames, Annotated, LastTrained
      <4> QED
        BY <4>1, <4>2
    <3> QED
      BY <3>2, <3>3
  <2>2. ASSUME NEW f \in Frames, Annotate(f)
        PROVE  trained' = trained
    BY <2>2 DEF Annotate
  <2>3. ASSUME NEW f \in Frames, NEW u \in Tenants, Upload(f, u)
        PROVE  trained' = trained /\ (Due(t)' => Due(t))
    <3>1. /\ frame[f] = NoRow /\ trained' = trained
          /\ frame' = [frame EXCEPT ![f] = [tenant |-> u, created |-> now, annotated |-> Never]]
      BY <2>3 DEF Upload
    <3>2. \A g \in Frames : /\ g # f => frame'[g] = frame[g]
                            /\ g = f => frame[g].annotated = Never /\ frame'[g].annotated = Never
      BY <3>1 DEF IInv, TypeOK, NoRow
    <3>3. Annotated(t)' = Annotated(t) /\ f \notin Annotated(t)
      BY <3>2 DEF Annotated
    <3>4. NewFrames(t)' = NewFrames(t) /\ BaseFrames(t)' = BaseFrames(t)
      <4>1. LastTrained(t)' = LastTrained(t)
        BY <3>1 DEF LastTrained
      <4>2. \A g \in Annotated(t) : frame'[g] = frame[g]
        BY <3>2, <3>3 DEF Annotated
      <4> QED
        BY <3>3, <4>1, <4>2 DEF NewFrames, BaseFrames
    <3> QED
      BY <3>1, <3>4 DEF Due
  <2>4. CASE UNCHANGED <<frame, trained>>
    <3>1. Due(t)' = Due(t)
      BY <2>4 DEF Due, NewFrames, BaseFrames, Annotated, LastTrained
    <3> QED
      BY <2>4, <3>1
  <2>5. \/ UNCHANGED <<frame, trained>> \/ \E j \in Jobs : Complete(j)
        \/ \E f \in Frames : Annotate(f) \/ \E u \in Tenants : Upload(f, u)
    BY DEF Next, Tick, VersionReady, Fail, Wake, InsertJob, Dispatch, Raise, Die, CountFrames, data
  <2> QED
    BY <2>1, <2>2, <2>3, <2>4, <2>5, NewlyDue
<1> QED
  BY <1>1, Invariance, TimesAlways, PTL DEF Spec, GrowthSettled

\* No tenant's model is trained on another one's frames.
THEOREM OwnData == Spec => TrainsItsOwn
<1> DEFINE Own == \A t \in Tenants : trained'[t] # trained[t] =>
      \E j \in message : job[j].tenant = t /\ job[j].dataset = t
<1>1. IInv /\ [Next]_vars => [Own]_vars
  <2> SUFFICES ASSUME IInv, Next PROVE Own
    OBVIOUS
  <2>1. CASE \E j \in Jobs : Complete(j)
    BY <2>1 DEF Complete, IInv, TypeOK, RowInv
  <2>2. CASE UNCHANGED trained
    BY <2>2
  <2> QED
    BY <2>1, <2>2 DEF Next, Tick, Annotate, Upload, VersionReady, Fail, Wake, InsertJob, Dispatch, Raise, Die,
       CountFrames, data
<1> QED
  BY <1>1, Invariance, PTL DEF Spec, TrainsItsOwn

\* Every check goes through its tenants once.
THEOREM ChecksEnd == Spec => ChecksAdvance
<1> DEFINE Forward(c) ==
             \/ check'[c] = Asleep
             \/ /\ check'[c].todo \subseteq check[c].todo
                /\ check'[c].todo # check[c].todo \/ Rank[check'[c].pc] < Rank[check[c].pc]
           Advance == \A c \in Checks : check[c] # Asleep /\ check'[c] # check[c] => Forward(c)
<1>1. IInv /\ [Next]_vars => [Advance]_vars
  <2> SUFFICES ASSUME IInv, Next, NEW c \in Checks, check[c] # Asleep, check'[c] # check[c]
               PROVE  Forward(c)
    OBVIOUS
  <2>0. ASSUME NEW d \in Checks, NEW v, check' = [check EXCEPT ![d] = v] PROVE d = c /\ check'[c] = v
    BY <2>0 DEF IInv, TypeOK
  <2>1. ASSUME NEW d \in Checks, NEW todo, Continue(d, todo)
        PROVE  d = c /\ (check'[c] = Asleep \/ (check'[c].pc = "tenant" /\ check'[c].todo = todo))
    <3> DEFINE v == IF todo = {} THEN Asleep ELSE [Asleep EXCEPT !.pc = "tenant", !.todo = todo]
    <3>1. check' = [check EXCEPT ![d] = v]
      BY <2>1 DEF Continue
    <3>2. v = Asleep \/ (v.pc = "tenant" /\ v.todo = todo)
      BY DEF Asleep
    <3> HIDE DEF v
    <3> QED
      BY <2>0, <3>1, <3>2
  <2>2. ASSUME NEW d \in Checks, NEW t \in Tenants, CountFrames(d, t) PROVE Forward(c)
    <3>1. t \in check[d].todo
      BY <2>2 DEF CountFrames
    <3>2. CASE Continue(d, check[d].todo \ {t})
      BY <2>1, <3>1, <3>2
    <3>3. CASE check' = [check EXCEPT ![d].pc = "insert", ![d].tenant = t, ![d].todo = @ \ {t}]
      <4>1. d = c /\ check'[c].todo = check[c].todo \ {t}
        BY <3>3 DEF IInv, TypeOK
      <4> QED
        BY <3>1, <4>1
    <3> QED
      BY <2>2, <3>2, <3>3 DEF CountFrames
  <2>3. ASSUME NEW d \in Checks, InsertJob(d) PROVE Forward(c)
    <3>1. check[d].pc = "insert"
      BY <2>3 DEF InsertJob
    <3>2. CASE Continue(d, check[d].todo)
      BY <2>1, <3>1, <3>2 DEF Rank
    <3>3. CASE \E j \in Jobs : check' = [check EXCEPT ![d].pc = "dispatch", ![d].job = j]
      <4>1. d = c /\ check'[c].todo = check[c].todo /\ check'[c].pc = "dispatch"
        BY <3>3 DEF IInv, TypeOK
      <4> QED
        BY <3>1, <4>1 DEF Rank
    <3> QED
      BY <2>3, <3>2, <3>3 DEF InsertJob
  <2>4. ASSUME NEW d \in Checks, Dispatch(d) PROVE Forward(c)
    BY <2>1, <2>4 DEF Dispatch, Rank
  <2>5. ASSUME NEW d \in Checks, Wake(d) PROVE FALSE
    BY <2>0, <2>5 DEF Wake
  <2>6. ASSUME NEW d \in Checks, Die(d) PROVE Forward(c)
    BY <2>0, <2>6 DEF Die
  <2>7. ASSUME NEW d \in Checks, Raise(d) PROVE Forward(c)
    <3>1. CASE check[d].pc \in {"insert", "dispatch"} /\ Continue(d, check[d].todo)
      BY <2>1, <3>1 DEF Rank
    <3>2. CASE \E t \in check[d].todo : Continue(d, check[d].todo \ {t})
      BY <2>1, <3>2
    <3> QED
      BY <2>7, <3>1, <3>2 DEF Raise
  <2>8. \E d \in Checks : \/ InsertJob(d) \/ Dispatch(d) \/ Wake(d) \/ Raise(d) \/ Die(d)
                          \/ \E t \in Tenants : CountFrames(d, t)
    BY DEF Next, Tick, Annotate, Upload, VersionReady, Complete, Fail
  <2> QED
    BY <2>2, <2>3, <2>4, <2>5, <2>6, <2>7, <2>8
<1> QED
  BY <1>1, Invariance, PTL DEF Spec, ChecksAdvance

=============================================================================
