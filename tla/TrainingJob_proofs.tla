-------------------------- MODULE TrainingJob_proofs --------------------------
(* Proofs about TrainingJob, for every value of its constants. *)
EXTENDS TrainingJob, FiniteSetTheorems, FunctionTheorems, TLAPS

WorkType == [pc : Points, try : 0..MaxRetries, tok : Nat,
             inst : Instances \cup {NoInstance}, polls : Nat, dead : Nat,
             out : {"none", "result", "stopped", "error"}]
InstType == [state : Rented \cup {"free", "gone"}, tok : Nat, orphan : BOOLEAN]
PostType == [pc : {"idle", "sent", "checked"}, tok : Nat,
             status : {"running", "completed", "failed"}]

WorkOK == work \in [Workers -> WorkType]
InstOK == inst \in [Instances -> InstType]
PostOK == posts \in [Posts -> PostType]

\* The rest of TypeOK, in groups that actions change together.
RowOK == status \in Statuses /\ token \in Nat /\ gpuRef \in Instances \cup {NoInstance}
CountersOK == /\ models \in Nat /\ issued \in Nat /\ stops \in Nat /\ redeliveries \in Nat
              /\ queue \in [0..MaxRetries -> Nat] /\ raced \in BOOLEAN
OthersOK ==
  /\ creator \in {"token", "post", "fallback", "done"}
  /\ service \in {"none", "training", "finished"} /\ serviceTok \in Nat
  /\ stop \in [pc : {"idle", "revoke", "destroy"}, ref : Instances \cup {NoInstance}]
  /\ bridge \in [Bridges -> {"listening", "select", "insert", "done"}]

\* TypeOK is the conjunction of these groups.
LEMMA TypeParts == TypeOK <=> WorkOK /\ InstOK /\ PostOK /\ RowOK /\ CountersOK /\ OthersOK
  BY DEF TypeOK, WorkOK, InstOK, PostOK, RowOK, CountersOK, OthersOK, WorkType, InstType,
     PostType

\* Replacing one execution by another keeps the type of work.
LEMMA WorkUpdate ==
  ASSUME WorkOK, NEW w, NEW v \in WorkType, work' = [work EXCEPT ![w] = v]
  PROVE  WorkOK'
  BY DEF WorkOK

\* So does moving one to another program point.
LEMMA GotoType ==
  ASSUME WorkOK, NEW w \in Workers, NEW from, NEW to \in Points, Goto(w, from, to)
  PROVE  WorkOK'
<1>1. work[w] \in WorkType
  BY DEF WorkOK
<1>2. [work[w] EXCEPT !.pc = to] \in WorkType
  BY <1>1 DEF WorkType
<1> QED
  BY <1>2, WorkUpdate DEF Goto

\* The record of an idle worker is well typed, at any retry.
LEMMA IdleType == Idle \in WorkType
                  /\ \A r \in 0..MaxRetries : [Idle EXCEPT !.pc = "start", !.try = r] \in WorkType
<1>1. 0 \in 0..MaxRetries /\ "idle" \in Points /\ "start" \in Points
  BY ConstantsOK DEF Points, BeforeTry
<1>2. Idle \in WorkType
  BY <1>1 DEF Idle, WorkType
<1> QED
  BY <1>1, <1>2 DEF WorkType

\* The initial state is well typed.
LEMMA InitType == Init => TypeOK
<1> SUFFICES ASSUME Init PROVE TypeOK
  OBVIOUS
<1>1. WorkOK
  BY IdleType DEF Init, WorkOK
<1>2. InstOK /\ PostOK
  BY DEF Init, InstOK, InstType, PostOK, PostType
<1>3. RowOK /\ CountersOK /\ OthersOK
  BY DEF Init, RowOK, CountersOK, OthersOK, Statuses
<1> QED
  BY <1>1, <1>2, <1>3, TypeParts

\* update_job keeps the row well typed.
LEMMA UpdateJobType ==
  ASSUME RowOK, NEW s \in Statuses, UpdateJob(s), UNCHANGED <<token, gpuRef>>
  PROVE  RowOK'
  BY DEF RowOK, UpdateJob

\* The thread of create_job_handler keeps the types.
LEMMA CreateType == TypeOK /\ Create => TypeOK'
<1> SUFFICES ASSUME TypeOK, Create PROVE TypeOK'
  OBVIOUS
<1>1. CASE CreatorIssuesToken
  BY <1>1 DEF CreatorIssuesToken, TypeOK, stopper
<1>2. CASE CreatorPosts
  BY <1>2 DEF CreatorPosts, TypeOK, stopper, row
<1>3. CASE CreatorFallsBack
  <2>1. queue' \in [0..MaxRetries -> Nat]
    BY <1>3 DEF CreatorFallsBack, TypeOK
  <2> QED
    BY <1>3, <2>1 DEF CreatorFallsBack, TypeOK, stopper, row, external
<1> QED
  BY <1>1, <1>2, <1>3 DEF Create

\* Steps of a worker that change nothing but the execution.
LEMMA OnlyWorkType == TypeOK /\ WorkOK' /\ OnlyWork => TypeOK'
<1> SUFFICES ASSUME TypeOK, WorkOK', OnlyWork PROVE TypeOK'
  OBVIOUS
<1>1. InstOK' /\ PostOK'
  BY TypeParts DEF OnlyWork, InstOK, PostOK
<1>2. RowOK' /\ CountersOK' /\ OthersOK'
  BY TypeParts DEF OnlyWork, row, external, stopper, RowOK, CountersOK, OthersOK
<1> QED
  BY <1>1, <1>2, TypeParts, PTL

\* Steps of a worker that change nothing but the execution and the status.
LEMMA OnlyStatusType == TypeOK /\ WorkOK' /\ RowOK' /\ OnlyStatus => TypeOK'
<1> SUFFICES ASSUME TypeOK, WorkOK', RowOK', OnlyStatus PROVE TypeOK'
  OBVIOUS
<1>1. InstOK' /\ PostOK'
  BY TypeParts DEF OnlyStatus, InstOK, PostOK
<1>2. CountersOK' /\ OthersOK'
  BY TypeParts DEF OnlyStatus, external, stopper, CountersOK, OthersOK
<1> QED
  BY <1>1, <1>2, TypeParts, PTL

\* The fields of an execution can be replaced one by one.
LEMMA WorkFields ==
  ASSUME NEW v \in WorkType, NEW pc \in Points, NEW n \in Nat,
         NEW out \in {"none", "result", "stopped", "error"}
  PROVE  /\ [v EXCEPT !.pc = pc] \in WorkType
         /\ [v EXCEPT !.polls = n] \in WorkType
         /\ [v EXCEPT !.polls = n, !.pc = pc] \in WorkType
         /\ [v EXCEPT !.pc = pc, !.out = out] \in WorkType
<1>1. [v EXCEPT !.pc = pc] \in WorkType
  BY DEF WorkType
<1>2. [v EXCEPT !.polls = n] \in WorkType
  BY DEF WorkType
<1>3. [v EXCEPT !.polls = n, !.pc = pc] \in WorkType
  BY DEF WorkType
<1>4. [v EXCEPT !.pc = pc, !.out = out] \in WorkType
  BY DEF WorkType
<1> QED
  BY <1>1, <1>2, <1>3, <1>4

\* The program points, listed.
LEMMA PointNames ==
  Points = {"idle", "start", "route", "hub", "local", "edge", "token", "upload", "announce",
            "recheck", "rent", "ref", "announceRented", "poll", "probe", "destroy",
            "revoke", "select", "insert", "complete", "fail", "retry"}
  BY DEF Points, BeforeTry, InTry, Finally, AfterTry

\* Leaving the watchdog keeps the type of work.
LEMMA FinishType ==
  ASSUME WorkOK, NEW w \in Workers, NEW out \in {"none", "result", "stopped", "error"},
         Finish(w, out)
  PROVE  WorkOK'
<1>1. work[w] \in WorkType /\ "destroy" \in Points
  BY PointNames DEF WorkOK
<1>2. [work[w] EXCEPT !.pc = "destroy", !.out = out] \in WorkType
  BY <1>1 DEF WorkType
<1>3. \A x \in Workers : work'[x] \in WorkType
  BY <1>2 DEF Finish, WorkOK
<1> QED
  BY <1>3 DEF Finish, WorkOK

\* So does another poll.
LEMMA PolledType ==
  ASSUME WorkOK, NEW w \in Workers, NEW d \in Nat,
         work' = [work EXCEPT ![w].pc = "poll", ![w].dead = d, ![w].polls = @ + 1]
  PROVE  WorkOK'
<1>1. work[w] \in WorkType /\ "poll" \in Points
  BY PointNames DEF WorkOK
<1>2. [work[w] EXCEPT !.pc = "poll", !.dead = d, !.polls = work[w].polls + 1] \in WorkType
  <2>1. ASSUME NEW v \in WorkType, NEW n \in Nat
        PROVE  [v EXCEPT !.pc = "poll", !.dead = d, !.polls = n] \in WorkType
    BY <1>1 DEF WorkType
  <2>2. work[w].polls + 1 \in Nat
    BY <1>1 DEF WorkType
  <2> QED
    BY <1>1, <2>1, <2>2
<1>3. work' = [work EXCEPT ![w] = [work[w] EXCEPT !.pc = "poll", !.dead = d,
                                                  !.polls = work[w].polls + 1]]
  BY <1>1 DEF WorkOK
<1> QED
  BY <1>2, <1>3, WorkUpdate

\* The steps that change only the execution keep the types.
LEMMA LocalStepType ==
  ASSUME TypeOK, NEW w \in Workers,
         Route(w) \/ DispatchHub(w) \/ UploadDataset(w) \/ Recheck(w) \/ WatchStatus(w)
           \/ WatchInstance(w) \/ Raise(w)
  PROVE  TypeOK'
<1>1. WorkOK /\ work[w] \in WorkType /\ Idle \in WorkType
  BY TypeParts, IdleType DEF WorkOK
<1>2. /\ work[w].polls + 1 \in Nat /\ 0 \in Nat
      /\ work[w].dead \in Nat /\ work[w].dead + 1 \in Nat
  BY <1>1 DEF WorkType
<1>3. OnlyWork
  BY DEF Route, DispatchHub, UploadDataset, Recheck, WatchStatus, WatchInstance, Raise
<1>4. CASE Route(w)
  <2>1. PICK p \in Providers : Goto(w, "route", IF p = "vast" THEN "token" ELSE p)
    BY <1>4 DEF Route
  <2>2. (IF p = "vast" THEN "token" ELSE p) \in Points
    BY ConstantsOK, PointNames
  <2> QED
    BY <1>1, <1>3, <2>1, <2>2, GotoType, OnlyWorkType
<1>5. CASE DispatchHub(w) \/ UploadDataset(w)
  <2>1. WorkOK'
    BY <1>1, <1>5, GotoType, PointNames DEF DispatchHub, UploadDataset
  <2> QED
    BY <1>3, <2>1, OnlyWorkType
<1>6. CASE Recheck(w)
  <2>1. CASE status = "stopped"
    <3>1. WorkOK'
      BY <1>1, <1>6, <2>1, WorkUpdate DEF Recheck
    <3> QED
      BY <1>3, <3>1, OnlyWorkType
  <2>2. CASE status # "stopped"
    <3>1. WorkOK'
      BY <1>1, <1>6, <2>2, GotoType, PointNames DEF Recheck
    <3> QED
      BY <1>3, <3>1, OnlyWorkType
  <2> QED
    BY <2>1, <2>2
<1>7. CASE WatchStatus(w)
  <2>1. \/ Goto(w, "poll", "probe")
        \/ \E out \in {"result", "stopped", "error"} : Finish(w, out)
    BY <1>7 DEF WatchStatus
  <2>2. WorkOK'
    BY <1>1, <2>1, GotoType, FinishType, PointNames
  <2> QED
    BY <1>3, <2>2, OnlyWorkType
<1>8. CASE WatchInstance(w)
  <2>1. \/ Finish(w, "error")
        \/ \E d \in Nat :
             work' = [work EXCEPT ![w].pc = "poll", ![w].dead = d, ![w].polls = @ + 1]
    BY <1>2, <1>8 DEF WatchInstance
  <2>2. WorkOK'
    BY <1>1, <2>1, FinishType, PolledType
  <2> QED
    BY <1>3, <2>2, OnlyWorkType
<1>9. CASE Raise(w)
  <2>1. \E v \in WorkType : work' = [work EXCEPT ![w] = v]
    BY Zenon, <1>1, <1>2, <1>9, WorkFields, PointNames DEF Raise
  <2>2. WorkOK'
    BY <1>1, <2>1, WorkUpdate
  <2> QED
    BY <1>3, <2>2, OnlyWorkType
<1> QED
  BY <1>4, <1>5, <1>6, <1>7, <1>8, <1>9

\* The steps that also write the status keep the types.
LEMMA StatusStepType ==
  ASSUME TypeOK, NEW w \in Workers,
         Announce(w) \/ DispatchEdge(w) \/ Simulate(w) \/ PollHub(w) \/ CompleteJob(w)
           \/ FailJob(w)
  PROVE  TypeOK'
<1>1. WorkOK /\ work[w] \in WorkType /\ Idle \in WorkType
  BY TypeParts, IdleType DEF WorkOK
<1>2. work[w].polls + 1 \in Nat /\ 0 \in Nat
  BY <1>1 DEF WorkType
<1>3. OnlyStatus /\ UNCHANGED <<token, gpuRef>>
  BY DEF Announce, DispatchEdge, Simulate, PollHub, CompleteJob, FailJob, OnlyStatus
<1>4. RowOK'
  <2>1. (\E s \in Statuses : UpdateJob(s)) \/ UNCHANGED status
    BY DEF Announce, DispatchEdge, Simulate, PollHub, CompleteJob, FailJob, Statuses
  <2>2. RowOK
    BY TypeParts
  <2> QED
    BY <1>3, <2>1, <2>2, UpdateJobType DEF RowOK
<1>5. \E v \in WorkType : work' = [work EXCEPT ![w] = v]
  <2>1. CASE Announce(w)
    BY Zenon, <1>1, <1>2, <2>1, WorkFields, PointNames DEF Announce, Goto
  <2>2. CASE DispatchEdge(w) \/ CompleteJob(w)
    BY <1>1, <2>2 DEF DispatchEdge, CompleteJob
  <2>3. CASE Simulate(w)
    <3>1. PICK pc \in {"local", "select"} :
            work' = [work EXCEPT ![w].polls = @ + 1, ![w].pc = pc]
      BY <2>3 DEF Simulate
    <3>2. work' = [work EXCEPT ![w] = [work[w] EXCEPT !.polls = work[w].polls + 1, !.pc = pc]]
      BY <1>1, <3>1 DEF WorkOK
    <3> QED
      BY Zenon, <1>1, <1>2, <3>2, WorkFields, PointNames
  <2>4. CASE PollHub(w)
    <3>1. \/ work' = [work EXCEPT ![w].polls = @ + 1]
          \/ \E pc \in {"select", "fail"} : work' = [work EXCEPT ![w].pc = pc]
      BY <2>4 DEF PollHub
    <3> QED
      BY Zenon, <1>1, <1>2, <3>1, WorkFields, PointNames
  <2>5. CASE FailJob(w)
    BY Zenon, <1>1, <1>2, <2>5, WorkFields, PointNames DEF FailJob, Goto
  <2> QED
    BY <2>1, <2>2, <2>3, <2>4, <2>5
<1>6. WorkOK'
  BY <1>1, <1>5, WorkUpdate
<1> QED
  BY <1>3, <1>4, <1>6, OnlyStatusType

\* An instance's fields can be replaced one by one.
LEMMA InstFields ==
  ASSUME InstOK, NEW i \in Instances, NEW s \in Rented \cup {"free", "gone"}, NEW o \in BOOLEAN,
         \/ inst' = [inst EXCEPT ![i].state = s]
         \/ inst' = [inst EXCEPT ![i].orphan = o]
  PROVE  InstOK'
<1>1. ASSUME NEW v \in InstType
      PROVE  [v EXCEPT !.state = s] \in InstType /\ [v EXCEPT !.orphan = o] \in InstType
  BY DEF InstType
<1>2. \E v \in InstType : inst' = [inst EXCEPT ![i] = v]
  BY <1>1 DEF InstOK
<1> QED
  BY <1>2 DEF InstOK

\* The other steps of a worker keep the types.
LEMMA QueueStepType ==
  ASSUME TypeOK, NEW w \in Workers, Take(w) \/ Retry(w) \/ Redeliver(w)
  PROVE  TypeOK'
<1>1. WorkOK /\ work[w] \in WorkType
  BY TypeParts DEF WorkOK
<1>2. InstOK' /\ PostOK' /\ RowOK' /\ OthersOK'
  BY TypeParts DEF Take, Retry, Redeliver, row, external, stopper, InstOK, PostOK, RowOK,
     OthersOK
<1>3. WorkOK'
  <2>1. CASE Take(w)
    <3>1. \E v \in WorkType : work' = [work EXCEPT ![w] = v]
      BY <2>1, IdleType DEF Take
    <3> QED
      BY <1>1, <3>1, WorkUpdate
  <2>2. CASE Retry(w)
    BY <1>1, <2>2, IdleType, WorkUpdate DEF Retry
  <2>3. CASE Redeliver(w)
    BY <1>1, <2>3 DEF Redeliver, WorkOK
  <2> QED
    BY <2>1, <2>2, <2>3
<1>4. queue' \in [0..MaxRetries -> Nat]
  <2>1. queue \in [0..MaxRetries -> Nat]
    BY DEF TypeOK
  <2>2. ASSUME NEW r \in 0..MaxRetries, NEW n \in Nat, queue' = [queue EXCEPT ![r] = n]
        PROVE  queue' \in [0..MaxRetries -> Nat]
    BY <2>1, <2>2
  <2>3. ASSUME NEW r \in 0..MaxRetries
        PROVE  queue[r] + 1 \in Nat /\ (queue[r] > 0 => queue[r] - 1 \in Nat)
    BY <2>1
  <2>4. work[w].try \in 0..MaxRetries
    BY <1>1 DEF WorkType
  <2>5. work[w].try < MaxRetries => work[w].try + 1 \in 0..MaxRetries
    BY <2>4, ConstantsOK
  <2>6. CASE Take(w)
    <3>1. PICK r \in 0..MaxRetries : queue[r] > 0 /\ queue' = [queue EXCEPT ![r] = queue[r] - 1]
      BY <2>6 DEF Take
    <3> QED
      BY <2>2, <2>3, <3>1
  <2>7. CASE Retry(w) \/ Redeliver(w)
    <3>1. \/ queue' = queue
          \/ \E r \in 0..MaxRetries : queue' = [queue EXCEPT ![r] = queue[r] + 1]
      BY <2>4, <2>5, <2>7 DEF Retry, Redeliver
    <3> QED
      BY <2>1, <2>2, <2>3, <3>1
  <2> QED
    BY <2>6, <2>7
<1>5. CountersOK'
  <2>1. CountersOK
    BY TypeParts
  <2>2. UNCHANGED <<models, issued, stops, raced>>
    BY DEF Take, Retry, Redeliver, stopper
  <2>3. redeliveries' = redeliveries \/ redeliveries' = redeliveries + 1
    BY DEF Take, Retry, Redeliver
  <2> QED
    BY <1>4, <2>1, <2>2, <2>3 DEF CountersOK
<1> QED
  BY <1>2, <1>3, <1>5, TypeParts, PTL

\* The steps that rent, record and give back a machine keep the types.
LEMMA MachineStepType ==
  ASSUME TypeOK, NEW w \in Workers,
         RentInstance(w) \/ RecordInstance(w) \/ DestroyInstance(w) \/ Crash(w)
  PROVE  TypeOK'
<1>1. /\ WorkOK /\ InstOK /\ RowOK /\ CountersOK
      /\ work[w] \in WorkType /\ Idle \in WorkType
  BY TypeParts, IdleType DEF WorkOK
<1>2. PostOK' /\ OthersOK'
  BY TypeParts DEF RentInstance, RecordInstance, DestroyInstance, Crash, external, stopper,
     PostOK, OthersOK
<1>3. work[w].inst \in Instances \cup {NoInstance} /\ work[w].tok \in Nat
      /\ work[w].try \in 0..MaxRetries
  BY <1>1 DEF WorkType
<1>4. CASE RentInstance(w)
  <2>1. RowOK' /\ CountersOK'
    BY <1>1, <1>4 DEF RentInstance, row, stopper, RowOK, CountersOK
  <2>2. InstOK'
    <3>1. CASE UNCHANGED inst
      BY <1>1, <3>1 DEF InstOK
    <3>2. ASSUME NEW i \in Instances, NEW heard \in BOOLEAN,
                 inst' = [inst EXCEPT ![i] = [state |-> "training", tok |-> work[w].tok,
                                              orphan |-> ~heard]]
          PROVE  InstOK'
      <4>1. [state |-> "training", tok |-> work[w].tok, orphan |-> ~heard] \in InstType
        BY <1>3 DEF InstType, Rented
      <4> QED
        BY <1>1, <3>2, <4>1 DEF InstOK
    <3> QED
      BY <1>4, <3>1, <3>2 DEF RentInstance
  <2>3. WorkOK'
    <3>1. CASE Finish(w, "error")
      BY <1>1, <3>1, FinishType
    <3>2. ASSUME NEW i \in Instances, work' = [work EXCEPT ![w].pc = "ref", ![w].inst = i]
          PROVE  WorkOK'
      <4>1. ASSUME NEW v \in WorkType PROVE [v EXCEPT !.pc = "ref", !.inst = i] \in WorkType
        BY PointNames DEF WorkType
      <4>2. work' = [work EXCEPT ![w] = [work[w] EXCEPT !.pc = "ref", !.inst = i]]
        BY <1>1, <3>2 DEF WorkOK
      <4> QED
        BY <1>1, <4>1, <4>2, WorkUpdate
    <3> QED
      BY <1>4, <3>1, <3>2 DEF RentInstance, Finish
  <2> QED
    BY <1>2, <2>1, <2>2, <2>3, TypeParts, PTL
<1>5. CASE RecordInstance(w)
  <2>1. RowOK' /\ CountersOK' /\ InstOK'
    BY <1>1, <1>3, <1>5 DEF RecordInstance, stopper, RowOK, CountersOK, InstOK
  <2>2. WorkOK'
    BY <1>1, <1>5, GotoType, PointNames DEF RecordInstance
  <2> QED
    BY <1>2, <2>1, <2>2, TypeParts, PTL
<1>6. CASE DestroyInstance(w)
  <2>1. RowOK' /\ CountersOK'
    BY <1>1, <1>6 DEF DestroyInstance, row, stopper, RowOK, CountersOK
  <2>2. InstOK'
    <3>1. CASE work[w].inst = NoInstance
      BY <1>1, <1>6, <3>1 DEF DestroyInstance, InstOK
    <3>2. CASE work[w].inst # NoInstance
      BY <1>1, <1>3, <1>6, <3>2, InstFields DEF DestroyInstance
    <3> QED
      BY <3>1, <3>2
  <2>3. WorkOK'
    <3>1. ASSUME NEW v \in WorkType
          PROVE  [v EXCEPT !.pc = "revoke", !.inst = NoInstance] \in WorkType
      BY PointNames DEF WorkType
    <3>2. work' = [work EXCEPT ![w] = [work[w] EXCEPT !.pc = "revoke", !.inst = NoInstance]]
      BY <1>1, <1>6 DEF DestroyInstance, WorkOK
    <3> QED
      BY <1>1, <3>1, <3>2, WorkUpdate
  <2> QED
    BY <1>2, <2>1, <2>2, <2>3, TypeParts, PTL
<1>7. CASE Crash(w)
  <2>1. RowOK' /\ WorkOK'
    BY <1>1, <1>7, WorkUpdate DEF Crash, row, RowOK
  <2>2. InstOK'
    <3>1. CASE work[w].inst = NoInstance
      BY <1>1, <1>7, <3>1 DEF Crash, InstOK
    <3>2. CASE work[w].inst # NoInstance
      BY <1>1, <1>3, <1>7, <3>2, InstFields DEF Crash
    <3> QED
      BY <3>1, <3>2
  <2>3. CountersOK'
    <3>1. UNCHANGED <<models, issued, stops, raced>>
      BY <1>7 DEF Crash, stopper
    <3>2. queue[work[w].try] \in Nat /\ redeliveries \in Nat
      BY <1>1, <1>3 DEF CountersOK
    <3>3. \/ UNCHANGED <<queue, redeliveries>>
          \/ /\ queue' = [queue EXCEPT ![work[w].try] = queue[work[w].try] + 1]
             /\ redeliveries' = redeliveries + 1
      BY <1>7 DEF Crash
    <3> QED
      BY <1>1, <3>1, <3>2, <3>3 DEF CountersOK
  <2> QED
    BY <1>2, <2>1, <2>2, <2>3, TypeParts, PTL
<1> QED
  BY <1>4, <1>5, <1>6, <1>7

\* The steps that hand out and revoke tokens, and the registration, keep the types.
LEMMA TokenStepType ==
  ASSUME TypeOK, NEW w \in Workers,
         IssueToken(w) \/ RevokeToken(w) \/ SelectModel(w) \/ InsertModel(w)
  PROVE  TypeOK'
<1>1. /\ WorkOK /\ RowOK /\ CountersOK
      /\ work[w] \in WorkType /\ Idle \in WorkType
  BY TypeParts, IdleType DEF WorkOK
<1>2. InstOK' /\ PostOK' /\ OthersOK'
  BY TypeParts DEF IssueToken, RevokeToken, SelectModel, InsertModel, external, stopper,
     InstOK, PostOK, OthersOK
<1>3. CASE IssueToken(w)
  <2>1. RowOK' /\ CountersOK'
    BY <1>1, <1>3 DEF IssueToken, stopper, RowOK, CountersOK
  <2>2. issued' \in Nat
    BY <2>1 DEF CountersOK
  <2>3. ASSUME NEW v \in WorkType, NEW t \in Nat
        PROVE  [v EXCEPT !.pc = "upload", !.tok = t] \in WorkType
    BY PointNames DEF WorkType
  <2>4. work' = [work EXCEPT ![w] = [work[w] EXCEPT !.pc = "upload", !.tok = issued']]
    BY <1>1, <1>3 DEF IssueToken, WorkOK
  <2>5. WorkOK'
    BY <1>1, <2>2, <2>3, <2>4, WorkUpdate
  <2> QED
    BY <1>2, <2>1, <2>5, TypeParts, PTL
<1>4. CASE RevokeToken(w)
  <2>1. RowOK' /\ CountersOK'
    BY <1>1, <1>4 DEF RevokeToken, stopper, RowOK, CountersOK
  <2>2. WorkOK'
    <3>1. \E v \in WorkType : work' = [work EXCEPT ![w] = v]
      BY Zenon, <1>1, <1>4, WorkFields, PointNames DEF RevokeToken
    <3> QED
      BY <1>1, <3>1, WorkUpdate
  <2> QED
    BY <1>2, <2>1, <2>2, TypeParts, PTL
<1>5. CASE SelectModel(w)
  <2>1. RowOK' /\ CountersOK'
    BY <1>1, <1>5 DEF SelectModel, row, stopper, RowOK, CountersOK
  <2>2. (IF models = 0 THEN "insert" ELSE "complete") \in Points
    BY PointNames
  <2>3. WorkOK'
    BY <1>1, <1>5, <2>2, GotoType DEF SelectModel
  <2> QED
    BY <1>2, <2>1, <2>3, TypeParts, PTL
<1>6. CASE InsertModel(w)
  <2>1. RowOK' /\ CountersOK'
    BY <1>1, <1>6 DEF InsertModel, row, stopper, RowOK, CountersOK
  <2>2. WorkOK'
    BY <1>1, <1>6, GotoType, PointNames DEF InsertModel
  <2> QED
    BY <1>2, <2>1, <2>2, TypeParts, PTL
<1> QED
  BY <1>3, <1>4, <1>5, <1>6

\* The rented machine, the training-service and the callbacks keep the types.
LEMMA RemoteType == TypeOK /\ Remote => TypeOK'
<1> SUFFICES ASSUME TypeOK, Remote PROVE TypeOK'
  OBVIOUS
<1>1. WorkOK /\ InstOK /\ PostOK /\ RowOK /\ CountersOK /\ OthersOK
  BY TypeParts
<1>2. WorkOK' /\ CountersOK' /\ OthersOK'
  BY <1>1 DEF Remote, InstanceDies, PostCallback, ServicePosts, CheckToken, LosePost,
     ApplyCallback, OnlyPosts, external, stopper, WorkOK, CountersOK, OthersOK
<1>3. ASSUME NEW p \in Posts, NEW s \in {"idle", "sent", "checked"},
             posts' = [posts EXCEPT ![p].pc = s]
      PROVE  PostOK'
  <2>1. ASSUME NEW v \in PostType PROVE [v EXCEPT !.pc = s] \in PostType
    BY DEF PostType
  <2> QED
    BY <1>1, <1>3, <2>1 DEF PostOK
<1>4. ASSUME NEW p \in Posts, NEW t \in Nat, NEW s \in {"running", "completed", "failed"},
             Send(p, t, s)
      PROVE  PostOK'
  <2>1. [pc |-> "sent", tok |-> t, status |-> s] \in PostType
    BY DEF PostType
  <2> QED
    BY <1>1, <1>4, <2>1 DEF Send, PostOK
<1>5. ASSUME NEW i \in Instances, InstanceDies(i) PROVE TypeOK'
  <2>1. InstOK'
    BY <1>1, <1>5, InstFields DEF InstanceDies, Rented
  <2>2. PostOK' /\ RowOK'
    BY <1>1, <1>5 DEF InstanceDies, row, PostOK, RowOK
  <2> QED
    BY <1>2, <2>1, <2>2, TypeParts, PTL
<1>6. ASSUME NEW i \in Instances, NEW p \in Posts, PostCallback(i, p) PROVE TypeOK'
  <2>1. inst[i].state \in Rented \cup {"free", "gone"} /\ inst[i].tok \in Nat
    BY <1>1 DEF InstOK, InstType
  <2>2. PICK s \in {"running", "completed", "failed"} :
          /\ Send(p, inst[i].tok, s)
          /\ inst' = [inst EXCEPT ![i].state = IF s = "running" THEN @ ELSE "finished"]
    BY <1>6 DEF PostCallback
  <2>3. (IF s = "running" THEN inst[i].state ELSE "finished") \in Rented \cup {"free", "gone"}
    BY <2>1 DEF Rented
  <2>4. InstOK'
    BY <1>1, <2>2, <2>3, InstFields
  <2>5. PostOK'
    BY <1>4, <2>1, <2>2
  <2>6. RowOK'
    BY <1>1, <1>6 DEF PostCallback, row, RowOK
  <2> QED
    BY <1>2, <2>4, <2>5, <2>6, TypeParts, PTL
<1>7. ASSUME NEW p \in Posts, ServicePosts(p) PROVE TypeOK'
  <2>1. PostOK'
    BY <1>1, <1>4, <1>7 DEF ServicePosts, OthersOK
  <2>2. RowOK' /\ InstOK'
    BY <1>1, <1>7 DEF ServicePosts, row, RowOK, InstOK
  <2> QED
    BY <1>2, <2>1, <2>2, TypeParts, PTL
<1>8. ASSUME NEW p \in Posts, CheckToken(p) \/ LosePost(p) PROVE TypeOK'
  <2>1. \E s \in {"idle", "sent", "checked"} : posts' = [posts EXCEPT ![p].pc = s]
    BY <1>8 DEF CheckToken, LosePost
  <2>2. RowOK' /\ InstOK'
    BY <1>1, <1>8 DEF CheckToken, LosePost, OnlyPosts, row, RowOK, InstOK
  <2>3. PostOK'
    BY <1>3, <2>1
  <2> QED
    BY <1>2, <2>2, <2>3, TypeParts, PTL
<1>9. ASSUME NEW p \in Posts, ApplyCallback(p) PROVE TypeOK'
  <2>1. PostOK' /\ InstOK'
    BY <1>1, <1>3, <1>9 DEF ApplyCallback, OnlyPosts, InstOK
  <2>2. posts[p].status \in Statuses
    BY <1>1 DEF PostOK, PostType, Statuses
  <2>3. RowOK'
    BY <1>1, <1>9, <2>2 DEF ApplyCallback, RowOK
  <2> QED
    BY <1>2, <2>1, <2>3, TypeParts, PTL
<1> QED
  BY <1>5, <1>6, <1>7, <1>8, <1>9 DEF Remote

\* The stop handler and the bridge keep the types.
LEMMA StopBridgeType == TypeOK /\ (Stop \/ Bridge) => TypeOK'
<1> SUFFICES ASSUME TypeOK, Stop \/ Bridge PROVE TypeOK'
  OBVIOUS
<1>1. WorkOK /\ InstOK /\ PostOK /\ RowOK /\ CountersOK /\ OthersOK
  BY TypeParts
<1>2. WorkOK' /\ PostOK'
  BY <1>1 DEF Stop, StopJob, StopRevokes, StopDestroys, Bridge, ServicePublishes,
     BridgeSelects, BridgeInserts, BridgeFails, OnlyBridge, WorkOK, PostOK
<1>3. CASE StopJob
  <2>1. InstOK' /\ RowOK'
    BY <1>1, <1>3 DEF StopJob, InstOK, RowOK, Statuses
  <2>2. CountersOK'
    BY <1>1, <1>3 DEF StopJob, CountersOK
  <2>3. OthersOK'
    BY <1>1, <1>3 DEF StopJob, external, OthersOK, RowOK
  <2> QED
    BY <1>2, <2>1, <2>2, <2>3, TypeParts, PTL
<1>4. CASE StopRevokes
  <2>1. InstOK' /\ RowOK' /\ CountersOK'
    BY <1>1, <1>4 DEF StopRevokes, InstOK, RowOK, CountersOK
  <2>2. OthersOK'
    BY <1>1, <1>4 DEF StopRevokes, external, OthersOK
  <2> QED
    BY <1>2, <2>1, <2>2, TypeParts, PTL
<1>5. CASE StopDestroys
  <2>1. InstOK'
    <3>1. CASE UNCHANGED inst
      BY <1>1, <3>1 DEF InstOK
    <3>2. CASE inst' = [inst EXCEPT ![stop.ref].state = "gone"]
      <4>1. CASE stop.ref \in Instances
        BY <1>1, <3>2, <4>1, InstFields
      <4>2. CASE stop.ref \notin Instances
        BY <1>1, <3>2, <4>2 DEF InstOK
      <4> QED
        BY <4>1, <4>2
    <3> QED
      BY <1>5, <3>1, <3>2 DEF StopDestroys
  <2>2. RowOK' /\ CountersOK' /\ OthersOK'
    BY <1>1, <1>5 DEF StopDestroys, row, external, RowOK, CountersOK, OthersOK
  <2> QED
    BY <1>2, <2>1, <2>2, TypeParts, PTL
<1>6. CASE Bridge
  <2>1. InstOK' /\ RowOK'
    BY <1>1, <1>6 DEF Bridge, ServicePublishes, BridgeSelects, BridgeInserts, BridgeFails,
       OnlyBridge, row, InstOK, RowOK
  <2>2. CountersOK'
    <3>1. UNCHANGED <<issued, stops, redeliveries, queue>>
      BY <1>6 DEF Bridge, ServicePublishes, BridgeSelects, BridgeInserts, BridgeFails,
         OnlyBridge, stopper
    <3>2. models' = models \/ models' = models + 1
      BY <1>6 DEF Bridge, ServicePublishes, BridgeSelects, BridgeInserts, BridgeFails
    <3>3. raced' \in BOOLEAN
      BY <1>1, <1>6 DEF Bridge, ServicePublishes, BridgeSelects, BridgeInserts, BridgeFails,
         CountersOK
    <3> QED
      BY <1>1, <3>1, <3>2, <3>3 DEF CountersOK
  <2>3. OthersOK'
    <3>1. UNCHANGED <<creator, serviceTok, stop>> /\ service' \in {service, "finished"}
      BY <1>6 DEF Bridge, ServicePublishes, BridgeSelects, BridgeInserts, BridgeFails,
         OnlyBridge, stopper
    <3>2. bridge' \in [Bridges -> {"listening", "select", "insert", "done"}]
      <4>1. CASE ServicePublishes
        BY <1>1, <4>1 DEF ServicePublishes, OthersOK
      <4>2. ASSUME NEW b \in Bridges, BridgeSelects(b) \/ BridgeInserts(b) \/ BridgeFails(b)
            PROVE  bridge' \in [Bridges -> {"listening", "select", "insert", "done"}]
        <5>1. \E s \in {"insert", "done"} : bridge' = [bridge EXCEPT ![b] = s]
          BY <4>2 DEF BridgeSelects, BridgeInserts, BridgeFails
        <5> QED
          BY <1>1, <5>1 DEF OthersOK
      <4> QED
        BY <1>6, <4>1, <4>2 DEF Bridge
    <3> QED
      BY <1>1, <3>1, <3>2 DEF OthersOK
  <2> QED
    BY <1>2, <2>1, <2>2, <2>3, TypeParts, PTL
<1> QED
  BY <1>3, <1>4, <1>5, <1>6 DEF Stop

\* Every step keeps the types.
LEMMA TypeStep == TypeOK /\ [Next]_vars => TypeOK'
<1> SUFFICES ASSUME TypeOK, [Next]_vars PROVE TypeOK'
  OBVIOUS
<1>1. ASSUME NEW w \in Workers, Work(w) \/ Crash(w) \/ Redeliver(w) PROVE TypeOK'
  BY <1>1, LocalStepType, StatusStepType, QueueStepType, MachineStepType, TokenStepType
  DEF Work
<1>2. CASE UNCHANGED vars
  BY <1>2 DEF vars, row, external, stopper, TypeOK
<1> QED
  BY <1>1, <1>2, CreateType, RemoteType, StopBridgeType DEF Next

\* Type correctness of the row, the queue, the executions, the machines, the
\* callbacks, the stop handler and the bridge.
THEOREM TypeCorrect == Spec => []TypeOK
  BY InitType, TypeStep, PTL DEF Spec

-----------------------------------------------------------------------------
(* A stop is undone by a callback that had passed its check, by nothing else. *)

\* Nothing an execution does takes a job out of 'stopped'.
LEMMA WorkerKeepsStop ==
  ASSUME NEW w \in Workers, Work(w) \/ Crash(w) \/ Redeliver(w), status = "stopped"
  PROVE  status' = "stopped"
<1>1. CASE \/ Announce(w) \/ DispatchEdge(w) \/ Simulate(w) \/ PollHub(w)
           \/ CompleteJob(w) \/ FailJob(w)
  BY <1>1 DEF Announce, DispatchEdge, Simulate, PollHub, CompleteJob, FailJob, UpdateJob
<1>2. CASE \/ Take(w) \/ Route(w) \/ DispatchHub(w) \/ IssueToken(w) \/ UploadDataset(w)
           \/ Recheck(w) \/ RentInstance(w) \/ RecordInstance(w) \/ WatchStatus(w)
           \/ WatchInstance(w) \/ Raise(w)
  BY <1>2 DEF Take, Route, DispatchHub, IssueToken, UploadDataset, Recheck, RentInstance,
     RecordInstance, WatchStatus, WatchInstance, Raise, OnlyWork, row
<1>3. CASE \/ DestroyInstance(w) \/ RevokeToken(w) \/ SelectModel(w) \/ InsertModel(w)
           \/ Retry(w) \/ Crash(w) \/ Redeliver(w)
  BY <1>3 DEF DestroyInstance, RevokeToken, SelectModel, InsertModel, Retry, Crash,
     Redeliver, row
<1> QED
  BY <1>1, <1>2, <1>3 DEF Work

\* The guard of update_job, over all steps of all actors.
LEMMA StopGuardedStep ==
  ASSUME TypeOK, Next, status = "stopped", status' # "stopped"
  PROVE  \E p \in Posts : posts[p].pc = "checked" /\ posts'[p].pc = "idle"
<1>1. \E p \in Posts : ApplyCallback(p)
  <2>1. ~Create
    BY DEF Create, CreatorIssuesToken, CreatorPosts, CreatorFallsBack, row
  <2>2. \A w \in Workers : ~(Work(w) \/ Crash(w) \/ Redeliver(w))
    BY WorkerKeepsStop
  <2>3. ~Stop
    BY DEF Stop, StopJob, StopRevokes, StopDestroys, row
  <2>4. ~Bridge
    BY DEF Bridge, ServicePublishes, BridgeSelects, BridgeInserts, BridgeFails,
       OnlyBridge, row
  <2>5. Remote
    BY <2>1, <2>2, <2>3, <2>4 DEF Next
  <2> QED
    BY <2>5 DEF Remote, InstanceDies, PostCallback, ServicePosts, CheckToken, LosePost, row
<1>2. PICK p \in Posts : ApplyCallback(p)
  BY <1>1
<1>3. posts'[p].pc = "idle"
  BY <1>2 DEF ApplyCallback, TypeOK
<1> QED
  BY <1>2, <1>3 DEF ApplyCallback

\* Whatever is redelivered, retried, crashes or answers late, a job leaves
\* 'stopped' only by a callback that was past its token check.
THEOREM StopIsGuarded == Spec => StopGuarded
<1>1. TypeOK /\ [Next]_vars =>
        [status = "stopped" /\ status' # "stopped" =>
           \E p \in Posts : posts[p].pc = "checked" /\ posts'[p].pc = "idle"]_vars
  BY StopGuardedStep
<1> QED
  BY <1>1, TypeCorrect, PTL DEF Spec, StopGuarded

-----------------------------------------------------------------------------
(* Rented machines.                                                        *)

\* An execution past its destroy_instance holds no machine.
ReleasedInv == \A w \in Workers : work[w].pc = "revoke" => work[w].inst = NoInstance

RInv == TypeOK /\ ReleasedInv /\ InstanceAccounted

Holds(w, i) == work[w].inst = i /\ work[w].pc \in InTry \cup Finally

\* Each worker's step keeps every machine accounted for.
LEMMA WorkerKeepsAccount ==
  ASSUME RInv, NEW w \in Workers, Work(w) \/ Crash(w) \/ Redeliver(w)
  PROVE  ReleasedInv' /\ InstanceAccounted'
<1> USE DEF RInv
<1> DEFINE Accounted(i) == inst[i].state \in Rented =>
                             inst[i].orphan \/ \E x \in Workers : Holds(x, i)
<1>1. \A i \in Instances : Accounted(i)
  BY DEF InstanceAccounted, Holds
<1>2. InstanceAccounted' <=> \A i \in Instances : Accounted(i)'
  BY DEF InstanceAccounted, Holds
<1>3. ASSUME \A x \in Workers \ {w} : work'[x] = work[x]
      PROVE  \A x \in Workers \ {w}, i \in Instances : Holds(x, i) => Holds(x, i)'
  BY <1>3 DEF Holds
\* Steps that leave the machines alone and let go of none.
<1>4. ASSUME UNCHANGED inst, \A x \in Workers \ {w} : work'[x] = work[x],
             \/ work[w].pc \notin InTry \cup Finally
             \/ work[w].pc = "revoke"
             \/ work'[w].inst = work[w].inst /\ work'[w].pc \in InTry \cup {"destroy"},
             work'[w].pc # "revoke"
      PROVE  ReleasedInv' /\ InstanceAccounted'
  <2>1. ReleasedInv'
    BY <1>4 DEF ReleasedInv
  <2>2. ASSUME NEW i \in Instances, Holds(w, i) PROVE Holds(w, i)'
    <3>1. i # NoInstance
      BY ConstantsOK
    <3>2. work[w].pc # "revoke"
      BY <2>2, <3>1 DEF Holds, ReleasedInv
    <3> QED
      BY <1>4, <2>2, <3>2 DEF Holds, Finally
  <2>3. \A i \in Instances : Accounted(i)'
    BY <1>1, <1>3, <1>4, <2>2
  <2> QED
    BY <1>2, <2>1, <2>3
<1> HIDE DEF Accounted
<1>5. \A x \in Workers \ {w} : work'[x] = work[x]
  BY ZenonT(60) DEF Work, Take, Announce, Goto, Route, DispatchEdge, Simulate, DispatchHub, PollHub,
     IssueToken, UploadDataset, Recheck, RentInstance, RecordInstance, WatchStatus, Finish,
     WatchInstance, DestroyInstance, RevokeToken, SelectModel, InsertModel, CompleteJob,
     FailJob, Retry, Raise, Crash, Redeliver, TypeOK
<1> USE DEF InTry, Finally
<1>6. CASE \/ Take(w) \/ Route(w) \/ DispatchEdge(w) \/ Simulate(w) \/ DispatchHub(w)
           \/ PollHub(w) \/ CompleteJob(w) \/ FailJob(w) \/ Retry(w)
  <2>1. work[w].pc \notin InTry \cup Finally /\ UNCHANGED inst
    BY <1>6 DEF Take, Route, DispatchEdge, Simulate, DispatchHub, PollHub, CompleteJob,
       FailJob, Retry, Goto, OnlyWork, OnlyStatus
  <2>2. work'[w].pc # "revoke"
    <3>1. CASE Take(w)
      BY <3>1 DEF Take, Idle, TypeOK
    <3>2. CASE Route(w)
      <4>1. PICK p \in Providers : Goto(w, "route", IF p = "vast" THEN "token" ELSE p)
        BY <3>2 DEF Route
      <4>2. work'[w].pc = IF p = "vast" THEN "token" ELSE p
        BY <4>1 DEF Goto, TypeOK
      <4>3. p \in {"vast", "hub", "local", "edge"}
        BY ConstantsOK
      <4> QED
        BY <4>2, <4>3
    <3>3. CASE DispatchEdge(w) \/ CompleteJob(w) \/ Retry(w)
      BY <3>3 DEF DispatchEdge, CompleteJob, Retry, Idle, TypeOK
    <3>4. CASE Simulate(w)
      BY <3>4 DEF Simulate, TypeOK
    <3>5. CASE PollHub(w)
      BY SMTT(30), <3>5 DEF PollHub, TypeOK
    <3>6. CASE DispatchHub(w) \/ FailJob(w)
      BY <3>6 DEF DispatchHub, FailJob, Goto, TypeOK
    <3> QED
      BY <1>6, <3>1, <3>2, <3>3, <3>4, <3>5, <3>6
  <2> QED
    BY <1>4, <1>5, <2>1, <2>2
<1>7. CASE \/ IssueToken(w) \/ UploadDataset(w) \/ Recheck(w) \/ SelectModel(w)
           \/ InsertModel(w)
  <2>1. work[w].pc \notin InTry \cup Finally /\ UNCHANGED inst
    BY <1>7 DEF IssueToken, UploadDataset, Recheck, SelectModel, InsertModel, Goto, OnlyWork
  <2>2. work'[w].pc # "revoke"
    BY <1>7 DEF IssueToken, UploadDataset, Recheck, SelectModel, InsertModel, Goto, Idle,
       TypeOK
  <2> QED
    BY <1>4, <1>5, <2>1, <2>2
<1>8. CASE Announce(w) \/ RecordInstance(w) \/ WatchStatus(w)
  <2>1. UNCHANGED inst /\ work'[w].pc # "revoke"
    BY <1>8 DEF Announce, RecordInstance, WatchStatus, Finish, Goto, OnlyStatus, OnlyWork,
       TypeOK
  <2>2. work'[w].inst = work[w].inst
    BY <1>8 DEF Announce, RecordInstance, WatchStatus, Finish, Goto, TypeOK
  <2>3. \/ work[w].pc \notin InTry \cup Finally
        \/ work'[w].pc \in InTry \cup {"destroy"}
    BY <1>8 DEF Announce, RecordInstance, WatchStatus, Finish, Goto, TypeOK
  <2> QED
    BY <1>4, <1>5, <2>1, <2>2, <2>3
<1>9. CASE WatchInstance(w)
  <2>1. UNCHANGED inst
    BY <1>9 DEF WatchInstance, OnlyWork
  <2>2. \/ Finish(w, "error")
        \/ \E d : work' = [work EXCEPT ![w].pc = "poll", ![w].dead = d, ![w].polls = @ + 1]
    BY <1>9 DEF WatchInstance
  <2>3. work'[w].inst = work[w].inst /\ work'[w].pc \in {"poll", "destroy"}
    <3>1. CASE Finish(w, "error")
      BY <3>1 DEF Finish, TypeOK
    <3>2. ASSUME NEW d, work' = [work EXCEPT ![w].pc = "poll", ![w].dead = d,
                                             ![w].polls = @ + 1]
          PROVE  work'[w].inst = work[w].inst /\ work'[w].pc = "poll"
      BY <3>2 DEF TypeOK
    <3> QED
      BY <2>2, <3>1, <3>2
  <2> QED
    BY <1>4, <1>5, <2>1, <2>3
<1>10. CASE Raise(w)
  <2>1. UNCHANGED inst /\ work[w].pc \notin Finally
    BY <1>10 DEF Raise, OnlyWork, BeforeTry
  <2>2. CASE work[w].pc \in InTry
    <3>1. work'[w].inst = work[w].inst /\ work'[w].pc = "destroy"
      BY <1>10, <2>2 DEF Raise, TypeOK
    <3> QED
      BY <1>4, <1>5, <2>1, <3>1
  <2>3. CASE work[w].pc \notin InTry
    <3>1. work'[w].pc = "fail"
      BY <1>10, <2>3 DEF Raise, TypeOK
    <3> QED
      BY <1>4, <1>5, <2>1, <2>3, <3>1
  <2> QED
    BY <2>2, <2>3
<1>11. CASE RevokeToken(w)
  <2>1. UNCHANGED inst /\ work[w].pc = "revoke"
    BY <1>11 DEF RevokeToken
  <2>2. work'[w].pc # "revoke"
    BY <1>11 DEF RevokeToken, Idle, TypeOK
  <2> QED
    BY <1>4, <1>5, <2>1, <2>2
<1>12. CASE Redeliver(w)
  <2>1. UNCHANGED <<inst, work>>
    BY <1>12 DEF Redeliver
  <2> QED
    BY <2>1 DEF ReleasedInv, InstanceAccounted
\* Steps that rent a machine or let one go.
<1>13. CASE RentInstance(w)
  <2>1. work[w].pc = "rent" /\ ~ \E i \in Instances : Holds(w, i)
    BY <1>13 DEF RentInstance, Holds
  <2>2. CASE UNCHANGED inst /\ Finish(w, "error")
    <3>1. work'[w].pc = "destroy"
      BY <2>2 DEF Finish, TypeOK
    <3> QED
      BY <1>4, <1>5, <2>1, <2>2, <3>1
  <2>3. ASSUME NEW j \in Instances, NEW heard \in BOOLEAN,
               inst' = [inst EXCEPT ![j] = [state |-> "training", tok |-> work[w].tok,
                                            orphan |-> ~heard]],
               work' = IF heard THEN [work EXCEPT ![w].pc = "ref", ![w].inst = j]
                       ELSE [work EXCEPT ![w].pc = "destroy", ![w].out = "error"]
        PROVE  ReleasedInv' /\ InstanceAccounted'
    <3>1. \A i \in Instances \ {j} : inst'[i] = inst[i]
      BY <2>3 DEF TypeOK
    <3>2. \A i \in Instances \ {j} : Accounted(i)'
      BY <1>1, <1>3, <1>5, <2>1, <3>1 DEF Accounted
    <3>3. CASE heard
      <4>1. work'[w].pc = "ref" /\ work'[w].inst = j
        BY <2>3, <3>3 DEF TypeOK
      <4>2. Accounted(j)'
        BY <4>1 DEF Accounted, Holds
      <4>3. ReleasedInv'
        BY <1>5, <4>1 DEF ReleasedInv
      <4> QED
        BY <1>2, <3>2, <4>2, <4>3
    <3>4. CASE ~heard
      <4>1. work'[w].pc = "destroy"
        BY <2>3, <3>4 DEF TypeOK
      <4>2. inst'[j].orphan
        BY <2>3, <3>4 DEF TypeOK
      <4>3. Accounted(j)'
        BY <4>2 DEF Accounted
      <4>4. ReleasedInv'
        BY <1>5, <4>1 DEF ReleasedInv
      <4> QED
        BY <1>2, <3>2, <4>3, <4>4
    <3> QED
      BY <3>3, <3>4
  <2> QED
    BY <1>13, <2>2, <2>3 DEF RentInstance, Finish
<1>14. CASE DestroyInstance(w) \/ Crash(w)
  <2>1. \A i \in Instances \ {work[w].inst} : inst'[i] = inst[i] /\ ~Holds(w, i)
    BY <1>14 DEF DestroyInstance, Crash, Holds, TypeOK
  <2>2. \A i \in Instances \ {work[w].inst} : Accounted(i)'
    BY <1>1, <1>3, <1>5, <2>1 DEF Accounted
  <2>3. ASSUME NEW j \in Instances, work[w].inst = j PROVE Accounted(j)'
    <3>1. j # NoInstance
      BY ConstantsOK
    <3>2. \/ inst' = [inst EXCEPT ![j].state = "gone"]
          \/ inst' = [inst EXCEPT ![j].orphan = (inst[j].state # "gone")]
      BY <1>14, <2>3, <3>1 DEF DestroyInstance, Crash
    <3>3. CASE inst' = [inst EXCEPT ![j].state = "gone"]
      <4>1. inst'[j].state = "gone"
        BY <3>3 DEF TypeOK
      <4> QED
        BY <4>1 DEF Accounted, Rented
    <3>4. CASE inst' = [inst EXCEPT ![j].orphan = (inst[j].state # "gone")]
      <4>1. inst'[j].state = inst[j].state /\ inst'[j].orphan = (inst[j].state # "gone")
        BY <3>4 DEF TypeOK
      <4> QED
        BY <4>1 DEF Accounted, Rented
    <3> QED
      BY <3>2, <3>3, <3>4
  <2>4. work'[w].pc = "revoke" => work'[w].inst = NoInstance
    BY <1>14 DEF DestroyInstance, Crash, Idle, TypeOK
  <2>5. ReleasedInv'
    BY <1>5, <2>4 DEF ReleasedInv
  <2> QED
    BY <1>2, <2>2, <2>3, <2>5
<1> QED
  BY <1>6, <1>7, <1>8, <1>9, <1>10, <1>11, <1>12, <1>13, <1>14 DEF Work

\* Every step keeps every machine accounted for.
LEMMA RInvStep == RInv /\ [Next]_vars => RInv'
<1> SUFFICES ASSUME RInv, [Next]_vars PROVE ReleasedInv' /\ InstanceAccounted'
  BY TypeStep DEF RInv
<1>1. ASSUME NEW w \in Workers, Work(w) \/ Crash(w) \/ Redeliver(w)
      PROVE  ReleasedInv' /\ InstanceAccounted'
  BY <1>1, WorkerKeepsAccount
<1>2. ASSUME UNCHANGED work,
             \A i \in Instances : /\ inst'[i].state \in Rented => inst[i].state \in Rented
                                  /\ inst'[i].orphan = inst[i].orphan
      PROVE  ReleasedInv' /\ InstanceAccounted'
  BY <1>2 DEF RInv, ReleasedInv, InstanceAccounted
<1>3. CASE Create \/ Bridge \/ UNCHANGED vars
  <2>1. UNCHANGED <<work, inst>>
    BY <1>3 DEF Create, CreatorIssuesToken, CreatorPosts, CreatorFallsBack, Bridge,
       ServicePublishes, BridgeSelects, BridgeInserts, BridgeFails, OnlyBridge, vars
  <2> QED
    BY <1>2, <2>1
<1>4. CASE Remote
  <2>1. UNCHANGED work
    BY <1>4 DEF Remote, InstanceDies, PostCallback, ServicePosts, CheckToken, LosePost,
       ApplyCallback, OnlyPosts
  <2>2. \/ UNCHANGED inst
        \/ \E i \in Instances, s \in {"dead", "training", "finished"} :
             inst[i].state \in Rented /\ inst' = [inst EXCEPT ![i].state = s]
    BY <1>4 DEF Remote, InstanceDies, PostCallback, ServicePosts, CheckToken, LosePost,
       ApplyCallback, OnlyPosts, Rented
  <2>3. CASE UNCHANGED inst
    BY <1>2, <2>1, <2>3
  <2>4. ASSUME NEW i \in Instances, NEW s, inst[i].state \in Rented,
               inst' = [inst EXCEPT ![i].state = s]
        PROVE  ReleasedInv' /\ InstanceAccounted'
    <3>1. \A j \in Instances : /\ inst'[j].state \in Rented => inst[j].state \in Rented
                               /\ inst'[j].orphan = inst[j].orphan
      BY <2>4 DEF RInv, TypeOK
    <3> QED
      BY <1>2, <2>1, <3>1
  <2> QED
    BY <2>2, <2>3, <2>4
<1>5. CASE Stop
  <2>1. UNCHANGED work
    BY <1>5 DEF Stop, StopJob, StopRevokes, StopDestroys
  <2>2. UNCHANGED inst \/ inst' = [inst EXCEPT ![stop.ref].state = "gone"]
    BY <1>5 DEF Stop, StopJob, StopRevokes, StopDestroys
  <2>3. \A j \in Instances : /\ inst'[j].state \in Rented => inst[j].state \in Rented
                             /\ inst'[j].orphan = inst[j].orphan
    <3>1. CASE UNCHANGED inst
      BY <3>1
    <3>2. ASSUME inst' = [inst EXCEPT ![stop.ref].state = "gone"], NEW j \in Instances
          PROVE  /\ inst'[j].state \in Rented => inst[j].state \in Rented
                 /\ inst'[j].orphan = inst[j].orphan
      <4>1. CASE j = stop.ref
        BY <3>2, <4>1 DEF RInv, TypeOK, Rented
      <4>2. CASE j # stop.ref
        BY <3>2, <4>2 DEF RInv, TypeOK
      <4> QED
        BY <4>1, <4>2
    <3> QED
      BY <2>2, <3>1, <3>2
  <2> QED
    BY <1>2, <2>1, <2>3
<1> QED
  BY <1>1, <1>3, <1>4, <1>5 DEF Next

\* Whatever fails, is retried, redelivered or stopped, every machine being paid
\* for is held by an execution that has its destroy_instance ahead of it, or
\* was set loose by a fault: a lost answer, a dead worker, a refused DELETE.
THEOREM MachinesAccounted == Spec => []InstanceAccounted
<1>1. Init => RInv
  <2>1. Init => ReleasedInv /\ InstanceAccounted
    BY DEF Init, Idle, ReleasedInv, InstanceAccounted, Rented
  <2> QED
    BY <2>1, InitType DEF RInv
<1>2. RInv => InstanceAccounted
  BY DEF RInv
<1> QED
  BY RInvStep, <1>1, <1>2, PTL DEF Spec

-----------------------------------------------------------------------------
(* Trained models.                                                         *)

\* As long as no two registrations have overlapped, one at most is about to
\* insert, and then there is no model yet.
NotRacedInv ==
  ~raced => /\ models <= 1
            /\ \A x, y \in Inserting : x = y
            /\ Inserting # {} => models = 0

MInv == TypeOK /\ NotRacedInv

\* A step that registers nothing and brings nobody to the INSERT.
LEMMA NobodyInserts ==
  ASSUME NotRacedInv, UNCHANGED <<models, raced>>, Inserting' \subseteq Inserting
  PROVE  NotRacedInv'
  BY DEF NotRacedInv

\* The steps of a worker other than the registration bring it to no INSERT.
LEMMA OthersDoNotInsert ==
  ASSUME TypeOK, NEW w \in Workers, Work(w) \/ Crash(w) \/ Redeliver(w),
         ~SelectModel(w), ~InsertModel(w)
  PROVE  Inserting' \subseteq Inserting /\ UNCHANGED <<models, raced>>
<1>1. UNCHANGED <<models, raced, bridge>>
  BY Zenon DEF Work, Take, Announce, Route, DispatchEdge, Simulate, DispatchHub, PollHub,
     IssueToken, UploadDataset, Recheck, RentInstance, RecordInstance, WatchStatus,
     WatchInstance, DestroyInstance, RevokeToken, CompleteJob, FailJob, Retry, Raise,
     Crash, Redeliver, OnlyWork, OnlyStatus, external
<1>2. \A x \in Workers \ {w} : work'[x] = work[x]
  BY ZenonT(60) DEF Work, Take, Announce, Goto, Route, DispatchEdge, Simulate, DispatchHub, PollHub,
     IssueToken, UploadDataset, Recheck, RentInstance, RecordInstance, WatchStatus, Finish,
     WatchInstance, DestroyInstance, RevokeToken, CompleteJob, FailJob, Retry, Raise,
     Crash, Redeliver, TypeOK
<1>3. work'[w].pc # "insert" \/ work' = work
  <2>1. CASE Take(w)
    BY <2>1 DEF Take, Idle, TypeOK
  <2>14. CASE Redeliver(w)
    BY <2>14 DEF Redeliver
  <2>2. CASE \/ DispatchEdge(w) \/ CompleteJob(w) \/ Retry(w) \/ Crash(w)
    BY <2>2 DEF DispatchEdge, CompleteJob, Retry, Crash, Idle, TypeOK
  <2>3. CASE Route(w)
    <3>1. PICK p \in Providers : Goto(w, "route", IF p = "vast" THEN "token" ELSE p)
      BY <2>3 DEF Route
    <3>2. work'[w].pc = IF p = "vast" THEN "token" ELSE p
      BY <3>1 DEF Goto, TypeOK
    <3>3. p \in {"vast", "hub", "local", "edge"}
      BY ConstantsOK
    <3> QED
      BY <3>2, <3>3
  <2>4. CASE \/ Announce(w) \/ DispatchHub(w) \/ UploadDataset(w) \/ RecordInstance(w)
             \/ FailJob(w)
    BY <2>4 DEF Announce, DispatchHub, UploadDataset, RecordInstance, FailJob, Goto, TypeOK
  <2>5. CASE Simulate(w) \/ IssueToken(w)
    <3>1. CASE Simulate(w)
      BY <3>1 DEF Simulate, TypeOK
    <3>2. CASE IssueToken(w)
      BY <3>2 DEF IssueToken, TypeOK
    <3> QED
      BY <2>5, <3>1, <3>2
  <2>6. CASE PollHub(w)
    <3>1. \/ work' = [work EXCEPT ![w].polls = @ + 1]
          \/ \E pc \in {"select", "fail"} : work' = [work EXCEPT ![w].pc = pc]
      BY <2>6 DEF PollHub
    <3>2. work[w].pc = "hub"
      BY <2>6 DEF PollHub
    <3>3. CASE work' = [work EXCEPT ![w].polls = @ + 1]
      BY <3>2, <3>3 DEF TypeOK
    <3>4. ASSUME NEW pc \in {"select", "fail"}, work' = [work EXCEPT ![w].pc = pc]
          PROVE  work'[w].pc = pc
      BY <3>4 DEF TypeOK
    <3> QED
      BY <3>1, <3>3, <3>4
  <2>7. CASE Recheck(w)
    BY <2>7 DEF Recheck, Goto, Idle, TypeOK
  <2>8. CASE RentInstance(w)
    <3>1. \/ Finish(w, "error")
          \/ \E i : work' = [work EXCEPT ![w].pc = "ref", ![w].inst = i]
      BY <2>8 DEF RentInstance, Finish
    <3>2. CASE Finish(w, "error")
      BY <3>2 DEF Finish, TypeOK
    <3>3. ASSUME NEW i, work' = [work EXCEPT ![w].pc = "ref", ![w].inst = i]
          PROVE  work'[w].pc = "ref"
      BY <3>3 DEF TypeOK
    <3> QED
      BY <3>1, <3>2, <3>3
  <2>9. CASE WatchStatus(w)
    BY <2>9 DEF WatchStatus, Finish, Goto, TypeOK
  <2>10. CASE WatchInstance(w)
    <3>1. \/ Finish(w, "error")
          \/ \E d : work' = [work EXCEPT ![w].pc = "poll", ![w].dead = d, ![w].polls = @ + 1]
      BY <2>10 DEF WatchInstance
    <3>2. CASE Finish(w, "error")
      BY <3>2 DEF Finish, TypeOK
    <3>3. ASSUME NEW d, work' = [work EXCEPT ![w].pc = "poll", ![w].dead = d,
                                             ![w].polls = @ + 1]
          PROVE  work'[w].pc = "poll"
      BY <3>3 DEF TypeOK
    <3> QED
      BY <3>1, <3>2, <3>3
  <2>11. CASE DestroyInstance(w)
    BY <2>11 DEF DestroyInstance, TypeOK
  <2>12. CASE RevokeToken(w)
    BY <2>12 DEF RevokeToken, Idle, TypeOK
  <2>13. CASE Raise(w)
    BY <2>13 DEF Raise, TypeOK
  <2> QED
    BY <2>1, <2>2, <2>3, <2>4, <2>5, <2>6, <2>7, <2>8, <2>9, <2>10, <2>11, <2>12, <2>13, <2>14
    DEF Work
<1> QED
  BY <1>1, <1>2, <1>3 DEF Inserting

\* A registrar that finds no model, seen from either side.
LEMMA RegistrarSelects ==
  ASSUME NotRacedInv, NEW x, Inserting' \subseteq Inserting \cup {x}, UNCHANGED models,
         models = 0, raced' = (raced \/ (models = 0 /\ Inserting # {}))
  PROVE  NotRacedInv'
  BY DEF NotRacedInv

\* A registrar that inserts, seen from either side.
LEMMA RegistrarInserts ==
  ASSUME NotRacedInv, models \in Nat, NEW x \in Inserting, Inserting' \subseteq Inserting \ {x},
         models' = models + 1, UNCHANGED raced
  PROVE  NotRacedInv'
  BY DEF NotRacedInv

\* Every step keeps it that way.
LEMMA MInvStep == MInv /\ [Next]_vars => MInv'
<1> SUFFICES ASSUME MInv, [Next]_vars PROVE NotRacedInv'
  BY TypeStep DEF MInv
<1> USE DEF MInv
<1>1. ASSUME NEW w \in Workers, Work(w) \/ Crash(w) \/ Redeliver(w) PROVE NotRacedInv'
  <2>1. CASE SelectModel(w)
    <3>1. /\ work'[w].pc = IF models = 0 THEN "insert" ELSE "complete"
          /\ \A x \in Workers \ {w} : work'[x] = work[x]
          /\ UNCHANGED <<models, bridge>>
      BY <2>1 DEF SelectModel, Goto, TypeOK, external
    <3>2. Inserting' \subseteq Inserting \cup {w}
      BY <3>1 DEF Inserting
    <3>3. CASE models = 0
      BY <2>1, <3>1, <3>2, <3>3, RegistrarSelects DEF SelectModel
    <3>4. CASE models # 0
      <4>1. Inserting' \subseteq Inserting
        BY <3>1, <3>4 DEF Inserting
      <4>2. raced' = raced
        BY <2>1, <3>4 DEF SelectModel, TypeOK
      <4> QED
        BY <3>1, <4>1, <4>2, NobodyInserts
    <3> QED
      BY <3>3, <3>4
  <2>2. CASE InsertModel(w)
    <3>1. /\ work[w].pc = "insert" /\ work'[w].pc = "complete"
          /\ \A x \in Workers \ {w} : work'[x] = work[x]
          /\ models' = models + 1 /\ UNCHANGED <<raced, bridge>>
      BY <2>2 DEF InsertModel, Goto, TypeOK, external
    <3>2. w \in Inserting
      BY <3>1 DEF Inserting
    <3>3. Inserting' \subseteq Inserting \ {w}
      BY <3>1, ConstantsOK DEF Inserting
    <3>4. models \in Nat
      BY DEF TypeOK
    <3> QED
      BY <3>1, <3>2, <3>3, <3>4, RegistrarInserts
  <2>3. CASE ~SelectModel(w) /\ ~InsertModel(w)
    BY <1>1, <2>3, OthersDoNotInsert, NobodyInserts
  <2> QED
    BY <2>1, <2>2, <2>3
<1>2. CASE Create \/ Remote \/ Stop \/ UNCHANGED vars
  <2>1. UNCHANGED <<work, bridge, models, raced>>
    BY <1>2 DEF Create, CreatorIssuesToken, CreatorPosts, CreatorFallsBack, Remote,
       InstanceDies, PostCallback, ServicePosts, CheckToken, LosePost, ApplyCallback,
       OnlyPosts, Stop, StopJob, StopRevokes, StopDestroys, vars, external
  <2> QED
    BY <2>1, NobodyInserts DEF Inserting
<1>3. CASE ServicePublishes
  <2>1. UNCHANGED <<work, models, raced>>
        /\ \A b \in Bridges : bridge'[b] \in {"select", bridge[b]}
    BY <1>3 DEF ServicePublishes
  <2>2. Inserting' \subseteq Inserting
    BY <2>1 DEF Inserting
  <2> QED
    BY <2>1, <2>2, NobodyInserts
<1>4. ASSUME NEW b \in Bridges, BridgeSelects(b) PROVE NotRacedInv'
  <2>1. /\ bridge'[b] = IF models = 0 THEN "insert" ELSE "done"
        /\ \A x \in Bridges \ {b} : bridge'[x] = bridge[x]
        /\ UNCHANGED <<models, work>>
    BY <1>4 DEF BridgeSelects, OnlyBridge, TypeOK
  <2>2. Inserting' \subseteq Inserting \cup {b}
    BY <2>1 DEF Inserting
  <2>3. CASE models = 0
    BY <1>4, <2>1, <2>2, <2>3, RegistrarSelects DEF BridgeSelects
  <2>4. CASE models # 0
    <3>1. Inserting' \subseteq Inserting
      BY <2>1, <2>4 DEF Inserting
    <3>2. raced' = raced
      BY <1>4, <2>4 DEF BridgeSelects, TypeOK
    <3> QED
      BY <2>1, <3>1, <3>2, NobodyInserts
  <2> QED
    BY <2>3, <2>4
<1>5. ASSUME NEW b \in Bridges, BridgeInserts(b) PROVE NotRacedInv'
  <2>1. /\ bridge[b] = "insert" /\ bridge'[b] = "done"
        /\ \A x \in Bridges \ {b} : bridge'[x] = bridge[x]
        /\ models' = models + 1 /\ UNCHANGED <<raced, work>>
    BY <1>5 DEF BridgeInserts, OnlyBridge, TypeOK
  <2>2. b \in Inserting
    BY <2>1 DEF Inserting
  <2>3. Inserting' \subseteq Inserting \ {b}
    BY <2>1, ConstantsOK DEF Inserting
  <2>4. models \in Nat
    BY DEF TypeOK
  <2> QED
    BY <2>1, <2>2, <2>3, <2>4, RegistrarInserts
<1>6. ASSUME NEW b \in Bridges, BridgeFails(b) PROVE NotRacedInv'
  <2>1. /\ bridge'[b] = "done" /\ \A x \in Bridges \ {b} : bridge'[x] = bridge[x]
        /\ UNCHANGED <<raced, models, work>>
    BY <1>6 DEF BridgeFails, OnlyBridge, TypeOK
  <2>2. Inserting' \subseteq Inserting
    BY <2>1 DEF Inserting
  <2> QED
    BY <2>1, <2>2, NobodyInserts
<1> QED
  BY <1>1, <1>2, <1>3, <1>4, <1>5, <1>6 DEF Next, Bridge

\* A job gets a second model only when two registrations overlapped between
\* looking for one and inserting theirs.
THEOREM OneModel == Spec => []OneModelUnlessRaced
<1>1. Init => MInv
  <2>1. Init => NotRacedInv
    BY DEF Init, Idle, NotRacedInv, Inserting
  <2> QED
    BY <2>1, InitType DEF MInv
<1>2. MInv => OneModelUnlessRaced
  BY DEF MInv, NotRacedInv, OneModelUnlessRaced, TypeOK
<1> QED
  BY MInvStep, <1>1, <1>2, PTL DEF Spec

-----------------------------------------------------------------------------
(* A stop that has settled is final.                                       *)

\* The program points at which an execution has a token and no machine yet.
Provisioning == {"upload", "announce", "recheck", "rent"}

\* How a step leaves the execution in w, but for a delivery and a new token: it
\* goes on with its retry and its token, never back to before the try block,
\* to the rental only past a look at the status, and to a machine only by it.
Continues(w) ==
  /\ work'[w].pc # "idle" => work[w].pc # "idle" /\ work'[w].try = work[w].try
  /\ work'[w].pc \in BeforeTry => work[w].pc \in BeforeTry
  /\ work'[w].tok \in {0, work[w].tok}
  /\ work'[w].pc \in Provisioning => work[w].pc \in Provisioning /\ work'[w].tok = work[w].tok
  /\ work'[w].pc = "rent" => work[w].pc = "rent" \/ (work[w].pc = "recheck" /\ status # "stopped")
  /\ work'[w].inst \in {NoInstance, work[w].inst} \/ work[w].pc = "rent"

\* A step concerns one execution.
LEMMA OtherExecutions ==
  ASSUME TypeOK, NEW w \in Workers, Work(w) \/ Crash(w) \/ Redeliver(w)
  PROVE  \A x \in Workers \ {w} : work'[x] = work[x]
  BY ZenonT(60) DEF Work, Take, Announce, Goto, Route, DispatchEdge, Simulate, DispatchHub, PollHub,
     IssueToken, UploadDataset, Recheck, RentInstance, RecordInstance, WatchStatus, Finish,
     WatchInstance, DestroyInstance, RevokeToken, SelectModel, InsertModel, CompleteJob,
     FailJob, Retry, Raise, Crash, Redeliver, TypeOK

\* An execution that goes on, ends or is abandoned continues in this sense.
LEMMA ExecutionContinues ==
  ASSUME TypeOK, NEW w \in Workers, Work(w) \/ Crash(w) \/ Redeliver(w),
         ~Take(w), ~IssueToken(w)
  PROVE  Continues(w)
<1> USE DEF Continues, Provisioning, BeforeTry
<1>1. CASE Redeliver(w)
  BY <1>1 DEF Redeliver, TypeOK
<1>2. CASE DispatchEdge(w) \/ CompleteJob(w) \/ Retry(w) \/ Crash(w)
  <2>1. work' = [work EXCEPT ![w] = Idle]
    BY <1>2 DEF DispatchEdge, CompleteJob, Retry, Crash
  <2>2. work'[w] = Idle
    BY <2>1 DEF TypeOK
  <2> QED
    BY <2>2 DEF Idle
<1>3. CASE Route(w)
  <2>1. PICK p \in Providers : Goto(w, "route", IF p = "vast" THEN "token" ELSE p)
    BY <1>3 DEF Route
  <2>2. p \in {"vast", "hub", "local", "edge"}
    BY ConstantsOK
  <2>3. /\ work'[w].pc = (IF p = "vast" THEN "token" ELSE p) /\ work[w].pc = "route"
        /\ work'[w].try = work[w].try /\ work'[w].tok = work[w].tok
        /\ work'[w].inst = work[w].inst
    BY <2>1 DEF Goto, TypeOK
  <2> QED
    BY <2>2, <2>3
<1>4. CASE Announce(w)
  BY SMTT(30), <1>4 DEF Announce, Goto, TypeOK
<1>g. ASSUME NEW from \in Points, NEW to \in Points, Goto(w, from, to)
      PROVE  /\ work[w].pc = from /\ work'[w].pc = to /\ work'[w].try = work[w].try
             /\ work'[w].tok = work[w].tok /\ work'[w].inst = work[w].inst
  BY <1>g DEF Goto, TypeOK
<1>p. /\ {"hub", "local", "upload", "announce", "ref", "announceRented"} \subseteq Points
      /\ {"fail", "retry", "select", "insert", "complete"} \subseteq Points
  BY DEF Points, InTry, Finally, AfterTry
<1>5. CASE DispatchHub(w) \/ UploadDataset(w) \/ RecordInstance(w) \/ FailJob(w)
  <2>1. \/ Goto(w, "hub", "local") \/ Goto(w, "upload", "announce")
        \/ Goto(w, "ref", "announceRented") \/ Goto(w, "fail", "retry")
    BY <1>5 DEF DispatchHub, UploadDataset, RecordInstance, FailJob
  <2>2. /\ \/ work[w].pc = "hub" /\ work'[w].pc = "local"
           \/ work[w].pc = "upload" /\ work'[w].pc = "announce"
           \/ work[w].pc = "ref" /\ work'[w].pc = "announceRented"
           \/ work[w].pc = "fail" /\ work'[w].pc = "retry"
        /\ work'[w].try = work[w].try /\ work'[w].tok = work[w].tok
        /\ work'[w].inst = work[w].inst
    BY <1>g, <1>p, <2>1
  <2> QED
    BY <2>2
<1>6. CASE SelectModel(w) \/ InsertModel(w)
  <2>1. \E from \in {"select", "insert"}, to \in {"insert", "complete"} : Goto(w, from, to)
    BY <1>6 DEF SelectModel, InsertModel
  <2>2. /\ work[w].pc \in {"select", "insert"} /\ work'[w].pc \in {"insert", "complete"}
        /\ work'[w].try = work[w].try /\ work'[w].tok = work[w].tok
        /\ work'[w].inst = work[w].inst
    BY <1>g, <1>p, <2>1
  <2> QED
    BY <2>2
<1>7. CASE Simulate(w)
  <2>1. /\ work[w].pc = "local" /\ work'[w].pc \in {"local", "select"}
        /\ work'[w].try = work[w].try /\ work'[w].tok = work[w].tok
        /\ work'[w].inst = work[w].inst
    BY <1>7 DEF Simulate, TypeOK
  <2> QED
    BY <2>1
<1>8. CASE PollHub(w)
  <2>0. /\ work[w].pc = "hub"
        /\ \/ work' = [work EXCEPT ![w].polls = @ + 1]
           \/ \E pc \in {"select", "fail"} : work' = [work EXCEPT ![w].pc = pc]
    BY <1>8 DEF PollHub
  <2>1. /\ work[w].pc = "hub" /\ work'[w].pc \in {"hub", "select", "fail"}
        /\ work'[w].try = work[w].try /\ work'[w].tok = work[w].tok
        /\ work'[w].inst = work[w].inst
    BY SMTT(30), <2>0 DEF TypeOK
  <2> QED
    BY <2>1
<1>9. CASE Recheck(w)
  BY SMTT(30), <1>9 DEF Recheck, Goto, Idle, TypeOK
<1>10. CASE RentInstance(w)
  <2>1. \/ Finish(w, "error")
        \/ \E i : work' = [work EXCEPT ![w].pc = "ref", ![w].inst = i]
    BY <1>10 DEF RentInstance, Finish
  <2>2. /\ work[w].pc = "rent" /\ work'[w].pc \in {"destroy", "ref"}
        /\ work'[w].try = work[w].try /\ work'[w].tok = work[w].tok
    BY SMTT(30), <1>10, <2>1 DEF RentInstance, Finish, TypeOK
  <2> QED
    BY <2>2
<1>11. CASE WatchStatus(w)
  <2>1. /\ work[w].pc = "poll" /\ work'[w].pc \in {"probe", "destroy"}
        /\ work'[w].try = work[w].try /\ work'[w].tok = work[w].tok
        /\ work'[w].inst = work[w].inst
    BY SMTT(30), <1>11 DEF WatchStatus, Finish, Goto, TypeOK
  <2> QED
    BY <2>1
<1>12. CASE WatchInstance(w)
  <2>1. \/ Finish(w, "error")
        \/ \E d : work' = [work EXCEPT ![w].pc = "poll", ![w].dead = d, ![w].polls = @ + 1]
    BY <1>12 DEF WatchInstance
  <2>2. work[w].pc = "probe"
    BY <1>12 DEF WatchInstance, Goto
  <2>3. CASE Finish(w, "error")
    BY <2>2, <2>3 DEF Finish, TypeOK
  <2>4. ASSUME NEW d, work' = [work EXCEPT ![w].pc = "poll", ![w].dead = d, ![w].polls = @ + 1]
        PROVE  /\ work'[w].pc = "poll" /\ work'[w].try = work[w].try
               /\ work'[w].tok = work[w].tok /\ work'[w].inst = work[w].inst
    BY <2>4 DEF TypeOK
  <2>5. ASSUME work'[w].pc = "poll", work'[w].try = work[w].try, work'[w].tok = work[w].tok,
               work'[w].inst = work[w].inst
        PROVE  Continues(w)
    BY <2>2, <2>5
  <2> QED
    BY <2>1, <2>3, <2>4, <2>5
<1>13. CASE DestroyInstance(w)
  <2>1. /\ work[w].pc = "destroy" /\ work'[w].pc = "revoke"
        /\ work'[w].try = work[w].try /\ work'[w].tok = work[w].tok
        /\ work'[w].inst = NoInstance
    BY <1>13 DEF DestroyInstance, TypeOK
  <2> QED
    BY <2>1
<1>14. CASE RevokeToken(w)
  <2>1. /\ work[w].pc = "revoke"
        /\ \/ work'[w] = Idle
           \/ work'[w].pc \in {"select", "fail"} /\ work'[w].try = work[w].try
              /\ work'[w].tok = work[w].tok /\ work'[w].inst = work[w].inst
    BY <1>14 DEF RevokeToken, TypeOK
  <2> QED
    BY <2>1 DEF Idle
<1>15. CASE Raise(w)
  <2>1. /\ work[w].pc # "idle" /\ work'[w].pc \in {"destroy", "fail"}
        /\ work'[w].try = work[w].try /\ work'[w].tok = work[w].tok
        /\ work'[w].inst = work[w].inst
    <3>1. work[w].pc # "idle"
      BY <1>15 DEF Raise, InTry
    <3>2. /\ work'[w].pc \in {"destroy", "fail"}
          /\ work'[w].try = work[w].try /\ work'[w].tok = work[w].tok
          /\ work'[w].inst = work[w].inst
      BY <1>15 DEF Raise, TypeOK
    <3> QED
      BY <3>1, <3>2
  <2> QED
    BY <2>1
<1> QED
  BY <1>1, <1>2, <1>3, <1>4, <1>5, <1>6, <1>7, <1>8, <1>9, <1>10, <1>11, <1>12, <1>13, <1>14,
     <1>15 DEF Work

\* A change of a machine's state, or of its mark, leaves its token.
LEMMA MachineChanges ==
  ASSUME TypeOK, NEW k \in Instances, NEW v, NEW i \in Instances,
         \/ inst' = [inst EXCEPT ![k].state = v] /\ (v = "training" => inst[k].state = v)
         \/ inst' = [inst EXCEPT ![k].orphan = v]
  PROVE  /\ inst'[i].tok = inst[i].tok
         /\ inst'[i].state = "training" => inst[i].state = "training"
<1>1. CASE inst' = [inst EXCEPT ![k].state = v] /\ (v = "training" => inst[k].state = v)
  BY <1>1 DEF TypeOK
<1>2. CASE inst' = [inst EXCEPT ![k].orphan = v]
  BY <1>2 DEF TypeOK
<1> QED
  BY <1>1, <1>2

\* A machine that trains after a step trained before it, or was rented in it
\* with the token of the execution that asked for it.
LEMMA MachineTokens ==
  ASSUME TypeOK, NEW w \in Workers, Work(w) \/ Crash(w) \/ Redeliver(w), NEW i \in Instances
  PROVE  \/ inst'[i].tok = inst[i].tok
            /\ (inst'[i].state = "training" => inst[i].state = "training")
         \/ work[w].pc = "rent" /\ inst'[i].tok = work[w].tok
<1>1. CASE RentInstance(w)
  <2>1. CASE inst' = inst
    BY <2>1
  <2>2. ASSUME NEW k \in Instances, NEW heard \in BOOLEAN,
               inst' = [inst EXCEPT ![k] = [state |-> "training", tok |-> work[w].tok,
                                            orphan |-> ~heard]]
        PROVE  inst'[i].tok = work[w].tok \/ inst'[i] = inst[i]
    BY <2>2 DEF TypeOK
  <2>3. work[w].pc = "rent"
    BY <1>1 DEF RentInstance
  <2> QED
    BY <1>1, <2>1, <2>2, <2>3 DEF RentInstance
<1>2. CASE DestroyInstance(w)
  <2>1. \/ inst' = inst
        \/ \E k \in Instances : inst' = [inst EXCEPT ![k].state = "gone"]
        \/ \E k \in Instances : inst' = [inst EXCEPT ![k].orphan = (inst[k].state # "gone")]
    <3>1. work[w].inst \in Instances \cup {NoInstance}
      BY DEF TypeOK
    <3> QED
      BY <1>2, <3>1 DEF DestroyInstance
  <2> QED
    BY <2>1, MachineChanges
<1>3. CASE Crash(w)
  <2>1. \/ inst' = inst
        \/ \E k \in Instances : inst' = [inst EXCEPT ![k].orphan = (inst[k].state # "gone")]
    <3>1. work[w].inst \in Instances \cup {NoInstance}
      BY DEF TypeOK
    <3> QED
      BY <1>3, <3>1 DEF Crash
  <2> QED
    BY <2>1, MachineChanges
<1>4. CASE ~RentInstance(w) /\ ~DestroyInstance(w) /\ ~Crash(w)
  BY Zenon, <1>4 DEF Work, Take, Announce, Route, DispatchEdge, Simulate, DispatchHub, PollHub,
     IssueToken, UploadDataset, Recheck, RecordInstance, WatchStatus, WatchInstance,
     RevokeToken, SelectModel, InsertModel, CompleteJob, FailJob, Retry, Raise, Redeliver,
     OnlyWork, OnlyStatus
<1> QED
  BY <1>1, <1>2, <1>3, <1>4

\* Tokens are numbered as they are issued; what can post has one.
WorkTokInv == \A w \in Workers : /\ work[w].tok <= issued
                                 /\ work[w].pc \in Provisioning => work[w].tok # 0
InstTokInv == \A i \in Instances : /\ inst[i].tok <= issued
                                   /\ inst[i].state = "training" => inst[i].tok # 0
PostTokInv == \A p \in Posts : /\ posts[p].tok <= issued
                               /\ posts[p].pc # "idle" => posts[p].tok # 0
RowTokInv == token <= issued /\ serviceTok <= issued

TInv == TypeOK /\ WorkTokInv /\ InstTokInv /\ PostTokInv /\ RowTokInv

\* What a worker's step leaves alone.
LEMMA WorkersLeave ==
  ASSUME NEW w \in Workers, Work(w) \/ Crash(w) \/ Redeliver(w)
  PROVE  UNCHANGED <<posts, service, serviceTok, creator, bridge, stop, stops>>
  BY Zenon DEF Work, Take, Announce, Route, DispatchEdge, Simulate, DispatchHub, PollHub,
     IssueToken, UploadDataset, Recheck, RentInstance, RecordInstance, WatchStatus,
     WatchInstance, DestroyInstance, RevokeToken, SelectModel, InsertModel, CompleteJob,
     FailJob, Retry, Raise, Crash, Redeliver, OnlyWork, OnlyStatus, external, stopper

\* Only IssueToken issues one; else the row's token stays or goes.
LEMMA WorkersTokens ==
  ASSUME NEW w \in Workers, Work(w) \/ Crash(w) \/ Redeliver(w), ~IssueToken(w)
  PROVE  issued' = issued /\ token' \in {0, token}
  BY Zenon DEF Work, Take, Announce, Route, DispatchEdge, Simulate, DispatchHub, PollHub,
     UploadDataset, Recheck, RentInstance, RecordInstance, WatchStatus,
     WatchInstance, DestroyInstance, RevokeToken, SelectModel, InsertModel, CompleteJob,
     FailJob, Retry, Raise, Crash, Redeliver, OnlyWork, OnlyStatus, row

\* A new execution has no token and stands at the start.
LEMMA TakenExecution ==
  ASSUME TypeOK, NEW w \in Workers, Take(w)
  PROVE  work'[w].tok = 0 /\ work'[w].pc = "start"
  BY DEF Take, Idle, TypeOK

\* An execution with a new token.
LEMMA IssuedExecution ==
  ASSUME TypeOK, NEW w \in Workers, IssueToken(w)
  PROVE  /\ issued' = issued + 1 /\ token' = issued + 1
         /\ work'[w].tok = issued + 1 /\ work'[w].pc = "upload" /\ inst' = inst
  BY DEF IssueToken, TypeOK

\* Workers keep the numbering.
LEMMA WorkerKeepsTokens ==
  ASSUME TInv, NEW w \in Workers, Work(w) \/ Crash(w) \/ Redeliver(w)
  PROVE  WorkTokInv' /\ InstTokInv' /\ PostTokInv' /\ RowTokInv'
<1> USE DEF TInv
<1>0. issued \in Nat /\ token \in Nat /\ serviceTok \in Nat
      /\ (\A x \in Workers : work[x].tok \in Nat) /\ (\A i \in Instances : inst[i].tok \in Nat)
      /\ (\A p \in Posts : posts[p].tok \in Nat)
  BY DEF TypeOK
<1>1. issued' \in Nat /\ issued <= issued' /\ RowTokInv'
  <2>1. CASE IssueToken(w)
    BY <1>0, <2>1, IssuedExecution, WorkersLeave DEF RowTokInv
  <2>2. CASE ~IssueToken(w)
    BY <1>0, <2>2, WorkersTokens, WorkersLeave DEF RowTokInv
  <2> QED
    BY <2>1, <2>2
<1>2. WorkTokInv'
  <2>1. ASSUME NEW x \in Workers \ {w}
        PROVE  work'[x].tok <= issued' /\ (work'[x].pc \in Provisioning => work'[x].tok # 0)
    BY <1>0, <1>1, OtherExecutions DEF WorkTokInv
  <2>2. work'[w].tok <= issued' /\ (work'[w].pc \in Provisioning => work'[w].tok # 0)
    <3>1. CASE Take(w)
      BY <1>0, <1>1, <3>1, TakenExecution DEF Provisioning
    <3>2. CASE IssueToken(w)
      BY <1>0, <3>2, IssuedExecution
    <3>3. CASE ~Take(w) /\ ~IssueToken(w)
      BY <1>0, <1>1, <3>3, ExecutionContinues DEF Continues, WorkTokInv
    <3> QED
      BY <3>1, <3>2, <3>3
  <2> QED
    BY <2>1, <2>2 DEF WorkTokInv
<1>3. InstTokInv'
  <2> SUFFICES ASSUME NEW i \in Instances
               PROVE  inst'[i].tok <= issued' /\ (inst'[i].state = "training" => inst'[i].tok # 0)
    BY DEF InstTokInv
  <2>1. CASE work[w].pc = "rent" /\ inst'[i].tok = work[w].tok
    BY <1>0, <1>1, <2>1 DEF WorkTokInv, Provisioning
  <2>2. CASE inst'[i].tok = inst[i].tok
             /\ (inst'[i].state = "training" => inst[i].state = "training")
    BY <1>0, <1>1, <2>2 DEF InstTokInv
  <2> QED
    BY <2>1, <2>2, MachineTokens
<1>4. PostTokInv'
  BY <1>0, <1>1, WorkersLeave DEF PostTokInv
<1> QED
  BY <1>1, <1>2, <1>3, <1>4

\* So does everybody else.
LEMMA TInvStep == TInv /\ [Next]_vars => TInv'
<1> SUFFICES ASSUME TInv, [Next]_vars PROVE WorkTokInv' /\ InstTokInv' /\ PostTokInv' /\ RowTokInv'
  BY TypeStep DEF TInv
<1> USE DEF TInv
<1>0. issued \in Nat /\ token \in Nat /\ serviceTok \in Nat
      /\ (\A x \in Workers : work[x].tok \in Nat) /\ (\A i \in Instances : inst[i].tok \in Nat)
      /\ (\A p \in Posts : posts[p].tok \in Nat)
  BY DEF TypeOK
<1>1. ASSUME NEW w \in Workers, Work(w) \/ Crash(w) \/ Redeliver(w)
      PROVE  WorkTokInv' /\ InstTokInv' /\ PostTokInv' /\ RowTokInv'
  BY <1>1, WorkerKeepsTokens
<1>2. CASE Create
  <2>1. UNCHANGED <<work, inst, posts>>
    BY <1>2 DEF Create, CreatorIssuesToken, CreatorPosts, CreatorFallsBack
  <2>2. issued' \in Nat /\ issued <= issued' /\ RowTokInv'
    <3>1. CASE CreatorIssuesToken
      BY <1>0, <3>1 DEF CreatorIssuesToken, RowTokInv
    <3>2. CASE CreatorPosts \/ CreatorFallsBack
      BY <1>0, <3>2 DEF CreatorPosts, CreatorFallsBack, row, external, RowTokInv
    <3> QED
      BY <1>2, <3>1, <3>2 DEF Create
  <2> QED
    BY <1>0, <2>1, <2>2 DEF WorkTokInv, InstTokInv, PostTokInv
<1>3. CASE Stop \/ Bridge \/ UNCHANGED vars
  <2>1. /\ UNCHANGED <<work, posts, issued, serviceTok>> /\ token' \in {0, token}
        /\ \/ inst' = inst
           \/ stop.ref \in Instances /\ inst' = [inst EXCEPT ![stop.ref].state = "gone"]
    <3>1. CASE StopDestroys
      <4>1. \/ inst' = inst
            \/ stop.ref \in Instances /\ inst' = [inst EXCEPT ![stop.ref].state = "gone"]
            \/ stop.ref \notin Instances /\ inst' = [inst EXCEPT ![stop.ref].state = "gone"]
        BY <3>1 DEF StopDestroys
      <4>2. stop.ref \notin Instances /\ inst' = [inst EXCEPT ![stop.ref].state = "gone"]
              => inst' = inst
        BY DEF TypeOK
      <4> QED
        BY <3>1, <4>1, <4>2 DEF StopDestroys, row, external
    <3>2. CASE StopJob \/ StopRevokes \/ UNCHANGED vars
      BY <3>2 DEF StopJob, StopRevokes, vars, row, external
    <3>3. CASE Bridge
      BY <3>3 DEF Bridge, ServicePublishes, BridgeSelects, BridgeInserts, BridgeFails,
         OnlyBridge, row
    <3> QED
      BY <1>3, <3>1, <3>2, <3>3 DEF Stop
  <2>2. \A i \in Instances : inst'[i].tok = inst[i].tok
          /\ (inst'[i].state = "training" => inst[i].state = "training")
    BY <2>1, MachineChanges
  <2> QED
    BY <1>0, <2>1, <2>2 DEF WorkTokInv, InstTokInv, PostTokInv, RowTokInv
<1>4. CASE Remote
  <2>1. UNCHANGED <<work, issued, token, serviceTok>>
    BY <1>4 DEF Remote, InstanceDies, PostCallback, ServicePosts, CheckToken, LosePost,
       ApplyCallback, OnlyPosts, row, external
  <2>2. InstTokInv'
    <3>1. \/ inst' = inst
          \/ \E i \in Instances : \E s \in {"dead", "finished", inst[i].state} :
               inst' = [inst EXCEPT ![i].state = s]
      BY <1>4 DEF Remote, InstanceDies, PostCallback, ServicePosts, CheckToken, LosePost,
         ApplyCallback, OnlyPosts
    <3>2. \A i \in Instances : inst'[i].tok = inst[i].tok
            /\ (inst'[i].state = "training" => inst[i].state = "training")
      BY <3>1, MachineChanges
    <3> QED
      BY <2>1, <3>2 DEF InstTokInv
  <2>3. PostTokInv'
    <3> SUFFICES ASSUME NEW p \in Posts
                 PROVE  posts'[p].tok <= issued /\ (posts'[p].pc # "idle" => posts'[p].tok # 0)
      BY <2>1 DEF PostTokInv
    <3>1. CASE \E i \in Instances, q \in Posts : PostCallback(i, q)
      <4>1. PICK i \in Instances, q \in Posts : PostCallback(i, q)
        BY <3>1
      <4>2. PICK s \in {"running", "completed", "failed"} : Send(q, inst[i].tok, s)
        BY <4>1 DEF PostCallback
      <4>3. inst[i].tok <= issued /\ inst[i].tok # 0
        BY <4>1 DEF PostCallback, InstTokInv
      <4> QED
        BY <4>2, <4>3 DEF Send, PostTokInv, TypeOK
    <3>2. CASE \E q \in Posts : ServicePosts(q)
      <4>1. PICK q \in Posts : ServicePosts(q)
        BY <3>2
      <4>2. PICK s \in {"running", "completed", "failed"} : Send(q, serviceTok, s)
        BY <4>1 DEF ServicePosts
      <4>3. serviceTok <= issued /\ serviceTok # 0
        BY <4>1 DEF ServicePosts, RowTokInv
      <4> QED
        BY <4>2, <4>3 DEF Send, PostTokInv, TypeOK
    <3>3. CASE \E q \in Posts : CheckToken(q) \/ LosePost(q) \/ ApplyCallback(q)
      <4>1. PICK q \in Posts : CheckToken(q) \/ LosePost(q) \/ ApplyCallback(q)
        BY <3>3
      <4>2. posts[q].pc # "idle" /\ \E s : posts' = [posts EXCEPT ![q].pc = s]
        BY <4>1 DEF CheckToken, LosePost, ApplyCallback
      <4> QED
        BY <4>2 DEF PostTokInv, TypeOK
    <3>4. CASE \E i \in Instances : InstanceDies(i)
      BY <3>4 DEF InstanceDies, PostTokInv
    <3> QED
      BY <1>4, <3>1, <3>2, <3>3, <3>4 DEF Remote
  <2> QED
    BY <2>1, <2>2, <2>3 DEF WorkTokInv, RowTokInv
<1> QED
  BY <1>1, <1>2, <1>3, <1>4 DEF Next

\* Nobody has a token that would let a callback through.
Disarmed(t) ==
  /\ \A p \in Posts : ~(posts[p].pc = "sent" /\ posts[p].tok = t)
  /\ \A i \in Instances : ~(inst[i].state = "training" /\ inst[i].tok = t)
  /\ \A w \in Workers : ~(work[w].pc = "rent" /\ work[w].tok = t)
  /\ service = "training" => serviceTok # t

\* A token that nobody can use comes into nobody's hands while the job is
\* stopped: a worker reaches the rental only past a look at the status.
LEMMA WorkerKeepsDisarmed ==
  ASSUME TInv, status = "stopped", NEW w \in Workers, Work(w) \/ Crash(w) \/ Redeliver(w),
         NEW t \in Nat, Disarmed(t)
  PROVE  Disarmed(t)'
<1> USE DEF TInv
<1>1. UNCHANGED <<posts, service, serviceTok>>
  BY WorkersLeave
<1>2. ASSUME NEW i \in Instances, inst'[i].state = "training", inst'[i].tok = t PROVE FALSE
  BY <1>2, MachineTokens DEF Disarmed
<1>3. ASSUME NEW x \in Workers, work'[x].pc = "rent", work'[x].tok = t PROVE FALSE
  <2>1. CASE x # w
    BY <1>3, <2>1, OtherExecutions DEF Disarmed
  <2>2. CASE x = w
    <3>1. ~Take(w) /\ ~IssueToken(w)
      BY <1>3, <2>2, TakenExecution, IssuedExecution
    <3>2. Continues(w)
      BY <3>1, ExecutionContinues
    <3>3. work[w].pc = "rent" /\ work'[w].tok = work[w].tok
      BY <1>3, <2>2, <3>2 DEF Continues, Provisioning
    <3> QED
      BY <1>3, <2>2, <3>3 DEF Disarmed
  <2> QED
    BY <2>1, <2>2
<1> QED
  BY <1>1, <1>2, <1>3 DEF Disarmed

\* Whatever step is taken once a stop has settled, it stays so.
LEMMA StopFinalStep ==
  ASSUME TInv, [Next]_vars, StopSettled
  PROVE  StopSettled'
<1> USE DEF TInv
<1>0. /\ status = "stopped" /\ creator \in {"fallback", "done"}
      /\ \A p \in Posts : posts[p].pc # "checked"
      /\ token # 0 => Disarmed(token)
  BY DEF StopSettled, Disarmed
<1>a. token \in Nat
  BY DEF TypeOK
<1>1. ASSUME NEW w \in Workers, Work(w) \/ Crash(w) \/ Redeliver(w) PROVE StopSettled'
  <2>1. status' = "stopped" /\ UNCHANGED <<posts, creator, service, serviceTok>>
    BY <1>0, <1>1, WorkerKeepsStop, WorkersLeave
  <2>2. CASE ~IssueToken(w)
    <3>1. token' \in {0, token}
      BY <1>1, <2>2, WorkersTokens
    <3>2. ASSUME token' # 0 PROVE Disarmed(token)'
      <4>1. token' = token /\ token # 0
        BY <3>1, <3>2
      <4>2. \A t \in Nat : Disarmed(t) => Disarmed(t)'
        BY <1>0, <1>1, WorkerKeepsDisarmed
      <4> QED
        BY <1>0, <1>a, <4>1, <4>2 DEF Disarmed
    <3> QED
      BY <1>0, <2>1, <3>2 DEF StopSettled, Disarmed
  <2>3. CASE IssueToken(w)
    <3>1. issued' = issued + 1 /\ token' = issued + 1 /\ inst' = inst
      BY <2>3, IssuedExecution
    <3>2. /\ issued \in Nat /\ serviceTok \in Nat
          /\ (\A x \in Workers : work[x].tok \in Nat) /\ (\A i \in Instances : inst[i].tok \in Nat)
          /\ (\A p \in Posts : posts[p].tok \in Nat)
      BY DEF TypeOK
    <3>3. \A p \in Posts : posts'[p].tok # token'
      BY <2>1, <3>1, <3>2 DEF PostTokInv
    <3>4. \A i \in Instances : inst'[i].tok # token'
      BY <3>1, <3>2 DEF InstTokInv
    <3>5. serviceTok' # token'
      BY <2>1, <3>1, <3>2 DEF RowTokInv
    <3>6. \A x \in Workers : ~(work'[x].pc = "rent" /\ work'[x].tok = token')
      <4>1. work'[w].pc # "rent"
        BY <2>3, IssuedExecution
      <4>2. \A x \in Workers \ {w} : work'[x].tok # token'
        BY <1>1, <3>1, <3>2, OtherExecutions DEF WorkTokInv
      <4> QED
        BY <4>1, <4>2
    <3> QED
      BY <1>0, <2>1, <3>3, <3>4, <3>5, <3>6 DEF StopSettled
  <2> QED
    BY <2>2, <2>3
<1>2. CASE Create
  <2>1. CreatorFallsBack
    BY <1>0, <1>2 DEF Create, CreatorIssuesToken, CreatorPosts
  <2> QED
    BY <1>0, <2>1 DEF CreatorFallsBack, StopSettled, Disarmed, row, external
<1>3. CASE Stop \/ Bridge \/ UNCHANGED vars
  <2>1. /\ UNCHANGED <<status, creator, posts, work, serviceTok>> /\ token' \in {0, token}
        /\ service' \in {service, "finished"}
    <3>1. CASE Stop \/ UNCHANGED vars
      BY <1>0, <3>1 DEF Stop, StopJob, StopRevokes, StopDestroys, vars, row, external
    <3>2. CASE Bridge
      BY <3>2 DEF Bridge, ServicePublishes, BridgeSelects, BridgeInserts, BridgeFails,
         OnlyBridge, row
    <3> QED
      BY <1>3, <3>1, <3>2
  <2>2. \A i \in Instances : inst'[i].state = "training" =>
          inst[i].state = "training" /\ inst'[i].tok = inst[i].tok
    <3>1. CASE StopDestroys
      <4>1. CASE inst' = inst
        BY <4>1
      <4>2. CASE stop.ref \in Instances /\ inst' = [inst EXCEPT ![stop.ref].state = "gone"]
        BY <4>2, MachineChanges
      <4>3. stop.ref \notin Instances /\ inst' = [inst EXCEPT ![stop.ref].state = "gone"]
              => inst' = inst
        BY DEF TypeOK
      <4> QED
        BY <3>1, <4>1, <4>2, <4>3 DEF StopDestroys
    <3>2. CASE ~StopDestroys
      BY <1>3, <3>2 DEF Stop, StopJob, StopRevokes, Bridge, ServicePublishes, BridgeSelects,
         BridgeInserts, BridgeFails, OnlyBridge, vars
    <3> QED
      BY <3>1, <3>2
  <2> QED
    BY <1>0, <2>1, <2>2 DEF StopSettled, Disarmed
<1>4. CASE Remote
  <2>1. UNCHANGED <<creator, work, service, serviceTok, token>>
    BY <1>4 DEF Remote, InstanceDies, PostCallback, ServicePosts, CheckToken, LosePost,
       ApplyCallback, OnlyPosts, row, external
  <2>2. ASSUME NEW q \in Posts, posts[q].pc = "sent" PROVE posts[q].tok # token
    BY <1>0, <2>2 DEF PostTokInv, Disarmed
  <2>3. status' = status
    BY <1>0, <1>4 DEF Remote, InstanceDies, PostCallback, ServicePosts, CheckToken, LosePost,
       ApplyCallback, OnlyPosts, row
  <2>4. \A i \in Instances : inst'[i].state = "training" =>
          inst[i].state = "training" /\ inst'[i].tok = inst[i].tok
    <3>1. \/ inst' = inst
          \/ \E i \in Instances : \E s \in {"dead", "finished", inst[i].state} :
               inst' = [inst EXCEPT ![i].state = s]
      BY <1>4 DEF Remote, InstanceDies, PostCallback, ServicePosts, CheckToken, LosePost,
         ApplyCallback, OnlyPosts
    <3> QED
      BY <3>1, MachineChanges
  <2>5. \A p \in Posts : posts'[p].pc # "checked"
          /\ (token # 0 => ~(posts'[p].pc = "sent" /\ posts'[p].tok = token))
    <3>1. CASE \E i \in Instances, q \in Posts : PostCallback(i, q)
      <4>1. PICK i \in Instances, q \in Posts : PostCallback(i, q)
        BY <3>1
      <4>2. PICK s \in {"running", "completed", "failed"} : Send(q, inst[i].tok, s)
        BY <4>1 DEF PostCallback
      <4>3. token # 0 => inst[i].tok # token
        BY <1>0, <4>1 DEF PostCallback, Disarmed
      <4> QED
        BY <1>0, <4>2, <4>3 DEF Send, Disarmed, TypeOK
    <3>2. CASE \E q \in Posts : ServicePosts(q)
      <4>1. PICK q \in Posts : ServicePosts(q)
        BY <3>2
      <4>2. PICK s \in {"running", "completed", "failed"} : Send(q, serviceTok, s)
        BY <4>1 DEF ServicePosts
      <4>3. token # 0 => serviceTok # token
        BY <1>0, <4>1 DEF ServicePosts, Disarmed
      <4> QED
        BY <1>0, <4>2, <4>3 DEF Send, Disarmed, TypeOK
    <3>3. CASE \E q \in Posts : CheckToken(q) \/ LosePost(q) \/ ApplyCallback(q)
      <4>1. PICK q \in Posts : CheckToken(q) \/ LosePost(q) \/ ApplyCallback(q)
        BY <3>3
      <4>2. posts' = [posts EXCEPT ![q].pc = "idle"]
        BY <4>1, <2>2, <1>0 DEF CheckToken, LosePost, ApplyCallback
      <4> QED
        BY <1>0, <4>2 DEF Disarmed, TypeOK
    <3>4. CASE \E i \in Instances : InstanceDies(i)
      BY <1>0, <3>4 DEF InstanceDies, Disarmed
    <3> QED
      BY <1>4, <3>1, <3>2, <3>3, <3>4 DEF Remote
  <2> QED
    BY <1>0, <2>1, <2>3, <2>4, <2>5 DEF StopSettled, Disarmed
<1> QED
  BY <1>1, <1>2, <1>3, <1>4 DEF Next

\* Once a stop has settled it is final, for any number of workers, machines,
\* callbacks, retries and redeliveries.
THEOREM StopsStay == Spec => StopFinal
<1>1. Init => TInv
  <2>1. Init => WorkTokInv /\ InstTokInv /\ PostTokInv /\ RowTokInv
    BY DEF Init, Idle, Provisioning, WorkTokInv, InstTokInv, PostTokInv, RowTokInv
  <2> QED
    BY <2>1, InitType DEF TInv
<1>2. TInv /\ [Next]_vars => [StopSettled => StopSettled']_vars
  BY StopFinalStep
<1> QED
  BY <1>1, <1>2, TInvStep, PTL DEF Spec, StopFinal

-----------------------------------------------------------------------------
(* What a job can cost.                                                    *)

\* The rentals that have been made and those still possible, one ticket for
\* each: a machine has been rented; the execution in w may yet rent on a retry
\* that is not behind it; a message brings an execution that rents on its retry
\* or a later one; and the dispatch thread may yet send the first message.
Ticket(kind, of, nr, turn) == [kind |-> kind, of |-> of, nr |-> nr, turn |-> turn]

Turns == 0..MaxRetries

InstTickets == {Ticket("inst", i, 0, 0) : i \in {k \in Instances : inst[k].state # "free"}}
WorkTickets ==
  {x \in [kind : {"work"}, of : Workers, nr : {0}, turn : Turns] :
     /\ work[x.of].pc # "idle" /\ work[x.of].try <= x.turn
     /\ work[x.of].pc \in BeforeTry \/ work[x.of].try # x.turn}
QueueTickets ==
  {x \in [kind : {"queue"}, of : Turns, nr : Nat, turn : Turns] :
     x.nr \in 1..queue[x.of] /\ x.of <= x.turn}
CreatorTickets == {x \in [kind : {"creator"}, of : {0}, nr : {0}, turn : Turns] : creator # "done"}

Tickets == InstTickets \cup WorkTickets \cup QueueTickets \cup CreatorTickets

BInv == /\ TypeOK /\ IsFiniteSet(Tickets)
        /\ Cardinality(Tickets) <= (MaxRetries + 1) * (redeliveries + 1)

\* Tickets that are given up, or exchanged for no more others, are no more.
LEMMA Exchange ==
  ASSUME NEW S, IsFiniteSet(S), NEW A \in SUBSET S, NEW f, NEW B, f \in Surjection(A, B),
         NEW T \in SUBSET ((S \ A) \cup B)
  PROVE  IsFiniteSet(T) /\ Cardinality(T) <= Cardinality(S)
<1>1. IsFiniteSet(A) /\ IsFiniteSet(B) /\ Cardinality(B) <= Cardinality(A)
  BY FS_Subset, FS_Surjection
<1>2. IsFiniteSet(S \ A) /\ Cardinality(S \ A) = Cardinality(S) - Cardinality(A)
  <2>1. IsFiniteSet(S \ A) /\ Cardinality(S \ A) = Cardinality(S) - Cardinality(S \cap A)
    BY FS_Difference
  <2>2. S \cap A = A
    OBVIOUS
  <2> QED
    BY <2>1, <2>2
<1>3. IsFiniteSet((S \ A) \cup B)
      /\ Cardinality((S \ A) \cup B) = Cardinality(S \ A) + Cardinality(B) - Cardinality((S \ A) \cap B)
  BY <1>1, <1>2, FS_Union
<1>4. /\ Cardinality(S) \in Nat /\ Cardinality(A) \in Nat /\ Cardinality(B) \in Nat
      /\ Cardinality(S \ A) \in Nat /\ Cardinality((S \ A) \cap B) \in Nat
      /\ Cardinality((S \ A) \cup B) \in Nat
  BY <1>1, <1>2, <1>3, FS_CardinalityType, FS_Intersection
<1>5. IsFiniteSet(T) /\ Cardinality(T) <= Cardinality((S \ A) \cup B) /\ Cardinality(T) \in Nat
  BY <1>3, FS_Subset, FS_CardinalityType
<1> QED
  BY <1>1, <1>2, <1>3, <1>4, <1>5

\* A redelivery brings the tickets of one message.
LEMMA Addition ==
  ASSUME NEW S, IsFiniteSet(S), NEW B, IsFiniteSet(B), NEW T \in SUBSET (S \cup B)
  PROVE  IsFiniteSet(T) /\ Cardinality(T) <= Cardinality(S) + Cardinality(B)
<1>1. IsFiniteSet(S \cup B)
      /\ Cardinality(S \cup B) = Cardinality(S) + Cardinality(B) - Cardinality(S \cap B)
  BY FS_Union
<1>2. /\ Cardinality(S) \in Nat /\ Cardinality(B) \in Nat /\ Cardinality(S \cap B) \in Nat
      /\ Cardinality(S \cup B) \in Nat
  BY <1>1, FS_CardinalityType, FS_Intersection
<1>3. IsFiniteSet(T) /\ Cardinality(T) <= Cardinality(S \cup B) /\ Cardinality(T) \in Nat
  BY <1>1, FS_Subset, FS_CardinalityType
<1> QED
  BY <1>1, <1>2, <1>3

\* The tickets of one message, of any retry, are no more than the turns.
MessageTickets(r, k) == {x \in [kind : {"queue"}, of : {r}, nr : {k}, turn : Turns] : r <= x.turn}

\* They are one for each turn from its retry on.
LEMMA OneMessage ==
  ASSUME NEW r \in Turns, NEW k \in Nat
  PROVE  /\ IsFiniteSet(MessageTickets(r, k))
         /\ Cardinality(MessageTickets(r, k)) \in Nat
         /\ Cardinality(MessageTickets(r, k)) <= MaxRetries + 1
<1> DEFINE g == [x \in MessageTickets(r, k) |-> x.turn]
<1>1. g \in Injection(MessageTickets(r, k), Turns)
  <2>1. g \in [MessageTickets(r, k) -> Turns]
    BY DEF MessageTickets
  <2>2. ASSUME NEW x \in MessageTickets(r, k), NEW y \in MessageTickets(r, k), g[x] = g[y]
        PROVE  x = y
    BY <2>2 DEF MessageTickets
  <2> QED
    BY <2>1, <2>2, Fun_IsInj
<1>2. IsFiniteSet(Turns) /\ Cardinality(Turns) = MaxRetries + 1
  BY FS_Interval, ConstantsOK DEF Turns
<1> QED
  BY <1>1, <1>2, FS_Injection, FS_CardinalityType

\* Initially there are the tickets of the first message.
LEMMA BInvInit == Init => BInv
<1> SUFFICES ASSUME Init PROVE BInv
  OBVIOUS
<1>1. Tickets = CreatorTickets
  <2>1. InstTickets = {}
    BY DEF Init, InstTickets
  <2>2. WorkTickets = {}
    BY DEF Init, WorkTickets, Idle
  <2>3. QueueTickets = {}
    BY DEF Init, QueueTickets, Turns
  <2> QED
    BY <2>1, <2>2, <2>3 DEF Tickets
<1> DEFINE g == [x \in CreatorTickets |-> x.turn]
<1>2. g \in Injection(CreatorTickets, Turns)
  <2>1. g \in [CreatorTickets -> Turns]
    BY DEF CreatorTickets
  <2>2. ASSUME NEW x \in CreatorTickets, NEW y \in CreatorTickets, g[x] = g[y] PROVE x = y
    BY <2>2 DEF CreatorTickets
  <2> QED
    BY <2>1, <2>2, Fun_IsInj
<1>3. IsFiniteSet(Turns) /\ Cardinality(Turns) = MaxRetries + 1
  BY FS_Interval, ConstantsOK DEF Turns
<1>4. IsFiniteSet(Tickets) /\ Cardinality(Tickets) <= MaxRetries + 1
  BY <1>1, <1>2, <1>3, FS_Injection
<1>5. redeliveries = 0
  BY DEF Init
<1>6. (MaxRetries + 1) * (redeliveries + 1) = MaxRetries + 1
  BY <1>5, ConstantsOK
<1> QED
  BY <1>4, <1>6, InitType DEF BInv

\* A step that gives tickets up, or exchanges some, keeps the bound.
LEMMA Exchanged ==
  ASSUME BInv, TypeOK', redeliveries' = redeliveries, NEW A \in SUBSET Tickets, NEW f, NEW B,
         f \in Surjection(A, B), Tickets' \subseteq (Tickets \ A) \cup B
  PROVE  BInv'
<1>1. IsFiniteSet(Tickets') /\ Cardinality(Tickets') <= Cardinality(Tickets)
  BY Exchange DEF BInv
<1>2. Cardinality(Tickets') \in Nat /\ Cardinality(Tickets) \in Nat
  BY <1>1, FS_CardinalityType DEF BInv
<1>3. (MaxRetries + 1) * (redeliveries + 1) \in Int
  BY ConstantsOK DEF BInv, TypeOK
<1> DEFINE bound == (MaxRetries + 1) * (redeliveries + 1)
<1>4. bound' = bound
  OBVIOUS
<1>5. Cardinality(Tickets) <= bound
  BY DEF BInv
<1>6. bound \in Int
  BY <1>3
<1> HIDE DEF bound
<1>7. Cardinality(Tickets') <= bound'
  BY <1>1, <1>2, <1>4, <1>5, <1>6
<1> USE DEF bound
<1> QED
  BY <1>1, <1>7 DEF BInv

\* In particular one that brings none.
LEMMA GivenUp ==
  ASSUME BInv, TypeOK', redeliveries' = redeliveries, Tickets' \subseteq Tickets
  PROVE  BInv'
<1>1. [x \in {} |-> x] \in Surjection({}, {})
  BY Fun_IsSurj
<1>2. Tickets' \subseteq (Tickets \ {}) \cup {} /\ {} \in SUBSET Tickets
  OBVIOUS
<1> QED
  BY <1>1, <1>2, Exchanged

\* A redelivery pays for its message.
LEMMA Redelivered ==
  ASSUME BInv, TypeOK', redeliveries' = redeliveries + 1, NEW r \in Turns, NEW k \in Nat,
         Tickets' \subseteq Tickets \cup MessageTickets(r, k)
  PROVE  BInv'
<1>1. /\ IsFiniteSet(Tickets')
      /\ Cardinality(Tickets') <= Cardinality(Tickets) + Cardinality(MessageTickets(r, k))
  BY OneMessage, Addition DEF BInv
<1>2. Cardinality(Tickets') \in Nat /\ Cardinality(Tickets) \in Nat
  BY <1>1, FS_CardinalityType DEF BInv
<1>3. ASSUME NEW m \in Nat, NEW n \in Nat PROVE (m + 1) * (n + 1) + (m + 1) = (m + 1) * (n + 1 + 1)
  OBVIOUS
<1>4. redeliveries \in Nat /\ MaxRetries \in Nat
  BY ConstantsOK DEF BInv, TypeOK
<1>5. (MaxRetries + 1) * (redeliveries + 1) + (MaxRetries + 1) = (MaxRetries + 1) * (redeliveries' + 1)
  BY <1>3, <1>4
<1> DEFINE before == (MaxRetries + 1) * (redeliveries + 1)
           after  == (MaxRetries + 1) * (redeliveries' + 1)
<1>6. before \in Int /\ after \in Int
  BY <1>4
<1>7. Cardinality(Tickets) <= before /\ before + (MaxRetries + 1) = after
  BY <1>5 DEF BInv
<1>8. /\ Cardinality(MessageTickets(r, k)) <= MaxRetries + 1
      /\ Cardinality(MessageTickets(r, k)) \in Nat
  BY OneMessage
<1> HIDE DEF before, after
<1>9. Cardinality(Tickets') <= after
  BY <1>1, <1>2, <1>4, <1>6, <1>7, <1>8
<1> QED
  BY <1>1, <1>9 DEF BInv, after

\* A machine that is referred to has been rented: destroying it rents nothing.
Referenced(i) == (\E w \in Workers : work[w].inst = i) \/ gpuRef = i \/ stop.ref = i
RefInv == \A i \in Instances : Referenced(i) => inst[i].state # "free"

\* No machine is rented or becomes free.
SameFree == \A i \in Instances : inst'[i].state = "free" <=> inst[i].state = "free"

\* What does not concern a free machine rents none.
LEMMA FreeChanges ==
  ASSUME TypeOK, NEW k \in Instances, NEW v,
         \/ inst' = [inst EXCEPT ![k].state = v] /\ v # "free" /\ inst[k].state # "free"
         \/ inst' = [inst EXCEPT ![k].orphan = v]
  PROVE  SameFree
<1>1. CASE inst' = [inst EXCEPT ![k].state = v] /\ v # "free" /\ inst[k].state # "free"
  BY <1>1 DEF TypeOK, SameFree
<1>2. CASE inst' = [inst EXCEPT ![k].orphan = v]
  BY <1>2 DEF TypeOK, SameFree
<1> QED
  BY <1>1, <1>2

\* A worker rents a machine only in RentInstance.
LEMMA WorkerRents ==
  ASSUME TypeOK, RefInv, NEW w \in Workers, Work(w) \/ Crash(w) \/ Redeliver(w),
         ~RentInstance(w)
  PROVE  SameFree
<1>1. \/ inst' = inst
      \/ \E i \in Instances : work[w].inst = i
           /\ \/ inst' = [inst EXCEPT ![i].state = "gone"]
              \/ inst' = [inst EXCEPT ![i].orphan = (inst[i].state # "gone")]
  <2>1. work[w].inst \in Instances \cup {NoInstance}
    BY DEF TypeOK
  <2>2. CASE DestroyInstance(w)
    BY <2>1, <2>2 DEF DestroyInstance
  <2>3. CASE Crash(w)
    BY <2>1, <2>3 DEF Crash
  <2>4. CASE ~DestroyInstance(w) /\ ~Crash(w)
    BY Zenon, <2>4 DEF Work, Take, Announce, Route, DispatchEdge, Simulate, DispatchHub, PollHub,
       IssueToken, UploadDataset, Recheck, RecordInstance, WatchStatus, WatchInstance,
       RevokeToken, SelectModel, InsertModel, CompleteJob, FailJob, Retry, Raise, Redeliver,
       OnlyWork, OnlyStatus
  <2> QED
    BY <2>2, <2>3, <2>4
<1>2. CASE inst' = inst
  BY <1>2 DEF SameFree
<1>3. ASSUME NEW i \in Instances, work[w].inst = i,
             \/ inst' = [inst EXCEPT ![i].state = "gone"]
             \/ inst' = [inst EXCEPT ![i].orphan = (inst[i].state # "gone")]
      PROVE  SameFree
  <2>1. inst[i].state # "free"
    BY <1>3 DEF RefInv, Referenced
  <2> QED
    BY <1>3, <2>1, FreeChanges
<1> QED
  BY <1>1, <1>2, <1>3

\* Nobody but a worker rents a machine.
LEMMA OthersRent ==
  ASSUME TypeOK, RefInv, Create \/ Remote \/ Stop \/ Bridge \/ UNCHANGED vars
  PROVE  SameFree
<1>1. CASE Create \/ Bridge \/ UNCHANGED vars
  BY <1>1 DEF Create, CreatorIssuesToken, CreatorPosts, CreatorFallsBack, Bridge,
     ServicePublishes, BridgeSelects, BridgeInserts, BridgeFails, OnlyBridge, vars, SameFree
<1>2. CASE Remote
  <2>1. \/ inst' = inst
        \/ \E i \in Instances, v \in {"dead", "training", "finished"} :
             inst[i].state # "free" /\ inst' = [inst EXCEPT ![i].state = v]
    BY <1>2 DEF Remote, InstanceDies, PostCallback, ServicePosts, CheckToken, LosePost,
       ApplyCallback, OnlyPosts
  <2>2. CASE inst' = inst
    BY <2>2 DEF SameFree
  <2> QED
    BY <2>1, <2>2, FreeChanges
<1>3. CASE Stop
  <2>1. \/ inst' = inst
        \/ StopDestroys /\ inst' = [inst EXCEPT ![stop.ref].state = "gone"]
    BY <1>3 DEF Stop, StopJob, StopRevokes, StopDestroys
  <2>2. CASE inst' = inst
    BY <2>2 DEF SameFree
  <2>3. CASE inst' = [inst EXCEPT ![stop.ref].state = "gone"]
    <3>1. CASE stop.ref \in Instances
      <4>1. inst[stop.ref].state # "free"
        BY <3>1 DEF RefInv, Referenced
      <4> QED
        BY <2>3, <3>1, <4>1, FreeChanges
    <3>2. CASE stop.ref \notin Instances
      BY <2>3, <3>2 DEF TypeOK, SameFree
    <3> QED
      BY <3>1, <3>2
  <2> QED
    BY <2>1, <2>2, <2>3
<1> QED
  BY <1>1, <1>2, <1>3

\* A rental leaves the other machines alone.
LEMMA Rental ==
  ASSUME TypeOK, NEW w \in Workers, RentInstance(w)
  PROVE  /\ work[w].pc = "rent" /\ work'[w].try = work[w].try /\ queue' = queue
         /\ creator' = creator /\ redeliveries' = redeliveries
         /\ gpuRef' = gpuRef /\ stop' = stop
         /\ \/ inst' = inst /\ work'[w].pc = "destroy" /\ work'[w].inst = work[w].inst
            \/ \E k \in Instances :
                 /\ inst[k].state = "free" /\ inst'[k].state = "training"
                 /\ \A i \in Instances \ {k} : inst'[i] = inst[i]
                 /\ work'[w].pc \in {"ref", "destroy"} /\ work'[w].inst \in {k, work[w].inst}
<1>1. CASE inst' = inst /\ work' = [work EXCEPT ![w].pc = "destroy", ![w].out = "error"]
  BY <1>1 DEF RentInstance, TypeOK, row, stopper
<1>2. ASSUME NEW k \in Instances, NEW heard \in BOOLEAN, inst[k].state = "free",
             inst' = [inst EXCEPT ![k] = [state |-> "training", tok |-> work[w].tok,
                                          orphan |-> ~heard]],
             work' = IF heard THEN [work EXCEPT ![w].pc = "ref", ![w].inst = k]
                     ELSE [work EXCEPT ![w].pc = "destroy", ![w].out = "error"]
      PROVE  /\ work'[w].try = work[w].try
             /\ inst'[k].state = "training"
             /\ \A i \in Instances \ {k} : inst'[i] = inst[i]
             /\ work'[w].pc \in {"ref", "destroy"} /\ work'[w].inst \in {k, work[w].inst}
  <2>1. inst'[k].state = "training" /\ \A i \in Instances \ {k} : inst'[i] = inst[i]
    BY <1>2 DEF TypeOK
  <2>2. CASE heard
    BY <1>2, <2>1, <2>2 DEF TypeOK
  <2>3. CASE ~heard
    BY <1>2, <2>1, <2>3 DEF TypeOK
  <2> QED
    BY <2>2, <2>3
<1>3. \/ inst' = inst /\ work' = [work EXCEPT ![w].pc = "destroy", ![w].out = "error"]
      \/ \E k \in Instances, heard \in BOOLEAN :
           /\ inst[k].state = "free"
           /\ inst' = [inst EXCEPT ![k] = [state |-> "training", tok |-> work[w].tok,
                                           orphan |-> ~heard]]
           /\ work' = IF heard THEN [work EXCEPT ![w].pc = "ref", ![w].inst = k]
                      ELSE [work EXCEPT ![w].pc = "destroy", ![w].out = "error"]
  BY DEF RentInstance
<1>4. /\ work[w].pc = "rent" /\ queue' = queue /\ creator' = creator
      /\ redeliveries' = redeliveries /\ gpuRef' = gpuRef /\ stop' = stop
  BY DEF RentInstance, row, stopper
<1> QED
  BY <1>1, <1>2, <1>3, <1>4

\* A machine that is referred to has been rented, after every step.
LEMMA RefInvStep == TypeOK /\ RefInv /\ [Next]_vars => RefInv'
<1> SUFFICES ASSUME TypeOK, RefInv, [Next]_vars, NEW i \in Instances, Referenced(i)'
             PROVE  inst'[i].state # "free"
  BY DEF RefInv
<1>1. CASE Create \/ Remote \/ Stop \/ Bridge \/ UNCHANGED vars
  <2>1. UNCHANGED <<work, gpuRef>> /\ (stop'.ref \in {stop.ref, gpuRef, NoInstance})
    <3>1. CASE Create \/ Bridge \/ UNCHANGED vars
      BY <3>1 DEF Create, CreatorIssuesToken, CreatorPosts, CreatorFallsBack, Bridge,
         ServicePublishes, BridgeSelects, BridgeInserts, BridgeFails, OnlyBridge, vars, row,
         stopper
    <3>2. CASE Remote
      BY <3>2 DEF Remote, InstanceDies, PostCallback, ServicePosts, CheckToken, LosePost,
         ApplyCallback, OnlyPosts, row, stopper
    <3>3. CASE Stop
      BY <3>3 DEF Stop, StopJob, StopRevokes, StopDestroys, row, TypeOK
    <3> QED
      BY <1>1, <3>1, <3>2, <3>3
  <2>2. Referenced(i)
    BY <2>1, ConstantsOK DEF Referenced
  <2> QED
    BY <1>1, <2>2, OthersRent DEF RefInv, SameFree
<1>2. ASSUME NEW w \in Workers, Work(w) \/ Crash(w) \/ Redeliver(w)
      PROVE  inst'[i].state # "free"
  <2>1. CASE RentInstance(w)
    <3>1. \A x \in Workers \ {w} : work'[x] = work[x]
      BY <1>2, OtherExecutions
    <3>2. CASE inst' = inst /\ work'[w].inst = work[w].inst
      <4>1. Referenced(i)
        BY <2>1, <3>1, <3>2, Rental DEF Referenced
      <4> QED
        BY <3>2, <4>1 DEF RefInv
    <3>3. ASSUME NEW k \in Instances, inst'[k].state = "training",
                 \A j \in Instances \ {k} : inst'[j] = inst[j],
                 work'[w].inst \in {k, work[w].inst}
          PROVE  inst'[i].state # "free"
      <4>1. CASE i = k
        BY <3>3, <4>1
      <4>2. CASE i # k
        <5>1. Referenced(i)
          BY <2>1, <3>1, <3>3, <4>2, Rental DEF Referenced
        <5> QED
          BY <3>3, <4>2, <5>1 DEF RefInv
      <4> QED
        BY <4>1, <4>2
    <3> QED
      BY <2>1, <3>2, <3>3, Rental
  <2>2. CASE ~RentInstance(w)
    <3>1. work'[w].inst \in {NoInstance, work[w].inst}
      <4>1. CASE Take(w)
        BY <4>1 DEF Take, Idle, TypeOK
      <4>2. CASE IssueToken(w)
        BY <4>2 DEF IssueToken, TypeOK
      <4>3. CASE ~Take(w) /\ ~IssueToken(w)
        <5>1. CASE work[w].pc = "rent"
          <6>1. Raise(w) \/ Crash(w) \/ Redeliver(w)
            BY <1>2, <2>2, <4>3, <5>1 DEF Work, Announce, Goto, Route, DispatchEdge, Simulate,
               DispatchHub, PollHub, UploadDataset, Recheck, RecordInstance, WatchStatus,
               WatchInstance, DestroyInstance, RevokeToken, SelectModel, InsertModel,
               CompleteJob, FailJob, Retry
          <6>2. CASE Raise(w)
            BY <6>2 DEF Raise, TypeOK
          <6>3. CASE Crash(w) \/ Redeliver(w)
            BY <6>3 DEF Crash, Redeliver, Idle, TypeOK
          <6> QED
            BY <6>1, <6>2, <6>3
        <5>2. CASE work[w].pc # "rent"
          BY <1>2, <4>3, <5>2, ExecutionContinues DEF Continues
        <5> QED
          BY <5>1, <5>2
      <4> QED
        BY <4>1, <4>2, <4>3
    <3>2. gpuRef' \in {gpuRef, work[w].inst}
      BY Zenon, <1>2, <2>2 DEF Work, Take, Announce, Route, DispatchEdge, Simulate, DispatchHub,
         PollHub, IssueToken, UploadDataset, Recheck, RecordInstance, WatchStatus,
         WatchInstance, DestroyInstance, RevokeToken, SelectModel, InsertModel, CompleteJob,
         FailJob, Retry, Raise, Crash, Redeliver, OnlyWork, OnlyStatus, row
    <3>3. stop' = stop /\ \A x \in Workers \ {w} : work'[x] = work[x]
      BY <1>2, WorkersLeave, OtherExecutions
    <3>4. Referenced(i)
      BY <3>1, <3>2, <3>3, ConstantsOK DEF Referenced
    <3> QED
      BY <1>2, <2>2, <3>4, WorkerRents DEF RefInv, SameFree
  <2> QED
    BY <2>1, <2>2
<1> QED
  BY <1>1, <1>2 DEF Next

\* Where no machine is rented, the tickets of the machines stay.
LEMMA InstTicketsStay == SameFree => InstTickets' = InstTickets
  BY DEF SameFree, InstTickets

\* An execution that does not go back brings no ticket.
LEMMA WorkTicketsStay ==
  ASSUME NEW w \in Workers, \A x \in Workers \ {w} : work'[x] = work[x],
         work'[w].pc # "idle" => work[w].pc # "idle" /\ work'[w].try = work[w].try,
         work'[w].pc \in BeforeTry => work[w].pc \in BeforeTry
  PROVE  WorkTickets' \subseteq WorkTickets
<1> SUFFICES ASSUME NEW x \in WorkTickets' PROVE x \in WorkTickets
  OBVIOUS
<1>1. /\ x \in [kind : {"work"}, of : Workers, nr : {0}, turn : Turns]
      /\ work'[x.of].pc # "idle" /\ work'[x.of].try <= x.turn
      /\ work'[x.of].pc \in BeforeTry \/ work'[x.of].try # x.turn
  BY DEF WorkTickets
<1>2. x.of \in Workers
  BY <1>1
<1>3. /\ work[x.of].pc # "idle" /\ work[x.of].try <= x.turn
      /\ work[x.of].pc \in BeforeTry \/ work[x.of].try # x.turn
  <2>1. CASE x.of = w
    BY <1>1, <2>1
  <2>2. CASE x.of # w
    BY <1>1, <1>2, <2>2
  <2> QED
    BY <2>1, <2>2
<1> QED
  BY <1>1, <1>3 DEF WorkTickets

\* A published message brings the tickets of one message.
LEMMA QueueTicketsAdded ==
  ASSUME TypeOK, NEW r \in Turns, queue' = [queue EXCEPT ![r] = @ + 1]
  PROVE  QueueTickets' \subseteq QueueTickets \cup MessageTickets(r, queue[r] + 1)
<1> SUFFICES ASSUME NEW x \in QueueTickets', x \notin QueueTickets
             PROVE  x \in MessageTickets(r, queue[r] + 1)
  OBVIOUS
<1>1. /\ x \in [kind : {"queue"}, of : Turns, nr : Nat, turn : Turns]
      /\ x.nr \in 1..queue'[x.of] /\ x.of <= x.turn
  BY DEF QueueTickets
<1>2. x.nr \notin 1..queue[x.of]
  BY <1>1 DEF QueueTickets
<1>3. x.of \in Turns /\ x.nr \in Nat /\ \A q \in Turns : queue[q] \in Nat
  BY <1>1 DEF TypeOK, Turns
<1>4. x.of = r
  <2>1. ASSUME x.of # r PROVE queue'[x.of] = queue[x.of]
    BY <1>3, <2>1 DEF TypeOK, Turns
  <2> QED
    BY <1>1, <1>2, <2>1
<1>5. queue'[r] = queue[r] + 1
  BY DEF TypeOK, Turns
<1>6. x.nr = queue[r] + 1
  BY <1>1, <1>2, <1>3, <1>4, <1>5
<1> QED
  BY <1>1, <1>4, <1>6 DEF MessageTickets

\* The tickets of the message that is taken are the last ones of its queue.
LEMMA QueueTicketsTaken ==
  ASSUME TypeOK, NEW r \in Turns, queue[r] > 0, queue' = [queue EXCEPT ![r] = @ - 1]
  PROVE  /\ MessageTickets(r, queue[r]) \subseteq QueueTickets
         /\ QueueTickets' \subseteq QueueTickets \ MessageTickets(r, queue[r])
<1>1. queue[r] \in Nat /\ \A q \in Turns : queue[q] \in Nat
  BY DEF TypeOK, Turns
<1>2. MessageTickets(r, queue[r]) \subseteq QueueTickets
  BY <1>1 DEF MessageTickets, QueueTickets
<1>3. ASSUME NEW x \in QueueTickets'
      PROVE  x \in QueueTickets /\ x \notin MessageTickets(r, queue[r])
  <2>1. /\ x \in [kind : {"queue"}, of : Turns, nr : Nat, turn : Turns]
        /\ x.nr \in 1..queue'[x.of] /\ x.of <= x.turn
    BY <1>3 DEF QueueTickets
  <2>2. x.of \in Turns /\ x.nr \in Nat
    BY <2>1
  <2>3. CASE x.of = r
    <3>1. queue'[r] = queue[r] - 1
      BY DEF TypeOK, Turns
    <3>2. x.nr \in 1..queue[x.of] /\ x.nr # queue[r]
      BY <1>1, <2>1, <2>2, <2>3, <3>1
    <3> QED
      BY <2>1, <3>2 DEF QueueTickets, MessageTickets
  <2>4. CASE x.of # r
    <3>1. queue'[x.of] = queue[x.of]
      BY <2>2, <2>4 DEF TypeOK, Turns
    <3> QED
      BY <2>1, <2>4, <3>1 DEF QueueTickets, MessageTickets
  <2> QED
    BY <2>3, <2>4
<1> QED
  BY <1>2, <1>3

\* Tickets with the same turns can be exchanged one for one.
LEMMA SameTurns ==
  ASSUME NEW A, NEW B, NEW kind, NEW of, NEW nr,
         \A y \in B : y = Ticket(kind, of, nr, y.turn) /\ \E x \in A : x.turn = y.turn,
         \A x \in A : Ticket(kind, of, nr, x.turn) \in B
  PROVE  [x \in A |-> Ticket(kind, of, nr, x.turn)] \in Surjection(A, B)
<1> DEFINE f == [x \in A |-> Ticket(kind, of, nr, x.turn)]
<1>1. f \in [A -> B]
  OBVIOUS
<1>2. ASSUME NEW y \in B PROVE \E x \in A : f[x] = y
  <2>1. PICK x \in A : x.turn = y.turn
    OBVIOUS
  <2>2. f[x] = y
    BY <2>1
  <2> QED
    BY <2>2
<1> QED
  BY <1>1, <1>2, Fun_IsSurj

\* A worker that neither takes a message nor publishes one, and rents nothing,
\* brings no tickets.
LEMMA WorkerKeepsTickets ==
  ASSUME TypeOK, RefInv, NEW w \in Workers, Work(w) \/ Crash(w) \/ Redeliver(w),
         ~Take(w), ~RentInstance(w)
  PROVE  InstTickets' = InstTickets /\ WorkTickets' \subseteq WorkTickets
         /\ CreatorTickets' = CreatorTickets
<1>1. InstTickets' = InstTickets
  BY WorkerRents, InstTicketsStay
<1>2. /\ work'[w].pc # "idle" => work[w].pc # "idle" /\ work'[w].try = work[w].try
      /\ work'[w].pc \in BeforeTry => work[w].pc \in BeforeTry
  <2>1. CASE IssueToken(w)
    BY <2>1 DEF IssueToken, BeforeTry, TypeOK
  <2>2. CASE ~IssueToken(w)
    BY <2>2, ExecutionContinues DEF Continues
  <2> QED
    BY <2>1, <2>2
<1>3. WorkTickets' \subseteq WorkTickets
  BY <1>2, OtherExecutions, WorkTicketsStay
<1>4. creator' = creator
  BY WorkersLeave
<1> QED
  BY <1>1, <1>3, <1>4 DEF CreatorTickets

\* The execution that takes a message takes its tickets over.
LEMMA BInvTake ==
  ASSUME BInv, TypeOK', NEW w \in Workers, Take(w)
  PROVE  BInv'
<1>0. TypeOK
  BY DEF BInv
<1>1. PICK r \in Turns : /\ queue[r] > 0 /\ queue' = [queue EXCEPT ![r] = @ - 1]
                         /\ work' = [work EXCEPT ![w] = [Idle EXCEPT !.pc = "start", !.try = r]]
  BY DEF Take, Turns
<1>2. /\ inst' = inst /\ creator' = creator /\ redeliveries' = redeliveries
  BY DEF Take
<1> DEFINE A == MessageTickets(r, queue[r])
           B == {x \in [kind : {"work"}, of : {w}, nr : {0}, turn : Turns] : r <= x.turn}
           f == [x \in A |-> Ticket("work", w, 0, x.turn)]
<1>3. A \subseteq QueueTickets /\ QueueTickets' \subseteq QueueTickets \ A
  BY <1>0, <1>1, QueueTicketsTaken
<1>4. f \in Surjection(A, B)
  <2>1. ASSUME NEW y \in B
        PROVE  y = Ticket("work", w, 0, y.turn) /\ \E x \in A : x.turn = y.turn
    <3>1. y = Ticket("work", w, 0, y.turn) /\ y.turn \in Turns /\ r <= y.turn
      BY <2>1 DEF Ticket
    <3>2. Ticket("queue", r, queue[r], y.turn) \in A
      BY <3>1 DEF Ticket, MessageTickets
    <3>3. Ticket("queue", r, queue[r], y.turn).turn = y.turn
      BY DEF Ticket
    <3> QED
      BY <3>1, <3>2, <3>3
  <2>2. ASSUME NEW x \in A PROVE Ticket("work", w, 0, x.turn) \in B
    BY <2>2 DEF MessageTickets, Ticket
  <2> HIDE DEF A, B
  <2>3. [x \in A |-> Ticket("work", w, 0, x.turn)] \in Surjection(A, B)
    BY <2>1, <2>2, SameTurns
  <2> QED
    BY <2>3
<1>5. WorkTickets' \subseteq WorkTickets \cup B
  <2> SUFFICES ASSUME NEW x \in WorkTickets' PROVE x \in WorkTickets \cup B
    OBVIOUS
  <2>1. /\ x \in [kind : {"work"}, of : Workers, nr : {0}, turn : Turns]
        /\ work'[x.of].pc # "idle" /\ work'[x.of].try <= x.turn
        /\ work'[x.of].pc \in BeforeTry \/ work'[x.of].try # x.turn
    BY DEF WorkTickets
  <2>2. CASE x.of = w
    <3>1. work'[w].try = r
      BY <1>0, <1>1 DEF Idle, TypeOK
    <3> QED
      BY <2>1, <2>2, <3>1
  <2>3. CASE x.of # w
    <3>1. work'[x.of] = work[x.of]
      BY <1>0, <1>1, <2>1, <2>3 DEF TypeOK
    <3> QED
      BY <2>1, <3>1 DEF WorkTickets
  <2> QED
    BY <2>2, <2>3
<1>6. InstTickets' = InstTickets /\ CreatorTickets' = CreatorTickets
  BY <1>2 DEF InstTickets, CreatorTickets
<1>7. A \cap (InstTickets \cup WorkTickets \cup CreatorTickets) = {}
  BY DEF MessageTickets, InstTickets, WorkTickets, CreatorTickets, Ticket
<1> HIDE DEF A, B, f
<1>8. Tickets' \subseteq (Tickets \ A) \cup B /\ A \in SUBSET Tickets
  BY <1>3, <1>5, <1>6, <1>7 DEF Tickets
<1> QED
  BY <1>2, <1>4, <1>8, Exchanged

\* The execution that rents a machine pays with its ticket of this retry.
LEMMA BInvRent ==
  ASSUME BInv, TypeOK', NEW w \in Workers, RentInstance(w)
  PROVE  BInv'
<1>0. TypeOK
  BY DEF BInv
<1>1. /\ work[w].pc = "rent" /\ work'[w].try = work[w].try /\ queue' = queue
      /\ creator' = creator /\ redeliveries' = redeliveries
  BY <1>0, Rental
<1>2. \A x \in Workers \ {w} : work'[x] = work[x]
  BY <1>0, OtherExecutions DEF Work
<1>3. QueueTickets' = QueueTickets /\ CreatorTickets' = CreatorTickets
  BY <1>1 DEF QueueTickets, CreatorTickets
<1>4. CASE inst' = inst /\ work'[w].pc = "destroy"
  <2>1. InstTickets' = InstTickets
    BY <1>4 DEF InstTickets
  <2>2. WorkTickets' \subseteq WorkTickets
    BY <1>1, <1>2, <1>4, WorkTicketsStay DEF BeforeTry
  <2>3. Tickets' \subseteq Tickets
    BY <1>3, <2>1, <2>2 DEF Tickets
  <2> QED
    BY <1>1, <2>3, GivenUp
<1>5. ASSUME NEW k \in Instances, inst[k].state = "free", inst'[k].state = "training",
             \A i \in Instances \ {k} : inst'[i] = inst[i], work'[w].pc \in {"ref", "destroy"}
      PROVE  BInv'
  <2> DEFINE t == Ticket("work", w, 0, work[w].try)
             A == {t}
             B == {Ticket("inst", k, 0, 0)}
             f == [x \in A |-> Ticket("inst", k, 0, 0)]
  <2>1. f \in Surjection(A, B)
    BY Fun_IsSurj
  <2>2. work[w].try \in Turns
    BY <1>0 DEF TypeOK, Turns
  <2>3. t \in WorkTickets
    <3>1. t.of = w /\ t.turn = work[w].try
          /\ t \in [kind : {"work"}, of : Workers, nr : {0}, turn : Turns]
      BY <2>2 DEF Ticket
    <3>2. work[w].try <= work[w].try /\ "rent" \in BeforeTry
      BY <2>2 DEF Turns, BeforeTry
    <3> HIDE DEF t
    <3> QED
      BY <1>1, <3>1, <3>2 DEF WorkTickets
  <2>4. WorkTickets' \subseteq WorkTickets
    BY <1>1, <1>2, <1>5, WorkTicketsStay DEF BeforeTry
  <2>5. t \notin WorkTickets'
    <3>1. t.of = w /\ t.turn = work[w].try
      BY DEF Ticket
    <3>2. work'[w].pc \notin BeforeTry /\ work'[w].try = work[w].try
      BY <1>1, <1>5 DEF BeforeTry
    <3> HIDE DEF t
    <3> QED
      BY <3>1, <3>2 DEF WorkTickets
  <2>6. InstTickets' \subseteq InstTickets \cup B
    BY <1>5 DEF InstTickets
  <2>7. t \notin InstTickets \cup QueueTickets \cup CreatorTickets \cup B
    BY DEF InstTickets, QueueTickets, CreatorTickets, Ticket
  <2> HIDE DEF t, B, f
  <2>8. Tickets' \subseteq (Tickets \ A) \cup B /\ A \in SUBSET Tickets
    BY <1>3, <2>3, <2>4, <2>5, <2>6, <2>7 DEF Tickets
  <2> HIDE DEF A
  <2> QED
    BY <1>1, <2>1, <2>8, Exchanged
<1> QED
  BY <1>0, <1>4, <1>5, Rental

\* The execution that retries hands its remaining tickets to the new message.
LEMMA BInvRetry ==
  ASSUME BInv, RefInv, TypeOK', NEW w \in Workers, Retry(w)
  PROVE  BInv'
<1>0. TypeOK
  BY DEF BInv
<1>1. /\ work[w].pc = "retry" /\ work'[w].pc = "idle" /\ redeliveries' = redeliveries
  BY <1>0 DEF Retry, Idle, TypeOK
<1>2. InstTickets' = InstTickets /\ WorkTickets' \subseteq WorkTickets
      /\ CreatorTickets' = CreatorTickets
  <2>1. ~Take(w) /\ ~RentInstance(w)
    BY <1>1 DEF Take, RentInstance
  <2> QED
    BY <1>0, <2>1, WorkerKeepsTickets DEF Work
<1>3. CASE queue' = queue
  <2>1. QueueTickets' = QueueTickets
    BY <1>3 DEF QueueTickets
  <2>2. Tickets' \subseteq Tickets
    BY <1>2, <2>1 DEF Tickets
  <2> QED
    BY <1>1, <2>2, GivenUp
<1>4. CASE work[w].try < MaxRetries /\ queue' = [queue EXCEPT ![work[w].try + 1] = @ + 1]
  <2> DEFINE r == work[w].try + 1
             A == {x \in WorkTickets : x.of = w}
             B == MessageTickets(r, queue[r] + 1)
             f == [x \in A |-> Ticket("queue", r, queue[r] + 1, x.turn)]
  <2>1. work[w].try \in Turns /\ r \in Turns /\ queue[r] + 1 \in Nat
    <3>1. work[w].try \in 0..MaxRetries /\ MaxRetries \in Nat
      BY <1>0, ConstantsOK DEF TypeOK
    <3>2. r \in 0..MaxRetries
      BY <1>4, <3>1
    <3>3. queue[r] \in Nat
      BY <1>0, <3>2 DEF TypeOK
    <3> QED
      BY <3>1, <3>2, <3>3 DEF Turns
  <2>2. f \in Surjection(A, B)
    <3>1. ASSUME NEW y \in B
          PROVE  y = Ticket("queue", r, queue[r] + 1, y.turn) /\ \E x \in A : x.turn = y.turn
      <4>1. y = Ticket("queue", r, queue[r] + 1, y.turn) /\ y.turn \in Turns /\ r <= y.turn
        BY <2>1, <3>1 DEF Ticket, MessageTickets
      <4> DEFINE x == Ticket("work", w, 0, y.turn)
      <4>2. x.of = w /\ x.turn = y.turn
            /\ x \in [kind : {"work"}, of : Workers, nr : {0}, turn : Turns]
        BY <4>1 DEF Ticket
      <4>3. work[w].try <= y.turn /\ work[w].try # y.turn
        BY <2>1, <4>1 DEF Turns
      <4> HIDE DEF x
      <4>4. x \in A
        BY <1>1, <4>2, <4>3 DEF WorkTickets
      <4> QED
        BY <4>1, <4>2, <4>4
    <3>2. ASSUME NEW x \in A PROVE Ticket("queue", r, queue[r] + 1, x.turn) \in B
      <4>1. x.turn \in Turns /\ work[w].try <= x.turn /\ work[w].try # x.turn
        BY <1>1, <3>2 DEF WorkTickets, BeforeTry
      <4>2. r <= x.turn
        BY <2>1, <4>1 DEF Turns
      <4> QED
        BY <2>1, <4>1, <4>2 DEF MessageTickets, Ticket
    <3> HIDE DEF A, B, r
    <3>3. [x \in A |-> Ticket("queue", r, queue[r] + 1, x.turn)] \in Surjection(A, B)
      BY <3>1, <3>2, SameTurns
    <3> QED
      BY <3>3
  <2>3. QueueTickets' \subseteq QueueTickets \cup B
    BY <1>0, <1>4, <2>1, QueueTicketsAdded
  <2>4. WorkTickets' \cap A = {}
    <3>1. ASSUME NEW x \in WorkTickets' PROVE x.of # w
      BY <1>1, <3>1 DEF WorkTickets
    <3> QED
      BY <3>1
  <2>5. A \cap (InstTickets \cup QueueTickets \cup CreatorTickets) = {}
    BY DEF InstTickets, WorkTickets, QueueTickets, CreatorTickets, Ticket
  <2> HIDE DEF B, f
  <2>6. Tickets' \subseteq (Tickets \ A) \cup B /\ A \in SUBSET Tickets
    BY <1>2, <2>3, <2>4, <2>5 DEF Tickets
  <2> HIDE DEF A
  <2> QED
    BY <1>1, <2>2, <2>6, Exchanged
<1> QED
  BY <1>3, <1>4 DEF Retry

\* Every other step of a worker keeps the bound: a redelivery is paid for.
LEMMA BInvWorker ==
  ASSUME BInv, RefInv, TypeOK', NEW w \in Workers, Work(w) \/ Crash(w) \/ Redeliver(w)
  PROVE  BInv'
<1>0. TypeOK
  BY DEF BInv
<1>1. CASE Take(w) \/ RentInstance(w) \/ Retry(w)
  BY <1>1, BInvTake, BInvRent, BInvRetry
<1>2. CASE ~Take(w) /\ ~RentInstance(w) /\ ~Retry(w)
  <2>1. InstTickets' = InstTickets /\ WorkTickets' \subseteq WorkTickets
        /\ CreatorTickets' = CreatorTickets
    BY <1>0, <1>2, WorkerKeepsTickets
  <2>2. CASE queue' = queue /\ redeliveries' = redeliveries
    <3>1. QueueTickets' = QueueTickets
      BY <2>2 DEF QueueTickets
    <3>2. Tickets' \subseteq Tickets
      BY <2>1, <3>1 DEF Tickets
    <3> QED
      BY <2>2, <3>2, GivenUp
  <2>3. CASE redeliveries' = redeliveries + 1 /\ queue' = [queue EXCEPT ![work[w].try] = @ + 1]
    <3>1. work[w].try \in Turns /\ queue[work[w].try] + 1 \in Nat
      <4>1. work[w].try \in 0..MaxRetries
        BY <1>0 DEF TypeOK
      <4>2. queue[work[w].try] \in Nat
        BY <1>0, <4>1 DEF TypeOK
      <4> QED
        BY <4>1, <4>2 DEF Turns
    <3>2. QueueTickets' \subseteq QueueTickets
                                  \cup MessageTickets(work[w].try, queue[work[w].try] + 1)
      BY <1>0, <2>3, <3>1, QueueTicketsAdded
    <3>3. Tickets' \subseteq Tickets \cup MessageTickets(work[w].try, queue[work[w].try] + 1)
      BY <2>1, <3>2 DEF Tickets
    <3> QED
      BY <2>3, <3>1, <3>3, Redelivered
  <2> QED
    BY <1>2, <2>2, <2>3 DEF Work, Announce, Route, DispatchEdge, Simulate, DispatchHub, PollHub,
       IssueToken, UploadDataset, Recheck, RecordInstance, WatchStatus, WatchInstance,
       DestroyInstance, RevokeToken, SelectModel, InsertModel, CompleteJob, FailJob, Raise,
       Crash, Redeliver, OnlyWork, OnlyStatus
<1> QED
  BY <1>1, <1>2

\* The dispatch thread hands its tickets to the first message.
LEMMA BInvFallBack ==
  ASSUME BInv, RefInv, TypeOK', CreatorFallsBack
  PROVE  BInv'
<1>0. TypeOK
  BY DEF BInv
<1>1. /\ creator = "fallback" /\ creator' = "done" /\ redeliveries' = redeliveries
      /\ inst' = inst /\ work' = work
  BY DEF CreatorFallsBack
<1>2. InstTickets' = InstTickets /\ WorkTickets' = WorkTickets /\ CreatorTickets' = {}
  BY <1>1 DEF InstTickets, WorkTickets, CreatorTickets
<1>3. CASE queue' = queue
  <2>1. QueueTickets' = QueueTickets
    BY <1>3 DEF QueueTickets
  <2>2. Tickets' \subseteq Tickets
    BY <1>2, <2>1 DEF Tickets
  <2> QED
    BY <1>1, <2>2, GivenUp
<1>4. CASE queue' = [queue EXCEPT ![0] = @ + 1]
  <2> DEFINE A == CreatorTickets
             B == MessageTickets(0, queue[0] + 1)
             f == [x \in A |-> Ticket("queue", 0, queue[0] + 1, x.turn)]
  <2>1. 0 \in Turns /\ queue[0] + 1 \in Nat
    <3>1. 0 \in 0..MaxRetries
      BY ConstantsOK
    <3>2. queue[0] \in Nat
      BY <1>0, <3>1 DEF TypeOK
    <3> QED
      BY <3>1, <3>2 DEF Turns
  <2>2. f \in Surjection(A, B)
    <3>1. ASSUME NEW y \in B
          PROVE  y = Ticket("queue", 0, queue[0] + 1, y.turn) /\ \E x \in A : x.turn = y.turn
      <4>1. y = Ticket("queue", 0, queue[0] + 1, y.turn) /\ y.turn \in Turns
        BY <2>1, <3>1 DEF Ticket, MessageTickets
      <4>2. Ticket("creator", 0, 0, y.turn) \in A
            /\ Ticket("creator", 0, 0, y.turn).turn = y.turn
        BY <1>1, <4>1 DEF Ticket, CreatorTickets
      <4> QED
        BY <4>1, <4>2
    <3>2. ASSUME NEW x \in A PROVE Ticket("queue", 0, queue[0] + 1, x.turn) \in B
      BY <2>1, <3>2 DEF CreatorTickets, MessageTickets, Ticket, Turns
    <3> HIDE DEF A, B
    <3>3. [x \in A |-> Ticket("queue", 0, queue[0] + 1, x.turn)] \in Surjection(A, B)
      BY <3>1, <3>2, SameTurns
    <3> QED
      BY <3>3
  <2>3. QueueTickets' \subseteq QueueTickets \cup B
    BY <1>0, <1>4, <2>1, QueueTicketsAdded
  <2>4. A \cap (InstTickets \cup WorkTickets \cup QueueTickets) = {}
    BY DEF InstTickets, WorkTickets, QueueTickets, CreatorTickets, Ticket
  <2> HIDE DEF B, f
  <2>5. Tickets' \subseteq (Tickets \ A) \cup B /\ A \in SUBSET Tickets
    BY <1>2, <2>3, <2>4 DEF Tickets
  <2> HIDE DEF A
  <2> QED
    BY <1>1, <2>2, <2>5, Exchanged
<1> QED
  BY <1>3, <1>4 DEF CreatorFallsBack

\* Every step keeps the bound.
LEMMA BInvStep == BInv /\ RefInv /\ [Next]_vars => BInv'
<1> SUFFICES ASSUME BInv, RefInv, [Next]_vars PROVE BInv'
  OBVIOUS
<1>0. TypeOK /\ TypeOK'
  BY TypeStep DEF BInv
<1>1. ASSUME NEW w \in Workers, Work(w) \/ Crash(w) \/ Redeliver(w) PROVE BInv'
  BY <1>0, <1>1, BInvWorker
<1>2. CASE CreatorFallsBack
  BY <1>0, <1>2, BInvFallBack
<1>3. CASE CreatorIssuesToken \/ CreatorPosts \/ Remote \/ Stop \/ Bridge \/ UNCHANGED vars
  <2>1. UNCHANGED <<work, queue, redeliveries>> /\ (creator' # "done" => creator # "done")
    <3>1. CASE CreatorIssuesToken \/ CreatorPosts \/ Bridge \/ UNCHANGED vars
      BY <3>1 DEF CreatorIssuesToken, CreatorPosts, Bridge, ServicePublishes, BridgeSelects,
         BridgeInserts, BridgeFails, OnlyBridge, vars
    <3>2. CASE Remote \/ Stop
      BY <3>2 DEF Remote, InstanceDies, PostCallback, ServicePosts, CheckToken, LosePost,
         ApplyCallback, OnlyPosts, Stop, StopJob, StopRevokes, StopDestroys
    <3> QED
      BY <1>3, <3>1, <3>2
  <2>2. InstTickets' = InstTickets
    BY <1>0, <1>3, OthersRent, InstTicketsStay DEF Create
  <2>3. WorkTickets' = WorkTickets /\ QueueTickets' = QueueTickets
        /\ CreatorTickets' \subseteq CreatorTickets
    BY <2>1 DEF WorkTickets, QueueTickets, CreatorTickets
  <2>4. Tickets' \subseteq Tickets
    BY <2>2, <2>3 DEF Tickets
  <2> QED
    BY <1>0, <2>1, <2>4, GivenUp
<1> QED
  BY <1>1, <1>2, <1>3 DEF Next, Create

\* What a job can cost is bounded, for any number of workers and of machines
\* on offer: a delivery of its message pays for one rental on each retry left.
THEOREM RentalsAreBounded == Spec => []RentalsBounded
<1>1. Init => BInv /\ RefInv
  <2>1. Init => RefInv
    BY ConstantsOK DEF Init, Idle, RefInv, Referenced
  <2> QED
    BY <2>1, BInvInit
<1>2. BInv /\ RefInv /\ [Next]_vars => BInv' /\ RefInv'
  BY BInvStep, RefInvStep DEF BInv
<1>3. BInv => RentalsBounded
  <2> SUFFICES ASSUME BInv PROVE RentalsBounded
    OBVIOUS
  <2> DEFINE rented == {i \in Instances : inst[i].state # "free"}
             f == [i \in rented |-> Ticket("inst", i, 0, 0)]
  <2>1. f \in Injection(rented, Tickets)
    <3>1. f \in [rented -> Tickets]
      BY DEF Tickets, InstTickets
    <3>2. ASSUME NEW i \in rented, NEW k \in rented, f[i] = f[k] PROVE i = k
      BY <3>2 DEF Ticket
    <3> QED
      BY <3>1, <3>2, Fun_IsInj
  <2> DEFINE bound == (MaxRetries + 1) * (redeliveries + 1)
  <2>2. IsFiniteSet(Tickets) /\ Cardinality(Tickets) <= bound /\ bound \in Int
    BY ConstantsOK DEF BInv, TypeOK
  <2> HIDE DEF rented, f, bound
  <2>3. Cardinality(rented) <= Cardinality(Tickets) /\ Cardinality(rented) \in Nat
        /\ Cardinality(Tickets) \in Nat
    BY <2>1, <2>2, FS_Injection, FS_CardinalityType
  <2>4. Cardinality(rented) <= bound
    BY <2>2, <2>3
  <2> QED
    BY <2>4 DEF RentalsBounded, rented, bound
<1> QED
  BY <1>1, <1>2, <1>3, PTL DEF Spec

-----------------------------------------------------------------------------
(* Every execution ends: the safety core of InstanceReleased.              *)

\* The steps an execution has still to take, at most: its place in
\* dispatch_training, and the polls that the deadlines leave it.
StepsLeft(v) ==
  LET polls == MaxPolls - v.polls
  IN [idle |-> 0, retry |-> 1, edge |-> 3, fail |-> 2, complete |-> 3, insert |-> 4,
      select |-> 5, revoke |-> 6, destroy |-> 7, local |-> 6 + polls,
      probe |-> 8 + 2 * polls, poll |-> 9 + 2 * polls,
      hub |-> 7 + MaxPolls + polls,
      announceRented |-> 10 + 2 * MaxPolls, ref |-> 11 + 2 * MaxPolls,
      rent |-> 12 + 2 * MaxPolls, recheck |-> 13 + 2 * MaxPolls,
      announce |-> 14 + 2 * MaxPolls, upload |-> 15 + 2 * MaxPolls,
      token |-> 16 + 2 * MaxPolls, route |-> 17 + 2 * MaxPolls,
      start |-> 18 + 2 * MaxPolls][v.pc]

\* No loop of an execution outlives its deadline: whatever it finds, an
\* execution under way takes no more than 2 * MaxPolls + 18 steps, a crash ends
\* it at once, and no step of anybody else prolongs it.
StepsBounded == \A w \in Workers : StepsLeft(work[w]) \in 0..(2 * MaxPolls + 18)
StepsRunOut ==
  [][\A w \in Workers : work[w].pc # "idle" =>
       /\ Work(w) => StepsLeft(work'[w]) < StepsLeft(work[w])
       /\ work'[w] # work[w] => StepsLeft(work'[w]) < StepsLeft(work[w])]_vars

\* Polls are counted only in the loops, which leave when they are used up.
PollsInv ==
  \A w \in Workers :
    /\ work[w].pc \in (BeforeTry \ {"hub", "local"}) \cup {"ref", "announceRented"} => work[w].polls = 0
    /\ work[w].pc \in {"hub", "local", "poll"} => work[w].polls <= MaxPolls
    /\ work[w].pc = "probe" => work[w].polls < MaxPolls

\* How a step moves an execution that is under way: it ends it, goes on with the
\* polls it has counted, or counts another one.
Moves(w) ==
  LET from == work[w]  to == work'[w]
  IN \/ to = Idle
     \/ /\ to.polls = from.polls
        /\ \/ <<from.pc, to.pc>> \in
                {<<"start", "route">>, <<"announce", "recheck">>, <<"announceRented", "poll">>,
                 <<"hub", "select">>, <<"token", "upload">>, <<"upload", "announce">>,
                 <<"recheck", "rent">>, <<"rent", "ref">>, <<"rent", "destroy">>,
                 <<"ref", "announceRented">>, <<"destroy", "revoke">>, <<"revoke", "select">>,
                 <<"revoke", "fail">>, <<"select", "insert">>, <<"select", "complete">>,
                 <<"insert", "complete">>, <<"fail", "retry">>}
           \/ from.pc = "route" /\ to.pc \in {"hub", "local", "edge", "token"}
           \/ from.pc = "hub" /\ to.pc = "local" /\ from.polls = 0
           \/ from.pc = "poll" /\ to.pc = "probe" /\ from.polls < MaxPolls
           \/ from.pc \in BeforeTry \cup {"select", "insert", "complete"} /\ to.pc = "fail"
           \/ from.pc \in InTry /\ to.pc = "destroy"
     \/ /\ to.polls = from.polls + 1
        /\ \/ from.pc \in {"hub", "local"} /\ to.pc = from.pc /\ from.polls < MaxPolls
           \/ from.pc = "local" /\ to.pc = "select"
           \/ from.pc = "probe" /\ to.pc = "poll"

\* Every action of a worker moves its execution so.
LEMMA WorkerMoves ==
  ASSUME TypeOK, NEW w \in Workers, Work(w), work[w].pc # "idle"
  PROVE  Moves(w)
<1> USE DEF Moves, BeforeTry, InTry
<1>g. ASSUME NEW from, NEW to, Goto(w, from, to)
      PROVE  work[w].pc = from /\ work'[w].pc = to /\ work'[w].polls = work[w].polls
  BY <1>g DEF Goto, TypeOK
<1>e. ASSUME NEW pc, NEW out, work' = [work EXCEPT ![w].pc = pc, ![w].out = out]
      PROVE  work'[w].pc = pc /\ work'[w].polls = work[w].polls
  BY <1>e DEF TypeOK
<1>1. CASE DispatchEdge(w) \/ CompleteJob(w) \/ Retry(w)
  BY <1>1 DEF DispatchEdge, CompleteJob, Retry, TypeOK
<1>2. CASE Announce(w) \/ UploadDataset(w) \/ RecordInstance(w) \/ FailJob(w) \/ InsertModel(w)
  <2>1. \/ Goto(w, "start", "route") \/ Goto(w, "announce", "recheck")
        \/ Goto(w, "announceRented", "poll") \/ Goto(w, "upload", "announce")
        \/ Goto(w, "ref", "announceRented") \/ Goto(w, "fail", "retry")
        \/ Goto(w, "insert", "complete")
    BY <1>2 DEF Announce, UploadDataset, RecordInstance, FailJob, InsertModel
  <2>2. /\ work'[w].polls = work[w].polls
        /\ \/ work[w].pc = "start" /\ work'[w].pc = "route"
           \/ work[w].pc = "announce" /\ work'[w].pc = "recheck"
           \/ work[w].pc = "announceRented" /\ work'[w].pc = "poll"
           \/ work[w].pc = "upload" /\ work'[w].pc = "announce"
           \/ work[w].pc = "ref" /\ work'[w].pc = "announceRented"
           \/ work[w].pc = "fail" /\ work'[w].pc = "retry"
           \/ work[w].pc = "insert" /\ work'[w].pc = "complete"
    BY <1>g, <2>1
  <2> QED
    BY <2>2
<1>3. CASE Route(w)
  <2>1. PICK p \in Providers : Goto(w, "route", IF p = "vast" THEN "token" ELSE p)
    BY <1>3 DEF Route
  <2>2. p \in {"vast", "hub", "local", "edge"}
    BY ConstantsOK
  <2>3. /\ work[w].pc = "route" /\ work'[w].polls = work[w].polls
        /\ work'[w].pc = (IF p = "vast" THEN "token" ELSE p)
    BY <1>g, <2>1
  <2> QED
    BY <2>2, <2>3
<1>4. CASE Simulate(w)
  <2>1. /\ work[w].pc = "local" /\ work'[w].polls = work[w].polls + 1
        /\ work'[w].pc = (IF work[w].polls < MaxPolls THEN "local" ELSE "select")
    BY <1>4 DEF Simulate, TypeOK
  <2> QED
    BY <2>1
<1>5. CASE DispatchHub(w)
  <2>1. work[w].pc = "hub" /\ work'[w].pc = "local" /\ work'[w].polls = work[w].polls
    BY <1>5, <1>g DEF DispatchHub
  <2> QED
    BY <1>5, <2>1 DEF DispatchHub
<1>6. CASE PollHub(w)
  <2>0. work[w].pc = "hub"
    BY <1>6 DEF PollHub
  <2>1. CASE work[w].polls < MaxPolls /\ work' = [work EXCEPT ![w].polls = @ + 1]
    <3>1. work'[w].pc = "hub" /\ work'[w].polls = work[w].polls + 1
      BY <2>0, <2>1 DEF TypeOK
    <3> QED
      BY <2>0, <2>1, <3>1
  <2>2. ASSUME NEW pc \in {"select", "fail"}, work' = [work EXCEPT ![w].pc = pc]
        PROVE  Moves(w)
    <3>1. work'[w].pc = pc /\ work'[w].polls = work[w].polls
      BY <2>2 DEF TypeOK
    <3> QED
      BY <2>0, <2>2, <3>1
  <2> QED
    BY <1>6, <2>1, <2>2 DEF PollHub
<1>7. CASE IssueToken(w)
  <2>1. work[w].pc = "token" /\ work'[w].pc = "upload" /\ work'[w].polls = work[w].polls
    BY <1>7 DEF IssueToken, TypeOK
  <2> QED
    BY <2>1
<1>8. CASE Recheck(w)
  <2>1. CASE work' = [work EXCEPT ![w] = Idle]
    BY <2>1 DEF TypeOK
  <2>2. CASE Goto(w, "recheck", "rent")
    <3>1. work[w].pc = "recheck" /\ work'[w].pc = "rent" /\ work'[w].polls = work[w].polls
      BY <2>2, <1>g
    <3> QED
      BY <3>1
  <2> QED
    BY <1>8, <2>1, <2>2 DEF Recheck
<1>9. CASE RentInstance(w)
  <2>0. work[w].pc = "rent"
    BY <1>9 DEF RentInstance
  <2>1. \/ work' = [work EXCEPT ![w].pc = "destroy", ![w].out = "error"]
        \/ \E i \in Instances : work' = [work EXCEPT ![w].pc = "ref", ![w].inst = i]
    BY <1>9 DEF RentInstance
  <2>2. work'[w].pc \in {"destroy", "ref"} /\ work'[w].polls = work[w].polls
    BY SMTT(30), <2>1 DEF TypeOK
  <2> QED
    BY <2>0, <2>2
<1>10. CASE WatchStatus(w)
  <2>0. work[w].pc = "poll"
    BY <1>10 DEF WatchStatus
  <2>1. CASE \E out : Finish(w, out)
    <3>1. work'[w].pc = "destroy" /\ work'[w].polls = work[w].polls
      BY <2>1, <1>e DEF Finish
    <3> QED
      BY <2>0, <3>1
  <2>2. CASE Goto(w, "poll", "probe") /\ work[w].polls < MaxPolls
    <3>1. work'[w].pc = "probe" /\ work'[w].polls = work[w].polls
      BY <2>2, <1>g
    <3> QED
      BY <2>0, <2>2, <3>1
  <2>3. \/ \E out : Finish(w, out)
        \/ Goto(w, "poll", "probe") /\ work[w].polls < MaxPolls
    <3>1. work[w].polls \in Nat /\ MaxPolls \in Nat
      BY ConstantsOK DEF TypeOK
    <3>2. ~(work[w].polls >= MaxPolls) <=> work[w].polls < MaxPolls
      BY <3>1
    <3> QED
      BY <1>10, <3>2 DEF WatchStatus
  <2> QED
    BY <2>1, <2>2, <2>3
<1>11. CASE WatchInstance(w)
  <2>0. work[w].pc = "probe"
    BY <1>11 DEF WatchInstance
  <2>1. \/ Finish(w, "error")
        \/ \E d : work' = [work EXCEPT ![w].pc = "poll", ![w].dead = d, ![w].polls = @ + 1]
    BY <1>11 DEF WatchInstance
  <2>2. CASE Finish(w, "error")
    <3>1. work'[w].pc = "destroy" /\ work'[w].polls = work[w].polls
      BY <2>2, <1>e DEF Finish
    <3> QED
      BY <2>0, <3>1
  <2>3. ASSUME NEW d, work' = [work EXCEPT ![w].pc = "poll", ![w].dead = d, ![w].polls = @ + 1]
        PROVE  Moves(w)
    <3>1. work'[w].pc = "poll" /\ work'[w].polls = work[w].polls + 1
      BY <2>3 DEF TypeOK
    <3> QED
      BY <2>0, <3>1
  <2> QED
    BY <2>1, <2>2, <2>3
<1>12. CASE DestroyInstance(w)
  <2>1. work[w].pc = "destroy" /\ work'[w].pc = "revoke" /\ work'[w].polls = work[w].polls
    BY <1>12 DEF DestroyInstance, TypeOK
  <2> QED
    BY <2>1
<1>13. CASE RevokeToken(w)
  <2>1. /\ work[w].pc = "revoke"
        /\ \/ work'[w] = Idle
           \/ work'[w].pc \in {"select", "fail"} /\ work'[w].polls = work[w].polls
    BY <1>13 DEF RevokeToken, TypeOK
  <2> QED
    BY <2>1
<1>14. CASE SelectModel(w)
  <2>1. /\ work[w].pc = "select" /\ work'[w].pc \in {"insert", "complete"}
        /\ work'[w].polls = work[w].polls
    BY <1>14, <1>g DEF SelectModel
  <2> QED
    BY <2>1
<1>15. CASE Raise(w)
  <2>1. /\ work'[w].polls = work[w].polls
        /\ \/ work[w].pc \in InTry /\ work'[w].pc = "destroy"
           \/ work[w].pc \notin InTry /\ work'[w].pc = "fail"
    BY <1>15 DEF Raise, TypeOK
  <2>2. work[w].pc \in BeforeTry \cup InTry \cup {"select", "insert", "complete"}
    BY <1>15 DEF Raise
  <2> QED
    BY <2>1, <2>2
<1> QED
  BY <1>1, <1>2, <1>3, <1>4, <1>5, <1>6, <1>7, <1>8, <1>9, <1>10, <1>11, <1>12, <1>13, <1>14,
     <1>15 DEF Work, Take

\* StepsLeft, point by point.
LEMMA StepsLeftAt ==
  ASSUME NEW v
  PROVE  /\ v.pc = "idle" => StepsLeft(v) = 0
         /\ v.pc = "retry" => StepsLeft(v) = 1
         /\ v.pc = "edge" => StepsLeft(v) = 3
         /\ v.pc = "fail" => StepsLeft(v) = 2
         /\ v.pc = "complete" => StepsLeft(v) = 3
         /\ v.pc = "insert" => StepsLeft(v) = 4
         /\ v.pc = "select" => StepsLeft(v) = 5
         /\ v.pc = "revoke" => StepsLeft(v) = 6
         /\ v.pc = "destroy" => StepsLeft(v) = 7
         /\ v.pc = "local" => StepsLeft(v) = 6 + (MaxPolls - v.polls)
         /\ v.pc = "probe" => StepsLeft(v) = 8 + 2 * (MaxPolls - v.polls)
         /\ v.pc = "poll" => StepsLeft(v) = 9 + 2 * (MaxPolls - v.polls)
         /\ v.pc = "hub" => StepsLeft(v) = 7 + MaxPolls + (MaxPolls - v.polls)
         /\ v.pc = "announceRented" => StepsLeft(v) = 10 + 2 * MaxPolls
         /\ v.pc = "ref" => StepsLeft(v) = 11 + 2 * MaxPolls
         /\ v.pc = "rent" => StepsLeft(v) = 12 + 2 * MaxPolls
         /\ v.pc = "recheck" => StepsLeft(v) = 13 + 2 * MaxPolls
         /\ v.pc = "announce" => StepsLeft(v) = 14 + 2 * MaxPolls
         /\ v.pc = "upload" => StepsLeft(v) = 15 + 2 * MaxPolls
         /\ v.pc = "token" => StepsLeft(v) = 16 + 2 * MaxPolls
         /\ v.pc = "route" => StepsLeft(v) = 17 + 2 * MaxPolls
         /\ v.pc = "start" => StepsLeft(v) = 18 + 2 * MaxPolls
  BY DEF StepsLeft

\* A move leaves fewer steps, and the polls within the deadlines.
LEMMA MoveCosts ==
  ASSUME TypeOK, PollsInv, NEW w \in Workers, work[w].pc # "idle", Moves(w),
         work'[w].pc \in Points, work'[w].polls \in Nat
  PROVE  StepsLeft(work'[w]) < StepsLeft(work[w])
<1>1. /\ work[w].pc \in Points /\ work[w].polls \in Nat /\ MaxPolls \in Nat
  BY ConstantsOK DEF TypeOK
<1>2. CASE work'[w] = Idle
  <2>1. StepsLeft(work'[w]) = 0
    BY <1>2, StepsLeftAt DEF Idle
  <2> QED
    BY SMTT(30), <1>1, <2>1, StepsLeftAt, PointNames DEF PollsInv
<1>3. CASE work'[w] # Idle
  BY SMTT(30), <1>1, <1>3, StepsLeftAt, PointNames DEF PollsInv, Moves, BeforeTry, InTry
<1> QED
  BY <1>2, <1>3

\* What PollsInv says of one execution.
PollsOK(v) ==
  /\ v.pc \in (BeforeTry \ {"hub", "local"}) \cup {"ref", "announceRented"} => v.polls = 0
  /\ v.pc \in {"hub", "local", "poll"} => v.polls <= MaxPolls
  /\ v.pc = "probe" => v.polls < MaxPolls

\* A move keeps the polls within the deadlines.
LEMMA MovePolls ==
  ASSUME TypeOK, PollsInv, NEW w \in Workers, work[w].pc # "idle", Moves(w)
  PROVE  PollsOK(work'[w])
<1>1. /\ work[w].pc \in Points /\ work[w].polls \in Nat /\ MaxPolls \in Nat
  BY ConstantsOK DEF TypeOK
<1>2. CASE work'[w] = Idle
  BY <1>2 DEF Idle, PollsOK, BeforeTry
<1>3. CASE work'[w] # Idle
  BY SMTT(30), <1>1, <1>3, PointNames DEF PollsInv, PollsOK, Moves, BeforeTry, InTry
<1> QED
  BY <1>2, <1>3

\* The other actions take an execution up, drop it or leave it.
LEMMA ExecutionSteps ==
  ASSUME TypeOK, [Next]_vars, NEW x \in Workers
  PROVE  \/ work'[x] = work[x]
         \/ Work(x) /\ ~Take(x)
         \/ Take(x) /\ work[x].pc = "idle" /\ work'[x].pc = "start" /\ work'[x].polls = 0
         \/ Crash(x) /\ work[x].pc # "idle" /\ work'[x] = Idle
<1>1. CASE Create \/ Remote \/ Stop \/ Bridge \/ UNCHANGED vars
  <2>1. work' = work
    <3>1. CASE Create \/ Bridge \/ UNCHANGED vars
      BY <3>1 DEF Create, CreatorIssuesToken, CreatorPosts, CreatorFallsBack, Bridge,
         ServicePublishes, BridgeSelects, BridgeInserts, BridgeFails, OnlyBridge, vars
    <3>2. CASE Remote \/ Stop
      BY <3>2 DEF Remote, InstanceDies, PostCallback, ServicePosts, CheckToken, LosePost,
         ApplyCallback, OnlyPosts, Stop, StopJob, StopRevokes, StopDestroys
    <3> QED
      BY <1>1, <3>1, <3>2
  <2> QED
    BY <2>1
<1>2. ASSUME NEW w \in Workers, Work(w) \/ Crash(w) \/ Redeliver(w), w # x
      PROVE  work'[x] = work[x]
  BY <1>2, OtherExecutions
<1>3. CASE Take(x)
  <2>1. PICK r \in 0..MaxRetries : work' = [work EXCEPT ![x] = [Idle EXCEPT !.pc = "start", !.try = r]]
    BY <1>3 DEF Take
  <2>2. work'[x] = [Idle EXCEPT !.pc = "start", !.try = r]
    BY <2>1 DEF TypeOK
  <2>3. work'[x].pc = "start" /\ work'[x].polls = 0
    BY <2>2 DEF Idle
  <2>4. work[x].pc = "idle"
    BY <1>3 DEF Take
  <2> QED
    BY <1>3, <2>3, <2>4
<1>4. CASE Crash(x)
  BY <1>4 DEF Crash, TypeOK
<1>5. CASE Redeliver(x)
  BY <1>5 DEF Redeliver
<1> QED
  BY <1>1, <1>2, <1>3, <1>4, <1>5 DEF Next

\* PollsInv is inductive.
LEMMA PollsInvStep == TypeOK /\ PollsInv /\ [Next]_vars => PollsInv'
<1> SUFFICES ASSUME TypeOK, PollsInv, [Next]_vars, NEW x \in Workers
             PROVE  PollsOK(work'[x])
  BY DEF PollsInv, PollsOK
<1>1. CASE work'[x] = work[x]
  BY <1>1 DEF PollsInv, PollsOK
<1>2. CASE Work(x) /\ ~Take(x)
  <2>1. CASE work[x].pc # "idle"
    BY <1>2, <2>1, WorkerMoves, MovePolls
  <2>2. CASE work[x].pc = "idle"
    BY ZenonT(60), <1>2, <2>2 DEF Work, Announce, Goto, Route, DispatchEdge, Simulate, DispatchHub,
       PollHub, IssueToken, UploadDataset, Recheck, RentInstance, RecordInstance, WatchStatus,
       WatchInstance, DestroyInstance, RevokeToken, SelectModel, InsertModel, CompleteJob,
       FailJob, Retry, Raise, BeforeTry, InTry
  <2> QED
    BY <2>1, <2>2
<1>3. CASE Take(x) /\ work'[x].pc = "start" /\ work'[x].polls = 0
  BY <1>3 DEF PollsOK
<1>4. CASE work'[x] = Idle
  BY <1>4 DEF Idle, PollsOK, BeforeTry
<1> QED
  BY <1>1, <1>2, <1>3, <1>4, ExecutionSteps

\* Executions end for any number of workers, machines and polls: the watchdog's
\* deadline, the hub's and the simulation's count every round.
THEOREM ExecutionsEnd == Spec => StepsRunOut /\ []StepsBounded
<1>1. Init => PollsInv
  BY ConstantsOK DEF Init, Idle, PollsInv, BeforeTry
<1>2. TypeOK /\ PollsInv /\ [Next]_vars => PollsInv'
  BY PollsInvStep
<1>3. TypeOK /\ PollsInv => StepsBounded
  <2> SUFFICES ASSUME TypeOK, PollsInv, NEW w \in Workers
               PROVE  StepsLeft(work[w]) \in 0..(2 * MaxPolls + 18)
    BY DEF StepsBounded
  <2>1. work[w].pc \in Points /\ work[w].polls \in Nat /\ MaxPolls \in Nat
    BY ConstantsOK DEF TypeOK
  <2> QED
    BY SMTT(30), <2>1, StepsLeftAt, PointNames DEF PollsInv, BeforeTry
<1>4. TypeOK /\ TypeOK' /\ PollsInv /\ [Next]_vars =>
        \A w \in Workers : work[w].pc # "idle" =>
          /\ Work(w) => StepsLeft(work'[w]) < StepsLeft(work[w])
          /\ work'[w] # work[w] => StepsLeft(work'[w]) < StepsLeft(work[w])
  <2> SUFFICES ASSUME TypeOK, TypeOK', PollsInv, [Next]_vars, NEW w \in Workers,
                      work[w].pc # "idle"
               PROVE  /\ Work(w) => StepsLeft(work'[w]) < StepsLeft(work[w])
                      /\ work'[w] # work[w] => StepsLeft(work'[w]) < StepsLeft(work[w])
    OBVIOUS
  <2>1. work'[w].pc \in Points /\ work'[w].polls \in Nat
    BY DEF TypeOK
  <2>2. Work(w) => StepsLeft(work'[w]) < StepsLeft(work[w])
    BY <2>1, WorkerMoves, MoveCosts
  <2>3. CASE Crash(w) /\ work'[w] = Idle
    BY <2>1, <2>3, MoveCosts DEF Moves
  <2> QED
    BY <2>2, <2>3, ExecutionSteps
<1> QED
  BY TypeCorrect, <1>1, <1>2, <1>3, <1>4, PTL DEF Spec, StepsRunOut

-----------------------------------------------------------------------------
(* No machine has two masters.                                             *)

\* However often a message is delivered, no two executions hold the same
\* machine: neither can destroy, or watch, what the other one trains on.
Unshared ==
  \A w, x \in Workers : work[w].inst = work[x].inst /\ work[w].inst # NoInstance => w = x

\* An execution comes to a machine only by renting a free one.
LEMMA HoldersRent ==
  ASSUME TypeOK, [Next]_vars, NEW x \in Workers
  PROVE  \/ work'[x].inst \in {NoInstance, work[x].inst}
         \/ /\ work'[x].inst \in Instances /\ inst[work'[x].inst].state = "free"
            /\ \A y \in Workers \ {x} : work'[y] = work[y]
<1>1. CASE work'[x] = work[x]
  BY <1>1
<1>2. CASE work'[x] = Idle
  BY <1>2 DEF Idle
<1>3. CASE Take(x)
  <2>1. PICK r \in 0..MaxRetries : work' = [work EXCEPT ![x] = [Idle EXCEPT !.pc = "start", !.try = r]]
    BY <1>3 DEF Take
  <2>2. work'[x] = [Idle EXCEPT !.pc = "start", !.try = r]
    BY <2>1 DEF TypeOK
  <2> QED
    BY <2>2 DEF Idle
<1>4. CASE Work(x) /\ ~Take(x)
  <2>0. \A y \in Workers \ {x} : work'[y] = work[y]
    BY <1>4, OtherExecutions
  <2>1. CASE IssueToken(x)
    <3>1. work'[x].inst = work[x].inst
      BY <2>1 DEF IssueToken, TypeOK
    <3> QED
      BY <3>1
  <2>2. CASE RentInstance(x)
    <3>1. CASE work' = [work EXCEPT ![x].pc = "destroy", ![x].out = "error"]
      <4>1. work'[x].inst = work[x].inst
        BY <3>1 DEF TypeOK
      <4> QED
        BY <4>1
    <3>2. ASSUME NEW i \in Instances, inst[i].state = "free",
                 work' = [work EXCEPT ![x].pc = "ref", ![x].inst = i]
          PROVE  work'[x].inst \in Instances /\ inst[work'[x].inst].state = "free"
      <4>1. work'[x].inst = i
        BY <3>2 DEF TypeOK
      <4> QED
        BY <3>2, <4>1
    <3> QED
      BY <2>0, <2>2, <3>1, <3>2 DEF RentInstance
  <2>3. CASE ~IssueToken(x) /\ ~RentInstance(x)
    <3>1. CASE work[x].pc # "rent"
      BY <1>4, <2>3, <3>1, ExecutionContinues DEF Continues
    <3>2. CASE work[x].pc = "rent"
      <4>1. Raise(x)
        BY ZenonT(60), <1>4, <2>3, <3>2 DEF Work, Announce, Goto, Route, DispatchEdge, Simulate,
           DispatchHub, PollHub, UploadDataset, Recheck, RecordInstance, WatchStatus,
           WatchInstance, DestroyInstance, RevokeToken, SelectModel, InsertModel, CompleteJob,
           FailJob, Retry
      <4>2. work'[x].inst = work[x].inst
        BY <4>1 DEF Raise, TypeOK
      <4> QED
        BY <4>2
    <3> QED
      BY <3>1, <3>2
  <2> QED
    BY <2>1, <2>2, <2>3
<1> QED
  BY <1>1, <1>2, <1>3, <1>4, ExecutionSteps

\* The machines of executions stay apart.
LEMMA UnsharedStep == TypeOK /\ TypeOK' /\ RefInv /\ Unshared /\ [Next]_vars => Unshared'
<1> SUFFICES ASSUME TypeOK, TypeOK', RefInv, Unshared, [Next]_vars,
                    NEW w \in Workers, NEW x \in Workers,
                    work'[w].inst = work'[x].inst, work'[w].inst # NoInstance
             PROVE  w = x
  BY DEF Unshared
<1>1. ASSUME NEW i \in Instances, NEW y \in Workers, work[y].inst = i
      PROVE  inst[i].state # "free"
  BY <1>1 DEF RefInv, Referenced
<1>2. CASE work'[w].inst = work[w].inst /\ work'[x].inst = work[x].inst
  BY <1>2 DEF Unshared
<1>3. ASSUME NEW y \in Workers, NEW z \in Workers, y # z,
             work'[y].inst \in Instances, inst[work'[y].inst].state = "free",
             \A v \in Workers \ {y} : work'[v] = work[v]
      PROVE  work'[z].inst # work'[y].inst
  BY <1>1, <1>3
<1> QED
  BY <1>2, <1>3, HoldersRent

\* Whatever is redelivered while it still runs, no machine has two masters.
THEOREM MachinesUnshared == Spec => []Unshared
<1>1. Init => RefInv /\ Unshared
  BY ConstantsOK DEF Init, Idle, RefInv, Referenced, Unshared
<1>2. TypeOK /\ TypeOK' /\ RefInv /\ Unshared /\ [Next]_vars => RefInv' /\ Unshared'
  BY RefInvStep, UnsharedStep
<1> QED
  BY TypeCorrect, <1>1, <1>2, PTL DEF Spec

-----------------------------------------------------------------------------
(* What a stopped job can still cost.                                      *)

AtRental == {w \in Workers : work[w].pc = "rent"}

\* From a settled stop on no further execution comes to the rental: the job can
\* rent no more machines than had passed their look at the status by then, and
\* each of these goes to the rental once.
NoNewRentals == [][StopSettled => StopSettled' /\ AtRental' \subseteq AtRental]_vars

\* A stop caps the cost of its job, whatever is retried or delivered again.
THEOREM StopCapsRentals == Spec => NoNewRentals
<1>1. TypeOK /\ StopSettled /\ [Next]_vars => AtRental' \subseteq AtRental
  <2> SUFFICES ASSUME TypeOK, status = "stopped", [Next]_vars, NEW w \in Workers,
                      work'[w].pc = "rent"
               PROVE  work[w].pc = "rent"
    BY DEF StopSettled, AtRental
  <2>1. CASE Take(w) /\ work'[w].pc = "start"
    BY <2>1
  <2>2. CASE IssueToken(w)
    <3>1. work'[w].pc = "upload"
      BY <2>2 DEF IssueToken, TypeOK
    <3> QED
      BY <3>1
  <2>3. CASE Work(w) /\ ~Take(w) /\ ~IssueToken(w)
    BY <2>3, ExecutionContinues DEF Continues
  <2>4. CASE work'[w] = Idle
    BY <2>4 DEF Idle
  <2> QED
    BY <2>1, <2>2, <2>3, <2>4, ExecutionSteps
<1> QED
  BY TypeCorrect, StopsStay, <1>1, PTL DEF Spec, StopFinal, NoNewRentals

===============================================================================
