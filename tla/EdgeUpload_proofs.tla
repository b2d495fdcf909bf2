-------------------------- MODULE EdgeUpload_proofs --------------------------
(* Proofs about EdgeUpload, for every value of its constants. *)
EXTENDS EdgeUpload, FiniteSetTheorems, WellFoundedInduction, TLAPS

\* What a request carries: known events, of which those it has dealt with are
\* in the cloud; it has answered 200 only when it has dealt with all of them.
RequestInv ==
  \A r \in Requests : req[r].pc # "free" =>
    /\ req[r].todo \subseteq req[r].ids
    /\ req[r].ids \subseteq Enqueued
    /\ req[r].ids \ req[r].todo \subseteq Ingested
    /\ req[r].pc = "ok" => req[r].todo = {}

\* What the uploader holds: the batch of the request it waits for, and nothing
\* to mark as sent that the cloud does not have.
UploaderInv ==
  /\ up.ids \subseteq Enqueued
  /\ up.pc = "wait" => /\ up.req \in Requests
                       /\ req[up.req].pc # "free"
                       /\ req[up.req].ids = up.ids
  /\ up.pc # "wait" => up.req = NoRequest
  /\ up.pc = "mark" => up.ids \subseteq Ingested

SentInv == sent \subseteq Ingested /\ purged \subseteq sent /\ Ingested \subseteq Enqueued

IInv == TypeOK /\ RequestInv /\ UploaderInv /\ SentInv

\* The initial states satisfy the inductive invariant.
LEMMA InitIInv == Init => IInv
  BY ConstantsOK DEF Init, IInv, TypeOK, RequestInv, UploaderInv, SentInv,
     Enqueued, Ingested, Events, IdleUploader, FreeRequest

RequestType == [pc : {"free", "ingest", "ok", "error"}, ids : SUBSET Events,
                todo : SUBSET Events, att : [Events -> 0..MaxAttempts]]

\* A free request is a request.
LEMMA FreeRequestType == FreeRequest \in RequestType
  BY ConstantsOK DEF FreeRequest, RequestType

\* Replacing one request by another keeps the type of req.
LEMMA RequestUpdate ==
  ASSUME NEW r, NEW v \in RequestType, req \in [Requests -> RequestType],
         req' = [req EXCEPT ![r] = v]
  PROVE  req' \in [Requests -> RequestType]
  OBVIOUS

\* Every step keeps the types.
LEMMA TypeStep == TypeOK /\ [Next]_vars => TypeOK'
<1> SUFFICES ASSUME TypeOK, [Next]_vars PROVE TypeOK'
  OBVIOUS
<1> USE ConstantsOK
<1>1. CASE Enqueue
  BY <1>1 DEF Enqueue, TypeOK, Events
<1>2. CASE PurgeOld
  BY <1>2 DEF PurgeOld, TypeOK
<1>3. CASE SendBatch
  <2>1. PICK B \in SUBSET Unsent, r \in Requests :
          /\ req' = [req EXCEPT ![r] = [pc |-> "ingest", ids |-> B, todo |-> B,
                                        att |-> attempts]]
          /\ up' = [pc |-> "wait", ids |-> B, req |-> r]
    BY <1>3 DEF SendBatch
  <2>2. B \subseteq Events
    BY DEF Unsent, Enqueued
  <2> QED
    BY <1>3, <2>1, <2>2 DEF SendBatch, TypeOK, buffer
<1>4. CASE Answer
  <2>1. req' \in [Requests -> RequestType]
    BY <1>4, FreeRequestType, RequestUpdate DEF Answer, TypeOK, RequestType
  <2>2. up' \in [pc : {"loop", "wait", "mark", "failed"}, ids : SUBSET Events,
                 req : Requests \cup {NoRequest}]
    BY <1>4 DEF Answer, TypeOK
  <2> QED
    BY <1>4, <2>1, <2>2 DEF Answer, TypeOK, buffer, RequestType
<1>5. CASE MarkSent
  BY <1>5 DEF MarkSent, TypeOK, IdleUploader
<1>6. CASE MarkFailed
  <2>1. \A e \in Events : Least(attempts[e] + 1, MaxAttempts) \in 0..MaxAttempts
    BY DEF TypeOK, Least
  <2>2. Least(backoff + 1, MaxBackoff) \in 0..MaxBackoff
    BY DEF TypeOK, Least
  <2> QED
    BY <1>6, <2>1, <2>2 DEF MarkFailed, TypeOK, IdleUploader
<1>7. CASE Timeout
  BY <1>7 DEF Timeout, TypeOK, buffer
<1>8. CASE MarkSentRaises
  BY <1>8 DEF MarkSentRaises, TypeOK, buffer
<1>9. CASE Restart
  BY <1>9 DEF Restart, TypeOK, buffer, IdleUploader
<1>10. ASSUME NEW r \in Requests, IngestEvent(r) PROVE TypeOK'
  <2>1. PICK e \in req[r].todo \ Poison :
          /\ cloud' = cloud \cup {DedupKey(r, e)}
          /\ req' = [req EXCEPT ![r].todo = @ \ {e}]
    BY <1>10 DEF IngestEvent
  <2>2. DedupKey(r, e) \in [batch : SUBSET Events, id : Events, attempts : 0..MaxAttempts]
    BY DEF DedupKey, TypeOK
  <2>3. req[r] \in RequestType
    BY DEF TypeOK, RequestType
  <2>4. [req[r] EXCEPT !.todo = @ \ {e}] \in RequestType
    BY <2>3 DEF RequestType
  <2>5. req' \in [Requests -> RequestType]
    BY <2>1, <2>4, RequestUpdate DEF TypeOK, RequestType
  <2> QED
    BY <1>10, <2>1, <2>2, <2>5 DEF IngestEvent, TypeOK, buffer, RequestType
<1>11. ASSUME NEW r \in Requests, IngestDone(r) \/ IngestFails(r) PROVE TypeOK'
  <2>1. PICK s \in {"ok", "error"} : req' = [req EXCEPT ![r].pc = s]
    BY <1>11 DEF IngestDone, IngestFails
  <2>2. req[r] \in RequestType
    BY DEF TypeOK, RequestType
  <2>3. [req[r] EXCEPT !.pc = s] \in RequestType
    BY <2>2 DEF RequestType
  <2>4. req' \in [Requests -> RequestType]
    BY <2>1, <2>3, RequestUpdate DEF TypeOK, RequestType
  <2> QED
    BY <1>11, <2>4 DEF IngestDone, IngestFails, TypeOK, buffer, RequestType
<1>12. ASSUME NEW r \in Requests, Vanish(r) PROVE TypeOK'
  BY <1>12 DEF Vanish, TypeOK, buffer, FreeRequest
<1>13. CASE UNCHANGED vars
  BY <1>13 DEF vars, buffer, TypeOK
<1> QED
  BY <1>1, <1>2, <1>3, <1>4, <1>5, <1>6, <1>7, <1>8, <1>9, <1>10, <1>11, <1>12, <1>13
  DEF Next, Upload, Ingest

\* Every step keeps what is known of requests, uploader and sent events.
LEMMA IInvStep == IInv /\ [Next]_vars => IInv'
<1> SUFFICES ASSUME IInv, [Next]_vars PROVE IInv'
  OBVIOUS
<1> USE ConstantsOK
<1>0. TypeOK'
  BY TypeStep DEF IInv
<1>1. CASE Enqueue
  <2>1. Enqueued \subseteq Enqueued'
    BY <1>1 DEF Enqueue, Enqueued, IInv, TypeOK, Events
  <2>2. Ingested' = Ingested
    BY <1>1 DEF Enqueue, Ingested
  <2> QED
    BY <1>0, <1>1, <2>1, <2>2 DEF Enqueue, IInv, RequestInv, UploaderInv, SentInv
<1>2. CASE PurgeOld
  BY <1>0, <1>2 DEF PurgeOld, IInv, RequestInv, UploaderInv, SentInv, Enqueued, Ingested
<1>3. CASE SendBatch
  <2>1. PICK B \in SUBSET Unsent, r \in Requests :
          /\ req[r].pc = "free"
          /\ req' = [req EXCEPT ![r] = [pc |-> "ingest", ids |-> B, todo |-> B,
                                        att |-> attempts]]
          /\ up' = [pc |-> "wait", ids |-> B, req |-> r]
    BY <1>3 DEF SendBatch
  <2>2. B \subseteq Enqueued
    BY DEF Unsent
  <2>3. Enqueued' = Enqueued /\ Ingested' = Ingested /\ UNCHANGED <<sent, purged>>
    BY <1>3 DEF SendBatch, Enqueued, Ingested, buffer
  <2>4. req'[r] = [pc |-> "ingest", ids |-> B, todo |-> B, att |-> attempts]
    BY <2>1 DEF IInv, TypeOK
  <2>5. RequestInv'
    BY <2>1, <2>2, <2>3, <2>4 DEF IInv, RequestInv, TypeOK
  <2>6. UploaderInv'
    BY <2>1, <2>2, <2>3, <2>4 DEF UploaderInv
  <2> QED
    BY <1>0, <2>3, <2>5, <2>6 DEF IInv, SentInv
<1>4. CASE Answer
  <2>1. up.req \in Requests /\ req[up.req].ids = up.ids /\ NoRequest \notin Requests
    BY <1>4 DEF Answer, IInv, UploaderInv
  <2>2. Enqueued' = Enqueued /\ Ingested' = Ingested /\ UNCHANGED <<sent, purged>>
    BY <1>4 DEF Answer, Enqueued, Ingested, buffer
  <2>3. up'.ids = up.ids /\ up'.req = NoRequest
        /\ up'.pc = IF req[up.req].pc = "ok" THEN "mark" ELSE "failed"
    BY <1>4 DEF Answer, IInv, TypeOK
  <2>4. RequestInv'
    BY <1>4, <2>1, <2>2 DEF Answer, FreeRequest, IInv, RequestInv, TypeOK
  <2>5. req[up.req].pc = "ok" => up.ids \subseteq Ingested
    BY <2>1 DEF IInv, RequestInv
  <2>6. UploaderInv'
    BY <2>2, <2>3, <2>5 DEF IInv, UploaderInv
  <2> QED
    BY <1>0, <2>2, <2>4, <2>6 DEF IInv, SentInv
<1>5. CASE MarkSent
  BY <1>0, <1>5 DEF MarkSent, IdleUploader, IInv, RequestInv, UploaderInv, SentInv,
     Enqueued, Ingested
<1>6. CASE MarkFailed
  BY <1>0, <1>6 DEF MarkFailed, IdleUploader, IInv, RequestInv, UploaderInv, SentInv,
     Enqueued, Ingested
<1>7. CASE Timeout \/ MarkSentRaises
  <2>1. up'.ids = up.ids /\ up'.pc = "failed" /\ up'.req = NoRequest
    BY <1>7 DEF Timeout, MarkSentRaises, IInv, TypeOK, UploaderInv
  <2> QED
    BY <1>0, <1>7, <2>1 DEF Timeout, MarkSentRaises, IInv, RequestInv, UploaderInv,
       SentInv, Enqueued, Ingested, buffer
<1>8. CASE Restart
  BY <1>0, <1>8 DEF Restart, IdleUploader, IInv, RequestInv, UploaderInv, SentInv,
     Enqueued, Ingested, buffer
<1>9. ASSUME NEW r \in Requests, IngestEvent(r) PROVE IInv'
  <2>1. PICK e \in req[r].todo \ Poison :
          /\ cloud' = cloud \cup {DedupKey(r, e)}
          /\ req' = [req EXCEPT ![r].todo = @ \ {e}]
    BY <1>9 DEF IngestEvent
  <2>2. req[r].pc = "ingest" /\ UNCHANGED <<next, sent, purged, up>>
    BY <1>9 DEF IngestEvent, buffer
  <2>3. Ingested' = Ingested \cup {e} /\ Enqueued' = Enqueued
    <3>1. DedupKey(r, e).id = e
      BY DEF DedupKey
    <3>2. Ingested' = Ingested \cup {e}
      BY <2>1, <3>1 DEF Ingested
    <3> QED
      BY <2>2, <3>2 DEF Enqueued
  <2>4. e \in Enqueued
    BY <2>1, <2>2 DEF IInv, RequestInv
  <2>5. \A q \in Requests : /\ req'[q].pc = req[q].pc /\ req'[q].ids = req[q].ids
                            /\ req'[q].todo = IF q = r THEN req[q].todo \ {e}
                                                       ELSE req[q].todo
    BY <2>1 DEF IInv, TypeOK
  <2>6. RequestInv'
    BY <2>2, <2>3, <2>5 DEF IInv, RequestInv
  <2>7. UploaderInv'
    BY <2>2, <2>3, <2>5 DEF IInv, UploaderInv
  <2> QED
    BY <1>0, <2>2, <2>3, <2>4, <2>6, <2>7 DEF IInv, SentInv
<1>10. ASSUME NEW r \in Requests, IngestDone(r) \/ IngestFails(r) PROVE IInv'
  <2>1. req[r].pc = "ingest" /\ UNCHANGED <<next, sent, purged, up, cloud>>
    BY <1>10 DEF IngestDone, IngestFails, buffer
  <2>2. \A q \in Requests :
          /\ req'[q].ids = req[q].ids /\ req'[q].todo = req[q].todo
          /\ (req'[q].pc # "free") <=> (req[q].pc # "free")
          /\ req'[q].pc = "ok" => (req[q].pc = "ok" \/ req[q].todo = {})
    <3>1. CASE IngestDone(r)
      BY <3>1 DEF IngestDone, IInv, TypeOK
    <3>2. CASE IngestFails(r)
      BY <3>2 DEF IngestFails, IInv, TypeOK
    <3> QED
      BY <1>10, <3>1, <3>2
  <2> QED
    BY <1>0, <2>1, <2>2 DEF IInv, RequestInv, UploaderInv, SentInv, Enqueued, Ingested
<1>11. ASSUME NEW r \in Requests, Vanish(r) PROVE IInv'
  <2>1. up.req # r /\ UNCHANGED <<next, sent, purged, up, cloud>>
    BY <1>11 DEF Vanish, buffer
  <2>2. \A q \in Requests : IF q = r THEN req'[q].pc = "free" ELSE req'[q] = req[q]
    BY <1>11 DEF Vanish, FreeRequest, IInv, TypeOK
  <2> QED
    BY <1>0, <2>1, <2>2 DEF IInv, RequestInv, UploaderInv, SentInv, Enqueued, Ingested
<1>12. CASE UNCHANGED vars
  BY <1>12 DEF vars, buffer, IInv, TypeOK, RequestInv, UploaderInv, SentInv,
     Enqueued, Ingested
<1> QED
  BY <1>1, <1>2, <1>3, <1>4, <1>5, <1>6, <1>7, <1>8, <1>9, <1>10, <1>11, <1>12
  DEF Next, Upload, Ingest

\* The inductive invariant holds in every reachable state.
THEOREM Invariance == Spec => []IInv
  BY InitIInv, IInvStep, PTL DEF Spec

\* Type correctness of the buffer, the uploader, the requests and the cloud.
THEOREM TypeCorrect == Spec => []TypeOK
<1>1. IInv => TypeOK
  BY DEF IInv
<1> QED
  BY Invariance, <1>1, PTL

-----------------------------------------------------------------------------
(* Delivery in order.                                                      *)

\* A batch is cut from the front of the queue: what is older than an event of
\* a request is in the same request, or in the cloud already.
FrontInv ==
  \A r \in Requests : req[r].pc # "free" =>
    \A f \in req[r].ids, e \in Enqueued :
      e < f /\ Before(e, f) => e \in req[r].ids \/ e \in Ingested

OInv == IInv /\ FrontInv /\ OldestFirst

\* Two events are never each before the other.
LEMMA BeforeAsymmetric ==
  ASSUME TypeOK, NEW e \in Events, NEW f \in Events, Before(e, f)
  PROVE  ~ Before(f, e)
<1>1. stamp \in [Events -> Stamps \cup {0}]
  BY DEF TypeOK
<1>2. stamp[e] \in Int /\ stamp[f] \in Int
  <2>1. Stamps \cup {0} \subseteq Int
    BY ConstantsOK
  <2>2. stamp[e] \in Stamps \cup {0} /\ stamp[f] \in Stamps \cup {0}
    BY <1>1
  <2> QED
    BY <2>1, <2>2
<1>3. e \in Int /\ f \in Int
  BY ConstantsOK DEF Events
<1> QED
  BY <1>2, <1>3 DEF Before

\* A step that leaves the events and the cloud alone, and only frees requests
\* or moves them on, keeps the order.
LEMMA OrderKept ==
  ASSUME FrontInv, OldestFirst, UNCHANGED <<next, stamp, cloud>>,
         \A q \in Requests : req'[q].pc # "free" =>
           req[q].pc # "free" /\ req'[q].ids = req[q].ids
  PROVE  FrontInv' /\ OldestFirst'
<1>1. Enqueued' = Enqueued /\ Ingested' = Ingested
  BY DEF Enqueued, Ingested
<1>2. \A e, f : Before(e, f)' <=> Before(e, f)
  BY DEF Before
<1> QED
  BY <1>1, <1>2 DEF FrontInv, OldestFirst

\* Every step keeps the order.
LEMMA OInvStep == OInv /\ IInv' /\ [Next]_vars => OInv'
<1> SUFFICES ASSUME OInv, IInv', [Next]_vars PROVE FrontInv' /\ OldestFirst'
  BY DEF OInv
<1> USE ConstantsOK DEF OInv
<1>1. CASE Enqueue
  <2>1. next \in Events /\ Ingested' = Ingested /\ req' = req
    BY <1>1 DEF Enqueue, Ingested
  <2>2. Enqueued' = Enqueued \cup {next} /\ next \notin Enqueued
    BY <1>1 DEF Enqueue, Enqueued, Events
  <2>3. \A e, f \in Enqueued : Before(e, f)' <=> Before(e, f)
    BY <1>1, <2>2 DEF Enqueue, Before, Enqueued, IInv, TypeOK
  <2>4. \A f \in Enqueued : ~ (next < f)
    BY <2>1 DEF Enqueued, Events
  <2>5. Ingested \subseteq Enqueued
    BY DEF IInv, SentInv
  <2>6. \A r \in Requests : req[r].pc # "free" => req[r].ids \subseteq Enqueued
    BY DEF IInv, RequestInv
  <2>7. FrontInv'
    BY <2>1, <2>2, <2>3, <2>4, <2>6 DEF FrontInv
  <2> QED
    BY <2>1, <2>2, <2>3, <2>4, <2>5, <2>7 DEF OldestFirst
<1>2. CASE SendBatch
  <2>1. PICK B \in SUBSET Unsent, r \in Requests :
          /\ IsBatch(B)
          /\ req' = [req EXCEPT ![r] = [pc |-> "ingest", ids |-> B, todo |-> B,
                                        att |-> attempts]]
    BY <1>2 DEF SendBatch
  <2>2. /\ Enqueued' = Enqueued /\ Ingested' = Ingested
        /\ \A e, f : Before(e, f)' <=> Before(e, f)
    BY <1>2 DEF SendBatch, buffer, Enqueued, Ingested, Before
  <2>3. req'[r].ids = B /\ \A q \in Requests \ {r} : req'[q] = req[q]
    BY <2>1 DEF IInv, TypeOK
  <2>4. ASSUME NEW f \in B, NEW e \in Enqueued, Before(e, f)
        PROVE  e \in B \/ e \in Ingested
    <3>1. e \in Events /\ f \in Events
      BY DEF Unsent, Enqueued
    <3>2. ~ Before(f, e)
      BY <2>4, <3>1, BeforeAsymmetric DEF IInv
    <3>3. e \notin Unsent \ B
      BY <2>1, <3>2 DEF IsBatch
    <3> QED
      BY <3>3 DEF Unsent, IInv, SentInv
  <2> QED
    BY <2>2, <2>3, <2>4 DEF FrontInv, OldestFirst
<1>3. ASSUME NEW r \in Requests, IngestEvent(r) PROVE FrontInv' /\ OldestFirst'
  <2>1. PICK f \in req[r].todo \ Poison :
          /\ \A g \in req[r].todo \ {f} : Before(f, g)
          /\ cloud' = cloud \cup {DedupKey(r, f)}
          /\ req' = [req EXCEPT ![r].todo = @ \ {f}]
    BY <1>3 DEF IngestEvent
  <2>2. /\ req[r].pc = "ingest" /\ Enqueued' = Enqueued
        /\ \A d, g : Before(d, g)' <=> Before(d, g)
    BY <1>3 DEF IngestEvent, buffer, Enqueued, Before
  <2>3. Ingested' = Ingested \cup {f}
    <3>1. DedupKey(r, f).id = f
      BY DEF DedupKey
    <3> QED
      BY <2>1, <3>1 DEF Ingested
  <2>4. \A q \in Requests : req'[q].pc = req[q].pc /\ req'[q].ids = req[q].ids
    BY <2>1 DEF IInv, TypeOK
  <2>5. FrontInv'
    BY <2>2, <2>3, <2>4 DEF FrontInv
  <2>6. f \in req[r].ids /\ req[r].todo \subseteq Events
    BY <2>1, <2>2 DEF IInv, RequestInv, TypeOK
  <2>7. ASSUME NEW e \in Enqueued, e < f, Before(e, f) PROVE e \in Ingested
    <3>1. e \in req[r].ids \/ e \in Ingested
      BY <2>2, <2>6, <2>7 DEF FrontInv
    <3>2. e # f
      BY <2>7 DEF Enqueued, Events
    <3>3. e \notin req[r].todo
      BY <2>1, <2>6, <2>7, <3>2, BeforeAsymmetric DEF IInv
    <3> QED
      BY <2>2, <3>1, <3>3 DEF IInv, RequestInv
  <2> QED
    BY <2>2, <2>3, <2>5, <2>7 DEF OldestFirst
<1>4. CASE Answer
  <2>1. up.req \in Requests
    BY <1>4 DEF Answer, IInv, UploaderInv
  <2>2. \A q \in Requests : IF q = up.req THEN req'[q].pc = "free" ELSE req'[q] = req[q]
    BY <1>4, <2>1 DEF Answer, FreeRequest, IInv, TypeOK
  <2> QED
    BY <1>4, <2>2, OrderKept DEF Answer, buffer
<1>5. ASSUME NEW r \in Requests, IngestDone(r) \/ IngestFails(r)
      PROVE  FrontInv' /\ OldestFirst'
  <2>1. PICK s \in {"ok", "error"} : req' = [req EXCEPT ![r].pc = s]
    BY <1>5 DEF IngestDone, IngestFails
  <2>2. req[r].pc = "ingest" /\ UNCHANGED <<next, stamp, cloud>>
    BY <1>5 DEF IngestDone, IngestFails, buffer
  <2>3. \A q \in Requests : req'[q].ids = req[q].ids /\ (q # r => req'[q] = req[q])
    BY <2>1 DEF IInv, TypeOK
  <2> QED
    BY <2>2, <2>3, OrderKept
<1>6. ASSUME NEW r \in Requests, Vanish(r) PROVE FrontInv' /\ OldestFirst'
  <2>1. \A q \in Requests : IF q = r THEN req'[q].pc = "free" ELSE req'[q] = req[q]
    BY <1>6 DEF Vanish, FreeRequest, IInv, TypeOK
  <2> QED
    BY <1>6, <2>1, OrderKept DEF Vanish, buffer
<1>7. CASE PurgeOld \/ MarkSent \/ MarkFailed \/ Timeout \/ MarkSentRaises \/ Restart
           \/ UNCHANGED vars
  <2>1. UNCHANGED <<next, stamp, cloud, req>>
    BY <1>7 DEF PurgeOld, MarkSent, MarkFailed, Timeout, MarkSentRaises, Restart,
       vars, buffer
  <2> QED
    BY <2>1, OrderKept
<1> QED
  BY <1>1, <1>2, <1>3, <1>4, <1>5, <1>6, <1>7 DEF Next, Upload, Ingest

\* Chronological delivery, through timeouts, retries and requests the agent has
\* given up on.
THEOREM InOrder == Spec => []OldestFirst
<1>1. Init => OInv
  <2>1. Init => FrontInv /\ OldestFirst
    BY DEF Init, FreeRequest, FrontInv, OldestFirst, Ingested
  <2> QED
    BY <2>1, InitIInv DEF OInv
<1>2. OInv => OldestFirst
  BY DEF OInv
<1> QED
  BY Invariance, OInvStep, <1>1, <1>2, PTL DEF Spec

-----------------------------------------------------------------------------
(* EdgeUpload implements DurableQueue.                                     *)

\* Every step of the buffer, the uploader and the cloud is a step of the
\* abstract queue or leaves it as it is.
LEMMA PromiseStep == IInv /\ [Next]_vars => [Promise!QNext]_(Promise!qvars)
<1> SUFFICES ASSUME IInv, [Next]_vars PROVE [Promise!QNext]_(Promise!qvars)
  OBVIOUS
<1> USE ConstantsOK
<1>1. CASE Enqueue
  <2>1. next \in Events /\ Ingested' = Ingested /\ sent' = sent
    BY <1>1 DEF Enqueue, Ingested
  <2>2. Enqueued' = Enqueued \cup {next} /\ next \notin Enqueued
    BY <1>1 DEF Enqueue, Enqueued, Events
  <2>3. next \notin sent
    BY <2>2 DEF IInv, SentInv
  <2>4. Unsent' = Unsent \cup {next}
    BY <2>1, <2>2, <2>3 DEF Unsent
  <2>5. Promise!Accept(next)
    BY <2>1, <2>2, <2>4 DEF Promise!Accept
  <2> QED
    BY <2>1, <2>5 DEF Promise!QNext
<1>2. CASE MarkSent
  <2>1. up.ids \subseteq Ingested /\ up.ids \subseteq Events
    BY <1>2 DEF MarkSent, IInv, UploaderInv, TypeOK
  <2>2. Enqueued' = Enqueued /\ Ingested' = Ingested /\ Unsent' = Unsent \ up.ids
    BY <1>2 DEF MarkSent, Enqueued, Ingested, Unsent
  <2>3. Promise!Settle(up.ids)
    BY <2>1, <2>2 DEF Promise!Settle
  <2> QED
    BY <2>1, <2>3 DEF Promise!QNext
<1>3. ASSUME NEW r \in Requests, IngestEvent(r) PROVE [Promise!QNext]_(Promise!qvars)
  <2>1. PICK e \in req[r].todo \ Poison : cloud' = cloud \cup {DedupKey(r, e)}
    BY <1>3 DEF IngestEvent
  <2>2. DedupKey(r, e).id = e
    BY DEF DedupKey
  <2>3. Ingested' = Ingested \cup {e}
    BY <2>1, <2>2 DEF Ingested
  <2>4. Enqueued' = Enqueued /\ Unsent' = Unsent
    BY <1>3 DEF IngestEvent, buffer, Enqueued, Unsent
  <2>5. e \in Enqueued /\ e \in Events
    BY <1>3, <2>1 DEF IngestEvent, IInv, RequestInv, Enqueued
  <2>6. Promise!Deliver(e)
    BY <2>3, <2>4, <2>5 DEF Promise!Deliver
  <2> QED
    BY <2>5, <2>6 DEF Promise!QNext
<1>4. CASE SendBatch \/ Answer \/ MarkFailed \/ PurgeOld \/ Timeout \/ MarkSentRaises
           \/ Restart \/ UNCHANGED vars
           \/ \E r \in Requests : IngestDone(r) \/ IngestFails(r) \/ Vanish(r)
  <2>1. UNCHANGED <<next, sent, cloud>>
    BY <1>4 DEF SendBatch, Answer, MarkFailed, PurgeOld, Timeout, MarkSentRaises,
       Restart, IngestDone, IngestFails, Vanish, vars, buffer
  <2>2. Enqueued' = Enqueued /\ Ingested' = Ingested /\ Unsent' = Unsent
    BY <2>1 DEF Enqueued, Ingested, Unsent
  <2> QED
    BY <2>2 DEF Promise!qvars
<1> QED
  BY <1>1, <1>2, <1>3, <1>4 DEF Next, Upload, Ingest

\* The buffer and the uploader implement the durable queue: an accepted event
\* is owed until the cloud has it, whatever fails on the way.
THEOREM Implements == Spec => KeepsPromise
<1>1. Init => Promise!QInit
  BY DEF Init, Promise!QInit, Enqueued, Unsent, Ingested, Events
<1> QED
  BY <1>1, Invariance, PromiseStep, PTL DEF Spec, KeepsPromise, Promise!QSpec

\* So buffer, uploader and cloud together lose no event that enqueue() returned
\* for: it is unsent or in the cloud, for ever.
THEOREM DurablyKept == Spec => []Promise!Durable
<1>1. Promise!QInit => Promise!Durable
  BY DEF Promise!QInit, Promise!Durable
<1>2. Promise!Durable /\ [Promise!QNext]_(Promise!qvars) => Promise!Durable'
  BY DEF Promise!Durable, Promise!QNext, Promise!Accept, Promise!Deliver, Promise!Settle,
     Promise!qvars
<1> QED
  BY <1>1, <1>2, Implements, PTL DEF KeepsPromise, Promise!QSpec

-----------------------------------------------------------------------------
(* What dequeue_batch returns.                                             *)

\* ORDER BY created_at, id compares numbers.
LEMMA StampsAreNumbers ==
  ASSUME TypeOK
  PROVE  stamp \in [Events -> Int] /\ Events \subseteq Int
<1>1. Stamps \cup {0} \subseteq Int
  BY ConstantsOK
<1>2. stamp \in [Events -> Stamps \cup {0}]
  BY DEF TypeOK
<1>3. stamp \in [Events -> Int]
  BY <1>1, <1>2
<1>4. Events \subseteq Int
  BY ConstantsOK DEF Events
<1> QED
  BY <1>3, <1>4

\* The order of the queue is total, irreflexive and transitive.
LEMMA BeforeIsOrder ==
  ASSUME TypeOK
  PROVE  /\ \A e \in Events : ~ Before(e, e)
         /\ \A e, f \in Events : e # f => Before(e, f) \/ Before(f, e)
         /\ \A e, f, g \in Events : Before(e, f) /\ Before(f, g) => Before(e, g)
<1>1. \A e \in Events : stamp[e] \in Int /\ e \in Int
  BY StampsAreNumbers
<1> QED
  BY <1>1 DEF Before

\* A strict inclusion of subsets of a finite set has minimal members in every
\* non-empty family.
LEMMA MinimalSubset ==
  ASSUME NEW S, IsFiniteSet(S), NEW T \in SUBSET SUBSET S, T # {}
  PROVE  \E x \in T : \A y \in T : ~ (y \subseteq x /\ y # x)
<1>1. IsWellFoundedOn(StrictSubsetOrdering(S), SUBSET S)
  BY FS_StrictSubsetOrderingWellFounded, FS_FiniteSubsetsOfFinite
<1>2. PICK x \in T : \A y \in T : ~ (<<y, x>> \in StrictSubsetOrdering(S))
  <2> HIDE DEF StrictSubsetOrdering
  <2> QED
    BY <1>1, WFMin
<1>3. ASSUME NEW y \in T, y \subseteq x, y # x
      PROVE  FALSE
  <2>1. <<y, x>> \in (SUBSET S) \X (SUBSET S)
    BY <1>2, <1>3
  <2>2. <<y, x>> \in StrictSubsetOrdering(S)
    BY <2>1, <1>3 DEF StrictSubsetOrdering
  <2> QED
    BY <2>2, <1>2
<1>4. \A y \in T : ~ (y \subseteq x /\ y # x)
  BY <1>3
<1> QED
  BY <1>4

\* There are finitely many events, so every set of them is finite.
LEMMA EventsFinite == \A S \in SUBSET Events : IsFiniteSet(S)
<1>1. IsFiniteSet(Events)
  BY FS_Interval, ConstantsOK DEF Events
<1> QED
  BY <1>1, FS_Subset

\* Some event of a non-empty set comes before all the others.
LEMMA FirstOf ==
  ASSUME TypeOK, NEW C \in SUBSET Events, C # {}
  PROVE  \E e \in C : \A f \in C \ {e} : Before(e, f)
<1> DEFINE Older(e) == {f \in C : Before(f, e)}
<1> DEFINE T == {Older(e) : e \in C}
<1>1. IsFiniteSet(Events)
  BY EventsFinite
<1>2. T \in SUBSET SUBSET Events /\ T # {}
  <2>1. \A e \in C : Older(e) \in SUBSET Events
    OBVIOUS
  <2>2. PICK e \in C : TRUE
    OBVIOUS
  <2>3. Older(e) \in T
    OBVIOUS
  <2> QED
    BY <2>1, <2>3
<1>3. PICK x \in T : \A y \in T : ~ (y \subseteq x /\ y # x)
  <2> HIDE DEF T
  <2> QED
    BY <1>1, <1>2, MinimalSubset
<1>4. PICK e \in C : x = Older(e)
  BY <1>3
<1>5. \A f \in C : ~ Before(f, e)
  <2> SUFFICES ASSUME NEW f \in C, Before(f, e)
               PROVE  FALSE
    OBVIOUS
  <2>1. Older(f) \subseteq Older(e)
    BY BeforeIsOrder
  <2>2. f \in Older(e) /\ f \notin Older(f)
    BY BeforeIsOrder
  <2> QED
    BY <2>1, <2>2, <1>3, <1>4
<1> QED
  BY <1>5, BeforeIsOrder

\* There is a batch, and it is empty only if nothing is unsent.
LEMMA BatchExists ==
  ASSUME TypeOK
  PROVE  \E B \in SUBSET Unsent : IsBatch(B) /\ (Unsent # {} => B # {})
<1> DEFINE Front(C) == /\ \A e \in Unsent \ C, f \in C : Before(e, f)
                       /\ Cardinality(Unsent \ C) <= BatchSize
<1> DEFINE T == {C \in SUBSET Unsent : Front(C)}
<1>1. Unsent \subseteq Events
  BY DEF Unsent, Enqueued
<1>2. IsFiniteSet(Unsent)
  BY <1>1, EventsFinite
<1>3. BatchSize \in Nat \ {0}
  BY ConstantsOK
<1>4. Unsent \in T
  <2>1. Unsent \ Unsent = {}
    OBVIOUS
  <2>2. Cardinality(Unsent \ Unsent) <= BatchSize
    <3>1. Cardinality({}) = 0
      BY FS_EmptySet
    <3> QED
      BY <2>1, <3>1, <1>3
  <2> QED
    BY <2>1, <2>2
<1>5. PICK C \in T : \A D \in T : ~ (D \subseteq C /\ D # C)
  <2>1. T \in SUBSET SUBSET Unsent /\ T # {}
    BY <1>4
  <2> HIDE DEF T
  <2> QED
    BY <2>1, <1>2, MinimalSubset
<1>6. C \subseteq Unsent /\ Front(C)
  BY <1>5
<1> DEFINE B == Unsent \ C
<1>7. IsFiniteSet(B) /\ Cardinality(B) \in Nat
  BY <1>2, FS_Subset, FS_CardinalityType
<1>8. Unsent \ B = C
  BY <1>6
<1>9. C # {} => Cardinality(B) = BatchSize
  <2> SUFFICES ASSUME C # {}, Cardinality(B) # BatchSize
               PROVE  FALSE
    OBVIOUS
  <2>1. PICK e \in C : \A f \in C \ {e} : Before(e, f)
    BY FirstOf, <1>1, <1>6
  <2>2. Unsent \ (C \ {e}) = B \cup {e}
    BY <1>6
  <2>3. Cardinality(B \cup {e}) = Cardinality(B) + 1
    BY <1>7, FS_AddElement
  <2>4. Cardinality(Unsent \ (C \ {e})) <= BatchSize
    BY <2>2, <2>3, <1>6, <1>7, <1>3
  <2>5. \A g \in B \cup {e}, f \in C \ {e} : Before(g, f)
    BY <2>1, <1>6
  <2>6. Front(C \ {e})
    BY <2>2, <2>4, <2>5
  <2>7. C \ {e} \in T
    BY <2>6, <1>6
  <2> QED
    BY <2>7, <1>5
<1>10. IsBatch(B)
  <2>1. \A e \in B, f \in Unsent \ B : Before(e, f)
    BY <1>8, <1>6
  <2>2. C = {} => B = Unsent
    OBVIOUS
  <2>3. Cardinality(B) <= BatchSize
    BY <1>6
  <2> QED
    BY <2>1, <2>2, <2>3, <1>3, <1>7, <1>9 DEF IsBatch
<1>11. Unsent # {} => B # {}
  BY <1>9, <1>3, FS_EmptySet
<1> QED
  BY <1>10, <1>11

\* Of two batches neither has an event the other lacks.
LEMMA BatchWithin ==
  ASSUME TypeOK, NEW B, NEW C, IsBatch(B), IsBatch(C)
  PROVE  B \subseteq C
<1> SUFFICES ASSUME NEW x \in B, x \notin C
             PROVE  FALSE
  OBVIOUS
<1>1. B \subseteq Unsent /\ C \subseteq Unsent /\ Unsent \subseteq Events
  BY DEF IsBatch, Unsent, Enqueued
<1>2. \A y \in C : Before(y, x)
  BY <1>1 DEF IsBatch
<1>3. C \subseteq B
  <2> SUFFICES ASSUME NEW y \in C, y \notin B
               PROVE  FALSE
    OBVIOUS
  <2>1. Before(x, y)
    BY <1>1 DEF IsBatch
  <2> QED
    BY <2>1, <1>1, <1>2, BeforeAsymmetric
<1>4. IsFiniteSet(B)
  BY <1>1, EventsFinite
<1>5. /\ Cardinality(C) \in Nat /\ Cardinality(B) \in Nat
      /\ Cardinality(C) <= Cardinality(B) /\ Cardinality(C) # Cardinality(B)
  BY <1>3, <1>4, FS_Subset, FS_CardinalityType
<1>6. Cardinality(B) <= BatchSize /\ BatchSize \in Nat
  BY <1>5, ConstantsOK DEF IsBatch
<1>7. C = Unsent
  BY <1>5, <1>6 DEF IsBatch
<1> QED
  BY <1>1, <1>7

\* dequeue_batch is a function of the buffer, and the uploader is never at a
\* loss: at any time exactly one set of rows is the next batch, and while an
\* event is unsent it is not the empty one.
THEOREM NextBatch ==
  Spec => [](\E B \in SUBSET Unsent : /\ IsBatch(B)
                                      /\ Unsent # {} => B # {}
                                      /\ \A C : IsBatch(C) => C = B)
<1>1. TypeOK => \E B \in SUBSET Unsent : /\ IsBatch(B)
                                         /\ Unsent # {} => B # {}
                                         /\ \A C : IsBatch(C) => C = B
  <2> SUFFICES ASSUME TypeOK
               PROVE  \E B \in SUBSET Unsent : /\ IsBatch(B)
                                               /\ Unsent # {} => B # {}
                                               /\ \A C : IsBatch(C) => C = B
    OBVIOUS
  <2>1. PICK B \in SUBSET Unsent : IsBatch(B) /\ (Unsent # {} => B # {})
    BY BatchExists
  <2>2. \A C : IsBatch(C) => C = B
    <3> SUFFICES ASSUME NEW C, IsBatch(C)
                 PROVE  C = B
      OBVIOUS
    <3>1. B \subseteq C /\ C \subseteq B
      BY <2>1, BatchWithin
    <3> QED
      BY <3>1
  <2> QED
    BY <2>1, <2>2
<1> QED
  BY <1>1, TypeCorrect, PTL

=============================================================================
