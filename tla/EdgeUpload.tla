----------------------------- MODULE EdgeUpload -----------------------------
(***************************************************************************)
(* The way of a detection from the edge box to the cloud: SQLiteBuffer     *)
(* (rows of event_buffer, kept across restarts), the Uploader thread that  *)
(* drains it, the network between them, and the batch ingest of the cloud, *)
(* which inserts one event per transaction under a deduplication key.      *)
(***************************************************************************)
EXTENDS Integers, FiniteSets

CONSTANTS
  MaxEvents,     \* bound: events enqueued
  Stamps,        \* readings of time.time(): the wall clock may step back
  BatchSize,     \* limit of dequeue_batch
  MaxAttempts,   \* bound: the attempts column saturates here
  MaxBackoff,    \* last index of _BACKOFF_STEPS
  Requests,      \* POSTs the cloud can be working on at once
  Poison,        \* events whose INSERT the cloud's database refuses
  NoRequest

Events == 1..MaxEvents

ASSUME ConstantsOK ==
  /\ MaxEvents \in Nat /\ BatchSize \in Nat \ {0} /\ MaxAttempts \in Nat
  /\ MaxBackoff \in Nat /\ Stamps \subseteq Int /\ Poison \subseteq Events
  /\ NoRequest \notin Requests

VARIABLES
  next,      \* the next AUTOINCREMENT id
  stamp,     \* stamp[e]: created_at of event e
  sent,      \* ids with sent_at set (purged ones stay in here)
  purged,    \* ids whose row purge_old has deleted
  attempts,  \* attempts[e]
  backoff,   \* _backoff_idx
  up,        \* the uploader: its point in the loop, its batch, its request
  req,       \* req[r]: a POST on its way through ingest_events
  cloud      \* rows of edge_events, by their dedup_key

buffer == <<next, stamp, sent, purged, attempts>>
vars == <<buffer, backoff, up, req, cloud>>

-----------------------------------------------------------------------------
Enqueued == {e \in Events : e < next}
Unsent   == Enqueued \ sent
Ingested == {k.id : k \in cloud}

\* ORDER BY created_at ASC, id ASC
Before(e, f) == stamp[e] < stamp[f] \/ (stamp[e] = stamp[f] /\ e < f)

\* Mutant: dequeue_batch without ORDER BY.
IsBatchUnordered(B) == B \subseteq Unsent /\ Cardinality(B) <= BatchSize

\* dequeue_batch: the first BatchSize unsent rows in that order.
IsBatch(B) ==
  /\ B \subseteq Unsent
  /\ \A e \in B, f \in Unsent \ B : Before(e, f)
  /\ \/ Cardinality(B) = BatchSize
     \/ B = Unsent /\ Cardinality(B) < BatchSize

IdleUploader == [pc |-> "loop", ids |-> {}, req |-> NoRequest]
FreeRequest  == [pc |-> "free", ids |-> {}, todo |-> {}, att |-> [e \in Events |-> 0]]

Init ==
  /\ next = 1 /\ stamp = [e \in Events |-> 0]
  /\ sent = {} /\ purged = {}
  /\ attempts = [e \in Events |-> 0] /\ backoff = 0
  /\ up = IdleUploader
  /\ req = [r \in Requests |-> FreeRequest]
  /\ cloud = {}

-----------------------------------------------------------------------------
(* SQLiteBuffer, as other threads of the agent use it.                     *)

Enqueue ==
  /\ next \in Events
  /\ \E t \in Stamps : stamp' = [stamp EXCEPT ![next] = t]
  /\ next' = next + 1
  /\ UNCHANGED <<sent, purged, attempts, backoff, up, req, cloud>>

\* purge_old: any of the sent rows may be old enough.
PurgeOld ==
  /\ \E e \in sent \ purged : purged' = purged \cup {e}
  /\ UNCHANGED <<next, stamp, sent, attempts, backoff, up, req, cloud>>

-----------------------------------------------------------------------------
(* The uploader thread.                                                    *)

\* dequeue_batch and the POST of _try_upload. The payload carries each row's
\* attempts as they are now.
SendBatch ==
  /\ up.pc = "loop"
  /\ \E B \in SUBSET Unsent, r \in Requests :
       /\ B # {} /\ IsBatch(B)
       /\ req[r].pc = "free"
       /\ req' = [req EXCEPT ![r] = [pc |-> "ingest", ids |-> B, todo |-> B,
                                     att |-> attempts]]
       /\ up' = [pc |-> "wait", ids |-> B, req |-> r]
  /\ UNCHANGED <<buffer, backoff, cloud>>

\* Mutant: any answer of the cloud settles the batch.
AnswerAny ==
  /\ up.pc = "wait" /\ req[up.req].pc \in {"ok", "error"}
  /\ up' = [up EXCEPT !.pc = "mark", !.req = NoRequest]
  /\ req' = [req EXCEPT ![up.req] = FreeRequest]
  /\ UNCHANGED <<buffer, backoff, cloud>>

\* The answer arrives: 200 or anything else.
Answer ==
  /\ up.pc = "wait" /\ req[up.req].pc \in {"ok", "error"}
  /\ up' = [up EXCEPT !.pc = IF req[up.req].pc = "ok" THEN "mark" ELSE "failed",
                      !.req = NoRequest]
  /\ req' = [req EXCEPT ![up.req] = FreeRequest]
  /\ UNCHANGED <<buffer, backoff, cloud>>

\* The 30 s timeout, or a lost answer: the cloud may still be at work on it.
Timeout ==
  /\ up.pc = "wait"
  /\ up' = [up EXCEPT !.pc = "failed", !.req = NoRequest]
  /\ UNCHANGED <<buffer, backoff, req, cloud>>

\* mark_sent and _reset_backoff.
MarkSent ==
  /\ up.pc = "mark"
  /\ sent' = sent \cup up.ids
  /\ backoff' = 0
  /\ up' = IdleUploader
  /\ UNCHANGED <<next, stamp, purged, attempts, req, cloud>>

\* mark_sent raises (the database is locked): the except clause takes over.
MarkSentRaises ==
  /\ up.pc = "mark"
  /\ up' = [up EXCEPT !.pc = "failed"]
  /\ UNCHANGED <<buffer, backoff, req, cloud>>

Least(a, b) == IF a < b THEN a ELSE b

\* Mutant: _advance_backoff steps past the last of _BACKOFF_STEPS.
MarkFailedUncapped ==
  /\ up.pc = "failed"
  /\ attempts' = [e \in Events |-> IF e \in up.ids THEN Least(attempts[e] + 1, MaxAttempts)
                                   ELSE attempts[e]]
  /\ backoff' = backoff + 1
  /\ up' = IdleUploader
  /\ UNCHANGED <<next, stamp, sent, purged, req, cloud>>

\* mark_failed and _advance_backoff; the events stay unsent.
MarkFailed ==
  /\ up.pc = "failed"
  /\ attempts' = [e \in Events |-> IF e \in up.ids THEN Least(attempts[e] + 1, MaxAttempts)
                                   ELSE attempts[e]]
  /\ backoff' = Least(backoff + 1, MaxBackoff)
  /\ up' = IdleUploader
  /\ UNCHANGED <<next, stamp, sent, purged, req, cloud>>

\* The agent dies and restarts: SQLite keeps the rows, memory is gone.
Restart ==
  /\ up # IdleUploader \/ backoff # 0
  /\ up' = IdleUploader /\ backoff' = 0
  /\ UNCHANGED <<buffer, req, cloud>>

-----------------------------------------------------------------------------
(* The network and ingest_events.                                          *)

\* The request never reaches the cloud, or its connection is gone by the time
\* the cloud would answer.
Vanish(r) ==
  /\ req[r].pc \in {"ingest", "ok", "error"}
  /\ up.req # r
  /\ req' = [req EXCEPT ![r] = FreeRequest]
  /\ UNCHANGED <<buffer, backoff, up, cloud>>

\* dedup_key: the batch id (a hash of the batch's ids) and a hash of the event
\* as it was sent, attempts included.
DedupKey(r, e) == [batch |-> req[r].ids, id |-> e, attempts |-> req[r].att[e]]

\* Mutant: the events of a request are ingested in any order.
IngestAnyOrder(r) ==
  /\ req[r].pc = "ingest"
  /\ \E e \in req[r].todo \ Poison :
       /\ cloud' = cloud \cup {DedupKey(r, e)}
       /\ req' = [req EXCEPT ![r].todo = @ \ {e}]
  /\ UNCHANGED <<buffer, backoff, up>>

\* One turn of the loop: INSERT ... ON CONFLICT DO NOTHING, one transaction.
IngestEvent(r) ==
  /\ req[r].pc = "ingest"
  /\ \E e \in req[r].todo \ Poison :
       /\ \A f \in req[r].todo \ {e} : Before(e, f)
       /\ cloud' = cloud \cup {DedupKey(r, e)}
       /\ req' = [req EXCEPT ![r].todo = @ \ {e}]
  /\ UNCHANGED <<buffer, backoff, up>>

IngestDone(r) ==
  /\ req[r].pc = "ingest" /\ req[r].todo = {}
  /\ req' = [req EXCEPT ![r].pc = "ok"]
  /\ UNCHANGED <<buffer, backoff, up, cloud>>

\* An INSERT raises, or the request is refused: what went in before stays in.
IngestFails(r) ==
  /\ req[r].pc = "ingest"
  /\ req' = [req EXCEPT ![r].pc = "error"]
  /\ UNCHANGED <<buffer, backoff, up, cloud>>

-----------------------------------------------------------------------------
Upload == SendBatch \/ Answer \/ MarkSent \/ MarkFailed
Ingest(r) == IngestEvent(r) \/ IngestDone(r)

Next == \/ Enqueue \/ PurgeOld
        \/ Upload \/ Timeout \/ MarkSentRaises \/ Restart
        \/ \E r \in Requests : Ingest(r) \/ IngestFails(r) \/ Vanish(r)

Spec == Init /\ [][Next]_vars

\* The threads of the agent and of the cloud run. The link and the databases may
\* fail again and again, but a step that keeps becoming possible is not lost
\* for ever; an abandoned connection is torn down.
FairSpec ==
  /\ Spec
  /\ WF_vars(Upload) /\ SF_vars(Answer) /\ SF_vars(MarkSent)
  /\ \A r \in Requests :
       /\ WF_vars(Ingest(r) \/ IngestFails(r)) /\ WF_vars(Vanish(r))
       /\ SF_vars(IngestDone(r))
  /\ \A e \in Events :
       SF_vars(\E r \in Requests : IngestEvent(r) /\ e \notin req'[r].todo /\ e \in req[r].todo)

-----------------------------------------------------------------------------
TypeOK ==
  /\ next \in 1..(MaxEvents + 1) /\ stamp \in [Events -> Stamps \cup {0}]
  /\ sent \subseteq Events /\ purged \subseteq Events
  /\ attempts \in [Events -> 0..MaxAttempts] /\ backoff \in 0..MaxBackoff
  /\ up \in [pc : {"loop", "wait", "mark", "failed"}, ids : SUBSET Events,
             req : Requests \cup {NoRequest}]
  /\ req \in [Requests -> [pc : {"free", "ingest", "ok", "error"}, ids : SUBSET Events,
                           todo : SUBSET Events, att : [Events -> 0..MaxAttempts]]]
  /\ cloud \subseteq [batch : SUBSET Events, id : Events, attempts : 0..MaxAttempts]

\* Chronological delivery: the cloud never has an event before an older one,
\* even while it still works on requests the agent gave up on. (An event that
\* got its id later but, the clock having stepped back, an earlier time, is
\* the older one in neither sense.)
OldestFirst ==
  \A e, f \in Enqueued : e < f /\ Before(e, f) /\ f \in Ingested => e \in Ingested

\* Nothing is stuck but behind an event the cloud refuses: every event reaches
\* the cloud, or an event it cannot store stands at or before it in the queue.
EventuallyIngested ==
  \A e \in Events : e \in Enqueued ~>
    \/ e \in Ingested
    \/ \E p \in Poison \cap Enqueued : p = e \/ Before(p, e)

\* The buffer and the uploader keep the promise of DurableQueue: whatever fails,
\* times out, crashes or is purged, an event enqueue() returned for is still
\* unsent in the buffer or is in the cloud, and the cloud gets nothing else.
Promise == INSTANCE DurableQueue
             WITH accepted <- Enqueued, owed <- Unsent, delivered <- Ingested
KeepsPromise == Promise!QSpec

-----------------------------------------------------------------------------
\* What uploader.py says ("Resending the same events produces the identical
\* header so the cloud can deduplicate") and migration 070 repeats ("o mesmo
\* evento nao duplica por tenant"): the cloud stores an event once.
StoredOnce == \A k, l \in cloud : k.id = l.id => k = l
=============================================================================
