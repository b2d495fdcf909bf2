----------------------------- MODULE QualityGate -----------------------------
(***************************************************************************)
(* The quality gate: the life of a piece from its identification to its    *)
(* approval. Every operation of GateService is a SELECT of the piece, a    *)
(* decision of the state machine over what was read, and an UPDATE by id   *)
(* that does not look at the status it replaces; requests for one piece    *)
(* may run side by side and may die between their statements. An approved  *)
(* piece is exported to the Wiser ERP by the request that approved it, and *)
(* every five minutes by a Celery beat task when that did not happen.      *)
(***************************************************************************)
EXTENDS Integers, FiniteSets

CONSTANTS
  Pieces,      \* rows of quality_pieces
  Backlog,     \* pieces approved before, whose export has failed
  Requests,    \* requests the API can be working on at once
  RetryLimit,  \* LIMIT of the beat task's SELECT
  MaxReworks,  \* bound: NOK results per piece
  NoPiece      \* no piece

ASSUME ConstantsOK ==
  NoPiece \notin Pieces /\ Backlog \subseteq Pieces /\ RetryLimit \in Nat \ {0} /\ MaxReworks \in Nat

VARIABLES
  status,     \* status[p], "none" before the row is created
  count,      \* count[p]: total_rework_count
  exported,   \* exported[p]: wiser_exported
  req,        \* req[r]: a request between two of its statements
  batch,      \* pieces that the running beat task has still to export
  sent,       \* the piece it has delivered and not yet flagged
  passed,     \* history: passed[p], the stages with a stored OK
  noks,       \* history: noks[p], NOK results stored
  delivered,  \* history: delivered[p], deliveries to Wiser (1 or more is 2)
  raced       \* history: pieces about which two requests had both read at once

beat == <<batch, sent>>
hist == <<passed, noks, delivered, raced>>
vars == <<status, count, exported, req, beat, hist>>

-----------------------------------------------------------------------------
(* state_machine.py *)

Statuses == {"idle", "identified", "validating_v1", "rework_v1", "validating_v2",
             "rework_v2", "waiting_bench_b", "validating_v3", "rework_v3", "approved"}

ValidTransitions ==
  [idle            |-> {"identified"},
   identified      |-> {"validating_v1"},
   validating_v1   |-> {"validating_v2", "rework_v1", "identified"},
   rework_v1       |-> {"validating_v1"},
   validating_v2   |-> {"waiting_bench_b", "rework_v2", "identified"},
   rework_v2       |-> {"validating_v2"},
   waiting_bench_b |-> {"validating_v3"},
   validating_v3   |-> {"approved", "rework_v3", "identified"},
   rework_v3       |-> {"validating_v3"},
   approved        |-> {}]

Stages == {"v1", "v2", "v3"}
Validating == [v1 |-> "validating_v1", v2 |-> "validating_v2", v3 |-> "validating_v3"]
Rework     == [v1 |-> "rework_v1", v2 |-> "rework_v2", v3 |-> "rework_v3"]

\* Mutant: the table of get_next_validation leaves out the second stage.
AfterOkSkips == [v1 |-> "waiting_bench_b", v2 |-> "waiting_bench_b", v3 |-> "approved"]

\* get_next_validation
AfterOk == [v1 |-> "validating_v2", v2 |-> "waiting_bench_b", v3 |-> "approved"]

\* The status that an operation stores for a piece it has read in status s;
\* none when it raises ValueError and the request is answered 400.
Targets(op, s) ==
  [identify       |-> {"identified"} \cap ValidTransitions[s],
   inspect        |-> ({"validating_v1" : t \in {s} \cap {"identified"}}
                       \cup {Validating[g] : g \in {h \in Stages : Rework[h] = s}})
                      \cap ValidTransitions[s],
   ok             |-> {AfterOk[g] : g \in {h \in Stages : Validating[h] = s}},
   nok            |-> {Rework[g] : g \in {h \in Stages : Validating[h] = s}},
   false_positive |-> {"identified" : t \in {s} \cap {Validating[g] : g \in Stages}}
                      \cap ValidTransitions[s],
   release        |-> {"validating_v3"} \cap ValidTransitions[s]][op]

Operations == {"identify", "inspect", "ok", "nok", "false_positive", "release"}

-----------------------------------------------------------------------------
Idle == [pc |-> "idle", op |-> "none", piece |-> NoPiece, seen |-> "none", to |-> "none", count |-> 0]

Init ==
  /\ status = [p \in Pieces |-> IF p \in Backlog THEN "approved" ELSE "none"]
  /\ count = [p \in Pieces |-> 0]
  /\ exported = [p \in Pieces |-> FALSE]
  /\ req = [r \in Requests |-> Idle]
  /\ batch = {} /\ sent = NoPiece
  /\ passed = [p \in Pieces |-> IF p \in Backlog THEN Stages ELSE {}] /\ noks = [p \in Pieces |-> 0]
  /\ delivered = [p \in Pieces |-> 0] /\ raced = {}

\* The request ends, with or without having done everything.
Finish(r) == req' = [req EXCEPT ![r] = Idle]

Deliver(p) == delivered' = [delivered EXCEPT ![p] = IF @ = 0 THEN 1 ELSE 2]

CreatePiece(p) ==
  /\ status[p] = "none"
  /\ status' = [status EXCEPT ![p] = "idle"]
  /\ UNCHANGED <<count, exported, req, beat, hist>>

\* get_piece and the decision over what was read.
Read(r, op, p) ==
  /\ req[r] = Idle /\ status[p] # "none"
  /\ op = "nok" => noks[p] < MaxReworks
  /\ \E to \in Targets(op, status[p]) :
       req' = [req EXCEPT ![r] = [pc |-> "write", op |-> op, piece |-> p,
                                  seen |-> status[p], to |-> to, count |-> count[p]]]
  /\ raced' = raced \cup {q \in {p} : \E o \in Requests : req[o].pc = "write" /\ req[o].piece = q}
  /\ UNCHANGED <<status, count, exported, beat, passed, noks, delivered>>

\* Mutant: a rework is counted with every UPDATE of the status.
NewCountEvery(q, stored) == q.count + 1

\* Mutant: the number that was read is stored again.
NewCountSame(q, stored) == stored

\* total_rework_count: one more than the request has read.
NewCount(q, stored) == IF q.op = "nok" THEN q.count + 1 ELSE stored

\* update_piece_status: UPDATE ... WHERE id, whatever the status is by now. An
\* approved piece with a photo goes on to the export.
UpdatePieceStatus(r) ==
  LET q == req[r]  p == req[r].piece
  IN /\ q.pc = "write"
     /\ q.op = "nok" => noks[p] < MaxReworks
     /\ status' = [status EXCEPT ![p] = q.to]
     /\ count' = [count EXCEPT ![p] = NewCount(q, @)]
     /\ noks' = [noks EXCEPT ![p] = IF q.op = "nok" THEN @ + 1 ELSE @]
     /\ passed' = [passed EXCEPT ![p] =
          @ \cup {g \in Stages : q.op = "ok" /\ Validating[g] = q.seen}]
     /\ Finish(r) \/ (q.to = "approved" /\ req' = [req EXCEPT ![r].pc = "export"])
     /\ UNCHANGED <<exported, beat, delivered, raced>>

\* export_piece succeeds.
ExportPiece(r) ==
  /\ req[r].pc = "export"
  /\ Deliver(req[r].piece)
  /\ req' = [req EXCEPT ![r].pc = "flag"]
  /\ UNCHANGED <<status, count, exported, beat, passed, noks, raced>>

\* update_piece: wiser_exported, after the delivery.
FlagExported(r) ==
  /\ req[r].pc = "flag"
  /\ exported' = [exported EXCEPT ![req[r].piece] = TRUE]
  /\ Finish(r)
  /\ UNCHANGED <<status, count, beat, hist>>

\* A statement raises, the export fails in all its modes or the worker dies:
\* what was committed stays.
Abandon(r) ==
  /\ req[r] # Idle
  /\ Finish(r)
  /\ UNCHANGED <<status, count, exported, beat, hist>>

-----------------------------------------------------------------------------
(* retry_failed_wiser_exports, one run at a time of the beat's queue *)

AwaitsExport(p) == status[p] = "approved" /\ ~exported[p]

\* Mutant: the SELECT asks for pieces that were delivered before.
RetrySelectDelivered ==
  /\ batch = {} /\ sent = NoPiece
  /\ \E B \in SUBSET {p \in Pieces : AwaitsExport(p) /\ delivered[p] > 0} :
       B # {} /\ batch' = B
  /\ UNCHANGED <<status, count, exported, req, sent, hist>>

\* SELECT ... LIMIT without an ORDER BY: any of them.
RetrySelect ==
  /\ batch = {} /\ sent = NoPiece
  /\ \E B \in SUBSET {p \in Pieces : AwaitsExport(p)} :
       /\ B # {} /\ Cardinality(B) <= RetryLimit
       /\ batch' = B
  /\ UNCHANGED <<status, count, exported, req, sent, hist>>

RetryExport(p) ==
  /\ p \in batch /\ sent = NoPiece
  /\ Deliver(p)
  /\ sent' = p /\ batch' = batch \ {p}
  /\ UNCHANGED <<status, count, exported, req, passed, noks, raced>>

\* Mutant: a piece is flagged whatever the answer was.
RetryExportFailsFlagged(p) ==
  /\ p \in batch /\ sent = NoPiece
  /\ batch' = batch \ {p}
  /\ exported' = [exported EXCEPT ![p] = TRUE]
  /\ UNCHANGED <<status, count, req, sent, hist>>

RetryExportFails(p) ==
  /\ p \in batch /\ sent = NoPiece
  /\ batch' = batch \ {p}
  /\ UNCHANGED <<status, count, exported, req, sent, hist>>

RetryFlag ==
  /\ sent # NoPiece
  /\ exported' = [exported EXCEPT ![sent] = TRUE]
  /\ sent' = NoPiece
  /\ UNCHANGED <<status, count, req, batch, hist>>

\* The rest of the schema's pieces is left for the next run.
RetryDies ==
  /\ batch # {} \/ sent # NoPiece
  /\ batch' = {} /\ sent' = NoPiece
  /\ UNCHANGED <<status, count, exported, req, hist>>

-----------------------------------------------------------------------------
Next ==
  \/ \E p \in Pieces : CreatePiece(p) \/ RetryExport(p) \/ RetryExportFails(p)
  \/ \E r \in Requests :
       \/ \E op \in Operations, p \in Pieces : Read(r, op, p)
       \/ UpdatePieceStatus(r) \/ ExportPiece(r) \/ FlagExported(r) \/ Abandon(r)
  \/ RetrySelect \/ RetryFlag \/ RetryDies

Spec == Init /\ [][Next]_vars

\* The beat fires for ever; an export of a piece that is tried again and again
\* succeeds some time, and so does the UPDATE after it. Requests come as they
\* like.
FairSpec ==
  /\ Spec
  /\ WF_vars(RetrySelect)
  /\ \A p \in Pieces :
       /\ SF_vars(RetryExport(p)) /\ WF_vars(RetryExport(p) \/ RetryExportFails(p))
       /\ SF_vars(RetryFlag /\ sent = p)

-----------------------------------------------------------------------------
TypeOK ==
  /\ status \in [Pieces -> Statuses \cup {"none"}]
  /\ count \in [Pieces -> 0..MaxReworks] /\ noks \in [Pieces -> 0..MaxReworks]
  /\ exported \in [Pieces -> BOOLEAN]
  /\ req \in [Requests -> {Idle} \cup
       [pc : {"write", "export", "flag"}, op : Operations, piece : Pieces,
        seen : Statuses, to : Statuses, count : 0..MaxReworks]]
  /\ batch \subseteq Pieces /\ sent \in Pieces \cup {NoPiece}
  /\ passed \in [Pieces -> SUBSET Stages] /\ delivered \in [Pieces -> 0..2]
  /\ raced \subseteq Pieces

\* However requests overtake each other, no piece waits for bench B without a
\* stored OK of V1 and of V2, and none is approved, or marked as exported to the
\* ERP, without one of V3 as well.
NoStageSkipped ==
  \A p \in Pieces :
    /\ status[p] \in {"waiting_bench_b", "validating_v3", "rework_v3"} => {"v1", "v2"} \subseteq passed[p]
    /\ status[p] = "approved" \/ exported[p] => passed[p] = Stages

\* The two exporters implement DurableQueue: a piece is owed to Wiser from its
\* approval until it is flagged, which only a delivery allows, wherever the
\* request or the beat task dies; and Wiser gets no piece without three stored
\* OKs.
Outbox == INSTANCE DurableQueue
            WITH Events <- Pieces,
                 accepted <- {p \in Pieces : passed[p] = Stages},
                 owed <- {p \in Pieces : passed[p] = Stages /\ ~exported[p]},
                 delivered <- {p \in Pieces : delivered[p] > 0}
ExportsDurably == Outbox!QSpec

\* Every piece that stays approved is exported in the end, also when its own
\* request died or could not reach Wiser, and also when others fail before it.
ApprovedIsExported ==
  \A p \in Pieces : AwaitsExport(p) ~> ~AwaitsExport(p)

\* The number of reworks of a piece is the number of its NOK results: what the
\* tablet shows when it is approved. Only a race of two requests loses one.
CountMatches == \A p \in Pieces \ raced : count[p] = noks[p]

\* "Aplicar state machine a cada transicao": the status moves along
\* ValidTransitions, and an approved piece stays approved ("Terminais - sem
\* transicoes de saida"), unless two requests had both read the piece before
\* either wrote.
FollowsUnlessRaced ==
  [][\A p \in Pieces \ raced :
       status[p] # "none" /\ status'[p] # status[p] => status'[p] \in ValidTransitions[status[p]]]_vars

=============================================================================
