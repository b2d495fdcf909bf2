------------------------- MODULE QualityGate_proofs -------------------------
(* Proofs about QualityGate, for every value of its constants. *)
EXTENDS QualityGate, TLAPS

WriteType == [pc : {"write", "export", "flag"}, op : Operations, piece : Pieces,
              seen : Statuses, to : Statuses, count : 0..MaxReworks]

\* The stages whose OK a piece must have before it can be in status s.
Beyond == [v1 |-> {"validating_v2", "rework_v2", "waiting_bench_b", "validating_v3",
                   "rework_v3", "approved"},
           v2 |-> {"waiting_bench_b", "validating_v3", "rework_v3", "approved"},
           v3 |-> {"approved"}]

Needs(s) == {g \in Stages : s \in Beyond[g]}

\* The stages that a request which read status s stores as passed.
Passes(op, s) == {g \in Stages : op = "ok" /\ Validating[g] = s}

\* A request's decision is one of the state machine, and what it read was earned.
RequestInv ==
  \A r \in Requests : req[r] # Idle =>
    LET q == req[r]
    IN /\ q.to \in Targets(q.op, q.seen)
       /\ Needs(q.seen) \subseteq passed[q.piece]
       /\ q.pc \in {"export", "flag"} => passed[q.piece] = Stages
       /\ q.pc = "flag" => delivered[q.piece] > 0
       /\ q.count <= noks[q.piece]

\* The beat task only handles approved pieces, and flags what it delivered.
BeatInv ==
  /\ \A p \in batch : passed[p] = Stages
  /\ sent # NoPiece => passed[sent] = Stages /\ delivered[sent] > 0

PieceInv ==
  \A p \in Pieces :
    /\ Needs(status[p]) \subseteq passed[p]
    /\ exported[p] => passed[p] = Stages /\ delivered[p] > 0
    /\ count[p] <= noks[p]

\* While no two requests have both read a piece, the one that has read it holds
\* what is stored.
SerialInv ==
  \A p \in Pieces \ raced :
    /\ count[p] = noks[p]
    /\ \A r \in Requests : req[r].pc = "write" /\ req[r].piece = p =>
         /\ req[r].seen = status[p] /\ req[r].count = count[p]
         /\ \A o \in Requests : req[o].pc = "write" /\ req[o].piece = p => o = r

IInv == TypeOK /\ RequestInv /\ BeatInv /\ PieceInv /\ SerialInv

-----------------------------------------------------------------------------
\* The decision of an operation is a transition of the table.
LEMMA TargetsValid ==
  ASSUME NEW op \in Operations, NEW s \in Statuses, NEW t \in Targets(op, s)
  PROVE  t \in ValidTransitions[s] /\ t \in Statuses
<1>1. CASE op = "identify"
  BY <1>1 DEF Targets, ValidTransitions, Statuses
<1>2. CASE op = "inspect"
  BY <1>2 DEF Targets, ValidTransitions, Statuses
<1>3. CASE op = "ok"
  <2>1. PICK g \in Stages : Validating[g] = s /\ t = AfterOk[g]
    BY <1>3 DEF Targets
  <2> QED
    BY <2>1 DEF Stages, Validating, AfterOk, ValidTransitions, Statuses
<1>4. CASE op = "nok"
  <2>1. PICK g \in Stages : Validating[g] = s /\ t = Rework[g]
    BY <1>4 DEF Targets
  <2> QED
    BY <2>1 DEF Stages, Validating, Rework, ValidTransitions, Statuses
<1>5. CASE op = "false_positive"
  BY <1>5 DEF Targets, ValidTransitions, Statuses
<1>6. CASE op = "release"
  BY <1>6 DEF Targets, ValidTransitions, Statuses
<1> QED
  BY <1>1, <1>2, <1>3, <1>4, <1>5, <1>6 DEF Operations

\* A decision needs no more than what was needed before it and what it passes.
LEMMA TargetsEarned ==
  ASSUME NEW op \in Operations, NEW s \in Statuses, NEW t \in Targets(op, s)
  PROVE  Needs(t) \subseteq Needs(s) \cup Passes(op, s)
<1>1. CASE op = "identify"
  BY <1>1 DEF Targets, Needs, Beyond, Stages
<1>2. CASE op = "inspect"
  <2>1. CASE s = "identified" /\ t = "validating_v1"
    BY <2>1 DEF Needs, Beyond, Stages
  <2>2. CASE \E g \in Stages : Rework[g] = s /\ t = Validating[g]
    <3>1. PICK g \in Stages : Rework[g] = s /\ t = Validating[g]
      BY <2>2
    <3> QED
      BY <3>1 DEF Stages, Rework, Validating, Needs, Beyond
  <2> QED
    BY <1>2, <2>1, <2>2 DEF Targets
<1>3. CASE op = "ok"
  <2>1. PICK g \in Stages : Validating[g] = s /\ t = AfterOk[g]
    BY <1>3 DEF Targets
  <2>2. g \in Passes(op, s)
    BY <1>3, <2>1 DEF Passes
  <2> QED
    BY <2>1, <2>2 DEF Stages, Validating, AfterOk, Needs, Beyond, Stages
<1>4. CASE op = "nok"
  <2>1. PICK g \in Stages : Validating[g] = s /\ t = Rework[g]
    BY <1>4 DEF Targets
  <2> QED
    BY <2>1 DEF Stages, Validating, Rework, Needs, Beyond, Stages
<1>5. CASE op = "false_positive"
  BY <1>5 DEF Targets, Needs, Beyond, Stages
<1>6. CASE op = "release"
  BY <1>6 DEF Targets, ValidTransitions, Statuses, Needs, Beyond, Stages
<1> QED
  BY <1>1, <1>2, <1>3, <1>4, <1>5, <1>6 DEF Operations

\* To be approved a piece needs every stage.
LEMMA ApprovedNeedsAll == Needs("approved") = Stages
  BY DEF Needs, Beyond, Stages

-----------------------------------------------------------------------------
\* The initial states satisfy the inductive invariant.
LEMMA InitIInv == Init => IInv
<1> SUFFICES ASSUME Init PROVE IInv
  OBVIOUS
<1> USE ConstantsOK DEF Init
<1>1. TypeOK
  BY DEF TypeOK, Statuses, Stages, Idle
<1>2. RequestInv /\ BeatInv
  BY DEF RequestInv, BeatInv
<1>3. PieceInv
  BY ApprovedNeedsAll DEF PieceInv, Needs, Beyond, Stages
<1>4. SerialInv
  BY DEF SerialInv, Idle
<1> QED
  BY <1>1, <1>2, <1>3, <1>4 DEF IInv

\* A request that is busy has one of the records of WriteType.
LEMMA BusyType == ASSUME TypeOK, NEW r \in Requests, req[r].pc # "idle"
                  PROVE  req[r] \in WriteType
  BY DEF TypeOK, WriteType, Idle

\* Replacing one request keeps the type of req.
LEMMA RequestUpdate ==
  ASSUME TypeOK, NEW r \in Requests, NEW v \in {Idle} \cup WriteType, req' = [req EXCEPT ![r] = v]
  PROVE  req' \in [Requests -> {Idle} \cup WriteType]
  BY DEF TypeOK, WriteType

\* A request reads a piece that has been created and decides.
LEMMA ReadStep ==
  ASSUME IInv, NEW r \in Requests, NEW op \in Operations, NEW p \in Pieces, Read(r, op, p)
  PROVE  IInv'
<1> USE DEF IInv
<1>1. PICK to \in Targets(op, status[p]) :
        req' = [req EXCEPT ![r] = [pc |-> "write", op |-> op, piece |-> p,
                                   seen |-> status[p], to |-> to, count |-> count[p]]]
  BY DEF Read
<1> DEFINE q == [pc |-> "write", op |-> op, piece |-> p, seen |-> status[p], to |-> to, count |-> count[p]]
<1>2. status[p] \in Statuses /\ req[r] = Idle
  BY DEF Read, TypeOK
<1>3. q \in WriteType
  BY <1>2, TargetsValid DEF TypeOK, WriteType
<1>4. /\ UNCHANGED <<status, count, exported, batch, sent, passed, noks, delivered>>
      /\ raced' = raced \cup {x \in {p} : \E o \in Requests : req[o].pc = "write" /\ req[o].piece = x}
  BY DEF Read, beat
<1>5. req'[r] = q /\ \A o \in Requests \ {r} : req'[o] = req[o]
  BY <1>1 DEF TypeOK
<1>6. TypeOK'
  <2>1. req' \in [Requests -> {Idle} \cup WriteType]
    BY <1>1, <1>3, RequestUpdate
  <2> QED
    BY <2>1, <1>4 DEF TypeOK, WriteType
<1>7. RequestInv'
  BY <1>4, <1>5 DEF RequestInv, PieceInv
<1>8. BeatInv' /\ PieceInv'
  BY <1>4 DEF BeatInv, PieceInv
<1>9. SerialInv'
  <2> SUFFICES ASSUME NEW x \in Pieces, x \notin raced', NEW o \in Requests,
                      req'[o].pc = "write", req'[o].piece = x
               PROVE  /\ req'[o].seen = status[x] /\ req'[o].count = count[x]
                      /\ \A u \in Requests : req'[u].pc = "write" /\ req'[u].piece = x => u = o
    BY <1>4 DEF SerialInv
  <2>1. CASE x = p
    <3>1. \A u \in Requests : ~(req[u].pc = "write" /\ req[u].piece = p)
      BY <1>4, <2>1
    <3> QED
      BY <1>5, <2>1, <3>1
  <2>2. CASE x # p
    BY <1>4, <1>5, <2>2 DEF SerialInv
  <2> QED
    BY <2>1, <2>2
<1> QED
  BY <1>6, <1>7, <1>8, <1>9

\* A request writes what it has decided.
LEMMA UpdateStep ==
  ASSUME IInv, NEW r \in Requests, UpdatePieceStatus(r)
  PROVE  IInv' /\ (req[r].piece \notin raced =>
                     req[r].to \in ValidTransitions[status[req[r].piece]])
<1> DEFINE q == req[r]
           p == req[r].piece
<1> USE DEF IInv
<1>1. q \in WriteType /\ q.pc = "write" /\ q # Idle
  BY BusyType DEF UpdatePieceStatus, Idle
<1>2. p \in Pieces /\ q.op \in Operations /\ q.seen \in Statuses /\ q.to \in Targets(q.op, q.seen)
  BY <1>1 DEF WriteType, RequestInv
<1>3. q.to \in ValidTransitions[q.seen] /\ q.to \in Statuses
  BY <1>2, TargetsValid
<1>4. Needs(q.to) \subseteq Needs(q.seen) \cup Passes(q.op, q.seen)
  BY <1>2, TargetsEarned
<1>5. /\ status' = [status EXCEPT ![p] = q.to]
      /\ count' = [count EXCEPT ![p] = NewCount(q, @)]
      /\ noks' = [noks EXCEPT ![p] = IF q.op = "nok" THEN @ + 1 ELSE @]
      /\ passed' = [passed EXCEPT ![p] = @ \cup Passes(q.op, q.seen)]
      /\ UNCHANGED <<exported, batch, sent, delivered, raced>>
      /\ q.op = "nok" => noks[p] < MaxReworks
  BY DEF UpdatePieceStatus, beat, Passes
<1>6. \/ req' = [req EXCEPT ![r] = Idle]
      \/ q.to = "approved" /\ req' = [req EXCEPT ![r] = [q EXCEPT !.pc = "export"]]
  BY DEF UpdatePieceStatus, Finish
<1>7. \A o \in Requests \ {r} : req'[o] = req[o]
  BY <1>6 DEF TypeOK
<1>8. /\ count[p] \in 0..MaxReworks /\ noks[p] \in 0..MaxReworks /\ q.count \in 0..MaxReworks
      /\ count[p] <= noks[p] /\ q.count <= noks[p]
  BY <1>1, <1>2 DEF TypeOK, WriteType, PieceInv, RequestInv
<1>9. /\ noks'[p] \in 0..MaxReworks /\ noks'[p] >= noks[p]
      /\ count'[p] \in 0..MaxReworks /\ count'[p] <= noks'[p]
  <2>1. noks'[p] = (IF q.op = "nok" THEN noks[p] + 1 ELSE noks[p])
    BY <1>2, <1>5 DEF TypeOK
  <2>2. count'[p] = (IF q.op = "nok" THEN q.count + 1 ELSE count[p])
    BY <1>2, <1>5 DEF TypeOK, NewCount
  <2> QED
    BY <1>5, <1>8, <2>1, <2>2, ConstantsOK
<1>10. \A x \in Pieces : passed[x] \subseteq passed'[x] /\ noks'[x] >= noks[x]
  BY <1>2, <1>5, <1>9 DEF TypeOK
<1>11. Needs(q.to) \subseteq passed'[p]
  BY <1>1, <1>2, <1>4, <1>5 DEF TypeOK, RequestInv
<1>12. req' \in [Requests -> {Idle} \cup WriteType]
  <2>1. [q EXCEPT !.pc = "export"] \in WriteType
    BY <1>1 DEF WriteType
  <2> QED
    BY <1>6, <2>1, RequestUpdate
<1>13. TypeOK'
  <2>1. status' \in [Pieces -> Statuses \cup {"none"}]
    BY <1>3, <1>5 DEF TypeOK
  <2>2. count' \in [Pieces -> 0..MaxReworks] /\ noks' \in [Pieces -> 0..MaxReworks]
    BY <1>2, <1>5, <1>9 DEF TypeOK
  <2>3. passed' \in [Pieces -> SUBSET Stages]
    BY <1>5 DEF TypeOK, Passes
  <2> QED
    BY <1>5, <1>12, <2>1, <2>2, <2>3 DEF TypeOK, WriteType
<1>14. RequestInv'
  <2> SUFFICES ASSUME NEW o \in Requests, req'[o] # Idle
               PROVE  /\ req'[o].to \in Targets(req'[o].op, req'[o].seen)
                      /\ Needs(req'[o].seen) \subseteq passed'[req'[o].piece]
                      /\ req'[o].pc \in {"export", "flag"} => passed'[req'[o].piece] = Stages
                      /\ req'[o].pc = "flag" => delivered'[req'[o].piece] > 0
                      /\ req'[o].count <= noks'[req'[o].piece]
    BY DEF RequestInv
  <2>1. CASE o # r
    <3>1. req'[o] = req[o] /\ req[o] \in WriteType
      BY <1>7, <2>1 DEF TypeOK, WriteType
    <3>2. req[o].piece \in Pieces /\ req[o].count \in 0..MaxReworks
      BY <3>1 DEF WriteType
    <3>3. passed'[req[o].piece] \subseteq Stages
      BY <3>2, <1>13 DEF TypeOK
    <3>4. noks[req[o].piece] \in 0..MaxReworks /\ noks'[req[o].piece] \in 0..MaxReworks
      BY <3>2, <1>13 DEF TypeOK
    <3> QED
      BY <1>5, <1>10, <3>1, <3>2, <3>3, <3>4 DEF RequestInv
  <2>2. CASE o = r
    <3>1. q.to = "approved" /\ req'[r] = [q EXCEPT !.pc = "export"]
      BY <1>6, <2>2 DEF TypeOK
    <3>2. passed'[p] = Stages
      <4>1. passed'[p] \subseteq Stages
        BY <1>2, <1>13 DEF TypeOK
      <4>2. Stages \subseteq passed'[p]
        <5>1. q.to = "approved"
          BY <3>1
        <5> HIDE DEF q, p
        <5> QED
          BY <1>11, <5>1, ApprovedNeedsAll
      <4> QED
        BY <4>1, <4>2
    <3>3. /\ req'[r].to = q.to /\ req'[r].op = q.op /\ req'[r].seen = q.seen
          /\ req'[r].piece = p /\ req'[r].pc = "export" /\ req'[r].count = q.count
      BY <1>1, <3>1 DEF WriteType
    <3>4. Needs(q.seen) \subseteq passed'[p]
      BY <1>1, <1>2, <1>10 DEF RequestInv
    <3>5. q.count <= noks'[p]
      BY <1>8, <1>9
    <3> QED
      BY <1>2, <2>2, <3>2, <3>3, <3>4, <3>5
  <2> QED
    BY <2>1, <2>2
<1>15. BeatInv'
  <2>1. \A x \in Pieces : passed[x] = Stages => passed'[x] = Stages
    BY <1>10, <1>13 DEF TypeOK
  <2> QED
    BY <1>5, <2>1 DEF BeatInv, TypeOK
<1>16. PieceInv'
  <2> SUFFICES ASSUME NEW x \in Pieces
               PROVE  /\ Needs(status'[x]) \subseteq passed'[x]
                      /\ exported'[x] => passed'[x] = Stages /\ delivered'[x] > 0
                      /\ count'[x] <= noks'[x]
    BY DEF PieceInv
  <2>1. exported'[x] => passed'[x] = Stages /\ delivered'[x] > 0
    BY <1>5, <1>10, <1>13 DEF PieceInv, TypeOK
  <2>2. CASE x = p
    BY <1>2, <1>5, <1>9, <1>11, <2>1, <2>2 DEF TypeOK
  <2>3. CASE x # p
    <3>1. status'[x] = status[x] /\ passed'[x] = passed[x] /\ count'[x] = count[x] /\ noks'[x] = noks[x]
      BY <1>5, <2>3 DEF TypeOK
    <3> QED
      BY <2>1, <3>1 DEF PieceInv
  <2> QED
    BY <2>2, <2>3
<1>17. SerialInv'
  <2> SUFFICES ASSUME NEW x \in Pieces, x \notin raced
               PROVE  /\ count'[x] = noks'[x]
                      /\ \A o \in Requests : req'[o].pc = "write" /\ req'[o].piece = x =>
                           /\ req'[o].seen = status'[x] /\ req'[o].count = count'[x]
                           /\ \A u \in Requests : req'[u].pc = "write" /\ req'[u].piece = x => u = o
    BY <1>5 DEF SerialInv
  <2>0. req'[r].pc # "write"
    BY <1>1, <1>6 DEF TypeOK, Idle, WriteType
  <2>1. CASE x = p
    <3>1. q.count = count[p] /\ count[p] = noks[p]
      BY <1>1, <1>2, <2>1 DEF SerialInv
    <3>2. count'[p] = noks'[p]
      BY <1>2, <1>5, <3>1 DEF TypeOK, NewCount
    <3>3. \A o \in Requests : req[o].pc = "write" /\ req[o].piece = p => o = r
      BY <1>1, <1>2, <2>1 DEF SerialInv
    <3> QED
      BY <1>7, <2>0, <2>1, <3>2, <3>3
  <2>2. CASE x # p
    <3>1. status'[x] = status[x] /\ count'[x] = count[x] /\ noks'[x] = noks[x]
      BY <1>5, <2>2 DEF TypeOK
    <3> QED
      BY <1>7, <2>0, <3>1 DEF SerialInv
  <2> QED
    BY <2>1, <2>2
<1>18. p \notin raced => q.to \in ValidTransitions[status[p]]
  BY <1>1, <1>2, <1>3 DEF SerialInv
<1> QED
  BY <1>13, <1>14, <1>15, <1>16, <1>17, <1>18

\* The steps between a delivery and its flag, of a request and of the beat,
\* and the death of either.
LEMMA ExportStep ==
  ASSUME IInv, NEW r \in Requests, ExportPiece(r) \/ FlagExported(r) \/ Abandon(r)
  PROVE  IInv'
<1> DEFINE p == req[r].piece
<1> USE DEF IInv
<1>1. UNCHANGED <<status, count, batch, sent, passed, noks, raced>>
  BY DEF ExportPiece, FlagExported, Abandon, beat, hist
<1>2. CASE ExportPiece(r)
  <2>1. req[r] \in WriteType /\ req[r] # Idle /\ p \in Pieces
    BY <1>2, BusyType DEF ExportPiece, Idle, WriteType
  <2>2. /\ delivered' = [delivered EXCEPT ![p] = IF @ = 0 THEN 1 ELSE 2]
        /\ req' = [req EXCEPT ![r] = [req[r] EXCEPT !.pc = "flag"]]
        /\ req[r].pc = "export" /\ exported' = exported
    BY <1>2 DEF ExportPiece, Deliver
  <2>3. delivered' \in [Pieces -> 0..2] /\ delivered'[p] > 0
    BY <2>1, <2>2 DEF TypeOK
  <2>4. \A x \in Pieces : delivered[x] > 0 => delivered'[x] > 0
    BY <2>1, <2>2 DEF TypeOK
  <2>5. \A o \in Requests \ {r} : req'[o] = req[o]
    BY <2>2 DEF TypeOK
  <2>6. /\ req'[r].pc = "flag" /\ req'[r].to = req[r].to /\ req'[r].op = req[r].op
        /\ req'[r].seen = req[r].seen /\ req'[r].piece = p /\ req'[r].count = req[r].count
    BY <2>1, <2>2 DEF TypeOK, WriteType
  <2>7. TypeOK'
    <3>1. [req[r] EXCEPT !.pc = "flag"] \in WriteType
      BY <2>1 DEF WriteType
    <3>2. req' \in [Requests -> {Idle} \cup WriteType]
      BY <2>2, <3>1, RequestUpdate
    <3> QED
      BY <1>1, <2>2, <2>3, <3>2 DEF TypeOK, WriteType
  <2>8. RequestInv'
    <3> SUFFICES ASSUME NEW o \in Requests, req'[o] # Idle
                 PROVE  /\ req'[o].to \in Targets(req'[o].op, req'[o].seen)
                        /\ Needs(req'[o].seen) \subseteq passed'[req'[o].piece]
                        /\ req'[o].pc \in {"export", "flag"} => passed'[req'[o].piece] = Stages
                        /\ req'[o].pc = "flag" => delivered'[req'[o].piece] > 0
                        /\ req'[o].count <= noks'[req'[o].piece]
      BY DEF RequestInv
    <3>1. CASE o = r
      BY <1>1, <2>1, <2>2, <2>3, <2>6, <3>1 DEF RequestInv
    <3>2. CASE o # r
      <4>1. req'[o] = req[o] /\ req[o].piece \in Pieces
        BY <2>5, <3>2 DEF TypeOK, WriteType
      <4> QED
        BY <1>1, <2>4, <4>1 DEF RequestInv
    <3> QED
      BY <3>1, <3>2
  <2>9. BeatInv' /\ PieceInv'
    BY <1>1, <2>2, <2>4 DEF BeatInv, PieceInv, TypeOK
  <2>10. SerialInv'
    BY <1>1, <2>5, <2>6 DEF SerialInv
  <2> QED
    BY <2>7, <2>8, <2>9, <2>10
<1>3. CASE FlagExported(r)
  <2>1. req[r] \in WriteType /\ req[r] # Idle /\ p \in Pieces
    BY <1>3, BusyType DEF FlagExported, Idle, WriteType
  <2>2. /\ exported' = [exported EXCEPT ![p] = TRUE] /\ req' = [req EXCEPT ![r] = Idle]
        /\ req[r].pc = "flag" /\ delivered' = delivered
    BY <1>3 DEF FlagExported, Finish, hist
  <2>3. passed[p] = Stages /\ delivered[p] > 0
    BY <2>1, <2>2 DEF RequestInv
  <2>4. \A o \in Requests : req'[o] = IF o = r THEN Idle ELSE req[o]
    BY <2>2 DEF TypeOK
  <2>5. req' \in [Requests -> {Idle} \cup WriteType]
    BY <2>2, RequestUpdate
  <2>6. TypeOK'
    BY <1>1, <2>2, <2>5 DEF TypeOK, WriteType
  <2>7. RequestInv' /\ BeatInv'
    BY <1>1, <2>2, <2>4 DEF RequestInv, BeatInv
  <2>8. PieceInv'
    BY <1>1, <2>1, <2>2, <2>3 DEF PieceInv, TypeOK
  <2>9. SerialInv'
    BY <1>1, <2>4 DEF SerialInv, Idle
  <2> QED
    BY <2>6, <2>7, <2>8, <2>9
<1>4. CASE Abandon(r)
  <2>1. req' = [req EXCEPT ![r] = Idle] /\ UNCHANGED <<exported, delivered>>
    BY <1>4 DEF Abandon, Finish, hist
  <2>2. \A o \in Requests : req'[o] = IF o = r THEN Idle ELSE req[o]
    BY <2>1 DEF TypeOK
  <2>3. req' \in [Requests -> {Idle} \cup WriteType]
    BY <2>1, RequestUpdate
  <2>4. TypeOK'
    BY <1>1, <2>1, <2>3 DEF TypeOK, WriteType
  <2>5. RequestInv' /\ BeatInv' /\ PieceInv'
    BY <1>1, <2>1, <2>2 DEF RequestInv, BeatInv, PieceInv
  <2>6. SerialInv'
    BY <1>1, <2>2 DEF SerialInv, Idle
  <2> QED
    BY <2>4, <2>5, <2>6
<1> QED
  BY <1>2, <1>3, <1>4

\* The beat task's steps.
LEMMA BeatStep ==
  ASSUME IInv, \/ RetrySelect \/ RetryFlag \/ RetryDies
               \/ \E p \in Pieces : RetryExport(p) \/ RetryExportFails(p)
  PROVE  IInv'
<1> USE DEF IInv
<1>1. UNCHANGED <<status, count, req, passed, noks, raced>>
  BY DEF RetrySelect, RetryFlag, RetryDies, RetryExport, RetryExportFails, hist
<1>2. SerialInv'
  BY <1>1 DEF SerialInv
<1>3. CASE RetrySelect \/ RetryDies \/ \E p \in Pieces : RetryExportFails(p)
  <2>1. UNCHANGED <<exported, delivered>>
    BY <1>3 DEF RetrySelect, RetryDies, RetryExportFails, hist
  <2>2. RequestInv' /\ PieceInv'
    BY <1>1, <2>1 DEF RequestInv, PieceInv
  <2>3. CASE RetrySelect
    <3>1. \A p \in batch' : p \in Pieces /\ status[p] = "approved"
      BY <2>3 DEF RetrySelect, AwaitsExport
    <3>2. \A p \in Pieces : passed[p] \subseteq Stages
      BY DEF TypeOK
    <3>4. \A p \in batch' : Stages \subseteq passed[p]
      <4>1. SUFFICES ASSUME NEW p \in batch' PROVE Stages \subseteq passed[p]
        OBVIOUS
      <4>2. Needs(status[p]) \subseteq passed[p]
        BY <3>1 DEF PieceInv
      <4>3. Needs("approved") \subseteq passed[p]
        BY <3>1, <4>2
      <4> QED
        BY <4>3, ApprovedNeedsAll
    <3>5. \A p \in batch' : passed[p] = Stages
      BY <3>1, <3>2, <3>4
    <3>3. sent' = sent /\ sent = NoPiece
      BY <2>3 DEF RetrySelect
    <3> QED
      BY <1>1, <1>2, <2>1, <2>2, <3>1, <3>3, <3>5 DEF BeatInv, TypeOK
  <2>4. CASE RetryDies
    BY <1>1, <1>2, <2>1, <2>2, <2>4 DEF RetryDies, BeatInv, TypeOK
  <2>5. CASE \E p \in Pieces : RetryExportFails(p)
    BY <1>1, <1>2, <2>1, <2>2, <2>5 DEF RetryExportFails, BeatInv, TypeOK
  <2> QED
    BY <1>3, <2>3, <2>4, <2>5
<1>4. CASE \E p \in Pieces : RetryExport(p)
  <2>1. PICK p \in Pieces : RetryExport(p)
    BY <1>4
  <2>2. /\ delivered' = [delivered EXCEPT ![p] = IF @ = 0 THEN 1 ELSE 2]
        /\ exported' = exported /\ sent' = p /\ batch' = batch \ {p} /\ p \in batch
    BY <2>1 DEF RetryExport, Deliver
  <2>3. delivered' \in [Pieces -> 0..2] /\ delivered'[p] > 0
    BY <2>2 DEF TypeOK
  <2>4. \A x \in Pieces : delivered[x] > 0 => delivered'[x] > 0
    BY <2>2 DEF TypeOK
  <2>5. RequestInv'
    BY <1>1, <2>4 DEF RequestInv, TypeOK, WriteType
  <2>6. PieceInv' /\ BeatInv'
    BY <1>1, <2>2, <2>3, <2>4 DEF PieceInv, BeatInv
  <2>7. TypeOK'
    BY <1>1, <2>2, <2>3 DEF TypeOK
  <2> QED
    BY <1>2, <2>5, <2>6, <2>7
<1>5. CASE RetryFlag
  <2>1. /\ sent \in Pieces /\ exported' = [exported EXCEPT ![sent] = TRUE]
        /\ sent' = NoPiece /\ UNCHANGED <<batch, delivered>>
    BY <1>5 DEF RetryFlag, TypeOK, hist
  <2>2. passed[sent] = Stages /\ delivered[sent] > 0
    BY <2>1, ConstantsOK DEF BeatInv
  <2>3. RequestInv' /\ BeatInv'
    BY <1>1, <2>1 DEF RequestInv, BeatInv
  <2>4. PieceInv'
    BY <1>1, <2>1, <2>2 DEF PieceInv, TypeOK
  <2>5. TypeOK'
    BY <1>1, <2>1 DEF TypeOK
  <2> QED
    BY <1>2, <2>3, <2>4, <2>5
<1> QED
  BY <1>3, <1>4, <1>5

\* A piece is created.
LEMMA CreateStep == ASSUME IInv, NEW p \in Pieces, CreatePiece(p) PROVE IInv'
<1> USE DEF IInv
<1>1. /\ status[p] = "none" /\ status' = [status EXCEPT ![p] = "idle"]
      /\ UNCHANGED <<count, exported, req, batch, sent, passed, noks, delivered, raced>>
  BY DEF CreatePiece, beat, hist
<1>2. TypeOK'
  BY <1>1 DEF TypeOK, Statuses
<1>3. RequestInv' /\ BeatInv'
  BY <1>1 DEF RequestInv, BeatInv
<1>4. Needs("idle") = {}
  BY DEF Needs, Beyond, Stages
<1>5. PieceInv'
  BY <1>1, <1>4 DEF PieceInv, TypeOK
<1>6. SerialInv'
  <2>1. \A r \in Requests : req[r].pc = "write" => req[r].seen # "none"
    BY DEF TypeOK, Idle, Statuses
  <2>2. \A x \in Pieces \ {p} : status'[x] = status[x]
    BY <1>1 DEF TypeOK
  <2> QED
    BY <1>1, <2>1, <2>2 DEF SerialInv
<1> QED
  BY <1>2, <1>3, <1>5, <1>6

\* Every step keeps the inductive invariant.
LEMMA IInvStep == IInv /\ [Next]_vars => IInv'
<1> SUFFICES ASSUME IInv, [Next]_vars PROVE IInv'
  OBVIOUS
<1>1. CASE \E p \in Pieces : CreatePiece(p)
  BY <1>1, CreateStep
<1>2. CASE \E r \in Requests, op \in Operations, p \in Pieces : Read(r, op, p)
  BY <1>2, ReadStep
<1>3. CASE \E r \in Requests : UpdatePieceStatus(r)
  BY <1>3, UpdateStep
<1>4. CASE \E r \in Requests : ExportPiece(r) \/ FlagExported(r) \/ Abandon(r)
  BY <1>4, ExportStep
<1>5. CASE \/ RetrySelect \/ RetryFlag \/ RetryDies
           \/ \E p \in Pieces : RetryExport(p) \/ RetryExportFails(p)
  BY <1>5, BeatStep
<1>6. CASE UNCHANGED vars
  BY <1>6 DEF vars, beat, hist, IInv, TypeOK, RequestInv, BeatInv, PieceInv, SerialInv
<1> QED
  BY <1>1, <1>2, <1>3, <1>4, <1>5, <1>6 DEF Next

-----------------------------------------------------------------------------
\* The inductive invariant holds always.
THEOREM Invariance == Spec => []IInv
<1>1. Init => IInv
  BY InitIInv
<1>2. IInv /\ [Next]_vars => IInv'
  BY IInvStep
<1> QED
  BY <1>1, <1>2, PTL DEF Spec

\* The variables of the quality gate keep their types, whatever the numbers of
\* pieces and requests.
THEOREM TypeCorrect == Spec => []TypeOK
<1>1. IInv => TypeOK
  BY DEF IInv
<1> QED
  BY <1>1, Invariance, PTL

\* No interleaving of requests and beat gets a piece past a stage whose OK is
\* not stored, or marks it as exported before all of them.
THEOREM StagesKept == Spec => []NoStageSkipped
<1>1. IInv => NoStageSkipped
  BY ApprovedNeedsAll DEF IInv, PieceInv, NoStageSkipped, Needs, Beyond, Stages, TypeOK
<1> QED
  BY <1>1, Invariance, PTL

\* Every step of the quality gate is one of the durable queue: the OK that
\* completes a piece accepts it, an export delivers it, the flag settles it.
LEMMA OutboxStep == IInv /\ [Next]_vars => [Outbox!QNext]_(Outbox!qvars)
<1> SUFFICES ASSUME IInv, [Next]_vars PROVE [Outbox!QNext]_(Outbox!qvars)
  OBVIOUS
<1> DEFINE Complete == {p \in Pieces : passed[p] = Stages}
           Owed     == {p \in Pieces : passed[p] = Stages /\ ~exported[p]}
           Had      == {p \in Pieces : delivered[p] > 0}
<1>d. ASSUME NEW p \in Pieces, Deliver(p), passed[p] = Stages, UNCHANGED <<passed, exported>>
      PROVE  Outbox!QNext
  <2>1. delivered' = [delivered EXCEPT ![p] = IF @ = 0 THEN 1 ELSE 2]
    BY <1>d DEF Deliver
  <2>2. \A x \in Pieces : delivered[x] \in 0..2
    BY DEF IInv, TypeOK
  <2>3. delivered'[p] > 0 /\ \A x \in Pieces \ {p} : delivered'[x] = delivered[x]
    BY <2>1, <2>2 DEF IInv, TypeOK
  <2>4. Had' = Had \cup {p}
    BY <2>3
  <2>5. Complete' = Complete /\ Owed' = Owed /\ p \in Complete
    BY <1>d
  <2>6. Outbox!Deliver(p)
    BY <2>4, <2>5 DEF Outbox!Deliver
  <2> QED
    BY <2>6 DEF Outbox!QNext
<1>f. ASSUME NEW p \in Pieces, exported' = [exported EXCEPT ![p] = TRUE], delivered[p] > 0,
             UNCHANGED <<passed, delivered>>
      PROVE  Outbox!QNext
  <2>1. \A x \in Pieces : exported'[x] = (x = p \/ exported[x])
    BY <1>f DEF IInv, TypeOK
  <2>2. Owed' = Owed \ {p} /\ Complete' = Complete /\ Had' = Had
    BY <1>f, <2>1
  <2>3. {p} \subseteq Had
    BY <1>f
  <2>4. Outbox!Settle({p})
    BY <2>2, <2>3 DEF Outbox!Settle
  <2> QED
    BY <2>4 DEF Outbox!QNext
<1>1. ASSUME NEW r \in Requests, UpdatePieceStatus(r)
      PROVE  Outbox!QNext \/ UNCHANGED Outbox!qvars
  <2>1. PICK p \in Pieces : p = req[r].piece
    BY <1>1, BusyType DEF UpdatePieceStatus, IInv, WriteType
  <2>2. /\ \A x \in Pieces \ {p} : passed'[x] = passed[x]
        /\ passed[p] \subseteq passed'[p] /\ passed[p] \subseteq Stages /\ passed'[p] \subseteq Stages
    BY <1>1, <2>1 DEF UpdatePieceStatus, IInv, TypeOK
  <2>3. UNCHANGED <<exported, delivered>>
    BY <1>1 DEF UpdatePieceStatus
  <2>4. CASE passed'[p] = Stages /\ passed[p] # Stages
    <3>1. ~exported[p]
      BY <2>1, <2>4 DEF IInv, PieceInv
    <3>2. Complete' = Complete \cup {p} /\ p \notin Complete
      BY <2>1, <2>2, <2>4
    <3>3. Owed' = Owed \cup {p} /\ Had' = Had
      BY <2>1, <2>2, <2>3, <2>4, <3>1
    <3>4. Outbox!Accept(p)
      BY <3>2, <3>3 DEF Outbox!Accept
    <3> QED
      BY <3>4 DEF Outbox!QNext
  <2>5. CASE ~(passed'[p] = Stages /\ passed[p] # Stages)
    <3>1. \A x \in Pieces : passed'[x] = Stages <=> passed[x] = Stages
      <4>1. ASSUME NEW x \in Pieces \ {p} PROVE passed'[x] = Stages <=> passed[x] = Stages
        BY <2>2
      <4>2. passed'[p] = Stages <=> passed[p] = Stages
        BY <2>2, <2>5
      <4> QED
        BY <4>1, <4>2
    <3>2. Complete' = Complete /\ Owed' = Owed /\ Had' = Had
      BY <2>3, <3>1
    <3> QED
      BY <3>2 DEF Outbox!qvars
  <2> QED
    BY <2>4, <2>5
<1>2. ASSUME NEW r \in Requests, ExportPiece(r) PROVE Outbox!QNext
  <2>1. req[r].piece \in Pieces /\ passed[req[r].piece] = Stages
    BY <1>2, BusyType DEF ExportPiece, IInv, WriteType, RequestInv, Idle
  <2> QED
    BY <1>2, <1>d, <2>1 DEF ExportPiece
<1>3. ASSUME NEW r \in Requests, FlagExported(r) PROVE Outbox!QNext
  <2>1. req[r].piece \in Pieces /\ delivered[req[r].piece] > 0
    BY <1>3, BusyType DEF FlagExported, IInv, WriteType, RequestInv, Idle
  <2> QED
    BY <1>3, <1>f, <2>1 DEF FlagExported, hist
<1>4. ASSUME NEW p \in Pieces, RetryExport(p) PROVE Outbox!QNext
  BY <1>4, <1>d DEF RetryExport, IInv, BeatInv
<1>5. CASE RetryFlag
  <2>1. sent \in Pieces /\ delivered[sent] > 0
    BY <1>5 DEF RetryFlag, IInv, TypeOK, BeatInv
  <2> QED
    BY <1>5, <1>f, <2>1 DEF RetryFlag, hist
<1>6. CASE UNCHANGED <<passed, exported, delivered>>
  <2>1. Complete' = Complete /\ Owed' = Owed /\ Had' = Had
    BY <1>6
  <2> QED
    BY <2>1 DEF Outbox!qvars
<1>7. \/ \E r \in Requests : UpdatePieceStatus(r) \/ ExportPiece(r) \/ FlagExported(r)
      \/ \E p \in Pieces : RetryExport(p)
      \/ RetryFlag
      \/ UNCHANGED <<passed, exported, delivered>>
  BY DEF Next, CreatePiece, Read, Abandon, RetryExportFails, RetrySelect, RetryDies, vars, hist
<1> QED
  BY <1>1, <1>2, <1>3, <1>4, <1>5, <1>6, <1>7

\* The request that approves a piece and the beat task implement the durable
\* queue: no approved piece is forgotten before Wiser has it, and Wiser gets no
\* other.
THEOREM ExportImplements == Spec => ExportsDurably
<1>1. Init => Outbox!QInit
  <2> SUFFICES ASSUME Init PROVE Outbox!QInit
    OBVIOUS
  <2> QED
    BY DEF Init, Outbox!QInit
<1> QED
  BY <1>1, Invariance, OutboxStep, PTL DEF Spec, ExportsDurably, Outbox!QSpec

\* So no piece is marked as exported that Wiser does not have.
THEOREM NoneForgotten == Spec => []Outbox!Durable
<1>1. IInv => Outbox!Durable
  BY DEF IInv, PieceInv, Outbox!Durable
<1> QED
  BY <1>1, Invariance, PTL

\* Without overlapping requests no rework goes uncounted.
THEOREM ReworksCounted == Spec => []CountMatches
<1>1. IInv => CountMatches
  BY DEF IInv, SerialInv, CountMatches
<1> QED
  BY <1>1, Invariance, PTL

\* Without overlapping requests every stored status follows the table of the
\* state machine.
THEOREM TableFollowed == Spec => FollowsUnlessRaced
<1> DEFINE Follows == \A p \in Pieces \ raced :
      status[p] # "none" /\ status'[p] # status[p] => status'[p] \in ValidTransitions[status[p]]
<1>1. IInv /\ [Next]_vars => [Follows]_vars
  <2> SUFFICES ASSUME IInv, Next PROVE Follows
    OBVIOUS
  <2>1. CASE \E p \in Pieces : CreatePiece(p)
    BY <2>1 DEF CreatePiece, IInv, TypeOK
  <2>2. CASE \E r \in Requests : UpdatePieceStatus(r)
    <3>1. PICK r \in Requests : UpdatePieceStatus(r)
      BY <2>2
    <3>2. req[r].piece \notin raced => req[r].to \in ValidTransitions[status[req[r].piece]]
      BY <3>1, UpdateStep
    <3>3. status' = [status EXCEPT ![req[r].piece] = req[r].to]
      BY <3>1 DEF UpdatePieceStatus
    <3> QED
      BY <3>2, <3>3 DEF IInv, TypeOK
  <2>3. CASE UNCHANGED status
    BY <2>3
  <2>4. Next => \/ \E p \in Pieces : CreatePiece(p)
                \/ \E r \in Requests : UpdatePieceStatus(r)
                \/ UNCHANGED status
    BY DEF Next, RetryExport, RetryExportFails, Read, ExportPiece, FlagExported, Abandon,
           RetrySelect, RetryFlag, RetryDies
  <2> QED
    BY <2>1, <2>2, <2>3, <2>4
<1> QED
  BY <1>1, Invariance, PTL DEF Spec, FollowsUnlessRaced

=============================================================================
