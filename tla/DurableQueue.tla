---------------------------- MODULE DurableQueue ----------------------------
(***************************************************************************)
(* What two parts of the system promise, with none of their machinery: an  *)
(* event, once accepted, is owed to a receiver until the receiver has it,  *)
(* and the receiver gets nothing else. The edge agent's buffer and         *)
(* uploader owe detections to the cloud ("survives restarts, never         *)
(* discards"); the quality gate owes approved pieces to the Wiser ERP.     *)
(***************************************************************************)
CONSTANT Events

VARIABLES accepted,   \* events whose acceptance is committed
          owed,       \* accepted events not known to be delivered
          delivered   \* events the receiver has

qvars == <<accepted, owed, delivered>>

\* What was accepted before the start is still owed.
QInit == accepted \subseteq Events /\ owed = accepted /\ delivered = {}

Accept(e) ==
  /\ e \notin accepted
  /\ accepted' = accepted \cup {e} /\ owed' = owed \cup {e}
  /\ UNCHANGED delivered

Deliver(e) ==
  /\ e \in accepted
  /\ delivered' = delivered \cup {e}
  /\ UNCHANGED <<accepted, owed>>

\* The debt is settled only for events the receiver has.
Settle(S) ==
  /\ S \subseteq delivered
  /\ owed' = owed \ S
  /\ UNCHANGED <<accepted, delivered>>

QNext == \/ \E e \in Events : Accept(e) \/ Deliver(e)
         \/ \E S \in SUBSET Events : Settle(S)

QSpec == QInit /\ [][QNext]_qvars

\* No accepted event is forgotten before it is delivered.
Durable == accepted \subseteq owed \cup delivered
=============================================================================
