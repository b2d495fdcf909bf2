--------------------------- MODULE WorkerHeartbeat ---------------------------
(***************************************************************************)
(* The heartbeats of an on-premise worker and all that the API does with   *)
(* one: the registration at every few heartbeats, the camera_gap alert     *)
(* behind its time gate, and the restart command carried by the answer.    *)
(* The metrics it stores are left out. Two heartbeats can be in work:      *)
(* the worker gives a request up after ten seconds and sends the next one. *)
(* Their handlers share state in Redis and in the database only.           *)
(***************************************************************************)
EXTENDS Integers, FiniteSets

CONSTANTS
  Handlers,      \* gunicorn threads that can be serving a heartbeat
  Threshold,     \* LIVENESS_GAP_THRESHOLD_MINUTES, in ticks
  Ttl,           \* _GAP_TIMER_TTL_SECONDS, in ticks
  PersistEvery,  \* _HB_PERSIST_EVERY
  MaxFaults,     \* bound: calls of Redis that raise and handlers that die
  NoTimer        \* the key gap_since does not exist

ASSUME ConstantsOK ==
  /\ Threshold \in Nat \ {0} /\ Ttl \in Nat /\ Ttl > Threshold
  /\ PersistEvery \in Nat \ {0} /\ MaxFaults \in Nat
  /\ NoTimer \notin Nat

VARIABLES
  cams,      \* what the worker counts: "full", or "gap" (all heartbeat.py ever sends)
  up,        \* the worker runs
  pc, obs,   \* pc[h], obs[h]: a handler and what its heartbeat reports
  beats,     \* Redis: worker:hb_count:{schema}
  timer,     \* Redis: age of gap_since, or NoTimer
  command,   \* Redis: worker_command:{schema} exists
  rows,      \* active rows of worker_registry for the schema, up to 2
  open,      \* open camera_gap alerts of the site, up to 2
  late,      \* no heartbeat was evaluated since the last tick
  faults,
  raced,     \* history: "alert", "row": two handlers found none and had not inserted
  crowded,   \* history: a heartbeat came while another was in work; until then
  streak,    \*   age of the uninterrupted run of gap heartbeats
  early,     \*   an alert was created in a shorter run than the threshold
  owed,      \*   a restart was ordered that the worker has not obeyed
  spurious   \*   the worker restarted without one

site  == <<cams, up>>
redis == <<beats, timer, command>>
rest  == <<raced, crowded, streak, early, owed, spurious>>
vars  == <<site, pc, obs, redis, rows, open, late, faults, rest>>

-----------------------------------------------------------------------------
Init ==
  /\ cams \in {"full", "gap"} /\ up = TRUE
  /\ pc = [h \in Handlers |-> "idle"] /\ obs = [h \in Handlers |-> "full"]
  /\ beats = 0 /\ timer = NoTimer /\ command = FALSE
  /\ rows = 0 /\ open = 0 /\ late = FALSE /\ faults = 0
  /\ raced = {} /\ crowded = FALSE
  /\ streak = NoTimer /\ early = FALSE /\ owed = FALSE /\ spurious = FALSE

Goto(h, l) == pc' = [pc EXCEPT ![h] = l]
Others(h)  == Handlers \ {h}

\* Heartbeats have come one by one and nothing has failed.
Serial == ~crowded /\ faults = 0

\* A call of Redis raises, or a handler dies.
Fault == faults < MaxFaults /\ faults' = faults + 1

(* The site and the clock. *)

Cameras ==
  /\ cams' \in {"full", "gap"} \ {cams}
  /\ UNCHANGED <<up, pc, obs, redis, rows, open, late, faults, rest>>

Worker ==
  /\ up' = ~up
  /\ UNCHANGED <<cams, pc, obs, redis, rows, open, late, faults, rest>>

Older(age, cap) == IF age = NoTimer THEN NoTimer ELSE IF age < cap THEN age + 1 ELSE cap

\* A tick is some heartbeats long: one at least is evaluated in it while the
\* worker is up. A key that has reached its time to live is gone.
Tick ==
  /\ up => ~late
  /\ late' = TRUE
  /\ timer' = IF timer = Ttl THEN NoTimer ELSE Older(timer, Ttl)
  /\ streak' = Older(streak, Threshold)
  /\ UNCHANGED <<site, pc, obs, beats, command, rows, open, faults, raced,
                 crowded, early, owed, spurious>>

\* 300 s and 120 s: the ages of these keys are not counted.
CountExpires ==
  /\ beats > 0 /\ beats' = 0
  /\ UNCHANGED <<site, pc, obs, timer, command, rows, open, late, faults, rest>>

CommandExpires ==
  /\ command /\ command' = FALSE
  /\ UNCHANGED <<site, pc, obs, beats, timer, rows, open, late, faults, rest>>

(* The routes of the panel. *)

RestartWorker ==
  /\ command' = TRUE
  /\ owed' = ~crowded
  /\ UNCHANGED <<site, pc, obs, beats, timer, rows, open, late, faults, raced,
                 crowded, streak, early, spurious>>

\* Another route: an operator acknowledges an alert.
Acknowledge ==
  /\ open > 0 /\ open' = open - 1
  /\ UNCHANGED <<site, pc, obs, redis, rows, late, faults, rest>>

-----------------------------------------------------------------------------
(* worker_heartbeat, one action per call that other handlers can come      *)
(* between.                                                                *)

\* The worker sends a heartbeat.
Receive(h) ==
  /\ pc[h] = "idle" /\ up
  /\ Goto(h, "publish")
  /\ obs' = [obs EXCEPT ![h] = cams]
  /\ crowded' = (crowded \/ \E o \in Others(h) : pc[o] # "idle")
  /\ streak' = IF cams = "full" \/ crowded' THEN NoTimer
               ELSE IF streak = NoTimer THEN 0 ELSE streak
  /\ owed' = (owed /\ ~crowded')
  /\ UNCHANGED <<site, redis, rows, open, late, faults, raced, early, spurious>>

\* Where check_camera_liveness begins.
Check(h) == IF obs[h] = "gap" THEN "timer" ELSE "clear"

\* publish_heartbeat: INCR of the counter. The key it writes before is read by
\* the panel only.
PublishHeartbeat(h) ==
  /\ pc[h] = "publish"
  /\ \/ /\ beats' = IF beats < PersistEvery THEN beats + 1 ELSE beats
        /\ Goto(h, IF beats' = PersistEvery THEN "persist" ELSE Check(h))
        /\ UNCHANGED faults
     \/ Fault /\ Goto(h, Check(h)) /\ UNCHANGED beats
  /\ UNCHANGED <<site, obs, timer, command, rows, open, late, rest>>

\* DEL of the counter, and the SELECTs of _persist_worker_metrics: a schema with
\* a row is not registered again, one that no tenant has not at all.
PersistWorkerMetrics(h) ==
  /\ pc[h] = "persist"
  /\ beats' = 0
  /\ \/ /\ rows = 0 /\ Goto(h, "register")
        /\ raced' = raced \cup {"row" : o \in {g \in Others(h) : pc[g] = "register"}}
     \/ Goto(h, Check(h)) /\ UNCHANGED raced
  /\ UNCHANGED <<site, obs, timer, command, rows, open, late, faults, crowded,
                 streak, early, owed, spurious>>

\* INSERT INTO worker_registry: no constraint makes the schema unique.
Register(h) ==
  /\ pc[h] = "register"
  /\ rows' = IF rows = 2 THEN 2 ELSE rows + 1
  /\ Goto(h, Check(h))
  /\ UNCHANGED <<site, obs, redis, open, late, faults, rest>>

\* Mutant: the time that has passed is not compared with the threshold.
HandleGapAtOnce(h) ==
  /\ pc[h] = "timer" /\ late' = FALSE
  /\ timer' = IF timer = NoTimer THEN 0 ELSE timer
  /\ Goto(h, "ensure")
  /\ UNCHANGED <<site, obs, beats, command, rows, open, faults, rest>>

\* Mutant: SET without NX.
HandleGapRestart(h) ==
  /\ pc[h] = "timer" /\ late' = FALSE
  /\ timer' = 0
  /\ Goto(h, "command")
  /\ UNCHANGED <<site, obs, beats, command, rows, open, faults, rest>>

\* _handle_gap: SET NX of gap_since, else GET, and the comparison. When Redis
\* raises the whole check is given up.
HandleGap(h) ==
  /\ pc[h] = "timer" /\ late' = FALSE
  /\ \/ /\ timer' = IF timer = NoTimer THEN 0 ELSE timer
        /\ Goto(h, IF timer' < Threshold THEN "command" ELSE "ensure")
        /\ UNCHANGED faults
     \/ Fault /\ Goto(h, "command") /\ UNCHANGED timer
  /\ UNCHANGED <<site, obs, beats, command, rows, open, rest>>

\* Mutant: the alert that is open is not looked for.
EnsureGapAlertBlind(h) ==
  /\ pc[h] = "ensure"
  /\ Goto(h, "create")
  /\ UNCHANGED <<site, obs, redis, rows, open, late, faults, rest>>

\* _ensure_gap_alert: the SELECT of an open alert.
EnsureGapAlert(h) ==
  /\ pc[h] = "ensure"
  /\ Goto(h, IF open > 0 THEN "command" ELSE "create")
  /\ raced' = raced \cup {"alert" : o \in {g \in Others(h) : open = 0 /\ pc[g] = "create"}}
  /\ UNCHANGED <<site, obs, redis, rows, open, late, faults, crowded, streak,
                 early, owed, spurious>>

\* find_camera_for_tenant: without an active camera there is no alert.
NoAnchorCamera(h) ==
  /\ pc[h] = "ensure" /\ open = 0
  /\ Goto(h, "command")
  /\ UNCHANGED <<site, obs, redis, rows, open, late, faults, rest>>

\* create_gap_alert: a transaction of its own.
CreateGapAlert(h) ==
  /\ pc[h] = "create"
  /\ open' = IF open = 2 THEN 2 ELSE open + 1
  /\ early' = (early \/ (Serial /\ streak # Threshold))
  /\ Goto(h, "command")
  /\ UNCHANGED <<site, obs, redis, rows, late, faults, raced, crowded, streak, owed,
                 spurious>>

\* Mutant: without a timer there is taken to be nothing to acknowledge.
ClearGapTimerOnly(h) ==
  /\ pc[h] = "clear" /\ late' = FALSE
  /\ timer' = NoTimer
  /\ Goto(h, IF timer = NoTimer THEN "command" ELSE "ack")
  /\ UNCHANGED <<site, obs, beats, command, rows, open, faults, rest>>

\* _clear_gap_timer: a failure is logged and the acknowledgement goes on.
ClearGapTimer(h) ==
  /\ pc[h] = "clear" /\ late' = FALSE
  /\ \/ timer' = NoTimer /\ UNCHANGED faults
     \/ Fault /\ UNCHANGED timer
  /\ Goto(h, "ack")
  /\ UNCHANGED <<site, obs, beats, command, rows, open, rest>>

\* Mutant: one alert is taken off, whether or not there is one.
AcknowledgeGapAlertsCount(h) ==
  /\ pc[h] = "ack"
  /\ open' = open - 1
  /\ Goto(h, "command")
  /\ UNCHANGED <<site, obs, redis, rows, late, faults, rest>>

\* acknowledge_gap_alerts: every open alert of the site.
AcknowledgeGapAlerts(h) ==
  /\ pc[h] = "ack"
  /\ open' = 0
  /\ Goto(h, "command")
  /\ UNCHANGED <<site, obs, redis, rows, late, faults, rest>>

\* GET of the pending command; any exception is passed over.
ReadCommand(h) ==
  /\ pc[h] = "command"
  /\ \/ Goto(h, IF command THEN "delete" ELSE "idle") /\ UNCHANGED faults
     \/ Fault /\ Goto(h, "idle")
  /\ UNCHANGED <<site, obs, redis, rows, open, late, rest>>

\* The worker obeys an answer that reaches it: it exits, Docker starts it again.
Answer(h) ==
  /\ Goto(h, "idle")
  /\ \/ owed' = FALSE /\ spurious' = (spurious \/ (Serial /\ ~owed))
     \/ UNCHANGED <<owed, spurious>>

\* Mutant: the command is left to expire.
DeleteCommandKept(h) ==
  /\ pc[h] = "delete"
  /\ Answer(h)
  /\ UNCHANGED <<site, obs, redis, rows, open, late, faults, raced, crowded,
                 streak, early>>

\* DEL of the command, and the answer, which carries the command also when DEL
\* raised.
DeleteCommand(h) ==
  /\ pc[h] = "delete"
  /\ \/ command' = FALSE /\ UNCHANGED faults
     \/ Fault /\ UNCHANGED command
  /\ Answer(h)
  /\ UNCHANGED <<site, obs, beats, timer, rows, open, late, raced,
                 crowded, streak, early>>

\* The thread dies: what was done stays.
Die(h) ==
  /\ pc[h] # "idle" /\ Fault
  /\ Goto(h, "idle")
  /\ UNCHANGED <<site, obs, redis, rows, open, late, rest>>

Serve(h) ==
  \/ PublishHeartbeat(h) \/ PersistWorkerMetrics(h) \/ Register(h)
  \/ HandleGap(h) \/ EnsureGapAlert(h) \/ NoAnchorCamera(h) \/ CreateGapAlert(h)
  \/ ClearGapTimer(h) \/ AcknowledgeGapAlerts(h)
  \/ ReadCommand(h) \/ DeleteCommand(h)

Next ==
  \/ Cameras \/ Worker \/ Tick \/ CountExpires \/ CommandExpires
  \/ RestartWorker \/ Acknowledge
  \/ \E h \in Handlers : Receive(h) \/ Serve(h) \/ Die(h)

Spec == Init /\ [][Next]_vars

\* A running worker beats for ever, gunicorn serves every request and time
\* passes.
FairSpec ==
  /\ Spec
  /\ WF_vars(Tick)
  /\ \A h \in Handlers : WF_vars(Receive(h)) /\ WF_vars(Serve(h))

-----------------------------------------------------------------------------
TypeOK ==
  /\ cams \in {"full", "gap"} /\ up \in BOOLEAN
  /\ pc \in [Handlers -> {"idle", "publish", "persist", "register", "timer", "ensure",
                          "create", "clear", "ack", "command", "delete"}]
  /\ obs \in [Handlers -> {"full", "gap"}]
  /\ beats \in 0..PersistEvery
  /\ timer \in 0..Ttl \cup {NoTimer} /\ command \in BOOLEAN
  /\ rows \in 0..2 /\ open \in 0..2
  /\ late \in BOOLEAN /\ faults \in 0..MaxFaults
  /\ raced \subseteq {"alert", "row"} /\ crowded \in BOOLEAN
  /\ streak \in 0..Threshold \cup {NoTimer}
  /\ early \in BOOLEAN /\ owed \in BOOLEAN /\ spurious \in BOOLEAN

\* "idempotent - one open alert per site", and "Auto-registrar worker ao primeiro
\* heartbeat com banco": a site gets a second open alert, or a second row in the
\* registry, only when two handlers had both found none before either created
\* its own.
OneOpenAlert    == open > 1 => "alert" \in raced
OneRegistration == rows > 1 => "row" \in raced
NoDoubles == OneOpenAlert /\ OneRegistration

\* "A gap that resolves before the threshold elapses never creates an alert", and
\* "the NEXT gap (if any) starts counting from zero again": every alert closes a
\* run of gap heartbeats as long as the threshold, while heartbeats come one by
\* one and neither Redis nor a handler fails.
NoEarlyAlert == ~early

\* A worker restarts no more often than it was told to, although the command
\* stays in Redis until an answer has taken it away; under the same conditions.
NoSpuriousRestart == ~spurious

\* A gap that lasts is alerted in the end, and again when the operator has
\* acknowledged it, whatever keys expire meanwhile, if only the tenant has an
\* active camera from some time on.
Anchored == [][\A h \in Handlers : ~NoAnchorCamera(h)]_vars
GapIsAlerted == <>[](cams = "gap" /\ up) /\ <>Anchored => []<>(open > 0)

\* Once all cameras are back no alert stays open, also one that a late handler
\* opened after the recovery, also a second one of the same gap.
RecoveryAcknowledges == <>[](cams = "full" /\ up) => <>[](open = 0)

=============================================================================
