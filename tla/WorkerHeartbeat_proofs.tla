----------------------- MODULE WorkerHeartbeat_proofs -----------------------
(***************************************************************************)
(* Proofs about WorkerHeartbeat, for any number of handlers, thresholds    *)
(* and times to live: second alerts and rows take a race, and, as long as  *)
(* heartbeats come one by one and nothing fails, no alert is early and no  *)
(* restart unordered. For the last two the invariant ties the timer to the *)
(* run of gap heartbeats it measures, and the command to the order.        *)
(***************************************************************************)
EXTENDS WorkerHeartbeat, TLAPS

Places == {"idle", "publish", "persist", "register", "timer", "ensure",
           "create", "clear", "ack", "command", "delete"}

\* A handler is on the branch of what its heartbeat reports.
BranchInv == \A h \in Handlers : /\ pc[h] \in {"timer", "ensure", "create"} => obs[h] = "gap"
                                 /\ pc[h] \in {"clear", "ack"} => obs[h] = "full"

\* Without a race, who is about to insert is alone and there is nothing yet.
AlertInv == "alert" \notin raced =>
  /\ open <= 1
  /\ \A h \in Handlers : pc[h] = "create" => open = 0
  /\ \A h, g \in Handlers : pc[h] = "create" /\ pc[g] = "create" => h = g
RowInv == "row" \notin raced =>
  /\ rows <= 1
  /\ \A h \in Handlers : pc[h] = "register" => rows = 0
  /\ \A h, g \in Handlers : pc[h] = "register" /\ pc[g] = "register" => h = g

\* One heartbeat at a time.
AloneInv == Serial => \A h, g \in Handlers : pc[h] # "idle" /\ pc[g] # "idle" => h = g

\* The timer is not older than the run of gap heartbeats, unless the heartbeat
\* that ended the run has yet to clear it.
Clearing == \E h \in Handlers : obs[h] = "full" /\ pc[h] \in {"publish", "persist", "register", "clear"}
TimerInv == Serial /\ timer # NoTimer =>
  Clearing \/ (streak # NoTimer /\ (timer <= streak \/ streak = Threshold))

\* A gap heartbeat in work is part of a run, and an alert in work of a long one.
StreakInv == Serial => \A h \in Handlers :
  /\ obs[h] = "gap" /\ pc[h] \in {"publish", "persist", "register", "timer"} => streak # NoTimer
  /\ pc[h] \in {"ensure", "create"} => streak = Threshold

\* A command in Redis, or already read, has been ordered and not obeyed.
CommandInv == Serial /\ (command \/ \E h \in Handlers : pc[h] = "delete") => owed

IInv == /\ TypeOK /\ BranchInv /\ AlertInv /\ RowInv /\ AloneInv
        /\ TimerInv /\ StreakInv /\ CommandInv /\ ~early /\ ~spurious

-----------------------------------------------------------------------------
\* The initial states satisfy the inductive invariant.
LEMMA InitIInv == Init => IInv
<1> SUFFICES ASSUME Init PROVE IInv
  OBVIOUS
<1>1. \A h \in Handlers : pc[h] = "idle"
  BY DEF Init
<1>2. TypeOK
  <2>1. /\ pc \in [Handlers -> Places] /\ obs \in [Handlers -> {"full", "gap"}]
        /\ cams \in {"full", "gap"} /\ beats \in 0..PersistEvery /\ faults \in 0..MaxFaults
        /\ rows \in 0..2 /\ open \in 0..2
    BY ConstantsOK DEF Init, Places
  <2>2. /\ up \in BOOLEAN /\ command \in BOOLEAN /\ late \in BOOLEAN
        /\ crowded \in BOOLEAN /\ early \in BOOLEAN /\ owed \in BOOLEAN /\ spurious \in BOOLEAN
    BY DEF Init
  <2> QED
    BY <2>1, <2>2 DEF Init, TypeOK, Places
<1>3. BranchInv /\ AlertInv /\ RowInv /\ AloneInv /\ StreakInv
  BY <1>1 DEF Init, BranchInv, AlertInv, RowInv, AloneInv, StreakInv
<1>4. TimerInv
  BY DEF Init, TimerInv
<1>5. CommandInv /\ ~early /\ ~spurious
  BY <1>1 DEF Init, CommandInv
<1> QED
  BY <1>2, <1>3, <1>4, <1>5 DEF IInv

\* One handler goes on to l.
LEMMA Goes == ASSUME TypeOK, NEW h \in Handlers, NEW l \in Places, Goto(h, l)
              PROVE  /\ pc' \in [Handlers -> Places]
                     /\ \A g \in Handlers : pc'[g] = IF g = h THEN l ELSE pc[g]
  BY DEF TypeOK, Goto, Places

\* The site, the keys' expiry and the panel.
LEMMA SiteStep ==
  ASSUME IInv, \/ Cameras \/ Worker \/ CountExpires \/ CommandExpires
               \/ RestartWorker \/ Acknowledge
  PROVE  IInv'
<1>1. /\ UNCHANGED <<pc, obs, timer, rows, late, faults, raced, crowded, streak, early, spurious>>
      /\ cams' \in {"full", "gap"} /\ beats' \in 0..PersistEvery
      /\ open' = open \/ (open > 0 /\ open' = open - 1)
  BY ConstantsOK DEF Cameras, Worker, CountExpires, CommandExpires,
     RestartWorker, Acknowledge, site, redis, rest, IInv, TypeOK
<1>2. up' \in BOOLEAN /\ command' \in BOOLEAN /\ owed' \in BOOLEAN
  BY DEF Cameras, Worker, CountExpires, CommandExpires,
     RestartWorker, Acknowledge, site, redis, rest, IInv, TypeOK
<1>3. TypeOK'
  BY <1>1, <1>2 DEF IInv, TypeOK
<1>4. AlertInv'
  BY <1>1 DEF IInv, AlertInv, TypeOK
<1>5. BranchInv' /\ RowInv' /\ AloneInv' /\ TimerInv' /\ StreakInv'
  BY <1>1 DEF IInv, BranchInv, RowInv, AloneInv, TimerInv, StreakInv, Serial, Clearing
<1>6. CommandInv'
  <2>1. CASE RestartWorker
    <3>1. Serial' => owed'
      BY <2>1 DEF RestartWorker, Serial
    <3> QED
      BY <3>1 DEF CommandInv
  <2>2. CASE ~RestartWorker
    <3>1. owed' = owed /\ (command' => command)
      BY <2>2 DEF Cameras, Worker, CountExpires, CommandExpires,
         Acknowledge, redis, rest
    <3> QED
      BY <1>1, <3>1 DEF IInv, CommandInv, Serial
  <2> QED
    BY <2>1, <2>2
<1> QED
  BY <1>1, <1>3, <1>4, <1>5, <1>6 DEF IInv

\* The clock: timer and run age together.
LEMMA TickStep == ASSUME IInv, Tick PROVE IInv'
<1>1. /\ UNCHANGED <<site, pc, obs, beats, command, rows, open, faults, raced,
                     crowded, early, owed, spurious>>
      /\ timer' = IF timer = Ttl THEN NoTimer ELSE Older(timer, Ttl)
      /\ streak' = Older(streak, Threshold) /\ late' = TRUE
  BY DEF Tick
<1>2. TypeOK'
  <2>1. timer' \in 0..Ttl \cup {NoTimer} /\ streak' \in 0..Threshold \cup {NoTimer}
    BY <1>1, ConstantsOK DEF Older, IInv, TypeOK
  <2>2. late' \in BOOLEAN
    BY <1>1
  <2> QED
    BY <1>1, <2>1, <2>2 DEF IInv, TypeOK, site
<1>3. BranchInv' /\ AlertInv' /\ RowInv' /\ AloneInv' /\ CommandInv' /\ ~early' /\ ~spurious'
  BY <1>1 DEF IInv, BranchInv, AlertInv, RowInv, AloneInv, CommandInv, Serial
<1>4. TimerInv'
  <2>1. /\ timer' # NoTimer => timer # NoTimer /\ timer' = timer + 1 /\ timer \in Nat
        /\ streak # NoTimer => streak' # NoTimer /\ streak' \in Nat
                               /\ (streak' = streak + 1 \/ streak' = Threshold)
        /\ streak = Threshold => streak' = Threshold
    BY <1>1, ConstantsOK DEF Older, IInv, TypeOK
  <2>2. Clearing' = Clearing /\ Serial' = Serial
    BY <1>1 DEF Clearing, Serial
  <2>3. streak # NoTimer => streak \in Nat
    BY DEF IInv, TypeOK
  <2> QED
    BY <2>1, <2>2, <2>3 DEF IInv, TimerInv
<1>5. StreakInv'
  <2>1. /\ streak # NoTimer => streak' # NoTimer
        /\ streak = Threshold => streak' = Threshold
    BY <1>1, ConstantsOK DEF Older, IInv, TypeOK
  <2> QED
    BY <1>1, <2>1 DEF IInv, StreakInv, Serial
<1> QED
  BY <1>2, <1>3, <1>4, <1>5 DEF IInv

\* A heartbeat comes: either another is in work, or it alone goes on with the
\* run or ends it.
LEMMA ReceiveStep == ASSUME IInv, NEW h \in Handlers, Receive(h) PROVE IInv'
<1>1. /\ pc[h] = "idle" /\ Goto(h, "publish") /\ obs' = [obs EXCEPT ![h] = cams]
      /\ crowded' = (crowded \/ \E o \in Others(h) : pc[o] # "idle")
      /\ streak' = IF cams = "full" \/ crowded' THEN NoTimer
                   ELSE IF streak = NoTimer THEN 0 ELSE streak
      /\ owed' = (owed /\ ~crowded')
      /\ UNCHANGED <<site, redis, rows, open, late, faults, raced, early, spurious>>
  BY DEF Receive
<1>2. /\ pc' \in [Handlers -> Places]
      /\ \A g \in Handlers : pc'[g] = IF g = h THEN "publish" ELSE pc[g]
  BY <1>1, Goes DEF IInv, Places
<1>3. \A g \in Handlers : obs'[g] = IF g = h THEN cams ELSE obs[g]
  BY <1>1 DEF IInv, TypeOK
<1>4. TypeOK'
  <2>1. crowded' \in BOOLEAN /\ owed' \in BOOLEAN
    BY <1>1
  <2>2. streak' \in 0..Threshold \cup {NoTimer} /\ obs' \in [Handlers -> {"full", "gap"}]
    BY <1>1, ConstantsOK DEF IInv, TypeOK
  <2> QED
    BY <1>1, <1>2, <2>1, <2>2 DEF IInv, TypeOK, site, redis, Places
<1>5. BranchInv' /\ AlertInv' /\ RowInv'
  BY <1>1, <1>2, <1>3 DEF IInv, BranchInv, AlertInv, RowInv
<1>6. Serial' => Serial /\ ~crowded' /\ \A g \in Handlers : g # h => pc[g] = "idle"
  BY <1>1 DEF Serial, Others
<1>7. AloneInv'
  BY <1>2, <1>6 DEF AloneInv
<1>8. TimerInv'
  <2>1. CASE cams = "full"
    BY <1>2, <1>3, <2>1 DEF TimerInv, Clearing
  <2>2. CASE cams = "gap" /\ Serial' /\ timer # NoTimer
    <3>1. ~Clearing
      BY <1>1, <1>6, <2>2 DEF Clearing
    <3>2. streak # NoTimer /\ (timer <= streak \/ streak = Threshold)
      BY <1>6, <2>2, <3>1 DEF IInv, TimerInv
    <3>3. streak' = streak /\ timer' = timer
      BY <1>1, <1>6, <2>2, <3>2 DEF redis
    <3> QED
      BY <3>2, <3>3 DEF TimerInv
  <2>3. cams \in {"full", "gap"} /\ timer' = timer
    BY <1>1 DEF IInv, TypeOK, redis
  <2> QED
    BY <2>1, <2>2, <2>3 DEF TimerInv
<1>9. StreakInv'
  <2>1. Serial' /\ cams = "gap" => streak' # NoTimer
    BY <1>1, <1>6, ConstantsOK
  <2> QED
    BY <1>2, <1>3, <1>6, <2>1 DEF StreakInv
<1>10. CommandInv'
  <2>1. Serial' => (owed => owed')
    BY <1>1, <1>6
  <2>2. command' = command
    BY <1>1 DEF redis
  <2> QED
    BY <1>2, <1>6, <2>1, <2>2 DEF IInv, CommandInv
<1> QED
  BY <1>1, <1>4, <1>5, <1>7, <1>8, <1>9, <1>10 DEF IInv

-----------------------------------------------------------------------------
\* After a fault nothing more is promised of timers and orders.
LEMMA AfterFault == ASSUME IInv, Fault PROVE ~Serial' /\ faults' \in 0..MaxFaults
  BY ConstantsOK DEF Fault, Serial, IInv, TypeOK

\* What the invariant says to a handler that serves the only heartbeat.
LEMMA Own ==
  ASSUME IInv, NEW h \in Handlers, pc[h] # "idle", Serial
  PROVE  /\ \A g \in Handlers : g # h => pc[g] = "idle"
         /\ timer # NoTimer =>
              \/ obs[h] = "full" /\ pc[h] \in {"publish", "persist", "register", "clear"}
              \/ streak # NoTimer /\ (timer <= streak \/ streak = Threshold)
         /\ obs[h] = "gap" /\ pc[h] \in {"publish", "persist", "register", "timer"} => streak # NoTimer
         /\ pc[h] \in {"ensure", "create"} => streak = Threshold
         /\ command \/ pc[h] = "delete" => owed
<1>1. \A g \in Handlers : g # h => pc[g] = "idle"
  BY DEF IInv, AloneInv
<1>2. Clearing => obs[h] = "full" /\ pc[h] \in {"publish", "persist", "register", "clear"}
  BY <1>1 DEF Clearing
<1> QED
  BY <1>1, <1>2 DEF IInv, TimerInv, StreakInv, CommandInv

\* What such a handler owes the invariant when it goes on to l.
LEMMA OwnKept ==
  ASSUME IInv, NEW h \in Handlers, pc[h] # "idle", NEW l \in Places, Goto(h, l),
         UNCHANGED <<obs, streak>>, Serial' => Serial,
         Serial' => /\ timer' # NoTimer =>
                         \/ obs[h] = "full" /\ l \in {"publish", "persist", "register", "clear"}
                         \/ streak # NoTimer /\ (timer' <= streak \/ streak = Threshold)
                    /\ obs[h] = "gap" /\ l \in {"publish", "persist", "register", "timer"}
                         => streak # NoTimer
                    /\ l \in {"ensure", "create"} => streak = Threshold
                    /\ command' \/ l = "delete" => owed'
  PROVE  AloneInv' /\ TimerInv' /\ StreakInv' /\ CommandInv'
<1>1. \A g \in Handlers : pc'[g] = IF g = h THEN l ELSE pc[g]
  BY Goes DEF IInv
<1>2. Serial' => \A g \in Handlers : g # h => pc'[g] = "idle"
  BY <1>1 DEF IInv, AloneInv
<1>3. AloneInv'
  BY <1>2 DEF AloneInv
<1>4. StreakInv'
  BY <1>1, <1>2 DEF StreakInv
<1>5. CommandInv'
  BY <1>1, <1>2 DEF CommandInv
<1>6. obs[h] = "full" /\ l \in {"publish", "persist", "register", "clear"} => Clearing'
  BY <1>1 DEF Clearing
<1>7. TimerInv'
  BY <1>6 DEF TimerInv
<1> QED
  BY <1>3, <1>4, <1>5, <1>7

\* A handler that neither finds nor inserts anything, at most takes alerts off.
LEMMA RaceKept ==
  ASSUME IInv, NEW h \in Handlers, NEW l \in Places \ {"create", "register"}, Goto(h, l),
         UNCHANGED <<obs, raced, rows>>, open' \in {open, 0},
         l \in {"timer", "ensure"} => obs[h] = "gap", l \in {"clear", "ack"} => obs[h] = "full"
  PROVE  BranchInv' /\ AlertInv' /\ RowInv'
<1>1. \A g \in Handlers : pc'[g] = IF g = h THEN l ELSE pc[g]
  BY Goes DEF IInv
<1> QED
  BY <1>1 DEF IInv, BranchInv, AlertInv, RowInv

LEMMA CheckPlace ==
  ASSUME IInv, NEW h \in Handlers
  PROVE  /\ Check(h) \in {"timer", "clear"} /\ obs[h] \in {"full", "gap"}
         /\ Check(h) = "timer" => obs[h] = "gap"
         /\ Check(h) = "clear" => obs[h] = "full"
  BY DEF Check, IInv, TypeOK

LEMMA PublishStep == ASSUME IInv, NEW h \in Handlers, PublishHeartbeat(h) PROVE IInv'
<1>1. PICK l \in {"persist", "timer", "clear"} : Goto(h, l) /\ (l # "persist" => l = Check(h))
  BY CheckPlace DEF PublishHeartbeat
<1>2. /\ UNCHANGED <<site, obs, timer, command, rows, open, late, rest>> /\ pc[h] = "publish"
      /\ (faults' = faults \/ Fault) /\ beats' \in 0..PersistEvery
  BY ConstantsOK DEF PublishHeartbeat, IInv, TypeOK
<1>4. faults' \in 0..MaxFaults /\ (Serial' => Serial)
  BY <1>2, AfterFault DEF IInv, TypeOK, Serial, rest
<1>5. TypeOK'
  BY <1>1, <1>2, <1>4, Goes DEF IInv, TypeOK, Places, site, rest
<1>6. BranchInv' /\ AlertInv' /\ RowInv'
  BY <1>1, <1>2, CheckPlace, RaceKept DEF Places, rest
<1>7. AloneInv' /\ TimerInv' /\ StreakInv' /\ CommandInv'
  BY <1>1, <1>2, <1>4, CheckPlace, Own, OwnKept DEF Places, rest
<1> QED
  BY <1>2, <1>5, <1>6, <1>7 DEF IInv, rest

LEMMA PersistStep == ASSUME IInv, NEW h \in Handlers, PersistWorkerMetrics(h) PROVE IInv'
<1>1. PICK l \in {"register", "timer", "clear"} :
        /\ Goto(h, l) /\ (l # "register" => l = Check(h)) /\ (l = "register" => rows = 0)
        /\ raced' = IF l = "register"
                    THEN raced \cup {"row" : o \in {g \in Others(h) : pc[g] = "register"}} ELSE raced
  BY CheckPlace DEF PersistWorkerMetrics
<1>2. /\ UNCHANGED <<site, obs, timer, command, rows, open, late, faults, crowded,
                     streak, early, owed, spurious>>
      /\ pc[h] = "persist" /\ beats' = 0
  BY DEF PersistWorkerMetrics
<1>3. /\ pc' \in [Handlers -> Places]
      /\ \A g \in Handlers : pc'[g] = IF g = h THEN l ELSE pc[g]
  BY <1>1, Goes DEF IInv, Places
<1>4. TypeOK'
  <2>1. beats' \in 0..PersistEvery
    BY <1>2, ConstantsOK
  <2>2. raced' \subseteq {"alert", "row"}
    BY <1>1 DEF IInv, TypeOK
  <2> QED
    BY <1>2, <1>3, <2>1, <2>2 DEF IInv, TypeOK, Places, site
<1>5. BranchInv' /\ AlertInv'
  <2>1. "alert" \notin raced' => "alert" \notin raced
    BY <1>1
  <2> QED
    BY <1>1, <1>2, <1>3, <2>1, CheckPlace DEF IInv, BranchInv, AlertInv
<1>6. RowInv'
  <2>1. "row" \notin raced' => "row" \notin raced
          /\ (l = "register" => \A g \in Handlers : g # h => pc[g] # "register")
    BY <1>1 DEF Others
  <2> QED
    BY <1>1, <1>2, <1>3, <2>1 DEF IInv, RowInv
<1>7. AloneInv' /\ TimerInv' /\ StreakInv' /\ CommandInv'
  <2>1. Serial' => Serial
    BY <1>2 DEF Serial
  <2> QED
    BY <1>1, <1>2, <2>1, CheckPlace, Own, OwnKept DEF Places
<1> QED
  BY <1>2, <1>4, <1>5, <1>6, <1>7 DEF IInv

LEMMA RegisterStep == ASSUME IInv, NEW h \in Handlers, Register(h) PROVE IInv'
<1>1. PICK l \in {"timer", "clear"} : Goto(h, l) /\ l = Check(h)
  BY CheckPlace DEF Register
<1>2. /\ UNCHANGED <<site, obs, redis, open, late, faults, rest>> /\ pc[h] = "register"
      /\ rows' = IF rows = 2 THEN 2 ELSE rows + 1
  BY DEF Register
<1>3. /\ pc' \in [Handlers -> Places]
      /\ \A g \in Handlers : pc'[g] = IF g = h THEN l ELSE pc[g]
  BY <1>1, Goes DEF IInv, Places
<1>4. TypeOK'
  BY <1>2, <1>3 DEF IInv, TypeOK, Places, site, redis, rest
<1>5. BranchInv' /\ AlertInv'
  BY <1>1, <1>2, <1>3, CheckPlace DEF IInv, BranchInv, AlertInv, rest
<1>6. RowInv'
  BY <1>1, <1>2, <1>3 DEF IInv, RowInv, rest
<1>7. AloneInv' /\ TimerInv' /\ StreakInv' /\ CommandInv'
  <2>1. Serial' => Serial
    BY <1>2 DEF Serial, rest
  <2> QED
    BY <1>1, <1>2, <2>1, CheckPlace, Own, OwnKept DEF Places, redis, rest
<1> QED
  BY <1>2, <1>4, <1>5, <1>6, <1>7 DEF IInv, rest

\* The comparison: a timer that has reached the threshold measures a run that has.
LEMMA HandleGapStep == ASSUME IInv, NEW h \in Handlers, HandleGap(h) PROVE IInv'
<1>1. /\ UNCHANGED <<site, obs, beats, command, rows, open, rest>>
      /\ pc[h] = "timer" /\ late' = FALSE /\ obs[h] = "gap"
  BY DEF HandleGap, IInv, BranchInv
<1>2. PICK l \in {"command", "ensure"} :
        /\ Goto(h, l)
        /\ \/ Fault /\ timer' = timer /\ l = "command"
           \/ /\ faults' = faults /\ timer' = IF timer = NoTimer THEN 0 ELSE timer
              /\ l = "ensure" => timer' >= Threshold
  BY ConstantsOK DEF HandleGap, IInv, TypeOK
<1>3. faults' \in 0..MaxFaults /\ (Serial' => Serial /\ ~Fault)
  BY <1>1, <1>2, AfterFault DEF IInv, TypeOK, Serial, Fault, rest
<1>4. TypeOK'
  <2>1. timer' \in 0..Ttl \cup {NoTimer}
    BY <1>2, ConstantsOK DEF IInv, TypeOK
  <2>2. late' \in BOOLEAN
    BY <1>1
  <2> QED
    BY <1>1, <1>2, <1>3, <2>1, <2>2, Goes DEF IInv, TypeOK, Places, site, rest
<1>5. BranchInv' /\ AlertInv' /\ RowInv'
  BY <1>1, <1>2, RaceKept DEF Places, rest
<1>6. Serial' => /\ streak # NoTimer /\ (timer' <= streak \/ streak = Threshold)
                 /\ l = "ensure" => streak = Threshold
                 /\ command => owed
  <2> SUFFICES ASSUME Serial' PROVE /\ streak # NoTimer /\ (timer' <= streak \/ streak = Threshold)
                                    /\ l = "ensure" => streak = Threshold
                                    /\ command => owed
    OBVIOUS
  <2>1. /\ streak # NoTimer /\ (command => owed)
        /\ timer # NoTimer => (timer <= streak \/ streak = Threshold)
    BY <1>1, <1>3, Own
  <2>2. streak \in 0..Threshold /\ (timer = NoTimer \/ timer \in Nat)
    BY <2>1, ConstantsOK DEF IInv, TypeOK
  <2>3. timer' = IF timer = NoTimer THEN 0 ELSE timer
    BY <1>2, <1>3
  <2>4. timer' <= streak \/ streak = Threshold
    BY <2>1, <2>2, <2>3
  <2>5. l = "ensure" => timer' >= Threshold /\ timer' \in Nat
    BY <1>2, <1>3, <2>2, <2>3
  <2> QED
    BY <2>1, <2>2, <2>4, <2>5, ConstantsOK
<1>7. AloneInv' /\ TimerInv' /\ StreakInv' /\ CommandInv'
  BY <1>1, <1>2, <1>3, <1>6, OwnKept DEF Places, rest
<1> QED
  BY <1>1, <1>4, <1>5, <1>7 DEF IInv, rest

\* The look for an open alert: two that find none have raced.
LEMMA EnsureStep == ASSUME IInv, NEW h \in Handlers, EnsureGapAlert(h) PROVE IInv'
<1>1. /\ UNCHANGED <<site, obs, redis, rows, open, late, faults, crowded, streak,
                     early, owed, spurious>>
      /\ pc[h] = "ensure" /\ obs[h] = "gap"
      /\ raced' = raced \cup {"alert" : o \in {g \in Others(h) : open = 0 /\ pc[g] = "create"}}
  BY DEF EnsureGapAlert, IInv, BranchInv
<1>2. PICK l \in {"command", "create"} : Goto(h, l) /\ (l = "create" => open = 0)
  BY DEF EnsureGapAlert, IInv, TypeOK
<1>3. /\ pc' \in [Handlers -> Places]
      /\ \A g \in Handlers : pc'[g] = IF g = h THEN l ELSE pc[g]
  BY <1>2, Goes DEF IInv, Places
<1>4. TypeOK'
  <2>1. raced' \subseteq {"alert", "row"}
    BY <1>1 DEF IInv, TypeOK
  <2> QED
    BY <1>1, <1>3, <2>1 DEF IInv, TypeOK, Places, site, redis
<1>5. BranchInv' /\ RowInv'
  <2>1. "row" \notin raced' => "row" \notin raced
    BY <1>1
  <2> QED
    BY <1>1, <1>2, <1>3, <2>1 DEF IInv, BranchInv, RowInv
<1>6. AlertInv'
  <2>1. "alert" \notin raced' => "alert" \notin raced
          /\ (open = 0 => \A g \in Handlers : g # h => pc[g] # "create")
    BY <1>1 DEF Others
  <2> QED
    BY <1>1, <1>2, <1>3, <2>1 DEF IInv, AlertInv
<1>7. AloneInv' /\ TimerInv' /\ StreakInv' /\ CommandInv'
  <2>1. Serial' => Serial
    BY <1>1 DEF Serial
  <2> QED
    BY <1>1, <1>2, <2>1, Own, OwnKept DEF Places, redis
<1> QED
  BY <1>1, <1>4, <1>5, <1>6, <1>7 DEF IInv

\* Without a camera the handler goes on as after an alert that is there.
LEMMA NoAnchorStep == ASSUME IInv, NEW h \in Handlers, NoAnchorCamera(h) PROVE IInv'
<1>1. /\ UNCHANGED <<site, obs, redis, rows, open, late, faults, rest>>
      /\ pc[h] = "ensure" /\ Goto(h, "command")
  BY DEF NoAnchorCamera
<1>2. TypeOK'
  <2>1. pc' \in [Handlers -> Places]
    BY <1>1, Goes DEF IInv, Places
  <2> QED
    BY <1>1, <2>1 DEF IInv, TypeOK, Places, site, redis, rest
<1>3. BranchInv' /\ AlertInv' /\ RowInv'
  BY <1>1, RaceKept DEF Places, rest
<1>4. AloneInv' /\ TimerInv' /\ StreakInv' /\ CommandInv'
  <2>1. Serial' => Serial
    BY <1>1 DEF Serial, rest
  <2> QED
    BY <1>1, <2>1, Own, OwnKept DEF Places, redis, rest
<1> QED
  BY <1>1, <1>2, <1>3, <1>4 DEF IInv, rest

\* The alert: a handler that serves the only heartbeat closes a long run.
LEMMA CreateStep == ASSUME IInv, NEW h \in Handlers, CreateGapAlert(h) PROVE IInv'
<1>1. /\ UNCHANGED <<site, obs, redis, rows, late, faults, raced, crowded, streak, owed, spurious>>
      /\ pc[h] = "create" /\ obs[h] = "gap" /\ Goto(h, "command")
      /\ open' = IF open = 2 THEN 2 ELSE open + 1
      /\ early' = (early \/ (Serial /\ streak # Threshold))
  BY DEF CreateGapAlert, IInv, BranchInv
<1>2. /\ pc' \in [Handlers -> Places]
      /\ \A g \in Handlers : pc'[g] = IF g = h THEN "command" ELSE pc[g]
  BY <1>1, Goes DEF IInv, Places
<1>3. ~early'
  <2>1. Serial => streak = Threshold
    BY <1>1, Own
  <2> QED
    BY <1>1, <2>1 DEF IInv
<1>4. TypeOK'
  <2>1. early' \in BOOLEAN
    BY <1>1
  <2> QED
    BY <1>1, <1>2, <2>1 DEF IInv, TypeOK, Places, site, redis
<1>5. BranchInv' /\ RowInv'
  BY <1>1, <1>2 DEF IInv, BranchInv, RowInv
<1>6. AlertInv'
  BY <1>1, <1>2 DEF IInv, AlertInv
<1>7. AloneInv' /\ TimerInv' /\ StreakInv' /\ CommandInv'
  <2>1. Serial' => Serial
    BY <1>1 DEF Serial
  <2> QED
    BY <1>1, <2>1, Own, OwnKept DEF Places, redis
<1> QED
  BY <1>1, <1>3, <1>4, <1>5, <1>6, <1>7 DEF IInv

\* The recovery: the timer goes before the handler leaves its branch.
LEMMA RecoveryStep ==
  ASSUME IInv, NEW h \in Handlers, ClearGapTimer(h) \/ AcknowledgeGapAlerts(h) PROVE IInv'
<1>1. /\ UNCHANGED <<site, obs, beats, command, rows, rest>> /\ open' \in {open, 0}
      /\ pc[h] \in {"clear", "ack"} /\ obs[h] = "full" /\ (faults' = faults \/ Fault)
      /\ timer' = NoTimer \/ timer' = timer
  BY DEF ClearGapTimer, AcknowledgeGapAlerts, redis, IInv, BranchInv
<1>2. PICK l \in {"ack", "command"} : Goto(h, l)
  BY DEF ClearGapTimer, AcknowledgeGapAlerts
<1>3. late' \in BOOLEAN
  BY DEF ClearGapTimer, AcknowledgeGapAlerts, IInv, TypeOK
<1>4. faults' \in 0..MaxFaults /\ (Serial' => Serial /\ ~Fault)
  BY <1>1, AfterFault DEF IInv, TypeOK, Serial, Fault, rest
<1>5. TypeOK'
  <2>1. timer' \in 0..Ttl \cup {NoTimer} /\ open' \in 0..2
    BY <1>1 DEF IInv, TypeOK
  <2> QED
    BY <1>1, <1>2, <1>3, <1>4, <2>1, Goes DEF IInv, TypeOK, Places, site, rest
<1>6. BranchInv' /\ AlertInv' /\ RowInv'
  BY <1>1, <1>2, RaceKept DEF Places, rest
<1>7. Serial' => /\ timer' # NoTimer => streak # NoTimer /\ (timer' <= streak \/ streak = Threshold)
                 /\ command => owed
  <2>1. CASE ClearGapTimer(h)
    BY <1>1, <1>4, <2>1, Own DEF ClearGapTimer
  <2>2. CASE AcknowledgeGapAlerts(h)
    BY <1>1, <1>4, <2>2, Own DEF AcknowledgeGapAlerts, redis
  <2> QED
    BY <2>1, <2>2
<1>8. AloneInv' /\ TimerInv' /\ StreakInv' /\ CommandInv'
  BY <1>1, <1>2, <1>4, <1>7, OwnKept DEF Places, rest
<1> QED
  BY <1>1, <1>5, <1>6, <1>8 DEF IInv, rest

\* The end of a heartbeat: the answer carries a command that was ordered.
LEMMA AnswerStep ==
  ASSUME IInv, NEW h \in Handlers, ReadCommand(h) \/ DeleteCommand(h) \/ Die(h) PROVE IInv'
<1>1. /\ UNCHANGED <<site, obs, beats, timer, rows, open, late, raced, crowded, streak, early>>
      /\ pc[h] # "idle" /\ (faults' = faults \/ Fault)
  BY DEF ReadCommand, DeleteCommand, Die, redis, rest
<1>2. PICK l \in {"idle", "delete"} : Goto(h, l) /\ (l = "delete" => ReadCommand(h) /\ command)
  BY DEF ReadCommand, DeleteCommand, Die, Answer
<1>3. faults' \in 0..MaxFaults /\ (Serial' => Serial /\ ~Fault)
  BY <1>1, AfterFault DEF IInv, TypeOK, Serial, Fault
<1>4. command' \in BOOLEAN /\ owed' \in BOOLEAN /\ spurious' \in BOOLEAN
  BY DEF ReadCommand, DeleteCommand, Die, Answer, redis, rest, IInv, TypeOK
<1>5. TypeOK'
  BY <1>1, <1>2, <1>3, <1>4, Goes DEF IInv, TypeOK, Places, site
<1>6. BranchInv' /\ AlertInv' /\ RowInv'
  BY <1>1, <1>2, RaceKept DEF Places
<1>7. ~spurious'
  <2>1. CASE DeleteCommand(h)
    <3>1. Serial => owed
      BY <2>1, Own DEF DeleteCommand
    <3> QED
      BY <2>1, <3>1 DEF DeleteCommand, Answer, IInv
  <2>2. CASE ReadCommand(h) \/ Die(h)
    BY <2>2 DEF ReadCommand, Die, rest, IInv
  <2> QED
    BY <2>1, <2>2
<1>8. Serial' => (command' \/ l = "delete" => owed')
  <2>1. CASE DeleteCommand(h)
    BY <1>2, <1>3, <2>1 DEF DeleteCommand, ReadCommand
  <2>2. CASE ReadCommand(h) \/ Die(h)
    <3>1. command' = command /\ owed' = owed
      BY <2>2 DEF ReadCommand, Die, redis, rest
    <3>2. Serial => (command => owed)
      BY <1>1, Own
    <3> QED
      BY <1>2, <1>3, <3>1, <3>2
  <2> QED
    BY <2>1, <2>2
<1>9. Serial' => (timer' # NoTimer => streak # NoTimer /\ (timer' <= streak \/ streak = Threshold))
  <2>1. Serial' => ~Die(h)
    BY <1>3 DEF Die
  <2>2. ReadCommand(h) \/ DeleteCommand(h) => pc[h] \in {"command", "delete"}
    BY DEF ReadCommand, DeleteCommand
  <2> QED
    BY <1>1, <1>3, <2>1, <2>2, Own
<1>10. AloneInv' /\ TimerInv' /\ StreakInv' /\ CommandInv'
  BY <1>1, <1>2, <1>3, <1>8, <1>9, OwnKept DEF Places
<1> QED
  BY <1>1, <1>5, <1>6, <1>7, <1>10 DEF IInv

\* Every step keeps the inductive invariant.
LEMMA IInvStep == IInv /\ [Next]_vars => IInv'
<1> SUFFICES ASSUME IInv, [Next]_vars PROVE IInv'
  OBVIOUS
<1>1. CASE \/ Cameras \/ Worker \/ CountExpires \/ CommandExpires
           \/ RestartWorker \/ Acknowledge
  BY <1>1, SiteStep
<1>2. CASE Tick
  BY <1>2, TickStep
<1>3. ASSUME NEW h \in Handlers, Receive(h) \/ Serve(h) \/ Die(h) PROVE IInv'
  BY <1>3, ReceiveStep, PublishStep, PersistStep, RegisterStep, HandleGapStep, EnsureStep,
     NoAnchorStep, CreateStep, RecoveryStep, AnswerStep DEF Serve
<1>4. CASE UNCHANGED vars
  BY <1>4 DEF vars, site, redis, rest, IInv, TypeOK, BranchInv, AlertInv, RowInv, AloneInv,
     TimerInv, StreakInv, CommandInv, Serial, Clearing
<1> QED
  BY <1>1, <1>2, <1>3, <1>4 DEF Next

-----------------------------------------------------------------------------
\* The inductive invariant holds always.
THEOREM Invariance == Spec => []IInv
  BY InitIInv, IInvStep, PTL DEF Spec

\* The variables of WorkerHeartbeat keep their types.
THEOREM TypeCorrect == Spec => []TypeOK
<1>1. IInv => TypeOK
  BY DEF IInv
<1> QED
  BY <1>1, Invariance, PTL

\* A second open alert or a second row takes two handlers that had both found
\* none, for any number of handlers.
THEOREM DoublesRace == Spec => []NoDoubles
<1>1. IInv => NoDoubles
  BY DEF IInv, TypeOK, AlertInv, RowInv, NoDoubles, OneOpenAlert, OneRegistration
<1> QED
  BY <1>1, Invariance, PTL

\* Whatever the threshold and the time to live of the timer, no alert closes a
\* shorter run of gap heartbeats, while they come one by one and nothing fails.
THEOREM AlertsWait == Spec => []NoEarlyAlert
<1>1. IInv => NoEarlyAlert
  BY DEF IInv, NoEarlyAlert
<1> QED
  BY <1>1, Invariance, PTL

\* Under the same conditions the worker restarts only when it was told to.
THEOREM RestartsOrdered == Spec => []NoSpuriousRestart
<1>1. IInv => NoSpuriousRestart
  BY DEF IInv, NoSpuriousRestart
<1> QED
  BY <1>1, Invariance, PTL

-----------------------------------------------------------------------------
(* Alerts and the reports they answer: the safety core of                  *)
(* RecoveryAcknowledges.                                                   *)

\* An alert is opened by a heartbeat that reported the gap, and closed by the
\* operator or by a heartbeat that reported all cameras: never by a handler that
\* was told something else, however the two overlap.
AlertsAnswerReports ==
  [][/\ open' > open => \E h \in Handlers : obs[h] = "gap" /\ pc[h] = "create" /\ pc'[h] # "create"
     /\ open' < open => \/ open' = open - 1 /\ UNCHANGED pc
                        \/ \E h \in Handlers : obs[h] = "full" /\ pc[h] = "ack" /\ pc'[h] # "ack"]_vars

\* All cameras are back, no alert is open, and no heartbeat that can still open
\* one is in work.
Recovered ==
  /\ cams = "full" /\ open = 0
  /\ \A h \in Handlers : obs[h] = "gap" => pc[h] \in {"idle", "command", "delete"}

\* From then on no alert is opened while the cameras stay: not by a timer that
\* outlived its gap, a key that expires, a second alert of the race, a restart of
\* the worker or a handler that dies.
RecoveryLasts == [][Recovered /\ cams' = "full" => Recovered']_vars

\* What each handler of a step does to places, reports and alerts.
HandlerMoves(h) ==
  /\ \A g \in Others(h) : pc'[g] = pc[g] /\ obs'[g] = obs[g]
  /\ \/ pc[h] = "idle" /\ pc'[h] = "publish" /\ obs'[h] = cams /\ open' = open
     \/ /\ obs'[h] = obs[h] /\ pc'[h] # pc[h]
        /\ \/ open' = open /\ pc'[h] \in {"idle", "command", "delete"}
           \/ open' = open /\ pc[h] \in {"publish", "persist", "register"}
              /\ pc'[h] \in {"persist", "register", Check(h)}
           \/ open' = open /\ <<pc[h], pc'[h]>> \in {<<"timer", "ensure">>, <<"ensure", "create">>,
                                                    <<"clear", "ack">>}
           \/ pc[h] = "create" /\ open' \in {open, open + 1} /\ pc'[h] = "command"
           \/ pc[h] = "ack" /\ open' = 0 /\ pc'[h] = "command"

\* Every step of a handler is one of these.
LEMMA HandlersMove ==
  ASSUME TypeOK, NEW h \in Handlers, Receive(h) \/ Serve(h) \/ Die(h)
  PROVE  HandlerMoves(h)
<1>g. ASSUME NEW l, Goto(h, l)
      PROVE  pc'[h] = l /\ \A g \in Others(h) : pc'[g] = pc[g]
  BY <1>g DEF Goto, TypeOK, Others
<1>o. ASSUME obs' = obs PROVE obs'[h] = obs[h] /\ \A g \in Others(h) : obs'[g] = obs[g]
  BY <1>o
<1>1. CASE Receive(h)
  <2>1. Goto(h, "publish") /\ obs' = [obs EXCEPT ![h] = cams] /\ pc[h] = "idle" /\ open' = open
    BY <1>1 DEF Receive
  <2>2. obs'[h] = cams /\ \A g \in Others(h) : obs'[g] = obs[g]
    BY <2>1 DEF TypeOK, Others
  <2> QED
    BY <1>g, <2>1, <2>2 DEF HandlerMoves
<1>2. CASE Serve(h) \/ Die(h)
  <2>0. obs' = obs
    BY <1>2 DEF Serve, Die, PublishHeartbeat, PersistWorkerMetrics, Register, HandleGap, EnsureGapAlert,
       NoAnchorCamera, CreateGapAlert, ClearGapTimer, AcknowledgeGapAlerts, ReadCommand, DeleteCommand
  <2>1. CASE PublishHeartbeat(h)
    <3>1. PICK l \in {"persist", Check(h)} : Goto(h, l)
      BY <2>1 DEF PublishHeartbeat
    <3>2. pc[h] = "publish" /\ open' = open /\ l # "publish"
      BY <2>1 DEF PublishHeartbeat, Check
    <3> QED
      BY <1>g, <1>o, <2>0, <3>1, <3>2 DEF HandlerMoves
  <2>2. CASE PersistWorkerMetrics(h)
    <3>1. PICK l \in {"register", Check(h)} : Goto(h, l)
      BY <2>2 DEF PersistWorkerMetrics
    <3>2. pc[h] = "persist" /\ open' = open /\ l # "persist"
      BY <2>2 DEF PersistWorkerMetrics, Check
    <3> QED
      BY <1>g, <1>o, <2>0, <3>1, <3>2 DEF HandlerMoves
  <2>3. CASE Register(h)
    <3>1. Goto(h, Check(h)) /\ pc[h] = "register" /\ open' = open /\ Check(h) # "register"
      BY <2>3 DEF Register, Check
    <3> QED
      BY <1>g, <1>o, <2>0, <3>1 DEF HandlerMoves
  <2>4. CASE HandleGap(h)
    <3>1. PICK l \in {"command", "ensure"} : Goto(h, l)
      BY <2>4 DEF HandleGap
    <3>2. pc[h] = "timer" /\ open' = open
      BY <2>4 DEF HandleGap
    <3> QED
      BY <1>g, <1>o, <2>0, <3>1, <3>2 DEF HandlerMoves
  <2>5. CASE EnsureGapAlert(h) \/ NoAnchorCamera(h)
    <3>1. PICK l \in {"command", "create"} : Goto(h, l)
      BY <2>5 DEF EnsureGapAlert, NoAnchorCamera
    <3>2. pc[h] = "ensure" /\ open' = open
      BY <2>5 DEF EnsureGapAlert, NoAnchorCamera
    <3> QED
      BY <1>g, <1>o, <2>0, <3>1, <3>2 DEF HandlerMoves
  <2>6. CASE CreateGapAlert(h)
    <3>1. Goto(h, "command") /\ pc[h] = "create" /\ open' \in {open, open + 1}
      BY <2>6 DEF CreateGapAlert
    <3> QED
      BY <1>g, <1>o, <2>0, <3>1 DEF HandlerMoves
  <2>7. CASE ClearGapTimer(h)
    <3>1. Goto(h, "ack") /\ pc[h] = "clear" /\ open' = open
      BY <2>7 DEF ClearGapTimer
    <3> QED
      BY <1>g, <1>o, <2>0, <3>1 DEF HandlerMoves
  <2>8. CASE AcknowledgeGapAlerts(h)
    <3>1. Goto(h, "command") /\ pc[h] = "ack" /\ open' = 0
      BY <2>8 DEF AcknowledgeGapAlerts
    <3> QED
      BY <1>g, <1>o, <2>0, <3>1 DEF HandlerMoves
  <2>9. CASE ReadCommand(h)
    <3>1. PICK l \in {"delete", "idle"} : Goto(h, l)
      BY <2>9 DEF ReadCommand
    <3>2. pc[h] = "command" /\ open' = open
      BY <2>9 DEF ReadCommand
    <3> QED
      BY <1>g, <1>o, <2>0, <3>1, <3>2 DEF HandlerMoves
  <2>10. CASE DeleteCommand(h) \/ Die(h)
    <3>1. Goto(h, "idle") /\ pc[h] # "idle" /\ open' = open
      BY <2>10 DEF DeleteCommand, Answer, Die
    <3> QED
      BY <1>g, <1>o, <2>0, <3>1 DEF HandlerMoves
  <2> QED
    BY <1>2, <2>1, <2>2, <2>3, <2>4, <2>5, <2>6, <2>7, <2>8, <2>9, <2>10 DEF Serve
<1> QED
  BY <1>1, <1>2

\* The other steps leave the handlers alone.
LEMMA SiteMoves ==
  ASSUME TypeOK, [Next]_vars, ~\E h \in Handlers : Receive(h) \/ Serve(h) \/ Die(h)
  PROVE  UNCHANGED <<pc, obs>> /\ (open' = open \/ (open > 0 /\ open' = open - 1))
<1>1. CASE Acknowledge
  BY <1>1 DEF Acknowledge
<1>2. CASE Cameras \/ Worker \/ Tick \/ CountExpires \/ CommandExpires
           \/ RestartWorker \/ UNCHANGED vars
  BY <1>2 DEF Cameras, Worker, Tick, CountExpires, CommandExpires, RestartWorker, vars
<1> QED
  BY <1>1, <1>2 DEF Next

\* Alerts come from gaps and go with recoveries.
THEOREM AlertsFollowReports == Spec => AlertsAnswerReports
<1> DEFINE Answers ==
      /\ open' > open => \E h \in Handlers : obs[h] = "gap" /\ pc[h] = "create" /\ pc'[h] # "create"
      /\ open' < open => \/ open' = open - 1 /\ UNCHANGED pc
                         \/ \E h \in Handlers : obs[h] = "full" /\ pc[h] = "ack" /\ pc'[h] # "ack"
<1>1. IInv /\ [Next]_vars => [Answers]_vars
  <2> SUFFICES ASSUME IInv, [Next]_vars PROVE Answers
    OBVIOUS
  <2>0. open \in 0..2
    BY DEF IInv, TypeOK
  <2>1. ASSUME NEW h \in Handlers, HandlerMoves(h) PROVE Answers
    <3>1. \/ open' = open
          \/ pc[h] = "create" /\ open' = open + 1 /\ pc'[h] = "command"
          \/ pc[h] = "ack" /\ open' = 0 /\ pc'[h] = "command"
      BY <2>1 DEF HandlerMoves
    <3>2. pc[h] = "create" => obs[h] = "gap"
      BY DEF IInv, BranchInv
    <3>3. pc[h] = "ack" => obs[h] = "full"
      BY DEF IInv, BranchInv
    <3> QED
      BY <2>0, <3>1, <3>2, <3>3
  <2>2. CASE ~\E h \in Handlers : Receive(h) \/ Serve(h) \/ Die(h)
    BY <2>0, <2>2, SiteMoves DEF IInv
  <2> QED
    BY <2>1, <2>2, HandlersMove DEF IInv
<1> QED
  BY <1>1, Invariance, PTL DEF Spec, AlertsAnswerReports

\* A recovery that every heartbeat has seen lasts.
THEOREM RecoveryStays == Spec => RecoveryLasts
<1>1. IInv /\ [Next]_vars => [Recovered /\ cams' = "full" => Recovered']_vars
  <2> SUFFICES ASSUME IInv, [Next]_vars, Recovered, cams' = "full" PROVE Recovered'
    OBVIOUS
  <2>1. ASSUME NEW h \in Handlers, HandlerMoves(h) PROVE Recovered'
    <3>1. obs[h] = "gap" => pc[h] \in {"idle", "command", "delete"}
      BY DEF Recovered
    <3>2. pc[h] # "create" /\ open = 0 /\ cams = "full"
      BY DEF Recovered, IInv, BranchInv
    <3>3. obs'[h] = "gap" => pc'[h] \in {"idle", "command", "delete"}
      BY <2>1, <3>1, <3>2 DEF HandlerMoves
    <3>4. open' = 0
      BY <2>1, <3>2 DEF HandlerMoves
    <3>5. \A g \in Others(h) : obs'[g] = "gap" => pc'[g] \in {"idle", "command", "delete"}
      BY <2>1 DEF HandlerMoves, Recovered, Others
    <3> QED
      BY <3>3, <3>4, <3>5 DEF Recovered, Others
  <2>2. CASE ~\E h \in Handlers : Receive(h) \/ Serve(h) \/ Die(h)
    BY <2>2, SiteMoves DEF IInv, Recovered
  <2> QED
    BY <2>1, <2>2, HandlersMove DEF IInv
<1> QED
  BY <1>1, Invariance, PTL DEF Spec, RecoveryLasts

=============================================================================
