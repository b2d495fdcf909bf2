------------------------- MODULE LocalStream_proofs -------------------------
(***************************************************************************)
(* Proofs about LocalStream, for any number of requests, gunicorn workers  *)
(* and FFmpeg processes: none of the processes is lost. That a process is  *)
(* in a dictionary or in the hands of a stop() is not enough to stay so    *)
(* when a worker dies and takes its stop() with it: the process must also  *)
(* be a child of that worker, and this is what the invariant adds.         *)
(***************************************************************************)
EXTENDS LocalStream, TLAPS

\* What an actor may hold.
ActType == [pc : Steps, w : Workers \cup {NoWorker}, p : Procs \cup {NoProc}]

\* Who is inside start(), stop() or a monitor is so in some worker.
PlaceInv == \A a \in Actors : act[a].pc # "idle" => act[a].w \in Workers

\* A worker tracks, and its actors stop, no other worker's process.
OwnInv ==
  /\ \A w \in Workers, p \in Procs : tracked[w] = p /\ Alive(p) => owner[p] \in {w, NoWorker}
  /\ \A a \in Actors, p \in Procs :
       act[a].pc = "kill" /\ act[a].p = p /\ Alive(p) => owner[p] \in {act[a].w, NoWorker}

IInv == TypeOK /\ PlaceInv /\ OwnInv /\ Held

-----------------------------------------------------------------------------
\* The initial states satisfy the inductive invariant.
LEMMA InitIInv == Init => IInv
<1> SUFFICES ASSUME Init PROVE IInv
  OBVIOUS
<1>1. TypeOK
  <2>1. lock \in BOOLEAN /\ active \in BOOLEAN /\ dir \in {"none", "empty", "playlist"}
    BY DEF Init
  <2>2. seen \in [Workers -> BOOLEAN] /\ crashes \in 0..MaxCrashes
    BY ConstantsOK DEF Init
  <2>3. act \in [Actors -> ActType]
    BY DEF Init, ActType, Idle, Steps
  <2> QED
    BY <2>1, <2>2, <2>3 DEF Init, TypeOK, ActType
<1>2. PlaceInv /\ OwnInv /\ Held
  BY DEF Init, PlaceInv, OwnInv, Held, At, Idle, Alive
<1> QED
  BY <1>1, <1>2 DEF IInv

\* A step in which no process is born, killed by a stop(), tracked or let go.
LEMMA Quiet ==
  ASSUME IInv, UNCHANGED <<act, tracked>>, lock' \in BOOLEAN, active' \in BOOLEAN,
         dir' \in {"none", "empty", "playlist"}, seen' \in [Workers -> BOOLEAN],
         ffmpeg' \in [Procs -> {"starting", "ok", "hung", "failed", "exited"}],
         \A q \in Procs : Alive(q)' => Alive(q),
         owner' \in [Procs -> Workers \cup {NoWorker}],
         \A q \in Procs : owner'[q] \in {owner[q], NoWorker}, crashes' = crashes
  PROVE  IInv'
<1>1. TypeOK' /\ PlaceInv'
  BY DEF IInv, TypeOK, PlaceInv
<1>2. OwnInv' /\ Held'
  BY DEF IInv, OwnInv, Held, At
<1> QED
  BY <1>1, <1>2 DEF IInv

\* A step of one actor that is not about a process in its hands.
Places == Steps \ {"kill", "idle"}
LEMMA Moves ==
  ASSUME IInv, NEW a \in Actors, act[a].pc # "kill",
         \/ Done(a)
         \/ act[a].pc # "idle" /\ \E to \in Places : Goto(a, to)
         \/ \E to \in Places, w \in Workers : Call(a, to, w),
         UNCHANGED <<tracked, owner, seen, crashes>>, lock' \in BOOLEAN, active' \in BOOLEAN,
         dir' \in {"none", "empty", "playlist"},
         ffmpeg' \in [Procs -> {"starting", "ok", "hung", "failed", "exited"}],
         \A q \in Procs : Alive(q)' => Alive(q)
  PROVE  IInv'
<1>1. PICK v \in ActType : /\ act' = [act EXCEPT ![a] = v]
                           /\ v.pc # "kill" /\ (v.pc # "idle" => v.w \in Workers)
  <2>1. CASE Done(a)
    <3>1. Idle \in ActType /\ Idle.pc = "idle"
      BY DEF Idle, ActType, Steps
    <3> QED
      BY <2>1, <3>1 DEF Done
  <2>2. ASSUME act[a].pc # "idle", NEW to \in Places, Goto(a, to)
        PROVE  [act[a] EXCEPT !.pc = to] \in ActType
               /\ [act[a] EXCEPT !.pc = to].w \in Workers /\ [act[a] EXCEPT !.pc = to].pc = to
    <3>1. act[a] \in ActType /\ act[a].w \in Workers
      BY <2>2 DEF IInv, TypeOK, PlaceInv, ActType
    <3> QED
      BY <3>1 DEF ActType, Places
  <2>3. CASE act[a].pc # "idle" /\ \E to \in Places : Goto(a, to)
    <3>1. PICK to \in Places : Goto(a, to)
      BY <2>3
    <3>2. act' = [act EXCEPT ![a] = [act[a] EXCEPT !.pc = to]]
      BY <3>1 DEF Goto
    <3> QED
      BY <2>2, <2>3, <3>1, <3>2 DEF Places
  <2>4. CASE \E to \in Places, w \in Workers : Call(a, to, w)
    <3>1. PICK to \in Places, w \in Workers : Call(a, to, w)
      BY <2>4
    <3> DEFINE v == [pc |-> to, w |-> w, p |-> NoProc]
    <3>2. v \in ActType /\ v.pc # "kill" /\ v.w \in Workers /\ act' = [act EXCEPT ![a] = v]
      BY <3>1 DEF Call, ActType, Places
    <3> HIDE DEF v
    <3> QED
      BY <3>2
  <2> QED
    BY <2>1, <2>3, <2>4
<1>2. \A b \in Actors : act'[b] = IF b = a THEN v ELSE act[b]
  BY <1>1 DEF IInv, TypeOK
<1>3. TypeOK' /\ PlaceInv'
  BY <1>1, <1>2 DEF IInv, TypeOK, PlaceInv, ActType
<1>4. OwnInv' /\ Held'
  BY <1>1, <1>2 DEF IInv, OwnInv, Held, At
<1> QED
  BY <1>3, <1>4 DEF IInv

\* The steps of start() but the spawn itself, and those of stop() that do not
\* touch the process.
LEMMA CallStep ==
  ASSUME IInv, NEW a \in Actors,
         \/ FastPath(a) \/ TakeLock(a) \/ AlreadyRunning(a) \/ RedisSilent(a) \/ PopenFails(a)
         \/ Unlock(a) \/ Clean(a) \/ CleanFails(a)
  PROVE  IInv'
<1>1. /\ act[a].pc \notin {"kill", "idle"}
      /\ Done(a) \/ \E to \in Places : Goto(a, to)
  BY DEF FastPath, TakeLock, AlreadyRunning, RedisSilent, PopenFails, Unlock, Clean, CleanFails, At,
         Places, Steps
<1>2. UNCHANGED <<tracked, owner, seen, crashes, ffmpeg, active>>
  BY DEF FastPath, TakeLock, AlreadyRunning, RedisSilent, PopenFails, Unlock, Clean, CleanFails, redis
<1>3. lock' \in BOOLEAN
  BY DEF FastPath, TakeLock, AlreadyRunning, RedisSilent, PopenFails, Unlock, Clean, CleanFails, redis,
         IInv, TypeOK
<1>4. dir' \in {"none", "empty", "playlist"}
  BY DEF FastPath, TakeLock, AlreadyRunning, RedisSilent, PopenFails, Unlock, Clean, CleanFails, redis,
         IInv, TypeOK
<1>5. /\ active' \in BOOLEAN
      /\ ffmpeg' \in [Procs -> {"starting", "ok", "hung", "failed", "exited"}]
      /\ \A q \in Procs : Alive(q)' => Alive(q)
  BY <1>2 DEF IInv, TypeOK, Alive
<1> QED
  BY <1>1, <1>2, <1>3, <1>4, <1>5, Moves

\* The handlers, the decisions of the watchdog and the monitor.
Handles(a) ==
  \/ \E w \in Workers : StartStream(a, w) \/ StopStream(a, w) \/ ServeHls(a, w)
                      \/ ServeUnrenewed(a, w)
  \/ ServeFile(a)
  \/ a \in Workers /\ Watch(a)
  \/ Monitor(a)
LEMMA HandlerStep == ASSUME IInv, NEW a \in Actors, Handles(a) PROVE IInv'
<1> USE DEF Handles
<1>1. /\ act[a].pc # "kill"
      /\ \/ Done(a)
         \/ act[a].pc # "idle" /\ \E to \in Places : Goto(a, to)
         \/ \E to \in Places, w \in Workers : Call(a, to, w)
  BY DEF StartStream, StopStream, ServeHls, ServeUnrenewed, ServeFile, Watch, WatchStall, WatchInactive,
         Monitor, MonitorEnds, MonitorChecks, MonitorReleases, At, Places, Steps
<1>2. UNCHANGED <<tracked, owner, seen, crashes, dir>>
  BY DEF StartStream, StopStream, ServeHls, ServeUnrenewed, ServeFile, Watch, WatchStall, WatchInactive,
         Monitor, MonitorEnds, MonitorChecks, MonitorReleases
<1>3. lock' \in BOOLEAN
  BY DEF StartStream, StopStream, ServeHls, ServeUnrenewed, ServeFile, Watch, WatchStall, WatchInactive,
         Monitor, MonitorEnds, MonitorChecks, MonitorReleases, redis, IInv, TypeOK
<1>4. active' \in BOOLEAN
  BY DEF StartStream, StopStream, ServeHls, ServeUnrenewed, ServeFile, Watch, WatchStall, WatchInactive,
         Monitor, MonitorEnds, MonitorChecks, MonitorReleases, redis, IInv, TypeOK
<1>5. /\ ffmpeg' \in [Procs -> {"starting", "ok", "hung", "failed", "exited"}]
      /\ \A q \in Procs : Alive(q)' => Alive(q)
  <2>1. ffmpeg' = ffmpeg \/ ffmpeg' = [ffmpeg EXCEPT ![a] = "exited"]
    BY DEF StartStream, StopStream, ServeHls, ServeUnrenewed, ServeFile, Watch, WatchStall, WatchInactive,
           Monitor, MonitorEnds, MonitorChecks, MonitorReleases
  <2> QED
    BY <2>1 DEF IInv, TypeOK, Alive
<1>6. dir' \in {"none", "empty", "playlist"}
  BY <1>2 DEF IInv, TypeOK
<1> QED
  BY <1>1, <1>2, <1>3, <1>4, <1>5, <1>6, Moves

\* The spawn: nobody refers to the new process yet, and the worker's entry that
\* it replaces is of one that has ended.
LEMMA SpawnStep == ASSUME IInv, NEW a \in Actors, Spawn(a) PROVE IInv'
<1> DEFINE w == act[a].w
<1>1. w \in Workers /\ act[a].pc = "spawn" /\ ~IsRunning(w)
  BY DEF Spawn, At, IInv, PlaceInv
<1>2. PICK p \in Procs :
        /\ Free(p, a)
        /\ ffmpeg' = [ffmpeg EXCEPT ![p] = "starting"]
        /\ owner' = [owner EXCEPT ![p] = w]
        /\ tracked' = [tracked EXCEPT ![w] = p]
        /\ dir' = IF dir = "none" THEN "empty" ELSE dir
        /\ act' = [act EXCEPT ![a] = Idle, ![p] = IF a \in Requests THEN Watching(w) ELSE Idle]
  BY DEF Spawn
<1>3. UNCHANGED <<redis, seen, crashes>>
  BY DEF Spawn
<1>4. p \in Actors /\ act[p].pc \in {"idle", "spawn"} /\ ~Alive(p)
  BY <1>1, <1>2 DEF Free, At, Actors
<1>5. Idle \in ActType /\ Idle.pc = "idle" /\ Watching(w) \in ActType
      /\ Watching(w).pc = "watch" /\ Watching(w).w = w
  BY <1>1 DEF Idle, Watching, ActType, Steps
<1> HIDE DEF w
<1>6. PICK v \in {Idle, Watching(w)} : \A b \in Actors :
        act'[b] = IF b = p THEN v ELSE IF b = a THEN Idle ELSE act[b]
  <2>1. act \in [Actors -> ActType]
    BY DEF IInv, TypeOK, ActType
  <2> QED
    BY <1>2, <1>4, <2>1
<1>7. \A b \in Actors : act'[b] = act[b] \/ act'[b] \in {Idle, Watching(w)}
  BY <1>6
<1>8. \A b \in Actors : act[b].pc = "kill" <=> act'[b].pc = "kill"
  BY <1>1, <1>4, <1>5, <1>6
<1>9. \A b \in Actors : act[b].pc = "kill" => act'[b] = act[b] /\ act[b].p # p
  BY <1>1, <1>2, <1>4, <1>6 DEF Free
<1>10. \A q \in Procs \ {p} : owner'[q] = owner[q] /\ (Alive(q)' <=> Alive(q))
  BY <1>2 DEF IInv, TypeOK, Alive
<1>11. owner'[p] = w /\ tracked'[w] = p /\ \A x \in Workers \ {w} : tracked'[x] = tracked[x]
  BY <1>1, <1>2 DEF IInv, TypeOK
<1>12. TypeOK'
  <2>1. act' \in [Actors -> ActType]
    BY <1>2, <1>5 DEF IInv, TypeOK, ActType
  <2>2. /\ ffmpeg' \in [Procs -> {"starting", "ok", "hung", "failed", "exited"}]
        /\ owner' \in [Procs -> Workers \cup {NoWorker}]
        /\ tracked' \in [Workers -> Procs \cup {NoProc}]
        /\ dir' \in {"none", "empty", "playlist"}
    BY <1>1, <1>2 DEF IInv, TypeOK
  <2> QED
    BY <1>3, <2>1, <2>2 DEF IInv, TypeOK, ActType, redis
<1>13. PlaceInv'
  BY <1>1, <1>5, <1>7 DEF IInv, PlaceInv
<1>14. OwnInv'
  <2>1. \A x \in Workers, q \in Procs : tracked'[x] = q /\ Alive(q)' => owner'[q] \in {x, NoWorker}
    BY <1>2, <1>10, <1>11 DEF IInv, OwnInv, Free
  <2>2. \A b \in Actors, q \in Procs : act'[b].pc = "kill" /\ act'[b].p = q /\ Alive(q)'
                                         => owner'[q] \in {act'[b].w, NoWorker}
    BY <1>8, <1>9, <1>10 DEF IInv, OwnInv
  <2> QED
    BY <2>1, <2>2 DEF OwnInv
<1>15. Held'
  <2>1. \A q \in Procs \ {p} : Alive(q) /\ owner[q] # NoWorker /\ tracked[owner[q]] = q
                                 => owner[q] # w
    BY <1>1, ConstantsOK DEF IsRunning, IInv, TypeOK
  <2>2. ASSUME NEW q \in Procs, Alive(q)', owner'[q] # NoWorker
        PROVE  tracked'[owner'[q]] = q \/ \E b \in Actors : act'[b].pc = "kill" /\ act'[b].p = q
    <3>1. CASE q = p
      BY <1>11, <3>1
    <3>2. CASE q # p
      <4>1. Alive(q) /\ owner'[q] = owner[q] /\ owner[q] \in Workers
        BY <1>10, <2>2, <3>2 DEF IInv, TypeOK
      <4>2. CASE tracked[owner[q]] = q
        BY <1>11, <2>1, <2>2, <3>2, <4>1, <4>2
      <4>3. CASE \E b \in Actors : act[b].pc = "kill" /\ act[b].p = q
        BY <1>9, <4>3
      <4> QED
        BY <2>2, <4>1, <4>2, <4>3 DEF IInv, Held, At
    <3> QED
      BY <3>1, <3>2
  <2> QED
    BY <2>2 DEF Held, At
<1> QED
  BY <1>12, <1>13, <1>14, <1>15 DEF IInv

\* stop() takes the process out of the dictionary and into its hands.
LEMMA PopStep == ASSUME IInv, NEW a \in Actors, Pop(a) PROVE IInv'
<1> DEFINE w == act[a].w
<1>1. w \in Workers /\ act[a].pc = "pop" /\ act[a] \in ActType
  BY DEF Pop, At, IInv, TypeOK, PlaceInv, ActType
<1>2. /\ tracked' = [tracked EXCEPT ![w] = NoProc] /\ seen' = [seen EXCEPT ![w] = FALSE]
      /\ act' = [act EXCEPT ![a].pc = "kill", ![a].p = tracked[w]]
      /\ UNCHANGED <<redis, dir, ffmpeg, owner, crashes>>
  BY DEF Pop
<1>3. act'[a].pc = "kill" /\ act'[a].p = tracked[w] /\ act'[a].w = w
  BY <1>1, <1>2 DEF IInv, TypeOK
<1> HIDE DEF w
<1>4. \A b \in Actors \ {a} : act'[b] = act[b]
  BY <1>2 DEF IInv, TypeOK
<1>5. \A q \in Procs : Alive(q)' <=> Alive(q)
  BY <1>2 DEF Alive
<1>6. TypeOK'
  <2>1. act' \in [Actors -> ActType]
    BY <1>1, <1>2 DEF IInv, TypeOK, ActType, Steps
  <2>2. tracked' \in [Workers -> Procs \cup {NoProc}] /\ seen' \in [Workers -> BOOLEAN]
    BY <1>2 DEF IInv, TypeOK
  <2> QED
    BY <1>2, <2>1, <2>2 DEF IInv, TypeOK, ActType, redis
<1>7. PlaceInv'
  BY <1>1, <1>3, <1>4 DEF IInv, PlaceInv
<1>8. OwnInv'
  <2>1. \A x \in Workers, q \in Procs : tracked'[x] = q => tracked[x] = q
    BY <1>2, ConstantsOK DEF IInv, TypeOK
  <2> QED
    <3>1. \A x \in Workers, q \in Procs :
            tracked'[x] = q /\ Alive(q)' => owner'[q] \in {x, NoWorker}
      BY <1>2, <1>5, <2>1 DEF IInv, OwnInv
    <3>2. \A q \in Procs : tracked[w] = q /\ Alive(q) => owner[q] \in {w, NoWorker}
      BY <1>1 DEF IInv, OwnInv
    <3>3. \A b \in Actors, q \in Procs : act'[b].pc = "kill" /\ act'[b].p = q /\ Alive(q)'
                                           => owner'[q] \in {act'[b].w, NoWorker}
      <4> SUFFICES ASSUME NEW b \in Actors, NEW q \in Procs, act'[b].pc = "kill",
                          act'[b].p = q, Alive(q)'
                   PROVE  owner'[q] \in {act'[b].w, NoWorker}
        OBVIOUS
      <4>1. owner' = owner /\ Alive(q)
        BY <1>2, <1>5
      <4>2. CASE b = a
        BY <1>3, <3>2, <4>1, <4>2
      <4>3. CASE b # a
        <5>1. act'[b] = act[b]
          BY <1>4, <4>3
        <5> QED
          BY <4>1, <5>1 DEF IInv, OwnInv
      <4> QED
        BY <4>2, <4>3
    <3> QED
      BY <3>1, <3>3 DEF OwnInv
<1>9. Held'
  <2>1. \A x \in Workers \ {w} : tracked'[x] = tracked[x]
    BY <1>2 DEF IInv, TypeOK
  <2>2. \A b \in Actors : act[b].pc = "kill" => act'[b] = act[b]
    BY <1>1, <1>4
  <2> QED
    BY <1>2, <1>3, <1>5, <2>1, <2>2 DEF IInv, TypeOK, Held, At
<1> QED
  BY <1>6, <1>7, <1>8, <1>9 DEF IInv

\* The process in the hands of a stop() ends.
LEMMA TerminateStep == ASSUME IInv, NEW a \in Actors, Terminate(a) PROVE IInv'
<1> DEFINE p == act[a].p
<1>1. act[a].pc = "kill" /\ act[a].w \in Workers /\ act[a] \in ActType
  BY DEF Terminate, At, IInv, TypeOK, PlaceInv, ActType
<1>2. /\ ffmpeg' = [q \in Procs |-> IF q = p THEN "exited" ELSE ffmpeg[q]]
      /\ owner' = [q \in Procs |-> IF q = p THEN NoWorker ELSE owner[q]]
      /\ act' = [act EXCEPT ![a].pc = "clean", ![a].p = NoProc]
      /\ UNCHANGED <<redis, dir, tracked, seen, crashes>>
  BY DEF Terminate
<1>3. act'[a].pc = "clean" /\ act'[a].w = act[a].w
  BY <1>2 DEF IInv, TypeOK
<1>4. \A b \in Actors \ {a} : act'[b] = act[b]
  BY <1>2 DEF IInv, TypeOK
<1>5. \A q \in Procs : Alive(q)' => Alive(q) /\ q # p /\ owner'[q] = owner[q]
  BY <1>2 DEF Alive
<1>6. TypeOK'
  <2>1. act' \in [Actors -> ActType]
    BY <1>1, <1>2 DEF IInv, TypeOK, ActType, Steps
  <2>2. /\ ffmpeg' \in [Procs -> {"starting", "ok", "hung", "failed", "exited"}]
        /\ owner' \in [Procs -> Workers \cup {NoWorker}]
    BY <1>2 DEF IInv, TypeOK
  <2> QED
    BY <1>2, <2>1, <2>2 DEF IInv, TypeOK, ActType, redis
<1>7. PlaceInv'
  BY <1>1, <1>3, <1>4 DEF IInv, PlaceInv
<1>8. OwnInv'
  <2>1. \A x \in Workers, q \in Procs : tracked'[x] = q /\ Alive(q)' => owner'[q] \in {x, NoWorker}
    BY <1>2, <1>5 DEF IInv, OwnInv
  <2>2. \A b \in Actors, q \in Procs : act'[b].pc = "kill" /\ act'[b].p = q /\ Alive(q)'
                                         => owner'[q] \in {act'[b].w, NoWorker}
    BY <1>3, <1>4, <1>5 DEF IInv, OwnInv
  <2> QED
    BY <2>1, <2>2 DEF OwnInv
<1>9. Held'
  <2>1. ASSUME NEW q \in Procs, Alive(q)', owner'[q] # NoWorker
        PROVE  tracked'[owner'[q]] = q \/ \E b \in Actors : act'[b].pc = "kill" /\ act'[b].p = q
    <3>1. Alive(q) /\ q # p /\ owner'[q] = owner[q] /\ tracked' = tracked
      BY <1>2, <1>5, <2>1
    <3>2. ASSUME NEW b \in Actors, act[b].pc = "kill", act[b].p = q PROVE act'[b] = act[b]
      BY <1>4, <3>1, <3>2
    <3> QED
      BY <2>1, <3>1, <3>2 DEF IInv, Held, At
  <2> QED
    BY <2>1 DEF Held, At
<1> QED
  BY <1>6, <1>7, <1>8, <1>9 DEF IInv

\* A worker that is killed takes its stop()s with it, but their processes are
\* its own children, which nobody expects in a dictionary any more.
LEMMA CrashStep == ASSUME IInv, NEW w \in Workers, WorkerCrash(w) PROVE IInv'
<1>1. /\ tracked' = [tracked EXCEPT ![w] = NoProc] /\ seen' = [seen EXCEPT ![w] = FALSE]
      /\ owner' = [p \in Procs |-> IF owner[p] = w THEN NoWorker ELSE owner[p]]
      /\ act' = [a \in Actors |-> IF act[a].w = w THEN Idle ELSE act[a]]
      /\ UNCHANGED <<redis, dir, ffmpeg>>
  BY DEF WorkerCrash
<1>2. Idle \in ActType /\ Idle.pc = "idle"
  BY DEF Idle, ActType, Steps
<1>3. \A q \in Procs : Alive(q)' <=> Alive(q)
  BY <1>1 DEF Alive
<1>4. \A x \in Workers \ {w} : tracked'[x] = tracked[x]
  BY <1>1 DEF IInv, TypeOK
<1>5. TypeOK'
  <2>1. act' \in [Actors -> ActType]
    BY <1>1, <1>2 DEF IInv, TypeOK, ActType
  <2>2. crashes' \in 0..MaxCrashes
    BY ConstantsOK DEF WorkerCrash, IInv, TypeOK
  <2>3. tracked' \in [Workers -> Procs \cup {NoProc}] /\ seen' \in [Workers -> BOOLEAN]
        /\ owner' \in [Procs -> Workers \cup {NoWorker}]
    BY <1>1 DEF IInv, TypeOK
  <2> QED
    BY <1>1, <2>1, <2>2, <2>3 DEF IInv, TypeOK, ActType, redis
<1>6. PlaceInv'
  BY <1>1, <1>2 DEF IInv, PlaceInv
<1>7. OwnInv'
  <2>1. \A x \in Workers, q \in Procs : tracked'[x] = q => tracked[x] = q
    BY <1>1, ConstantsOK DEF IInv, TypeOK
  <2>2. \A b \in Actors : act'[b].pc = "kill" => act'[b] = act[b]
    BY <1>1, <1>2
  <2> QED
    BY <1>1, <1>3, <2>1, <2>2 DEF IInv, OwnInv
<1>8. Held'
  <2>1. ASSUME NEW q \in Procs, Alive(q), owner'[q] # NoWorker
        PROVE  tracked'[owner'[q]] = q \/ \E b \in Actors : act'[b].pc = "kill" /\ act'[b].p = q
    <3>1. owner[q] # w /\ owner'[q] = owner[q] /\ owner[q] \in Workers
      BY <1>1, <2>1 DEF IInv, TypeOK
    <3>2. CASE tracked[owner[q]] = q
      BY <1>4, <3>1, <3>2
    <3>3. CASE \E b \in Actors : act[b].pc = "kill" /\ act[b].p = q
      <4>1. PICK b \in Actors : act[b].pc = "kill" /\ act[b].p = q
        BY <3>3
      <4>2. act[b].w # w
        BY <2>1, <3>1, <4>1 DEF IInv, OwnInv
      <4> QED
        BY <1>1, <4>1, <4>2
    <3> QED
      BY <2>1, <3>1, <3>2, <3>3 DEF IInv, Held, At
  <2> QED
    BY <1>3, <2>1 DEF Held, At
<1> QED
  BY <1>5, <1>6, <1>7, <1>8 DEF IInv

\* FFmpeg, the camera and the keys go their way.
LEMMA OutsideStep ==
  ASSUME IInv, \/ LockExpires \/ ActiveExpires \/ \E w \in Workers : WatchSequence(w)
               \/ \E p \in Procs : Write(p) \/ Hang(p) \/ Exit(p) \/ Starve(p)
  PROVE  IInv'
<1>1. CASE LockExpires \/ ActiveExpires
  BY <1>1, Quiet DEF LockExpires, ActiveExpires, Alive, IInv, TypeOK
<1>2. ASSUME NEW w \in Workers, WatchSequence(w) PROVE IInv'
  BY <1>2, Quiet DEF WatchSequence, redis, Alive, IInv, TypeOK
<1>3. ASSUME NEW p \in Procs, Write(p) \/ Hang(p) \/ Exit(p) \/ Starve(p) PROVE IInv'
  <2>1. PICK s \in {"ok", "hung", "failed", "exited"} : Becomes(p, s)
    BY <1>3 DEF Write, Hang, Exit, Starve, Fails
  <2>2. Alive(p)
    BY <1>3 DEF Write, Hang, Exit, Starve, Alive
  <2>3. dir' \in {"none", "empty", "playlist"}
    BY <1>3 DEF Write, Hang, Exit, Starve, IInv, TypeOK
  <2>4. UNCHANGED <<redis, tracked, seen, act, crashes>>
    BY <2>1 DEF Becomes
  <2>5. /\ ffmpeg' \in [Procs -> {"starting", "ok", "hung", "failed", "exited"}]
        /\ owner' \in [Procs -> Workers \cup {NoWorker}]
        /\ \A q \in Procs : owner'[q] \in {owner[q], NoWorker}
    BY <2>1 DEF Becomes, IInv, TypeOK
  <2>6. \A q \in Procs : Alive(q)' => Alive(q)
    BY <2>1, <2>2 DEF Becomes, Alive, IInv, TypeOK
  <2>7. lock' \in BOOLEAN /\ active' \in BOOLEAN /\ seen' \in [Workers -> BOOLEAN]
    BY <2>4 DEF redis, IInv, TypeOK
  <2> QED
    BY <2>3, <2>4, <2>5, <2>6, <2>7, Quiet
<1> QED
  BY <1>1, <1>2, <1>3

\* Every step keeps the inductive invariant.
LEMMA IInvStep == IInv /\ [Next]_vars => IInv'
<1> SUFFICES ASSUME IInv, [Next]_vars PROVE IInv'
  OBVIOUS
<1>1. ASSUME NEW a \in Actors, Start(a) \/ Stop(a) \/ RedisSilent(a) \/ PopenFails(a)
                             \/ CleanFails(a) PROVE IInv'
  <2>1. \/ FastPath(a) \/ TakeLock(a) \/ AlreadyRunning(a) \/ RedisSilent(a) \/ PopenFails(a)
        \/ Unlock(a) \/ Clean(a) \/ CleanFails(a) \/ Spawn(a) \/ Pop(a) \/ Terminate(a)
    BY <1>1 DEF Start, Stop
  <2> QED
    BY <2>1, CallStep, SpawnStep, PopStep, TerminateStep
<1>2. ASSUME NEW r \in Requests, Request(r) \/ ServeFile(r) PROVE IInv'
  <2>1. r \in Actors
    BY DEF Actors
  <2>2. Handles(r)
    BY <1>2 DEF Request, Handles
  <2> QED
    BY <2>1, <2>2, HandlerStep
<1>3. ASSUME NEW w \in Workers, Watch(w) PROVE IInv'
  <2>1. w \in Actors /\ Handles(w)
    BY <1>3 DEF Actors, Handles
  <2> QED
    BY <2>1, HandlerStep
<1>4. ASSUME NEW p \in Procs, Monitor(p) PROVE IInv'
  <2>1. p \in Actors /\ Handles(p)
    BY <1>4 DEF Actors, Handles
  <2> QED
    BY <2>1, HandlerStep
<1>5. CASE \/ LockExpires \/ ActiveExpires \/ \E w \in Workers : WatchSequence(w)
           \/ \E p \in Procs : Write(p) \/ Hang(p) \/ Exit(p) \/ Starve(p)
  BY <1>5, OutsideStep
<1>6. CASE \E w \in Workers : WorkerCrash(w)
  BY <1>6, CrashStep
<1>7. CASE UNCHANGED vars
  BY <1>7 DEF vars, IInv, TypeOK, PlaceInv, OwnInv, Held, At, Alive
<1> QED
  BY <1>1, <1>2, <1>3, <1>4, <1>5, <1>6, <1>7 DEF Next, Trouble

-----------------------------------------------------------------------------
\* The inductive invariant holds always.
THEOREM Invariance == Spec => []IInv
  BY InitIInv, IInvStep, PTL DEF Spec

\* The variables of LocalStream keep their types.
THEOREM TypeCorrect == Spec => []TypeOK
<1>1. IInv => TypeOK
  BY DEF IInv
<1> QED
  BY <1>1, Invariance, PTL

\* No FFmpeg process is lost by the managers, for any number of workers that
\* share the camera's lock, key and directory: only the death of its worker
\* makes it an orphan.
THEOREM NoneLost == Spec => []Held
<1>1. IInv => Held
  BY DEF IInv
<1> QED
  BY <1>1, Invariance, PTL

-----------------------------------------------------------------------------
(* Nobody else has it.                                                     *)

\* The process that actor a is about to end.
Ends(a) == IF act[a].pc = "kill" THEN act[a].p ELSE NoProc

\* What the dictionaries and the calls of stop() hold, they hold apart: one pop
\* gives a process to one call.
Apart ==
  /\ \A v, w \in Workers : tracked[v] = tracked[w] /\ tracked[v] # NoProc => v = w
  /\ \A a, b \in Actors : Ends(a) = Ends(b) /\ Ends(a) # NoProc => a = b
  /\ \A w \in Workers, a \in Actors : Ends(a) # NoProc => tracked[w] # Ends(a)

\* A worker has at most one FFmpeg of the camera beside those its calls of stop()
\* are about to end, whatever requests, watchdog and fallbacks overlap in it.
OnePerWorker ==
  \A p, q \in Procs :
    /\ Alive(p) /\ Alive(q) /\ owner[p] = owner[q] /\ owner[p] # NoWorker
    /\ \A a \in Actors : Ends(a) \notin {p, q}
    => p = q

\* A step that hands no process on keeps them apart.
LEMMA SameHands ==
  ASSUME Apart, tracked' = tracked, \A b \in Actors : Ends(b)' \in {Ends(b), NoProc}
  PROVE  Apart'
  BY DEF Apart

\* An actor at another point than kill, which does not go there.
LEMMA OtherPoint ==
  ASSUME IInv, NEW a \in Actors, act[a].pc # "kill",
         \/ Done(a)
         \/ \E to \in Places : Goto(a, to)
         \/ \E to \in Places, w \in Workers : Call(a, to, w)
  PROVE  \A b \in Actors : Ends(b)' \in {Ends(b), NoProc}
<1>1. \A b \in Actors \ {a} : act'[b] = act[b]
  BY DEF Done, Goto, Call, IInv, TypeOK
<1>2. act'[a].pc # "kill"
  <2>1. CASE Done(a)
    BY <2>1 DEF Done, Idle, IInv, TypeOK
  <2>2. CASE \E to \in Places : Goto(a, to)
    BY <2>2 DEF Goto, Places, IInv, TypeOK
  <2>3. CASE \E to \in Places, w \in Workers : Call(a, to, w)
    BY <2>3 DEF Call, Places, IInv, TypeOK
  <2> QED
    BY <2>1, <2>2, <2>3
<1> QED
  BY <1>1, <1>2 DEF Ends

\* The new process is in nobody's hands.
LEMMA SpawnApart == ASSUME IInv, Apart, NEW a \in Actors, Spawn(a) PROVE Apart'
<1> DEFINE w == act[a].w
<1>1. w \in Workers /\ act[a].pc = "spawn"
  BY DEF Spawn, At, IInv, PlaceInv
<1>2. PICK p \in Procs :
        /\ Free(p, a)
        /\ tracked' = [tracked EXCEPT ![w] = p]
        /\ act' = [act EXCEPT ![a] = Idle, ![p] = IF a \in Requests THEN Watching(w) ELSE Idle]
  BY DEF Spawn
<1> HIDE DEF w
<1>3. \A b \in Actors : act'[b] = act[b] \/ act'[b].pc # "kill"
  <2>1. \A b \in Actors : act'[b] \in {act[b], Idle, Watching(w)}
    BY <1>2 DEF IInv, TypeOK
  <2>2. Idle.pc = "idle" /\ Watching(w).pc = "watch"
    BY DEF Idle, Watching
  <2> QED
    BY <2>1, <2>2
<1>4. \A b \in Actors : Ends(b)' \in {Ends(b), NoProc} /\ Ends(b) # p
  <2>1. p # NoProc /\ \A b \in Actors : act[b].p # p
    BY <1>2, ConstantsOK DEF Free
  <2>2. \A b \in Actors : Ends(b)' \in {Ends(b), NoProc}
    BY <1>3 DEF Ends
  <2>3. \A b \in Actors : Ends(b) # p
    BY <2>1 DEF Ends
  <2> QED
    BY <2>2, <2>3
<1>5. tracked'[w] = p /\ \A x \in Workers \ {w} : tracked'[x] = tracked[x] /\ tracked[x] # p
  BY <1>1, <1>2 DEF Free, IInv, TypeOK
<1> QED
  BY <1>4, <1>5 DEF Apart

\* pop() under the manager's lock: what stop() gets is gone from the dictionary.
LEMMA PopApart == ASSUME IInv, Apart, NEW a \in Actors, Pop(a) PROVE Apart'
<1> DEFINE w == act[a].w
<1>1. w \in Workers /\ act[a].pc = "pop"
  BY DEF Pop, At, IInv, PlaceInv
<1>2. tracked' = [tracked EXCEPT ![w] = NoProc]
      /\ act' = [act EXCEPT ![a].pc = "kill", ![a].p = tracked[w]]
  BY DEF Pop
<1> HIDE DEF w
<1>3. Ends(a) = NoProc /\ Ends(a)' = tracked[w]
  BY <1>1, <1>2 DEF Ends, IInv, TypeOK
<1>4. \A b \in Actors \ {a} : Ends(b)' = Ends(b)
  BY <1>2 DEF Ends, IInv, TypeOK
<1>5. tracked'[w] = NoProc /\ \A x \in Workers \ {w} : tracked'[x] = tracked[x]
  BY <1>1, <1>2 DEF IInv, TypeOK
<1> QED
  BY <1>1, <1>3, <1>4, <1>5 DEF Apart

\* Apart is kept by every step.
LEMMA ApartStep == IInv /\ Apart /\ [Next]_vars => Apart'
<1> SUFFICES ASSUME IInv, Apart, [Next]_vars PROVE Apart'
  OBVIOUS
<1>1. ASSUME NEW a \in Actors,
             \/ FastPath(a) \/ TakeLock(a) \/ AlreadyRunning(a) \/ RedisSilent(a) \/ PopenFails(a)
             \/ Unlock(a) \/ Clean(a) \/ CleanFails(a)
      PROVE  Apart'
  <2>1. act[a].pc # "kill" /\ (Done(a) \/ \E to \in Places : Goto(a, to)) /\ tracked' = tracked
    BY <1>1 DEF FastPath, TakeLock, AlreadyRunning, RedisSilent, PopenFails, Unlock, Clean, CleanFails, At,
       Places, Steps
  <2> QED
    BY <2>1, OtherPoint, SameHands
<1>2. ASSUME NEW a \in Actors, Handles(a) PROVE Apart'
  <2>1. /\ act[a].pc # "kill" /\ tracked' = tracked
        /\ \/ Done(a) \/ \E to \in Places : Goto(a, to)
           \/ \E to \in Places, w \in Workers : Call(a, to, w)
    BY <1>2 DEF Handles, StartStream, StopStream, ServeHls, ServeUnrenewed, ServeFile, Watch, WatchStall,
       WatchInactive, Monitor, MonitorEnds, MonitorChecks, MonitorReleases, At, Places, Steps
  <2> QED
    BY <2>1, OtherPoint, SameHands
<1>3. ASSUME NEW a \in Actors, Terminate(a) PROVE Apart'
  <2>1. tracked' = tracked /\ \A b \in Actors : act'[b] = act[b] \/ act'[b].pc = "clean"
    BY <1>3 DEF Terminate, IInv, TypeOK
  <2>2. \A b \in Actors : Ends(b)' \in {Ends(b), NoProc}
    BY <2>1 DEF Ends
  <2> QED
    BY <2>1, <2>2, SameHands
<1>4. ASSUME NEW w \in Workers, WorkerCrash(w) PROVE Apart'
  <2>1. /\ \A x \in Workers : tracked'[x] \in {tracked[x], NoProc}
        /\ \A b \in Actors : act'[b] = act[b] \/ act'[b].pc = "idle"
    BY <1>4 DEF WorkerCrash, Idle, IInv, TypeOK
  <2>2. \A b \in Actors : Ends(b)' \in {Ends(b), NoProc}
    BY <2>1 DEF Ends
  <2> QED
    BY <2>1, <2>2 DEF Apart
<1>5. CASE UNCHANGED <<act, tracked>>
  BY <1>5, SameHands DEF Ends
<1>6. \/ UNCHANGED <<act, tracked>>
      \/ \E a \in Actors : \/ Handles(a) \/ Spawn(a) \/ Pop(a) \/ Terminate(a)
                           \/ FastPath(a) \/ TakeLock(a) \/ AlreadyRunning(a) \/ RedisSilent(a)
                           \/ PopenFails(a) \/ Unlock(a) \/ Clean(a) \/ CleanFails(a)
      \/ \E w \in Workers : WorkerCrash(w)
  BY DEF Next, Handles, Start, Stop, Request, Trouble, Actors, WatchSequence, Write, Starve, Hang,
     Exit, Fails, Becomes, LockExpires, ActiveExpires, vars
<1> QED
  BY <1>1, <1>2, <1>3, <1>4, <1>5, <1>6, SpawnApart, PopApart

\* Every FFmpeg of a living worker is in one place, and a worker has one.
THEOREM HeldExclusively == Spec => [](Apart /\ OnePerWorker)
<1>1. Init => Apart
  BY DEF Init, Idle, Ends, Apart
<1>2. IInv /\ Apart /\ [Next]_vars => Apart'
  BY ApartStep
<1>3. IInv => OnePerWorker
  <2> SUFFICES ASSUME IInv, NEW p \in Procs, NEW q \in Procs, Alive(p), Alive(q),
                      owner[p] = owner[q], owner[p] # NoWorker,
                      \A a \in Actors : Ends(a) \notin {p, q}
               PROVE  p = q
    BY DEF OnePerWorker
  <2>1. ASSUME NEW r \in {p, q} PROVE tracked[owner[r]] = r
    BY DEF IInv, Held, At, Ends
  <2> QED
    BY <2>1
<1> QED
  BY Invariance, <1>1, <1>2, <1>3, PTL DEF Spec

=============================================================================
