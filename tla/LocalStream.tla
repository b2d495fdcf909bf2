----------------------------- MODULE LocalStream -----------------------------
(***************************************************************************)
(* The HLS streams of one camera while the camera gateway is offline: the  *)
(* LocalStreamManager of every gunicorn worker, its watchdog and its       *)
(* early-exit monitors, the handlers start_stream, stop_stream and         *)
(* serve_hls, and what the workers share: two keys in Redis and the        *)
(* directory /tmp/hls/<camera>.                                            *)
(*                                                                         *)
(* start() and stop() are called by requests, by the watchdog of a worker  *)
(* and by the monitor of an FFmpeg process; each of these is an actor with *)
(* a place of its own in them.                                             *)
(***************************************************************************)
EXTENDS Integers, FiniteSets

CONSTANTS
  Requests,     \* HTTP requests at work at once
  Workers,      \* gunicorn workers, each with its manager and watchdog
  Procs,        \* FFmpeg processes at once (bound)
  NoProc, NoWorker,
  RedisFails,   \* whether Redis may leave a worker without an answer
  MaxCrashes    \* bound: workers killed

ASSUME ConstantsOK ==
  /\ NoProc \notin Procs /\ NoWorker \notin Workers /\ MaxCrashes \in Nat
  /\ RedisFails \in BOOLEAN
  /\ Requests \cap Workers = {} /\ Requests \cap Procs = {} /\ Workers \cap Procs = {}

Actors == Requests \cup Workers \cup Procs

VARIABLES
  lock,     \* epi:stream:<camera>:ffmpeg_lock is in Redis
  active,   \* epi:stream:<camera>:active is in Redis
  dir,      \* the directory: "none", "empty", "playlist"
  ffmpeg,   \* ffmpeg[p]: what process p is doing
  owner,    \* owner[p]: the worker that p, while it lives, is a child of
  tracked,  \* tracked[w]: _processes[camera] of w
  seen,     \* seen[w]: w has an entry in _sequences
  act,      \* act[a]: where actor a is, in which worker, with which arguments
  crashes

vars == <<lock, active, dir, ffmpeg, owner, tracked, seen, act, crashes>>
redis == <<lock, active>>

-----------------------------------------------------------------------------
Alive(p) == ffmpeg[p] \in {"starting", "ok", "hung"}
IsRunning(w) == tracked[w] # NoProc /\ Alive(tracked[w])

\* The playlist advances, whoever of the processes writes it.
Producing == dir # "none" /\ \E p \in Procs : ffmpeg[p] = "ok"

\* The sequence w has recorded no longer advances.
Stuck(w) == seen[w] /\ ~Producing

At(a, pc)  == act[a].pc = pc
Idle == [pc |-> "idle", w |-> NoWorker, p |-> NoProc]
Goto(a, pc) == act' = [act EXCEPT ![a].pc = pc]
Done(a)     == act' = [act EXCEPT ![a] = Idle]
Call(a, pc, w) == act' = [act EXCEPT ![a] = [pc |-> pc, w |-> w, p |-> NoProc]]

\* A process nobody but actor a refers to any more: its name can be used again.
Free(p, a) == /\ ~Alive(p) /\ (At(p, "idle") \/ p = a)
              /\ \A w \in Workers : tracked[w] # p
              /\ \A b \in Actors : act[b].p # p

Init ==
  /\ lock = FALSE /\ active = FALSE /\ dir = "none"
  /\ ffmpeg = [p \in Procs |-> "exited"] /\ owner = [p \in Procs |-> NoWorker]
  /\ tracked = [w \in Workers |-> NoProc] /\ seen = [w \in Workers |-> FALSE]
  /\ act = [a \in Actors |-> Idle] /\ crashes = 0

-----------------------------------------------------------------------------
(* start().                                                                *)

\* The fast path: this worker already has a process that runs.
FastPath(a) ==
  /\ At(a, "fast")
  /\ IF IsRunning(act[a].w) THEN Done(a) ELSE Goto(a, "lock")
  /\ UNCHANGED <<redis, dir, ffmpeg, owner, tracked, seen, crashes>>

\* Mutant: the lock holds the worker that took it.
TakeLockNamed(a) ==
  /\ At(a, "lock")
  /\ IF lock THEN Done(a) ELSE Goto(a, "spawn")
  /\ lock' = act[a].w
  /\ UNCHANGED <<active, dir, ffmpeg, owner, tracked, seen, crashes>>

\* SET NX EX 60.
TakeLock(a) ==
  /\ At(a, "lock")
  /\ IF lock THEN Done(a) ELSE Goto(a, "spawn")
  /\ lock' = TRUE
  /\ UNCHANGED <<active, dir, ffmpeg, owner, tracked, seen, crashes>>

\* Redis does not answer: start() goes on without the lock, stop() and the
\* monitor go on and leave it.
RedisSilent(a) ==
  /\ RedisFails
  /\ \/ At(a, "lock") /\ Goto(a, "spawn")
     \/ At(a, "unlock") /\ Goto(a, "pop")
     \/ At(a, "release") /\ Goto(a, "fast")
  /\ UNCHANGED <<redis, dir, ffmpeg, owner, tracked, seen, crashes>>

\* The second look finds a process: the lock just taken stays.
AlreadyRunning(a) ==
  /\ At(a, "spawn") /\ IsRunning(act[a].w)
  /\ Done(a)
  /\ UNCHANGED <<redis, dir, ffmpeg, owner, tracked, seen, crashes>>

\* The monitor of a process in worker w.
Watching(w) == [Idle EXCEPT !.pc = "watch", !.w = w]

\* Popen, under the manager's _lock. A request passes the main stream as a
\* fallback and its process gets a monitor (one without a fallback is one whose
\* monitor ends at once); the monitor itself passes none.
Spawn(a) ==
  /\ At(a, "spawn") /\ ~IsRunning(act[a].w)
  /\ \E p \in Procs :
       LET w == act[a].w
       IN /\ Free(p, a)
          /\ ffmpeg' = [ffmpeg EXCEPT ![p] = "starting"]
          /\ owner' = [owner EXCEPT ![p] = w]
          /\ tracked' = [tracked EXCEPT ![w] = p]
          /\ dir' = IF dir = "none" THEN "empty" ELSE dir
          /\ act' = [act EXCEPT ![a] = Idle, ![p] = IF a \in Requests THEN Watching(w) ELSE Idle]
  /\ UNCHANGED <<redis, seen, crashes>>

\* Popen raises: the directory is there, the lock stays.
PopenFails(a) ==
  /\ At(a, "spawn") /\ ~IsRunning(act[a].w)
  /\ dir' = IF dir = "none" THEN "empty" ELSE dir
  /\ Done(a)
  /\ UNCHANGED <<redis, ffmpeg, owner, tracked, seen, crashes>>

-----------------------------------------------------------------------------
(* stop().                                                                 *)

\* DEL of the lock, whoever took it.
Unlock(a) ==
  /\ At(a, "unlock")
  /\ lock' = FALSE
  /\ Goto(a, "pop")
  /\ UNCHANGED <<active, dir, ffmpeg, owner, tracked, seen, crashes>>

\* Mutant: the process is taken out of the dictionary and forgotten.
PopForgets(a) ==
  /\ At(a, "pop")
  /\ tracked' = [tracked EXCEPT ![act[a].w] = NoProc]
  /\ seen' = [seen EXCEPT ![act[a].w] = FALSE]
  /\ Goto(a, "clean")
  /\ UNCHANGED <<redis, dir, ffmpeg, owner, crashes>>

Pop(a) ==
  /\ At(a, "pop")
  /\ tracked' = [tracked EXCEPT ![act[a].w] = NoProc]
  /\ seen' = [seen EXCEPT ![act[a].w] = FALSE]
  /\ act' = [act EXCEPT ![a].pc = "kill", ![a].p = tracked[act[a].w]]
  /\ UNCHANGED <<redis, dir, ffmpeg, owner, crashes>>

\* terminate(), then kill() if need be.
Terminate(a) ==
  /\ At(a, "kill")
  /\ ffmpeg' = [p \in Procs |-> IF p = act[a].p THEN "exited" ELSE ffmpeg[p]]
  /\ owner' = [p \in Procs |-> IF p = act[a].p THEN NoWorker ELSE owner[p]]
  /\ act' = [act EXCEPT ![a].pc = "clean", ![a].p = NoProc]
  /\ UNCHANGED <<redis, dir, tracked, seen, crashes>>

\* rmtree of the directory, whoever writes to it: an FFmpeg that does can keep
\* it from being removed, emptied as it is.
Clean(a) ==
  /\ At(a, "clean")
  /\ \/ dir' = "none"
     \/ dir # "none" /\ (\E p \in Procs : ffmpeg[p] = "ok") /\ dir' = "empty"
  /\ Done(a)
  /\ UNCHANGED <<redis, ffmpeg, owner, tracked, seen, crashes>>

\* rmtree raises OSError, which is logged: the directory stays, and the playlist
\* if rmtree had not come to it.
CleanFails(a) ==
  /\ At(a, "clean") /\ dir # "none"
  /\ dir' \in {"empty", dir}
  /\ Done(a)
  /\ UNCHANGED <<redis, ffmpeg, owner, tracked, seen, crashes>>

-----------------------------------------------------------------------------
(* The handlers; the gateway is offline.                                   *)

StartStream(r, w) ==
  /\ At(r, "idle")
  /\ active' = TRUE
  /\ Call(r, "fast", w)
  /\ UNCHANGED <<lock, dir, ffmpeg, owner, tracked, seen, crashes>>

StopStream(r, w) ==
  /\ At(r, "idle")
  /\ active' = FALSE
  /\ Call(r, "unlock", w)
  /\ UNCHANGED <<lock, dir, ffmpeg, owner, tracked, seen, crashes>>

\* serve_hls keeps the stream active, unless this worker knows that it stalls.
ServeHls(r, w) ==
  /\ At(r, "idle")
  /\ active' \in {TRUE} \cup IF Stuck(w) THEN {active} ELSE {}
  /\ Call(r, "file", w)
  /\ UNCHANGED <<lock, dir, ffmpeg, owner, tracked, seen, crashes>>

\* Redis does not take the renewal: the file is served all the same.
ServeUnrenewed(r, w) ==
  /\ RedisFails
  /\ At(r, "idle")
  /\ Call(r, "file", w)
  /\ UNCHANGED <<redis, dir, ffmpeg, owner, tracked, seen, crashes>>

\* The file is there and is served, or the stream is started for it.
ServeFile(r) ==
  /\ At(r, "file")
  /\ IF dir = "playlist" THEN Done(r) ELSE Goto(r, "fast")
  /\ UNCHANGED <<redis, dir, ffmpeg, owner, tracked, seen, crashes>>

-----------------------------------------------------------------------------
(* The watchdog of worker w, and the monitor of process p.                 *)

\* _check_stall of a playlist that advances records it.
WatchSequence(w) ==
  /\ At(w, "idle") /\ tracked[w] # NoProc /\ dir = "playlist" /\ ~seen[w]
  /\ seen' = [seen EXCEPT ![w] = TRUE]
  /\ UNCHANGED <<redis, dir, ffmpeg, owner, tracked, act, crashes>>

\* Mutant: a stall counts only when nobody watches (GR-2, as it was before).
WatchStallIdle(w) ==
  /\ At(w, "idle") /\ tracked[w] # NoProc /\ dir = "playlist" /\ Stuck(w) /\ ~active
  /\ Call(w, "unlock", w)
  /\ UNCHANGED <<redis, dir, ffmpeg, owner, tracked, seen, crashes>>

\* _check_stall of a playlist that stands still: stop(). Without a playlist it
\* takes the stream to be starting.
WatchStall(w) ==
  /\ At(w, "idle") /\ tracked[w] # NoProc /\ dir = "playlist" /\ Stuck(w)
  /\ Call(w, "unlock", w)
  /\ UNCHANGED <<redis, dir, ffmpeg, owner, tracked, seen, crashes>>

\* Mutant: only while the start lock is there.
WatchInactiveLocked(w) ==
  /\ At(w, "idle") /\ tracked[w] # NoProc /\ ~active /\ lock
  /\ Call(w, "unlock", w)
  /\ UNCHANGED <<redis, dir, ffmpeg, owner, tracked, seen, crashes>>

\* No active key: stop().
WatchInactive(w) ==
  /\ At(w, "idle") /\ tracked[w] # NoProc /\ ~active
  /\ Call(w, "unlock", w)
  /\ UNCHANGED <<redis, dir, ffmpeg, owner, tracked, seen, crashes>>

\* The early-exit window is over, or FFmpeg ended without an error.
MonitorEnds(p) ==
  /\ At(p, "watch") /\ ffmpeg[p] # "failed"
  /\ Done(p)
  /\ UNCHANGED <<redis, dir, ffmpeg, owner, tracked, seen, crashes>>

\* FFmpeg failed early: go on only if p is still the one that is tracked.
MonitorChecks(p) ==
  /\ At(p, "watch") /\ ffmpeg[p] = "failed"
  /\ ffmpeg' = [ffmpeg EXCEPT ![p] = "exited"]
  /\ IF tracked[act[p].w] = p THEN Goto(p, "release") ELSE Done(p)
  /\ UNCHANGED <<redis, dir, owner, tracked, seen, crashes>>

\* The lock of the failed attempt is released; start() with the main stream.
MonitorReleases(p) ==
  /\ At(p, "release")
  /\ lock' = FALSE
  /\ Goto(p, "fast")
  /\ UNCHANGED <<active, dir, ffmpeg, owner, tracked, seen, crashes>>

-----------------------------------------------------------------------------
(* FFmpeg, the camera, Redis and the workers' lives.                       *)

Becomes(p, s) ==
  /\ ffmpeg' = [ffmpeg EXCEPT ![p] = s]
  /\ owner' = [owner EXCEPT ![p] = IF s \in {"failed", "exited"} THEN NoWorker ELSE @]
  /\ UNCHANGED <<redis, tracked, seen, act, crashes>>

Fails(p) == Becomes(p, IF At(p, "watch") THEN "failed" ELSE "exited")

\* Segments and a playlist are written; a frozen camera comes back.
Write(p) == Alive(p) /\ dir # "none" /\ dir' = "playlist" /\ Becomes(p, "ok")

\* The camera drops off the network and FFmpeg does not notice.
Hang(p) == ffmpeg[p] \in {"starting", "ok"} /\ Becomes(p, "hung") /\ UNCHANGED dir

\* FFmpeg ends, with an error or without; only a monitor tells them apart.
Exit(p) == Alive(p) /\ (Fails(p) \/ Becomes(p, "exited")) /\ UNCHANGED dir

\* FFmpeg cannot write into a directory that is gone.
Starve(p) == ffmpeg[p] \in {"starting", "ok"} /\ dir = "none"
             /\ Fails(p) /\ UNCHANGED dir

\* Mutant: SET NX without EX.
LockStays == lock /\ lock' = TRUE /\ UNCHANGED vars

\* The 60 seconds are over: longer than any start() takes.
LockExpires ==
  /\ lock /\ \A a \in Actors : ~At(a, "spawn")
  /\ lock' = FALSE
  /\ UNCHANGED <<active, dir, ffmpeg, owner, tracked, seen, act, crashes>>

ActiveExpires ==
  /\ active
  /\ active' = FALSE
  /\ UNCHANGED <<lock, dir, ffmpeg, owner, tracked, seen, act, crashes>>

\* gunicorn or the kernel kills a worker and another takes its place: its
\* threads and dictionaries are gone, the FFmpeg processes are not.
WorkerCrash(w) ==
  /\ crashes < MaxCrashes /\ Cardinality({p \in Procs : Alive(p)}) < Cardinality(Procs)
  /\ crashes' = crashes + 1
  /\ tracked' = [tracked EXCEPT ![w] = NoProc] /\ seen' = [seen EXCEPT ![w] = FALSE]
  /\ owner' = [p \in Procs |-> IF owner[p] = w THEN NoWorker ELSE owner[p]]
  /\ act' = [a \in Actors |-> IF act[a].w = w THEN Idle ELSE act[a]]
  /\ UNCHANGED <<redis, dir, ffmpeg>>

-----------------------------------------------------------------------------
Start(a) == FastPath(a) \/ TakeLock(a) \/ AlreadyRunning(a) \/ Spawn(a)
Stop(a)  == Unlock(a) \/ Pop(a) \/ Terminate(a) \/ Clean(a)
Request(r) == \E w \in Workers : \/ StartStream(r, w) \/ StopStream(r, w) \/ ServeHls(r, w)
                                \/ ServeUnrenewed(r, w)
Watch(w)   == WatchStall(w) \/ WatchInactive(w)
Monitor(p) == MonitorEnds(p) \/ MonitorChecks(p) \/ MonitorReleases(p)
Trouble ==
  \/ \E a \in Actors : RedisSilent(a) \/ PopenFails(a) \/ CleanFails(a)
  \/ \E p \in Procs : Hang(p) \/ Exit(p)
  \/ \E w \in Workers : WorkerCrash(w)

Next ==
  \/ \E a \in Actors : Start(a) \/ Stop(a)
  \/ \E r \in Requests : Request(r) \/ ServeFile(r)
  \/ \E w \in Workers : WatchSequence(w) \/ Watch(w)
  \/ \E p \in Procs : Monitor(p) \/ Write(p) \/ Starve(p)
  \/ LockExpires \/ ActiveExpires
  \/ Trouble

Spec == Init /\ [][Next]_vars

\* start() waits for a process name: only the bound on Procs makes it.
NoneFree(a) == At(a, "spawn") /\ ~IsRunning(act[a].w) /\ \A p \in Procs : ~Free(p, a)

\* Every thread runs and comes to the end of what it does, as it does under weak
\* fairness of each of its steps: they lead in no circle, and each is enabled
\* until it is taken. The watchdog comes round every 5 seconds, FFmpeg writes
\* unless the camera is frozen, and keys expire: the active key at least when no
\* request comes.
FairSpec ==
  /\ Spec
  /\ \A a \in Actors : []<>(At(a, "idle") \/ NoneFree(a))
  /\ \A w \in Workers : WF_vars(WatchSequence(w)) /\ SF_vars(WatchStall(w)) /\ WF_vars(WatchInactive(w))
  /\ \A p \in Procs : WF_vars(Starve(p)) /\ WF_vars(ffmpeg[p] # "hung" /\ Write(p))
  /\ WF_vars(LockExpires)
  /\ WF_vars(active /\ (ActiveExpires \/ \E r \in Requests : Request(r)))

-----------------------------------------------------------------------------
Steps == {"idle", "fast", "lock", "spawn", "unlock", "pop", "kill", "clean", "file",
          "watch", "release"}

TypeOK ==
  /\ lock \in BOOLEAN /\ active \in BOOLEAN /\ dir \in {"none", "empty", "playlist"}
  /\ ffmpeg \in [Procs -> {"starting", "ok", "hung", "failed", "exited"}]
  /\ owner \in [Procs -> Workers \cup {NoWorker}]
  /\ tracked \in [Workers -> Procs \cup {NoProc}] /\ seen \in [Workers -> BOOLEAN]
  /\ act \in [Actors -> [pc : Steps, w : Workers \cup {NoWorker}, p : Procs \cup {NoProc}]]
  /\ crashes \in 0..MaxCrashes

\* No FFmpeg is lost: whatever starts, stops and fallbacks overlap, one that
\* runs is in the dictionary of its worker, or in the hands of a stop() that
\* will end it, or its worker was killed.
Held == \A p \in Procs : Alive(p) =>
  \/ owner[p] = NoWorker
  \/ tracked[owner[p]] = p
  \/ \E a \in Actors : At(a, "kill") /\ act[a].p = p

\* "stops idle streams": once nobody asks for the camera, all its FFmpeg
\* processes end, whatever locks are left, on every worker; but for those whose
\* worker was killed, which are in no dictionary.
IdleStops ==
  <>[][\A r \in Requests : ~Request(r)]_vars
    => <>[](\A p \in Procs : Alive(p) => owner[p] = NoWorker)

\* The task-068 promise, for a stream whose playlist has been seen to advance:
\* one that stands still is stopped even while its viewers go on asking.
Frozen(w) == Stuck(w) /\ dir = "playlist" /\ tracked[w] # NoProc
StallStops == \A w \in Workers : []<>~Frozen(w)

\* Nothing fails any more, nobody stops the stream and the active key is renewed
\* before it expires.
Calm == /\ \A p \in Procs : ffmpeg[p] # "hung"
        /\ ~Trouble /\ ~ActiveExpires
        /\ \A r \in Requests, w \in Workers : ~StopStream(r, w) /\ ~ServeUnrenewed(r, w)

\* A player asks for the playlist again and again.
Watched == \A r \in Requests : WF_vars(\E w \in Workers : ServeHls(r, w))

\* A playlist that no FFmpeg writes.
Still == dir = "playlist" /\ ~Producing

\* A viewer who keeps asking sees a moving picture again whatever has failed,
\* once nothing does: no lock that was left, no FFmpeg that froze or died and no
\* directory that was removed under a process keeps the camera dark. Except for
\* a playlist that stands still and belongs to no worker's dictionary, which
\* DeadStreamLetGo is about.
ViewerServed ==
  Watched /\ <>[][Calm]_vars
    => []<>Producing \/ <>[](Still /\ \A w \in Workers : tracked[w] = NoProc)

\* "A client stuck polling a dead stream must not keep it active forever": the
\* comment of serve_hls. False of the code: a worker that is killed, or a
\* directory that could not be removed, leaves a playlist no watchdog looks at.
DeadStreamLetGo ==
  Watched /\ <>[][Calm]_vars => []<>~(active /\ Still)

=============================================================================
