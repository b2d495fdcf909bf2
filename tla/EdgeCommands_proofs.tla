------------------------ MODULE EdgeCommands_proofs ------------------------
(***************************************************************************)
(* Proofs about EdgeCommands, for any cameras, values, requests and bounds *)
(* of the queue: the two channels implement ConfigMirror. The invariant    *)
(* says of everything under way (a PATCH, a command, an answer, the list   *)
(* in memory) that its camera has had this configuration.                  *)
(***************************************************************************)
EXTENDS EdgeCommands, SequenceTheorems, TLAPS

\* What the cloud holds and has under way.
RowInv   == \A c \in Cameras : db[c] \in past[c]
PatchInv == \A a \in Admins : patch[a].pc = "queue" =>
              patch[a].cam \in Cameras /\ patch[a].conf \in past[patch[a].cam]
QueueInv == \A i \in Rows : queue[i].cam # NoCamera => queue[i].conf \in past[queue[i].cam]

\* What the agent holds and has under way.
ReplyInv == \A r \in reply, c \in Cameras : r[c] \in past[c]

IInv == TypeOK /\ RowInv /\ PatchInv /\ QueueInv /\ ReplyInv /\ Mirror!MirrorsPast

PatchType == [pc : {"idle", "queue"}, cam : Cameras \cup {NoCamera}, conf : Configs]

\* The agent's list is a function on some of the cameras.
Copies == UNION {[known -> Configs] : known \in SUBSET Cameras}

-----------------------------------------------------------------------------
\* The default is a configuration, and nothing is a list of no cameras.
LEMMA DefaultIsConfig == DefaultConfig \in Configs /\ IdlePatch \in PatchType /\ IdlePatch.pc = "idle"
  BY ConstantsOK DEF DefaultConfig, Configs, IdlePatch, PatchType

LEMMA NothingIsCopy == \A S : << >> \in [{} -> S]
<1> TAKE S
<1>1. << >> \in Seq(S) /\ Len(<< >>) = 0
  BY EmptySeq
<1>2. << >> \in [1..0 -> S]
  BY <1>1, LenProperties
<1> QED
  BY <1>2

\* The initial states satisfy the inductive invariant.
LEMMA InitIInv == Init => IInv
<1> SUFFICES ASSUME Init PROVE IInv
  OBVIOUS
<1>1. db \in [Cameras -> Configs] /\ past \in [Cameras -> SUBSET Configs] /\ RowInv
  BY DefaultIsConfig DEF Init, RowInv
<1>2. patch \in [Admins -> PatchType] /\ PatchInv
  BY DefaultIsConfig DEF Init, PatchInv
<1>3. queue \in Seq(Commands) /\ Len(queue) = 0 /\ Rows = {} /\ QueueInv
  BY EmptySeq, LenProperties DEF Init, Rows, QueueInv
<1>4. cameras \in [{} -> Configs] /\ DOMAIN cameras = {}
  BY NothingIsCopy DEF Init
<1>5. TypeOK
  <2>1. \E known \in SUBSET Cameras : cameras \in [known -> Configs]
    BY <1>4
  <2>2. reply = {} /\ todo = {} /\ acks = {}
    BY DEF Init
  <2>3. /\ patches \in 0..MaxPatches /\ millis \in 0..MaxMillis
        /\ restarts \in 0..MaxRestarts /\ Len(queue) <= MaxCommands
    BY <1>3, ConstantsOK DEF Init
  <2> QED
    BY <1>1, <1>2, <1>3, <2>1, <2>2, <2>3 DEF TypeOK, PatchType
<1> QED
  BY <1>1, <1>2, <1>3, <1>4, <1>5 DEF Init, IInv, ReplyInv, Mirror!MirrorsPast

\* What a queue of commands is.
LEMMA QueueType ==
  ASSUME TypeOK
  PROVE  /\ Len(queue) \in Nat /\ Rows = 1..Len(queue) /\ queue \in [Rows -> Commands]
         /\ \A i \in Rows : queue[i] \in Commands /\ queue[i].cam \in Cameras \cup {NoCamera}
<1>1. queue \in [1..Len(queue) -> Commands] /\ Rows = 1..Len(queue) /\ Len(queue) \in Nat
  BY LenProperties DEF TypeOK, Rows
<1> QED
  BY <1>1 DEF Commands

\* The PATCH: what a camera has had only grows.
LEMMA PatchStep ==
  ASSUME IInv, NEW a \in Admins, PatchConfig(a)
  PROVE  IInv' /\ \E c \in Cameras, v \in Configs : Mirror!Change(c, v)
<1>1. PICK c \in Cameras, given \in [Fields -> Values \cup {Keep}] :
        /\ db' = [db EXCEPT ![c] = Coalesce(given, db[c])]
        /\ past' = [past EXCEPT ![c] = @ \cup {Coalesce(given, db[c])}]
        /\ patch' = [patch EXCEPT ![a] = [pc |-> "queue", cam |-> c, conf |-> Coalesce(given, db[c])]]
  BY DEF PatchConfig
<1> DEFINE conf == Coalesce(given, db[c])
           v == [pc |-> "queue", cam |-> c, conf |-> conf]
<1>2. /\ UNCHANGED <<millis, queue, cameras, reply, todo, restarts, acks>>
      /\ patches < MaxPatches /\ patches' = patches + 1
  BY DEF PatchConfig, agent
<1>3. conf \in Configs
  <2>1. db[c] \in [Fields -> Values]
    BY DEF IInv, TypeOK, Configs
  <2> QED
    BY <2>1 DEF Coalesce, Configs
<1>4. v \in PatchType /\ v.cam = c /\ v.conf = conf
  BY <1>3 DEF PatchType
<1>5. patch' = [patch EXCEPT ![a] = v]
  BY <1>1
<1> HIDE DEF v, conf
<1>6. past \in [Cameras -> SUBSET Configs] /\ db \in [Cameras -> Configs]
      /\ patch \in [Admins -> PatchType]
  BY DEF IInv, TypeOK, PatchType
<1>7. /\ past' = [past EXCEPT ![c] = @ \cup {conf}] /\ db' = [db EXCEPT ![c] = conf]
  BY <1>1 DEF conf
<1>8. /\ \A x \in Cameras : past[x] \subseteq past'[x] /\ db'[x] = IF x = c THEN conf ELSE db[x]
      /\ conf \in past'[c]
  BY <1>6, <1>7
<1>9. TypeOK'
  <2>1. db' \in [Cameras -> Configs] /\ past' \in [Cameras -> SUBSET Configs]
        /\ patch' \in [Admins -> PatchType]
    BY <1>3, <1>4, <1>5, <1>6, <1>7
  <2>2. patches' \in 0..MaxPatches
    BY <1>2, ConstantsOK DEF IInv, TypeOK
  <2> QED
    BY <1>2, <2>1, <2>2 DEF IInv, TypeOK, PatchType, Rows
<1>10. RowInv'
  BY <1>8 DEF IInv, RowInv
<1>11. PatchInv'
  BY <1>4, <1>5, <1>6, <1>8 DEF IInv, PatchInv
<1>12. QueueInv'
  <2>1. \A i \in Rows : queue[i].cam \in Cameras \cup {NoCamera}
    BY QueueType DEF IInv
  <2> QED
    BY <1>2, <1>8, <2>1 DEF IInv, QueueInv, Rows
<1>13. ReplyInv' /\ Mirror!MirrorsPast'
  BY <1>2, <1>8 DEF IInv, ReplyInv, Mirror!MirrorsPast
<1>14. Mirror!Change(c, conf)
  BY <1>2, <1>7 DEF Mirror!Change
<1> QED
  BY <1>3, <1>9, <1>10, <1>11, <1>12, <1>13, <1>14 DEF IInv

\* A step that leaves the cameras' rows alone: what it puts under way was there.
LEMMA Keeps ==
  ASSUME IInv, TypeOK', UNCHANGED <<db, past>>, PatchInv', QueueInv', ReplyInv',
         Mirror!MirrorsPast'
  PROVE  IInv'
  BY DEF IInv, RowInv

\* A row is appended, or dropped because its id is there.
LEMMA Created ==
  ASSUME IInv, NEW id \in (Cameras \cup {NoCamera}) \X Nat, NEW cam \in Cameras \cup {NoCamera},
         NEW conf \in Configs, Create(id, cam, conf), Len(queue) < MaxCommands,
         UNCHANGED past, cam # NoCamera => conf \in past[cam]
  PROVE  queue' \in Seq(Commands) /\ Len(queue') <= MaxCommands /\ Rows \subseteq Rows' /\ QueueInv'
<1> DEFINE cmd == [id |-> id, cam |-> cam, conf |-> conf, status |-> "pending"]
<1>1. queue \in Seq(Commands) /\ Len(queue) \in Nat /\ Rows = 1..Len(queue)
  BY QueueType DEF IInv, TypeOK
<1>2. cmd \in Commands /\ cmd.cam = cam /\ cmd.conf = conf
  BY DEF Commands
<1>3. CASE queue' = queue
  BY <1>1, <1>3, ConstantsOK DEF Rows, IInv, QueueInv
<1>4. CASE queue' = Append(queue, cmd)
  <2> HIDE DEF cmd
  <2>1. /\ queue' \in Seq(Commands) /\ Len(queue') = Len(queue) + 1
        /\ \A i \in 1..Len(queue) : queue'[i] = queue[i]
        /\ queue'[Len(queue) + 1] = cmd
    BY <1>1, <1>2, <1>4, AppendProperties
  <2>2. Rows' = 1..(Len(queue) + 1)
    BY <2>1, LenProperties DEF Rows
  <2>3. QueueInv'
    <3> SUFFICES ASSUME NEW i \in Rows', queue'[i].cam # NoCamera
                 PROVE  queue'[i].conf \in past[queue'[i].cam]
      BY DEF QueueInv
    <3>1. CASE i = Len(queue) + 1
      BY <1>2, <2>1, <3>1
    <3>2. CASE i \in Rows
      BY <1>1, <2>1, <3>2 DEF IInv, QueueInv
    <3> QED
      BY <1>1, <2>2, <3>1, <3>2
  <2> QED
    BY <1>1, <2>1, <2>2, <2>3, ConstantsOK
<1> QED
  BY <1>3, <1>4 DEF Create

\* The cloud's steps after the PATCH.
LEMMA QueueStep ==
  ASSUME IInv, NEW a \in Admins, QueuePropagation(a) \/ QueueFails(a) PROVE IInv'
<1>1. patch' = [patch EXCEPT ![a] = IdlePatch] /\ patch[a].pc = "queue"
      /\ UNCHANGED <<db, past, patches, cameras, reply, todo, restarts, acks>>
  BY DEF QueuePropagation, QueueFails, agent
<1>2. patch' \in [Admins -> PatchType] /\ PatchInv'
  BY <1>1, DefaultIsConfig DEF IInv, TypeOK, PatchType, PatchInv
<1>3. patch[a].cam \in Cameras /\ patch[a].conf \in Configs /\ patch[a].conf \in past[patch[a].cam]
  BY <1>1 DEF IInv, TypeOK, PatchInv
<1>4. /\ queue' \in Seq(Commands) /\ Len(queue') <= MaxCommands /\ Rows \subseteq Rows'
      /\ QueueInv' /\ millis' \in 0..MaxMillis
  <2>1. CASE QueuePropagation(a)
    <3>1. /\ Create(<<patch[a].cam, millis'>>, patch[a].cam, patch[a].conf)
          /\ Len(queue) < MaxCommands /\ millis' \in 0..MaxMillis
      BY <2>1 DEF QueuePropagation, Clock
    <3>2. <<patch[a].cam, millis'>> \in (Cameras \cup {NoCamera}) \X Nat
      BY <1>3, <3>1, ConstantsOK
    <3> HIDE DEF QueuePropagation
    <3> QED
      BY <1>1, <1>3, <3>1, <3>2, Created
  <2>2. CASE QueueFails(a)
    BY <1>1, <2>2 DEF QueueFails, IInv, TypeOK, Rows, QueueInv
  <2> QED
    BY <2>1, <2>2
<1>5. TypeOK'
  BY <1>1, <1>2, <1>4 DEF IInv, TypeOK, PatchType
<1>6. ReplyInv' /\ Mirror!MirrorsPast'
  BY <1>1 DEF IInv, ReplyInv, Mirror!MirrorsPast
<1> QED
  BY <1>1, <1>2, <1>4, <1>5, <1>6, Keeps

LEMMA CommandStep == ASSUME IInv, CreateCommand PROVE IInv'
<1>1. /\ Create(<<NoCamera, Len(queue)>>, NoCamera, DefaultConfig) /\ Len(queue) < MaxCommands
      /\ UNCHANGED <<db, past, patch, patches, millis, cameras, reply, todo, restarts, acks>>
  BY DEF CreateCommand, agent
<1>2. <<NoCamera, Len(queue)>> \in (Cameras \cup {NoCamera}) \X Nat
  BY QueueType DEF IInv
<1>3. queue' \in Seq(Commands) /\ Len(queue') <= MaxCommands /\ Rows \subseteq Rows' /\ QueueInv'
  BY <1>1, <1>2, DefaultIsConfig, Created
<1>4. TypeOK'
  BY <1>1, <1>3 DEF IInv, TypeOK
<1>5. PatchInv' /\ ReplyInv' /\ Mirror!MirrorsPast'
  BY <1>1 DEF IInv, PatchInv, ReplyInv, Mirror!MirrorsPast
<1> QED
  BY <1>1, <1>3, <1>4, <1>5, Keeps

\* Acknowledgements change the status of a row and nothing else.
LEMMA AckStep == ASSUME IInv, NEW m \in acks, UpdateStatus(m) \/ LoseAck(m) PROVE IInv'
<1>1. /\ acks' = acks \ {m}
      /\ UNCHANGED <<db, past, patch, patches, millis, cameras, reply, todo, restarts>>
  BY DEF UpdateStatus, LoseAck, cloud, agent
<1>2. m.cmd \in Rows /\ m.status \in {"done", "failed"}
  BY DEF IInv, TypeOK
<1>3. queue' \in Seq(Commands) /\ Len(queue') = Len(queue) /\ Rows' = Rows /\ QueueInv'
  <2>1. CASE UpdateStatus(m)
    <3> DEFINE cmd == [queue[m.cmd] EXCEPT !.status = m.status]
    <3>1. queue' = [queue EXCEPT ![m.cmd] = cmd]
      BY <2>1 DEF UpdateStatus
    <3>2. cmd \in Commands /\ cmd.cam = queue[m.cmd].cam /\ cmd.conf = queue[m.cmd].conf
      BY <1>2, QueueType DEF IInv, Commands
    <3> HIDE DEF cmd
    <3>3. queue \in Seq(Commands) /\ m.cmd \in 1..Len(queue)
      BY <1>2, QueueType DEF IInv, TypeOK
    <3>4. /\ queue' \in Seq(Commands) /\ Len(queue') = Len(queue)
          /\ \A i \in 1..Len(queue) : queue'[i] = IF i = m.cmd THEN cmd ELSE queue[i]
      BY <3>1, <3>2, <3>3, ExceptSeq
    <3>5. Rows' = Rows
      BY <3>1 DEF Rows
    <3>6. \A i \in Rows : queue'[i].cam = queue[i].cam /\ queue'[i].conf = queue[i].conf
      BY <3>2, <3>4, QueueType DEF IInv
    <3> QED
      BY <1>1, <3>4, <3>5, <3>6 DEF IInv, QueueInv
  <2>2. CASE LoseAck(m)
    BY <2>2 DEF LoseAck, cloud, IInv, TypeOK, Rows, QueueInv
  <2> QED
    BY <2>1, <2>2
<1>4. TypeOK'
  BY <1>1, <1>3 DEF IInv, TypeOK
<1>5. PatchInv' /\ ReplyInv' /\ Mirror!MirrorsPast'
  BY <1>1 DEF IInv, PatchInv, ReplyInv, Mirror!MirrorsPast
<1> QED
  BY <1>1, <1>3, <1>4, <1>5, Keeps

-----------------------------------------------------------------------------
\* A step of the agent leaves the cloud alone.
LEMMA AgentKeeps ==
  ASSUME IInv, UNCHANGED <<cloud, restarts>>,
         acks' \subseteq [cmd : Rows, status : {"done", "failed"}], todo' \subseteq Rows,
         reply' \in {reply, {}, {db}}, Mirror!MirrorsPast',
         \E known \in SUBSET Cameras : cameras' \in [known -> Configs]
  PROVE  IInv'
<1>1. reply' \subseteq [Cameras -> Configs] /\ (\A r, s \in reply' : r = s) /\ ReplyInv'
  <2>1. CASE reply' = {db}
    BY <2>1 DEF IInv, TypeOK, RowInv, ReplyInv, cloud
  <2>2. CASE reply' \in {reply, {}}
    BY <2>2 DEF IInv, TypeOK, ReplyInv, cloud
  <2> QED
    BY <2>1, <2>2
<1>2. TypeOK'
  BY <1>1 DEF IInv, TypeOK, cloud, Rows
<1>3. PatchInv' /\ QueueInv'
  BY DEF IInv, PatchInv, QueueInv, cloud, Rows
<1> QED
  BY <1>1, <1>2, <1>3, Keeps DEF cloud

\* The list in memory is replaced by one whose configurations the cameras had.
LEMMA Copied ==
  ASSUME IInv, NEW known \in SUBSET Cameras, cameras' \in [known -> Configs],
         UNCHANGED <<db, past>>, \A c \in known : cameras'[c] \in past[c]
  PROVE  Mirror!MirrorsPast' /\ Mirror!Copy(known)
<1>1. cameras' \in [known -> UNION {past[c] : c \in Cameras}]
  OBVIOUS
<1> QED
  BY <1>1 DEF Mirror!MirrorsPast, Mirror!Copy

\* The steps that give the agent another list.
LEMMA CopyStep ==
  ASSUME IInv, ApplyConfig \/ Handle \/ Restart
  PROVE  IInv' /\ \E known \in SUBSET Cameras : Mirror!Copy(known)
<1>1. PICK had \in SUBSET Cameras : cameras \in [had -> Configs]
  BY DEF IInv, TypeOK
<1>2. UNCHANGED <<db, past>>
  BY DEF ApplyConfig, Handle, Restart, cloud
<1>3. PICK known \in SUBSET Cameras :
        cameras' \in [known -> Configs] /\ \A c \in known : cameras'[c] \in past[c]
  <2>1. CASE ApplyConfig
    BY <2>1 DEF ApplyConfig, IInv, TypeOK, ReplyInv
  <2>2. CASE Handle
    <3>1. PICK i \in todo : ApplyCameraConfig(queue[i].cam, queue[i].conf)
      BY <2>2 DEF Handle
    <3>2. i \in Rows /\ queue[i].conf \in Configs
      BY QueueType DEF IInv, TypeOK, Commands
    <3>3. cameras' = [c \in had |-> IF c = queue[i].cam THEN queue[i].conf ELSE cameras[c]]
      BY <1>1, <3>1 DEF ApplyCameraConfig
    <3>4. cameras' \in [had -> Configs]
      BY <1>1, <3>2, <3>3
    <3>5. ASSUME NEW c \in had PROVE cameras'[c] \in past[c]
      BY <1>1, <3>2, <3>3, ConstantsOK DEF IInv, QueueInv, Mirror!MirrorsPast
    <3> QED
      BY <3>4, <3>5
  <2>3. CASE Restart
    BY <2>3, NothingIsCopy DEF Restart
  <2> QED
    BY <2>1, <2>2, <2>3
<1>4. Mirror!MirrorsPast' /\ Mirror!Copy(known)
  BY <1>2, <1>3, Copied
<1>5. IInv'
  <2>1. CASE ApplyConfig
    BY <1>3, <1>4, <2>1, AgentKeeps DEF ApplyConfig, IInv, TypeOK
  <2>2. CASE Handle
    <3>1. PICK i \in todo : /\ todo' = todo \ {i}
            /\ acks' = acks \cup {[cmd |-> i,
                 status |-> IF queue[i].cam = NoCamera THEN "failed" ELSE "done"]}
      BY <2>2 DEF Handle
    <3>2. acks' \subseteq [cmd : Rows, status : {"done", "failed"}] /\ todo' \subseteq Rows
      BY <3>1 DEF IInv, TypeOK
    <3> QED
      BY <1>3, <1>4, <2>2, <3>2, AgentKeeps DEF Handle
  <2>3. CASE Restart
    <3>1. restarts' \in 0..MaxRestarts
      BY <2>3, ConstantsOK DEF Restart, IInv, TypeOK
    <3>2. TypeOK' /\ PatchInv' /\ QueueInv' /\ ReplyInv'
      BY <1>3, <2>3, <3>1 DEF Restart, cloud, IInv, TypeOK, PatchInv, QueueInv, ReplyInv, Rows
    <3> QED
      BY <1>2, <1>4, <3>2, Keeps
  <2> QED
    BY <2>1, <2>2, <2>3
<1> QED
  BY <1>4, <1>5

\* The polls: the answer is what the rows are, and a batch is of the queue's.
LEMMA PollStep ==
  ASSUME IInv, FetchConfig \/ ConfigPollFails \/ FetchCommands
  PROVE  IInv' /\ UNCHANGED <<db, past, cameras>>
<1>1. /\ UNCHANGED <<cloud, cameras, restarts, acks>> /\ reply' \in {reply, {}, {db}}
      /\ todo' \subseteq Rows
  BY DEF FetchConfig, ConfigPollFails, FetchCommands, Pending, IInv, TypeOK
<1>2. Mirror!MirrorsPast'
  BY <1>1 DEF IInv, Mirror!MirrorsPast, cloud
<1> QED
  BY <1>1, <1>2, AgentKeeps DEF IInv, TypeOK, cloud

-----------------------------------------------------------------------------
\* Every step keeps the inductive invariant, and is one of ConfigMirror or
\* leaves store and copy as they are.
LEMMA NextStep ==
  ASSUME IInv, [Next]_vars
  PROVE  IInv' /\ [Mirror!MNext]_(Mirror!mvars)
<1>1. ASSUME NEW a \in Admins, PatchConfig(a) PROVE IInv' /\ [Mirror!MNext]_(Mirror!mvars)
  BY <1>1, PatchStep DEF Mirror!MNext
<1>2. CASE ApplyConfig \/ Handle \/ Restart
  BY <1>2, CopyStep DEF Mirror!MNext
<1>3. CASE FetchConfig \/ ConfigPollFails \/ FetchCommands
  BY <1>3, PollStep DEF Mirror!mvars
<1>4. ASSUME NEW a \in Admins, QueuePropagation(a) \/ QueueFails(a)
      PROVE  IInv' /\ [Mirror!MNext]_(Mirror!mvars)
  BY <1>4, QueueStep DEF QueuePropagation, QueueFails, agent, Mirror!mvars
<1>5. CASE CreateCommand
  BY <1>5, CommandStep DEF CreateCommand, agent, Mirror!mvars
<1>6. ASSUME NEW m \in acks, UpdateStatus(m) \/ LoseAck(m)
      PROVE  IInv' /\ [Mirror!MNext]_(Mirror!mvars)
  BY <1>6, AckStep DEF UpdateStatus, LoseAck, cloud, agent, Mirror!mvars
<1>7. CASE UNCHANGED vars
  <2>1. UNCHANGED <<cloud, agent, acks>>
    BY <1>7 DEF vars
  <2>2. Mirror!MirrorsPast'
    BY <2>1 DEF cloud, agent, IInv, Mirror!MirrorsPast
  <2>3. IInv'
    BY <2>1, <2>2, AgentKeeps DEF agent, IInv, TypeOK
  <2> QED
    BY <2>1, <2>3 DEF cloud, agent, Mirror!mvars
<1> QED
  BY <1>1, <1>2, <1>3, <1>4, <1>5, <1>6, <1>7 DEF Next

\* The inductive invariant holds always.
THEOREM Invariance == Spec => []IInv
<1>1. IInv /\ [Next]_vars => IInv'
  BY NextStep
<1> QED
  BY <1>1, InitIInv, PTL DEF Spec

\* The variables of EdgeCommands keep their types.
THEOREM TypeCorrect == Spec => []TypeOK
<1>1. IInv => TypeOK
  BY DEF IInv
<1> QED
  BY <1>1, Invariance, PTL

\* The edge runs a camera only on a configuration the camera has had.
THEOREM NothingInvented == Spec => []Mirror!MirrorsPast
<1>1. IInv => Mirror!MirrorsPast
  BY DEF IInv
<1> QED
  BY <1>1, Invariance, PTL

\* The command queue and the config poll, with whatever is lost, late or applied
\* twice, implement the mirror.
THEOREM Implements == Spec => MirrorsConfig
<1>1. Init => Mirror!MInit
  BY DefaultIsConfig DEF Init, Mirror!MInit
<1>2. IInv /\ [Next]_vars => [Mirror!MNext]_(Mirror!mvars)
  BY NextStep
<1> QED
  BY <1>1, <1>2, Invariance, PTL DEF Spec, MirrorsConfig, Mirror!MSpec

-----------------------------------------------------------------------------
(* What is settled stays settled: the safety cores of QueueDrains and of   *)
(* EventuallyAgrees.                                                       *)

\* What the agent answers to the command of row i.
Outcome(i) == IF queue[i].cam = NoCamera THEN "failed" ELSE "done"

\* A command is acknowledged as done only if it configured a camera, as failed
\* only if the agent does not know it, and no two commands share an id.
AcksTruthful ==
  /\ \A m \in acks : m.status = Outcome(m.cmd)
  /\ \A i \in Rows : queue[i].status \in {"pending", Outcome(i)}
  /\ \A i, j \in Rows : queue[i].id = queue[j].id => i = j

\* No acknowledgement, however late or often repeated, makes a settled command
\* pending again or changes its outcome, and no command changes what it asks for.
SettledStays ==
  [][\A i \in Rows :
       /\ i \in Rows'
       /\ queue'[i].id = queue[i].id /\ queue'[i].cam = queue[i].cam /\ queue'[i].conf = queue[i].conf
       /\ ~IsPending(i) => queue'[i] = queue[i]]_vars

\* How a step changes the queue: rows keep what they ask for, their status
\* comes from an acknowledgement, and a new one has a new id.
RowsKept ==
  \A i \in Rows :
    /\ i \in Rows'
    /\ queue'[i].id = queue[i].id /\ queue'[i].cam = queue[i].cam /\ queue'[i].conf = queue[i].conf
    /\ queue'[i] = queue[i] \/ \E m \in acks : m.cmd = i /\ queue'[i] = [queue[i] EXCEPT !.status = m.status]

RowsNew ==
  /\ \A i \in Rows' \ Rows :
       /\ queue'[i].status = "pending" /\ \A j \in Rows : queue[j].id # queue'[i].id
       /\ \/ queue'[i].cam = NoCamera
          \/ \E a \in Admins : /\ patch[a].pc = "queue" /\ patch[a].cam = queue'[i].cam
                               /\ patch[a].conf = queue'[i].conf
  /\ \A i, j \in Rows' \ Rows : i = j

\* An INSERT keeps the rows and adds at most one.
LEMMA CreateRows ==
  ASSUME IInv, NEW id \in (Cameras \cup {NoCamera}) \X Nat, NEW cam \in Cameras \cup {NoCamera},
         NEW conf \in Configs, Create(id, cam, conf),
         cam = NoCamera \/ \E a \in Admins : patch[a].pc = "queue" /\ patch[a].cam = cam /\ patch[a].conf = conf
  PROVE  RowsKept /\ RowsNew
<1> DEFINE cmd == [id |-> id, cam |-> cam, conf |-> conf, status |-> "pending"]
<1>1. queue \in Seq(Commands) /\ Len(queue) \in Nat /\ Rows = 1..Len(queue)
  BY QueueType DEF IInv, TypeOK
<1>2. cmd \in Commands /\ cmd.cam = cam /\ cmd.conf = conf /\ cmd.id = id /\ cmd.status = "pending"
  BY DEF Commands
<1>3. CASE queue' = queue
  BY <1>3 DEF Rows, RowsKept, RowsNew
<1>4. CASE queue' = Append(queue, cmd) /\ \A i \in Rows : queue[i].id # id
  <2> HIDE DEF cmd
  <2>1. /\ queue' \in Seq(Commands) /\ Len(queue') = Len(queue) + 1
        /\ \A i \in 1..Len(queue) : queue'[i] = queue[i]
        /\ queue'[Len(queue) + 1] = cmd
    BY <1>1, <1>2, <1>4, AppendProperties
  <2>2. Rows' = 1..(Len(queue) + 1)
    BY <2>1, LenProperties DEF Rows
  <2>3. RowsKept
    BY <1>1, <2>1, <2>2 DEF RowsKept
  <2>4. \A i \in Rows' \ Rows : i = Len(queue) + 1
    BY <1>1, <2>2
  <2> QED
    BY <1>2, <1>4, <2>1, <2>3, <2>4 DEF RowsNew
<1> QED
  BY <1>3, <1>4 DEF Create

\* So every step keeps the rows, and adds at most one.
LEMMA RowsStep == ASSUME IInv, [Next]_vars PROVE RowsKept /\ RowsNew
<1>1. ASSUME NEW a \in Admins, QueuePropagation(a) PROVE RowsKept /\ RowsNew
  <2>1. /\ Create(<<patch[a].cam, millis'>>, patch[a].cam, patch[a].conf)
        /\ millis' \in 0..MaxMillis /\ patch[a].pc = "queue"
    BY <1>1 DEF QueuePropagation, Clock
  <2>2. patch[a].cam \in Cameras /\ patch[a].conf \in Configs
    BY <2>1 DEF IInv, TypeOK, PatchInv
  <2>3. <<patch[a].cam, millis'>> \in (Cameras \cup {NoCamera}) \X Nat
    BY <2>1, <2>2, ConstantsOK
  <2> QED
    BY <2>1, <2>2, <2>3, CreateRows
<1>2. CASE CreateCommand
  <2>1. Create(<<NoCamera, Len(queue)>>, NoCamera, DefaultConfig)
    BY <1>2 DEF CreateCommand
  <2>2. <<NoCamera, Len(queue)>> \in (Cameras \cup {NoCamera}) \X Nat
    BY QueueType DEF IInv
  <2> QED
    BY <2>1, <2>2, DefaultIsConfig, CreateRows
<1>3. ASSUME NEW m \in acks, UpdateStatus(m) PROVE RowsKept /\ RowsNew
  <2> DEFINE cmd == [queue[m.cmd] EXCEPT !.status = m.status]
  <2>1. queue' = [queue EXCEPT ![m.cmd] = cmd] /\ m.cmd \in Rows
    BY <1>3 DEF UpdateStatus, IInv, TypeOK
  <2>2. cmd.cam = queue[m.cmd].cam /\ cmd.conf = queue[m.cmd].conf /\ cmd.id = queue[m.cmd].id
    BY <2>1, QueueType DEF IInv, Commands
  <2>3. queue \in [Rows -> Commands]
    BY QueueType DEF IInv
  <2>4. Rows' = Rows
    BY <2>1 DEF Rows
  <2>5. \A i \in Rows \ {m.cmd} : queue'[i] = queue[i]
    BY <2>1, <2>3
  <2>6. queue'[m.cmd] = cmd
    BY <2>1, <2>3
  <2>7. RowsNew
    BY <2>4 DEF RowsNew
  <2> QED
    BY <2>2, <2>4, <2>5, <2>6, <2>7 DEF RowsKept
<1>4. CASE UNCHANGED queue
  BY <1>4 DEF Rows, RowsKept, RowsNew
<1> QED
  BY <1>1, <1>2, <1>3, <1>4 DEF Next, PatchConfig, QueueFails, LoseAck, FetchConfig, ApplyConfig,
     ConfigPollFails, FetchCommands, Handle, Restart, cloud, vars

\* The agent's acknowledgements say what became of the command.
LEMMA TruthStep == ASSUME IInv, AcksTruthful, [Next]_vars PROVE AcksTruthful'
<1>1. RowsKept /\ RowsNew
  BY RowsStep
<1>2. \A i \in Rows : Outcome(i)' = Outcome(i)
  BY <1>1 DEF RowsKept, Outcome
<1>3. \A m \in acks' : m \in acks \/ (m.cmd \in Rows /\ m.status = Outcome(m.cmd))
  <2>1. CASE Handle
    <3>1. PICK i \in todo : acks' = acks \cup {[cmd |-> i, status |-> Outcome(i)]}
      BY <2>1 DEF Handle, Outcome
    <3> QED
      BY <3>1 DEF IInv, TypeOK
  <2>2. CASE acks' \subseteq acks
    BY <2>2
  <2> QED
    BY <2>1, <2>2 DEF Next, CreateCommand, PatchConfig, QueuePropagation, QueueFails, UpdateStatus,
       LoseAck, FetchConfig, ApplyConfig, ConfigPollFails, FetchCommands, Restart, vars
<1>4. \A m \in acks' : m.status = Outcome(m.cmd)'
  BY <1>2, <1>3 DEF AcksTruthful, IInv, TypeOK
<1>5. \A i \in Rows' : queue'[i].status \in {"pending", Outcome(i)'}
  <2> TAKE i \in Rows'
  <2>1. CASE i \in Rows
    <3>1. CASE queue'[i] = queue[i]
      BY <1>2, <2>1, <3>1 DEF AcksTruthful
    <3>2. CASE queue'[i] # queue[i]
      <4>1. PICK m \in acks : m.cmd = i /\ queue'[i] = [queue[i] EXCEPT !.status = m.status]
        BY <1>1, <2>1, <3>2 DEF RowsKept
      <4>2. queue'[i].status = m.status
        BY <2>1, <4>1, QueueType DEF IInv, Commands
      <4> QED
        BY <1>2, <2>1, <4>1, <4>2 DEF AcksTruthful
    <3> QED
      BY <3>1, <3>2
  <2>2. CASE i \notin Rows
    BY <1>1, <2>2 DEF RowsNew
  <2> QED
    BY <2>1, <2>2
<1>6. \A i, j \in Rows' : queue'[i].id = queue'[j].id => i = j
  BY <1>1 DEF RowsKept, RowsNew, AcksTruthful
<1> QED
  BY <1>4, <1>5, <1>6 DEF AcksTruthful

\* Every acknowledgement on its way and every stored status tells the truth.
THEOREM Truthful == Spec => []AcksTruthful
<1>1. Init => AcksTruthful
  <2> SUFFICES ASSUME Init PROVE AcksTruthful
    OBVIOUS
  <2>1. Rows = {}
    BY EmptySeq, LenProperties DEF Init, Rows
  <2> QED
    BY <2>1 DEF Init, AcksTruthful
<1>2. IInv /\ AcksTruthful /\ [Next]_vars => AcksTruthful'
  BY TruthStep
<1> QED
  BY <1>1, <1>2, Invariance, PTL DEF Spec

\* A command that is settled is settled for good.
THEOREM SettledForGood == Spec => SettledStays
<1> DEFINE Stays == \A i \in Rows :
      /\ i \in Rows'
      /\ queue'[i].id = queue[i].id /\ queue'[i].cam = queue[i].cam /\ queue'[i].conf = queue[i].conf
      /\ ~IsPending(i) => queue'[i] = queue[i]
<1>1. IInv /\ AcksTruthful /\ [Next]_vars => [Stays]_vars
  <2> SUFFICES ASSUME IInv, AcksTruthful, [Next]_vars, NEW i \in Rows
               PROVE  /\ i \in Rows'
                      /\ queue'[i].id = queue[i].id /\ queue'[i].cam = queue[i].cam
                      /\ queue'[i].conf = queue[i].conf
                      /\ ~IsPending(i) => queue'[i] = queue[i]
    OBVIOUS
  <2>1. RowsKept
    BY RowsStep
  <2>2. ASSUME ~IsPending(i), queue'[i] # queue[i] PROVE FALSE
    <3>1. PICK m \in acks : m.cmd = i /\ queue'[i] = [queue[i] EXCEPT !.status = m.status]
      BY <2>1, <2>2 DEF RowsKept
    <3>2. queue[i].status = m.status
      BY <2>2, <3>1 DEF AcksTruthful, IsPending
    <3>3. [queue[i] EXCEPT !.status = m.status] = queue[i]
      BY <3>2, QueueType DEF IInv, Commands
    <3> QED
      BY <2>2, <3>1, <3>3
  <2> QED
    BY <2>1, <2>2 DEF RowsKept
<1> QED
  BY <1>1, Invariance, Truthful, PTL DEF Spec, SettledStays

\* Where the agent's list can come from in a step.
LEMMA ListStep ==
  ASSUME IInv, [Next]_vars, NEW c \in Cameras, c \in DOMAIN cameras'
  PROVE  \/ c \in DOMAIN cameras /\ cameras'[c] = cameras[c]
         \/ \E r \in reply : cameras'[c] = r[c]
         \/ \E i \in todo : queue[i].cam = c /\ cameras'[c] = queue[i].conf
<1>1. CASE ApplyConfig
  BY <1>1 DEF ApplyConfig
<1>2. CASE Handle
  BY <1>2 DEF Handle, ApplyCameraConfig
<1>3. CASE Restart
  <2>1. DOMAIN << >> = {}
    BY NothingIsCopy
  <2> QED
    BY <1>3, <2>1 DEF Restart
<1>4. CASE UNCHANGED cameras
  BY <1>4
<1> QED
  BY <1>1, <1>2, <1>3, <1>4 DEF Next, CreateCommand, PatchConfig, QueuePropagation, QueueFails,
     UpdateStatus, LoseAck, FetchConfig, ConfigPollFails, FetchCommands, vars, agent, cloud

\* What is under way, after a step: nothing that was not, but what PATCH and the
\* poll take from the row.
LEMMA UnderWay ==
  ASSUME IInv, [Next]_vars
  PROVE  /\ reply' \subseteq reply \cup {db}
         /\ todo' \subseteq todo \cup Pending
         /\ \A a \in Admins : patch'[a].pc = "queue" =>
              patch'[a] = patch[a] \/ patch'[a].conf = db'[patch'[a].cam]
<1>1. ASSUME NEW b \in Admins, PatchConfig(b)
      PROVE  \A a \in Admins : patch'[a] = patch[a] \/ patch'[a].conf = db'[patch'[a].cam]
  <2>1. PICK c \in Cameras, conf \in Configs :
          /\ db' = [db EXCEPT ![c] = conf]
          /\ patch' = [patch EXCEPT ![b] = [pc |-> "queue", cam |-> c, conf |-> conf]]
    <3>1. PICK c \in Cameras, given \in [Fields -> Values \cup {Keep}] :
            /\ db' = [db EXCEPT ![c] = Coalesce(given, db[c])]
            /\ patch' = [patch EXCEPT ![b] = [pc |-> "queue", cam |-> c, conf |-> Coalesce(given, db[c])]]
      BY <1>1 DEF PatchConfig
    <3>2. db[c] \in [Fields -> Values]
      BY DEF IInv, TypeOK, Configs
    <3>3. Coalesce(given, db[c]) \in Configs
      BY <3>2 DEF Coalesce, Configs
    <3> QED
      BY <3>1, <3>3
  <2> QED
    BY <2>1 DEF IInv, TypeOK
<1>2. ASSUME NEW b \in Admins, patch' = [patch EXCEPT ![b] = IdlePatch]
      PROVE  \A a \in Admins : patch'[a].pc = "queue" => patch'[a] = patch[a]
  BY <1>2, DefaultIsConfig DEF IInv, TypeOK
<1>3. /\ reply' \subseteq reply \cup {db}
      /\ todo' \subseteq todo \cup Pending
  BY DEF Next, CreateCommand, PatchConfig, QueuePropagation, QueueFails, UpdateStatus, LoseAck,
     FetchConfig, ApplyConfig, ConfigPollFails, FetchCommands, Handle, Restart, vars, agent, cloud
<1>4. \/ \E b \in Admins : PatchConfig(b) \/ patch' = [patch EXCEPT ![b] = IdlePatch]
      \/ UNCHANGED patch
  BY DEF Next, CreateCommand, QueuePropagation, QueueFails, UpdateStatus, LoseAck,
     FetchConfig, ApplyConfig, ConfigPollFails, FetchCommands, Handle, Restart, vars, agent, cloud
<1> QED
  BY <1>1, <1>2, <1>3, <1>4

\* The edge leaves the cloud's configuration of a camera only after a PATCH.
THEOREM AgreementStays == Spec => StaysInStep
<1> DEFINE Stays == \A c \in Cameras : InStep(c) /\ db'[c] = db[c] => InStep(c)'
<1>1. IInv /\ AcksTruthful /\ [Next]_vars => [Stays]_vars
  <2> SUFFICES ASSUME IInv, AcksTruthful, [Next]_vars, NEW c \in Cameras, InStep(c), db'[c] = db[c]
               PROVE  InStep(c)'
    OBVIOUS
  <2>1. RowsKept /\ RowsNew
    BY RowsStep
  <2>2. c \in DOMAIN cameras' => cameras'[c] = db[c]
    BY ListStep DEF InStep
  <2>3. ASSUME NEW r \in reply' PROVE r[c] = db[c]
    <3>1. r \in reply \/ r = db
      BY UnderWay
    <3> QED
      BY <3>1 DEF InStep
  <2>4. Pending' \subseteq Pending \cup (Rows' \ Rows) /\ todo' \subseteq todo \cup Pending
    <3>1. ASSUME NEW i \in Rows, queue'[i].status = "pending" PROVE i \in Pending
      <4>1. CASE queue'[i] = queue[i]
        BY <3>1, <4>1 DEF Pending, IsPending
      <4>2. CASE queue'[i] # queue[i]
        <5>1. PICK m \in acks : m.cmd = i /\ queue'[i] = [queue[i] EXCEPT !.status = m.status]
          BY <2>1, <4>2 DEF RowsKept
        <5>2. queue'[i].status = m.status
          BY <5>1, QueueType DEF IInv, Commands
        <5> QED
          BY <3>1, <5>2 DEF IInv, TypeOK
      <4> QED
        BY <4>1, <4>2
    <3> QED
      BY <3>1, UnderWay DEF Pending, IsPending
  <2>5. ASSUME NEW i \in Pending' \cup todo', queue'[i].cam = c PROVE queue'[i].conf = db[c]
    <3>1. CASE i \in Pending \cup todo
      <4>1. i \in Rows
        BY <3>1 DEF Pending, IInv, TypeOK
      <4> QED
        BY <2>1, <2>5, <3>1, <4>1 DEF RowsKept, InStep
    <3>2. CASE i \in Rows' \ Rows
      BY <2>1, <2>5, <3>2, ConstantsOK DEF RowsNew, InStep
    <3> QED
      BY <2>4, <3>1, <3>2
  <2>6. ASSUME NEW a \in Admins, patch'[a].pc = "queue", patch'[a].cam = c PROVE patch'[a].conf = db[c]
    <3>1. patch'[a] = patch[a] \/ patch'[a].conf = db'[patch'[a].cam]
      BY <2>6, UnderWay
    <3> QED
      BY <2>6, <3>1 DEF InStep
  <2> QED
    BY <2>2, <2>3, <2>5, <2>6 DEF InStep
<1> QED
  BY <1>1, Invariance, Truthful, PTL DEF Spec, StaysInStep

=============================================================================
