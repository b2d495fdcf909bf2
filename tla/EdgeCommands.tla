---------------------------- MODULE EdgeCommands ----------------------------
(***************************************************************************)
(* Camera configuration on its way from the cloud to an edge site, along   *)
(* both channels the code has: the queue of edge_commands, which the       *)
(* CommandPoller fetches, applies and acknowledges, and the config poll,   *)
(* whose answer replaces the camera list of the ConfigPoller. Each poller  *)
(* is a thread of the agent; admins' PATCH requests run side by side in    *)
(* the cloud. Answers and acknowledgements may be late or lost, and the    *)
(* agent may restart with an empty memory.                                 *)
(***************************************************************************)
EXTENDS Integers, Sequences, FiniteSets

CONSTANTS
  Cameras,      \* cameras of the site
  Values,       \* values of fps_target and of quality_preset
  Default,      \* the columns' default
  Keep,         \* a field the PATCH does not name (None)
  Admins,       \* PATCH requests the cloud can be working on at once
  Limit,        \* limit of list_pending
  MaxPatches,   \* bound: PATCH requests
  MaxCommands,  \* bound: commands queued
  MaxMillis,    \* bound: readings of the millisecond clock
  MaxRestarts,  \* bound: restarts of the agent
  NoCamera      \* a command that is not about a camera

Fields  == {"fps_target", "quality_preset"}
Configs == [Fields -> Values]
DefaultConfig == [f \in Fields |-> Default]

ASSUME ConstantsOK ==
  /\ Default \in Values /\ Keep \notin Values /\ NoCamera \notin Cameras
  /\ Limit \in Nat \ {0} /\ MaxPatches \in Nat /\ MaxCommands \in Nat
  /\ MaxMillis \in Nat /\ MaxRestarts \in Nat

VARIABLES
  db,        \* db[c]: the row of camera c
  past,      \* past[c]: every configuration the row has had
  patch,     \* patch[a]: a PATCH between its UPDATE and its answer
  patches,   \* PATCH requests so far
  millis,    \* int(time.time() * 1000)
  queue,     \* rows of edge_commands, in the order of created_at
  cameras,   \* the agent's camera list, by id
  reply,     \* the answer of a config poll, not yet applied, or {}
  todo,      \* the commands of the poll that are still to be handled
  acks,      \* acknowledgements on their way to the cloud
  restarts

cloud == <<db, past, patch, patches, millis, queue>>
agent == <<cameras, reply, todo, restarts>>
vars  == <<cloud, agent, acks>>

-----------------------------------------------------------------------------
Rows       == DOMAIN queue
IsPending(i) == queue[i].status = "pending"
Pending    == {i \in Rows : IsPending(i)}
IdlePatch  == [pc |-> "idle", cam |-> NoCamera, conf |-> DefaultConfig]

\* COALESCE(given, stored), field by field.
Coalesce(given, stored) ==
  [f \in Fields |-> IF given[f] = Keep THEN stored[f] ELSE given[f]]

Init ==
  /\ db = [c \in Cameras |-> DefaultConfig]
  /\ past = [c \in Cameras |-> {DefaultConfig}]
  /\ patch = [a \in Admins |-> IdlePatch]
  /\ patches = 0 /\ millis = 0 /\ queue = << >>
  /\ cameras = << >> /\ reply = {} /\ todo = {}
  /\ acks = {} /\ restarts = 0

-----------------------------------------------------------------------------
(* The cloud: PATCH /cameras/<id>/config and the command queue.            *)

\* patch_config: the UPDATE commits and returns the effective row.
PatchConfig(a) ==
  /\ patch[a] = IdlePatch /\ patches < MaxPatches
  /\ patches' = patches + 1
  /\ \E c \in Cameras, given \in [Fields -> Values \cup {Keep}] :
       LET conf == Coalesce(given, db[c])
       IN /\ \E f \in Fields : given[f] # Keep
          /\ db' = [db EXCEPT ![c] = conf]
          /\ past' = [past EXCEPT ![c] = @ \cup {conf}]
          /\ patch' = [patch EXCEPT ![a] = [pc |-> "queue", cam |-> c, conf |-> conf]]
  /\ UNCHANGED <<millis, queue, agent, acks>>

\* INSERT ... ON CONFLICT (tenant_id, command_id) DO NOTHING.
Create(id, cam, conf) ==
  queue' = IF \E i \in Rows : queue[i].id = id THEN queue
           ELSE Append(queue, [id |-> id, cam |-> cam, conf |-> conf, status |-> "pending"])

\* Between two commands the clock has moved on, or not.
Clock == millis' \in {millis, millis + 1} \cap 0..MaxMillis

\* Mutant: the command carries the fields of the request, the others at their
\* default, instead of the effective row.
QueuePropagationPartial(a) ==
  /\ patch[a].pc = "queue" /\ Len(queue) < MaxCommands
  /\ Clock
  /\ \E f \in Fields :
       Create(<<patch[a].cam, millis'>>, patch[a].cam, [DefaultConfig EXCEPT ![f] = patch[a].conf[f]])
  /\ patch' = [patch EXCEPT ![a] = IdlePatch]
  /\ UNCHANGED <<db, past, patches, agent, acks>>

\* _queue_edge_propagation: the command's id is the camera and the millisecond;
\* the INSERT of a second one in that millisecond is dropped without a word.
QueuePropagation(a) ==
  /\ patch[a].pc = "queue" /\ Len(queue) < MaxCommands
  /\ Clock
  /\ Create(<<patch[a].cam, millis'>>, patch[a].cam, patch[a].conf)
  /\ patch' = [patch EXCEPT ![a] = IdlePatch]
  /\ UNCHANGED <<db, past, patches, agent, acks>>

\* The INSERT raises, or the cloud restarts before it: best effort.
QueueFails(a) ==
  /\ patch[a].pc = "queue"
  /\ patch' = [patch EXCEPT ![a] = IdlePatch]
  /\ UNCHANGED <<db, past, patches, millis, queue, agent, acks>>

\* create_command with a type this agent does not know; its id is random.
CreateCommand ==
  /\ Len(queue) < MaxCommands
  /\ Create(<<NoCamera, Len(queue)>>, NoCamera, DefaultConfig)
  /\ UNCHANGED <<db, past, patch, patches, millis, agent, acks>>

\* update_command_status: no condition on the status that is overwritten.
UpdateStatus(m) ==
  /\ acks' = acks \ {m}
  /\ queue' = [queue EXCEPT ![m.cmd].status = m.status]
  /\ UNCHANGED <<db, past, patch, patches, millis, agent>>

\* The PATCH is lost, refused or answered 500.
LoseAck(m) ==
  /\ acks' = acks \ {m}
  /\ UNCHANGED <<cloud, agent>>

-----------------------------------------------------------------------------
(* The agent: two threads over one camera list, each access under its lock. *)

\* ConfigPoller._poll_once, the GET: list_for_site_config as of now.
FetchConfig ==
  /\ reply = {}
  /\ reply' = {db}
  /\ UNCHANGED <<cloud, cameras, todo, restarts, acks>>

\* _apply: the list in the answer replaces the one in memory.
ApplyConfig ==
  /\ cameras' \in reply
  /\ reply' = {}
  /\ UNCHANGED <<cloud, todo, restarts, acks>>

\* No answer within the timeout, or not a 200.
ConfigPollFails ==
  /\ reply # {}
  /\ reply' = {}
  /\ UNCHANGED <<cloud, cameras, todo, restarts, acks>>

\* Mutant: list_pending without its condition on the status.
FetchCommandsAny ==
  /\ todo = {} /\ Rows # {}
  /\ \E B \in SUBSET Rows : B # {} /\ Cardinality(B) <= Limit /\ todo' = B
  /\ UNCHANGED <<cloud, cameras, reply, restarts, acks>>

\* CommandPoller._poll_once, the GET: the Limit oldest pending commands.
FetchCommands ==
  /\ todo = {} /\ Pending # {}
  /\ todo' = {i \in Pending : Cardinality({j \in Pending : j < i}) < Limit}
  /\ UNCHANGED <<cloud, cameras, reply, restarts, acks>>

\* Mutant: a camera that is not in the list is added to it.
ApplyCameraConfigUpsert(cam, conf) ==
  cameras' = [c \in DOMAIN cameras \cup {cam} |-> IF c = cam THEN conf ELSE cameras[c]]

\* apply_camera_config: a camera that is not in the list is left out.
ApplyCameraConfig(cam, conf) ==
  cameras' = [c \in DOMAIN cameras |-> IF c = cam THEN conf ELSE cameras[c]]

\* Mutant: a command of an unknown type is skipped without an acknowledgement.
HandleSkipsUnknown ==
  \E i \in todo :
    /\ \A j \in todo : i <= j
    /\ ApplyCameraConfig(queue[i].cam, queue[i].conf)
    /\ acks' = IF queue[i].cam = NoCamera THEN acks
               ELSE acks \cup {[cmd |-> i, status |-> "done"]}
    /\ todo' = todo \ {i}
    /\ UNCHANGED <<cloud, reply, restarts>>

\* _handle of the next command of the batch, and the PATCH of _ack, whose
\* outcome the poller only logs.
Handle ==
  \E i \in todo :
    /\ \A j \in todo : i <= j
    /\ ApplyCameraConfig(queue[i].cam, queue[i].conf)
    /\ acks' = acks \cup {[cmd |-> i,
                           status |-> IF queue[i].cam = NoCamera THEN "failed" ELSE "done"]}
    /\ todo' = todo \ {i}
    /\ UNCHANGED <<cloud, reply, restarts>>

\* The agent restarts: its camera list was only in memory.
Restart ==
  /\ restarts < MaxRestarts
  /\ restarts' = restarts + 1
  /\ cameras' = << >> /\ reply' = {} /\ todo' = {}
  /\ UNCHANGED <<cloud, acks>>

-----------------------------------------------------------------------------
Next ==
  \/ CreateCommand
  \/ \E a \in Admins : PatchConfig(a) \/ QueuePropagation(a) \/ QueueFails(a)
  \/ \E m \in acks : UpdateStatus(m) \/ LoseAck(m)
  \/ FetchConfig \/ ApplyConfig \/ ConfigPollFails
  \/ FetchCommands \/ Handle \/ Restart

Spec == Init /\ [][Next]_vars

\* Both pollers loop for ever and a request of the cloud ends. Answers and
\* acknowledgements are lost now and then, not always.
FairSpec ==
  /\ Spec
  /\ WF_vars(FetchConfig) /\ SF_vars(ApplyConfig)
  /\ WF_vars(FetchCommands) /\ WF_vars(Handle)
  /\ \A a \in Admins : WF_vars(QueuePropagation(a) \/ QueueFails(a))
  /\ \A i \in 1..MaxCommands :
       SF_vars(\E m \in acks : m.cmd = i /\ UpdateStatus(m))

-----------------------------------------------------------------------------
Commands == [id : (Cameras \cup {NoCamera}) \X Nat, cam : Cameras \cup {NoCamera},
             conf : Configs, status : {"pending", "done", "failed"}]

TypeOK ==
  /\ db \in [Cameras -> Configs] /\ past \in [Cameras -> SUBSET Configs]
  /\ patch \in [Admins -> [pc : {"idle", "queue"}, cam : Cameras \cup {NoCamera}, conf : Configs]]
  /\ patches \in 0..MaxPatches /\ millis \in 0..MaxMillis
  /\ queue \in Seq(Commands) /\ Len(queue) <= MaxCommands
  /\ \E known \in SUBSET Cameras : cameras \in [known -> Configs]
  /\ reply \subseteq [Cameras -> Configs] /\ \A r, s \in reply : r = s
  /\ todo \subseteq Rows
  /\ acks \subseteq [cmd : Rows, status : {"done", "failed"}]
  /\ restarts \in 0..MaxRestarts

\* The channel keeps the promise of ConfigMirror: the edge never runs a camera on
\* a configuration the camera did not have at some time in the cloud. Commands
\* and polls that overtake each other give old configurations, and partial
\* PATCHes never give a mixture of two.
Mirror == INSTANCE ConfigMirror WITH store <- db, mirror <- cameras
MirrorsConfig == Mirror!MSpec

\* Once the admins stop, the edge agrees with the cloud and stays so: a command
\* applied again after its lost acknowledgement, or a config answer that is
\* older than a command, does not win in the end.
EventuallyAgrees == <>[](cameras = db)

\* Everything of camera c that the edge has, or can still be given, is what its
\* row has: the list in memory, the answer on its way, the pending commands, the
\* batch in work, and the PATCH whose command is not queued yet.
InStep(c) ==
  /\ c \in DOMAIN cameras => cameras[c] = db[c]
  /\ \A r \in reply : r[c] = db[c]
  /\ \A i \in Pending \cup todo : queue[i].cam = c => queue[i].conf = db[c]
  /\ \A a \in Admins : patch[a].pc = "queue" /\ patch[a].cam = c => patch[a].conf = db[c]

\* Once nothing older is under way, the edge stays with the cloud: no lost
\* acknowledgement, command applied again, overlapping poll or restart gives a
\* camera another configuration, until a PATCH changes it.
StaysInStep ==
  [][\A c \in Cameras : InStep(c) /\ db'[c] = db[c] => InStep(c)']_vars

\* "so the queue never clogs": every command is settled in the end, and for
\* good, whatever acknowledgements are lost or late, also when commands this
\* agent does not know stand before it.
QueueDrains == \A i \in 1..MaxCommands : (i \in Pending) ~> [](i \notin Pending)

=============================================================================
