---------------------------- MODULE ConfigMirror ----------------------------
(***************************************************************************)
(* What the configuration channel from the cloud to an edge site promises: *)
(* the edge holds a copy of some cameras' configuration. The copy may be   *)
(* old and may be forgotten, but it is never a configuration that the      *)
(* store did not have: no mixture of two, nothing invented.                *)
(***************************************************************************)
CONSTANTS Cameras, Configs

VARIABLES
  store,   \* store[c]: the configuration of camera c
  past,    \* past[c]: every configuration c has had
  mirror   \* the copy: a function on the cameras the edge knows

mvars == <<store, past, mirror>>

MInit ==
  /\ store \in [Cameras -> Configs]
  /\ past = [c \in Cameras |-> {store[c]}]
  /\ mirror = << >>

Change(c, v) ==
  /\ store' = [store EXCEPT ![c] = v]
  /\ past' = [past EXCEPT ![c] = @ \cup {v}]
  /\ UNCHANGED mirror

\* The copy becomes any function into what the cameras had at some time.
Copy(known) ==
  /\ mirror' \in [known -> UNION {past[c] : c \in Cameras}]
  /\ \A c \in known : mirror'[c] \in past[c]
  /\ UNCHANGED <<store, past>>

MNext == \/ \E c \in Cameras, v \in Configs : Change(c, v)
         \/ \E known \in SUBSET Cameras : Copy(known)

MSpec == MInit /\ [][MNext]_mvars

-----------------------------------------------------------------------------
\* The copy of a camera is a configuration that camera has had.
MirrorsPast == DOMAIN mirror \subseteq Cameras
               /\ \A c \in DOMAIN mirror : mirror[c] \in past[c]
=============================================================================
