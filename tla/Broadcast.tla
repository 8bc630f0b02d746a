------------------------------ MODULE Broadcast ------------------------------
(***************************************************************************)
(* What huddlecast promises the person who starts and stops a session,     *)
(* without requests, locks, engines or a database.  A session is created   *)
(* once and ended once.  While it runs the source is cast to some of its   *)
(* targets, and which ones may change at any time (targets are added and   *)
(* removed, a browser crashes, the whole process restarts).  Once the      *)
(* session has ended nothing is cast for it, ever again.                   *)
(***************************************************************************)
CONSTANTS
    Sessions,
    Places,         \* what can be cast to: a target of a session
    SessionOf(_)    \* the session a place belongs to

VARIABLES
    life,       \* life[s]: "none", "running" or "stopped"
    casting     \* the targets the source is being cast to

TypeOK ==
    /\ life \in [Sessions -> {"none", "running", "stopped"}]
    /\ casting \subseteq Places

Init ==
    /\ life = [s \in Sessions |-> "none"]
    /\ casting = {}

Create(s) ==
    /\ life[s] = "none"
    /\ life' = [life EXCEPT ![s] = "running"]
    /\ UNCHANGED casting

Recast ==
    /\ casting' \subseteq Places
    /\ \A t \in casting' \ casting : life[SessionOf(t)] = "running"
    /\ UNCHANGED life

End(s) ==
    /\ life[s] = "running"
    /\ \A t \in casting : SessionOf(t) # s
    /\ life' = [life EXCEPT ![s] = "stopped"]
    /\ UNCHANGED casting

Next ==
    \/ \E s \in Sessions : Create(s) \/ End(s)
    \/ Recast

Spec == Init /\ [][Next]_<<life, casting>>

(* Nothing is cast for a session that does not run: follows from Spec. *)
OnlyRunningCast == \A t \in casting : life[SessionOf(t)] = "running"
=============================================================================
