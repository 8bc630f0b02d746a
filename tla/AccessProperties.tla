-------------------------- MODULE AccessProperties --------------------------
(***************************************************************************)
(* What must be true of who does what.  A history variable notes what each *)
(* request in progress could have read: the ranks its user has had since   *)
(* it began and the keys that were there.                                  *)
(***************************************************************************)
EXTENDS Access

VARIABLE since

Unasked == [ranks |-> {}, keys |-> {}]

Now(r) == [ranks |-> IF req[r].user = None THEN {} ELSE {rank[req[r].user]} \ {"none"},
           keys |-> {k \in Keys : req[r].op \in {"start", "publish"} /\ owner[k] # None}]

(* Reading the next state: Now(r)' *)
Noted(r) == IF req'[r].at = "none" THEN Unasked
            ELSE [ranks |-> since[r].ranks \cup Now(r)'.ranks,
                  keys |-> since[r].keys \cup Now(r)'.keys]

hvars == <<vars, since>>

HInit == Init /\ since = [r \in Requests |-> Unasked]
HNext == Next /\ since' = [r \in Requests |-> Noted(r)]
HSpec == HInit /\ [][HNext]_hvars

Member(r) == since[r].ranks # {}
Administrator(r) == "admin" \in since[r].ranks

(* Request r gives a reason for what this step changes. *)
Warranted(r) ==
    /\ rank' # rank => Administrator(r)
    /\ \A k \in Keys : owner'[k] # owner[k] =>
           IF owner[k] = None THEN owner'[k] = req[r].user /\ Member(r)
           ELSE (creator[k] = req[r].user /\ Member(r)) \/ Administrator(r)
    /\ \A s \in Sessions : session'[s] # session[s] =>
           /\ Member(r)
           /\ session[s].by = None =>
                  session'[s].by = req[r].user /\ session'[s].key \in since[r].keys
    /\ line' \ line \subseteq since[r].keys

(* Decisions are stale, but never unfounded: whoever changes the whitelist *)
(* was an administrator at some moment since the request began, whoever    *)
(* changes keys or sessions on the whitelist, and a key is deleted only by *)
(* its creator or an administrator; a session or a publisher has a key     *)
(* that was there at such a moment.  However requests, revocations and     *)
(* deletions interleave.                                                   *)
Entitled ==
    [][up /\ up' /\ (tables' # tables \/ line' \ line # {})
           => \E r \in Requests : req'[r] # req[r] /\ Warranted(r)]_hvars

(* A command that names nothing touches only what is its user's own, also  *)
(* when sessions and keys come and go between its choice and its effect.   *)
OwnOnly ==
    [][\A r \in Requests : req[r].at = "act" /\ req[r].named = None /\ req'[r] # req[r] =>
           \A s \in Sessions : session'[s] # session[s] =>
               IF session[s].by = None THEN creator[session'[s].key] = req[r].user
                                       ELSE session[s].by = req[r].user]_hvars

-----------------------------------------------------------------------------
(***************************************************************************)
(* The inductive invariant behind both: wherever request q is, what it     *)
(* could have read (n) and the columns that never change (who created a    *)
(* key, who started a session) are grounds for the steps it has left.      *)
(***************************************************************************)
RightGrounds(q, n) ==
    /\ q.via # "media" => q.user \in Users /\ n.ranks # {}
    /\ q.admin => "admin" \in n.ranks
    /\ q.op \in AdminOps => q.on \in Users /\ (q.at = "act" => "admin" \in n.ranks)

KeyGrounds(q, n, made) ==
    q.op \in {"unkey", "start", "publish"} /\ q.at # "choose" =>
        /\ q.on \in Keys
        /\ q.op = "unkey" /\ q.at = "act" => made[q.on] = q.user \/ q.admin
        /\ q.op # "unkey" /\ q.at = "act" => q.on \in n.keys
        /\ q.op = "start" /\ q.named = None => made[q.on] = q.user

SessionGrounds(q, rows) ==
    q.op = "stop" /\ q.at # "choose" =>
        /\ q.on \in Sessions /\ rows[q.on].by # None
        /\ q.named = None => rows[q.on].by = q.user

Grounds(q, n, made, rows) ==
    /\ q.op \in OpsOf(q.via)
    /\ q.at = "choose" => q.via = "slack" /\ q.op \in {"start", "stop"}
    /\ q.at = "check" => q.op \in {"unkey", "start", "publish"}
    /\ RightGrounds(q, n) /\ KeyGrounds(q, n, made) /\ SessionGrounds(q, rows)

Created == \A k \in Keys : owner[k] # None => creator[k] = owner[k]

AccessInv ==
    /\ TypeOK /\ Created
    /\ since \in [Requests -> [ranks : SUBSET Ranks, keys : SUBSET Keys]]
    /\ \A r \in Requests : req[r].at # "none" => Grounds(req[r], since[r], creator, session)
=============================================================================
