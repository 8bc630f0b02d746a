------------------------------- MODULE Access -------------------------------
(***************************************************************************)
(* Who may do what: the whitelist, the stream keys, and the requests of    *)
(* people who have signed in on the web (web/auth.go, web/server.go), of   *)
(* people who type slash commands (slackapp/commands.go), and of mediamtx, *)
(* which asks whether a publisher may send (media/auth.go).  Each decides  *)
(* by rows it reads, one query after the other, and acts later: what it    *)
(* read may be gone when it acts.  Web requests run in goroutines of their *)
(* own, and so do commands once the Slack connection has been run again.   *)
(*                                                                         *)
(* Left out: changes to a running session other than its end, which anyone *)
(* on the whitelist may make (SessionManager); the one user of the sign-in *)
(* by password, who is no row of the whitelist; mirrored sources; labels.  *)
(***************************************************************************)
EXTENDS Naturals, FiniteSets

CONSTANTS
    Users, Admins,  \* people, and those the configuration names
    Keys,           \* bound: stream keys that are ever created
    Sessions,       \* bound: sessions that are ever started
    Requests,       \* bound: requests in progress
    Ops,            \* bound: what is asked for
    None            \* no user, no key, no session

ASSUME AdminsAssumption == Admins \subseteq Users
ASSUME NoneAssumption == None \notin Users \cup Keys \cup Sessions

VARIABLES
    up,       \* the process serves
    rank,     \* rank[u]: the table whitelist
    signed,   \* who holds a cookie of the web interface
    owner,    \* owner[k]: the table stream_keys
    creator,  \* creator[k]: who had key k made, the row deleted or not
    session,  \* session[s]: its row
    line,     \* keys on whose path somebody publishes
    req       \* req[r]: a request's locals

tables == <<rank, owner, session>>
vars == <<up, rank, signed, owner, creator, session, line, req>>

Ranks == {"none", "member", "admin"}

(* Behind requireAdmin (server.go 112, 133, 134). *)
AdminOps == {"allow", "ban"}

OpsOf(via) ==
    CASE via = "web"   -> {"key", "unkey", "start", "stop"} \cup AdminOps
      [] via = "slack" -> {"key", "start", "stop"}
      [] via = "media" -> {"publish"}

Vias == {"web", "slack", "media"}
Things == Users \cup Keys \cup Sessions \cup {None}

(* at: what it does next; named: what its form, text or path names; on:    *)
(* what it turned out to be about; admin: User.Admin.                      *)
Request == [at : {"none", "rank", "choose", "check", "act"}, via : Vias,
            op : UNION {OpsOf(via) : via \in Vias}, user : Users \cup {None},
            named : Things, on : Things, admin : BOOLEAN]
NoRequest == [at |-> "none", via |-> "web", op |-> "key", user |-> None,
              named |-> None, on |-> None, admin |-> FALSE]
NoSession == [by |-> None, key |-> None, running |-> FALSE]

TypeOK ==
    /\ up \in BOOLEAN
    /\ rank \in [Users -> Ranks] /\ signed \subseteq Users
    /\ owner \in [Keys -> Users \cup {None}]
    /\ creator \in [Keys -> Users \cup {None}]
    /\ session \in [Sessions -> [by : Users \cup {None}, key : Keys \cup {None},
                                 running : BOOLEAN]]
    /\ line \subseteq Keys /\ req \in [Requests -> Request]

(* A new database, before the first boot. *)
Init ==
    /\ up = FALSE
    /\ rank = [u \in Users |-> "none"] /\ signed = {}
    /\ owner = [k \in Keys |-> None] /\ creator = [k \in Keys |-> None]
    /\ session = [s \in Sessions |-> NoSession]
    /\ line = {} /\ req = [r \in Requests |-> NoRequest]

(* UpsertWhitelist: admin = MAX(admin, excluded.admin). *)
Upserted(u, new) == IF rank[u] = "admin" THEN "admin" ELSE new

(* SeedWhitelist, before anything is served. *)
Boot ==
    /\ ~up /\ up' = TRUE
    /\ rank' = [u \in Users |-> IF u \in Admins THEN Upserted(u, "admin") ELSE rank[u]]
    /\ UNCHANGED <<signed, owner, creator, session, line, req>>

(* The process ends, its requests with it; cookies and publishers stay. *)
Crash ==
    /\ up /\ up' = FALSE /\ req' = [r \in Requests |-> NoRequest]
    /\ UNCHANGED <<rank, signed, owner, creator, session, line>>

(* handleSlackCallback. *)
SignIn(u) ==
    /\ up /\ rank[u] # "none" /\ signed' = signed \cup {u}
    /\ UNCHANGED <<up, rank, owner, creator, session, line, req>>

HangUp(k) ==
    /\ line' = line \ {k}
    /\ UNCHANGED <<up, rank, signed, owner, creator, session, req>>

(* What a request can name: what it is about exists, or did. *)
Names(via, op) ==
    CASE op = "key"                  -> {None}
      [] op \in AdminOps             -> Users
      [] op \in {"unkey", "publish"} -> {k \in Keys : creator[k] # None}
      [] op = "start" -> {k \in Keys : creator[k] # None} \cup (IF via = "slack" THEN {None} ELSE {})
      [] op = "stop"  -> {s \in Sessions : session[s].by # None}
                             \cup (IF via = "slack" THEN {None} ELSE {})

(* The first step that is the operation's own. *)
First(q) ==
    IF q.via = "slack" /\ q.op \in {"start", "stop"} /\ q.named = None THEN "choose"
    ELSE IF q.op \in {"unkey", "start", "publish"} THEN "check" ELSE "act"

(* Faulty: a cookie, or the command, is enough. *)
CookieOnly(via, u) ==
    CASE via = "web"   -> u \in signed
      [] via = "slack" -> u \in Users
      [] via = "media" -> u = None

(* readSession and IsWhitelisted; a publisher is asked for nothing but its *)
(* key.                                                                    *)
LetIn(via, u) ==
    CASE via = "web"   -> u \in signed /\ rank[u] # "none"
      [] via = "slack" -> u \in Users /\ rank[u] # "none"
      [] via = "media" -> u = None

Received(via, u, op, x) ==
    LET q == [at |-> "rank", via |-> via, op |-> op, user |-> u,
              named |-> x, on |-> x, admin |-> FALSE]
    IN  IF via = "web" THEN q ELSE [q EXCEPT !.at = First(q)]

Arrive(r) ==
    /\ up /\ req[r].at = "none"
    /\ \E via \in Vias, u \in Users \cup {None} :
           /\ LetIn(via, u)
           /\ \E op \in OpsOf(via) \cap Ops : \E x \in Names(via, op) :
                  req' = [req EXCEPT ![r] = Received(via, u, op, x)]
    /\ UNCHANGED <<up, rank, signed, owner, creator, session, line>>

(* Refused, or a query failed: the request ends and has changed nothing. *)
Leave(r) ==
    /\ up /\ req[r].at # "none" /\ req' = [req EXCEPT ![r] = NoRequest]
    /\ UNCHANGED <<up, rank, signed, owner, creator, session, line>>

Goes(r, q) ==
    /\ req' = [req EXCEPT ![r] = q]
    /\ UNCHANGED <<up, rank, signed, owner, creator, session, line>>

(* IsAdmin, whose error counts as no; requireAdmin.  Of the handlers only  *)
(* handleRemoveKey asks for User.Admin again.                              *)
ReadRank(r) ==
    /\ up /\ req[r].at = "rank"
    /\ \E admin \in {rank[req[r].user] = "admin", FALSE} :
           /\ req[r].op \in AdminOps => admin
           /\ Goes(r, [req[r] EXCEPT !.at = First(req[r]),
                                !.admin = admin /\ req[r].op = "unkey"])

(* Faulty: Running is not narrowed to the user's sessions. *)
AnybodysSessions(u) == {s \in Sessions : session[s].running}

(* userSession. *)
OwnSessions(u) == {s \in Sessions : session[s].running /\ session[s].by = u}

(* ListStreamKeys, userSession: a command that names nothing means the one *)
(* thing its user has, if there is one.  A session whose row cannot be     *)
(* read is passed over, so one of several may be taken for the only one.   *)
Choose(r) ==
    /\ up /\ req[r].at = "choose"
    /\ \E x \in Things :
           /\ IF req[r].op = "start" THEN {k \in Keys : owner[k] = req[r].user} = {x}
                                     ELSE x \in OwnSessions(req[r].user)
           /\ Goes(r, [req[r] EXCEPT !.at = IF req[r].op = "start" THEN "check" ELSE "act", !.on = x])

(* Faulty: any key that is there. *)
KeyIsThere(q) == owner[q.on] # None

(* handleRemoveKey; StreamKeyExists, for Start and for AuthHandler. *)
Permitted(q) ==
    /\ owner[q.on] # None
    /\ q.op = "unkey" => q.admin \/ owner[q.on] = q.user

Check(r) ==
    /\ up /\ req[r].at = "check" /\ Permitted(req[r])
    /\ Goes(r, [req[r] EXCEPT !.at = "act"])

(* The request's one write, and its answer. *)
Acts(r, op) ==
    /\ up /\ req[r].at = "act" /\ req[r].op = op
    /\ req' = [req EXCEPT ![r] = NoRequest]
    /\ UNCHANGED <<up, signed>>

CreateKey(r) ==
    /\ Acts(r, "key")
    /\ \E k \in Keys :
           /\ creator[k] = None
           /\ owner' = [owner EXCEPT ![k] = req[r].user]
           /\ creator' = [creator EXCEPT ![k] = req[r].user]
    /\ UNCHANGED <<rank, session, line>>

RemoveKey(r) ==
    /\ Acts(r, "unkey") /\ owner' = [owner EXCEPT ![req[r].on] = None]
    /\ UNCHANGED <<rank, creator, session, line>>

StartSession(r) ==
    /\ Acts(r, "start")
    /\ \E s \in Sessions :
           /\ session[s].by = None
           /\ session' = [session EXCEPT ![s] = [by |-> req[r].user, key |-> req[r].on, running |-> TRUE]]
    /\ UNCHANGED <<rank, owner, creator, line>>

StopSession(r) ==
    /\ Acts(r, "stop") /\ session' = [session EXCEPT ![req[r].on].running = FALSE]
    /\ UNCHANGED <<rank, owner, creator, line>>

SetRank(r) ==
    /\ \/ Acts(r, "allow") /\ \E new \in {"member", "admin"} :
                                  rank' = [rank EXCEPT ![req[r].on] = Upserted(req[r].on, new)]
       \/ Acts(r, "ban") /\ rank' = [rank EXCEPT ![req[r].on] = "none"]
    /\ UNCHANGED <<owner, creator, session, line>>

Publish(r) ==
    /\ Acts(r, "publish") /\ line' = line \cup {req[r].on}
    /\ UNCHANGED <<rank, owner, creator, session>>

Act(r) == \/ CreateKey(r) \/ RemoveKey(r) \/ StartSession(r)
          \/ StopSession(r) \/ SetRank(r) \/ Publish(r)

Step(r) == ReadRank(r) \/ Choose(r) \/ Check(r) \/ Act(r)

Next ==
    \/ Boot \/ Crash
    \/ \E u \in Users : SignIn(u)
    \/ \E k \in Keys : HangUp(k)
    \/ \E r \in Requests : Arrive(r) \/ Step(r) \/ Leave(r)

Spec == Init /\ [][Next]_vars
=============================================================================
