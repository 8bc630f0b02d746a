--------------------------- MODULE Access_proofs ---------------------------
(***************************************************************************)
(* Proofs that requests have grounds for what they do, for any people,     *)
(* keys, sessions and requests in progress.                                *)
(***************************************************************************)
EXTENDS AccessProperties, TLAPS

Histories == [Requests -> [ranks : SUBSET Ranks, keys : SUBSET Keys]]

LEMMA OpsApart ==
    /\ OpsOf("web") = {"key", "unkey", "start", "stop", "allow", "ban"}
    /\ OpsOf("slack") = {"key", "start", "stop"}
    /\ OpsOf("media") = {"publish"}
  BY DEF OpsOf, AdminOps

LEMMA AllOps ==
    UNION {OpsOf(via) : via \in Vias} =
        {"key", "unkey", "start", "stop", "allow", "ban", "publish"}
  BY OpsApart DEF Vias

(* What a request may be about is of the kind its operation takes. *)
LEMMA NamedOf ==
    ASSUME NEW via \in Vias, NEW op \in OpsOf(via), NEW x \in Names(via, op)
    PROVE  /\ x \in Things
           /\ op \in AdminOps => x \in Users
           /\ op \in {"unkey", "publish"} => x \in Keys
           /\ op = "start" => x \in Keys \/ (x = None /\ via = "slack")
           /\ op = "stop" => \/ x \in Sessions /\ session[x].by # None
                             \/ x = None /\ via = "slack"
           /\ op \in {"start", "stop"} /\ x # None => x \in Keys \cup Sessions
<1>1. op \in {"key", "unkey", "start", "stop", "allow", "ban", "publish"}
  BY AllOps
<1>2. CASE op = "key"
  BY <1>2 DEF Names, Things, AdminOps
<1>3. CASE op \in AdminOps
  BY <1>3 DEF Names, Things, AdminOps
<1>4. CASE op \in {"unkey", "publish"}
  BY <1>4 DEF Names, Things, AdminOps
<1>5. CASE op = "start"
  BY <1>5 DEF Names, Things, AdminOps
<1>6. CASE op = "stop"
  BY <1>6 DEF Names, Things, AdminOps
<1> QED
  BY <1>1, <1>2, <1>3, <1>4, <1>5, <1>6 DEF AdminOps

(* The history only grows while a request is in progress, and notes what   *)
(* the tables say after each step.                                         *)
LEMMA Notes ==
    ASSUME TypeOK, TypeOK', since \in Histories,
           since' = [r \in Requests |-> Noted(r)]
    PROVE  /\ since' \in Histories
           /\ \A r \in Requests : req'[r].at # "none" =>
                  /\ since[r].ranks \subseteq since'[r].ranks
                  /\ since[r].keys \subseteq since'[r].keys
                  /\ \A u \in Users : req'[r].user = u /\ rank'[u] # "none" /\ u # None =>
                         rank'[u] \in since'[r].ranks
                  /\ \A k \in Keys : req'[r].op \in {"start", "publish"} /\ owner'[k] # None =>
                         k \in since'[r].keys
<1>1. ASSUME NEW r \in Requests
      PROVE  Noted(r) \in [ranks : SUBSET Ranks, keys : SUBSET Keys]
  BY <1>1 DEF Noted, Now, Unasked, TypeOK, Histories, Request, Ranks
<1>2. since' \in Histories
  BY <1>1 DEF Histories
<1>3. ASSUME NEW r \in Requests, req'[r].at # "none"
      PROVE  since'[r] = [ranks |-> since[r].ranks \cup Now(r)'.ranks,
                          keys |-> since[r].keys \cup Now(r)'.keys]
  BY <1>3 DEF Noted
<1> QED
  BY <1>2, <1>3 DEF Now

(* What never changes: who created a key, who started a session.           *)
Lasting ==
    /\ \A k \in Keys : creator[k] # None => creator'[k] = creator[k]
    /\ \A s \in Sessions : session[s].by # None => session'[s].by = session[s].by

(* Grounds once had stay.                                                  *)
LEMMA GroundsStay ==
    ASSUME NEW q \in Request, NEW n, NEW m, Grounds(q, n, creator, session),
           n.ranks \subseteq m.ranks, n.keys \subseteq m.keys, Lasting
    PROVE  Grounds(q, m, creator', session')
<1> USE DEF Grounds
<1>1. q.op \in {"unkey", "start"} \/ q.op = "stop" => q.user \in Users /\ q.user # None
  BY OpsApart, NoneAssumption DEF Grounds, RightGrounds, Request, Vias
<1>2. RightGrounds(q, m)
  BY DEF RightGrounds
<1>3. KeyGrounds(q, m, creator')
  BY <1>1 DEF KeyGrounds, Lasting
<1>4. SessionGrounds(q, session')
  BY <1>1 DEF SessionGrounds, Lasting
<1> QED
  BY <1>2, <1>3, <1>4

LEMMA RequestStays ==
    ASSUME TypeOK, NEW r \in Requests, req' = [req EXCEPT ![r] = NoRequest]
    PROVE  req' \in [Requests -> Request] /\ req'[r].at = "none"
<1>1. NoRequest \in Request
  BY DEF NoRequest, Request, Vias, Things, OpsOf
<1> QED
  BY <1>1 DEF TypeOK, NoRequest

(* A request arrives with grounds for what it will read. *)
LEMMA ReceivedGrounds ==
    ASSUME TypeOK,
           NEW via \in Vias, NEW u \in Users \cup {None}, LetIn(via, u),
           NEW op \in OpsOf(via), NEW x \in Names(via, op), NEW n,
           via # "media" => n.ranks # {}
    PROVE  /\ Received(via, u, op, x) \in Request
           /\ Received(via, u, op, x).op = op
           /\ Received(via, u, op, x).user = u
           /\ Received(via, u, op, x).via = via
           /\ Grounds(Received(via, u, op, x), n, creator, session)
<1> DEFINE q == [at |-> "rank", via |-> via, op |-> op, user |-> u,
                 named |-> x, on |-> x, admin |-> FALSE]
           at == IF via = "web" THEN "rank" ELSE First(q)
           new == [at |-> at, via |-> via, op |-> op, user |-> u,
                   named |-> x, on |-> x, admin |-> FALSE]
<1>1. Received(via, u, op, x) = new
  BY DEF Received
<1>2. /\ at \in {"rank", "choose", "check", "act"}
      /\ at = "choose" => via = "slack" /\ op \in {"start", "stop"} /\ x = None
      /\ at = "act" => op \notin {"unkey", "start", "publish"}
      /\ at = "act" /\ op = "stop" => x # None
      /\ at = "act" => op \notin AdminOps
      /\ at = "check" => op \in {"unkey", "start", "publish"}
  BY OpsApart DEF First, AdminOps, Vias
<1>3. new \in Request
  BY <1>2, NamedOf DEF Request
<1>3a. /\ via # "media" => u \in Users
       /\ op \in AdminOps => x \in Users
       /\ op \in {"unkey", "publish"} => x \in Keys
       /\ op = "start" /\ at # "choose" => x \in Keys /\ x # None
       /\ op = "stop" /\ at # "choose" => x \in Sessions /\ x # None /\ session[x].by # None
  <2>1. via # "media" => u \in Users
    BY DEF LetIn, Vias, TypeOK
  <2>0. ASSUME op \in {"start", "stop"}, x = None PROVE at = "choose"
    <3>1. via = "slack"
      BY <2>0, NamedOf, NoneAssumption
    <3> QED
      BY <2>0, <3>1 DEF First
  <2>2. op = "start" /\ at # "choose" => x # None
    BY <2>0
  <2>3. op = "stop" /\ at # "choose" => x # None
    BY <2>0
  <2> QED
    BY <2>1, <2>2, <2>3, NamedOf
<1>4. RightGrounds(new, n)
  BY <1>2, <1>3a DEF RightGrounds
<1>5. KeyGrounds(new, n, creator)
  BY <1>2, <1>3a DEF KeyGrounds
<1>6. SessionGrounds(new, session)
  BY <1>2, <1>3a DEF SessionGrounds
<1> HIDE DEF at
<1>7. Grounds(new, n, creator, session)
  BY <1>2, <1>4, <1>5, <1>6 DEF Grounds
<1> QED
  BY <1>1, <1>3, <1>7

LEMMA TypeNext == AccessInv /\ [Next]_vars => TypeOK'
<1> SUFFICES ASSUME AccessInv, [Next]_vars PROVE TypeOK'
  OBVIOUS
<1> TypeOK
  BY DEF AccessInv
<1>1. CASE Boot
  BY <1>1 DEF Boot, Upserted, Ranks, TypeOK
<1>2. CASE Crash
  <2>1. NoRequest \in Request
    BY DEF NoRequest, Request, Vias, Things, OpsOf
  <2> QED
    BY <1>2, <2>1 DEF Crash, TypeOK
<1>3. CASE \E u \in Users : SignIn(u)
  BY <1>3 DEF SignIn, TypeOK
<1>4. CASE \E k \in Keys : HangUp(k)
  BY <1>4 DEF HangUp, TypeOK
<1>5. ASSUME NEW r \in Requests, Arrive(r) PROVE TypeOK'
  <2>1. PICK via \in Vias, u \in Users \cup {None} :
            /\ LetIn(via, u)
            /\ \E op \in OpsOf(via) \cap Ops : \E x \in Names(via, op) :
                   req' = [req EXCEPT ![r] = Received(via, u, op, x)]
    BY <1>5 DEF Arrive
  <2>2. PICK op \in OpsOf(via) \cap Ops :
            \E x \in Names(via, op) : req' = [req EXCEPT ![r] = Received(via, u, op, x)]
    BY <2>1
  <2>3. PICK x \in Names(via, op) : req' = [req EXCEPT ![r] = Received(via, u, op, x)]
    BY <2>2
  <2>4. Received(via, u, op, x) \in Request
    <3>1. PICK n : n = [ranks |-> {None}]
      OBVIOUS
    <3> QED
      BY <2>1, <3>1, ReceivedGrounds
  <2> QED
    BY <2>3, <2>4, <1>5 DEF Arrive, TypeOK
<1>6. ASSUME NEW r \in Requests, Leave(r) PROVE TypeOK'
  BY <1>6, RequestStays DEF Leave, TypeOK
<1>7. ASSUME NEW r \in Requests, ReadRank(r) PROVE TypeOK'
  <2>1. PICK admin \in {rank[req[r].user] = "admin", FALSE} :
            Goes(r, [req[r] EXCEPT !.at = First(req[r]), !.admin = admin /\ req[r].op = "unkey"])
    BY <1>7 DEF ReadRank
  <2>2. First(req[r]) \in {"choose", "check", "act"}
    BY DEF First
  <2>3. (admin /\ req[r].op = "unkey") \in BOOLEAN
    OBVIOUS
  <2>4. [req[r] EXCEPT !.at = First(req[r]), !.admin = admin /\ req[r].op = "unkey"] \in Request
    BY <2>2, <2>3 DEF Request, TypeOK
  <2> QED
    BY <2>1, <2>4 DEF Goes, TypeOK
<1>8. ASSUME NEW r \in Requests, Choose(r) PROVE TypeOK'
  <2>1. PICK x \in Things :
            Goes(r, [req[r] EXCEPT !.at = IF req[r].op = "start" THEN "check" ELSE "act", !.on = x])
    BY <1>8 DEF Choose
  <2>2. [req[r] EXCEPT !.at = IF req[r].op = "start" THEN "check" ELSE "act", !.on = x] \in Request
    BY DEF Request, TypeOK
  <2> QED
    BY <2>1, <2>2 DEF Goes, TypeOK
<1>9. ASSUME NEW r \in Requests, Check(r) PROVE TypeOK'
  BY <1>9 DEF Check, Goes, Request, TypeOK
<1>10. ASSUME NEW r \in Requests, NEW op, Acts(r, op)
       PROVE  /\ up' \in BOOLEAN /\ signed' \subseteq Users
              /\ req' \in [Requests -> Request] /\ req[r] \in Request
              /\ req[r].user \in Users \cup {None}
              /\ Grounds(req[r], since[r], creator, session)
  BY <1>10, RequestStays DEF Acts, AccessInv, TypeOK, Request
<1>11. ASSUME NEW r \in Requests, CreateKey(r) PROVE TypeOK'
  BY <1>11, <1>10 DEF CreateKey, TypeOK
<1>12. ASSUME NEW r \in Requests, RemoveKey(r) PROVE TypeOK'
  BY <1>12, <1>10 DEF RemoveKey, TypeOK
<1>13. ASSUME NEW r \in Requests, StartSession(r) PROVE TypeOK'
  <2>1. req[r].on \in Keys
    BY <1>13, <1>10 DEF StartSession, Acts, Grounds, KeyGrounds
  <2> QED
    BY <1>13, <1>10, <2>1 DEF StartSession, TypeOK
<1>14. ASSUME NEW r \in Requests, StopSession(r) PROVE TypeOK'
  BY <1>14, <1>10 DEF StopSession, TypeOK
<1>15. ASSUME NEW r \in Requests, SetRank(r) PROVE TypeOK'
  BY <1>15, <1>10 DEF SetRank, Upserted, Ranks, TypeOK
<1>16. ASSUME NEW r \in Requests, Publish(r) PROVE TypeOK'
  <2>1. req[r].on \in Keys
    BY <1>16, <1>10 DEF Publish, Acts, Grounds, KeyGrounds
  <2> QED
    BY <1>16, <1>10, <2>1 DEF Publish, TypeOK
<1>17. CASE UNCHANGED vars
  BY <1>17 DEF vars, TypeOK
<1> QED
  BY <1>1, <1>2, <1>3, <1>4, <1>5, <1>6, <1>7, <1>8, <1>9, <1>11, <1>12, <1>13,
     <1>14, <1>15, <1>16, <1>17 DEF Next, Step, Act

(* What a step has to leave so that every request keeps its grounds. *)
LEMMA Preserved ==
    ASSUME AccessInv, TypeOK', Lasting, Created', since' = [r \in Requests |-> Noted(r)],
           \A r \in Requests : \/ req'[r] = req[r]
                               \/ req'[r].at = "none"
                               \/ Grounds(req'[r], since'[r], creator', session')
    PROVE  AccessInv'
<1>1. /\ since' \in Histories
      /\ \A r \in Requests : req'[r].at # "none" =>
             /\ since[r].ranks \subseteq since'[r].ranks
             /\ since[r].keys \subseteq since'[r].keys
  BY Notes DEF AccessInv, Histories
<1>2. ASSUME NEW r \in Requests, req'[r] = req[r], req'[r].at # "none"
      PROVE  Grounds(req'[r], since'[r], creator', session')
  <2>1. Grounds(req[r], since[r], creator, session) /\ req[r] \in Request
    BY <1>2 DEF AccessInv, TypeOK
  <2> QED
    BY <2>1, <1>1, <1>2, GroundsStay
<1> QED
  BY <1>1, <1>2 DEF AccessInv, Histories

LEMMA InvInit == HInit => AccessInv
<1> SUFFICES ASSUME HInit PROVE AccessInv
  OBVIOUS
<1>1. NoRequest \in Request /\ NoRequest.at = "none"
  BY DEF NoRequest, Request, Vias, Things, OpsOf
<1>2. TypeOK
  BY <1>1 DEF HInit, Init, TypeOK, Ranks, NoSession
<1> QED
  BY <1>1, <1>2 DEF HInit, Init, AccessInv, Created, Unasked

LEMMA InvNext == AccessInv /\ [HNext]_hvars => AccessInv'
<1> SUFFICES ASSUME AccessInv, HNext PROVE AccessInv'
  <2>1. CASE UNCHANGED hvars
    BY <2>1 DEF hvars, vars, AccessInv, TypeOK, Created
  <2> QED
    BY <2>1
<1>n. since' = [r \in Requests |-> Noted(r)] /\ Next
  BY DEF HNext
<1>t. TypeOK /\ TypeOK' /\ Created
  BY <1>n, TypeNext DEF AccessInv
<1>s. /\ since' \in Histories
      /\ \A r \in Requests : req'[r].at # "none" =>
             /\ since[r].ranks \subseteq since'[r].ranks
             /\ since[r].keys \subseteq since'[r].keys
             /\ \A u \in Users : req'[r].user = u /\ rank'[u] # "none" /\ u # None =>
                    rank'[u] \in since'[r].ranks
             /\ \A k \in Keys : req'[r].op \in {"start", "publish"} /\ owner'[k] # None =>
                    k \in since'[r].keys
  BY <1>n, <1>t, Notes DEF AccessInv, Histories
<1>g. ASSUME NEW r \in Requests, req[r].at # "none"
      PROVE  req[r] \in Request /\ Grounds(req[r], since[r], creator, session)
  BY <1>g DEF AccessInv, TypeOK
<1>1. CASE Boot \/ Crash \/ (\E u \in Users : SignIn(u)) \/ (\E k \in Keys : HangUp(k))
  <2>1. Lasting /\ Created'
    BY <1>1, <1>t DEF Boot, Crash, SignIn, HangUp, Lasting, Created
  <2>2. \A r \in Requests : req'[r] = req[r] \/ req'[r].at = "none"
    BY <1>1 DEF Boot, Crash, SignIn, HangUp, NoRequest
  <2> QED
    BY <1>n, <1>t, <2>1, <2>2, Preserved
<1>2. ASSUME NEW r \in Requests, NEW q \in Request, Goes(r, q),
             Grounds(q, since'[r], creator, session)
      PROVE  AccessInv'
  <2>1. Lasting /\ Created' /\ creator' = creator /\ session' = session
    BY <1>2, <1>t DEF Goes, Lasting, Created
  <2>2. req'[r] = q /\ \A s \in Requests \ {r} : req'[s] = req[s]
    BY <1>2, <1>t DEF Goes, TypeOK
  <2>3. Grounds(req'[r], since'[r], creator', session')
    BY <1>2, <2>1, <2>2
  <2> QED
    BY <1>n, <1>t, <2>1, <2>2, <2>3, Preserved
<1>3. ASSUME NEW r \in Requests, Arrive(r) PROVE AccessInv'
  <2>1. PICK via \in Vias, u \in Users \cup {None} :
            /\ LetIn(via, u)
            /\ \E op \in OpsOf(via) \cap Ops : \E x \in Names(via, op) :
                   req' = [req EXCEPT ![r] = Received(via, u, op, x)]
    BY <1>3 DEF Arrive
  <2>2. PICK op \in OpsOf(via) \cap Ops :
            \E x \in Names(via, op) : req' = [req EXCEPT ![r] = Received(via, u, op, x)]
    BY <2>1
  <2>3. PICK x \in Names(via, op) : req' = [req EXCEPT ![r] = Received(via, u, op, x)]
    BY <2>2
  <2>4. req'[r] = Received(via, u, op, x)
    BY <2>3, <1>t DEF TypeOK
  <2>5. /\ Received(via, u, op, x).user = u /\ Received(via, u, op, x).at # "none"
        /\ Received(via, u, op, x) \in Request
    <3>1. PICK n : n = [ranks |-> {None}]
      OBVIOUS
    <3>2. Received(via, u, op, x).at # "none"
      BY DEF Received, First
    <3> QED
      BY <1>t, <2>1, <3>1, <3>2, ReceivedGrounds
  <2>6. via # "media" => since'[r].ranks # {}
    <3>1. via # "media" => u \in Users /\ rank'[u] # "none"
      BY <2>1, <1>3, <1>t DEF LetIn, Vias, Arrive, TypeOK
    <3> QED
      BY <1>s, <2>4, <2>5, <3>1, NoneAssumption
  <2>7. Grounds(Received(via, u, op, x), since'[r], creator, session)
    BY <1>t, <2>1, <2>6, ReceivedGrounds
  <2>8. Goes(r, Received(via, u, op, x))
    BY <2>3, <1>3 DEF Goes, Arrive
  <2> QED
    BY <1>2, <2>5, <2>7, <2>8
<1>4. ASSUME NEW r \in Requests, Leave(r) PROVE AccessInv'
  <2>1. Lasting /\ Created'
    BY <1>4, <1>t DEF Leave, Lasting, Created
  <2>2. \A s \in Requests : req'[s] = req[s] \/ req'[s].at = "none"
    BY <1>4, <1>t DEF Leave, NoRequest, TypeOK
  <2> QED
    BY <1>n, <1>t, <2>1, <2>2, Preserved
<1>5. ASSUME NEW r \in Requests, ReadRank(r) PROVE AccessInv'
  <2>1. PICK admin \in {rank[req[r].user] = "admin", FALSE} :
            /\ req[r].op \in AdminOps => admin
            /\ Goes(r, [req[r] EXCEPT !.at = First(req[r]), !.admin = admin /\ req[r].op = "unkey"])
    BY <1>5 DEF ReadRank
  <2> DEFINE q == [req[r] EXCEPT !.at = First(req[r]), !.admin = admin /\ req[r].op = "unkey"]
  <2>2. req[r] \in Request /\ req[r].at = "rank" /\ Grounds(req[r], since[r], creator, session)
    BY <1>5, <1>g DEF ReadRank
  <2>3. /\ First(req[r]) \in {"choose", "check", "act"}
        /\ First(req[r]) = "choose" => req[r].via = "slack" /\ req[r].op \in {"start", "stop"}
        /\ First(req[r]) = "check" => req[r].op \in {"unkey", "start", "publish"}
        /\ First(req[r]) = "act" => req[r].op \notin {"unkey", "start", "publish"}
    BY DEF First
  <2>4. /\ q \in Request /\ q.at = First(req[r]) /\ q.via = req[r].via /\ q.op = req[r].op
        /\ q.user = req[r].user /\ q.named = req[r].named /\ q.on = req[r].on
        /\ q.admin = (admin /\ req[r].op = "unkey")
    BY <2>2, <2>3 DEF Request
  <2>5. req'[r] = q /\ rank' = rank
    BY <2>1, <1>t DEF Goes, TypeOK
  <2> HIDE DEF q
  <2>6. /\ since[r].ranks \subseteq since'[r].ranks
        /\ req[r].user \in Users /\ admin => "admin" \in since'[r].ranks
    BY <2>1, <2>3, <2>4, <2>5, <1>s, NoneAssumption
  <2>7. RightGrounds(q, since'[r])
    <3>1. req[r].op \in AdminOps \cup {"unkey"} => req[r].via # "media"
      BY <2>2, OpsApart DEF Grounds, AdminOps
    <3> QED
      BY <2>1, <2>2, <2>4, <2>6, <3>1 DEF Grounds, RightGrounds
  <2>8. KeyGrounds(q, since'[r], creator) /\ SessionGrounds(q, session)
    BY <2>2, <2>3, <2>4 DEF Grounds, KeyGrounds, SessionGrounds
  <2>9. Grounds(q, since'[r], creator, session)
    BY <2>2, <2>3, <2>4, <2>7, <2>8 DEF Grounds
  <2> QED
    BY <1>2, <2>1, <2>4, <2>9 DEF q
<1>6. ASSUME NEW r \in Requests, Choose(r) PROVE AccessInv'
  <2>1. PICK x \in Things :
           /\ IF req[r].op = "start" THEN {k \in Keys : owner[k] = req[r].user} = {x}
                                     ELSE x \in OwnSessions(req[r].user)
           /\ Goes(r, [req[r] EXCEPT !.at = IF req[r].op = "start" THEN "check" ELSE "act", !.on = x])
    BY <1>6 DEF Choose
  <2> DEFINE q == [req[r] EXCEPT !.at = IF req[r].op = "start" THEN "check" ELSE "act", !.on = x]
  <2>2. req[r] \in Request /\ req[r].at = "choose" /\ Grounds(req[r], since[r], creator, session)
    BY <1>6, <1>g DEF Choose
  <2>3. req[r].op \in {"start", "stop"} /\ req[r].user \in Users /\ req[r].user # None
    BY <2>2, NoneAssumption DEF Grounds, RightGrounds
  <2>4. /\ req[r].op = "start" => x \in Keys /\ owner[x] = req[r].user
        /\ req[r].op = "stop" => x \in Sessions /\ session[x].by = req[r].user
    BY <2>1, <2>3 DEF OwnSessions
  <2>5. /\ q \in Request /\ q.at = (IF req[r].op = "start" THEN "check" ELSE "act")
        /\ q.via = req[r].via /\ q.op = req[r].op /\ q.on = x
        /\ q.user = req[r].user /\ q.named = req[r].named /\ q.admin = req[r].admin
    BY <2>2 DEF Request
  <2>6. req'[r] = q
    BY <2>1, <1>t DEF Goes, TypeOK
  <2> HIDE DEF q
  <2>7. RightGrounds(q, since'[r])
    BY <2>2, <2>3, <2>5, <2>6, <1>s DEF Grounds, RightGrounds, AdminOps
  <2>8. KeyGrounds(q, since'[r], creator) /\ SessionGrounds(q, session)
    BY <2>3, <2>4, <2>5, <1>t DEF KeyGrounds, SessionGrounds, Created
  <2>9. Grounds(q, since'[r], creator, session)
    BY <2>2, <2>5, <2>7, <2>8 DEF Grounds
  <2> QED
    BY <1>2, <2>1, <2>5, <2>9 DEF q
<1>7. ASSUME NEW r \in Requests, Check(r) PROVE AccessInv'
  <2> DEFINE q == [req[r] EXCEPT !.at = "act"]
  <2>2. req[r] \in Request /\ req[r].at = "check" /\ Grounds(req[r], since[r], creator, session)
    BY <1>7, <1>g DEF Check
  <2>3. Permitted(req[r]) /\ Goes(r, q) /\ owner' = owner
    BY <1>7 DEF Check, Goes
  <2>5. /\ q \in Request /\ q.at = "act" /\ q.via = req[r].via /\ q.op = req[r].op
        /\ q.on = req[r].on /\ q.user = req[r].user /\ q.named = req[r].named
        /\ q.admin = req[r].admin
    BY <2>2 DEF Request
  <2>6. req'[r] = q
    BY <2>3, <1>t DEF Goes, TypeOK
  <2> HIDE DEF q
  <2>7. RightGrounds(q, since'[r])
    BY <2>2, <2>5, <2>6, <1>s DEF Grounds, RightGrounds, AdminOps
  <2>8. req[r].on \in Keys /\ owner[req[r].on] # None
    BY <2>2, <2>3 DEF Permitted, Grounds, KeyGrounds
  <2>9. q.op # "unkey" => q.on \in since'[r].keys
    BY <2>2, <2>3, <2>5, <2>6, <2>8, <1>s DEF Grounds
  <2>10. KeyGrounds(q, since'[r], creator)
    BY <2>2, <2>3, <2>5, <2>8, <2>9, <1>t DEF Grounds, KeyGrounds, Created, Permitted
  <2>11. Grounds(q, since'[r], creator, session)
    BY <2>2, <2>5, <2>7, <2>10 DEF Grounds, SessionGrounds
  <2> QED
    BY <1>2, <2>3, <2>5, <2>11 DEF q
<1>8. ASSUME NEW r \in Requests, Act(r) PROVE AccessInv'
  <2>1. \A s \in Requests : req'[s] = req[s] \/ req'[s].at = "none"
    <3>1. req' = [req EXCEPT ![r] = NoRequest]
      BY <1>8 DEF Act, Acts, CreateKey, RemoveKey, StartSession, StopSession, SetRank, Publish
    <3> QED
      BY <3>1, <1>t DEF NoRequest, TypeOK
  <2>2. Lasting /\ Created'
    <3>1. CASE CreateKey(r)
      BY <3>1, <1>t, NoneAssumption DEF CreateKey, Lasting, Created, TypeOK
    <3>2. CASE RemoveKey(r)
      BY <3>2, <1>t DEF RemoveKey, Lasting, Created, TypeOK
    <3>3. CASE StartSession(r)
      BY <3>3, <1>t DEF StartSession, Lasting, Created, TypeOK
    <3>4. CASE StopSession(r)
      BY <3>4, <1>t DEF StopSession, Lasting, Created, TypeOK
    <3>5. CASE SetRank(r) \/ Publish(r)
      BY <3>5, <1>t DEF SetRank, Publish, Lasting, Created
    <3> QED
      BY <1>8, <3>1, <3>2, <3>3, <3>4, <3>5 DEF Act
  <2> QED
    BY <1>n, <1>t, <2>1, <2>2, Preserved
<1> QED
  BY <1>n, <1>1, <1>3, <1>4, <1>5, <1>6, <1>7, <1>8 DEF Next, Step

(* The tables, the history and the requests stay in their types.           *)
THEOREM AccessTypeCorrect == HSpec => []TypeOK
<1>1. AccessInv => TypeOK
  BY DEF AccessInv
<1> QED
  BY InvInit, InvNext, <1>1, PTL DEF HSpec

(* A step that changes the tables or lets a publisher in is the last of    *)
(* one request; the others stay where they are.                            *)
LEMMA OneActs ==
    ASSUME AccessInv, Next, up, up', tables' # tables \/ line' \ line # {}
    PROVE  \E r \in Requests : /\ Act(r) /\ req[r].at = "act" /\ req' = [req EXCEPT ![r] = NoRequest]
                               /\ req'[r] # req[r]
                               /\ Grounds(req[r], since[r], creator, session)
<1>1. ~Boot /\ ~Crash
  BY DEF Boot, Crash
<1>2. ASSUME NEW u \in Users, SignIn(u) PROVE FALSE
  BY <1>2 DEF SignIn, tables
<1>3. ASSUME NEW k \in Keys, HangUp(k) PROVE FALSE
  BY <1>3 DEF HangUp, tables
<1>4. ASSUME NEW r \in Requests, Arrive(r) \/ Leave(r) \/ ReadRank(r) \/ Choose(r) \/ Check(r)
      PROVE  FALSE
  BY <1>4 DEF Arrive, Leave, ReadRank, Choose, Check, Goes, tables
<1>5. PICK r \in Requests : Act(r)
  BY <1>1, <1>2, <1>3, <1>4 DEF Next, Step
<1>6. req[r].at = "act" /\ req' = [req EXCEPT ![r] = NoRequest]
  BY <1>5 DEF Act, Acts, CreateKey, RemoveKey, StartSession, StopSession, SetRank, Publish
<1>7. req'[r].at = "none"
  BY <1>6 DEF AccessInv, TypeOK, NoRequest
<1> QED
  BY <1>5, <1>6, <1>7 DEF AccessInv

LEMMA ActsWarranted ==
    ASSUME AccessInv, NEW r \in Requests, Act(r), req[r].at = "act",
           Grounds(req[r], since[r], creator, session)
    PROVE  Warranted(r)
<1> USE DEF Grounds
<1>t. TypeOK /\ Created
  BY DEF AccessInv
<1>m. req[r].op # "publish" => Member(r)
  BY OpsApart DEF RightGrounds, Member, TypeOK, Request, Vias, AccessInv
<1>1. CASE CreateKey(r)
  BY <1>1, <1>t, <1>m DEF CreateKey, Acts, Warranted, TypeOK, Created
<1>2. CASE RemoveKey(r)
  BY <1>2, <1>t, <1>m DEF RemoveKey, Acts, Warranted, TypeOK, KeyGrounds, RightGrounds, Administrator
<1>3. CASE StartSession(r)
  BY <1>3, <1>t, <1>m DEF StartSession, Acts, Warranted, TypeOK, KeyGrounds
<1>4. CASE StopSession(r)
  BY <1>4, <1>t, <1>m DEF StopSession, Acts, Warranted, TypeOK, SessionGrounds
<1>5. CASE SetRank(r)
  BY <1>5, <1>t DEF SetRank, Acts, Warranted, TypeOK, RightGrounds, AdminOps, Administrator
<1>6. CASE Publish(r)
  BY <1>6, <1>t DEF Publish, Acts, Warranted, TypeOK, KeyGrounds
<1> QED
  BY <1>1, <1>2, <1>3, <1>4, <1>5, <1>6 DEF Act

(* Whoever changes the whitelist, keys or sessions had, since the request  *)
(* began, the right to; sessions and publishers have keys that were there. *)
THEOREM EntitledHolds == HSpec => Entitled
<1>1. ASSUME AccessInv, [HNext]_hvars
      PROVE  [up /\ up' /\ (tables' # tables \/ line' \ line # {})
                => \E r \in Requests : req'[r] # req[r] /\ Warranted(r)]_hvars
  BY <1>1, OneActs, ActsWarranted DEF HNext
<1> QED
  BY <1>1, InvInit, InvNext, PTL DEF HSpec, Entitled

(* A command that names nothing starts with its user's own key, and stops  *)
(* its user's own session.                                                 *)
THEOREM OwnOnlyHolds == HSpec => OwnOnly
<1>1. ASSUME AccessInv, [HNext]_hvars
      PROVE  [\A r \in Requests : req[r].at = "act" /\ req[r].named = None /\ req'[r] # req[r] =>
                 \A s \in Sessions : session'[s] # session[s] =>
                     IF session[s].by = None THEN creator[session'[s].key] = req[r].user
                                             ELSE session[s].by = req[r].user]_hvars
  <2>1. SUFFICES ASSUME Next, NEW r \in Requests, NEW s \in Sessions,
                        req[r].at = "act", req[r].named = None, req'[r] # req[r],
                        session'[s] # session[s]
                 PROVE  IF session[s].by = None THEN creator[session'[s].key] = req[r].user
                                                ELSE session[s].by = req[r].user
    BY <1>1 DEF HNext
  <2>2. up /\ up'
    <3>1. session' # session
      BY <2>1
    <3>2. \E t \in Requests : Act(t)
      BY <2>1, <3>1 DEF Next, Boot, Crash, SignIn, HangUp, Arrive, Step, Leave, ReadRank,
                        Choose, Check, Goes
    <3> QED
      BY <3>2 DEF Act, Acts, CreateKey, RemoveKey, StartSession, StopSession, SetRank, Publish
  <2>3. PICK t \in Requests : /\ Act(t) /\ req[t].at = "act"
                              /\ req' = [req EXCEPT ![t] = NoRequest]
                              /\ Grounds(req[t], since[t], creator, session)
    BY <1>1, <2>1, <2>2, OneActs DEF tables
  <2>4. t = r
    BY <1>1, <2>1, <2>3 DEF AccessInv, TypeOK
  <2>5. StartSession(r) \/ StopSession(r)
    BY <2>1, <2>3, <2>4 DEF Act, CreateKey, RemoveKey, SetRank, Publish
  <2>6. CASE StartSession(r)
    BY <1>1, <2>1, <2>3, <2>4, <2>6 DEF StartSession, Acts, Grounds, KeyGrounds, AccessInv, TypeOK
  <2>7. CASE StopSession(r)
    BY <1>1, <2>1, <2>3, <2>4, <2>7 DEF StopSession, Acts, Grounds, SessionGrounds, AccessInv, TypeOK
  <2> QED
    BY <2>5, <2>6, <2>7
<1> QED
  BY <1>1, InvInit, InvNext, PTL DEF HSpec, OwnOnly
=============================================================================
