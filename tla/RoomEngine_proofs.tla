-------------------------- MODULE RoomEngine_proofs --------------------------
(***************************************************************************)
(* Proofs about the engines that work in rounds: for any of the three, any *)
(* number of failures and whatever rarer events happen.  Their safety needs *)
(* no further invariant than the type invariant, whose last conjuncts tie  *)
(* what only a round has (token, browser, huddle) to the places in a round *)
(* where the engine has it: they are what makes it inductive.              *)
(***************************************************************************)
EXTENDS RoomEngineProperties, TLAPS

(* Wherever a round returns from, it leaves nothing of a round behind. *)
LEMMA Returned ==
    ASSUME TypeOK, NEW e \in {"none", "login", "other"}, Returns(e),
           UNCHANGED <<kind, ctx, cookie>>, left' \in BOOLEAN, faults' \in 0 .. MaxFaults
    PROVE  TypeOK'
<1>1. Typed'
  BY DEF TypeOK, Typed, Places, Returns, NewClient, Closed
<1>2. Placed'
  BY DEF Placed, Looking, Returns, NewClient, Closed
<1> QED
  BY <1>1, <1>2 DEF TypeOK

(* A call may fail within the bound only. *)
LEMMA Failed == TypeOK /\ (CallFails \/ Fault \/ UNCHANGED faults) => faults' \in 0 .. MaxFaults
  BY BoundAssumption DEF TypeOK, Typed, CallFails, Fault

(* What a call leaves in the client is a token, if it uses one. *)
LEMMA ClientToken == TypeOK => Token \in {"none", "good", "refused"}
  BY DEF TypeOK, Typed, Token

LEMMA RoomInit == Init => TypeOK
<1>1. 0 \in 0 .. MaxFaults
  BY BoundAssumption
<1> QED
  BY <1>1, KindsAssumption DEF Init, TypeOK, Typed, Placed, Places, Idle, Looking, InRooms

LEMMA RoomNext == TypeOK /\ [Next]_vars => TypeOK'
<1> SUFFICES ASSUME TypeOK, [Next]_vars PROVE TypeOK'
  OBVIOUS
<1> USE DEF TypeOK, InRooms, world
<1>t. Typed /\ Placed
  OBVIOUS
<1>l. left \in BOOLEAN
  BY DEF Typed
<1>1. CASE Cancel \/ PageTurns
  <2>1. Typed'
    <3>1. CASE Cancel
      BY <3>1, <1>t DEF Typed, Cancel, round
    <3>2. CASE PageTurns
      BY <3>2, <1>t DEF Typed, PageTurns, round
    <3> QED
      BY <1>1, <3>1, <3>2
  <2>2. Placed'
    <3>1. UNCHANGED <<kind, pc, token, browser, huddle>>
      BY <1>1 DEF Cancel, PageTurns, round
    <3> QED
      BY <3>1, <1>t DEF Placed
  <2> QED
    BY <2>1, <2>2
<1>2. CASE Revoke \/ HuddleEnds \/ Dropped
  <2>1. Typed'
    BY <1>2, <1>t, Failed DEF Typed, Places, Revoke, HuddleEnds, Dropped
  <2>2. Placed'
    BY <1>2, <1>t DEF Placed, Idle, Looking, Revoke, HuddleEnds, Dropped
  <2> QED
    BY <2>1, <2>2
<1>3. CASE TokenExpires \/ InfoDue
  <2>1. Typed'
    BY <1>3, <1>t DEF Typed, Places, TokenExpires, InfoDue, Old
  <2>2. Placed'
    BY <1>3, <1>t DEF Placed, Idle, Looking, TokenExpires, InfoDue, Old
  <2> QED
    BY <2>1, <2>2
<1>4. CASE Begin
  <2>1. Typed'
    BY <1>4, <1>t DEF Typed, Places, Begin, SetStatus, round
  <2>2. Placed'
    BY <1>4, <1>t DEF Placed, Idle, Looking, Begin, SetStatus, round
  <2> QED
    BY <2>1, <2>2
<1>5. CASE Ended
  <2>1. Typed'
    BY <1>5, <1>t DEF Typed, Places, Ended, SetStatus, Failure, round
  <2>2. Placed'
    BY <1>5, <1>t DEF Placed, Idle, Looking, Ended, SetStatus, Failure, round
  <2> QED
    BY <2>1, <2>2
<1>6. CASE BackoffDone
  <2>1. Typed'
    BY <1>6, <1>t DEF Typed, Places, BackoffDone, SetStatus, round
  <2>2. Placed'
    BY <1>6, <1>t DEF Placed, Idle, Looking, BackoffDone, SetStatus, round
  <2> QED
    BY <2>1, <2>2
<1>7. CASE SelectTick
  <2>1. Typed'
    BY <1>7, <1>t DEF Typed, Places, SelectTick, round
  <2>2. Placed'
    BY <1>7, <1>t DEF Placed, Idle, Looking, SelectTick, round
  <2> QED
    BY <2>1, <2>2
<1>8. CASE Report
  <2>1. Typed'
    BY <1>8, <1>t, Failed DEF Typed, Places, Report, SetStatus, TargetStatus, MirrorStatus, round
  <2>2. Placed'
    BY <1>8, <1>t DEF Placed, Idle, Looking, Report, SetStatus, TargetStatus, MirrorStatus, round
  <2> QED
    BY <2>1, <2>2
<1>9. CASE InRooms /\ JoinRoom
  <2>1. UNCHANGED world /\ faults' \in 0 .. MaxFaults
    BY <1>9, Failed DEF JoinRoom, Refusals
  <2>2. CASE \E e \in {"none", "login", "other"} : Returns(e)
    BY <2>1, <2>2, <1>l, Returned
  <2>3. CASE \A e \in {"none", "login", "other"} : ~Returns(e)
    <3>1. Typed'
      BY <1>9, <1>t, <2>1, <2>3, ClientToken DEF Typed, Places, JoinRoom, Refusals, round
    <3>2. Placed'
      BY <1>9, <1>t, <2>3 DEF Placed, Idle, Looking, JoinRoom, Refusals, round
    <3> QED
      BY <3>1, <3>2
  <2> QED
    BY <2>2, <2>3
<1>10. CASE Launch
  <2>1. UNCHANGED <<kind, ctx, cookie>> /\ left' \in BOOLEAN /\ faults' \in 0 .. MaxFaults
    BY <1>10, <1>l, Failed DEF Launch
  <2>2. CASE \E e \in {"none", "login", "other"} : Returns(e)
    BY <2>1, <2>2, <1>l, Returned
  <2>3. CASE \A e \in {"none", "login", "other"} : ~Returns(e)
    <3>1. Typed'
      BY <1>10, <1>t, <2>1, <2>3, ClientToken DEF Typed, Places, Launch, SetStatus, round
    <3>2. Placed'
      BY <1>10, <1>t, <2>3 DEF Placed, Idle, Looking, Launch, SetStatus, round
    <3> QED
      BY <3>1, <3>2
  <2> QED
    BY <2>2, <2>3
<1>11. CASE OpenPage
  <2>1. UNCHANGED world /\ faults' \in 0 .. MaxFaults
    BY <1>11, Failed DEF OpenPage
  <2>2. CASE \E e \in {"none", "login", "other"} : Returns(e)
    BY <2>1, <2>2, <1>l, Returned
  <2>3. CASE \A e \in {"none", "login", "other"} : ~Returns(e)
    <3>1. Typed'
      BY <1>11, <1>t, <2>1, <2>3, ClientToken DEF Typed, Places, OpenPage, SetStatus, round
    <3>2. Placed'
      <4>1. pc = "open" /\ InRooms /\ pc' = "select" /\ UNCHANGED <<kind, token, browser, huddle>>
        BY <1>11, <2>1, <2>3 DEF OpenPage, SetStatus, round
      <4> QED
        BY <4>1, <1>t DEF Placed, Idle, Looking
    <3> QED
      BY <3>1, <3>2
  <2> QED
    BY <2>2, <2>3
<1>12. CASE OpenSlack
  <2>1. UNCHANGED world /\ faults' \in 0 .. MaxFaults
    BY <1>12, Failed DEF OpenSlack
  <2>2. CASE \E e \in {"none", "login", "other"} : Returns(e)
    BY <2>1, <2>2, <1>l, Returned
  <2>3. CASE \A e \in {"none", "login", "other"} : ~Returns(e)
    <3>1. Typed'
      BY <1>12, <1>t, <2>1, <2>3, ClientToken DEF Typed, Places, OpenSlack, SetStatus, round
    <3>2. Placed'
      <4>1. pc = "open" /\ pc' = "join" /\ UNCHANGED <<kind, token, browser, huddle>>
        BY <1>12, <2>1, <2>3 DEF OpenSlack, SetStatus, round
      <4> QED
        BY <4>1, <1>t DEF Placed, Idle, Looking
    <3> QED
      BY <3>1, <3>2
  <2> QED
    BY <2>2, <2>3
<1>13. CASE Join
  <2>1. UNCHANGED world /\ faults' \in 0 .. MaxFaults
    BY <1>13, Failed DEF Join
  <2>2. CASE \E e \in {"none", "login", "other"} : Returns(e)
    BY <2>1, <2>2, <1>l, Returned
  <2>3. CASE \A e \in {"none", "login", "other"} : ~Returns(e)
    <3>1. Typed'
      BY <1>13, <1>t, <2>1, <2>3, ClientToken DEF Typed, Places, Join, SetStatus, round
    <3>2. Placed'
      BY <1>13, <1>t, <2>3 DEF Placed, Idle, Looking, Join, SetStatus, round
    <3> QED
      BY <3>1, <3>2
  <2> QED
    BY <2>2, <2>3
<1>14. CASE Settle
  <2>1. UNCHANGED world /\ faults' \in 0 .. MaxFaults
    BY <1>14, Failed DEF Settle
  <2>2. CASE \E e \in {"none", "login", "other"} : Returns(e)
    BY <2>1, <2>2, <1>l, Returned
  <2>3. CASE \A e \in {"none", "login", "other"} : ~Returns(e)
    <3>1. Typed'
      BY <1>14, <1>t, <2>1, <2>3, ClientToken DEF Typed, Places, Settle, round
    <3>2. Placed'
      BY <1>14, <1>t, <2>3 DEF Placed, Idle, Looking, Settle, round
    <3> QED
      BY <3>1, <3>2
  <2> QED
    BY <2>2, <2>3
<1>15. CASE SelectDone
  BY <1>15, <1>l, Returned, Failed DEF SelectDone
<1>16. CASE Check
  <2>1. UNCHANGED world /\ faults' \in 0 .. MaxFaults
    BY <1>16, Failed DEF Check
  <2>2. CASE \E e \in {"none", "login", "other"} : Returns(e)
    BY <2>1, <2>2, <1>l, Returned
  <2>3. CASE \A e \in {"none", "login", "other"} : ~Returns(e)
    <3>1. Typed'
      BY <1>16, <1>t, <2>1, <2>3, ClientToken DEF Typed, Places, Check, round
    <3>2. Placed'
      BY <1>16, <1>t, <2>3 DEF Placed, Idle, Looking, Check, round
    <3> QED
      BY <3>1, <3>2
  <2> QED
    BY <2>2, <2>3
<1>17. CASE InRooms /\ AskInfo
  <2>1. UNCHANGED world /\ faults' \in 0 .. MaxFaults
    BY <1>17, Failed DEF AskInfo
  <2>2. CASE \E e \in {"none", "login", "other"} : Returns(e)
    BY <2>1, <2>2, <1>l, Returned
  <2>3. CASE \A e \in {"none", "login", "other"} : ~Returns(e)
    <3>1. Typed'
      BY <1>17, <1>t, <2>1, <2>3, ClientToken DEF Typed, Places, AskInfo, round
    <3>2. Placed'
      <4>1. pc = "info" /\ InRooms /\ pc' = "select" /\ UNCHANGED <<kind, browser, huddle>>
        BY <1>17, <2>1, <2>3 DEF AskInfo, round
      <4> QED
        BY <4>1, <1>t DEF Placed, Idle, Looking
    <3> QED
      BY <3>1, <3>2
  <2> QED
    BY <2>2, <2>3
<1>18. CASE LogOut
  <2>1. /\ token' \in {"none", "good", "refused"} /\ (token' # "none" => token # "none")
        /\ cookie' = FALSE
        /\ UNCHANGED <<kind, ctx, left, browser, huddle, page, infoDue, pc, status, err, faults>>
    BY <1>18, <1>t DEF Typed, LogOut
  <2>2. Typed'
    BY <2>1, <1>t DEF Typed
  <2>3. Placed'
    BY <2>1, <1>t DEF Placed, Idle, Looking
  <2> QED
    BY <2>2, <2>3
<1>19. CASE UNCHANGED vars
  <2>1. Typed'
    BY <1>19, <1>t DEF Typed, Places, vars, round
  <2>2. Placed'
    BY <1>19, <1>t DEF Placed, Idle, Looking, vars, round
  <2> QED
    BY <2>1, <2>2
<1> QED
  BY <1>1, <1>2, <1>3, <1>4, <1>5, <1>6, <1>7, <1>8, <1>9, <1>10, <1>11,
     <1>12, <1>13, <1>14, <1>15, <1>16, <1>17, <1>18, <1>19
     DEF Next, Steps, TargetRound, ListenerRound, MirrorRound

(* The type invariant, with what an engine has where: between two rounds   *)
(* there is no client, no browser and no huddle, and whoever looks at the  *)
(* page has a browser and joined a huddle.                                 *)
THEOREM RoomTypeCorrect == Spec => []TypeOK
<1>1. Init => TypeOK
  BY RoomInit
<1>2. TypeOK /\ [Next]_vars => TypeOK'
  BY RoomNext
<1> QED
  BY <1>1, <1>2, PTL DEF Spec

(* The three last words of an engine: it ends only when cancelled, from a  *)
(* place without a browser, and says "stopped".                            *)
LEMMA EngineStops == TypeOK /\ (Ended \/ BackoffDone) => [E!Next]_(E!vars)
<1> SUFFICES ASSUME TypeOK, Ended \/ BackoffDone PROVE [E!Next]_(E!vars)
  OBVIOUS
<1>1. ~browser /\ ~(pc = "returned") /\ UNCHANGED <<ctx, browser, left>>
  BY DEF TypeOK, Placed, Idle, Ended, BackoffDone, world, round
<1>2. CASE pc' = "returned"
  <2>1. ctx /\ status' = "stopped"
    BY <1>2 DEF Ended, BackoffDone, SetStatus
  <2>2. browser' = FALSE /\ (pc' = "returned") = TRUE
    BY <1>1, <1>2 DEF TypeOK, Typed
  <2> QED
    BY <1>1, <2>1, <2>2 DEF E!Next, E!Stop
<1>3. CASE pc' # "returned"
  <2>1. status' \in {status, "needs_reauth", "error"} /\ ~(pc' = "returned")
    BY <1>3 DEF Ended, BackoffDone, SetStatus, Failure
  <2> QED
    BY <1>1, <2>1 DEF E!Next, E!Work, E!Statuses, TypeOK, Typed
<1> QED
  BY <1>2, <1>3

(* A step in a round is work. *)
LEMMA EngineWorks ==
    ASSUME TypeOK,
           \/ Begin \/ JoinRoom \/ Launch \/ OpenPage \/ OpenSlack \/ Join \/ Settle
           \/ SelectDone \/ SelectTick \/ Check \/ Report \/ AskInfo
    PROVE  [E!Next]_(E!vars)
<1> DEFINE Silent == status' = status /\ (browser' = FALSE \/ browser' = browser)
           Reports == /\ status' \in {"launching", "joining", "joined", "streaming", status}
                      /\ status' = "streaming" => browser \/ status = "streaming"
                      /\ browser' = browser
           Opens == ~ctx /\ browser' = TRUE /\ status' \in {"joining", status}
<1>l. left' \in {left, TRUE} /\ (left' # left => ~browser /\ ~browser')
  <2>1. CASE Launch
    BY <2>1, Zenon DEF Launch, Returns, Closed, TypeOK, Placed
  <2>2. CASE ~Launch
    BY <2>2 DEF Begin, JoinRoom, OpenPage, OpenSlack, Join, Settle, SelectDone, SelectTick,
                Check, Report, AskInfo, world
  <2> QED
    BY <2>1, <2>2
<1>1. ctx' = ctx /\ ~(pc = "returned") /\ ~(pc' = "returned")
  BY DEF Begin, JoinRoom, Launch, OpenPage, OpenSlack, Join, Settle, SelectDone, SelectTick,
         Check, Report, AskInfo, Returns, world
<1>2. Silent \/ Reports \/ Opens
  <2>1. CASE Begin \/ Launch \/ Report
    <3>1. CASE Begin
      BY <3>1 DEF Begin, SetStatus, round
    <3>2. CASE Launch
      BY <3>2 DEF Launch, SetStatus, Returns, Closed
    <3>3. CASE Report
      BY <3>3 DEF Report, SetStatus, TargetStatus, MirrorStatus, round, TypeOK, Placed, Looking
    <3> QED
      BY <2>1, <3>1, <3>2, <3>3
  <2>2. CASE OpenPage \/ OpenSlack \/ Join
    BY <2>2 DEF OpenPage, OpenSlack, Join, SetStatus, Returns, Closed, round
  <2>3. CASE JoinRoom \/ Settle \/ SelectDone \/ SelectTick \/ Check \/ AskInfo
    BY <2>3 DEF JoinRoom, Settle, SelectDone, SelectTick, Check, AskInfo, Returns, Closed, round
  <2> QED
    BY <2>1, <2>2, <2>3
<1> QED
  <2>1. browser' \in BOOLEAN /\ (ctx /\ browser' => browser)
    <3>1. browser \in BOOLEAN
      BY DEF TypeOK, Typed
    <3>2. browser' = FALSE \/ browser' = browser \/ (~ctx /\ browser' = TRUE)
      BY <1>2
    <3>3. CASE browser' = FALSE
      BY <3>3
    <3>4. CASE browser' = browser
      BY <3>1, <3>4, Zenon
    <3>5. CASE ~ctx /\ browser' = TRUE
      BY <3>5
    <3> QED
      BY <3>2, <3>3, <3>4, <3>5, Zenon
  <2>2. status' \in (E!Statuses \ {"pending", "stopped"}) \cup {status}
    BY <1>2 DEF E!Statuses
  <2>3. status' = "streaming" => browser' \/ status = "streaming"
    BY <1>2
  <2> QED
    BY <1>1, <1>l, <2>1, <2>2, <2>3 DEF E!Next, E!Work

(* The safety part of IsEngine: whatever a round does is work of an engine, *)
(* which once cancelled works in no new browser and closes the one it had, *)
(* and casts nothing without one.  Only a launch that fails can leave a    *)
(* Chrome behind.                                                          *)
THEOREM EngineSafety == Spec => E!Init /\ [][E!Next]_(E!vars)
<1>1. Init => E!Init
  BY DEF Init, E!Init
<1>2. TypeOK /\ [Next]_vars => [E!Next]_(E!vars)
  <2> SUFFICES ASSUME TypeOK, [Next]_vars PROVE [E!Next]_(E!vars)
    OBVIOUS
  <2>1. CASE Cancel
    BY <2>1 DEF Cancel, round, E!Next, E!Cancel, TypeOK, Typed
  <2>2. CASE LogOut \/ Revoke \/ HuddleEnds \/ Dropped \/ PageTurns \/ TokenExpires \/ InfoDue
             \/ UNCHANGED vars
    BY <2>2 DEF LogOut, Revoke, HuddleEnds, Dropped, PageTurns, TokenExpires, InfoDue, vars, world, round, E!vars
  <2>3. CASE Ended \/ BackoffDone
    BY <2>3, EngineStops
  <2> QED
    BY <2>1, <2>2, <2>3, EngineWorks
       DEF Next, Steps, TargetRound, ListenerRound, MirrorRound
<1> QED
  BY <1>1, <1>2, RoomTypeCorrect, PTL DEF Spec
=============================================================================
