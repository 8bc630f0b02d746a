-------------------------- MODULE PeerPage_proofs --------------------------
(***************************************************************************)
(* Proofs about the scripts' connections, for any scripts, overlapping     *)
(* calls, connections, tiles and failures.                                 *)
(***************************************************************************)
EXTENDS PeerPageProperties, TLAPS

LEMMA FrameTypes ==
    /\ NoFrame \in Frame
    /\ \A r \in Frame, c \in Conns \cup {NoConn}, a \in Awaits, g \in BOOLEAN :
           /\ [r EXCEPT !.at = a] \in Frame
           /\ [r EXCEPT !.at = a, !.good = g] \in Frame
           /\ [r EXCEPT !.at = a, !.body = c] \in Frame
           /\ [r EXCEPT !.at = a, !.body = c, !.good = g] \in Frame
           /\ [r EXCEPT !.at = a, !.own = c] \in Frame
    /\ \A r \in Frame : r.own \in Conns \cup {NoConn}
<1>1. NoFrame \in Frame /\ \A r \in Frame : r.own \in Conns \cup {NoConn}
  BY DEF Frame, NoFrame
<1>2. ASSUME NEW r \in Frame, NEW c \in Conns \cup {NoConn}, NEW a \in Awaits,
             NEW g \in BOOLEAN
      PROVE  /\ [r EXCEPT !.at = a] \in Frame
             /\ [r EXCEPT !.at = a, !.good = g] \in Frame
             /\ [r EXCEPT !.at = a, !.body = c] \in Frame
             /\ [r EXCEPT !.at = a, !.body = c, !.good = g] \in Frame
             /\ [r EXCEPT !.at = a, !.own = c] \in Frame
  BY DEF Frame
<1> QED
  BY <1>1, <1>2

(* There is a connection nothing refers to, and a call that is opened makes *)
(* it the current one.                                                     *)
LEMMA Opens ==
    ASSUME TypeOK, NEW f \in Frames, Open(f)
    PROVE  /\ NewConn \in Conns /\ current' = NewConn /\ conn'[NewConn] = "new"
           /\ conn' \in [Conns -> States]
           /\ frame' \in [Frames -> Frame]
           /\ frame'[f].own = NewConn /\ frame'[f].at = "offer"
           /\ status' \in {"connecting", "reconnecting"}
           /\ succeeded' \in BOOLEAN
<1>1. NewConn \in Conns
  BY DEF Open, NewConn
<1>2. Closed(current) \in [Conns -> States]
  BY DEF TypeOK, Closed, States
<1>3. [NoFrame EXCEPT !.at = "offer", !.own = NewConn] \in Frame
  BY <1>1 DEF NoFrame, Frame, Awaits
<1> QED
  BY <1>1, <1>2, <1>3 DEF Open, TypeOK, States, NoFrame

LEMMA Schedules ==
    ASSUME TypeOK, Schedule
    PROVE  timer' = TRUE /\ backoff' \in 0 .. Longest
  BY BoundAssumption DEF TypeOK, Schedule, Scheduled, NextDelay

LEMMA Catches ==
    ASSUME TypeOK, NEW f \in Frames, Catch(f)
    PROVE  /\ frame' \in [Frames -> Frame]
           /\ status' = "error" /\ timer' = TRUE /\ backoff' \in 0 .. Longest
           /\ UNCHANGED <<conn, current, succeeded, player>>
  BY Schedules, FrameTypes DEF Catch, TypeOK

LEMMA Drops ==
    ASSUME TypeOK
    PROVE  /\ Dropped \in [Conns -> States]
           /\ DroppedReplies \in [Frames -> Frame]
           /\ \A f \in Frames : /\ DroppedReplies[f].at = frame[f].at
                                /\ DroppedReplies[f].own = frame[f].own
  BY DEF TypeOK, Dropped, DroppedReplies, States, Frame

LEMMA TypeNext == TypeOK /\ [Next]_vars => TypeOK'
<1> SUFFICES ASSUME TypeOK, [Next]_vars PROVE TypeOK'
  OBVIOUS
<1> USE BoundAssumption
<1> USE DEF TypeOK, wire, player, room, Fault
<1>1. ASSUME NEW f \in Frames, Install(f) \/ Timer(f) \/ Start(f) PROVE TypeOK'
  <2>1. Open(f)
    BY <1>1 DEF Install, Timer, Start
  <2>2. CASE Install(f)
    BY <2>2, <2>1, Opens DEF Install
  <2>3. CASE Timer(f)
    BY <2>3, <2>1, Opens DEF Timer, TimerGone
  <2>4. CASE Start(f)
    BY <2>4, <2>1, Opens DEF Start
  <2> QED
    BY <1>1, <2>2, <2>3, <2>4
<1>2. ASSUME NEW f \in Frames, Abandoned(f) PROVE TypeOK'
  BY <1>2, Catches, FrameTypes DEF Abandoned
<1>3. ASSUME NEW f \in Frames, Offered(f) PROVE TypeOK'
  <2>1. frame' \in [Frames -> Frame]
    BY <1>3, FrameTypes DEF Offered, Goes, Awaits
  <2>2. conn' \in [Conns -> States]
    BY <1>3 DEF Offered, States
  <2> QED
    BY <1>3, <2>1, <2>2 DEF Offered
<1>4. ASSUME NEW f \in Frames, Gathered(f) PROVE TypeOK'
  <2>1. CASE Catch(f)
    BY <1>4, <2>1, Catches DEF Gathered
  <2>2. CASE ~Catch(f)
    BY <1>4, <2>2 DEF Gathered, Frame, Awaits
  <2> QED
    BY <2>1, <2>2
<1>5. ASSUME NEW f \in Frames, Serve(f) PROVE TypeOK'
  <2> DEFINE fr == IF Publishes THEN DroppedReplies ELSE frame
  <2>1. fr \in [Frames -> Frame]
    BY Drops
  <2>2. frame' = [fr EXCEPT ![f].at = "reply", ![f].good = TRUE]
    BY <1>5 DEF Serve
  <2> HIDE DEF fr
  <2>3. frame' \in [Frames -> Frame]
    BY <2>1, <2>2, FrameTypes DEF Awaits
  <2> QED
    BY <1>5, <2>3, Drops DEF Serve
<1>6. ASSUME NEW f \in Frames, Refuse(f) PROVE TypeOK'
  <2>1. faults' \in 0 .. MaxFaults
    BY <1>6 DEF Refuse
  <2> QED
    BY <1>6, <2>1, Catches DEF Refuse
<1>7. ASSUME NEW f \in Frames, Reply(f) PROVE TypeOK'
  <2>1. CASE Catch(f)
    BY <1>7, <2>1, Catches DEF Reply
  <2>2. CASE ~Catch(f)
    <3>1. frame' \in [Frames -> Frame]
      <4>1. \A c \in Conns \cup {NoConn} :
              [frame[f] EXCEPT !.at = "accept", !.body = c, !.good = FALSE] \in Frame
        BY FrameTypes DEF Awaits
      <4>2. frame[f].own \in Conns \cup {NoConn}
        BY FrameTypes
      <4> QED
        BY <1>7, <2>2, <4>1, <4>2 DEF Reply
    <3>2. conn' \in [Conns -> States]
      BY <1>7, <2>2 DEF Reply, States
    <3> QED
      BY <1>7, <2>2, <3>1, <3>2 DEF Reply
  <2> QED
    BY <2>1, <2>2
<1>8. ASSUME NEW f \in Frames, Accepted(f) PROVE TypeOK'
  <2>1. frame' \in [Frames -> Frame]
    <3>1. frame[f] \in Frame /\ NoConn \in Conns \cup {NoConn}
      OBVIOUS
    <3>2. [frame[f] EXCEPT !.at = "play", !.body = NoConn] \in Frame
      BY <3>1, FrameTypes DEF Awaits
    <3> QED
      BY <1>8, <3>2, FrameTypes DEF Accepted
  <2>2. \A g \in Frames : frame[g].own \in Conns \cup {NoConn}
    BY FrameTypes
  <2>3. video' \in Conns \cup {NoConn} /\ audio' \in Conns \cup {NoConn}
    BY <1>8, <2>2 DEF Accepted, Wired
  <2>4. backoff' \in 0 .. Longest /\ succeeded' \in BOOLEAN /\ status' \in {status, "live"}
    <3>1. Live \/ UNCHANGED <<backoff, status, succeeded>>
      BY <1>8 DEF Accepted
    <3>2. CASE Live
      BY <3>2 DEF Live
    <3> QED
      BY <3>1, <3>2
  <2>5. UNCHANGED <<kind, up, conn, current, timer, painted, room, faults>>
    BY <1>8 DEF Accepted
  <2> QED
    BY <2>1, <2>3, <2>4, <2>5
<1>9. ASSUME NEW f \in Frames, Played(f) PROVE TypeOK'
  <2>1. frame[f].own \in Conns \cup {NoConn} /\ frame' \in [Frames -> Frame]
    BY <1>9, FrameTypes DEF Played
  <2> QED
    BY <1>9, <2>1 DEF Played, Live, Wired
<1>10. CASE Connected
  BY <1>10 DEF Connected, States
<1>11. CASE Lost
  <2>1. conn' \in [Conns -> States] /\ faults' \in 0 .. MaxFaults
    BY <1>11 DEF Lost, States
  <2>2. timer' = TRUE /\ backoff' \in 0 .. Longest
    BY <1>11, Schedules DEF Lost
  <2> QED
    BY <1>11, <2>1, <2>2 DEF Lost
<1>12. CASE Down
  <2>1. conn' \in [Conns -> States] /\ frame' \in [Frames -> Frame]
    BY <1>12, Drops DEF Down
  <2>2. faults' \in 0 .. MaxFaults
    BY <1>12 DEF Down
  <2> QED
    BY <1>12, <2>1, <2>2 DEF Down
<1>13. CASE Up \/ Paint \/ Stop
  <2>1. CASE Up
    BY <2>1 DEF Up
  <2>2. CASE Paint
    BY <2>2 DEF Paint
  <2>3. CASE Stop
    BY <2>3 DEF Stop
  <2> QED
    BY <1>13, <2>1, <2>2, <2>3
<1>14. CASE Watchdog
  BY <1>14, Schedules DEF Watchdog
<1>15. ASSUME NEW t \in Tiles, TileUpdate(t) \/ TileRemoved(t) PROVE TypeOK'
  BY <1>15 DEF TileUpdate, TileRemoved
<1>16. CASE UNCHANGED vars
  BY <1>16 DEF vars
<1>17. ASSUME NEW f \in Frames, Read(f) PROVE TypeOK'
  <2>1. [frame[f] EXCEPT !.at = "text", !.own = current] \in Frame
    BY FrameTypes DEF Awaits
  <2> QED
    BY <1>17, <2>1 DEF Read
<1> QED
  BY <1>1, <1>2, <1>3, <1>4, <1>5, <1>6, <1>7, <1>8, <1>9, <1>10, <1>11, <1>12,
     <1>13, <1>14, <1>15, <1>16, <1>17 DEF Next, Step

(***************************************************************************)
(* The variables stay in their types.                                      *)
(***************************************************************************)
THEOREM PeerTypeCorrect == Spec => []TypeOK
<1>1. Init => TypeOK
  <2> SUFFICES ASSUME Init PROVE TypeOK
    OBVIOUS
  <2>1. conn \in [Conns -> States] /\ frame \in [Frames -> Frame]
    BY FrameTypes DEF Init, States
  <2>2. backoff \in 0 .. Longest /\ faults \in 0 .. MaxFaults /\ tiles \subseteq Tiles
    BY BoundAssumption DEF Init
  <2> QED
    BY <2>1, <2>2 DEF Init, TypeOK
<1> QED
  BY <1>1, TypeNext, PTL DEF Spec
-----------------------------------------------------------------------------
(* The call that made the current connection is still on its way with it.  *)
Carries(f) ==
    /\ frame[f].own = current
    /\ \/ frame[f].at = "offer" /\ conn[current] = "new"
       \/ frame[f].at \in {"gather", "fetch", "reply", "text"} /\ conn[current] = "offered"

(***************************************************************************)
(* What the page has while it is not stranded, told by the connection it   *)
(* is about: a call on its way is not enough, as it may end quietly when   *)
(* its connection was closed.                                              *)
(***************************************************************************)
Sought ==
    /\ status = "init" => /\ current = NoConn /\ meeting # "in"
                          /\ \A f \in Frames : frame[f].at = "none"
    /\ status # "init" =>
           current \in Conns /\ (Tells \/ timer \/ \E f \in Frames : Carries(f))

LEMMA OpenSeeks ==
    ASSUME TypeOK, NEW f \in Frames, Open(f)
    PROVE  Sought'
<1>1. current' \in Conns /\ status' # "init" /\ Carries(f)'
  BY Opens DEF Carries
<1> QED
  BY <1>1 DEF Sought

LEMMA ScheduleSeeks ==
    ASSUME TypeOK, Sought, Schedule, UNCHANGED current, status # "init", status' # "init"
    PROVE  Sought'
  BY Schedules DEF Sought

LEMMA CatchSeeks ==
    ASSUME TypeOK, Sought, NEW f \in Frames, Catch(f), status # "init"
    PROVE  Sought'
  BY Catches DEF Sought, player

(* A step that leaves the current connection and the timer alone, and goes *)
(* on with the call that carries it.                                       *)
LEMMA GoesOn ==
    ASSUME Sought, UNCHANGED <<current, timer>>, status # "init", status' # "init",
           Tells => Tells',
           \A f \in Frames : Carries(f) => Carries(f)' \/ Tells'
    PROVE  Sought'
  BY DEF Sought

LEMMA StepSeeks ==
    ASSUME TypeOK, Sought, NEW f \in Frames, Step(f)
    PROVE  Sought'
<1> USE DEF player
<1>1. frame[f].at # "none"
  BY DEF Step, Abandoned, Offered, Gathered, Serve, Refuse, Read, Reply, Accepted, Played
<1>2. status # "init" /\ current \in Conns
  BY <1>1 DEF Sought
<1>3. CASE \E g \in Frames : Catch(g)
  BY <1>2, <1>3, CatchSeeks
<1>4. SUFFICES ASSUME \A g \in Frames : ~Catch(g) PROVE Sought'
  BY <1>3
<1>5. frame \in [Frames -> Frame] /\ conn \in [Conns -> States]
  BY DEF TypeOK
<1>6. CASE Abandoned(f)
  <2>1. frame' = [frame EXCEPT ![f] = NoFrame] /\ UNCHANGED <<conn, current, timer, status>>
    BY <1>4, <1>6 DEF Abandoned
  <2>2. ~Carries(f)
    BY <1>6 DEF Abandoned, Carries
  <2>3. \A g \in Frames : Carries(g) => Carries(g)'
    BY <1>5, <2>1, <2>2 DEF Carries
  <2> QED
    BY <1>2, <2>1, <2>3, GoesOn DEF Tells
<1>7. CASE Offered(f)
  <2> DEFINE c == frame[f].own
  <2>1. /\ frame[f].at = "offer" /\ conn[c] = "new"
        /\ conn' = [conn EXCEPT ![c] = "offered"]
        /\ frame' = [frame EXCEPT ![f].at = "gather"]
        /\ UNCHANGED <<current, timer, status>>
    BY <1>7 DEF Offered, Goes
  <2>2. Tells => Tells'
    BY <1>2, <1>5, <2>1 DEF Tells
  <2>3. CASE c = current
    <3>1. Carries(f)'
      BY <1>2, <1>5, <2>1, <2>3 DEF Carries, Frame
    <3> QED
      BY <1>2, <2>1, <3>1 DEF Sought
  <2>4. CASE c # current
    <3>1. \A g \in Frames : Carries(g) => Carries(g)'
      BY <1>2, <1>5, <2>1, <2>4 DEF Carries
    <3> QED
      BY <1>2, <2>1, <2>2, <3>1, GoesOn
  <2> QED
    BY <2>3, <2>4
<1>8. CASE Gathered(f)
  <2>1. /\ frame[f].at = "gather"
        /\ frame' = [frame EXCEPT ![f].at = "fetch", ![f].body = current]
        /\ UNCHANGED <<conn, current, timer, status>>
    BY <1>4, <1>8 DEF Gathered
  <2>2. \A g \in Frames : Carries(g) => Carries(g)'
    BY <1>5, <2>1 DEF Carries, Frame
  <2> QED
    BY <1>2, <2>1, <2>2, GoesOn DEF Tells
<1>9. CASE Serve(f)
  <2> DEFINE fr == IF Publishes THEN DroppedReplies ELSE frame
  <2>1. /\ fr \in [Frames -> Frame]
        /\ \A g \in Frames : fr[g].at = frame[g].at /\ fr[g].own = frame[g].own
    BY <1>5, Drops
  <2>2. /\ frame' = [fr EXCEPT ![f].at = "reply", ![f].good = TRUE]
        /\ frame[f].at = "fetch" /\ conn' \in {conn, Dropped}
        /\ UNCHANGED <<current, timer, status>>
    BY <1>9 DEF Serve
  <2> HIDE DEF fr
  <2>3. \A g \in Frames : /\ frame'[g].own = frame[g].own
                          /\ frame'[g].at = IF g = f THEN "reply" ELSE frame[g].at
    BY <2>1, <2>2 DEF Frame
  <2>4. (conn[current] \in {"new", "offered"} => conn'[current] = conn[current])
        /\ (Tells => Tells')
    BY <1>2, <1>5, <2>2 DEF Dropped, Tells
  <2>5. \A g \in Frames : Carries(g) => Carries(g)'
    BY <2>2, <2>3, <2>4 DEF Carries
  <2> QED
    BY <1>2, <2>2, <2>4, <2>5, GoesOn
<1>10. CASE Refuse(f)
  BY <1>4, <1>10 DEF Refuse
<1>11. CASE Reply(f)
  <2> DEFINE c == IF Publishes THEN frame[f].own ELSE current
  <2>1. /\ \E s \in {"answered", "void"} : conn' = [conn EXCEPT ![c] = s]
        /\ frame' = [frame EXCEPT ![f] = [frame[f] EXCEPT !.at = "accept", !.body = c,
                                                         !.good = FALSE]]
        /\ frame[f].at \in {"reply", "text"} /\ UNCHANGED <<current, timer, status>>
    BY <1>4, <1>11 DEF Reply
  <2>2. CASE c = current
    <3>1. Tells'
      BY <1>2, <1>5, <2>1, <2>2, NullAssumption DEF Tells
    <3> QED
      BY <1>2, <2>1, <3>1 DEF Sought
  <2>3. CASE c # current
    <3>1. conn'[current] = conn[current]
      BY <1>2, <1>5, <2>1, <2>3
    <3>2. \A g \in Frames : g # f => frame'[g] = frame[g]
      BY <1>5, <2>1
    <3>3. \A g \in Frames : Carries(g) => Carries(g)'
      BY <1>2, <2>1, <2>3, <3>1, <3>2 DEF Carries
    <3> QED
      BY <1>2, <2>1, <2>3, <3>1, <3>3, GoesOn DEF Tells
  <2> QED
    BY <2>2, <2>3
<1>12. CASE Accepted(f)
  <2>1. /\ frame[f].at = "accept" /\ UNCHANGED <<conn, current, timer>>
        /\ status' \in {status, "live"}
    BY <1>12 DEF Accepted, Live
  <2>2. \A g \in Frames : frame[g].at \notin {"accept", "play"} => frame'[g] = frame[g]
    BY <1>5, <1>12 DEF Accepted
  <2>3. \A g \in Frames : Carries(g) => Carries(g)'
    BY <2>1, <2>2 DEF Carries
  <2> QED
    BY <1>2, <2>1, <2>3, GoesOn DEF Tells
<1>13. CASE Played(f)
  <2>1. /\ frame[f].at = "play" /\ UNCHANGED <<conn, current, timer>> /\ status' = "live"
        /\ frame' = [frame EXCEPT ![f] = NoFrame]
    BY <1>13 DEF Played, Live
  <2>2. \A g \in Frames : Carries(g) => Carries(g)'
    BY <1>5, <2>1 DEF Carries
  <2> QED
    BY <1>2, <2>1, <2>2, GoesOn DEF Tells
<1>14. CASE Read(f)
  <2>1. /\ frame[f].at = "reply" /\ UNCHANGED <<conn, current, timer, status>>
        /\ frame' = [frame EXCEPT ![f] = [frame[f] EXCEPT !.at = "text", !.own = current]]
    BY <1>5, <1>14 DEF Read
  <2>2. frame'[f].at = "text" /\ frame'[f].own = current
    BY <1>5, <2>1 DEF Frame
  <2>3. \A g \in Frames : g # f => frame'[g] = frame[g]
    BY <1>5, <2>1
  <2>4. \A g \in Frames : Carries(g) => Carries(g)'
    BY <2>1, <2>2, <2>3 DEF Carries
  <2> QED
    BY <1>2, <2>1, <2>4, GoesOn DEF Tells
<1> QED
  BY <1>6, <1>7, <1>8, <1>9, <1>10, <1>11, <1>12, <1>13, <1>14 DEF Step

LEMMA SoughtNext == TypeOK /\ Sought /\ [Next]_vars => Sought'
<1> SUFFICES ASSUME TypeOK, Sought, [Next]_vars PROVE Sought'
  OBVIOUS
<1> USE DEF wire, player, room
<1>1. ASSUME NEW f \in Frames, Install(f) \/ Timer(f) \/ Start(f) PROVE Sought'
  BY <1>1, OpenSeeks DEF Install, Timer, Start
<1>2. ASSUME NEW f \in Frames, Step(f) PROVE Sought'
  BY <1>2, StepSeeks
<1>3. CASE Connected
  <2>1. /\ current \in Conns /\ status # "init" /\ conn' = [conn EXCEPT ![current] = "connected"]
        /\ UNCHANGED <<current, timer, status>>
    BY <1>3 DEF Connected, Sought, TypeOK
  <2>2. Tells'
    BY <2>1, NullAssumption DEF Tells, TypeOK
  <2> QED
    BY <2>1, <2>2 DEF Sought
<1>4. CASE Lost
  <2>1. status # "init" /\ UNCHANGED <<current, status>> /\ Schedule
    BY <1>4 DEF Lost, Sought
  <2> QED
    BY <2>1, ScheduleSeeks
<1>5. CASE Down
  <2>1. conn' = Dropped /\ frame' = DroppedReplies /\ UNCHANGED <<current, timer, status>>
    BY <1>5 DEF Down
  <2>2. CASE status = "init"
    <3>1. \A f \in Frames : frame'[f].at = "none"
      BY <2>1, <2>2, Drops DEF Sought
    <3>2. meeting' = meeting
      BY <1>5 DEF Down
    <3> QED
      BY <2>1, <2>2, <3>1, <3>2 DEF Sought
  <2>3. CASE status # "init"
    <3>1. /\ conn[current] \in {"new", "offered"} => conn'[current] = conn[current]
          /\ Tells => Tells'
      BY <2>1, <2>3 DEF Sought, Dropped, Tells, TypeOK
    <3>2. \A f \in Frames : Carries(f) => Carries(f)'
      BY <2>1, <3>1, Drops DEF Carries
    <3> QED
      BY <2>1, <2>3, <3>1, <3>2, GoesOn
  <2> QED
    BY <2>2, <2>3
<1>6. CASE Watchdog
  <2>1. status # "init" /\ status' # "init" /\ UNCHANGED current /\ Schedule
    BY <1>6 DEF Watchdog
  <2> QED
    BY <2>1, ScheduleSeeks
<1>7. CASE Stop
  <2>1. UNCHANGED <<conn, current, frame, timer>> /\ status # "init" /\ status' # "init"
    BY <1>7 DEF Stop, Sought
  <2> QED
    BY <2>1, GoesOn DEF Tells, Carries
<1>8. CASE UNCHANGED <<wire, meeting>>
  BY <1>8 DEF Sought, Tells, Carries
<1>9. CASE Up \/ Paint \/ (\E t \in Tiles : TileUpdate(t) \/ TileRemoved(t)) \/ UNCHANGED vars
  BY <1>8, <1>9 DEF Up, Paint, TileUpdate, TileRemoved, vars
<1> QED
  BY <1>1, <1>2, <1>3, <1>4, <1>5, <1>6, <1>7, <1>9 DEF Next
-----------------------------------------------------------------------------
(***************************************************************************)
(* A page is never stranded: whatever calls overlap and wherever they      *)
(* fail, it has a connection that will tell how it ends, a call under way, *)
(* or the timer.                                                           *)
(***************************************************************************)
THEOREM NeverStrandedHolds == Spec => []NeverStranded
<1>1. Init => Sought
  BY DEF Init, Sought, NoFrame
<1>2. TypeOK /\ Sought => NeverStranded
  BY DEF Sought, Carries, NeverStranded, Working, NoFrame
<1> QED
  BY <1>1, <1>2, SoughtNext, PeerTypeCorrect, PTL DEF Spec

(***************************************************************************)
(* The tile that is bound is one of a listed user that the meeting has.    *)
(***************************************************************************)
THEOREM ShowsListedHolds == Spec => []ShowsListed
<1>1. Init => ShowsListed
  BY DEF Init, ShowsListed
<1>2. ShowsListed /\ [Next]_vars => ShowsListed'
  <2> SUFFICES ASSUME ShowsListed, [Next]_vars PROVE ShowsListed'
    OBVIOUS
  <2>1. ASSUME NEW t \in Tiles, TileUpdate(t) PROVE ShowsListed'
    BY <2>1 DEF TileUpdate, Chosen, UserMatches, ShowsListed
  <2>2. ASSUME NEW t \in Tiles, TileRemoved(t) PROVE ShowsListed'
    BY <2>2 DEF TileRemoved, ShowsListed
  <2>3. CASE UNCHANGED <<tiles, bound>>
    BY <2>3 DEF ShowsListed
  <2>4. ASSUME NEW f \in Frames, Install(f) \/ Timer(f) \/ Start(f) \/ Step(f)
        PROVE  UNCHANGED <<tiles, bound>>
    BY <2>4 DEF Install, Timer, Start, Step, Abandoned, Offered, Gathered, Serve, Refuse,
                Read, Reply, Accepted, Played, room
  <2>5. Connected \/ Lost \/ Down \/ Up \/ Paint \/ Watchdog \/ Stop \/ UNCHANGED vars
        => UNCHANGED <<tiles, bound>>
    BY DEF Connected, Lost, Down, Up, Paint, Watchdog, Stop, vars, room
  <2> QED
    BY <2>1, <2>2, <2>3, <2>4, <2>5 DEF Next
<1> QED
  BY <1>1, <1>2, PTL DEF Spec
-----------------------------------------------------------------------------
(* The call that made the current connection; one whose play() awaits a    *)
(* connection another call has replaced, which it does for good.           *)
Latest(f) == frame[f].at # "none" /\ frame[f].own = current

Outrun(f) == frame[f].at = "play" /\ frame[f].own # current

(* Only the latest call has a connection that is open, and hears of it.    *)
CallInv(f) == frame[f].at # "none" =>
    /\ current \in Conns /\ frame[f].own \in Conns
    /\ frame[f].own = current \/ conn[frame[f].own] = "closed"
    /\ frame[f].own = current /\ frame[f].at = "accept" => frame[f].body = current
    /\ kind = "shim" /\ frame[f].at = "play" => video = frame[f].own

(***************************************************************************)
(* Why the shim ends with one source: until the latest call has wired both *)
(* picture and sound, it is on its way, or failed and set the timer, or    *)
(* was outrun by a call whose stream is closed and that never ends.        *)
(***************************************************************************)
Settling ==
    /\ status # "init" =>
         \/ timer
         \/ \E f \in Frames : Latest(f) \/ Outrun(f)
         \/ video = current /\ audio = current
    /\ meeting = "out"

ShimInv ==
    /\ current # NoConn => conn[current] # "closed"
    /\ \A f \in Frames : CallInv(f)
    /\ kind = "shim" => Settling

(* A call that is opened is the latest, and no other is.                   *)
LEMMA OpenShim ==
    ASSUME TypeOK, ShimInv, NEW f \in Frames, Open(f), UNCHANGED <<kind, player>>,
           kind = "shim" => UNCHANGED meeting
    PROVE  ShimInv'
<1>1. /\ NewConn \in Conns /\ NewConn \notin Held
      /\ current' = NewConn /\ frame'[f].own = NewConn /\ frame'[f].at = "offer"
  BY Opens DEF Open, NewConn
<1>2. /\ conn' = [Closed(current) EXCEPT ![NewConn] = "new"]
      /\ \A g \in Frames : g # f => frame'[g] = frame[g]
  BY DEF Open, TypeOK
<1>3. \A d \in Conns :
        conn'[d] = IF d = NewConn THEN "new" ELSE IF d = current THEN "closed" ELSE conn[d]
  BY <1>1, <1>2 DEF Closed
<1>4. ASSUME NEW g \in Frames PROVE CallInv(g)'
  <2>1. CASE g = f
    BY <1>1, <2>1 DEF CallInv
  <2>2. CASE g # f
    <3>1. CallInv(g) /\ frame'[g] = frame[g] /\ UNCHANGED <<kind, video>>
      BY <1>2, <2>2 DEF ShimInv, player
    <3>2. frame[g].own # NewConn
      BY <1>1 DEF Held
    <3> QED
      BY <1>1, <1>3, <3>1, <3>2 DEF CallInv
  <2> QED
    BY <2>1, <2>2
<1>5. Latest(f)'
  BY <1>1 DEF Latest
<1>6. conn'[current'] # "closed"
  BY <1>1, <1>3
<1> QED
  BY <1>4, <1>5, <1>6 DEF ShimInv, Settling

(* Steps of call f, or of the connection, that leave the current one be    *)
(* what it is and the other calls where they are.                          *)
LEMMA ShimStep ==
    ASSUME ShimInv, UNCHANGED <<kind, current>>,
           current # NoConn => conn'[current] # "closed",
           \A d \in Conns : conn[d] = "closed" => conn'[d] = "closed",
           \A g \in Frames : CallInv(g)',
           kind = "shim" => UNCHANGED meeting /\ Settling'
    PROVE  ShimInv'
  BY DEF ShimInv

(* A call that stays what it was keeps its invariant.                      *)
LEMMA CallKept ==
    ASSUME NEW g \in Frames, CallInv(g), UNCHANGED <<kind, current>>,
           \A d \in Conns : conn[d] = "closed" => conn'[d] = "closed",
           \/ frame'[g].at = "none"
           \/ /\ frame'[g].at = frame[g].at /\ frame'[g].own = frame[g].own
              /\ frame'[g].body = frame[g].body
              /\ video' = video \/ frame[g].at # "play" \/ kind # "shim"
    PROVE  CallInv(g)'
  BY DEF CallInv

(* A call that fails sets the timer.                                       *)
LEMMA CatchShim ==
    ASSUME TypeOK, ShimInv, NEW f \in Frames, Catch(f), UNCHANGED <<kind, room>>
    PROVE  ShimInv'
<1>1. /\ timer' = TRUE /\ UNCHANGED <<conn, current, video, audio, meeting>>
      /\ frame' = [frame EXCEPT ![f] = NoFrame] /\ NoFrame.at = "none"
  BY Catches DEF Catch, player, room, NoFrame
<1>2. \A g \in Frames : frame'[g] = frame[g] \/ frame'[g].at = "none"
  BY <1>1 DEF TypeOK
<1>3. \A g \in Frames : CallInv(g)'
  BY <1>1, <1>2, CallKept DEF ShimInv
<1> QED
  BY <1>1, <1>3, ShimStep DEF ShimInv, Settling

(* A step of call f that changes neither picture nor sound, and either     *)
(* leaves f on its way or was not the latest nor outrun.                   *)
LEMMA QuietShim ==
    ASSUME ShimInv, NEW f \in Frames,
           UNCHANGED <<kind, current, timer, video, audio, meeting, status>>,
           current # NoConn => conn'[current] # "closed",
           \A d \in Conns : conn[d] = "closed" => conn'[d] = "closed",
           \A g \in Frames : g # f => /\ frame'[g].at = frame[g].at
                                      /\ frame'[g].own = frame[g].own
                                      /\ frame'[g].body = frame[g].body,
           frame[f].at # "play",
           CallInv(f)',
           Latest(f) => Latest(f)'
    PROVE  ShimInv'
<1>1. ASSUME NEW g \in Frames PROVE CallInv(g)'
  <2>1. CASE g = f
    BY <2>1
  <2>2. CASE g # f
    BY <2>2, CallKept DEF ShimInv
  <2> QED
    BY <2>1, <2>2
<1>2. ASSUME kind = "shim" PROVE Settling'
  <2>1. Settling
    BY <1>2 DEF ShimInv
  <2>2. \A g \in Frames : Latest(g) => Latest(g)'
    BY DEF Latest
  <2>3. \A g \in Frames : Outrun(g) => Outrun(g)'
    BY DEF Outrun
  <2> QED
    BY <2>1, <2>2, <2>3 DEF Settling
<1> QED
  BY <1>1, <1>2, ShimStep

LEMMA StepShim ==
    ASSUME TypeOK, ShimInv, NEW f \in Frames, Step(f)
    PROVE  ShimInv'
<1> USE DEF player, room
<1>1. frame \in [Frames -> Frame] /\ conn \in [Conns -> States] /\ frame[f] \in Frame
  BY DEF TypeOK
<1>2. frame[f].at # "none" /\ UNCHANGED <<kind, room>>
  BY DEF Step, Abandoned, Offered, Gathered, Serve, Refuse, Read, Reply, Accepted, Played
<1>3. CASE \E g \in Frames : Catch(g)
  BY <1>2, <1>3, CatchShim
<1>4. SUFFICES ASSUME \A g \in Frames : ~Catch(g) PROVE ShimInv'
  BY <1>3
<1>5. CallInv(f) /\ \A g \in Frames : CallInv(g)
  BY DEF ShimInv
<1>6. CASE Abandoned(f)
  <2>1. /\ frame' = [frame EXCEPT ![f] = NoFrame] /\ UNCHANGED <<conn, current, timer, status, player>>
        /\ \/ frame[f].at = "offer" /\ conn[frame[f].own] = "closed"
           \/ frame[f].at = "accept" /\ conn[frame[f].body] = "closed"
    BY <1>4, <1>6 DEF Abandoned
  <2>2. ~Latest(f)
    BY <1>5, <2>1, NullAssumption DEF Latest, CallInv, ShimInv
  <2>3. frame'[f].at = "none" /\ \A g \in Frames : g # f => frame'[g] = frame[g]
    BY <1>1, <2>1 DEF NoFrame
  <2>4. CallInv(f)'
    BY <2>3 DEF CallInv
  <2> QED
    BY <1>2, <2>1, <2>2, <2>3, <2>4, QuietShim DEF ShimInv
<1>7. CASE Offered(f)
  <2> DEFINE c == frame[f].own
  <2>1. /\ frame[f].at = "offer" /\ conn[c] = "new"
        /\ conn' = [conn EXCEPT ![c] = "offered"]
        /\ frame' = [frame EXCEPT ![f].at = "gather"]
        /\ UNCHANGED <<current, timer, status, player>>
    BY <1>7 DEF Offered, Goes
  <2>2. /\ frame'[f].at = "gather" /\ frame'[f].own = c
        /\ \A g \in Frames : g # f => frame'[g] = frame[g]
    BY <1>1, <2>1 DEF Frame
  <2>3. \A d \in Conns : conn'[d] = IF d = c THEN "offered" ELSE conn[d]
    BY <1>1, <2>1
  <2>4. c \in Conns /\ c = current
    BY <1>5, <2>1 DEF CallInv
  <2>5. CallInv(f)' /\ Latest(f)'
    BY <2>1, <2>2, <2>4 DEF CallInv, Latest
  <2> QED
    BY <1>2, <2>1, <2>2, <2>3, <2>4, <2>5, QuietShim DEF ShimInv
<1>8. CASE Gathered(f)
  <2>1. /\ frame[f].at = "gather"
        /\ frame' = [frame EXCEPT ![f].at = "fetch", ![f].body = current]
        /\ UNCHANGED <<conn, current, timer, status, player>>
    BY <1>4, <1>8 DEF Gathered
  <2>2. /\ frame'[f].at = "fetch" /\ frame'[f].own = frame[f].own
        /\ \A g \in Frames : g # f => frame'[g] = frame[g]
    BY <1>1, <2>1 DEF Frame
  <2>3. CallInv(f)' /\ (Latest(f) => Latest(f)')
    BY <1>5, <2>1, <2>2 DEF CallInv, Latest
  <2> QED
    BY <1>2, <2>1, <2>2, <2>3, QuietShim DEF ShimInv
<1>9. CASE Serve(f)
  <2> DEFINE fr == IF Publishes THEN DroppedReplies ELSE frame
  <2>1. /\ fr \in [Frames -> Frame]
        /\ \A g \in Frames : /\ fr[g].at = frame[g].at /\ fr[g].own = frame[g].own
                             /\ fr[g].body = frame[g].body
    BY <1>1, Drops DEF DroppedReplies, Frame
  <2>2. /\ frame' = [fr EXCEPT ![f].at = "reply", ![f].good = TRUE]
        /\ frame[f].at = "fetch" /\ conn' \in {conn, Dropped}
        /\ UNCHANGED <<current, timer, status, player>>
    BY <1>9 DEF Serve
  <2> HIDE DEF fr
  <2>3. \A g \in Frames : /\ frame'[g].own = frame[g].own
                          /\ frame'[g].body = frame[g].body
                          /\ frame'[g].at = IF g = f THEN "reply" ELSE frame[g].at
    BY <2>1, <2>2 DEF Frame
  <2>4. \A d \in Conns : conn'[d] = "closed" <=> conn[d] = "closed"
    BY <1>1, <2>2 DEF Dropped
  <2>5. CallInv(f)' /\ (Latest(f) => Latest(f)')
    <3>1. frame'[f].at = "reply" /\ frame'[f].own = frame[f].own /\ current' = current
      BY <2>2, <2>3
    <3> QED
      BY <1>2, <1>5, <2>4, <3>1 DEF CallInv, Latest
  <2>6. current \in Conns \/ current = NoConn
    BY DEF TypeOK
  <2> QED
    BY <1>2, <2>2, <2>3, <2>4, <2>5, <2>6, QuietShim DEF ShimInv
<1>10. CASE Refuse(f)
  BY <1>4, <1>10 DEF Refuse
<1>11. CASE Reply(f)
  <2> DEFINE c == IF Publishes THEN frame[f].own ELSE current
  <2>1. /\ frame[f].at \in {"reply", "text"} /\ conn[c] = "offered"
        /\ \E s \in {"answered", "void"} : conn' = [conn EXCEPT ![c] = s]
        /\ frame' = [frame EXCEPT ![f] = [frame[f] EXCEPT !.at = "accept", !.body = c,
                                                         !.good = FALSE]]
        /\ UNCHANGED <<current, timer, status, player>>
    BY <1>4, <1>11 DEF Reply
  <2>2. /\ frame'[f].at = "accept" /\ frame'[f].own = frame[f].own /\ frame'[f].body = c
        /\ \A g \in Frames : g # f => frame'[g] = frame[g]
    BY <1>1, <2>1 DEF Frame
  <2>3. \A d \in Conns : conn'[d] = conn[d] \/ (d = c /\ conn'[d] # "closed")
    BY <1>1, <2>1
  <2>4. \A d \in Conns : conn[d] = "closed" <=> conn'[d] = "closed"
    BY <2>1, <2>3
  <2>5. CallInv(f)' /\ (Latest(f) => Latest(f)')
    BY <1>2, <1>5, <2>1, <2>2, <2>4 DEF CallInv, Latest
  <2>6. current \in Conns \/ current = NoConn
    BY DEF TypeOK
  <2> QED
    BY <1>2, <2>1, <2>2, <2>4, <2>5, <2>6, QuietShim DEF ShimInv
<1>12. CASE Accepted(f)
  <2>1. /\ frame[f].at = "accept" /\ UNCHANGED <<kind, conn, current, timer, meeting>>
    BY <1>12 DEF Accepted
  <2>2. CASE Publishes
    <3>1. \A g \in Frames : frame'[g] = frame[g] \/ frame'[g].at = "none"
      BY <1>1, <1>12, <2>2 DEF Accepted, NoFrame
    <3> QED
      BY <1>5, <2>1, <2>2, <3>1, CallKept, ShimStep DEF Publishes, ShimInv
  <2>3. CASE ~Publishes
    <3>1. /\ frame'[f] = [frame[f] EXCEPT !.at = "play", !.body = NoConn]
          /\ \A g \in Frames : g # f =>
               frame'[g] = (IF frame[g].at = "play" THEN NoFrame ELSE frame[g])
          /\ video' = frame[f].own
      BY <1>12, <2>1, <2>3 DEF Accepted
    <3>2. frame'[f].at = "play" /\ frame'[f].own = frame[f].own
      BY <1>1, <3>1 DEF Frame
    <3>3. CallInv(f)'
      BY <1>2, <1>5, <2>1, <3>1, <3>2 DEF CallInv
    <3>4. \A g \in Frames : CallInv(g)'
      BY <1>5, <2>1, <3>1, <3>3, CallKept DEF NoFrame
    <3>5. Latest(f)' \/ Outrun(f)'
      BY <3>2 DEF Latest, Outrun
    <3> QED
      BY <2>1, <3>4, <3>5, ShimStep DEF ShimInv, Settling
  <2> QED
    BY <2>2, <2>3
<1>13. CASE Played(f)
  <2>1. /\ frame[f].at = "play" /\ conn[frame[f].own] = "connected"
        /\ UNCHANGED <<kind, conn, current, timer, video, meeting>> /\ audio' = frame[f].own
        /\ frame' = [frame EXCEPT ![f] = NoFrame]
    BY <1>13 DEF Played, Wired
  <2>2. \A g \in Frames : frame'[g] = frame[g] \/ frame'[g].at = "none"
    BY <1>1, <2>1 DEF NoFrame
  <2>3. \A g \in Frames : CallInv(g)'
    BY <1>5, <2>1, <2>2, CallKept
  <2>4. kind = "shim" => video = current /\ audio' = current
    BY <1>5, <2>1 DEF CallInv
  <2> QED
    BY <2>1, <2>3, <2>4, ShimStep DEF ShimInv, Settling
<1>14. CASE Read(f)
  <2>1. /\ frame[f].at = "reply" /\ UNCHANGED <<conn, current, timer, status, player>>
        /\ frame' = [frame EXCEPT ![f] = [frame[f] EXCEPT !.at = "text", !.own = current]]
    BY <1>1, <1>14 DEF Read
  <2>2. frame'[f].at = "text" /\ frame'[f].own = current
    BY <1>1, <2>1 DEF Frame
  <2>3. \A g \in Frames : g # f => frame'[g] = frame[g]
    BY <1>1, <2>1
  <2>4. CallInv(f)' /\ Latest(f)'
    BY <1>2, <1>5, <2>1, <2>2 DEF CallInv, Latest
  <2> QED
    BY <1>2, <2>1, <2>3, <2>4, QuietShim DEF ShimInv
<1> QED
  BY <1>6, <1>7, <1>8, <1>9, <1>10, <1>11, <1>12, <1>13, <1>14 DEF Step

LEMMA ShimNext == TypeOK /\ ShimInv /\ [Next]_vars => ShimInv'
<1> SUFFICES ASSUME TypeOK, ShimInv, [Next]_vars PROVE ShimInv'
  OBVIOUS
<1> USE DEF wire, player, room
<1>1. conn \in [Conns -> States] /\ current \in Conns \cup {NoConn}
  BY DEF TypeOK
<1>2. ASSUME NEW f \in Frames, Install(f) \/ Timer(f) \/ Start(f) PROVE ShimInv'
  BY <1>2, OpenShim DEF Install, Timer, Start
<1>3. ASSUME NEW f \in Frames, Step(f) PROVE ShimInv'
  BY <1>3, StepShim
<1>4. CASE Connected \/ Lost
  <2>1. /\ current \in Conns /\ conn[current] # "closed"
        /\ \E end \in {"connected", "disconnected", "failed"} :
             conn' = [conn EXCEPT ![current] = end]
        /\ UNCHANGED <<kind, current, frame, status, player, room>>
        /\ timer' = timer \/ timer' = TRUE
    BY <1>1, <1>4, Schedules DEF Connected, Lost
  <2>2. \A d \in Conns : conn'[d] = "closed" <=> conn[d] = "closed"
    BY <1>1, <2>1
  <2>3. \A g \in Frames : CallInv(g)'
    BY <2>1, <2>2, CallKept DEF ShimInv
  <2> QED
    BY <1>1, <2>1, <2>2, <2>3, ShimStep DEF ShimInv, Settling, Latest, Outrun
<1>5. CASE Down
  <2>1. /\ conn' = Dropped /\ frame' = DroppedReplies
        /\ UNCHANGED <<kind, current, timer, status, player, room>>
    BY <1>5 DEF Down
  <2>2. \A d \in Conns : conn'[d] = "closed" <=> conn[d] = "closed"
    BY <1>1, <2>1 DEF Dropped
  <2>3. \A g \in Frames : /\ frame'[g].at = frame[g].at /\ frame'[g].own = frame[g].own
                          /\ frame'[g].body = frame[g].body
    BY <2>1 DEF DroppedReplies, TypeOK, Frame
  <2>4. \A g \in Frames : CallInv(g)'
    BY <2>1, <2>2, <2>3, CallKept DEF ShimInv
  <2>5. \A g \in Frames : (Latest(g) => Latest(g)') /\ (Outrun(g) => Outrun(g)')
    BY <2>1, <2>3 DEF Latest, Outrun
  <2> QED
    BY <1>1, <2>1, <2>2, <2>4, <2>5, ShimStep DEF ShimInv, Settling
<1>6. CASE Watchdog
  <2>1. timer' = TRUE /\ UNCHANGED <<kind, conn, current, frame, player, room>>
    BY <1>6, Schedules DEF Watchdog
  <2>2. \A g \in Frames : CallInv(g)'
    BY <2>1, CallKept DEF ShimInv
  <2> QED
    BY <2>1, <2>2, ShimStep DEF ShimInv, Settling
<1>7. CASE UNCHANGED <<kind, wire, video, audio>> /\ (kind = "shim" => UNCHANGED meeting)
  <2>1. \A g \in Frames : CallInv(g)'
    BY <1>7, CallKept DEF ShimInv
  <2> QED
    BY <1>7, <2>1, ShimStep DEF ShimInv, Settling, Latest, Outrun
<1>8. CASE Stop
  <2>1. /\ UNCHANGED <<kind, conn, current, frame, timer, player>> /\ meeting = "in"
    BY <1>8 DEF Stop
  <2>2. kind # "shim"
    BY <2>1 DEF ShimInv, Settling
  <2>3. \A g \in Frames : CallInv(g)'
    BY <2>1, CallKept DEF ShimInv
  <2> QED
    BY <2>1, <2>2, <2>3, ShimStep DEF ShimInv
<1>9. CASE Up \/ Paint \/ (\E t \in Tiles : TileUpdate(t) \/ TileRemoved(t)) \/ UNCHANGED vars
  BY <1>7, <1>9 DEF Up, Paint, TileUpdate, TileRemoved, vars
<1> QED
  BY <1>2, <1>3, <1>4, <1>5, <1>6, <1>8, <1>9 DEF Next

(***************************************************************************)
(* When no call is on its way and none is due, picture and sound of the    *)
(* shim are those of the one connection, in whatever order calls that      *)
(* overlapped have assigned them.                                          *)
(***************************************************************************)
THEOREM OneSourceHolds == Spec => []OneSource
<1>1. Init => ShimInv
  BY DEF Init, ShimInv, CallInv, Settling, NoFrame
<1>2. ShimInv => OneSource
  BY DEF ShimInv, Settling, Latest, Outrun, OneSource, Working, NoFrame
<1> QED
  BY <1>1, <1>2, ShimNext, PeerTypeCorrect, PTL DEF Spec
=============================================================================
