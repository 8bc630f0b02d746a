------------------------- MODULE PeerPageProperties -------------------------
(***************************************************************************)
(* What must be true of the scripts that keep a connection open.           *)
(***************************************************************************)
EXTENDS PeerPage

Working == \E f \in Frames : frame[f] # NoFrame

(* The connection is there, or about to be, or will call the handler. *)
Tells == current # NoConn /\ conn[current] \in {"answered", "connected", "void"}

(* A page that has nothing is looking: since its first attempt there is    *)
(* always a connection that will tell how it ends, a call on its way, or   *)
(* the timer, whatever calls overlap and wherever each of them fails.      *)
NeverStranded == status # "init" => Tells \/ Working \/ timer

(* When no call is on its way and none is due, picture and sound of the    *)
(* shim are those of the one connection, though calls that overlap assign  *)
(* each of them in an order of their own.                                  *)
OneSource ==
    kind = "shim" /\ status # "init" /\ ~Working /\ ~timer =>
        video = current /\ audio = current

(* What the receiving page publishes is a tile of somebody on the          *)
(* whitelist that the meeting still has, however tiles come, go, and       *)
(* displace one another.                                                   *)
ShowsListed == bound # NoTile => bound \in Listed \cap tiles

Showing ==
    /\ current # NoConn /\ conn[current] = "connected"
    /\ status = "live" \/ meeting = "stopped"
    /\ kind = "shim" => video = current /\ audio = current

(* Is an attempt under way: calls that have not got to play(), which may   *)
(* take any time, and plays of a stream that is on its way.                *)
Attempting == \E f \in Frames : frame[f].at \notin {"none", "play"}
Starting == \E f \in Frames : /\ frame[f].at = "play"
                              /\ conn[frame[f].own] \in {"answered", "connected"}

(* The timer, or a connection given up, puts an attempt in the way of one  *)
(* that is under way.  The delays of the code make that rare (1 to 15 s    *)
(* against an attempt's 2 s and more), and nothing forbids it.             *)
Overtakes == (timer /\ ~timer' /\ (Attempting \/ Starting)) \/ (Lost /\ Attempting)

(* Once the source stays, and nothing more goes wrong, the page comes to   *)
(* show it and keeps showing it, unless attempts overtake each other for   *)
(* ever: whatever a failure, an overlap or the order of their callbacks    *)
(* left behind, an attempt that is let finish mends it.                    *)
Heals ==
    <>[]up /\ <>[](status # "init") => <>[]Showing \/ []<><<Overtakes>>_vars
=============================================================================
