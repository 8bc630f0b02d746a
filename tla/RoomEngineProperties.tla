------------------------ MODULE RoomEngineProperties ------------------------
(***************************************************************************)
(* What must be true of the engines that work in rounds.                   *)
(***************************************************************************)
EXTENDS RoomEngine

(* To the manager each of them is an engine: cancelled in the middle of a  *)
(* call to Slack, of a launch or of a wait, it works in no new browser,    *)
(* closes the one it worked in, and "stopped" is its last word.  (A Chrome *)
(* whose launch was cut off stays: of that Engine promises nothing.)       *)
E == INSTANCE Engine WITH returned <- pc = "returned"
IsEngine == E!Spec

(* A huddle that ended is not cast into for good, nor mirrored: while its  *)
(* account is logged in, an engine is always in a huddle that goes on, or  *)
(* comes to be in one, though Slack may meanwhile refuse the token it      *)
(* keeps asking with and each call may fail.                               *)
BackInHuddle == []~ctx /\ []cookie => []<>(huddle = "on")

(* Once its account is logged out an engine says so, which is how anybody  *)
(* learns of it, however the failure was wrapped on its way; unless it has *)
(* joined a meeting through the rooms client, which it does not leave.     *)
(* (Slack must refuse it in words that the client knows: with the fault    *)
(* "wording" this does not hold.)                                          *)
ReauthIsTold ==
    []~ctx /\ <>[]~cookie =>
        []<>(status = "needs_reauth") \/ <>[](InRooms /\ huddle # "none")
=============================================================================
