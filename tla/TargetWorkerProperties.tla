----------------------- MODULE TargetWorkerProperties -----------------------
(***************************************************************************)
(* What must be true of the worker that casts into a huddle.               *)
(***************************************************************************)
EXTENDS TargetWorker

(* To the manager the worker is an engine: cancelled at any moment, in the *)
(* middle of a launch, a retry or a wait, it works in no new browser,      *)
(* closes the one it worked in, and "stopped" is its last word.  (A Chrome *)
(* whose launch was cut off stays: of that Engine promises nothing.)       *)
E == INSTANCE Engine WITH returned <- pc = "returned"
IsEngine == E!Spec

(* A worker that reports streaming, is not being stopped and has no choice *)
(* waiting presents what was chosen last, with the camera to match, however *)
(* many buttons failed on the way.  (That Slack ended the share is only    *)
(* found at the next round, so of the share it says nothing.)              *)
StreamingIsChosen ==
    pc = "select" /\ status = "streaming" /\ presCh = <<>> /\ huddle /\ ~ctx =>
        mode = pres /\ (camera <=> pres # "screen")

(* Why: the last choice in the channel is the choice, so what is applied   *)
(* when none waits is; a call that failed is not forgotten before the      *)
(* status says so, and no retry of the share alone follows it.             *)
Applying == pc \in {"mode", "share", "camera"}
Monitoring == pc \in {"select", "check", "source", "reshare", "alone"}
Newest(p) == presCh = <<>> => p = pres

Tracks ==
    /\ presCh # <<>> => presCh[Len(presCh)] = pres
    /\ Applying => Newest(arg)
    /\ pc \in {"share", "camera"} => mode = arg
    /\ Applying /\ then = "reshare" => ~due
    /\ pc = "source" => Newest(want)
    /\ pc = "reshare" /\ ok /\ due => status = "streaming"
    /\ Monitoring => status \in {"joined", "streaming"}
    /\ Monitoring /\ status = "streaming" /\ presCh = <<>> /\ huddle /\ ~ctx =>
          mode = pres /\ (camera <=> pres # "screen")

Shown ==
    /\ huddle /\ status = "streaming" /\ mode = pres
    /\ share <=> pres # "camera"
    /\ camera <=> pres # "screen"

(* When the source stays and the page answers again, the worker casts the  *)
(* presentation chosen last: through relaunches, drops, a share that Slack *)
(* ended, and choices made while it could not attend to them.              *)
CastsChosen == []~ctx /\ <>[]source => []<>Shown

(* A huddle everybody else left for good is not cast into for good. *)
LeavesEmptyHuddle == []~ctx /\ <>[]~others => []<>~huddle
=============================================================================
