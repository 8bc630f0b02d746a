---------------------------- MODULE TargetWorker ----------------------------
(***************************************************************************)
(* The worker that casts into one huddle through a browser logged in to    *)
(* Slack: internal/huddle/worker.go, with the driver of Slack's page it    *)
(* calls (driver.go).  It launches a browser, joins the huddle, has the    *)
(* shim in the page present the source as screen, camera or both, presses  *)
(* Slack's buttons to match, and then watches until it is cancelled.       *)
(*                                                                         *)
(* Everything the driver asks of the page takes time: the huddle, the      *)
(* source, the people in it and the chosen presentation may change between *)
(* any two calls.  The page's context is the worker's own, so once that is *)
(* cancelled every call to the page fails and every button is missing.     *)
(*                                                                         *)
(* Left out: screenshots, shim counters, how long waits are, which button  *)
(* joins, a huddle window that outlives its huddle, and the microphone,    *)
(* whose button is pressed once after joining and never looked at again.   *)
(***************************************************************************)
EXTENDS Naturals, Sequences

CONSTANTS
    Presentations,      \* the presentations a user may choose
    First,              \* cfg.Presentation, what the engine was made with
    Cap,                \* the capacity of presCh (4 in the code)
    LeavesWhenAlone,    \* is cfg.LeaveWhenAloneAfter above 0
    MaxSets,            \* bound: calls to SetPresentation
    MaxFaults,          \* bound: failures of page, network and Slack
    Faults              \* rarer events that may happen; see the actions

ASSUME PresentationsAssumption ==
    First \in Presentations /\ Presentations \subseteq {"screen", "camera", "both"}
ASSUME BoundsAssumption ==
    Cap \in Nat \ {0} /\ MaxSets \in Nat /\ MaxFaults \in Nat /\ LeavesWhenAlone \in BOOLEAN

VARIABLES
    ctx,        \* is the worker's context cancelled
    source,     \* does the shim say the source is live
    others,     \* is somebody else in the huddle
    left,       \* runs a Chrome it started and has no connection to
    pres,       \* w.snap.Presentation
    presCh,     \* w.presCh
    sets,       \* calls to SetPresentation so far
    browser,    \* is there a browser it is connected to
    huddle,     \* is it in the huddle
    mode,       \* what the shim presents
    share,      \* is Slack's screen share on
    camera,     \* is Slack's camera on
    pc,         \* where the worker is
    status,     \* w.snap.Status, what the manager is told
    err,        \* what runOnce returned
    arg, errs, then,  \* apply: its argument, did a call fail, where it returns
    want, ok,         \* monitor: pres and sourceOK
    due,        \* monitor: is lastShareRetry 30 seconds ago
    aloneSince, \* monitor: "unset", or for how long alone
    faults      \* failures so far

user == <<pres, presCh, sets>>
outside == <<ctx, source, others, left>>
page == <<browser, huddle, mode, share, camera>>
apply == <<arg, errs, then>>
monitor == <<want, ok>>
timers == <<due, aloneSince>>
vars == <<user, outside, page, pc, status, err, apply, monitor, timers, faults>>

TypeOK ==
    /\ ctx \in BOOLEAN /\ source \in BOOLEAN /\ others \in BOOLEAN /\ left \in BOOLEAN
    /\ pres \in Presentations /\ presCh \in Seq(Presentations) /\ Len(presCh) <= Cap
    /\ sets \in 0 .. MaxSets /\ faults \in 0 .. MaxFaults
    /\ browser \in BOOLEAN /\ huddle \in BOOLEAN /\ share \in BOOLEAN /\ camera \in BOOLEAN
    /\ mode \in Presentations /\ arg \in Presentations /\ want \in Presentations
    /\ pc \in {"start", "launch", "open", "join", "settle", "mode", "share", "camera",
               "select", "check", "source", "reshare", "alone", "away", "ended", "backoff",
               "returned"}
    /\ status \in {"pending", "launching", "joining", "joined", "streaming", "waiting",
                   "needs_reauth", "error", "stopped"}
    /\ err \in {"none", "login", "other"}
    /\ then \in {"select", "check", "reshare"}
    /\ errs \in BOOLEAN /\ ok \in BOOLEAN /\ due \in BOOLEAN
    /\ aloneSince \in {"unset", "counting", "long"}
    /\ (share \/ camera => huddle) /\ (huddle => browser)

Init ==
    /\ ctx = FALSE /\ source \in BOOLEAN /\ others \in BOOLEAN /\ left = FALSE
    /\ pres = First /\ presCh = <<>> /\ sets = 0 /\ faults = 0
    /\ browser = FALSE /\ huddle = FALSE /\ mode = First /\ share = FALSE /\ camera = FALSE
    /\ pc = "start" /\ status = "pending" /\ err = "none"
    /\ arg = First /\ errs = FALSE /\ then = "select"
    /\ want = First /\ ok = FALSE
    /\ due = TRUE /\ aloneSince = "unset"

Fails(what) == what \in Faults

(* A call on the page or to Slack fails, for now. *)
Fault == faults < MaxFaults /\ faults' = faults + 1

(* It fails because the context is cancelled, or by itself. *)
CallFails == (ctx /\ UNCHANGED faults) \/ Fault

-----------------------------------------------------------------------------
(* The manager, the source, the people and Slack. *)
Cancel ==
    /\ ~ctx /\ ctx' = TRUE
    /\ UNCHANGED <<user, source, others, left, page, pc, status, err, apply, monitor, timers, faults>>

SourceTurns ==
    /\ source' = ~source
    /\ UNCHANGED <<user, ctx, others, left, page, pc, status, err, apply, monitor, timers, faults>>

OthersTurn ==
    /\ others' = ~others
    /\ UNCHANGED <<user, ctx, source, left, page, pc, status, err, apply, monitor, timers, faults>>

(* Slack ends the share, or drops the account from the huddle. *)
ShareEnds ==
    /\ share /\ Fault /\ share' = FALSE
    /\ UNCHANGED <<user, outside, browser, huddle, mode, camera, pc, status, err, apply, monitor, timers>>

Dropped ==
    /\ huddle /\ Fault
    /\ huddle' = FALSE /\ share' = FALSE /\ camera' = FALSE
    /\ UNCHANGED <<user, outside, browser, mode, pc, status, err, apply, monitor, timers>>

(* Faulty: the channel is unbounded. *)
AlwaysRoom == TRUE

Room == Len(presCh) < Cap

(* SetPresentation, which the manager calls under its lock.  When the      *)
(* channel is full the new choice is dropped from it.                      *)
SetPresentation(p) ==
    /\ sets < MaxSets /\ sets' = sets + 1
    /\ pres' = p
    /\ \/ Room /\ presCh' = Append(presCh, p)
       \/ ~Room /\ Fails("overflow") /\ UNCHANGED presCh
    /\ UNCHANGED <<outside, page, pc, status, err, apply, monitor, timers, faults>>

-----------------------------------------------------------------------------
(* Faulty: the browser is left open. *)
LeftOpen == browser

(* The deferred b.Close(). *)
Closed == FALSE

(* runOnce returns e.  (What only a browser or a monitor has is reset.) *)
Returns(e) ==
    /\ err' = e /\ pc' = "ended"
    /\ browser' = Closed
    /\ huddle' = FALSE /\ mode' = First /\ share' = FALSE /\ camera' = FALSE
    /\ due' = TRUE /\ aloneSince' = "unset"
    /\ UNCHANGED status

(* A round of Run's loop begins, the first one or after the wait. *)
Begin ==
    /\ pc \in {"start", "backoff"}
    /\ pc' = "launch" /\ status' = "launching"
    /\ UNCHANGED <<user, outside, page, err, apply, monitor, timers, faults>>

(* browser.Launch starts Chrome, cancelled or not, and connects to it if   *)
(* not cancelled; when that fails nobody ends the Chrome.                  *)
Launch ==
    /\ pc = "launch"
    /\ \/ /\ ~ctx /\ browser' = TRUE /\ pc' = "open"
          /\ UNCHANGED <<left, huddle, mode, share, camera, status, err, timers, faults>>
       \/ Fault /\ Returns("other") /\ UNCHANGED left
       \/ CallFails /\ Returns("other") /\ left' = TRUE
    /\ UNCHANGED <<user, ctx, source, others, apply, monitor>>

(* OpenSlack loads the page with the shim, set to what cfg said. *)
Open ==
    /\ pc = "open"
    /\ \/ /\ ~ctx /\ mode' = First /\ pc' = "join" /\ status' = "joining"
          /\ UNCHANGED <<browser, huddle, share, camera, err, timers, faults>>
       \/ CallFails /\ \E e \in {"login", "other"} : Returns(e)
    /\ UNCHANGED <<user, outside, apply, monitor>>

(* Join returns at once when still in the huddle. *)
Join ==
    /\ pc = "join"
    /\ \/ /\ ~ctx /\ huddle' = TRUE /\ pc' = "settle" /\ status' = "joined"
          /\ UNCHANGED <<browser, mode, share, camera, err, timers, faults>>
       \/ CallFails /\ \E e \in {"login", "other"} : Returns(e)
    /\ UNCHANGED <<user, outside, apply, monitor>>

(* apply(p), to go on at place q. *)
Applies(p, q) == pc' = "mode" /\ arg' = p /\ errs' = FALSE /\ then' = q

(* Faulty: a worker that joins applies what its engine was made with. *)
Original == First

Latest == pres

(* Two seconds later: apply the choice, then monitor with fresh timers. *)
Settle ==
    /\ pc = "settle"
    /\ Applies(Latest, "select")
    /\ due' = TRUE /\ aloneSince' = "unset"
    /\ UNCHANGED <<user, outside, page, status, err, monitor, faults>>

-----------------------------------------------------------------------------
(* Faulty: errors of apply are only logged. *)
Optimist(e) == "streaming"

(* What is reported after apply. *)
Outcome(e) == IF e THEN "joined" ELSE "streaming"

Applied(e) ==
    /\ pc' = then /\ status' = Outcome(e)
    /\ arg' = First /\ errs' = FALSE /\ then' = "select"

(* apply: the shim, without which the rest is not tried; *)
ApplyMode ==
    /\ pc = "mode"
    /\ \/ ~ctx /\ mode' = arg /\ pc' = "share" /\ UNCHANGED <<status, apply, faults>>
       \/ CallFails /\ Applied(TRUE) /\ UNCHANGED mode
    /\ UNCHANGED <<user, outside, browser, huddle, share, camera, err, monitor, timers>>

(* StartShare.  A share that did not start in time may start yet, and one  *)
(* whose button is missed is looked for in vain.                           *)
ShareStarts == ~ctx /\ huddle /\ share' = TRUE /\ UNCHANGED faults
ShareFails ==
    \/ (ctx \/ ~huddle) /\ UNCHANGED <<share, faults>>
    \/ ~ctx /\ huddle /\ Fault /\ share' \in {share, TRUE}

(* StopShare, whose click may fail unnoticed. *)
ShareStops ==
    /\ \/ ~ctx /\ share' = FALSE
       \/ (ctx \/ Fails("stop_share")) /\ UNCHANGED share
    /\ UNCHANGED faults

(* then one of them; *)
ApplyShare ==
    /\ pc = "share" /\ pc' = "camera"
    /\ \/ arg # "camera" /\ ShareStarts /\ UNCHANGED errs
       \/ arg # "camera" /\ ShareFails /\ errs' = TRUE
       \/ arg = "camera" /\ ShareStops /\ UNCHANGED errs
    /\ UNCHANGED <<user, outside, browser, huddle, mode, camera, status, err, arg, then,
                   monitor, timers>>

(* then SetCamera.  A button that is not found in time counts as a camera  *)
(* that is off: turning it on then fails, for want of the other button;    *)
(* turning it off ("blind") is taken for done, as is a click that Slack    *)
(* ignores.                                                                *)
ApplyCamera ==
    LET on == arg # "screen"
        there == ~ctx /\ camera
    IN  /\ pc = "camera"
        /\ \/ on = there /\ Applied(errs) /\ UNCHANGED <<camera, faults>>
           \/ on # there /\ ~ctx /\ huddle /\ camera' = on /\ Applied(errs) /\ UNCHANGED faults
           \/ /\ on # there /\ Applied(TRUE) /\ UNCHANGED camera
              /\ IF huddle THEN CallFails ELSE UNCHANGED faults
           \/ on /\ there /\ Fault /\ Applied(TRUE) /\ UNCHANGED camera
           \/ on # there /\ ~ctx /\ Fails("blind") /\ Fault /\ Applied(errs) /\ UNCHANGED camera
        /\ UNCHANGED <<user, outside, browser, huddle, mode, share, err, monitor, timers>>

-----------------------------------------------------------------------------
(* monitor's select.  When it is cancelled Leave finds no button. *)
SelectDone ==
    /\ pc = "select" /\ ctx /\ Returns("none")
    /\ UNCHANGED <<user, outside, apply, monitor, faults>>

SelectChoice ==
    /\ pc = "select" /\ presCh # <<>>
    /\ presCh' = Tail(presCh) /\ Applies(Head(presCh), "check")
    /\ UNCHANGED <<pres, sets, outside, page, status, err, monitor, timers, faults>>

SelectTick ==
    /\ pc = "select" /\ pc' = "check"
    /\ UNCHANGED <<user, outside, page, status, err, apply, monitor, timers, faults>>

(* Still logged in and in the huddle; what shim and choice are now.  The   *)
(* source of a shim that does not answer counts as live.                   *)
Check ==
    /\ pc = "check"
    /\ \/ CallFails /\ (\E e \in {"login", "other"} : Returns(e)) /\ UNCHANGED monitor
       \/ ~ctx /\ ~huddle /\ Returns("other") /\ UNCHANGED <<monitor, faults>>
       \/ /\ ~ctx /\ huddle
          /\ want' = pres
          /\ \/ ok' = source /\ UNCHANGED faults
             \/ Fault /\ ok' = TRUE
          /\ pc' = "source" /\ UNCHANGED <<page, status, err, timers>>
    /\ UNCHANGED <<user, outside, apply>>

(* No source: say so.  With one, what failed is applied anew every 30 s. *)
CheckSource ==
    /\ pc = "source"
    /\ IF ok /\ status = "joined" /\ due
       THEN Applies(want, "reshare") /\ due' = FALSE /\ UNCHANGED status
       ELSE /\ pc' = "reshare" /\ status' = IF ok THEN status ELSE "joined"
            /\ UNCHANGED <<apply, due>>
    /\ UNCHANGED <<user, outside, page, err, monitor, aloneSince, faults>>

(* The share is gone though the source is there: once in 30 s start it. *)
ShareLost == ok /\ want # "camera" /\ (ctx \/ ~share) /\ due

Reshare ==
    /\ pc = "reshare" /\ pc' = "alone" /\ want' = First /\ ok' = FALSE
    /\ \/ ~ShareLost /\ UNCHANGED <<share, status, due, faults>>
       \/ ShareLost /\ ShareStarts /\ status' = "streaming" /\ due' = FALSE
       \/ ShareLost /\ ShareFails /\ status' = "joined" /\ due' = FALSE
    /\ UNCHANGED <<user, outside, browser, huddle, mode, camera, err, apply, aloneSince>>

(* Faulty: how long is not looked at anew. *)
NeverLong == FALSE

AloneLong == aloneSince = "long"

(* Nobody else is in the huddle: the first time note it, and once it has   *)
(* been long enough leave.  A count that cannot be read is as good as      *)
(* company.  (It is read in Check's step; nothing comes of it until here.) *)
CheckAlone ==
    /\ pc = "alone"
    /\ IF LeavesWhenAlone /\ ~others /\ AloneLong
       THEN /\ pc' = "away" /\ status' = "waiting"
            /\ \/ ~ctx /\ huddle' = FALSE /\ share' = FALSE /\ camera' = FALSE /\ UNCHANGED faults
               \/ CallFails /\ UNCHANGED <<huddle, share, camera>>
            /\ UNCHANGED aloneSince
       ELSE /\ pc' = "select" /\ UNCHANGED <<huddle, share, camera, status>>
            /\ \/ /\ aloneSince' = IF others \/ ~LeavesWhenAlone THEN "unset"
                                   ELSE IF aloneSince = "unset" THEN "counting" ELSE aloneSince
                  /\ UNCHANGED faults
               \/ Fault /\ aloneSince' = "unset"
    /\ UNCHANGED <<user, outside, browser, mode, err, apply, monitor, due>>

(* Three minutes later, back to the huddle's page. *)
Away ==
    /\ pc = "away"
    /\ \/ ctx /\ Returns("none")
       \/ ~ctx /\ pc' = "join" /\ status' = "joining" /\ UNCHANGED <<page, err, timers>>
       \/ \E e \in {"login", "other"} : Returns(e)
    /\ UNCHANGED <<user, outside, apply, monitor, faults>>

(* The clock of monitor's two timers.  "late_retry": 30 seconds end        *)
(* between the two looks a round of monitor takes at lastShareRetry, which *)
(* is so when the first retry waits for a button in vain.                  *)
RetryDue ==
    /\ ~due /\ due' = TRUE
    /\ pc = "reshare" \/ (pc \in {"mode", "share", "camera"} /\ then = "reshare")
       => Fails("late_retry")
    /\ UNCHANGED <<user, outside, page, pc, status, err, apply, monitor, aloneSince, faults>>

AloneForLong ==
    /\ aloneSince = "counting" /\ aloneSince' = "long"
    /\ UNCHANGED <<user, outside, page, pc, status, err, apply, monitor, due, faults>>

-----------------------------------------------------------------------------
(* Run, after runOnce. *)
Ended ==
    /\ pc = "ended"
    /\ IF ctx THEN pc' = "returned" /\ status' = "stopped"
       ELSE /\ pc' = "backoff"
            /\ status' = IF err = "login" THEN "needs_reauth" ELSE "error"
    /\ err' = "none"
    /\ UNCHANGED <<user, outside, page, apply, monitor, timers, faults>>

BackoffDone ==
    /\ pc = "backoff" /\ ctx
    /\ pc' = "returned" /\ status' = "stopped"
    /\ UNCHANGED <<user, outside, page, err, apply, monitor, timers, faults>>

-----------------------------------------------------------------------------
Steps ==
    \/ Begin \/ Launch \/ Open \/ Join \/ Settle
    \/ ApplyMode \/ ApplyShare \/ ApplyCamera
    \/ SelectDone \/ SelectTick \/ Check \/ CheckSource \/ Reshare \/ CheckAlone
    \/ Away \/ Ended \/ BackoffDone

Next ==
    \/ Cancel \/ SourceTurns \/ OthersTurn \/ ShareEnds \/ Dropped
    \/ \E p \in Presentations : SetPresentation(p)
    \/ Steps \/ SelectChoice \/ RetryDue \/ AloneForLong

Spec == Init /\ [][Next]_vars

(***************************************************************************)
(* Fairness.  Every call to the page has a timeout and every wait an end,  *)
(* so the worker takes its next step; a select with several cases ready    *)
(* draws one at random, so none is passed over for ever; timers run.       *)
(***************************************************************************)
Fairness ==
    /\ WF_vars(Steps) /\ SF_vars(SelectChoice)
    /\ SF_vars(RetryDue) /\ WF_vars(AloneForLong)

FairSpec == Spec /\ Fairness
=============================================================================
