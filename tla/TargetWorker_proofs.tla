------------------------ MODULE TargetWorker_proofs ------------------------
(***************************************************************************)
(* Proofs about the worker that casts into a huddle, for any presentations,*)
(* capacity of its channel, number of choices and failures.                *)
(***************************************************************************)
EXTENDS TargetWorkerProperties, SequenceTheorems, TLAPS

(* TypeOK in parts that the provers take one at a time. *)
Outside ==
    ctx \in BOOLEAN /\ source \in BOOLEAN /\ others \in BOOLEAN /\ left \in BOOLEAN

PageFlags ==
    /\ browser \in BOOLEAN /\ huddle \in BOOLEAN /\ share \in BOOLEAN /\ camera \in BOOLEAN
    /\ (share \/ camera => huddle) /\ (huddle => browser)

Choices ==
    /\ pres \in Presentations /\ presCh \in Seq(Presentations) /\ Len(presCh) <= Cap
    /\ mode \in Presentations /\ arg \in Presentations /\ want \in Presentations

Words ==
    /\ pc \in {"start", "launch", "open", "join", "settle", "mode", "share", "camera",
               "select", "check", "source", "reshare", "alone", "away", "ended", "backoff",
               "returned"}
    /\ status \in {"pending", "launching", "joining", "joined", "streaming", "waiting",
                   "needs_reauth", "error", "stopped"}
    /\ err \in {"none", "login", "other"}
    /\ then \in {"select", "check", "reshare"}
    /\ aloneSince \in {"unset", "counting", "long"}

Locals == errs \in BOOLEAN /\ ok \in BOOLEAN /\ due \in BOOLEAN

Counts == sets \in 0 .. MaxSets /\ faults \in 0 .. MaxFaults

LEMMA TypeParts ==
    TypeOK <=> Outside /\ PageFlags /\ Choices /\ Words /\ Locals /\ Counts
  BY DEF TypeOK, Outside, PageFlags, Choices, Words, Locals, Counts

LEMMA TypeInit == Init => TypeOK
<1> USE PresentationsAssumption, BoundsAssumption DEF Init
<1>1. Init => Outside /\ Locals
  BY DEF Outside, Locals
<1>2. Init => PageFlags
  BY DEF PageFlags
<1>3. Init => Choices
  BY DEF Choices
<1>4. Init => Words
  BY DEF Words
<1>5. Init => Counts
  BY DEF Counts
<1> QED
  BY <1>1, <1>2, <1>3, <1>4, <1>5, TypeParts

LEMMA OutsideNext == TypeOK /\ [Next]_vars => Outside'
<1> SUFFICES ASSUME TypeOK, [Next]_vars PROVE Outside'
  OBVIOUS
<1>t. Outside
  BY TypeParts
<1>1. CASE Cancel
  BY <1>1, <1>t DEF Cancel, Outside
<1>2. CASE SourceTurns
  BY <1>2, <1>t DEF SourceTurns, Outside
<1>3. CASE OthersTurn
  BY <1>3, <1>t DEF OthersTurn, Outside
<1>4. ASSUME \/ ShareEnds \/ Dropped \/ (\E p \in Presentations : SetPresentation(p))
             \/ Begin \/ Open \/ Join \/ Settle \/ UNCHANGED vars
      PROVE  UNCHANGED outside
  BY <1>4 DEF ShareEnds, Dropped, SetPresentation, Begin, Open, Join, Settle, vars
<1>5. ASSUME \/ ApplyMode \/ ApplyShare \/ ApplyCamera \/ SelectDone \/ SelectChoice \/ SelectTick
             \/ Check \/ CheckSource \/ Reshare \/ CheckAlone \/ Away \/ Ended \/ BackoffDone
             \/ RetryDue \/ AloneForLong
      PROVE  UNCHANGED outside
  BY <1>5 DEF ApplyMode, ApplyShare, ApplyCamera, SelectDone, SelectChoice, SelectTick, Check,
              CheckSource, Reshare, CheckAlone, Away, Ended, BackoffDone, RetryDue, AloneForLong
<1>6. UNCHANGED outside => Outside'
  BY <1>t DEF outside, Outside
<1>7. CASE Launch
  BY <1>7, <1>t DEF Launch, Outside
<1> QED
  BY <1>1, <1>2, <1>3, <1>4, <1>5, <1>6, <1>7 DEF Next, Steps

LEMMA Failed ==
    ASSUME Counts, UNCHANGED faults \/ Fault \/ CallFails
    PROVE  faults' \in 0 .. MaxFaults
  BY BoundsAssumption DEF Counts, Fault, CallFails

LEMMA CountsNext == TypeOK /\ [Next]_vars => Counts'
<1> SUFFICES ASSUME TypeOK, [Next]_vars PROVE Counts'
  OBVIOUS
<1>t. Counts
  BY TypeParts
<1>1. ASSUME NEW p \in Presentations, SetPresentation(p) PROVE Counts'
  BY <1>1, <1>t, BoundsAssumption DEF SetPresentation, Counts
<1>2. ASSUME \/ Cancel \/ SourceTurns \/ OthersTurn \/ Begin \/ Settle \/ SelectDone
             \/ SelectChoice \/ SelectTick \/ CheckSource \/ Away \/ Ended \/ BackoffDone
             \/ RetryDue \/ AloneForLong \/ UNCHANGED vars
      PROVE  UNCHANGED <<sets, faults>>
  BY <1>2 DEF Cancel, SourceTurns, OthersTurn, Begin, Settle, SelectDone, SelectChoice, SelectTick,
              CheckSource, Away, Ended, BackoffDone, RetryDue, AloneForLong, vars, user
<1>3. ASSUME \/ ShareEnds \/ Dropped \/ Launch \/ Open \/ Join \/ ApplyMode \/ ApplyCamera
             \/ Check \/ CheckAlone
      PROVE  UNCHANGED sets /\ (UNCHANGED faults \/ Fault \/ CallFails)
  BY <1>3 DEF ShareEnds, Dropped, Launch, Open, Join, ApplyMode, ApplyCamera, Check, CheckAlone, user
<1>4. ASSUME ApplyShare \/ Reshare
      PROVE  UNCHANGED sets /\ (UNCHANGED faults \/ Fault \/ CallFails)
  BY <1>4 DEF ApplyShare, Reshare, ShareStarts, ShareFails, ShareStops, user
<1> QED
  BY <1>t, <1>1, <1>2, <1>3, <1>4, Failed DEF Next, Steps, Counts

LEMMA LocalsNext == TypeOK /\ [Next]_vars => Locals'
<1> SUFFICES ASSUME TypeOK, [Next]_vars PROVE Locals'
  OBVIOUS
<1>t. Locals /\ source \in BOOLEAN
  BY TypeParts DEF Outside
<1>1. CASE \/ Cancel \/ SourceTurns \/ OthersTurn \/ ShareEnds \/ Dropped \/ Begin
           \/ (\E p \in Presentations : SetPresentation(p))
           \/ SelectTick \/ CheckAlone \/ Ended \/ BackoffDone \/ AloneForLong \/ UNCHANGED vars
  BY <1>1, <1>t DEF Cancel, SourceTurns, OthersTurn, ShareEnds, Dropped, Begin, SetPresentation,
       SelectTick, CheckAlone, Ended, BackoffDone, AloneForLong, vars, apply, monitor, timers, Locals
<1>2. CASE Launch \/ Open \/ Join \/ SelectDone \/ Away
  BY <1>2, <1>t DEF Launch, Open, Join, SelectDone, Away, Returns, apply, monitor, timers, Locals
<1>3. CASE Settle \/ SelectChoice \/ RetryDue
  BY <1>3, <1>t DEF Settle, SelectChoice, RetryDue, Applies, apply, monitor, timers, Locals
<1>4. CASE ApplyMode
  BY <1>4, <1>t DEF ApplyMode, Applied, apply, monitor, timers, Locals
<1>5. CASE ApplyShare
  <2>1. errs' = errs \/ errs' = TRUE
    BY <1>5 DEF ApplyShare
  <2>2. UNCHANGED <<ok, due>>
    BY <1>5 DEF ApplyShare, monitor, timers
  <2> QED
    BY <1>t, <2>1, <2>2 DEF Locals
<1>6. CASE ApplyCamera
  BY <1>6, <1>t DEF ApplyCamera, Applied, monitor, timers, Locals
<1>7. CASE Check
  <2>1. UNCHANGED errs /\ (UNCHANGED ok \/ ok' = source \/ ok' = TRUE)
    BY <1>7 DEF Check, apply, monitor
  <2>2. UNCHANGED due \/ due' = TRUE
    BY <1>7 DEF Check, Returns, timers
  <2> QED
    BY <1>t, <2>1, <2>2 DEF Locals
<1>8. CASE CheckSource
  BY <1>8, <1>t DEF CheckSource, Applies, apply, monitor, Locals
<1>9. CASE Reshare
  BY <1>9, <1>t DEF Reshare, apply, Locals
<1> QED
  BY <1>1, <1>2, <1>3, <1>4, <1>5, <1>6, <1>7, <1>8, <1>9 DEF Next, Steps

LEMMA WordsNext == TypeOK /\ [Next]_vars => Words'
<1> SUFFICES ASSUME TypeOK, [Next]_vars PROVE Words'
  OBVIOUS
<1>t. Words
  BY TypeParts
<1>1. CASE \/ Cancel \/ SourceTurns \/ OthersTurn \/ ShareEnds \/ Dropped \/ Begin
           \/ (\E p \in Presentations : SetPresentation(p)) \/ SelectTick \/ UNCHANGED vars
  BY <1>1, <1>t DEF Cancel, SourceTurns, OthersTurn, ShareEnds, Dropped, Begin, SetPresentation,
       SelectTick, vars, apply, timers, Words
<1>2. CASE Launch \/ SelectDone \/ Away
  BY <1>2, <1>t DEF Launch, SelectDone, Away, Returns, apply, timers, Words
<1>3. CASE Open \/ Join
  BY <1>3, <1>t DEF Open, Join, Returns, apply, timers, Words
<1>4. CASE Settle \/ SelectChoice \/ CheckSource
  BY <1>4, <1>t DEF Settle, SelectChoice, CheckSource, Applies, apply, timers, Words
<1>5. CASE ApplyMode \/ ApplyCamera
  BY <1>5, <1>t DEF ApplyMode, ApplyCamera, Applied, Outcome, apply, timers, Words
<1>6. CASE ApplyShare \/ Reshare
  BY <1>6, <1>t DEF ApplyShare, Reshare, apply, timers, Words
<1>7. CASE Check
  BY <1>7, <1>t DEF Check, Returns, apply, timers, Words
<1>8. CASE CheckAlone
  BY <1>8, <1>t DEF CheckAlone, apply, Words
<1>9. CASE Ended \/ BackoffDone \/ RetryDue \/ AloneForLong
  BY <1>9, <1>t DEF Ended, BackoffDone, RetryDue, AloneForLong, apply, timers, Words
<1> QED
  BY <1>1, <1>2, <1>3, <1>4, <1>5, <1>6, <1>7, <1>8, <1>9 DEF Next, Steps

LEMMA ChoicesNext == TypeOK /\ [Next]_vars => Choices'
<1> SUFFICES ASSUME TypeOK, [Next]_vars PROVE Choices'
  OBVIOUS
<1>t. Choices
  BY TypeParts
<1>f. First \in Presentations
  BY PresentationsAssumption
<1>1. ASSUME NEW p \in Presentations, SetPresentation(p) PROVE Choices'
  <2>1. pres' = p /\ UNCHANGED <<mode, arg, want>>
    BY <1>1 DEF SetPresentation, page, apply, monitor
  <2>2. presCh' \in Seq(Presentations) /\ Len(presCh') <= Cap
    <3>1. CASE UNCHANGED presCh
      BY <1>t, <3>1 DEF Choices
    <3>2. CASE Room /\ presCh' = Append(presCh, p)
      BY <1>t, <3>2, BoundsAssumption DEF Room, Choices
    <3> QED
      BY <1>1, <3>1, <3>2 DEF SetPresentation
  <2> QED
    BY <1>t, <2>1, <2>2 DEF Choices
<1>2. CASE SelectChoice
  <2>1. /\ presCh' = Tail(presCh) /\ arg' = Head(presCh) /\ presCh # <<>>
        /\ UNCHANGED <<pres, mode, want>>
    BY <1>2 DEF SelectChoice, Applies, page, monitor
  <2>2. /\ Head(presCh) \in Presentations /\ Tail(presCh) \in Seq(Presentations)
        /\ Len(Tail(presCh)) = Len(presCh) - 1 /\ Len(presCh) \in Nat
    BY <1>t, <2>1, HeadTailProperties, LenProperties DEF Choices
  <2> QED
    BY <1>t, <2>1, <2>2, BoundsAssumption DEF Choices
<1>3. ASSUME \/ Cancel \/ SourceTurns \/ OthersTurn \/ ShareEnds \/ Dropped \/ Begin
             \/ SelectTick \/ CheckAlone \/ Ended \/ BackoffDone \/ AloneForLong \/ RetryDue
             \/ UNCHANGED vars
      PROVE  UNCHANGED <<pres, presCh, mode, arg, want>>
  BY <1>3 DEF Cancel, SourceTurns, OthersTurn, ShareEnds, Dropped, Begin, SelectTick, CheckAlone,
       Ended, BackoffDone, AloneForLong, RetryDue, vars, user, page, apply, monitor
<1>4. ASSUME Launch \/ Open \/ Join \/ SelectDone \/ Away
      PROVE  UNCHANGED <<pres, presCh, arg, want>> /\ mode' \in {mode, First}
  BY <1>4 DEF Launch, Open, Join, SelectDone, Away, Returns, user, page, apply, monitor
<1>5. ASSUME Settle \/ CheckSource
      PROVE  UNCHANGED <<pres, presCh, mode, want>> /\ arg' \in {arg, pres, want}
  BY <1>5 DEF Settle, CheckSource, Applies, Latest, user, page, apply, monitor
<1>6. ASSUME ApplyMode \/ ApplyCamera
      PROVE  UNCHANGED <<pres, presCh, want>> /\ mode' \in {mode, arg} /\ arg' \in {arg, First}
  BY <1>6 DEF ApplyMode, ApplyCamera, Applied, user, apply, monitor
<1>7. ASSUME ApplyShare \/ Reshare
      PROVE  UNCHANGED <<pres, presCh, mode, arg>> /\ want' \in {want, First}
  BY <1>7 DEF ApplyShare, Reshare, user, apply, monitor
<1>8. ASSUME Check
      PROVE  UNCHANGED <<pres, presCh, arg>> /\ mode' \in {mode, First} /\ want' \in {want, pres}
  BY <1>8 DEF Check, Returns, user, page, apply, monitor
<1>9. ASSUME UNCHANGED <<pres, presCh>>, mode' \in {mode, arg, First},
             arg' \in {arg, pres, want, First}, want' \in {want, pres, First}
      PROVE  Choices'
  BY <1>t, <1>f, <1>9 DEF Choices
<1> QED
  BY <1>1, <1>2, <1>3, <1>4, <1>5, <1>6, <1>7, <1>8, <1>9 DEF Next, Steps

(* A browser is there from Launch until the round ends.                    *)
Placed == browser <=> pc \notin {"start", "launch", "ended", "backoff", "returned"}

LEMMA Returned ==
    ASSUME NEW e, Returns(e)
    PROVE  PageFlags' /\ Placed' /\ ~browser' /\ pc' = "ended" /\ UNCHANGED status
  BY DEF Returns, Closed, PageFlags, Placed

(* However a share is started or stopped, it needs a huddle to be on.     *)
LEMMA Sharing ==
    ASSUME PageFlags, \/ ShareStarts \/ ShareFails \/ ShareStops \/ UNCHANGED share
    PROVE  share' \in BOOLEAN /\ (share' => huddle)
<1>1. share \in BOOLEAN /\ (share => huddle)
  BY Zenon DEF PageFlags
<1>2. ShareStarts => share' = TRUE /\ huddle
  BY DEF ShareStarts
<1>3. ShareStops => share' = FALSE \/ UNCHANGED share
  BY DEF ShareStops
<1>4. ShareFails => UNCHANGED share \/ (huddle /\ share' \in BOOLEAN)
  BY DEF ShareFails
<1>5. CASE UNCHANGED share
  BY <1>1, <1>5, Zenon
<1> QED
  BY <1>2, <1>3, <1>4, <1>5

LEMMA PageNext == TypeOK /\ Placed /\ [Next]_vars => PageFlags' /\ Placed'
<1> SUFFICES ASSUME TypeOK, Placed, [Next]_vars PROVE PageFlags' /\ Placed'
  OBVIOUS
<1>t. PageFlags /\ then \in {"select", "check", "reshare"}
  BY TypeParts DEF Words
<1>1. ASSUME \/ Cancel \/ SourceTurns \/ OthersTurn \/ (\E p \in Presentations : SetPresentation(p))
             \/ RetryDue \/ AloneForLong \/ UNCHANGED vars
      PROVE  PageFlags' /\ Placed'
  BY <1>1, <1>t DEF Cancel, SourceTurns, OthersTurn, SetPresentation, RetryDue, AloneForLong, vars,
                    page, PageFlags, Placed
<1>2. CASE ShareEnds \/ Dropped
  BY <1>2, <1>t DEF ShareEnds, Dropped, PageFlags, Placed
<1>3. CASE Begin \/ Settle \/ SelectChoice \/ SelectTick \/ Ended \/ BackoffDone
  BY <1>3, <1>t DEF Begin, Settle, SelectChoice, SelectTick, Ended, BackoffDone, Applies,
                    page, PageFlags, Placed
<1>4. CASE CheckSource
  BY <1>4, <1>t DEF CheckSource, Applies, page, PageFlags, Placed
<1>5. ASSUME NEW e, Returns(e) PROVE PageFlags' /\ Placed'
  BY <1>5, Returned
<1>w. ASSUME UNCHANGED browser, huddle' \in BOOLEAN, share' \in BOOLEAN, camera' \in BOOLEAN,
             share' \/ camera' => huddle', huddle' => huddle
      PROVE  PageFlags'
  BY <1>w, <1>t, Zenon DEF PageFlags
<1>v. ASSUME UNCHANGED browser,
             pc \notin {"start", "launch", "ended", "backoff", "returned"},
             pc' \notin {"start", "launch", "ended", "backoff", "returned"}
      PROVE  Placed'
  BY <1>v DEF Placed
<1>6. CASE Launch
  <2>1. CASE browser' = TRUE /\ pc' = "open" /\ UNCHANGED <<huddle, share, camera>>
    <3>1. Placed'
      BY <2>1 DEF Placed
    <3>2. PageFlags'
      BY <2>1, <1>t DEF PageFlags
    <3> QED
      BY <3>1, <3>2
  <2>2. CASE Returns("other")
    BY <2>2, <1>5
  <2> QED
    BY <1>6, <2>1, <2>2 DEF Launch
<1>7. CASE Open
  <2>1. CASE pc = "open" /\ pc' = "join" /\ UNCHANGED <<browser, huddle, share, camera>>
    <3>1. Placed'
      BY <2>1 DEF Placed
    <3>2. PageFlags'
      BY <2>1, <1>t DEF PageFlags
    <3> QED
      BY <3>1, <3>2
  <2>2. ASSUME NEW e \in {"login", "other"}, Returns(e) PROVE PageFlags' /\ Placed'
    BY <2>2, <1>5
  <2> QED
    BY <1>7, <2>1, <2>2 DEF Open
<1>8. CASE Join
  BY <1>8, <1>5, <1>t DEF Join, PageFlags, Placed
<1>9. CASE SelectDone
  BY <1>9, <1>5 DEF SelectDone
<1>10. CASE Check
  BY <1>10, <1>5, <1>t DEF Check, page, PageFlags, Placed
<1>11. CASE Away
  <2>1. CASE pc = "away" /\ pc' = "join" /\ UNCHANGED page
    <3>1. Placed'
      BY <2>1 DEF Placed, page
    <3>2. PageFlags'
      BY <2>1, <1>t DEF PageFlags, page
    <3> QED
      BY <3>1, <3>2
  <2>2. ASSUME NEW e, Returns(e) PROVE PageFlags' /\ Placed'
    BY <2>2, <1>5
  <2> QED
    BY <1>11, <2>1, <2>2 DEF Away
<1>12. CASE ApplyMode
  BY <1>12, <1>t DEF ApplyMode, Applied, PageFlags, Placed
<1>h. PageFlags
  BY <1>t
<1>13. CASE ApplyShare
  <2>1. pc = "share" /\ pc' = "camera" /\ UNCHANGED <<browser, huddle, camera>>
    BY <1>13 DEF ApplyShare
  <2>2. ShareStarts \/ ShareFails \/ ShareStops
    BY <1>13 DEF ApplyShare
  <2>3. share' \in BOOLEAN /\ (share' => huddle)
    BY <2>2, <1>h, Sharing
  <2>4. PageFlags'
    BY <2>1, <2>3, <1>h, Zenon DEF PageFlags
  <2>5. Placed'
    BY <2>1, <1>v
  <2> QED
    BY <2>4, <2>5
<1>14. CASE ApplyCamera
  <2>1. pc = "camera" /\ UNCHANGED <<browser, huddle, share>>
    BY <1>14 DEF ApplyCamera
  <2>2. pc' = then
    BY <1>14 DEF ApplyCamera, Applied
  <2>3. UNCHANGED camera \/ (huddle /\ camera' \in BOOLEAN)
    BY <1>14 DEF ApplyCamera
  <2>c. camera \in BOOLEAN /\ (camera => huddle) /\ huddle \in BOOLEAN /\ share \in BOOLEAN
        /\ (share => huddle) /\ (huddle => browser)
    BY <1>h, Zenon DEF PageFlags
  <2>d. camera' \in BOOLEAN /\ (camera' => huddle)
    BY <2>3, <2>c
  <2>4. PageFlags'
    BY <2>1, <2>c, <2>d, <1>w
  <2>5. Placed'
    BY <2>1, <2>2, <1>t, <1>v
  <2> QED
    BY <2>4, <2>5
<1>15. CASE Reshare
  <2>1. pc = "reshare" /\ pc' = "alone" /\ UNCHANGED <<browser, huddle, camera>>
    BY <1>15 DEF Reshare
  <2>2. ShareStarts \/ ShareFails \/ UNCHANGED share
    BY <1>15 DEF Reshare
  <2>3. share' \in BOOLEAN /\ (share' => huddle)
    BY <2>2, <1>h, Sharing
  <2>4. PageFlags'
    BY <2>1, <2>3, <1>h, Zenon DEF PageFlags
  <2>5. Placed'
    BY <2>1, <1>v
  <2> QED
    BY <2>4, <2>5
<1>16. CASE CheckAlone
  BY <1>16, <1>t DEF CheckAlone, PageFlags, Placed
<1> QED
  BY <1>1, <1>2, <1>3, <1>4, <1>6, <1>7, <1>8, <1>9, <1>10, <1>11, <1>12, <1>13, <1>14, <1>15,
     <1>16 DEF Next, Steps

LEMMA WorkerNext == TypeOK /\ Placed /\ [Next]_vars => (TypeOK /\ Placed)'
<1>1. TypeOK' <=> (Outside /\ PageFlags /\ Choices /\ Words /\ Locals /\ Counts)'
  BY TypeParts, PTL
<1> QED
  BY <1>1, OutsideNext, CountsNext, LocalsNext, WordsNext, ChoicesNext, PageNext

LEMMA WorkerInv == Spec => [](TypeOK /\ Placed)
<1>1. Init => TypeOK /\ Placed
  BY TypeInit DEF Init, Placed
<1> QED
  BY <1>1, WorkerNext, PTL DEF Spec

(* Everything has its type whatever the page, the network and Slack do, a  *)
(* share or a camera is on in a huddle only, and the channel of choices    *)
(* holds what it has room for.                                             *)
THEOREM WorkerTypeCorrect == Spec => []TypeOK
  BY WorkerInv, PTL

(* The end: without a browser, and with a last word if it is cancelled.    *)
LEMMA EngineStops ==
    ASSUME TypeOK, Placed, Ended \/ BackoffDone PROVE [E!Next]_(E!vars)
<1>1. ~browser /\ ~(pc = "returned") /\ UNCHANGED <<ctx, browser, left>>
  BY DEF Placed, Ended, BackoffDone, outside, page
<1>2. CASE pc' = "returned"
  <2>1. ctx /\ status' = "stopped"
    BY <1>2 DEF Ended, BackoffDone
  <2>2. browser' = FALSE /\ (pc' = "returned") = TRUE
    BY <1>1, <1>2 DEF TypeOK
  <2> QED
    BY <1>1, <2>1, <2>2 DEF E!Next, E!Stop
<1>3. CASE pc' # "returned"
  <2>1. status' \in {"needs_reauth", "error"} /\ ~(pc' = "returned")
    BY <1>3 DEF Ended, BackoffDone
  <2> QED
    BY <1>1, <2>1 DEF E!Next, E!Work, E!Statuses, TypeOK
<1> QED
  BY <1>2, <1>3

(* A step of a round is work. *)
LEMMA EngineWorks ==
    ASSUME TypeOK, Placed,
           \/ Begin \/ Launch \/ Open \/ Join \/ Settle \/ ApplyMode \/ ApplyShare \/ ApplyCamera
           \/ SelectDone \/ SelectChoice \/ SelectTick \/ Check \/ CheckSource \/ Reshare
           \/ CheckAlone \/ Away
    PROVE  [E!Next]_(E!vars)
<1> DEFINE Silent == status' = status /\ (browser' = FALSE \/ browser' = browser)
           Reports == /\ status' \in {"launching", "joining", "joined", "streaming", "waiting",
                                      status}
                      /\ status' = "streaming" => browser \/ status = "streaming"
                      /\ browser' = browser
           Opens == ~ctx /\ browser' = TRUE /\ status' = status
<1>1. ctx' = ctx /\ ~(pc = "returned") /\ ~(pc' = "returned")
  <2>1. CASE \/ Begin \/ Launch \/ Open \/ Join \/ Settle \/ ApplyShare \/ SelectDone
             \/ SelectTick \/ Check \/ Reshare \/ CheckAlone \/ Away
    BY <2>1 DEF Begin, Launch, Open, Join, Settle, Applies, ApplyShare, SelectDone, SelectTick,
                Check, Reshare, CheckAlone, Away, Returns, outside
  <2>2. CASE ApplyMode \/ ApplyCamera
    BY <2>2 DEF ApplyMode, ApplyCamera, Applied, TypeOK, outside
  <2>3. CASE SelectChoice \/ CheckSource
    BY <2>3 DEF SelectChoice, CheckSource, Applies, outside
  <2> QED
    BY <2>1, <2>2, <2>3
<1>2. Silent \/ Reports \/ Opens
  <2>1. CASE Begin \/ Settle \/ SelectChoice \/ SelectTick \/ CheckSource \/ ApplyShare
    BY <2>1 DEF Begin, Settle, SelectChoice, SelectTick, CheckSource, ApplyShare, page
  <2>2. CASE Launch \/ Open \/ Join \/ SelectDone \/ Away
    BY <2>2 DEF Launch, Open, Join, SelectDone, Away, Returns, Closed, page
  <2>3. CASE Check
    BY <2>3 DEF Check, Returns, Closed, page
  <2>4. CASE ApplyMode \/ ApplyCamera
    BY <2>4 DEF ApplyMode, ApplyCamera, Applied, Outcome, Placed
  <2>5. CASE Reshare \/ CheckAlone
    BY <2>5 DEF Reshare, CheckAlone, Placed
  <2> QED
    BY <2>1, <2>2, <2>3, <2>4, <2>5
<1>3. browser' \in BOOLEAN /\ (ctx /\ browser' => browser)
  <2>1. browser \in BOOLEAN
    BY DEF TypeOK
  <2>2. browser' = FALSE \/ browser' = browser \/ (~ctx /\ browser' = TRUE)
    BY <1>2
  <2>3. CASE browser' = FALSE
    BY <2>3
  <2>4. CASE browser' = browser
    BY <2>1, <2>4, Zenon
  <2>5. CASE ~ctx /\ browser' = TRUE
    BY <2>5
  <2> QED
    BY <2>2, <2>3, <2>4, <2>5, Zenon
<1>4. status' \in (E!Statuses \ {"pending", "stopped"}) \cup {status}
  BY <1>2 DEF E!Statuses
<1>5. status' = "streaming" => browser' \/ status = "streaming"
  BY <1>2
<1>6. left' \in {left, TRUE} /\ (left' # left => ~browser /\ ~browser')
  <2>1. CASE Launch
    <3>1. UNCHANGED left \/ (left' = TRUE /\ Returns("other"))
      BY <2>1 DEF Launch
    <3>2. ~browser
      BY <2>1 DEF Launch, Placed
    <3> QED
      BY <3>1, <3>2, Returned, Zenon DEF Returns, Closed
  <2>2. CASE ~Launch
    BY <2>2 DEF Begin, Open, Join, Settle, ApplyMode, ApplyShare, ApplyCamera, SelectDone,
                SelectChoice, SelectTick, Check, CheckSource, Reshare, CheckAlone, Away, outside
  <2> QED
    BY <2>1, <2>2
<1> QED
  BY <1>1, <1>3, <1>4, <1>5, <1>6 DEF E!Next, E!Work

(* The safety part of IsEngine: whatever a round does is work of an engine, *)
(* which once cancelled works in no new browser, closes the one it had,    *)
(* reports streaming only with one, and has "stopped" for its last word.   *)
(* Only a launch that fails can leave a Chrome behind.                     *)
THEOREM EngineSafety == Spec => E!Init /\ [][E!Next]_(E!vars)
<1>1. Init => E!Init
  BY DEF Init, E!Init
<1>2. TypeOK /\ Placed /\ [Next]_vars => [E!Next]_(E!vars)
  <2> SUFFICES ASSUME TypeOK, Placed, [Next]_vars PROVE [E!Next]_(E!vars)
    OBVIOUS
  <2>1. CASE Cancel
    BY <2>1 DEF Cancel, page, E!Next, E!Cancel, TypeOK
  <2>2. CASE \/ SourceTurns \/ OthersTurn \/ ShareEnds \/ Dropped \/ RetryDue \/ AloneForLong
             \/ (\E p \in Presentations : SetPresentation(p)) \/ UNCHANGED vars
    BY <2>2 DEF SourceTurns, OthersTurn, ShareEnds, Dropped, RetryDue, AloneForLong,
                SetPresentation, vars, outside, page, E!vars
  <2>3. CASE Ended \/ BackoffDone
    BY <2>3, EngineStops
  <2> QED
    BY <2>1, <2>2, <2>3, EngineWorks DEF Next, Steps
<1> QED
  BY <1>1, <1>2, WorkerInv, PTL DEF Spec

(* What becomes of the channel. *)
LEMMA QueueSent ==
    ASSUME TypeOK, Tracks, "overflow" \notin Faults, NEW p \in Presentations, SetPresentation(p)
    PROVE  presCh' # <<>> /\ presCh'[Len(presCh')] = p
<1>1. presCh' = Append(presCh, p) /\ presCh \in Seq(Presentations)
  BY DEF SetPresentation, Fails, TypeOK
<1> QED
  BY <1>1, AppendProperties, LenProperties

LEMMA QueueTaken ==
    ASSUME TypeOK, Tracks, presCh # <<>>, presCh' = Tail(presCh), UNCHANGED pres
    PROVE  /\ presCh' # <<>> => presCh'[Len(presCh')] = pres
           /\ presCh' = <<>> => Head(presCh) = pres
<1>1. presCh \in Seq(Presentations) /\ presCh[Len(presCh)] = pres /\ Len(presCh) \in Nat
  BY LenProperties DEF TypeOK, Tracks
<1>2. /\ Len(presCh') = Len(presCh) - 1 /\ presCh' \in Seq(Presentations)
      /\ \A i \in 1 .. Len(presCh') : presCh'[i] = presCh[i + 1]
      /\ Head(presCh) = presCh[1]
  BY <1>1, HeadTailProperties
<1>3. presCh' # <<>> => Len(presCh') \in Nat /\ Len(presCh') > 0
  BY <1>2, EmptySeq, LenProperties
<1>4. presCh' = <<>> => Len(presCh) = 1
  <2>1. presCh' = <<>> => Len(presCh') = 0
    OBVIOUS
  <2> QED
    BY <1>1, <1>2, <2>1
<1> QED
  BY <1>1, <1>2, <1>3, <1>4

LEMMA TracksNext ==
    ASSUME "overflow" \notin Faults, "late_retry" \notin Faults, "blind" \notin Faults,
           TypeOK, Tracks, [Next]_vars
    PROVE  Tracks'
<1> USE DEF Tracks, Applying, Monitoring, Newest
<1>1. ASSUME NEW p \in Presentations, SetPresentation(p) PROVE Tracks'
  <2>1. presCh' # <<>> /\ presCh'[Len(presCh')] = p /\ pres' = p
    BY <1>1, QueueSent DEF SetPresentation
  <2>2. UNCHANGED <<pc, arg, mode, then, due, want, ok, status, ctx, huddle, camera>>
    BY <1>1 DEF SetPresentation, outside, page, apply, monitor, timers
  <2> QED
    BY <2>1, <2>2
<1>2. CASE SelectChoice
  <2>1. presCh # <<>> /\ presCh' = Tail(presCh) /\ UNCHANGED pres
    BY <1>2 DEF SelectChoice
  <2>2. pc' = "mode" /\ arg' = Head(presCh) /\ then' = "check"
    BY <1>2 DEF SelectChoice, Applies
  <2> QED
    BY <2>1, <2>2, QueueTaken
<1>3. CASE Cancel \/ SourceTurns \/ OthersTurn \/ ShareEnds \/ Dropped \/ AloneForLong \/ UNCHANGED vars
  <2>1. UNCHANGED <<pc, arg, mode, then, want, ok, due, status, pres, presCh>>
    BY <1>3 DEF Cancel, SourceTurns, OthersTurn, ShareEnds, Dropped, AloneForLong, vars, user,
                outside, page, apply, monitor, timers
  <2>2. \/ UNCHANGED <<ctx, huddle, camera>>
        \/ ctx' = TRUE
        \/ huddle' = FALSE
    BY <1>3 DEF Cancel, SourceTurns, OthersTurn, ShareEnds, Dropped, AloneForLong, vars, outside, page
  <2> QED
    BY <2>1, <2>2
<1>4. CASE RetryDue
  <2>1. pc # "reshare" /\ ~(Applying /\ then = "reshare")
    BY <1>4 DEF RetryDue, Fails
  <2>2. UNCHANGED <<pc, arg, mode, then, want, ok, status, ctx, huddle, camera, pres, presCh>>
    BY <1>4 DEF RetryDue, user, outside, page, apply, monitor
  <2> QED
    BY <2>1, <2>2
<1>5. ASSUME pc' \notin {"mode", "share", "camera", "select", "check", "source", "reshare", "alone"},
             UNCHANGED <<pres, presCh>>
      PROVE  Tracks'
  BY <1>5
<1>6. CASE Begin \/ Launch \/ Open \/ Join \/ SelectDone \/ Away \/ Ended \/ BackoffDone
  <2>1. UNCHANGED <<pres, presCh>>
    BY <1>6 DEF Begin, Launch, Open, Join, SelectDone, Away, Ended, BackoffDone, user
  <2>2. pc' \in {"launch", "open", "join", "settle", "ended", "backoff", "returned"}
    BY <1>6 DEF Begin, Launch, Open, Join, SelectDone, Away, Ended, BackoffDone, Returns
  <2> QED
    BY <2>1, <2>2, <1>5
<1>7. CASE Settle
  BY <1>7 DEF Settle, Applies, Latest, user
<1>8. CASE ApplyMode
  BY <1>8 DEF ApplyMode, Applied, Outcome, CallFails, TypeOK, user, outside, apply, monitor, timers
<1>9. CASE ApplyShare
  BY <1>9 DEF ApplyShare, user, outside, monitor, timers
<1>10. CASE ApplyCamera
  <2>1. /\ pc = "camera" /\ pc' = then /\ then \in {"select", "check", "reshare"}
        /\ UNCHANGED <<pres, presCh, ctx, huddle, mode, want, ok, due>>
    BY <1>10 DEF ApplyCamera, Applied, TypeOK, user, outside, monitor, timers
  <2>2. status' = "joined" \/ (status' = "streaming" /\ (~ctx => (camera' <=> arg # "screen")))
    BY <1>10 DEF ApplyCamera, Applied, Outcome, Fails, TypeOK
  <2> QED
    BY <2>1, <2>2
<1>11. CASE SelectTick
  BY <1>11 DEF SelectTick, user, outside, page, apply, monitor, timers
<1>12. CASE Check
  <2>1. UNCHANGED <<pres, presCh>>
    BY <1>12 DEF Check, user
  <2>2. CASE \E e : Returns(e)
    BY <2>1, <2>2, <1>5 DEF Returns
  <2>3. CASE want' = pres /\ pc = "check" /\ pc' = "source" /\ UNCHANGED <<page, status, ctx>>
    BY <2>1, <2>3 DEF page
  <2> QED
    BY <1>12, <2>2, <2>3 DEF Check, outside
<1>13. CASE CheckSource
  BY <1>13 DEF CheckSource, Applies, user, outside, page, monitor, apply
<1>14. CASE Reshare
  <2>1. /\ pc = "reshare" /\ pc' = "alone"
        /\ UNCHANGED <<pres, presCh, ctx, huddle, mode, camera>>
    BY <1>14 DEF Reshare, user, outside
  <2>2. \/ UNCHANGED status \/ status' = "joined"
        \/ status' = "streaming" /\ ok /\ due
    BY <1>14 DEF Reshare, ShareLost
  <2> QED
    BY <2>1, <2>2
<1>15. CASE CheckAlone
  BY <1>15 DEF CheckAlone, user, outside, apply, monitor
<1> QED
  BY <1>1, <1>2, <1>3, <1>4, <1>6, <1>7, <1>8, <1>9, <1>10, <1>11, <1>12, <1>13, <1>14, <1>15
     DEF Next, Steps

(* When the channel never overflows, a retry of the share alone does not   *)
(* overtake that of everything, and the camera's button is not missed when *)
(* the camera is to be turned off, a worker that says it is streaming      *)
(* shows what was chosen last: what failed was reported, what was applied  *)
(* was the newest choice there was.                                        *)
THEOREM StreamingIsChosenHolds ==
    ASSUME "overflow" \notin Faults, "late_retry" \notin Faults, "blind" \notin Faults
    PROVE  Spec => []StreamingIsChosen
<1>1. Init => Tracks
  BY DEF Init, Tracks, Applying, Monitoring
<1>2. TypeOK /\ Tracks /\ [Next]_vars => Tracks'
  BY TracksNext
<1>3. Tracks => StreamingIsChosen
  BY DEF Tracks, Monitoring, StreamingIsChosen
<1> QED
  BY <1>1, <1>2, <1>3, WorkerTypeCorrect, PTL DEF Spec
=============================================================================
