----------------------------- MODULE RoomEngine -----------------------------
(***************************************************************************)
(* The three engines that work in rounds and have no choice to apply:      *)
(*   "target"    casts into a huddle: internal/huddle/chime_target.go,     *)
(*   "listener"  mirrors a huddle: internal/huddle/mirror/chime.go,        *)
(*   "mirror"    does so in Slack's own page: .../mirror/mirror.go.        *)
(* The first two ask Slack to join the huddle through the rooms client     *)
(* (internal/slackrooms/client.go), have a page of this program's own join *)
(* its meeting, and keep asking whether the huddle has ended.  The third   *)
(* drives Slack's page and keeps looking whether it is still in there.     *)
(*                                                                         *)
(* The rooms client keeps its token for 45 minutes, whatever Slack says of *)
(* it; a logged-out account gets no token.                                 *)
(*                                                                         *)
(* Left out: screenshots, statistics, how long waits are, the microphone   *)
(* the mirror keeps muted (its shim hands out silence anyway), and engines *)
(* configured without Slack's host or the page's address.                  *)
(***************************************************************************)
EXTENDS Naturals

CONSTANTS
    Kinds,      \* the engines configured: some of the three
    MaxFaults,  \* bound: failures of page, network and Slack
    Faults      \* rarer events that may happen; see the actions

ASSUME KindsAssumption == Kinds \subseteq {"target", "listener", "mirror"}
ASSUME BoundAssumption == MaxFaults \in Nat

VARIABLES
    kind,       \* which engine this is
    ctx,        \* is its context cancelled
    cookie,     \* does Slack accept the account's cookie
    token,      \* the client's token: "none", "good" or one Slack "refused"
    left,       \* runs a Chrome it started and has no connection to
    browser,    \* is there a browser it is connected to
    huddle,     \* the huddle joined in this round: "none", "on", "ended", or
                \* "dropped": it goes on without the engine
    page,       \* state.status of the page
    infoDue,    \* is lastInfo 10 seconds ago
    pc,         \* where the engine is
    status,     \* snap.Status, what the manager is told
    err,        \* what runOnce returned
    faults      \* failures so far

world == <<kind, ctx, cookie, left>>
round == <<token, browser, huddle, page, infoDue>>
vars == <<world, round, pc, status, err, faults>>

(* Does it use the rooms client? *)
InRooms == kind # "mirror"

Places == {"start", "room", "launch", "open", "join", "settle", "select", "check",
           "report", "info", "ended", "backoff", "returned"}

(* Between two rounds: no client, no browser, no huddle. *)
Idle == {"start", "room", "ended", "backoff", "returned"}

(* Looking at the page. *)
Looking == {"select", "check", "report", "info"}

Typed ==
    /\ kind \in Kinds /\ ctx \in BOOLEAN /\ cookie \in BOOLEAN /\ left \in BOOLEAN
    /\ token \in {"none", "good", "refused"} /\ browser \in BOOLEAN
    /\ huddle \in {"none", "on", "ended", "dropped"}
    /\ page \in {"starting", "live", "error"} /\ infoDue \in BOOLEAN
    /\ pc \in Places
    /\ status \in {"pending", "launching", "joining", "joined", "streaming",
                   "needs_reauth", "error", "stopped"}
    /\ err \in {"none", "login", "other"} /\ faults \in 0 .. MaxFaults

Placed ==
    /\ (pc \in Idle => token = "none" /\ huddle = "none")
    /\ (pc \in Idle \cup {"launch"} => ~browser)
    /\ (pc \in Looking \cup {"open", "join", "settle"} => browser)
    /\ (pc \in Looking \cup {"settle"} => huddle # "none")
    /\ (pc \in {"launch", "open"} /\ InRooms => huddle # "none")
    /\ (token # "none" => InRooms)

TypeOK == Typed /\ Placed

Init ==
    /\ kind \in Kinds /\ ctx = FALSE /\ cookie = TRUE /\ left = FALSE
    /\ token = "none" /\ browser = FALSE /\ huddle = "none"
    /\ page = "starting" /\ infoDue = TRUE
    /\ pc = "start" /\ status = "pending" /\ err = "none" /\ faults = 0

Fails(what) == what \in Faults

(* A call on the page or to Slack fails, for now. *)
Fault == faults < MaxFaults /\ faults' = faults + 1

(* It fails because the context is cancelled, or by itself. *)
CallFails == (ctx /\ UNCHANGED faults) \/ Fault

-----------------------------------------------------------------------------
(* The manager, Slack and the page. *)
Cancel ==
    /\ ~ctx /\ ctx' = TRUE
    /\ UNCHANGED <<kind, cookie, left, round, pc, status, err, faults>>

(* Slack logs the account out, for good: the engine keeps the cookie it was *)
(* made with.  What Slack's page shows then is its sign-in page.           *)
LogOut ==
    /\ cookie /\ cookie' = FALSE
    /\ token' = IF token = "good" THEN "refused" ELSE token
    /\ UNCHANGED <<kind, ctx, left, browser, huddle, page, infoDue, pc, status, err, faults>>

(* Slack wants a new token, which the cookie still gets. *)
Revoke ==
    /\ token = "good" /\ Fault /\ token' = "refused"
    /\ UNCHANGED <<world, browser, huddle, page, infoDue, pc, status, err>>

(* Everybody leaves and the huddle ends. *)
HuddleEnds ==
    /\ huddle = "on" /\ Fault /\ huddle' = "ended"
    /\ UNCHANGED <<world, token, browser, page, infoDue, pc, status, err>>

(* Slack drops the account from the huddle.  "drop": Chime drops the page. *)
Dropped ==
    /\ huddle = "on" /\ Fault /\ huddle' = "dropped"
    /\ InRooms => Fails("drop")
    /\ UNCHANGED <<world, token, browser, page, infoDue, pc, status, err>>

PageTurns ==
    /\ pc \in Looking
    /\ page' \in {"starting", "live", "error"} \ {page}
    /\ UNCHANGED <<world, token, browser, huddle, infoDue, pc, status, err, faults>>

-----------------------------------------------------------------------------
(* Faulty: a refused token is kept until a new client is made. *)
Kept == FALSE

(* The token in the client is 45 minutes old: as good as none. *)
Old == token # "none"

TokenExpires ==
    /\ Old /\ token' = "none"
    /\ UNCHANGED <<world, browser, huddle, page, infoDue, pc, status, err, faults>>

(* The token a call is made with, and that the client has afterwards. *)
Token == IF token = "none" /\ cookie THEN "good" ELSE token

(* Slack does what a good token asks. *)
Answered(t) == t = "good"

(* decode: what becomes of a refusal.  "wording": of one that is not put in *)
(* the words it knows, or a sign-in page that does not look like one.      *)
Refusals == IF Fails("wording") THEN {"login", "other"} ELSE {"login"}

InfoDue ==
    /\ ~infoDue /\ infoDue' = TRUE
    /\ UNCHANGED <<world, token, browser, huddle, page, pc, status, err, faults>>

-----------------------------------------------------------------------------
(* setStatus, which also calls the manager back. *)
SetStatus(s) == status' = s

(* Faulty: a client that outlives the round. *)
OldClient == token

(* Each round makes a client of its own. *)
NewClient == "none"

(* Faulty: a browser that is left open. *)
LeftOpen == browser

(* The deferred b.Close() ends its browser. *)
Closed == FALSE

(* runOnce returns e.  What only a round has is gone. *)
Returns(e) ==
    /\ err' = e /\ pc' = "ended"
    /\ token' = NewClient /\ browser' = Closed
    /\ huddle' = "none" /\ page' = "starting" /\ infoDue' = TRUE
    /\ UNCHANGED status

(* A round of Run's loop begins, the first one or after the wait. *)
Begin ==
    /\ pc \in {"start", "backoff"}
    /\ pc' = IF InRooms THEN "room" ELSE "launch"
    /\ SetStatus("launching")
    /\ UNCHANGED <<world, round, err, faults>>

(* rooms.join: the account is in the huddle's meeting before a browser is. *)
JoinRoom ==
    /\ pc = "room"
    /\ \/ /\ ~ctx /\ Answered(Token) /\ token' = Token /\ huddle' = "on" /\ pc' = "launch"
          /\ UNCHANGED <<browser, page, infoDue, status, err, faults>>
       \/ ~ctx /\ ~Answered(Token) /\ (\E e \in Refusals : Returns(e)) /\ UNCHANGED faults
       \/ CallFails /\ \E e \in {"login", "other"} : Returns(e)
    /\ UNCHANGED world

(* browser.Launch starts Chrome, cancelled or not, and connects to it if   *)
(* not cancelled; when that fails nobody ends the Chrome.  Only "target"   *)
(* reports that it opens its page.                                         *)
Launch ==
    /\ pc = "launch"
    /\ \/ /\ ~ctx /\ browser' = TRUE /\ pc' = "open"
          /\ SetStatus(IF kind = "target" THEN "joining" ELSE status)
          /\ UNCHANGED <<left, token, huddle, page, infoDue, err, faults>>
       \/ Fault /\ Returns("other") /\ UNCHANGED left
       \/ CallFails /\ Returns("other") /\ left' = TRUE
    /\ UNCHANGED <<kind, ctx, cookie>>

(* The page of this program: it joins the meeting by itself. *)
OpenPage ==
    /\ pc = "open" /\ InRooms
    /\ \/ /\ ~ctx /\ pc' = "select"
          /\ SetStatus(IF kind = "listener" THEN "joined" ELSE status)
          /\ UNCHANGED <<round, err, faults>>
       \/ CallFails /\ Returns("other")
    /\ UNCHANGED world

(* Slack's page. *)
OpenSlack ==
    /\ pc = "open" /\ ~InRooms
    /\ \/ ~ctx /\ cookie /\ pc' = "join" /\ SetStatus("joining") /\ UNCHANGED <<round, err, faults>>
       \/ ~ctx /\ ~cookie /\ Returns("login") /\ UNCHANGED faults
       \/ CallFails /\ Returns("other")
    /\ UNCHANGED world

(* Its join button; being denied access is another error. *)
Join ==
    /\ pc = "join"
    /\ \/ /\ ~ctx /\ huddle' = "on" /\ pc' = "settle" /\ SetStatus("joined")
          /\ UNCHANGED <<token, browser, page, infoDue, err, faults>>
       \/ ~ctx /\ ~cookie /\ Returns("login") /\ UNCHANGED faults
       \/ CallFails /\ Returns("other")
    /\ UNCHANGED world

(* Two seconds later the page gets the script that publishes the picture. *)
Settle ==
    /\ pc = "settle"
    /\ \/ ~ctx /\ pc' = "select" /\ UNCHANGED <<round, status, err, faults>>
       \/ CallFails /\ Returns("other")
    /\ UNCHANGED world

-----------------------------------------------------------------------------
(* The loop: cancelled (Leave finds no button any more), or a tick. *)
SelectDone ==
    /\ pc = "select" /\ ctx /\ Returns("none")
    /\ UNCHANGED <<world, faults>>

SelectTick ==
    /\ pc = "select" /\ pc' = IF InRooms THEN "report" ELSE "check"
    /\ UNCHANGED <<world, round, status, err, faults>>

(* Slack's page shows no join button, and shows one to leave. *)
InHuddle == huddle = "on"

(* Still logged in and in the huddle? *)
Check ==
    /\ pc = "check"
    /\ \/ CallFails /\ Returns("other")
       \/ ~ctx /\ ~cookie /\ Returns("login") /\ UNCHANGED faults
       \/ ~ctx /\ cookie /\ ~InHuddle /\ Returns("other") /\ UNCHANGED faults
       \/ ~ctx /\ cookie /\ InHuddle /\ pc' = "report" /\ UNCHANGED <<round, status, err, faults>>
    /\ UNCHANGED world

(* What each engine makes of the page's status. *)
TargetStatus == IF page = "live" THEN "streaming" ELSE "joined"

MirrorStatus == CASE page = "live" -> "streaming"
                  [] page = "error" -> "joined"
                  [] OTHER -> status

(* A page that does not answer changes nothing. *)
Report ==
    /\ pc = "report" /\ pc' = IF InRooms THEN "info" ELSE "select"
    /\ \/ ~ctx /\ SetStatus(IF kind = "target" THEN TargetStatus ELSE MirrorStatus) /\ UNCHANGED faults
       \/ CallFails /\ UNCHANGED status
    /\ UNCHANGED <<world, round, err>>

(* Every 10 seconds: has the huddle ended?  Any failure counts as "no". *)
AskInfo ==
    /\ pc = "info"
    /\ \/ ~infoDue /\ pc' = "select" /\ UNCHANGED <<round, status, err, faults>>
       \/ /\ infoDue /\ ~ctx /\ Answered(Token) /\ huddle = "ended"
          /\ Returns("other") /\ UNCHANGED faults
       \/ /\ infoDue /\ infoDue' = FALSE /\ pc' = "select"
          /\ \/ ~ctx /\ (Answered(Token) => huddle # "ended") /\ token' = Token /\ UNCHANGED faults
             \/ CallFails /\ token' \in {token, Token}
          /\ UNCHANGED <<browser, huddle, page, status, err>>
    /\ UNCHANGED world

-----------------------------------------------------------------------------
(* Faulty: errors that wrap another are not recognised. *)
Unrecognised(e) == "error"

(* The status a failed round ends with. *)
Failure(e) == IF e = "login" THEN "needs_reauth" ELSE "error"

(* Run, after runOnce; then it waits, for longer each time. *)
Ended ==
    /\ pc = "ended"
    /\ IF ctx THEN pc' = "returned" /\ SetStatus("stopped")
       ELSE pc' = "backoff" /\ SetStatus(IF err = "none" THEN status ELSE Failure(err))
    /\ err' = "none"
    /\ UNCHANGED <<world, round, faults>>

BackoffDone ==
    /\ pc = "backoff" /\ ctx
    /\ pc' = "returned" /\ SetStatus("stopped")
    /\ UNCHANGED <<world, round, err, faults>>

-----------------------------------------------------------------------------
(* A round of each engine. *)
TargetRound ==
    kind = "target" /\ (JoinRoom \/ Launch \/ OpenPage \/ SelectTick \/ Report \/ AskInfo)

ListenerRound ==
    kind = "listener" /\ (JoinRoom \/ Launch \/ OpenPage \/ SelectTick \/ Report \/ AskInfo)

MirrorRound ==
    kind = "mirror" /\ (Launch \/ OpenSlack \/ Join \/ Settle \/ SelectTick \/ Check \/ Report)

Steps == TargetRound \/ ListenerRound \/ MirrorRound \/ Begin \/ Ended \/ BackoffDone

Next ==
    \/ Cancel \/ LogOut \/ Revoke \/ HuddleEnds \/ Dropped \/ PageTurns
    \/ TokenExpires \/ InfoDue
    \/ Steps \/ SelectDone

Spec == Init /\ [][Next]_vars

(***************************************************************************)
(* Fairness.  Every call has a timeout and every wait an end; between ticks *)
(* select has time to see the cancellation; tokens age and 10 seconds pass. *)
(***************************************************************************)
Fairness ==
    /\ WF_vars(Steps) /\ SF_vars(SelectDone)
    /\ WF_vars(TokenExpires) /\ WF_vars(InfoDue)

FairSpec == Spec /\ Fairness
=============================================================================
