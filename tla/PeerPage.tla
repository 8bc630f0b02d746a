------------------------------ MODULE PeerPage ------------------------------
(***************************************************************************)
(* The scripts that keep one RTCPeerConnection to mediamtx open:           *)
(*   "shim"      pulls the source into Slack's page: browser/inject,       *)
(*   "mirror"    publishes Slack's huddle: huddle/mirror/mirror.js,        *)
(*   "receive"   publishes the meeting this program's own page is in:      *)
(*               runReceive of web/static/chime/chime.js.                  *)
(* Each has an asynchronous function, connectWHEP or publish, that closes  *)
(* the connection in the global pc, makes another, and offers it to        *)
(* mediamtx.  A call of it is a frame here.  After each await a frame      *)
(* goes on with whatever pc holds then, which another frame may have       *)
(* replaced.  A connection that fails, or a frame that does, sets the one  *)
(* timer, whose end calls the function again.                              *)
(*                                                                         *)
(* The browser's part is what WebRTC lays down: an operation on a          *)
(* connection that is closed meanwhile fails or never ends, an answer is   *)
(* accepted once by a connection that made an offer, and connects only the *)
(* connection whose offer was answered.                                    *)
(*                                                                         *)
(* Left out: drawing and mixing, and the scripts configured without an     *)
(* address to go to.                                                       *)
(***************************************************************************)
EXTENDS Naturals, FiniteSets

CONSTANTS
    Kinds,      \* the scripts: some of the three
    Frames,     \* bound: calls of the function that overlap
    Conns,      \* bound: connections something still refers to
    NoConn,     \* null
    Tiles,      \* videos of the meeting
    Listed,     \* those of somebody on the whitelist
    Content,    \* those that are a shared screen
    NoTile,     \* null
    Longest,    \* the doublings of the timer's delay, from 1 to 15 s
    MaxFaults   \* bound: what goes wrong, and meetings that are rejoined

ASSUME KindsAssumption == Kinds \subseteq {"shim", "mirror", "receive"}
ASSUME NullAssumption == NoConn \notin Conns /\ NoTile \notin Tiles
ASSUME BoundAssumption == Longest \in Nat /\ MaxFaults \in Nat

VARIABLES
    kind,      \* which script this is
    up,        \* can mediamtx serve it: is the source there, is the path free
    conn,      \* conn[c]: how far connection c is
    current,   \* pc, the global
    frame,     \* frame[f]: a call of connectWHEP or publish
    timer,     \* reconnectTimer is set
    backoff,   \* how often its delay was doubled
    status,    \* state.status
    succeeded, \* whepConnects, or publishes, is not 0
    video,     \* the connection whose stream is video.srcObject
    audio,     \* the one whose sound audioSourceNode carries
    painted,   \* lastFrameAt is not 0
    meeting,   \* the meeting: "out", "in", or "stopped"
    tiles,     \* the videos it has
    bound,     \* boundTileId
    faults     \* how much went wrong so far

wire == <<conn, current, frame, timer, backoff, status, succeeded>>
player == <<video, audio, painted>>
room == <<meeting, tiles, bound>>
vars == <<kind, up, wire, player, room, faults>>

(***************************************************************************)
(* "void" is a connection whose answer cannot connect it, or that mediamtx *)
(* is about to drop; "disconnected" and "failed" are its own end of it.    *)
(***************************************************************************)
States == {"new", "offered", "answered", "void", "connected", "disconnected",
           "failed", "closed"}

(* Where a frame awaits: createOffer and setLocalDescription, waitIce,     *)
(* fetch before and after mediamtx answered, res.text, setRemoteDescription, *)
(* play.                                                                   *)
Awaits == {"offer", "gather", "fetch", "reply", "text", "accept", "play"}

(* own: the connection it made, or means to give the answer it is reading; *)
(* body: the one whose offer it posted, or which it gave an answer; good:  *)
(* is the session it was answered with still mediamtx's.                   *)
NoFrame == [at |-> "none", own |-> NoConn, body |-> NoConn, good |-> FALSE]

Frame == [at : Awaits \cup {"none"}, own : Conns \cup {NoConn},
          body : Conns \cup {NoConn}, good : BOOLEAN]

TypeOK ==
    /\ kind \in Kinds /\ up \in BOOLEAN
    /\ conn \in [Conns -> States] /\ current \in Conns \cup {NoConn}
    /\ frame \in [Frames -> Frame]
    /\ backoff \in 0 .. Longest
    /\ timer \in BOOLEAN /\ succeeded \in BOOLEAN /\ painted \in BOOLEAN
    /\ status \in {"init", "connecting", "reconnecting", "joined", "live", "error"}
    /\ video \in Conns \cup {NoConn} /\ audio \in Conns \cup {NoConn}
    /\ meeting \in {"out", "in", "stopped"}
    /\ tiles \subseteq Tiles /\ bound \in Tiles \cup {NoTile}
    /\ faults \in 0 .. MaxFaults

Init ==
    /\ kind \in Kinds /\ up = TRUE
    /\ conn = [c \in Conns |-> "closed"] /\ current = NoConn
    /\ frame = [f \in Frames |-> NoFrame]
    /\ timer = FALSE /\ backoff = 0 /\ status = "init" /\ succeeded = FALSE
    /\ video = NoConn /\ audio = NoConn /\ painted = FALSE
    /\ meeting = "out" /\ tiles = {} /\ bound = NoTile
    /\ faults = 0

Fault == faults < MaxFaults /\ faults' = faults + 1

Publishes == kind # "shim"

(* Everything that still refers to a connection. *)
Held == {current, video, audio} \cup {frame[f].own : f \in Frames}
            \cup {frame[f].body : f \in Frames}

NewConn == CHOOSE c \in Conns : c \notin Held

(* close() on a connection; nothing happens to no connection. *)
Closed(c) == [d \in Conns |-> IF d = c THEN "closed" ELSE conn[d]]

Goes(f, place) == frame' = [frame EXCEPT ![f].at = place]
-----------------------------------------------------------------------------
(***************************************************************************)
(* The function up to its first await.                                     *)
(***************************************************************************)
Open(f) ==
    /\ frame[f] = NoFrame
    /\ ~(Conns \subseteq Held)
    /\ conn' = [Closed(current) EXCEPT ![NewConn] = "new"]
    /\ current' = NewConn
    /\ frame' = [frame EXCEPT ![f] = [NoFrame EXCEPT !.at = "offer", !.own = NewConn]]
    /\ status' = IF succeeded THEN "reconnecting" ELSE "connecting"
    /\ UNCHANGED succeeded

(* The shim and the mirror call it when they are installed, ... *)
Install(f) ==
    /\ status = "init" /\ kind # "receive"
    /\ Open(f)
    /\ UNCHANGED <<kind, up, timer, backoff, player, room, faults>>

(* reconnectTimer once it went off. *)
TimerGone == FALSE

(* ... and all of them when the timer ends, whether an attempt is under    *)
(* way or not.                                                             *)
Timer(f) ==
    /\ timer /\ timer' = TimerGone
    /\ Open(f)
    /\ UNCHANGED <<kind, up, backoff, player, room, faults>>

(* Faulty: only a page that is at work looks for a connection. *)
WhileLive == timer \/ status = "live"

(* There is one timer. *)
Scheduled == TRUE

(* Faulty: it is doubled without end. *)
EndlessDelay == backoff + 1

(* The delay of the timer after the one that is set now. *)
NextDelay == IF backoff < Longest THEN backoff + 1 ELSE Longest

(* scheduleReconnect(). *)
Schedule ==
    /\ timer' = Scheduled
    /\ backoff' = IF timer THEN backoff ELSE NextDelay

(* The catch clause. *)
Catch(f) ==
    /\ frame' = [frame EXCEPT ![f] = NoFrame]
    /\ status' = "error" /\ Schedule
    /\ UNCHANGED <<conn, current, succeeded, player>>

(* A promise of a connection that was closed is rejected, or never settles. *)
Abandoned(f) ==
    /\ \/ frame[f].at = "offer" /\ conn[frame[f].own] = "closed"
       \/ frame[f].at = "accept" /\ conn[frame[f].body] = "closed"
    /\ \/ Catch(f)
       \/ frame' = [frame EXCEPT ![f] = NoFrame] /\ UNCHANGED <<conn, current, timer,
                                                  backoff, status, succeeded, player>>
    /\ UNCHANGED <<kind, up, room, faults>>

Offered(f) ==
    LET c == frame[f].own IN
    /\ frame[f].at = "offer" /\ conn[c] = "new"
    /\ conn' = [conn EXCEPT ![c] = "offered"]
    /\ Goes(f, "gather")
    /\ UNCHANGED <<kind, up, current, timer, backoff, status, succeeded, player, room, faults>>

(* waitIce is over: the offer of pc is posted, which one that another frame *)
(* has just made does not have yet.                                        *)
Gathered(f) ==
    /\ frame[f].at = "gather"
    /\ \/ /\ conn[current] = "new"
          /\ Catch(f)
       \/ /\ conn[current] # "new"
          /\ frame' = [frame EXCEPT ![f].at = "fetch", ![f].body = current]
          /\ UNCHANGED <<conn, current, timer, backoff, status, succeeded, player>>
    /\ UNCHANGED <<kind, up, room, faults>>

(* Connections mediamtx drops: of a path it no longer serves, or, as its   *)
(* paths have one publisher, of the one before.                            *)
Dropped == [c \in Conns |-> IF conn[c] \in {"answered", "connected"} THEN "void" ELSE conn[c]]
DroppedReplies == [f \in Frames |-> [frame[f] EXCEPT !.good = FALSE]]

Serve(f) ==
    /\ frame[f].at = "fetch" /\ up
    /\ conn' = IF Publishes THEN Dropped ELSE conn
    /\ frame' = [IF Publishes THEN DroppedReplies ELSE frame
                    EXCEPT ![f].at = "reply", ![f].good = TRUE]
    /\ UNCHANGED <<kind, up, current, timer, backoff, status, succeeded, player, room, faults>>

(* No source, a path that is taken, or no answer, or not all of it. *)
Refuse(f) ==
    /\ \/ frame[f].at = "fetch" /\ ~up /\ UNCHANGED faults
       \/ frame[f].at \in {"fetch", "reply", "text"} /\ Fault
    /\ Catch(f)
    /\ UNCHANGED <<kind, up, room>>

(* A publisher picks the connection for the answer before it reads that:   *)
(* pc is evaluated before `await res.text()` in the call's argument.       *)
Read(f) ==
    /\ Publishes /\ frame[f].at = "reply"
    /\ frame' = [frame EXCEPT ![f].at = "text", ![f].own = current]
    /\ UNCHANGED <<kind, up, conn, current, timer, backoff, status, succeeded, player, room, faults>>

(* The answer is given to that one, by the shim to what pc is now; it is   *)
(* taken by a connection that made an offer.                               *)
Reply(f) ==
    LET r == frame[f]
        c == IF Publishes THEN r.own ELSE current
    IN
    /\ r.at = IF Publishes THEN "text" ELSE "reply"
    /\ \/ /\ conn[c] # "offered"
          /\ Catch(f)
       \/ /\ conn[c] = "offered"
          /\ conn' = [conn EXCEPT ![c] = IF r.body = c /\ r.good THEN "answered" ELSE "void"]
          /\ frame' = [frame EXCEPT ![f] = [r EXCEPT !.at = "accept", !.body = c, !.good = FALSE]]
          /\ UNCHANGED <<current, timer, backoff, status, succeeded, player>>
    /\ UNCHANGED <<kind, up, room, faults>>

(* Faulty: the node of an earlier connection is kept. *)
FirstWired(c) == IF audio = NoConn THEN c ELSE audio

(* The sound of a frame's stream replaces what was there. *)
Wired(c) == c

(* Faulty: only a first connection makes the page live.                    *)
FirstLive ==
    /\ status' = (IF succeeded THEN status ELSE "live") /\ succeeded' = TRUE
    /\ backoff' = 0

Live == status' = "live" /\ succeeded' = TRUE /\ backoff' = 0

(***************************************************************************)
(* setRemoteDescription is done.  A publisher is live.  The shim plays the *)
(* stream its frame made; a play() another frame awaits is rejected by     *)
(* that, which the code ignores, so that frame ends at once: it wires its  *)
(* own sound and calls itself live.                                        *)
(***************************************************************************)
Accepted(f) ==
    LET r == frame[f]
        playing == {g \in Frames : frame[g].at = "play"}
    IN
    /\ r.at = "accept" /\ conn[r.body] # "closed"
    /\ \/ /\ Publishes
          /\ frame' = [frame EXCEPT ![f] = NoFrame]
          /\ Live
          /\ UNCHANGED player
       \/ /\ ~Publishes
          /\ frame' = [g \in Frames |->
                          CASE g = f -> [r EXCEPT !.at = "play", !.body = NoConn]
                            [] g \in playing -> NoFrame
                            [] OTHER -> frame[g]]
          /\ video' = r.own
          /\ \/ playing = {} /\ UNCHANGED <<audio, backoff, status, succeeded>>
             \/ \E g \in playing : audio' = Wired(frame[g].own) /\ Live
          /\ UNCHANGED painted
    /\ UNCHANGED <<kind, up, conn, current, timer, room, faults>>

(* play() is done once the stream carries something. *)
Played(f) ==
    LET c == frame[f].own IN
    /\ frame[f].at = "play" /\ conn[c] = "connected"
    /\ frame' = [frame EXCEPT ![f] = NoFrame]
    /\ audio' = Wired(c) /\ Live
    /\ UNCHANGED <<kind, up, conn, current, timer, video, painted, room, faults>>
-----------------------------------------------------------------------------
(***************************************************************************)
(* The connection and mediamtx.  onconnectionstatechange looks at the      *)
(* global pc; close() does not call it, so it is only called for pc.       *)
(***************************************************************************)
Connected ==
    /\ current # NoConn /\ conn[current] \in {"answered", "disconnected"}
    /\ conn' = [conn EXCEPT ![current] = "connected"]
    /\ UNCHANGED <<kind, up, current, frame, timer, backoff, status, succeeded, player, room, faults>>

Lost ==
    /\ current # NoConn
    /\ \E end \in {"disconnected", "failed"} :
           /\ \/ conn[current] = "void" /\ end = "failed" /\ UNCHANGED faults
              \/ conn[current] \in {"answered", "connected"} /\ Fault
              \/ conn[current] = "disconnected" /\ end = "failed" /\ UNCHANGED faults
           /\ end = "disconnected" => conn[current] = "connected"
           /\ conn' = [conn EXCEPT ![current] = end]
    /\ Schedule
    /\ UNCHANGED <<kind, up, current, frame, status, succeeded, player, room>>

(* The source goes, or mediamtx; whatever it served goes with it. *)
Down ==
    /\ up /\ up' = FALSE /\ Fault
    /\ conn' = Dropped /\ frame' = DroppedReplies
    /\ UNCHANGED <<kind, current, timer, backoff, status, succeeded, player, room>>

Up ==
    /\ ~up /\ up' = TRUE
    /\ UNCHANGED <<kind, wire, player, room, faults>>
-----------------------------------------------------------------------------
(* The shim draws what the video element shows: the last picture stays     *)
(* when a connection fails, until the connection is closed.                *)
HasPicture == video # NoConn /\ conn[video] \in {"connected", "void", "disconnected", "failed"}

Paint ==
    /\ kind = "shim" /\ ~painted /\ HasPicture
    /\ painted' = TRUE
    /\ UNCHANGED <<kind, up, wire, video, audio, room, faults>>

(* Nothing was drawn for 10 seconds though the status is live. *)
Watchdog ==
    /\ kind = "shim" /\ painted /\ status = "live" /\ ~HasPicture
    /\ status' = "reconnecting" /\ Schedule
    /\ UNCHANGED <<kind, up, conn, current, frame, succeeded, player, room, faults>>
-----------------------------------------------------------------------------
(***************************************************************************)
(* The meeting, in the receiving page.  It is called started again, with   *)
(* no word of a stop, whenever the SDK had to rejoin.                      *)
(***************************************************************************)
Start(f) ==
    /\ kind = "receive"
    /\ (meeting = "out" /\ UNCHANGED faults) \/ (meeting = "in" /\ Fault)
    /\ meeting' = "in"
    /\ Open(f)
    /\ UNCHANGED <<kind, up, timer, backoff, player, tiles, bound>>

Stop ==
    /\ meeting = "in" /\ Fault
    /\ meeting' = "stopped" /\ status' = "error"
    /\ UNCHANGED <<kind, up, conn, current, frame, timer, backoff, succeeded, player, tiles,
                   bound>>

(* userMatches; chooseTile, for the one configuration there is: kind "". *)
UserMatches(t) == t \in Listed

(* Faulty: whoever shares a screen is shown. *)
AnyScreen(t) == bound = t \/ (bound = NoTile /\ UserMatches(t)) \/ t \in Content

(* May tile t be bound: the bound one, again; the first of a listed user;  *)
(* or a listed user's screen, in place of another tile.                    *)
Chosen(t) == bound = t \/ (UserMatches(t) /\ (bound = NoTile \/ t \in Content))

(* videoTileDidUpdate: a tile is new, or changed. *)
TileUpdate(t) ==
    /\ meeting = "in"
    /\ tiles' = tiles \cup {t}
    /\ bound' = IF Chosen(t) THEN t ELSE bound
    /\ UNCHANGED <<kind, up, wire, player, meeting, faults>>

(* videoTileWasRemoved. *)
TileRemoved(t) ==
    /\ meeting = "in" /\ t \in tiles
    /\ tiles' = tiles \ {t}
    /\ bound' = IF bound = t THEN NoTile ELSE bound
    /\ UNCHANGED <<kind, up, wire, player, meeting, faults>>
-----------------------------------------------------------------------------
Step(f) == Abandoned(f) \/ Offered(f) \/ Gathered(f) \/ Serve(f) \/ Refuse(f)
               \/ Read(f) \/ Reply(f) \/ Accepted(f) \/ Played(f)

Next ==
    \/ \E f \in Frames : Install(f) \/ Timer(f) \/ Start(f) \/ Step(f)
    \/ Connected \/ Lost \/ Down \/ Up \/ Paint \/ Watchdog \/ Stop
    \/ \E t \in Tiles : TileUpdate(t) \/ TileRemoved(t)

Spec == Init /\ [][Next]_vars

(***************************************************************************)
(* Fairness: timers end, promises of open connections settle, mediamtx     *)
(* answers or refuses, ICE comes to an end.  Nothing is assumed of sources *)
(* that come back, nor of meetings.                                        *)
(***************************************************************************)
Fairness ==
    /\ \A f \in Frames : WF_vars(Step(f))
    /\ WF_vars(\E f \in Frames : Install(f))
    /\ WF_vars(\E f \in Frames : Timer(f))
    /\ WF_vars(Connected) /\ WF_vars(Lost /\ UNCHANGED faults)
    /\ WF_vars(Watchdog)

FairSpec == Spec /\ Fairness
=============================================================================
