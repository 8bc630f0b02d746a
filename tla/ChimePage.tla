------------------------------ MODULE ChimePage ------------------------------
(***************************************************************************)
(* The page that casts a source into a huddle: runSend of                  *)
(* internal/web/static/chime/chime.js.  It joins the huddle's meeting,     *)
(* shares one canvas in it for good, and draws on the canvas the source it *)
(* pulls from mediamtx, or a standby picture when there is none; the       *)
(* source's sound is the page's microphone.                                *)
(*                                                                         *)
(* JavaScript runs one task at a time, but an async function gives way at  *)
(* every await: here each stretch between two awaits is an action.  wire() *)
(* pulls the source, retrying for as long as it takes, and connects it;    *)
(* onDrop() goes to standby and wires anew; connection events and a        *)
(* watchdog that runs every 4 seconds call onDrop().                       *)
(*                                                                         *)
(* Left out: sizes, rates and counters, the sound's path through WebAudio, *)
(* and connections whose setup failed.  A source has a moving picture: of  *)
(* one without, the watchdog sees no bytes and drops it again and again.   *)
(***************************************************************************)
EXTENDS Naturals, FiniteSets

CONSTANTS
    Pulls,      \* bound: names of the WHEP connections open at once
    NoPull,
    Faults      \* what may happen; see the actions

ASSUME PullsAssumption == NoPull \notin Pulls

VARIABLES
    up,         \* does the source send
    conn,       \* conn[c]: the peer connection of pull c
    meeting,    \* the meeting session: "joining", "on" or "off"
    sharing,    \* audioVideoDidStart awaits startContentShare
    wire,       \* where wire() is: "none" unless the wiring flag is set
    current,    \* the source in use
    dropped,    \* the page's flag: no source is in use
    haveSource, \* does the canvas show srcVideo or the standby picture
    mic,        \* is the microphone unmuted
    listening,  \* connections whose state changes wire() listens to
    lastBytes,  \* how the watchdog's last sample compared
    stalls,     \* the samples in a row that had not grown
    watch,      \* the connection whose statistics the watchdog awaits
    status      \* state.status, what the engine reads

source == <<up, conn>>
script == <<wire, current, dropped, haveSource, mic, listening>>
watchdog == <<lastBytes, stalls, watch>>
vars == <<source, meeting, sharing, script, watchdog, status>>

TypeOK ==
    /\ up \in BOOLEAN
    /\ conn \in [Pulls -> {"unused", "flowing", "stalled", "failed", "closed"}]
    /\ meeting \in {"joining", "on", "off"}
    /\ sharing \in BOOLEAN
    /\ wire \in {"none", "pull", "audio"}
    /\ current \in Pulls \cup {NoPull}
    /\ dropped \in BOOLEAN /\ haveSource \in BOOLEAN /\ mic \in BOOLEAN
    /\ listening \subseteq Pulls
    /\ lastBytes \in {"unset", "moving", "still"}
    /\ stalls \in 0 .. 2
    /\ watch \in Pulls \cup {NoPull}
    /\ status \in {"joining", "joined", "live", "error"}

Init ==
    /\ up = FALSE
    /\ conn = [c \in Pulls |-> "unused"]
    /\ meeting = "joining" /\ sharing = FALSE
    /\ wire = "none" /\ current = NoPull
    /\ dropped = TRUE /\ haveSource = FALSE /\ mic = FALSE
    /\ listening = {}
    /\ lastBytes = "unset" /\ stalls = 0 /\ watch = NoPull
    /\ status = "joining"

Fails(what) == what \in Faults

-----------------------------------------------------------------------------
(* The source comes and goes; what is pulled from it goes still with it.   *)
SourceUp ==
    /\ ~up /\ up' = TRUE
    /\ UNCHANGED <<conn, meeting, sharing, script, watchdog, status>>

SourceDown ==
    /\ up /\ up' = FALSE
    /\ conn' = [c \in Pulls |-> IF conn[c] = "flowing" THEN "stalled" ELSE conn[c]]
    /\ UNCHANGED <<meeting, sharing, script, watchdog, status>>

(* The network holds the source up, and lets it through again. *)
Hiccup(c) ==
    /\ Fails("network") /\ up
    /\ \/ conn[c] = "flowing" /\ conn' = [conn EXCEPT ![c] = "stalled"]
       \/ conn[c] = "stalled" /\ conn' = [conn EXCEPT ![c] = "flowing"]
    /\ UNCHANGED <<up, meeting, sharing, script, watchdog, status>>

-----------------------------------------------------------------------------
(* Faulty: nobody wires anew. *)
NotWired == wire

(* wire() returns at once when another is under way. *)
Wired == IF wire = "none" THEN "pull" ELSE wire

(* Faulty: the state the engine reads stays as it was. *)
StatusKept == status

StatusOffline == "joined"

(* Faulty: the flag is looked at after it was set. *)
DroppedAlready == TRUE

IsDropped == dropped

(* Faulty: the sound of the lost source stays unmuted. *)
MicKept == mic

MicMuted == FALSE

(* onDrop, with the connections as they are in k: to standby, and wire.    *)
OnDrop(k) ==
    IF IsDropped THEN conn' = k /\ UNCHANGED <<script, status>>
    ELSE /\ dropped' = TRUE
         /\ haveSource' = FALSE
         /\ mic' = MicMuted
         /\ conn' = [c \in Pulls |-> IF c = current THEN "closed" ELSE k[c]]
         /\ current' = NoPull
         /\ status' = StatusOffline
         /\ wire' = Wired
         /\ UNCHANGED listening

(* Nothing that may drop the source comes between the arrival of a source  *)
(* and of its sound, unless startAudioInput is said to be slow.            *)
Interrupts == wire = "audio" => Fails("slow_audio")

(* The connection of a pull is given up, by mediamtx or by the network; if *)
(* wire() listens to it, the event's handler is onDrop.                    *)
ConnectionFails(c) ==
    LET k == [conn EXCEPT ![c] = "failed"]
    IN  /\ conn[c] = "stalled" \/ (conn[c] = "flowing" /\ Fails("network"))
        /\ c \in listening => Interrupts
        /\ IF c \in listening THEN OnDrop(k) ELSE conn' = k /\ UNCHANGED <<script, status>>
        /\ UNCHANGED <<up, meeting, sharing, watchdog>>

-----------------------------------------------------------------------------
(* audioVideoDidStart: when the meeting is joined, and again each time the *)
(* SDK reconnected by itself, wherever wire() is then.  One call of        *)
(* startContentShare is awaited at a time.                                 *)
DidStart ==
    /\ ~sharing
    /\ meeting = "joining" \/ (meeting = "on" /\ Fails("rejoin"))
    /\ meeting' = "on" /\ sharing' = TRUE /\ status' = "joined"
    /\ UNCHANGED <<source, script, watchdog>>

(* The canvas is shared, or could not be, which is only logged; wire(). *)
Shared ==
    /\ sharing /\ sharing' = FALSE
    /\ wire' = Wired
    /\ UNCHANGED <<source, meeting, current, dropped, haveSource, mic, listening, watchdog, status>>

(* audioVideoDidStop: the meeting is over for this page. *)
DidStop ==
    /\ Fails("stop") /\ meeting = "on"
    /\ meeting' = "off" /\ status' = "error"
    /\ UNCHANGED <<source, sharing, script, watchdog>>

(* pullWithRetry: an attempt fails, for want of a source or on the way to  *)
(* it, and there will be another.                                          *)
PullFails ==
    /\ wire = "pull" /\ (~up \/ Fails("network"))
    /\ status' = "joined"
    /\ UNCHANGED <<source, meeting, sharing, script, watchdog>>

(* The source is pulled, and wire() goes on to connect its sound. *)
PullSucceeds(c) ==
    /\ wire = "pull" /\ up
    /\ conn[c] \in {"unused", "failed", "closed"} /\ c # current /\ c # watch
    /\ conn' = [conn EXCEPT ![c] = "flowing"]
    /\ listening' = listening \ {c}
    /\ wire' = "audio" /\ current' = c
    /\ dropped' = FALSE /\ haveSource' = TRUE
    /\ lastBytes' = "unset" /\ stalls' = 0
    /\ UNCHANGED <<up, meeting, sharing, mic, watch, status>>

(* The sound is connected and unmuted, or could not be, or there is none;  *)
(* wire() listens to the connection of the source it pulled and is done.   *)
WireDone ==
    /\ wire = "audio"
    /\ mic' \in {TRUE, mic}
    /\ listening' = listening \cup ({current} \ {NoPull})
    /\ wire' = "none" /\ status' = "live"
    /\ UNCHANGED <<source, meeting, sharing, current, dropped, haveSource, watchdog>>

-----------------------------------------------------------------------------
(* A tick of the watchdog: a dead connection is dropped, of a live one the *)
(* statistics are asked for.                                               *)
WatchTick ==
    /\ Interrupts /\ watch = NoPull
    /\ ~dropped /\ current # NoPull
    /\ IF conn[current] = "failed" THEN OnDrop(conn) /\ UNCHANGED watch
       ELSE watch' = current /\ UNCHANGED <<conn, script, status>>
    /\ UNCHANGED <<up, meeting, sharing, lastBytes, stalls>>

(* Faulty: one sample too many. *)
OneTooMany(n) == n > 2

Enough(n) == n >= 2

(* The statistics have come.  The first sample only sets the mark; two     *)
(* that have not grown since the last make the source stalled.  The sample *)
(* of a connection that was replaced meanwhile differs from any other.     *)
WatchStats ==
    LET still == watch = current /\ conn[watch] # "flowing"
    IN  /\ Interrupts /\ watch # NoPull
        /\ watch' = NoPull
        /\ lastBytes' = IF still THEN "still" ELSE "moving"
        /\ IF still /\ lastBytes = "still"
           THEN /\ stalls' = stalls + 1
                /\ IF Enough(stalls') THEN OnDrop(conn) ELSE UNCHANGED <<conn, script, status>>
           ELSE stalls' = 0 /\ UNCHANGED <<conn, script, status>>
        /\ UNCHANGED <<up, meeting, sharing>>

-----------------------------------------------------------------------------
Next ==
    \/ SourceUp \/ SourceDown
    \/ \E c \in Pulls : Hiccup(c) \/ ConnectionFails(c) \/ PullSucceeds(c)
    \/ DidStart \/ Shared \/ DidStop \/ PullFails \/ WireDone
    \/ WatchTick \/ WatchStats

Spec == Init /\ [][Next]_vars

(***************************************************************************)
(* Fairness.  What was awaited comes; the browser runs every task that is  *)
(* ready and fires timers; a pull from a source that is up succeeds.       *)
(***************************************************************************)
Fairness ==
    /\ WF_vars(DidStart /\ meeting = "joining")
    /\ WF_vars(Shared) /\ WF_vars(WireDone)
    /\ WF_vars(\E c \in Pulls : PullSucceeds(c))
    /\ WF_vars(WatchTick) /\ WF_vars(WatchStats)

FairSpec == Spec /\ Fairness
=============================================================================
