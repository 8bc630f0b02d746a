-------------------------- MODULE ChimePage_proofs --------------------------
(***************************************************************************)
(* Proofs about the page that casts a source, for any number of pulls.     *)
(***************************************************************************)
EXTENDS ChimePageProperties, TLAPS

(* What onDrop does when a source is in use: standby, and wire. *)
LEMMA Drops ==
    ASSUME TypeOK, NEW k \in [Pulls -> {"unused", "flowing", "stalled", "failed", "closed"}],
           OnDrop(k)
    PROVE  /\ conn' \in [Pulls -> {"unused", "flowing", "stalled", "failed", "closed"}]
           /\ wire' \in {"none", "pull", "audio"} /\ current' \in Pulls \cup {NoPull}
           /\ dropped' /\ listening' = listening
           /\ haveSource' \in BOOLEAN /\ mic' \in BOOLEAN
           /\ status' \in {"joining", "joined", "live", "error"}
           /\ dropped => /\ conn' = k
                         /\ UNCHANGED <<wire, current, dropped, haveSource, mic, listening, status>>
           /\ ~dropped => /\ ~haveSource' /\ ~mic' /\ current' = NoPull
                          /\ status' = "joined"
                          /\ wire' = IF wire = "none" THEN "pull" ELSE wire
  BY DEF TypeOK, OnDrop, IsDropped, MicMuted, StatusOffline, Wired, script

(* TypeOK in parts that the provers take one at a time. *)
Flags ==
    /\ up \in BOOLEAN /\ sharing \in BOOLEAN
    /\ dropped \in BOOLEAN /\ haveSource \in BOOLEAN /\ mic \in BOOLEAN

Words ==
    /\ meeting \in {"joining", "on", "off"}
    /\ wire \in {"none", "pull", "audio"}
    /\ lastBytes \in {"unset", "moving", "still"}
    /\ status \in {"joining", "joined", "live", "error"}

Connections ==
    /\ conn \in [Pulls -> {"unused", "flowing", "stalled", "failed", "closed"}]
    /\ current \in Pulls \cup {NoPull} /\ watch \in Pulls \cup {NoPull}
    /\ listening \subseteq Pulls

LEMMA TypeParts == TypeOK <=> Flags /\ Words /\ Connections /\ stalls \in 0 .. 2
  BY DEF TypeOK, Flags, Words, Connections

LEMMA TypeInit == Init => TypeOK
<1>1. Init => Flags
  BY DEF Init, Flags
<1>2. Init => Words
  BY DEF Init, Words
<1>3. Init => Connections
  BY DEF Init, Connections
<1>4. Init => stalls \in 0 .. 2
  BY DEF Init
<1> QED
  BY <1>1, <1>2, <1>3, <1>4, TypeParts

(* What the watchdog does. *)
LEMMA Ticks ==
    ASSUME TypeOK, StalledIsDropped, WatchTick \/ WatchStats
    PROVE  /\ UNCHANGED <<up, sharing, meeting>>
           /\ OnDrop(conn) \/ UNCHANGED <<conn, script, status>>
           /\ conn \in [Pulls -> {"unused", "flowing", "stalled", "failed", "closed"}]
           /\ Interrupts /\ watch' \in Pulls \cup {NoPull}
           /\ lastBytes' \in {"unset", "moving", "still"} /\ stalls' \in 0 .. 2
           /\ StalledIsDropped'
<1>1. CASE WatchTick
  <2>1. stalls' = stalls /\ lastBytes' = lastBytes /\ stalls # 2
    BY <1>1 DEF WatchTick, StalledIsDropped
  <2> QED
    BY <1>1, <2>1 DEF WatchTick, TypeOK, StalledIsDropped
<1>2. CASE WatchStats
  <2>1. stalls \in 0 .. 1
    BY <1>2 DEF WatchStats, StalledIsDropped, TypeOK
  <2>2. watch' = NoPull /\ lastBytes' \in {"unset", "moving", "still"}
    BY <1>2 DEF WatchStats
  <2>3. stalls' \in 0 .. 2 /\ (stalls' = 2 => OnDrop(conn))
    BY <1>2, <2>1 DEF WatchStats, Enough
  <2>4. OnDrop(conn) => dropped'
    BY Drops DEF TypeOK
  <2> QED
    BY <1>2, <2>2, <2>3, <2>4 DEF WatchStats, TypeOK, StalledIsDropped
<1> QED
  BY <1>1, <1>2

LEMMA FlagsNext == TypeOK /\ StalledIsDropped /\ [Next]_vars => Flags'
<1> SUFFICES ASSUME TypeOK, StalledIsDropped, [Next]_vars PROVE Flags'
  OBVIOUS
<1>t. Flags
  BY TypeParts
<1>1. CASE SourceUp \/ SourceDown
  BY <1>1, <1>t DEF SourceUp, SourceDown, Flags, script
<1>2. ASSUME NEW c \in Pulls, Hiccup(c) PROVE Flags'
  BY <1>2, <1>t DEF Hiccup, Flags, script
<1>3. ASSUME NEW c \in Pulls, PullSucceeds(c) PROVE Flags'
  <2>1. UNCHANGED <<up, sharing, mic>> /\ dropped' = FALSE /\ haveSource' = TRUE
    BY <1>3 DEF PullSucceeds
  <2> QED
    BY <2>1, <1>t DEF Flags
<1>4. ASSUME NEW c \in Pulls, ConnectionFails(c) PROVE Flags'
  <2>1. UNCHANGED <<up, sharing>> /\ dropped' \in BOOLEAN /\ haveSource' \in BOOLEAN /\ mic' \in BOOLEAN
    <3>1. CASE c \in listening
      BY <1>4, <3>1, Drops DEF ConnectionFails, TypeOK
    <3>2. CASE c \notin listening
      BY <1>4, <3>2, <1>t DEF ConnectionFails, script, Flags
    <3> QED
      BY <3>1, <3>2
  <2> QED
    BY <2>1, <1>t DEF Flags
<1>5. CASE DidStart \/ Shared \/ DidStop \/ PullFails
  BY <1>5, <1>t DEF DidStart, Shared, DidStop, PullFails, Flags, source, script
<1>6. CASE WireDone
  BY <1>6, <1>t DEF WireDone, Flags, source
<1>7. CASE WatchTick
  BY <1>7, <1>t, Ticks, Drops DEF Flags, script
<1>8. CASE WatchStats
  BY <1>8, <1>t, Ticks, Drops DEF Flags, script
<1>9. CASE UNCHANGED vars
  BY <1>9, <1>t DEF vars, Flags, source, script
<1> QED
  BY <1>1, <1>2, <1>3, <1>4, <1>5, <1>6, <1>7, <1>8, <1>9 DEF Next

LEMMA WordsNext == TypeOK /\ StalledIsDropped /\ [Next]_vars => Words' /\ Connections'
<1> SUFFICES ASSUME TypeOK, StalledIsDropped, [Next]_vars PROVE Words' /\ Connections'
  OBVIOUS
<1>t. Words /\ Connections
  BY TypeParts
<1>1. CASE SourceUp \/ SourceDown
  BY <1>1, <1>t DEF SourceUp, SourceDown, Words, Connections, script, watchdog
<1>2. ASSUME NEW c \in Pulls, Hiccup(c) PROVE Words' /\ Connections'
  BY <1>2, <1>t DEF Hiccup, Words, Connections, script, watchdog
<1>3. ASSUME NEW c \in Pulls, PullSucceeds(c) PROVE Words' /\ Connections'
  BY <1>3, <1>t DEF PullSucceeds, Words, Connections
<1>4. ASSUME NEW c \in Pulls, ConnectionFails(c) PROVE Words' /\ Connections'
  <2>1. UNCHANGED <<meeting, lastBytes, watch>>
    BY <1>4 DEF ConnectionFails, watchdog
  <2>2. CASE c \in listening
    BY <1>4, <1>t, <2>1, <2>2, Drops DEF ConnectionFails, Words, Connections
  <2>3. CASE c \notin listening
    BY <1>4, <1>t, <2>1, <2>3 DEF ConnectionFails, script, Words, Connections
  <2> QED
    BY <2>2, <2>3
<1>5. CASE DidStart \/ Shared \/ DidStop \/ PullFails
  BY <1>5, <1>t DEF DidStart, Shared, DidStop, PullFails, Wired, Words, Connections,
                    source, script, watchdog
<1>6. CASE WireDone
  BY <1>6, <1>t DEF WireDone, Words, Connections, source, watchdog
<1>7. CASE WatchTick \/ WatchStats
  BY <1>7, <1>t, Ticks, Drops DEF Words, Connections, script
<1>8. CASE UNCHANGED vars
  BY <1>8, <1>t DEF vars, Words, Connections, source, script, watchdog
<1> QED
  BY <1>1, <1>2, <1>3, <1>4, <1>5, <1>6, <1>7, <1>8 DEF Next

LEMMA StallsNext ==
    TypeOK /\ StalledIsDropped /\ [Next]_vars => stalls' \in 0 .. 2 /\ StalledIsDropped'
<1> SUFFICES ASSUME TypeOK, StalledIsDropped, [Next]_vars
             PROVE  stalls' \in 0 .. 2 /\ StalledIsDropped'
  OBVIOUS
<1>t. stalls \in 0 .. 2
  BY TypeParts
<1>1. CASE WatchTick \/ WatchStats
  BY <1>1, Ticks
<1>2. ASSUME NEW c \in Pulls, PullSucceeds(c) PROVE stalls' = 0
  BY <1>2 DEF PullSucceeds
<1>3. ASSUME NEW c \in Pulls, ConnectionFails(c)
      PROVE  UNCHANGED <<stalls, watch>> /\ (dropped => dropped')
  BY <1>3, Drops DEF ConnectionFails, watchdog, script, TypeOK
<1>4. ASSUME \/ SourceUp \/ SourceDown \/ DidStart \/ Shared \/ DidStop \/ PullFails \/ WireDone
             \/ UNCHANGED vars \/ \E c \in Pulls : Hiccup(c)
      PROVE  UNCHANGED <<stalls, watch, dropped>>
  BY <1>4 DEF SourceUp, SourceDown, DidStart, Shared, DidStop, PullFails, WireDone, Hiccup,
              vars, script, watchdog
<1> QED
  BY <1>t, <1>1, <1>2, <1>3, <1>4 DEF Next, StalledIsDropped

LEMMA TypeNext ==
    TypeOK /\ StalledIsDropped /\ [Next]_vars => TypeOK' /\ StalledIsDropped'
<1> SUFFICES ASSUME TypeOK, StalledIsDropped, [Next]_vars PROVE TypeOK' /\ StalledIsDropped'
  OBVIOUS
<1>1. Flags' /\ Words' /\ Connections' /\ stalls' \in 0 .. 2 /\ StalledIsDropped'
  BY FlagsNext, WordsNext, StallsNext
<1> QED
  BY <1>1 DEF TypeOK, Flags, Words, Connections

(* The page's variables stay in their types, for any number of pulls.      *)
THEOREM PageTypeCorrect == Spec => []TypeOK
<1>1. Init => StalledIsDropped
  BY DEF Init, StalledIsDropped
<1> QED
  BY <1>1, TypeInit, TypeNext, PTL DEF Spec

-----------------------------------------------------------------------------
(* Nothing drops the source between its arrival and that of its sound.     *)
LEMMA NotInBetween ==
    ASSUME "slow_audio" \notin Faults, Interrupts
    PROVE  wire # "audio"
  BY DEF Interrupts, Fails

(* A drop, at a moment when there may be one, keeps the story and sends    *)
(* wire() for another source.                                              *)
LEMMA DropKeeps ==
    ASSUME PageInv, wire # "audio",
           NEW k \in [Pulls -> {"unused", "flowing", "stalled", "failed", "closed"}],
           OnDrop(k), \A c \in Pulls : k[c] = "closed" => conn[c] = "closed",
           UNCHANGED <<meeting, sharing>>
    PROVE  OneStory' /\ WireHolds' /\ SourceIsSought' /\ LiveShowsSource'
<1>1. TypeOK /\ OneStory /\ WireHolds /\ SourceIsSought /\ LiveShowsSource
  BY DEF PageInv
<1>2. CASE dropped
  <2>1. /\ conn' = k
        /\ UNCHANGED <<wire, current, dropped, haveSource, mic, listening, status>>
    BY <1>1, <1>2, Drops
  <2>2. current = NoPull
    BY <1>1, <1>2 DEF OneStory
  <2> QED
    BY <1>1, <1>2, <2>1, <2>2 DEF OneStory, WireHolds, SourceIsSought, LiveShowsSource
<1>3. CASE ~dropped
  <2>1. /\ dropped' /\ ~haveSource' /\ ~mic' /\ current' = NoPull /\ status' = "joined"
        /\ wire' = "pull"
    BY <1>1, <1>3, Drops DEF TypeOK
  <2> QED
    BY <2>1 DEF OneStory, WireHolds, SourceIsSought, LiveShowsSource
<1> QED
  BY <1>2, <1>3

LEMMA StoryNext ==
    ASSUME "slow_audio" \notin Faults, PageInv, [Next]_vars
    PROVE  OneStory' /\ WireHolds' /\ SourceIsSought' /\ LiveShowsSource'
<1> DEFINE Goal == OneStory' /\ WireHolds' /\ SourceIsSought' /\ LiveShowsSource'
<1>i. TypeOK /\ OneStory /\ WireHolds /\ SourceIsSought /\ LiveShowsSource
  BY DEF PageInv
<1>k. ASSUME UNCHANGED <<dropped, haveSource, mic, current, wire, status, meeting, sharing>>,
             current # NoPull => (conn'[current] = "closed" => conn[current] = "closed")
      PROVE  Goal
  BY <1>i, <1>k DEF OneStory, WireHolds, SourceIsSought, LiveShowsSource
<1>1. CASE SourceUp
  BY <1>1, <1>k DEF SourceUp, script
<1>2. CASE SourceDown
  <2>1. \A c \in Pulls : conn'[c] = "closed" => conn[c] = "closed"
    BY <1>2 DEF SourceDown
  <2> QED
    BY <1>2, <1>i, <1>k, <2>1 DEF SourceDown, script, TypeOK
<1>3. ASSUME NEW c \in Pulls, Hiccup(c) PROVE Goal
  <2>1. \A d \in Pulls : conn'[d] = "closed" => conn[d] = "closed"
    BY <1>3, <1>i DEF Hiccup, TypeOK
  <2> QED
    BY <1>3, <1>i, <1>k, <2>1 DEF Hiccup, script, TypeOK
<1>4. ASSUME NEW c \in Pulls, PullSucceeds(c) PROVE Goal
  <2>1. /\ dropped' = FALSE /\ haveSource' = TRUE /\ current' = c /\ c # NoPull
        /\ conn'[c] = "flowing"
    BY <1>4, <1>i, PullsAssumption DEF PullSucceeds, TypeOK
  <2> QED
    BY <2>1 DEF OneStory, WireHolds, SourceIsSought, LiveShowsSource
<1>5. ASSUME NEW c \in Pulls, ConnectionFails(c) PROVE Goal
  <2> DEFINE k == [conn EXCEPT ![c] = "failed"]
  <2>1. /\ k \in [Pulls -> {"unused", "flowing", "stalled", "failed", "closed"}]
        /\ \A d \in Pulls : k[d] = "closed" => conn[d] = "closed"
    BY <1>i DEF TypeOK
  <2>2. UNCHANGED <<meeting, sharing>>
    BY <1>5 DEF ConnectionFails
  <2>3. CASE c \in listening
    <3>1. OnDrop(k) /\ wire # "audio"
      BY <1>5, <2>3, NotInBetween DEF ConnectionFails
    <3> QED
      BY <2>1, <2>2, <3>1, DropKeeps
  <2>4. CASE c \notin listening
    <3>1. conn' = k /\ UNCHANGED <<script, status>>
      BY <1>5, <2>4 DEF ConnectionFails
    <3>2. current # NoPull => current \in Pulls
      BY <1>i DEF TypeOK
    <3> QED
      BY <1>k, <2>1, <2>2, <3>1, <3>2 DEF script
  <2> QED
    BY <2>3, <2>4
<1>6. CASE DidStart
  <2>1. /\ sharing' /\ status' = "joined"
        /\ UNCHANGED <<conn, dropped, haveSource, mic, current, wire>>
    BY <1>6 DEF DidStart, source, script
  <2> QED
    BY <1>i, <2>1 DEF OneStory, WireHolds, SourceIsSought, LiveShowsSource
<1>7. CASE Shared
  <2>1. /\ wire' = (IF wire = "none" THEN "pull" ELSE wire)
        /\ UNCHANGED <<conn, dropped, haveSource, mic, current, status>>
    BY <1>7 DEF Shared, Wired, source
  <2> QED
    BY <1>i, <2>1 DEF OneStory, WireHolds, SourceIsSought, LiveShowsSource
<1>8. CASE DidStop
  <2>1. /\ meeting = "on" /\ sharing' = sharing /\ status' = "error"
        /\ UNCHANGED <<conn, dropped, haveSource, mic, current, wire>>
    BY <1>8 DEF DidStop, source, script
  <2> QED
    BY <1>i, <2>1 DEF OneStory, WireHolds, SourceIsSought, LiveShowsSource
<1>9. CASE PullFails
  <2>1. /\ status' = "joined"
        /\ UNCHANGED <<meeting, sharing, conn, dropped, haveSource, mic, current, wire>>
    BY <1>9 DEF PullFails, source, script
  <2> QED
    BY <1>i, <2>1 DEF OneStory, WireHolds, SourceIsSought, LiveShowsSource
<1>10. CASE WireDone
  <2>1. /\ wire = "audio" /\ wire' = "none"
        /\ UNCHANGED <<meeting, sharing, conn, dropped, haveSource, current>>
    BY <1>10 DEF WireDone, source
  <2> QED
    BY <1>i, <2>1 DEF OneStory, WireHolds, SourceIsSought, LiveShowsSource
<1>11. CASE WatchTick \/ WatchStats
  <2>1. UNCHANGED <<meeting, sharing>> /\ wire # "audio"
    BY <1>11, <1>i, Ticks, NotInBetween DEF PageInv
  <2>2. CASE OnDrop(conn)
    BY <1>i, <2>1, <2>2, DropKeeps DEF TypeOK
  <2>3. CASE UNCHANGED <<conn, script, status>>
    BY <1>k, <2>1, <2>3 DEF script
  <2> QED
    BY <1>11, <1>i, <2>2, <2>3, Ticks DEF PageInv
<1>12. CASE UNCHANGED vars
  BY <1>12, <1>k DEF vars, source, script
<1> QED
  BY <1>1, <1>2, <1>3, <1>4, <1>5, <1>6, <1>7, <1>8, <1>9, <1>10, <1>11, <1>12 DEF Next

LEMMA StoryInit == Init => PageInv
<1>1. Init => StalledIsDropped
  BY DEF Init, StalledIsDropped
<1>2. Init => OneStory
  BY DEF Init, OneStory
<1>3. Init => WireHolds /\ SourceIsSought /\ LiveShowsSource
  BY DEF Init, WireHolds, SourceIsSought, LiveShowsSource
<1> QED
  BY <1>1, <1>2, <1>3, TypeInit DEF PageInv

LEMMA PageAlways ==
    ASSUME "slow_audio" \notin Faults
    PROVE  Spec => []PageInv
<1>1. PageInv /\ [Next]_vars => PageInv'
  BY StoryNext, TypeNext DEF PageInv
<1> QED
  BY <1>1, StoryInit, PTL DEF Spec

(* A page without a source is at work to get one, as long as connecting a  *)
(* sound takes no time in which the source could be lost.                  *)
THEOREM SoughtHolds ==
    ASSUME "slow_audio" \notin Faults
    PROVE  Spec => []SourceIsSought
<1>1. PageInv => SourceIsSought
  BY DEF PageInv
<1> QED
  BY <1>1, PageAlways, PTL

(* What is shown as streaming is the source, and a page on standby is not  *)
(* heard.                                                                  *)
THEOREM LiveShowsSourceHolds ==
    ASSUME "slow_audio" \notin Faults
    PROVE  Spec => []LiveShowsSource
<1>1. PageInv => LiveShowsSource
  BY DEF PageInv
<1> QED
  BY <1>1, PageAlways, PTL
=============================================================================
