------------------------ MODULE ChimePageProperties ------------------------
(***************************************************************************)
(* What must be true of the page that casts a source.                      *)
(***************************************************************************)
EXTENDS ChimePage

(* While a page that started has no source, wire() is at work to get one:  *)
(* the canvas "draws the live source when up, else the standby image", for *)
(* which somebody must notice that it is up.                               *)
SourceIsSought == meeting # "joining" /\ ~sharing /\ dropped => wire # "none"

(* What the engine shows as streaming is the source, never the standby     *)
(* picture, and on standby nobody hears the page, through drops, rejoined  *)
(* meetings and late statistics.                                           *)
LiveShowsSource ==
    /\ status = "live" => haveSource /\ current # NoPull /\ conn[current] # "closed"
    /\ mic => haveSource

Drawing == haveSource /\ current # NoPull /\ conn[current] = "flowing"

(* Once the source stays up the page shows it again and again, whatever    *)
(* was lost before and however often connections stall or fail.            *)
Recovers == <>[]up => []<>Drawing

-----------------------------------------------------------------------------
(***************************************************************************)
(* The inductive invariant behind both, when startAudioInput is not slow:  *)
(* the flag, the canvas and the connection tell the same story, and wire() *)
(* has its source until it is done.                                        *)
(***************************************************************************)
StalledIsDropped == stalls = 2 => dropped /\ watch = NoPull

OneStory ==
    /\ dropped <=> current = NoPull
    /\ dropped <=> ~haveSource
    /\ current # NoPull => conn[current] # "closed"

WireHolds == wire = "audio" => ~dropped

PageInv == TypeOK /\ StalledIsDropped /\ OneStory /\ WireHolds /\ SourceIsSought /\ LiveShowsSource
=============================================================================
