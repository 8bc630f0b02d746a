------------------------------- MODULE Engine -------------------------------
(***************************************************************************)
(* What the session manager counts on in the engine of a target: it works  *)
(* until its context is cancelled, in and out of browsers, and reports any *)
(* status on the way; once cancelled it works in no new browser and,       *)
(* whatever it was doing, closes the one it has and comes to an end, with  *)
(* a last report.  What it may leave behind is a Chrome it started and was *)
(* not connected to, never a browser it has worked in.                     *)
(***************************************************************************)
VARIABLES ctx, returned, browser, left, status

vars == <<ctx, returned, browser, left, status>>

Statuses == {"pending", "launching", "joining", "joined", "streaming",
             "waiting", "needs_reauth", "error", "stopped"}

Init == ~ctx /\ ~returned /\ ~browser /\ ~left /\ status = "pending"

Cancel == ~ctx /\ ctx' = TRUE /\ UNCHANGED <<returned, browser, left, status>>

(* To report "streaming" an engine needs a browser. *)
Work ==
    /\ ~returned
    /\ browser' \in BOOLEAN /\ (ctx /\ browser' => browser)
    /\ left' \in {left, TRUE} /\ (left' # left => ~browser /\ ~browser')
    /\ status' \in (Statuses \ {"pending", "stopped"}) \cup {status}
    /\ status' = "streaming" => browser' \/ status = "streaming"
    /\ UNCHANGED <<ctx, returned>>

Stop ==
    /\ ctx /\ ~returned /\ returned' = TRUE
    /\ browser' = FALSE /\ status' = "stopped"
    /\ UNCHANGED <<ctx, left>>

Next == Cancel \/ Work \/ Stop

Spec == Init /\ [][Next]_vars /\ WF_vars(Stop)
=============================================================================
