--------------------------- MODULE FeedProperties ---------------------------
(***************************************************************************)
(* What must be true of the chat feed.                                     *)
(***************************************************************************)
EXTENDS ChatFeed

(* What a page may show: messages of its session, in order, each once, in  *)
(* spite of several readers, of events overtaking polls and of events that *)
(* were dropped.                                                           *)
Promise == INSTANCE Feed WITH
    log <- chat,
    view <- [g \in Pages |-> page[g].shown]

FeedSpec == Promise!Spec

(* "Messages in the huddle thread show up in the unified chat feed", says  *)
(* AnnounceStart: what a page's mark has passed, and so will never be      *)
(* fetched again, is on the page.                                          *)
NoneSkipped ==
    \A g \in Pages : \A i \in RowsAfter(PageOf[g], 0) :
        i <= page[g].mark => \E k \in DOMAIN page[g].shown : page[g].shown[k].id = i

(* A poll reaches every stored message in the end, however many events     *)
(* were dropped and connections lost: an open page's mark passes it.       *)
Reached ==
    \A g \in Pages : \A i \in 1 .. Cardinality(Messages) :
        page[g].open /\ i \in RowsAfter(PageOf[g], 0)
            ~> ~page[g].open \/ page[g].mark >= i

(* A download that ends holds every message that was stored for the        *)
(* session when it began, and no message twice, though messages are stored *)
(* while it reads batch after batch.                                       *)
ExportComplete ==
    export.pc = "done" =>
        /\ \A i \in RowsAfter(export.sess, 0) :
             i <= export.upto => \E k \in DOMAIN export.got : export.got[k] = i
        /\ \A j, k \in DOMAIN export.got : j # k => export.got[j] # export.got[k]

=============================================================================
