----------------------------- MODULE MCChatFeed -----------------------------
(* Values for TLC of the constants of ChatFeed a .cfg cannot write.        *)
EXTENDS FeedProperties, TLC

CONSTANTS s1, s2, c1, c2, g1, g2

(* Replies in a huddle's thread: two in c1, which s1 casts to, one in c2,  *)
(* which both sessions cast to.                                            *)
Replies == {[n |-> 1, chan |-> c1, thread |-> 1, kind |-> "reply"],
            [n |-> 2, chan |-> c1, thread |-> 1, kind |-> "reply"]}

Shared == [n |-> 3, chan |-> c2, thread |-> 2, kind |-> "reply"]

(* The message that opens c1's thread. *)
Root == [n |-> 4, chan |-> c1, thread |-> 1, kind |-> "root"]

MCMessages == Replies \cup {Shared}

(* One of each channel: whatever is wrong of the feed or of a download is  *)
(* wrong of two messages or of one.                                        *)
MCPair == {m \in MCMessages : m.n \in {1, 3}}
MCThread == Replies \cup {Root}
MCHuddles == {1, 2}
MCSessionsOf == (c1 :> {s1}) @@ (c2 :> {s1, s2})
Symmetry == Permutations(Readers) \cup Permutations(Polls)

MCPageOf == [g \in Pages |-> IF g = g1 THEN s1 ELSE s2]
=============================================================================
