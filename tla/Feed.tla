-------------------------------- MODULE Feed --------------------------------
(***************************************************************************)
(* What the unified chat of a session page may show, without queues,       *)
(* brokers, polling or ids: the messages that were stored for the page's   *)
(* session, each at most once and in the order they were stored.  A page   *)
(* may leave messages out, and starts again when it is loaded again.       *)
(***************************************************************************)
EXTENDS Naturals, Sequences

CONSTANTS Messages, Sessions, Pages, PageOf

VARIABLES
    log,    \* the messages stored, oldest first, with their sessions
    view    \* view[g]: the entries page g shows

Entries == [id : Nat, msg : Messages]

TypeOK ==
    /\ log \in Seq([msg : Messages, sess : Sessions])
    /\ view \in [Pages -> Seq(Entries)]

Init == log = <<>> /\ view = [g \in Pages |-> <<>>]

(* The entries are of stored messages of session s, in order, each once. *)
Excerpt(entries, s) ==
    /\ \A k \in DOMAIN entries :
         LET e == entries[k]
         IN  e.id \in DOMAIN log /\ log[e.id] = [msg |-> e.msg, sess |-> s]
    /\ \A k \in 1 .. Len(entries) - 1 : entries[k].id < entries[k + 1].id

Store ==
    \E m \in Messages, s \in Sessions :
        /\ \A i \in DOMAIN log : log[i].msg # m
        /\ log' = Append(log, [msg |-> m, sess |-> s])
        /\ UNCHANGED view

(* What a page shows only grows, unless it is closed or loaded afresh. *)
Show(g) ==
    /\ view' = [view EXCEPT ![g] = view'[g]]
    /\ Excerpt(view'[g], PageOf[g])
    /\ \/ view[g] = <<>> \/ view'[g] = <<>>
       \/ SubSeq(view'[g], 1, Len(view[g])) = view[g]
    /\ UNCHANGED log

Next == Store \/ \E g \in Pages : Show(g)

Spec == Init /\ [][Next]_<<log, view>>
=============================================================================
