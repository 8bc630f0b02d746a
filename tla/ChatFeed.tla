------------------------------ MODULE ChatFeed ------------------------------
(***************************************************************************)
(* The chat feed: from a message in a huddle's Slack thread to the session *)
(* page in somebody's browser.                                             *)
(*                                                                         *)
(* Slack delivers messages over a socket into a channel of events.  Each   *)
(* call of App.Run (internal/slackapp/app.go) starts a goroutine that      *)
(* reads it, and main calls Run again whenever the connection fails, so    *)
(* there may be several.  A reader acknowledges a message, looks for the   *)
(* session that casts to its channel, asks Slack whether its thread is a   *)
(* huddle's, stores it (internal/store/store.go) and publishes it through  *)
(* the broker (internal/session/events.go), whose subscribers have bounded *)
(* channels and miss what does not fit.  A page (internal/web/static/      *)
(* app.js) renders what the server read when it was loaded, then listens   *)
(* to the events and polls every 15 seconds; what it has seen it knows by  *)
(* the largest id alone.                                                   *)
(*                                                                         *)
(* Left out: the other kinds of events, names and texts.  Messages of a    *)
(* page's event stream that the server has written and the page has not    *)
(* read yet count as still in the subscriber's channel.                    *)
(***************************************************************************)
EXTENDS Naturals, Sequences, FiniteSets, SequencesExt

CONSTANTS
    Messages,       \* records [n, chan, thread, kind]; see Kinds
    HuddleThreads,  \* the threads that are a huddle's
    Sessions,
    SessionsOf,     \* SessionsOf[c]: the running sessions that cast to c
    Readers,        \* bound: goroutines that read Slack's events
    Inbox,          \* bound: events that wait to be read
    Cap,            \* the capacity of a subscriber's channel (64)
    Batch,          \* how many messages one query returns (500)
    OtherIds,       \* ids that inserts into other tables use
    Pages, PageOf,  \* bound: pages, and the session of each
    Polls,          \* bound: polls of one page that are on their way together
    Exported,       \* bound: sessions whose chat is downloaded
    Faults          \* what may go wrong

(* How message() sorts a message: the one that opens a huddle's thread, a  *)
(* person's reply, or one it ignores (bots, edits, our own, no thread).    *)
Kinds == {"root", "reply", "ignored"}

ASSUME BoundsAssumption == Cap \in Nat \ {0} /\ Batch \in Nat \ {0} /\ Inbox \in Nat \ {0}
ASSUME SessionsAssumption ==
    /\ \A m \in Messages : SessionsOf[m.chan] \subseteq Sessions
    /\ OtherIds \subseteq Nat
ASSUME PagesAssumption == PageOf \in [Pages -> Sessions] /\ Exported \subseteq Sessions

VARIABLES
    inbox,      \* the socket client's Events channel
    acked,      \* messages Slack knows to be received
    roots,      \* App.roots: threads whose kind was learned
    reader,     \* the goroutines of App.Run
    chat,       \* the chat table: row i has id i
    lastInsert, \* what LastInsertId returns on the store's one connection
    sub,        \* sub[g]: page g's subscription and its channel
    page,       \* the scripts of the pages
    pull,       \* pull[g][k]: a poll of page g on its way
    export      \* a download of the chat on its way

slack == <<inbox, acked, roots, reader>>
tables == <<chat, lastInsert>>
pages == <<sub, page, pull>>
vars == <<slack, tables, pages, export>>

Unsubscribed == [on |-> FALSE, queue |-> <<>>]
NoReader == [pc |-> "off"]
Waiting == [pc |-> "idle"]
Closed == [open |-> FALSE, mark |-> 0, shown |-> <<>>]
NoPull == [pc |-> "none"]
NoPulls == [k \in Polls |-> NoPull]
NoExport == [pc |-> "none"]

Entry == [id : Nat, msg : Messages]

ReaderStates ==
    {NoReader, Waiting}
        \cup [pc : {"check", "store"}, msg : Messages, sess : Sessions]
        \cup [pc : {"publish"}, msg : Messages, sess : Sessions, id : Nat]

PollStates ==
    {NoPull} \cup [pc : {"asked"}, after : Nat] \cup [pc : {"answered"}, list : Seq(Entry)]

TypeOK ==
    /\ inbox \in Seq(Messages) /\ Len(inbox) <= Inbox
    /\ acked \subseteq Messages
    /\ roots \subseteq {m.thread : m \in Messages}
    /\ reader \in [Readers -> ReaderStates]
    /\ chat \in Seq([msg : Messages, sess : Sessions])
    /\ lastInsert \in Nat
    /\ sub \in [Pages -> [on : BOOLEAN, queue : Seq([entry : Entry, sess : Sessions])]]
    /\ \A g \in Pages : Len(sub[g].queue) <= Cap
    /\ page \in [Pages -> [open : BOOLEAN, mark : Nat, shown : Seq(Entry)]]
    /\ pull \in [Pages -> [Polls -> PollStates]]
    /\ export = NoExport \/ export \in
         [pc : {"reading", "done"}, sess : Sessions, after : Nat, got : Seq(Nat), upto : Nat]

Init ==
    /\ inbox = <<>> /\ acked = {} /\ roots = {}
    /\ reader = [r \in Readers |-> NoReader]
    /\ chat = <<>> /\ lastInsert = 0
    /\ sub = [g \in Pages |-> Unsubscribed]
    /\ page = [g \in Pages |-> Closed]
    /\ pull = [g \in Pages |-> NoPulls]
    /\ export = NoExport

Fails(what) == what \in Faults

-----------------------------------------------------------------------------
(* Slack hands an event to the socket client, again if the acknowledgement *)
(* of an earlier delivery got lost.                                        *)
Deliver(m) ==
    /\ Len(inbox) < Inbox
    /\ \/ m \notin acked /\ \A k \in DOMAIN inbox : inbox[k] # m
       \/ Fails("ack")
    /\ inbox' = Append(inbox, m)
    /\ UNCHANGED <<acked, roots, reader, tables, pages, export>>

(* App.Run: called once, and again each time the connection failed; the    *)
(* readers of earlier calls go on.                                         *)
Run(r) ==
    /\ reader[r] = NoReader
    /\ Fails("socket") \/ \A q \in Readers : reader[q] = NoReader
    /\ reader' = [reader EXCEPT ![r] = Waiting]
    /\ UNCHANGED <<inbox, acked, roots, tables, pages, export>>

(* handle and message, up to the first call that leaves the process: the   *)
(* event is acknowledged, sorted, and its session looked up (any one that  *)
(* casts to the channel, as the map happens to be ordered).                *)
Receive(r) ==
    LET m == Head(inbox)
    IN  /\ reader[r].pc = "idle" /\ inbox # <<>>
        /\ inbox' = Tail(inbox)
        /\ acked' = acked \cup {m}
        /\ roots' = IF m.kind = "root" THEN roots \cup {m.thread} ELSE roots
        /\ IF m.kind = "reply" /\ SessionsOf[m.chan] # {}
           THEN \E s \in SessionsOf[m.chan] :
                  reader' = [reader EXCEPT ![r] = [pc |-> "check", msg |-> m, sess |-> s]]
           ELSE UNCHANGED reader
        /\ UNCHANGED <<tables, pages, export>>


IsHuddle(m) == m.thread \in HuddleThreads

(* isHuddleRoot: from the cache, or from Slack; when Slack fails the       *)
(* message is dropped.  A thread is cached whatever its kind.              *)
Check(r) ==
    LET m == reader[r].msg
    IN  /\ reader[r].pc = "check"
        /\ \/ /\ roots' = roots \cup {m.thread}
              /\ reader' = [reader EXCEPT ![r] =
                    IF IsHuddle(m) THEN [@ EXCEPT !.pc = "store"] ELSE Waiting]
           \/ /\ Fails("slack") /\ m.thread \notin roots
              /\ reader' = [reader EXCEPT ![r] = Waiting]
              /\ UNCHANGED roots
        /\ UNCHANGED <<inbox, acked, tables, pages, export>>

Stored(m) == \E i \in DOMAIN chat : chat[i].msg = m

(* AddChat: INSERT OR IGNORE.  When the row was there already the id that  *)
(* comes back is that of the connection's last insertion.                  *)
Store(r) ==
    LET m == reader[r].msg
        s == reader[r].sess
        Inserted(id) == [reader EXCEPT ![r] =
                            [pc |-> "publish", msg |-> m, sess |-> s, id |-> id]]
    IN  /\ reader[r].pc = "store"
        /\ \/ /\ ~Stored(m)
              /\ chat' = Append(chat, [msg |-> m, sess |-> s])
              /\ lastInsert' = Len(chat')
              /\ reader' = Inserted(Len(chat'))
           \/ /\ Stored(m)
              /\ reader' = Inserted(lastInsert)
              /\ UNCHANGED tables
           \/ /\ Fails("store")
              /\ reader' = [reader EXCEPT ![r] = Waiting]
              /\ UNCHANGED tables
        /\ UNCHANGED <<inbox, acked, roots, pages, export>>

(* Another component inserts a row into another table. *)
OtherInsert ==
    /\ lastInsert' \in OtherIds
    /\ UNCHANGED <<slack, chat, pages, export>>

(* Faulty: a subscriber's channel takes any number of events. *)
AlwaysRoom(q) == TRUE

HasRoom(q) == Len(q) < Cap

(* Broker.Publish: to every subscriber whose channel has room. *)
Publish(r) ==
    LET e == [entry |-> [id |-> reader[r].id, msg |-> reader[r].msg],
              sess |-> reader[r].sess]
    IN  /\ reader[r].pc = "publish"
        /\ sub' = [g \in Pages |->
                    IF sub[g].on /\ HasRoom(sub[g].queue)
                    THEN [sub[g] EXCEPT !.queue = Append(@, e)] ELSE sub[g]]
        /\ reader' = [reader EXCEPT ![r] = Waiting]
        /\ UNCHANGED <<inbox, acked, roots, tables, page, pull, export>>

-----------------------------------------------------------------------------
RowsAfter(s, after) == {i \in DOMAIN chat : chat[i].sess = s /\ i > after}

(* ListChat: the rows of session s with larger ids, oldest first, limited. *)
ListChat(s, after) ==
    LET rows == RowsAfter(s, after)
        size == Cardinality(rows)
        Nth(n) == CHOOSE i \in rows : Cardinality({j \in rows : j <= i}) = n
    IN  [n \in 1 .. (IF size < Batch THEN size ELSE Batch) |->
            [id |-> Nth(n), msg |-> chat[Nth(n)].msg]]

(* Faulty: messages are shown whatever the page has seen. *)
Anything(e, mark) == TRUE

Unseen(e, mark) == e.id > mark

(* appendChat, for each entry of a list in turn.  A list is oldest first:  *)
(* what the page has not seen is its end.                                  *)
AppendChat(p, list) ==
    LET seen == {k \in DOMAIN list : ~Unseen(list[k], p.mark)}
        new == SubSeq(list, Cardinality(seen) + 1, Len(list))
    IN  [p EXCEPT !.shown = @ \o new,
                  !.mark = IF new = <<>> THEN @ ELSE Last(new).id]

(* handleSession and the start of hcSession: the page shows what the       *)
(* server read when it was loaded, nothing if that failed.                 *)
Load(g) ==
    /\ ~page[g].open
    /\ \E list \in {ListChat(PageOf[g], 0)} \cup (IF Fails("read") THEN {<<>>} ELSE {}) :
         page' = [page EXCEPT ![g] = AppendChat([Closed EXCEPT !.open = TRUE], list)]
    /\ UNCHANGED <<slack, tables, sub, pull, export>>

Close(g) ==
    /\ page[g].open
    /\ page' = [page EXCEPT ![g] = Closed]
    /\ sub' = [sub EXCEPT ![g] = Unsubscribed]
    /\ pull' = [pull EXCEPT ![g] = NoPulls]
    /\ UNCHANGED <<slack, tables, export>>

(* handleEvents: the page's EventSource connects, again after a failure.   *)
Subscribe(g) ==
    /\ page[g].open /\ ~sub[g].on
    /\ sub' = [sub EXCEPT ![g] = [on |-> TRUE, queue |-> <<>>]]
    /\ UNCHANGED <<slack, tables, page, pull, export>>

Disconnect(g) ==
    /\ Fails("network") /\ sub[g].on
    /\ sub' = [sub EXCEPT ![g] = Unsubscribed]
    /\ UNCHANGED <<slack, tables, page, pull, export>>

ForPage(e, g) == e.sess = PageOf[g]

(* handleEvents passes an event on and the page handles it. *)
Event(g) ==
    LET e == Head(sub[g].queue)
    IN  /\ sub[g].queue # <<>>
        /\ sub' = [sub EXCEPT ![g].queue = Tail(@)]
        /\ page' = IF ForPage(e, g)
                   THEN [page EXCEPT ![g] = AppendChat(@, <<e.entry>>)] ELSE page
        /\ UNCHANGED <<slack, tables, pull, export>>

(* pullChat: every 15 seconds, and 3 seconds after the events broke off,   *)
(* whether earlier polls have come back or not.  The page asks for what is *)
(* after its mark, the server reads (handleChatJSON), the page shows.      *)
PullAsk(g, k) ==
    /\ page[g].open /\ pull[g][k] = NoPull
    /\ pull' = [pull EXCEPT ![g][k] = [pc |-> "asked", after |-> page[g].mark]]
    /\ UNCHANGED <<slack, tables, sub, page, export>>

PullAnswer(g, k) ==
    /\ pull[g][k].pc = "asked"
    /\ pull' = [pull EXCEPT ![g][k] =
                    [pc |-> "answered", list |-> ListChat(PageOf[g], pull[g][k].after)]]
    /\ UNCHANGED <<slack, tables, sub, page, export>>

(* Faulty: a poll that failed counts as still on its way. *)
PullHangs(g, k) ==
    /\ pull[g][k].pc = "asked" /\ Fails("network")
    /\ pull' = [pull EXCEPT ![g][k] = [pc |-> "failed"]]
    /\ UNCHANGED <<slack, tables, sub, page, export>>

PullFail(g, k) ==
    /\ pull[g][k].pc = "asked" /\ (Fails("network") \/ Fails("read"))
    /\ pull' = [pull EXCEPT ![g][k] = NoPull]
    /\ UNCHANGED <<slack, tables, sub, page, export>>

PullShow(g, k) ==
    /\ pull[g][k].pc = "answered"
    /\ page' = [page EXCEPT ![g] = AppendChat(@, pull[g][k].list)]
    /\ pull' = [pull EXCEPT ![g][k] = NoPull]
    /\ UNCHANGED <<slack, tables, sub, export>>

-----------------------------------------------------------------------------
(* handleChatExport: batch after batch until one is empty or cannot be     *)
(* read.  upto is what was stored when it began.                           *)
ExportBegin(s) ==
    /\ export = NoExport
    /\ export' = [pc |-> "reading", sess |-> s, after |-> 0, got |-> <<>>, upto |-> Len(chat)]
    /\ UNCHANGED <<slack, tables, pages>>

(* Faulty: off by one. *)
GoOnPast(ids) == Last(ids) + 1

GoOnAfter(ids) == Last(ids)

ExportRead ==
    LET list == ListChat(export.sess, export.after)
        ids == [k \in DOMAIN list |-> list[k].id]
    IN  /\ export.pc = "reading"
        /\ \/ /\ list # <<>>
              /\ export' = [export EXCEPT !.got = @ \o ids, !.after = GoOnAfter(ids)]
           \/ /\ list = <<>> \/ Fails("read")
              /\ export' = [export EXCEPT !.pc = "done"]
        /\ UNCHANGED <<slack, tables, pages>>

ExportEnd ==
    /\ export.pc = "done"
    /\ export' = NoExport
    /\ UNCHANGED <<slack, tables, pages>>

(* The process ends and is started again; the database and the pages in    *)
(* people's browsers survive.                                              *)
Restart ==
    /\ Fails("crash") /\ \E r \in Readers : reader[r] # NoReader
    /\ inbox' = <<>> /\ roots' = {}
    /\ reader' = [r \in Readers |-> NoReader]
    /\ lastInsert' = 0
    /\ sub' = [g \in Pages |-> Unsubscribed]
    /\ pull' = [g \in Pages |-> [k \in Polls |->
                    IF pull[g][k].pc = "asked" THEN NoPull ELSE pull[g][k]]]
    /\ export' = NoExport
    /\ UNCHANGED <<acked, chat, page>>

-----------------------------------------------------------------------------
Reader(r) == Receive(r) \/ Check(r) \/ Store(r) \/ Publish(r)

Next ==
    \/ \E m \in Messages : Deliver(m)
    \/ \E r \in Readers : Run(r) \/ Reader(r)
    \/ \E g \in Pages :
         \/ Load(g) \/ Close(g) \/ Subscribe(g) \/ Disconnect(g) \/ Event(g)
         \/ \E k \in Polls : PullAsk(g, k) \/ PullAnswer(g, k) \/ PullFail(g, k) \/ PullShow(g, k)
    \/ \E s \in Exported : ExportBegin(s)
    \/ ExportRead \/ ExportEnd \/ OtherInsert \/ Restart

Spec == Init /\ [][Next]_vars

(***************************************************************************)
(* Fairness.  A goroutine that can go on does.  The page's timer fires for *)
(* ever, and of the polls it sends not every one is lost.                  *)
(***************************************************************************)
Fairness ==
    /\ \A r \in Readers : WF_vars(Reader(r))
    /\ \A g \in Pages :
         /\ WF_vars(\E k \in Polls : PullAsk(g, k))
         /\ SF_vars(\E k \in Polls : PullAnswer(g, k))
         /\ WF_vars(\E k \in Polls : PullShow(g, k))
    /\ WF_vars(ExportRead)

FairSpec == Spec /\ Fairness
=============================================================================
