--------------------------- MODULE SessionManager ---------------------------
(***************************************************************************)
(* The session manager of internal/session/manager.go with the tables it   *)
(* keeps in SQLite (internal/store/store.go) and the recording switch it   *)
(* sets in mediamtx (internal/media/mediamtx.go).                          *)
(*                                                                         *)
(* A session casts one source into several Slack huddles.  In memory it is *)
(* a runtime that owns one engine (a goroutine driving a browser) per      *)
(* target channel and, for a mirrored source, one mirror engine.  Requests *)
(* from the web UI and from Slack run concurrently, each in a goroutine of *)
(* its own.  Manager.mu protects the runtimes, but is released while a     *)
(* request cancels engines, waits for them and writes the database, so one *)
(* request here is a sequence of steps: one per critical section and one   *)
(* per effect outside it.  The process may die between any two steps; the  *)
(* database survives and Resume restarts what it calls running.            *)
(*                                                                         *)
(* Left out: what an engine does while it runs, events published to web    *)
(* pages, which Slack account an engine uses, video quality values and the *)
(* read-only operations (View, ListViews, Running, Screenshot).            *)
(***************************************************************************)
EXTENDS Naturals, FiniteSets

CONSTANTS
    Sessions,        \* session ids newID may draw
    Channels,        \* Slack channels
    NoChannel,       \* "the source is a stream key, not a channel"
    SourceChannel,   \* the channel a session mirrors, or NoChannel
    Paths, Path,     \* mediamtx paths, and the path of each session's source
    Presentations,   \* how a stream appears: screen, camera or both
    Records,         \* bound: the recording choices a Start is sent
    TargetIds,       \* bound: ids the targets table may hand out
    Gens,            \* bound: names telling the engines of one target apart
    Requests,        \* bound: requests in progress at once
    Ops,             \* the requests clients issue
    Apart,           \* bound: pairs of them that never overlap on one session
    Stuck,           \* targets whose engines may never return
    ResumeLimit,     \* sessions Resume asks the database for at most
    Faults           \* what the environment may do to the process

Mirror == 0
NoSession == "none"

ASSUME IdsAssumption == TargetIds \subseteq Nat \ {Mirror}
ASSUME SourceAssumption ==
    /\ NoChannel \notin Channels
    /\ SourceChannel \in [Sessions -> Channels \cup {NoChannel}]
    /\ Path \in [Sessions -> Paths]
ASSUME ChoicesAssumption == Presentations # {} /\ Records \subseteq BOOLEAN
ASSUME SessionsAssumption == NoSession \notin Sessions
ASSUME LimitAssumption == ResumeLimit \in Nat

VARIABLES
    phase,      \* "down", "up", or "stopping" once a signal cancelled baseCtx
    running,    \* keys of Manager.sessions
    runtime,    \* runtime[s]: the engines in rt.targets, and rt.mirror
    pres,       \* rt.sess.Presentation
    rec,        \* rt.sess.Record
    live,       \* engines whose goroutine has not returned
    cancelled,  \* the live engines whose context is cancelled
    told,       \* told[e]: the presentation engine e was last given
    status,     \* sessions.status, "none" before the row exists
    dbPres,     \* sessions.presentation
    dbRec,      \* sessions.record
    rows,       \* the targets table
    nextId,     \* its AUTOINCREMENT counter
    recording,  \* mediamtx: is a path recorded
    req         \* the requests in progress

memory == <<running, runtime, pres, rec>>
engines == <<live, cancelled, told>>
database == <<status, dbPres, dbRec, rows, nextId>>
vars == <<phase, memory, engines, database, recording, req>>

(***************************************************************************)
(* A row of the targets table.  The mirror of a session has none: it is    *)
(* given the id Mirror, which the table never uses.                        *)
(***************************************************************************)
Row == [id : TargetIds \cup {Mirror}, sess : Sessions,
        chan : Channels \cup {NoChannel}]

Engine == [of : Row, gen : Gens]

Mirrors(s) == {e \in runtime[s] : e.of.id = Mirror}
Targets(s) == runtime[s] \ Mirrors(s)

MirrorRow(s) == [id |-> Mirror, sess |-> s, chan |-> SourceChannel[s]]

(* What startMirror is called with: nothing when the source is a stream key. *)
MirrorRows(s) == IF SourceChannel[s] = NoChannel THEN {} ELSE {MirrorRow(s)}

PCs == {"idle", "start_record", "start_install", "start_add", "remove_take",
        "remove_cancel", "remove_wait", "remove_delete", "present_store",
        "record_store", "record_media", "quality_wait", "quality_mirror",
        "quality_restart", "stop_cancel", "stop_wait"}

(***************************************************************************)
(* The locals of a request: where it is, its session, the engines it took  *)
(* out of the runtime and still waits for, the rows it will start again,   *)
(* the channels it still has to add, the setting it writes and whether the *)
(* deadline of its waits is still to fire.                                 *)
(***************************************************************************)
Idle == [pc |-> "idle", sess |-> NoSession, held |-> {}, again |-> {},
         chans |-> {}, value |-> FALSE, deadline |-> FALSE]

Request == [pc : PCs, sess : Sessions \cup {NoSession}, held : SUBSET Engine,
            again : SUBSET Row, chans : SUBSET Channels,
            value : BOOLEAN \cup Presentations, deadline : BOOLEAN]

(* Which session a request is about and which setting it writes. *)
WellFormed(r) ==
    /\ r.pc # "idle" => r.sess \in Sessions
    /\ r.pc = "present_store" => r.value \in Presentations
    /\ r.pc \in {"record_store", "record_media"} => r.value \in BOOLEAN

TypeOK ==
    /\ phase \in {"down", "up", "stopping"}
    /\ running \subseteq Sessions
    /\ runtime \in [Sessions -> SUBSET Engine]
    /\ pres \in [Sessions -> Presentations]
    /\ rec \in [Sessions -> BOOLEAN]
    /\ live \subseteq Engine
    /\ cancelled \subseteq live
    /\ told \in [live -> Presentations]
    /\ status \in [Sessions -> {"none", "running", "stopped"}]
    /\ dbPres \in [Sessions -> Presentations]
    /\ dbRec \in [Sessions -> BOOLEAN]
    /\ rows \subseteq Row
    /\ nextId \in Nat
    /\ recording \in [Paths -> BOOLEAN]
    /\ req \in [Requests -> Request]
    /\ \A p \in Requests : WellFormed(req[p])
-----------------------------------------------------------------------------
(* Values nothing reads: of sessions that do not exist or are not running. *)
NoPresentation == [s \in Sessions |-> CHOOSE p \in Presentations : TRUE]
NoRecord == [s \in Sessions |-> FALSE]

Init ==
    /\ phase = "down"
    /\ running = {}
    /\ runtime = [s \in Sessions |-> {}]
    /\ pres = NoPresentation
    /\ rec = NoRecord
    /\ live = {}
    /\ cancelled = {}
    /\ told = [e \in {} |-> NoPresentation]
    /\ status = [s \in Sessions |-> "none"]
    /\ dbPres = NoPresentation
    /\ dbRec = NoRecord
    /\ rows = {}
    /\ nextId = 1
    /\ recording = [q \in Paths |-> FALSE]
    /\ req = [p \in Requests |-> Idle]

(* Nobody holds Manager.mu: only Start keeps it from one step to the next. *)
Unlocked == \A p \in Requests : req[p].pc # "start_add"

NoRequests == \A p \in Requests : req[p].pc = "idle"

(* The operation a request that waits at pc is for. *)
OpOf(pc) ==
    CASE pc \in {"start_record", "start_install", "start_add"} -> "start"
      [] pc \in {"remove_take", "remove_cancel", "remove_wait", "remove_delete"} -> "remove"
      [] pc = "present_store" -> "present"
      [] pc \in {"record_store", "record_media"} -> "record"
      [] pc \in {"quality_wait", "quality_mirror", "quality_restart"} -> "quality"
      [] pc \in {"stop_cancel", "stop_wait"} -> "stop"
      [] OTHER -> "none"

(* A request on session s can begin: the web server and the Slack client are up. *)
CanBegin(p, op, s) ==
    /\ phase = "up"
    /\ req[p].pc = "idle"
    /\ op \in Ops
    /\ \A q \in Requests : req[q].sess = s => {op, OpOf(req[q].pc)} \notin Apart

Goto(p, next) == req' = [req EXCEPT ![p].pc = next]

Return(p) == req' = [req EXCEPT ![p] = Idle]

(* A call that fails because its context ended or the service is away. *)
Fails(what) == what \in Faults

(***************************************************************************)
(* The engines one request or runtime still refers to.  A new engine gets  *)
(* a name none of them has, as a new targetRun gets a new address.         *)
(***************************************************************************)
Referenced ==
    live \cup UNION {runtime[s] : s \in Sessions}
         \cup UNION {req[p].held : p \in Requests}

HasName(R) == \A r \in R : \E g \in Gens : [of |-> r, gen |-> g] \notin Referenced

Named(R) ==
    {[of |-> r, gen |-> CHOOSE g \in Gens : [of |-> r, gen |-> g] \notin Referenced] :
        r \in R}

(***************************************************************************)
(* startTarget and startMirror: the goroutines of the engines in new start *)
(* running, each configured with the presentation of its session.  Contexts *)
(* descend from baseCtx, so after a signal they are born cancelled.        *)
(***************************************************************************)
Launch(new, show) ==
    /\ live' = live \cup new
    /\ told' = [e \in live \cup new |-> IF e \in new THEN show[e.of.sess] ELSE told[e]]
    /\ cancelled' = IF phase = "stopping" THEN cancelled \cup new ELSE cancelled

(* The sessions the database calls running. *)
StoredRunning == {s \in Sessions : status[s] = "running"}

(* Faulty: one session too few. *)
OneShort ==
    IF Cardinality(StoredRunning) < ResumeLimit THEN {StoredRunning}
    ELSE {back \in SUBSET StoredRunning : Cardinality(back) = ResumeLimit - 1}

(***************************************************************************)
(* What ListSessions may return: all of them or, if they are more than the *)
(* limit, that many.  The newest are taken; dates are left out, so which   *)
(* they are is open.                                                       *)
(***************************************************************************)
Listed ==
    IF Cardinality(StoredRunning) <= ResumeLimit THEN {StoredRunning}
    ELSE {back \in SUBSET StoredRunning : Cardinality(back) = ResumeLimit}

(* What Resume asks mediamtx of path q, once for each session it brings back. *)
Asked(back, q) == {dbRec[s] : s \in {t \in back : Path[t] = q}}

(***************************************************************************)
(* Resume: at boot, before any request is served, the sessions listed as   *)
(* running each get a runtime, with an engine for each of their rows and   *)
(* for their mirror.  The others stay running in the database only.  A     *)
(* media call that fails is only logged, and of two sessions on one path   *)
(* the later one decides.                                                  *)
(***************************************************************************)
BringBack(back) ==
    LET wanted == {r \in rows : r.sess \in back} \cup UNION {MirrorRows(s) : s \in back}
        new == Named(wanted)
    IN  /\ phase = "down"
        /\ HasName(wanted)
        /\ phase' = "up"
        /\ running' = back
        /\ runtime' = [s \in Sessions |-> {e \in new : e.of.sess = s}]
        /\ pres' = dbPres
        /\ rec' = dbRec
        /\ Launch(new, dbPres)
        /\ recording' \in [Paths -> BOOLEAN]
        /\ \A q \in Paths :
             \/ recording'[q] \in Asked(back, q)
             \/ recording'[q] = recording[q] /\ (Asked(back, q) = {} \/ Fails("media"))
        /\ UNCHANGED <<database, req>>

Resume == \E back \in Listed : BringBack(back)

-----------------------------------------------------------------------------
(* newID draws an id no session ever had. *)
NewId(s) == status[s] = "none"

(***************************************************************************)
(* Start.  The session's row is written first; then mediamtx is told       *)
(* whether to record, a failure being only logged; then, under the lock    *)
(* held to the end, the runtime is installed, the mirror started and each  *)
(* requested channel added, a failure to add one being only logged.        *)
(***************************************************************************)
StartCreate(p, s, chans, show, record) ==
    /\ CanBegin(p, "start", s)
    /\ NewId(s)
    /\ chans # {} /\ SourceChannel[s] \notin chans
    /\ status' = [status EXCEPT ![s] = "running"]
    /\ dbPres' = [dbPres EXCEPT ![s] = show]
    /\ dbRec' = [dbRec EXCEPT ![s] = record]
    /\ req' = [req EXCEPT ![p] = [Idle EXCEPT !.pc = "start_record", !.sess = s,
                                              !.chans = chans]]
    /\ UNCHANGED <<phase, memory, engines, rows, nextId, recording>>

StartRecord(p) ==
    LET s == req[p].sess
    IN  /\ req[p].pc = "start_record"
        /\ \/ recording' = [recording EXCEPT ![Path[s]] = dbRec[s]]
           \/ Fails("media") /\ UNCHANGED recording
        /\ Goto(p, "start_install")
        /\ UNCHANGED <<phase, memory, engines, database>>

StartInstall(p) ==
    LET s == req[p].sess
        new == Named(MirrorRows(s))
    IN  /\ req[p].pc = "start_install"
        /\ Unlocked
        /\ HasName(MirrorRows(s))
        /\ running' = running \cup {s}
        /\ runtime' = [runtime EXCEPT ![s] = new]
        /\ pres' = [pres EXCEPT ![s] = dbPres[s]]
        /\ rec' = [rec EXCEPT ![s] = dbRec[s]]
        /\ Launch(new, dbPres)
        /\ Goto(p, "start_add")
        /\ UNCHANGED <<phase, database, recording>>

(* Faulty: no test for a channel the session already casts to. *)
AnyChannel(s, c) == TRUE

(* addTargetLocked's test: no engine of the runtime casts to channel c. *)
IsNewChannel(s, c) == \A e \in Targets(s) : e.of.chan # c

(* Faulty: what the sessions' rows say. *)
StoredPresentation == dbPres

(* The presentations engines of running sessions are started with. *)
Shown == pres

(* addTargetLocked: the row first, then the engine that works on it. *)
AddTargetLocked(s, c) ==
    LET row == [id |-> nextId, sess |-> s, chan |-> c]
        new == Named({row})
    IN  /\ IsNewChannel(s, c)
        /\ nextId \in TargetIds
        /\ HasName({row})
        /\ rows' = rows \cup {row}
        /\ nextId' = nextId + 1
        /\ runtime' = [runtime EXCEPT ![s] = @ \cup new]
        /\ Launch(new, Shown)
        /\ UNCHANGED <<phase, running, pres, rec, status, dbPres, dbRec, recording>>

StartAdd(p) ==
    \E c \in req[p].chans :
        /\ req[p].pc = "start_add"
        /\ \/ AddTargetLocked(req[p].sess, c)
           \/ Fails("store") /\ UNCHANGED <<phase, memory, engines, database, recording>>
        /\ IF req[p].chans = {c} THEN Return(p)
           ELSE req' = [req EXCEPT ![p].chans = @ \ {c}]

(* AddTarget: one critical section; a failure changes nothing. *)
AddTarget(p, s, c) ==
    /\ CanBegin(p, "add", s)
    /\ Unlocked
    /\ s \in running
    /\ c # SourceChannel[s]
    /\ AddTargetLocked(s, c)
    /\ UNCHANGED req

-----------------------------------------------------------------------------
(***************************************************************************)
(* RemoveTarget.  The engine leaves the runtime under the lock; without it *)
(* the engine is cancelled, waited for (for at most 15 seconds) and only   *)
(* then its row deleted.  An id the runtime does not hold is an error.     *)
(***************************************************************************)
(* Faulty: engines stay in the runtime while they are dealt with. *)
WithAll(s, E) == runtime[s]

(* What the runtime of s holds once a request took the engines E out of it. *)
Without(s, E) == runtime[s] \ E

Take(p, s, id) ==
    \E e \in Targets(s) :
        /\ e.of.id = id
        /\ runtime' = [runtime EXCEPT ![s] = Without(s, {e})]
        /\ req' = [req EXCEPT ![p] = [Idle EXCEPT !.pc = "remove_cancel", !.sess = s,
                                                  !.held = {e}]]
        /\ UNCHANGED <<phase, running, pres, rec, engines, database, recording>>

RemoveTarget(p, s, id) ==
    /\ CanBegin(p, "remove", s)
    /\ Unlocked
    /\ s \in running
    /\ Take(p, s, id)

(* RemoveTargetByChannel looks the id up in a critical section of its own, *)
(* then calls RemoveTarget, which looks for session and target again.      *)
RemoveTargetByChannel(p, s, c) ==
    /\ CanBegin(p, "remove", s)
    /\ Unlocked
    /\ s \in running
    /\ \E e \in Targets(s) :
        /\ e.of.chan = c
        /\ req' = [req EXCEPT ![p] = [Idle EXCEPT !.pc = "remove_take", !.sess = s,
                                                  !.again = {e.of}]]
    /\ UNCHANGED <<phase, memory, engines, database, recording>>

RemoveTake(p) ==
    LET s == req[p].sess
    IN  /\ req[p].pc = "remove_take"
        /\ Unlocked
        /\ \E r \in req[p].again :
            \/ s \in running /\ Take(p, s, r.id)
            \/ /\ s \notin running \/ \A e \in Targets(s) : e.of.id # r.id
               /\ Return(p)
               /\ UNCHANGED <<phase, memory, engines, database, recording>>

(* Faulty: counts contexts of engines that are gone. *)
CancelGone(E) == cancelled' = cancelled \cup E

(* Faulty: the engines are waited for, but their contexts are not cancelled. *)
CancelNothing(E) == cancelled' = cancelled

Cancel(E) == cancelled' = cancelled \cup (E \cap live)

RemoveCancel(p) ==
    /\ req[p].pc = "remove_cancel"
    /\ Cancel(req[p].held)
    /\ Goto(p, "remove_wait")
    /\ UNCHANGED <<phase, memory, live, told, database, recording>>

(* The wait ends when the engine's goroutine has returned or when its 15   *)
(* seconds are over.                                                       *)
RemoveWait(p) ==
    \E e \in req[p].held :
        /\ req[p].pc = "remove_wait"
        /\ e \notin live \/ Fails("timeout")
        /\ Goto(p, "remove_delete")
        /\ UNCHANGED <<phase, memory, engines, database, recording>>

(* Faulty: DeleteTarget is never called. *)
NothingDeleted(p) == {}

RowsDeleted(p) == {e.of : e \in req[p].held}

RemoveDelete(p) ==
    /\ req[p].pc = "remove_delete"
    /\ \/ rows' = rows \ RowsDeleted(p)
       \/ Fails("store") /\ UNCHANGED rows
    /\ Return(p)
    /\ UNCHANGED <<phase, memory, engines, status, dbPres, dbRec, nextId, recording>>

-----------------------------------------------------------------------------
(***************************************************************************)
(* SetPresentation: runtime and engines at once, the row afterwards; the   *)
(* row is written whole, presentation and the status "running".            *)
(***************************************************************************)
SetPresentation(p, s, show) ==
    /\ CanBegin(p, "present", s)
    /\ Unlocked
    /\ s \in running
    /\ pres' = [pres EXCEPT ![s] = show]
    /\ told' = [e \in live |-> IF e \in Targets(s) THEN show ELSE told[e]]
    /\ req' = [req EXCEPT ![p] = [Idle EXCEPT !.pc = "present_store", !.sess = s,
                                              !.value = show]]
    /\ UNCHANGED <<phase, running, runtime, rec, live, cancelled, database, recording>>

PresentStore(p) ==
    LET s == req[p].sess
    IN  /\ req[p].pc = "present_store"
        /\ \/ /\ dbPres' = [dbPres EXCEPT ![s] = req[p].value]
              /\ status' = [status EXCEPT ![s] = "running"]
           \/ Fails("store") /\ UNCHANGED <<dbPres, status>>
        /\ Return(p)
        /\ UNCHANGED <<phase, memory, engines, dbRec, rows, nextId, recording>>

(* SetRecord: the runtime, then the row, then mediamtx. *)
SetRecord(p, s, record) ==
    /\ CanBegin(p, "record", s)
    /\ Unlocked
    /\ s \in running
    /\ rec' = [rec EXCEPT ![s] = record]
    /\ req' = [req EXCEPT ![p] = [Idle EXCEPT !.pc = "record_store", !.sess = s,
                                              !.value = record]]
    /\ UNCHANGED <<phase, running, runtime, pres, engines, database, recording>>

RecordStore(p) ==
    LET s == req[p].sess
    IN  /\ req[p].pc = "record_store"
        /\ \/ /\ dbRec' = [dbRec EXCEPT ![s] = req[p].value]
              /\ Goto(p, "record_media")
           \/ Fails("store") /\ Return(p) /\ UNCHANGED dbRec
        /\ UNCHANGED <<phase, memory, engines, status, dbPres, rows, nextId, recording>>

(* Faulty: mediamtx keeps what it was told when the session started. *)
RecordUntold(p) ==
    /\ req[p].pc = "record_media" /\ Return(p)
    /\ UNCHANGED <<phase, memory, engines, database, recording>>

RecordMedia(p) ==
    LET s == req[p].sess
    IN  /\ req[p].pc = "record_media"
        /\ \/ recording' = [recording EXCEPT ![Path[s]] = req[p].value]
           \/ Fails("media") /\ UNCHANGED recording
        /\ Return(p)
        /\ UNCHANGED <<phase, memory, engines, database>>

-----------------------------------------------------------------------------
(***************************************************************************)
(* SetQuality restarts every engine of the session.  Under the lock it     *)
(* takes them all out of the runtime and cancels the targets; without it   *)
(* it waits for each, cancels the mirror and waits for it; under the lock  *)
(* again, if the session is still there, it starts them anew.              *)
(***************************************************************************)
SetQuality(p, s) ==
    /\ CanBegin(p, "quality", s)
    /\ Unlocked
    /\ s \in running
    /\ Cancel(Targets(s))
    /\ runtime' = [runtime EXCEPT ![s] = Without(s, runtime[s])]
    /\ req' = [req EXCEPT ![p] = [Idle EXCEPT !.pc = "quality_wait", !.sess = s,
                                              !.held = runtime[s],
                                              !.again = {e.of : e \in runtime[s]}]]
    /\ UNCHANGED <<phase, running, pres, rec, live, told, database, recording>>

QualityWait(p) ==
    \E e \in req[p].held :
        /\ req[p].pc = "quality_wait"
        /\ e.of.id # Mirror
        /\ e \notin live \/ Fails("timeout")
        /\ req' = [req EXCEPT ![p].held = @ \ {e}]
        /\ UNCHANGED <<phase, memory, engines, database, recording>>

QualityCancelMirror(p) ==
    /\ req[p].pc = "quality_wait"
    /\ \A e \in req[p].held : e.of.id = Mirror
    /\ Cancel(req[p].held)
    /\ Goto(p, "quality_mirror")
    /\ UNCHANGED <<phase, memory, live, told, database, recording>>

QualityWaitMirror(p) ==
    /\ req[p].pc = "quality_mirror"
    /\ \A e \in req[p].held : e \notin live \/ Fails("timeout")
    /\ req' = [req EXCEPT ![p].pc = "quality_restart", ![p].held = {}]
    /\ UNCHANGED <<phase, memory, engines, database, recording>>

(* Faulty: the session is not looked up again. *)
TakenForGranted(s) == TRUE

StillRunning(s) == s \in running

QualityRestart(p) ==
    LET s == req[p].sess
        new == Named(req[p].again)
    IN  /\ req[p].pc = "quality_restart"
        /\ Unlocked
        /\ \/ /\ StillRunning(s)
              /\ HasName(req[p].again)
              /\ runtime' = [runtime EXCEPT ![s] = @ \cup new]
              /\ Launch(new, Shown)
           \/ ~StillRunning(s) /\ UNCHANGED <<runtime, engines>>
        /\ Return(p)
        /\ UNCHANGED <<phase, running, pres, rec, database, recording>>

-----------------------------------------------------------------------------
(***************************************************************************)
(* Stop.  The runtime leaves the map under the lock; without it the        *)
(* runtime's context is cancelled, and with it every engine descending     *)
(* from it; then targets and mirror are waited for under one deadline of   *)
(* 20 seconds, whose single tick ends one wait; last, the row is marked    *)
(* stopped.                                                                *)
(***************************************************************************)
Stop(p, s) ==
    /\ CanBegin(p, "stop", s)
    /\ Unlocked
    /\ s \in running
    /\ running' = running \ {s}
    /\ runtime' = [runtime EXCEPT ![s] = Without(s, runtime[s])]
    /\ req' = [req EXCEPT ![p] = [Idle EXCEPT !.pc = "stop_cancel", !.sess = s,
                                              !.held = runtime[s]]]
    /\ UNCHANGED <<phase, pres, rec, engines, database, recording>>

(* Faulty: the mirror is forgotten. *)
TargetsBelow(s) == {e \in live : e.of.sess = s /\ e.of.id # Mirror}

(* Faulty: Stop waits for engines it never cancels. *)
NoneBelow(s) == {}

(* The engines whose contexts descend from the runtime's. *)
Below(s) == {e \in live : e.of.sess = s}

StopCancel(p) ==
    /\ req[p].pc = "stop_cancel"
    /\ Cancel(Below(req[p].sess))
    /\ req' = [req EXCEPT ![p].pc = "stop_wait", ![p].deadline = TRUE]
    /\ UNCHANGED <<phase, memory, live, told, database, recording>>

(* Faulty: no deadline. *)
NeverTicks(p) == FALSE

(* The deadline is over and its tick not yet received. *)
Ticks(p) == req[p].deadline /\ Fails("timeout")

StopWait(p) ==
    \E e \in req[p].held :
        /\ req[p].pc = "stop_wait"
        /\ e.of.id = Mirror => req[p].held = {e}
        /\ \/ /\ e \notin live
              /\ req' = [req EXCEPT ![p].held = @ \ {e}]
           \/ /\ Ticks(p)
              /\ req' = [req EXCEPT ![p].held = @ \ {e}, ![p].deadline = FALSE]
        /\ UNCHANGED <<phase, memory, engines, database, recording>>

StopStore(p) ==
    LET s == req[p].sess
    IN  /\ req[p].pc = "stop_wait"
        /\ req[p].held = {}
        /\ \/ /\ status' = [status EXCEPT ![s] = "stopped"]
              /\ dbPres' = [dbPres EXCEPT ![s] = pres[s]]
           \/ Fails("store") /\ UNCHANGED <<status, dbPres>>
        /\ Return(p)
        /\ UNCHANGED <<phase, memory, engines, dbRec, rows, nextId, recording>>

-----------------------------------------------------------------------------
(* An engine's Run returns only once its context is cancelled. *)
EngineExit(e) ==
    /\ e \in cancelled
    /\ live' = live \ {e}
    /\ cancelled' = cancelled \ {e}
    /\ told' = [d \in live \ {e} |-> told[d]]
    /\ UNCHANGED <<phase, memory, database, recording, req>>

(* A signal cancels baseCtx and so every engine; StopAll then waits while  *)
(* the requests already in progress go on.                                 *)
Shutdown ==
    /\ phase = "up" /\ "shutdown" \in Faults
    /\ phase' = "stopping"
    /\ cancelled' = live
    /\ UNCHANGED <<memory, live, told, database, recording, req>>

(***************************************************************************)
(* The process ends: after a signal, or when it crashes, at any moment or  *)
(* ("restart") only while no request is in progress.                       *)
(***************************************************************************)
Exit ==
    /\ \/ phase = "stopping"
       \/ phase = "up" /\ "crash" \in Faults
       \/ phase = "up" /\ "restart" \in Faults /\ NoRequests
    /\ phase' = "down"
    /\ running' = {}
    /\ runtime' = [s \in Sessions |-> {}]
    /\ pres' = NoPresentation
    /\ rec' = NoRecord
    /\ live' = {}
    /\ cancelled' = {}
    /\ told' = [e \in {} |-> NoPresentation]
    /\ req' = [p \in Requests |-> Idle]
    /\ UNCHANGED <<database, recording>>

-----------------------------------------------------------------------------
(* The steps a request takes by itself once it has begun. *)
Continue(p) ==
    \/ StartRecord(p) \/ StartInstall(p) \/ StartAdd(p)
    \/ RemoveTake(p) \/ RemoveCancel(p) \/ RemoveWait(p) \/ RemoveDelete(p)
    \/ PresentStore(p) \/ RecordStore(p) \/ RecordMedia(p)
    \/ QualityWait(p) \/ QualityCancelMirror(p) \/ QualityWaitMirror(p)
    \/ QualityRestart(p)
    \/ StopCancel(p) \/ StopWait(p) \/ StopStore(p)

Begin(p) ==
    \E s \in Sessions :
        \/ \E chans \in SUBSET Channels, show \in Presentations, record \in Records :
               StartCreate(p, s, chans, show, record)
        \/ \E c \in Channels : AddTarget(p, s, c) \/ RemoveTargetByChannel(p, s, c)
        \/ \E id \in TargetIds : RemoveTarget(p, s, id)
        \/ \E show \in Presentations : SetPresentation(p, s, show)
        \/ \E record \in BOOLEAN : SetRecord(p, s, record)
        \/ SetQuality(p, s)
        \/ Stop(p, s)

Next ==
    \/ Resume \/ Shutdown \/ Exit
    \/ \E p \in Requests : Begin(p) \/ Continue(p)
    \/ \E e \in live : EngineExit(e)

Spec == Init /\ [][Next]_vars

(***************************************************************************)
(* Fairness.  The Go scheduler runs every runnable goroutine, and a        *)
(* request's wait has a timer, so a request that can go on does.  An       *)
(* engine whose context is cancelled returns, unless its browser hangs:    *)
(* nothing is assumed of the targets in Stuck.                             *)
(***************************************************************************)
EngineOf(id) == \E e \in live : e.of.id = id /\ EngineExit(e)

Fairness ==
    /\ \A p \in Requests : WF_vars(Continue(p))
    /\ \A id \in (TargetIds \cup {Mirror}) \ Stuck : WF_vars(EngineOf(id))

FairSpec == Spec /\ Fairness
=============================================================================
