------------------------- MODULE SessionProperties -------------------------
(***************************************************************************)
(* What must be true of the session manager, and what it promises its      *)
(* users (Broadcast).                                                      *)
(***************************************************************************)
EXTENDS SessionManager

Working == live \ cancelled

(* The requests that took engine e out of its runtime and will cancel it.  *)
WillCancel(p, e) ==
    /\ e \in req[p].held
    /\ \/ req[p].pc \in {"remove_cancel", "stop_cancel"}
       \/ req[p].pc = "quality_wait" /\ e.of.id = Mirror

(***************************************************************************)
(* Every engine still working is where a user can reach it: in the runtime *)
(* of a running session, or in the hands of a request that is about to     *)
(* cancel it.  An engine that slipped out would stream into a huddle with  *)
(* no way to stop it short of killing the process.                         *)
(***************************************************************************)
NoOrphanEngine ==
    \A e \in Working :
        \/ e.of.sess \in running /\ e \in runtime[e.of.sess]
        \/ \E p \in Requests : WillCancel(p, e)

(***************************************************************************)
(* A target, and a session's mirror, never has two engines at work, however *)
(* quality changes, removals, stops and restarts overlap: two of them would *)
(* join the same huddle from the same browser profile.                     *)
(***************************************************************************)
OneEnginePerTarget ==
    \A e, f \in Working : e.of.sess = f.of.sess /\ e.of.id = f.of.id => e = f

(* A working engine's target is in the database, so that the session page  *)
(* lists it and a request can name it: RemoveTarget deletes the row only   *)
(* after it cancelled the engine, and SetQuality never restarts a target   *)
(* that was removed while its engines were down.                           *)
EngineHasRow == \A e \in Working : e.of.id = Mirror \/ e.of \in rows

(* A session the database calls stopped has no runtime, and no engine of it *)
(* works or will be started by a SetQuality that was under way.            *)
StoppedIsSilent ==
    \A s \in Sessions : status[s] = "stopped" =>
        s \notin running /\ \A e \in Working : e.of.sess # s

(* Every engine in a runtime shows what the session shows, including those *)
(* started by a request that overlapped the change.                        *)
ShowsPresentation ==
    \A s \in running : \A e \in Targets(s) \cap live : told[e] = pres[s]

(* addTargetLocked's "channel is already a target": a session never casts  *)
(* twice into one channel.                                                 *)
ChannelOnce ==
    \A s \in running : \A e, f \in Targets(s) : e.of.chan = f.of.chan => e = f

Quiet == phase = "up" /\ NoRequests

(* When no request is in progress what runs is in the database, with       *)
(* exactly the targets it has there.                                       *)
RunsAsStored ==
    Quiet => /\ running \subseteq StoredRunning
             /\ \A s \in running : {e.of : e \in Targets(s)} = {r \in rows : r.sess = s}

(* And everything the database calls running runs. *)
StoredRuns == Quiet => StoredRunning \subseteq running

(* So far Resume had no more sessions to bring back than it asks for. *)
WithinLimit == Cardinality(StoredRunning) <= ResumeLimit

(***************************************************************************)
(* When no request is in progress the database says what runs, and, as     *)
(* long as it never calls more sessions running than Resume asks for,      *)
(* nothing else: a crash now and a Resume would bring back the same        *)
(* sessions and targets.  Past the limit sessions are left behind, running *)
(* in the database and out of reach of Stop.                               *)
(***************************************************************************)
RestartFaithful == []RunsAsStored /\ ([]WithinLimit => []StoredRuns)

(* The sessions whose path no other session that ever was has. *)
HasOwnPath(s) == \A t \in Sessions : Path[t] = Path[s] /\ status[t] # "none" => t = s

(***************************************************************************)
(* When no request is in progress, runtime and database agree on how each  *)
(* running session is shown and whether it is recorded, and mediamtx was   *)
(* told the same of a path that is the session's own.  Two sessions of one *)
(* stream key share a path, and the last of their calls decides.           *)
(***************************************************************************)
SettingsAgree ==
    Quiet => \A s \in running : /\ dbPres[s] = pres[s]
                                /\ dbRec[s] = rec[s]
                                /\ HasOwnPath(s) => recording[Path[s]] = rec[s]

(* A session that was stopped stays stopped. *)
StoppedForGood ==
    [][\A s \in Sessions : status[s] = "stopped" => status'[s] = "stopped"]_vars

(***************************************************************************)
(* Stop and RemoveTarget come back to their caller.  RemoveTarget does even *)
(* if its engine hangs and never returns.  Stop does if none of its engines *)
(* hangs, or the only engine it waits for: the deadline its waits share is *)
(* a channel that holds one tick, so it frees Stop from one engine only.   *)
(***************************************************************************)
CallsReturn ==
    \A p \in Requests :
        /\ req[p].pc = "remove_cancel" ~> req[p].pc = "idle"
        /\ /\ req[p].pc = "stop_cancel"
           /\ \/ Cardinality(req[p].held) <= 1
              \/ \A e \in req[p].held : e.of.id \notin Stuck
           ~> req[p].pc = "idle"

RowSession(r) == r.sess

(* Sessions and targets as Broadcast sees them. *)
Cast == INSTANCE Broadcast WITH
    Places <- Row,
    SessionOf <- RowSession,
    life <- status,
    casting <- {e.of : e \in Working}

CastSpec == Cast!Spec

-----------------------------------------------------------------------------
(***************************************************************************)
(* The inductive invariant behind NoOrphanEngine, OneEnginePerTarget,      *)
(* EngineHasRow, StoppedIsSilent and ShowsPresentation.  Its heart is      *)
(* ownership: the row of an engine belongs to one runtime, or to the one   *)
(* request that took the engine out of it and has yet to delete the row,   *)
(* start it again or cancel it.                                            *)
(***************************************************************************)
Owns(r) ==
    IF r.pc \in {"remove_cancel", "remove_wait", "remove_delete", "stop_cancel"}
    THEN {e.of : e \in r.held}
    ELSE IF r.pc \in {"quality_wait", "quality_mirror", "quality_restart"}
    THEN r.again
    ELSE {}

KnownRow(s, r) == r.sess = s /\ (r = MirrorRow(s) \/ r \in rows)

Silent(s) == \A e \in Working : e.of.sess # s

DownInv == phase = "down" =>
    /\ running = {} /\ live = {}
    /\ \A s \in Sessions : runtime[s] = {}
    /\ \A p \in Requests : req[p] = Idle

TableInv ==
    /\ \A r \in rows : r.id \in TargetIds /\ r.id < nextId
    /\ \A r, t \in rows : r.id = t.id => r = t

RuntimeInv == \A s \in Sessions :
    /\ s \in running => status[s] = "running"
    /\ s \notin running => runtime[s] = {}
    /\ \A e \in runtime[s] : KnownRow(s, e.of)
    /\ \A e, f \in runtime[s] : e.of = f.of => e = f

(* The session of a request exists; what Start and Stop know of theirs.   *)
RequestInv == \A p \in Requests :
    LET r == req[p] IN
    /\ r.pc = "idle" => r = Idle
    /\ r.pc # "idle" => status[r.sess] # "none"
    /\ r.pc \in {"start_record", "start_install", "start_add"} =>
         /\ status[r.sess] = "running"
         /\ \A q \in Requests \ {p} : req[q].sess # r.sess
    /\ r.pc \in {"start_record", "start_install"} => r.sess \notin running /\ Silent(r.sess)
    /\ r.pc = "start_add" => r.sess \in running
    /\ r.pc \in {"stop_cancel", "stop_wait"} => r.sess \notin running
    /\ r.pc = "stop_wait" => Silent(r.sess)

OwnerInv == \A p \in Requests :
    LET r == req[p] IN
    /\ \A o \in Owns(r) :
         /\ KnownRow(r.sess, o)
         /\ \A e \in runtime[r.sess] : e.of # o
         /\ \A q \in Requests \ {p} : o \notin Owns(req[q])
    /\ r.pc \in {"remove_cancel", "stop_cancel", "quality_wait"} =>
         \A e, f \in r.held : e.of = f.of => e = f
    /\ r.pc = "quality_wait" => \A e \in r.held : e.of \in r.again

WorkingInv == \A e \in Working :
    \/ e \in runtime[e.of.sess]
    \/ \E p \in Requests : WillCancel(p, e)

StoppedInv == \A s \in Sessions : status[s] = "stopped" => s \notin running /\ Silent(s)

Inv ==
    /\ TypeOK /\ DownInv /\ TableInv /\ RuntimeInv
    /\ RequestInv /\ OwnerInv /\ WorkingInv /\ StoppedInv
-----------------------------------------------------------------------------
(***************************************************************************)
(* The invariants behind what holds if certain requests on one session do  *)
(* not overlap (Apart) and the database works.                             *)
(***************************************************************************)
(* While SetPresentation is to write its row, its session runs.            *)
PresentInv == {"present", "stop"} \in Apart =>
    \A p \in Requests : req[p].pc = "present_store" => req[p].sess \in running

(* A row belongs to a session that was started; a running session's has an *)
(* engine in the runtime or a request that took the engine out.            *)
RowsInv == \A r \in rows :
    /\ status[r.sess] # "none"
    /\ \A p \in Requests : req[p].pc \in {"start_record", "start_install"} => req[p].sess # r.sess
    /\ r.sess \in running =>
         \/ \E e \in runtime[r.sess] : e.of = r
         \/ \E p \in Requests : r \in Owns(req[p])

(* A session the database calls running runs, or is on its way in or out,  *)
(* unless a Resume left it behind.                                         *)
RunningInv == phase # "down" => \A s \in Sessions : status[s] = "running" =>
    \/ s \in running
    \/ \E p \in Requests :
         /\ req[p].sess = s
         /\ req[p].pc \in {"start_record", "start_install", "stop_cancel", "stop_wait"}

(* The rows a RemoveTarget has yet to delete. *)
Leaving(r) == \E p \in Requests : OpOf(req[p].pc) = "remove" /\ r \in Owns(req[p])

(* Two rows of a session are for different channels, but for those that    *)
(* are to be deleted; and the process does not end with any of those.      *)
ChannelsInv ==
    /\ \A r, t \in rows :
         r.sess = t.sess /\ r.chan = t.chan /\ ~Leaving(r) /\ ~Leaving(t) => r = t
    /\ phase # "stopping"

Writing(s, pcs) == \E p \in Requests : req[p].sess = s /\ req[p].pc \in pcs

(* What a session shows and records is what is stored and what mediamtx    *)
(* was told, but for what a request is still to write.                     *)
SettingsInv ==
    /\ \A s \in running :
         /\ dbPres[s] = pres[s] \/ Writing(s, {"present_store"})
         /\ dbRec[s] = rec[s] \/ Writing(s, {"record_store"})
         /\ \/ ~HasOwnPath(s)
            \/ recording[Path[s]] = rec[s]
            \/ Writing(s, {"record_store", "record_media"})
    /\ \A p \in Requests :
         LET r == req[p]
         IN  /\ r.pc = "present_store" => r.value = pres[r.sess]
             /\ r.pc \in {"record_store", "record_media"} => r.value = rec[r.sess]
             /\ r.pc = "start_install" /\ HasOwnPath(r.sess) =>
                    recording[Path[r.sess]] = dbRec[r.sess]
=============================================================================
