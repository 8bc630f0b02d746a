------------------------ MODULE SessionManager_proofs ------------------------
(***************************************************************************)
(* Proofs about the session manager, for any sessions, channels, number of *)
(* requests in progress and issued, and faults.                            *)
(*                                                                         *)
(* Part 1: types.  Part 2: Inv is inductive, and with it every safety      *)
(* property checked for overlapping requests.  Part 3: requests that come  *)
(* one at a time for a session, that the process does what Broadcast       *)
(* promises, and that what is set survives a restart.                      *)
(***************************************************************************)
EXTENDS SessionProperties, TLAPS

(* Named gives each row of R exactly one engine that works on it.          *)
LEMMA NamedEngines ==
    ASSUME NEW R \in SUBSET Row, HasName(R)
    PROVE  /\ Named(R) \subseteq Engine
           /\ \A e \in Named(R) : e.of \in R
           /\ \A e, f \in Named(R) : e.of = f.of => e = f
<1> DEFINE pick(r) == CHOOSE g \in Gens : [of |-> r, gen |-> g] \notin Referenced
<1>1. \A r \in R : pick(r) \in Gens
  BY DEF HasName
<1>2. \A e \in Named(R) : \E r \in R : e = [of |-> r, gen |-> pick(r)]
  BY DEF Named
<1> HIDE DEF pick
<1>3. \A e \in Named(R) : e.of \in R /\ e = [of |-> e.of, gen |-> pick(e.of)]
  BY <1>2
<1>4. Named(R) \subseteq Engine
  BY <1>1, <1>2 DEF Engine
<1> QED
  BY <1>3, <1>4

(* The row a mirror works on is a row.                                     *)
LEMMA MirrorRowType == \A s \in Sessions : MirrorRow(s) \in Row /\ MirrorRows(s) \in SUBSET Row
  BY SourceAssumption DEF MirrorRow, MirrorRows, Row, Mirror

(* A request that is not in progress has the shape of a request.          *)
LEMMA IdleType == Idle \in Request
  BY DEF Idle, Request, PCs, NoSession

(***************************************************************************)
(* Types.  The shapes of step a request takes, first.                      *)
(***************************************************************************)
RequestsTyped ==
    /\ req \in [Requests -> Request]
    /\ \A p \in Requests : WellFormed(req[p])

(* The row and the session of an engine.                                   *)
LEMMA EngineFields ==
    \A e \in Engine : /\ e.of \in Row /\ e.of.sess \in Sessions
                      /\ e.of.id \in TargetIds \cup {Mirror}
  BY DEF Engine, Row

(* Requests keep their types when one of them takes new locals.            *)
LEMMA SetRequest ==
    ASSUME RequestsTyped, NEW p \in Requests, NEW r \in Request, WellFormed(r),
           req' = [req EXCEPT ![p] = r]
    PROVE  RequestsTyped'
  BY DEF RequestsTyped, WellFormed

(* ... when one goes on to its next step,                                  *)
LEMMA GotoTyped ==
    ASSUME RequestsTyped, NEW p \in Requests, NEW next \in PCs, req[p].pc # "idle",
           next # "present_store", next # "record_store",
           next = "record_media" => req[p].pc = "record_store",
           Goto(p, next)
    PROVE  RequestsTyped'
<1> DEFINE r == [req[p] EXCEPT !.pc = next]
<1>1. req' = [req EXCEPT ![p] = r]
  BY DEF Goto, RequestsTyped
<1>2. req[p] \in Request /\ WellFormed(req[p])
  BY DEF RequestsTyped
<1>3. r \in Request
  BY <1>2 DEF Request
<1>4. WellFormed(r)
  BY <1>2 DEF WellFormed, Request
<1> QED
  BY <1>1, <1>3, <1>4, SetRequest

(* ... when one returns,                                                   *)
LEMMA ReturnTyped ==
    ASSUME RequestsTyped, NEW p \in Requests, Return(p)
    PROVE  RequestsTyped'
  BY SetRequest, IdleType DEF Return, WellFormed, Idle

(* ... and when one has waited for an engine.                              *)
LEMMA DropTyped ==
    ASSUME RequestsTyped, NEW p \in Requests, NEW e,
           req' = [req EXCEPT ![p].held = @ \ {e}]
    PROVE  RequestsTyped'
<1> DEFINE r == [req[p] EXCEPT !.held = @ \ {e}]
<1>1. req' = [req EXCEPT ![p] = r]
  BY DEF RequestsTyped
<1>2. req[p] \in Request /\ WellFormed(req[p])
  BY DEF RequestsTyped
<1>3. r \in Request /\ WellFormed(r)
  BY <1>2 DEF Request, WellFormed
<1> QED
  BY <1>1, <1>3, SetRequest

(* startTarget and startMirror keep the types of the engines.              *)
LEMMA LaunchTyped ==
    ASSUME TypeOK, NEW new \in SUBSET Engine, NEW f \in [Sessions -> Presentations],
           Launch(new, f)
    PROVE  live' \subseteq Engine /\ cancelled' \subseteq live' /\ told' \in [live' -> Presentations]
  BY EngineFields DEF Launch, TypeOK

(* The types hold at first boot.                                           *)
LEMMA ListedRun == \A back \in Listed : back \subseteq StoredRunning
BY DEF Listed

LEMMA TypeInit == Init => TypeOK
<1> SUFFICES ASSUME Init PROVE TypeOK
  OBVIOUS
<1>1. (CHOOSE p \in Presentations : TRUE) \in Presentations
  BY ChoicesAssumption
<1>2. NoPresentation \in [Sessions -> Presentations]
  BY <1>1 DEF NoPresentation
<1> QED
  BY <1>2, IdleType DEF Init, TypeOK, NoRecord, WellFormed, Idle

(* addTargetLocked and what it starts keep the types,                      *)
LEMMA AddTyped ==
    ASSUME TypeOK, NEW s \in Sessions, NEW c \in Channels, AddTargetLocked(s, c), RequestsTyped'
    PROVE  TypeOK'
<1> DEFINE row == [id |-> nextId, sess |-> s, chan |-> c]
           new == Named({row})
<1>1. row \in Row
  BY DEF AddTargetLocked, Row
<1>2. new \in SUBSET Engine
  BY <1>1, NamedEngines DEF AddTargetLocked
<1>3. Launch(new, pres)
  BY DEF AddTargetLocked, Launch, Shown
<1>4. live' \subseteq Engine /\ cancelled' \subseteq live' /\ told' \in [live' -> Presentations]
  BY <1>2, <1>3, LaunchTyped DEF TypeOK
<1>5. /\ rows' = rows \cup {row} /\ nextId' = nextId + 1
      /\ runtime' = [runtime EXCEPT ![s] = @ \cup new]
      /\ UNCHANGED <<phase, running, pres, rec, status, dbPres, dbRec, recording>>
  BY DEF AddTargetLocked
<1> HIDE DEF row, new
<1> QED
  BY <1>1, <1>2, <1>4, <1>5 DEF TypeOK, RequestsTyped

(* ... and so does a removal that takes an engine.                         *)
LEMMA TakeTyped ==
    ASSUME TypeOK, NEW p \in Requests, NEW s \in Sessions, NEW id, Take(p, s, id)
    PROVE  TypeOK'
<1>1. PICK e \in Targets(s) :
         /\ runtime' = [runtime EXCEPT ![s] = Without(s, {e})]
         /\ req' = [req EXCEPT ![p] = [Idle EXCEPT !.pc = "remove_cancel", !.sess = s,
                                                   !.held = {e}]]
  BY DEF Take
<1> DEFINE r == [Idle EXCEPT !.pc = "remove_cancel", !.sess = s, !.held = {e}]
<1>2. req' = [req EXCEPT ![p] = r]
  BY <1>1
<1>3. e \in Engine
  BY DEF Targets, TypeOK
<1>4. r \in Request /\ WellFormed(r)
  BY <1>3, IdleType DEF PCs, Request, WellFormed, Idle
<1>5. RequestsTyped'
  BY <1>2, <1>4, SetRequest DEF TypeOK, RequestsTyped
<1> QED
  BY <1>1, <1>5 DEF Take, TypeOK, RequestsTyped, Without, engines, database

(* Every step keeps the types.                                             *)
LEMMA TypeNext == TypeOK /\ [Next]_vars => TypeOK'
<1> SUFFICES ASSUME TypeOK, [Next]_vars PROVE TypeOK'
  OBVIOUS
<1> USE DEF memory, engines, database
<1>0. NoPresentation \in [Sessions -> Presentations] /\ NoRecord \in [Sessions -> BOOLEAN]
  <2>1. (CHOOSE p \in Presentations : TRUE) \in Presentations
    BY ChoicesAssumption
  <2> QED
    BY <2>1 DEF NoPresentation, NoRecord
<1>1. CASE Resume
  <2>0. PICK back \in Listed : BringBack(back)
    BY <1>1 DEF Resume
  <2>6. back \subseteq Sessions
    BY ListedRun DEF StoredRunning
  <2> DEFINE wanted == {r \in rows : r.sess \in back} \cup UNION {MirrorRows(s) : s \in back}
  <2>1. wanted \in SUBSET Row
    BY <2>6, MirrorRowType DEF TypeOK
  <2>2. Named(wanted) \subseteq Engine
    BY <2>0, <2>1, NamedEngines DEF BringBack
  <2>3. \A e \in Engine : e.of.sess \in Sessions
    BY DEF Engine, Row
  <2> DEFINE new == Named(wanted)
  <2>4. /\ phase' = "up" /\ running' \subseteq Sessions
        /\ runtime' = [s \in Sessions |-> {e \in new : e.of.sess = s}]
        /\ pres' = dbPres /\ rec' = dbRec
        /\ live' = live \cup new
        /\ told' = [e \in live \cup new |-> IF e \in new THEN dbPres[e.of.sess] ELSE told[e]]
        /\ cancelled' = IF phase = "stopping" THEN cancelled \cup new ELSE cancelled
        /\ recording' \in [Paths -> BOOLEAN]
        /\ UNCHANGED <<status, dbPres, dbRec, rows, nextId, req>>
    BY <2>0, <2>6 DEF BringBack, Launch
  <2> HIDE DEF new, wanted
  <2>5. new \subseteq Engine
    BY <2>2 DEF new
  <2> QED
    BY <2>3, <2>4, <2>5 DEF TypeOK
<1>2. CASE Shutdown
  BY <1>2 DEF Shutdown, TypeOK
<1>3. CASE Exit
  BY <1>0, <1>3, IdleType DEF Exit, TypeOK, WellFormed, Idle
<1>4. ASSUME NEW e \in live, EngineExit(e) PROVE TypeOK'
  BY <1>4 DEF EngineExit, TypeOK
<1>5. ASSUME NEW p \in Requests, Continue(p) PROVE TypeOK'
  <2>0. RequestsTyped /\ req[p] \in Request /\ WellFormed(req[p])
    BY DEF RequestsTyped, TypeOK
  <2>1. CASE StartRecord(p)
    <3>1. RequestsTyped'
      BY <2>0, <2>1, GotoTyped DEF StartRecord, PCs
    <3> QED
      BY <2>0, <2>1, <3>1 DEF StartRecord, TypeOK, RequestsTyped, WellFormed, Cancel
  <2>2. CASE StartInstall(p)
    <3> DEFINE s == req[p].sess
               new == Named(MirrorRows(s))
    <3>1. s \in Sessions /\ new \in SUBSET Engine
      BY <2>0, <2>2, NamedEngines, MirrorRowType DEF StartInstall, WellFormed
    <3>2. Launch(new, dbPres)
      BY <2>2 DEF StartInstall
    <3>3. RequestsTyped'
      BY <2>0, <2>2, GotoTyped DEF StartInstall, PCs
    <3>4. live' \subseteq Engine /\ cancelled' \subseteq live' /\ told' \in [live' -> Presentations]
      BY <3>1, <3>2, LaunchTyped DEF TypeOK
    <3> HIDE DEF new, s
    <3>5. running' = running \cup {s} /\ runtime' = [runtime EXCEPT ![s] = new]
          /\ pres' = [pres EXCEPT ![s] = dbPres[s]] /\ rec' = [rec EXCEPT ![s] = dbRec[s]]
          /\ UNCHANGED <<phase, database, recording>>
      BY <2>2 DEF StartInstall, new, s
    <3> QED
      BY <3>1, <3>3, <3>4, <3>5 DEF TypeOK, RequestsTyped
  <2>3. CASE StartAdd(p)
    <3>1. PICK c \in req[p].chans :
             /\ \/ AddTargetLocked(req[p].sess, c)
                \/ UNCHANGED <<phase, memory, engines, database, recording>>
             /\ IF req[p].chans = {c} THEN Return(p)
                ELSE req' = [req EXCEPT ![p].chans = @ \ {c}]
      BY <2>3 DEF StartAdd
    <3>2. RequestsTyped'
      <4> DEFINE r == [req[p] EXCEPT !.chans = @ \ {c}]
      <4>1. r \in Request /\ WellFormed(r)
        BY <2>0 DEF Request, WellFormed
      <4>2. CASE req' = [req EXCEPT ![p].chans = @ \ {c}]
        <5>1. req' = [req EXCEPT ![p] = r]
          BY <2>0, <4>2 DEF RequestsTyped
        <5> QED
          BY <2>0, <4>1, <5>1, SetRequest
      <4> QED
        BY <2>0, <3>1, <4>2, ReturnTyped
    <3>3. req[p].sess \in Sessions /\ c \in Channels
      BY <2>0, <2>3 DEF StartAdd, WellFormed, Request
    <3> QED
      BY <3>1, <3>2, <3>3, AddTyped DEF TypeOK, RequestsTyped
  <2>4. CASE RemoveTake(p)
    <3>1. req[p].sess \in Sessions
      BY <2>0, <2>4 DEF RemoveTake, WellFormed
    <3>2. PICK r \in req[p].again :
             \/ Take(p, req[p].sess, r.id)
             \/ Return(p) /\ UNCHANGED <<phase, memory, engines, database, recording>>
      BY <2>4 DEF RemoveTake
    <3> QED
      BY <2>0, <3>1, <3>2, TakeTyped, ReturnTyped DEF TypeOK, RequestsTyped
  <2>5. CASE RemoveCancel(p)
    <3>1. RequestsTyped'
      BY <2>0, <2>5, GotoTyped DEF RemoveCancel, PCs
    <3> QED
      BY <2>0, <2>5, <3>1 DEF RemoveCancel, TypeOK, RequestsTyped, WellFormed, Cancel
  <2>6. CASE RemoveWait(p)
    <3>1. RequestsTyped'
      BY <2>0, <2>6, GotoTyped DEF RemoveWait, PCs
    <3> QED
      BY <2>0, <2>6, <3>1 DEF RemoveWait, TypeOK, RequestsTyped, WellFormed, Cancel
  <2>7. CASE RemoveDelete(p)
    <3>1. RequestsTyped'
      BY <2>0, <2>7, ReturnTyped DEF RemoveDelete, PCs
    <3> QED
      BY <2>0, <2>7, <3>1 DEF RemoveDelete, TypeOK, RequestsTyped, WellFormed, Cancel
  <2>8. CASE PresentStore(p)
    <3>1. RequestsTyped'
      BY <2>0, <2>8, ReturnTyped DEF PresentStore, PCs
    <3> QED
      BY <2>0, <2>8, <3>1 DEF PresentStore, TypeOK, RequestsTyped, WellFormed, Cancel
  <2>9. CASE RecordStore(p)
    <3>1. RequestsTyped'
      BY <2>0, <2>9, GotoTyped, ReturnTyped DEF RecordStore, PCs
    <3> QED
      BY <2>0, <2>9, <3>1 DEF RecordStore, TypeOK, RequestsTyped, WellFormed, Cancel
  <2>10. CASE RecordMedia(p)
    <3>1. RequestsTyped'
      BY <2>0, <2>10, ReturnTyped DEF RecordMedia, PCs
    <3> QED
      BY <2>0, <2>10, <3>1 DEF RecordMedia, TypeOK, RequestsTyped, WellFormed, Cancel
  <2>11. CASE QualityWait(p)
    <3>1. RequestsTyped'
      BY <2>0, <2>11, DropTyped DEF QualityWait, PCs
    <3> QED
      BY <2>0, <2>11, <3>1 DEF QualityWait, TypeOK, RequestsTyped, WellFormed, Cancel
  <2>12. CASE QualityCancelMirror(p)
    <3>1. RequestsTyped'
      BY <2>0, <2>12, GotoTyped DEF QualityCancelMirror, PCs
    <3> QED
      BY <2>0, <2>12, <3>1 DEF QualityCancelMirror, TypeOK, RequestsTyped, WellFormed, Cancel
  <2>13. CASE QualityWaitMirror(p)
    <3> DEFINE r == [req[p] EXCEPT !.pc = "quality_restart", !.held = {}]
    <3>1. req' = [req EXCEPT ![p] = r]
      BY <2>0, <2>13 DEF QualityWaitMirror, RequestsTyped
    <3>2. r \in Request /\ WellFormed(r)
      BY <2>0, <2>13 DEF QualityWaitMirror, Request, WellFormed, PCs
    <3> QED
      BY <2>0, <2>13, <3>1, <3>2, SetRequest DEF QualityWaitMirror, TypeOK, RequestsTyped
  <2>14. CASE QualityRestart(p)
    <3> DEFINE s == req[p].sess
               new == Named(req[p].again)
    <3>1. RequestsTyped'
      BY <2>0, <2>14, ReturnTyped DEF QualityRestart
    <3>2. s \in Sessions
      BY <2>0, <2>14 DEF QualityRestart, WellFormed
    <3>3. CASE s \in running
      <4>1. new \in SUBSET Engine
        BY <2>0, <2>14, <3>3, NamedEngines DEF QualityRestart, StillRunning, Request
      <4>2. Launch(new, pres)
        BY <2>14, <3>3 DEF QualityRestart, StillRunning, Launch, Shown
      <4>3. live' \subseteq Engine /\ cancelled' \subseteq live' /\ told' \in [live' -> Presentations]
        BY <4>1, <4>2, LaunchTyped DEF TypeOK
      <4> HIDE DEF new, s
      <4>4. runtime' = [runtime EXCEPT ![s] = @ \cup new]
            /\ UNCHANGED <<phase, running, pres, rec, database, recording>>
        BY <2>14, <3>3 DEF QualityRestart, StillRunning, new, s
      <4> QED
        BY <3>1, <3>2, <4>1, <4>3, <4>4 DEF TypeOK, RequestsTyped
    <3>4. CASE s \notin running
      BY <2>14, <3>1, <3>4 DEF QualityRestart, StillRunning, TypeOK, RequestsTyped
    <3> QED
      BY <3>3, <3>4
  <2>15. CASE StopCancel(p)
    <3> DEFINE r == [req[p] EXCEPT !.pc = "stop_wait", !.deadline = TRUE]
    <3>1. req' = [req EXCEPT ![p] = r]
      BY <2>0, <2>15 DEF StopCancel, RequestsTyped
    <3>2. r \in Request /\ WellFormed(r)
      BY <2>0, <2>15 DEF StopCancel, Request, WellFormed, PCs
    <3> QED
      BY <2>0, <2>15, <3>1, <3>2, SetRequest DEF StopCancel, Cancel, TypeOK, RequestsTyped
  <2>16. CASE StopWait(p)
    <3>1. PICK e \in req[p].held :
             \/ req' = [req EXCEPT ![p].held = @ \ {e}]
             \/ req' = [req EXCEPT ![p].held = @ \ {e}, ![p].deadline = FALSE]
      BY <2>16 DEF StopWait
    <3>2. CASE req' = [req EXCEPT ![p].held = @ \ {e}, ![p].deadline = FALSE]
      <4> DEFINE r == [req[p] EXCEPT !.held = @ \ {e}, !.deadline = FALSE]
      <4>1. req' = [req EXCEPT ![p] = r]
        BY <2>0, <3>2 DEF RequestsTyped
      <4>2. r \in Request /\ WellFormed(r)
        BY <2>0 DEF Request, WellFormed
      <4> QED
        BY <2>0, <2>16, <4>1, <4>2, SetRequest DEF StopWait, TypeOK, RequestsTyped
    <3> QED
      BY <2>0, <2>16, <3>1, <3>2, DropTyped DEF StopWait, TypeOK, RequestsTyped
  <2>17. CASE StopStore(p)
    <3>1. RequestsTyped'
      BY <2>0, <2>17, ReturnTyped DEF StopStore, PCs
    <3> QED
      BY <2>0, <2>17, <3>1 DEF StopStore, TypeOK, RequestsTyped, WellFormed, Cancel
  <2> QED
    BY <1>5, <2>1, <2>2, <2>3, <2>4, <2>5, <2>6, <2>7, <2>8, <2>9, <2>10, <2>11, <2>12, <2>13, <2>14, <2>15, <2>16, <2>17 DEF Continue
<1>6. ASSUME NEW p \in Requests, Begin(p) PROVE TypeOK'
  <2>0. RequestsTyped
    BY DEF RequestsTyped, TypeOK
  <2> SUFFICES ASSUME NEW s \in Sessions,
                      \/ \E chans \in SUBSET Channels, show \in Presentations, record \in BOOLEAN :
                             StartCreate(p, s, chans, show, record)
                      \/ \E c \in Channels : AddTarget(p, s, c) \/ RemoveTargetByChannel(p, s, c)
                      \/ \E id \in TargetIds : RemoveTarget(p, s, id)
                      \/ \E show \in Presentations : SetPresentation(p, s, show)
                      \/ \E record \in BOOLEAN : SetRecord(p, s, record)
                      \/ SetQuality(p, s)
                      \/ Stop(p, s)
               PROVE  TypeOK'
    BY <1>6, ChoicesAssumption DEF Begin
  <2>1. ASSUME NEW chans \in SUBSET Channels, NEW show \in Presentations, NEW record \in BOOLEAN,
               StartCreate(p, s, chans, show, record)
        PROVE  TypeOK'
    <3> DEFINE r == [Idle EXCEPT !.pc = "start_record", !.sess = s, !.chans = chans]
    <3>1. req' = [req EXCEPT ![p] = r]
      BY <2>1 DEF StartCreate
    <3>2. r \in Request /\ WellFormed(r)
      BY IdleType DEF PCs, TypeOK, Request, WellFormed, Idle
    <3>3. RequestsTyped'
      BY <2>0, <3>1, <3>2, SetRequest
    <3> QED
      BY <2>1, <3>3 DEF StartCreate, TypeOK, RequestsTyped, Cancel, Without
  <2>2. ASSUME NEW c \in Channels, AddTarget(p, s, c) PROVE TypeOK'
    BY <2>0, <2>2, AddTyped DEF AddTarget, TypeOK, RequestsTyped
  <2>3. ASSUME NEW c \in Channels, RemoveTargetByChannel(p, s, c) PROVE TypeOK'
    <3>0. PICK e \in Targets(s) :
             req' = [req EXCEPT ![p] = [Idle EXCEPT !.pc = "remove_take", !.sess = s,
                                                    !.again = {e.of}]]
      BY <2>3 DEF RemoveTargetByChannel
    <3>4. {e.of} \in SUBSET Row
      BY EngineFields DEF Targets, TypeOK
    <3> DEFINE r == [Idle EXCEPT !.pc = "remove_take", !.sess = s, !.again = {e.of}]
    <3>1. req' = [req EXCEPT ![p] = r]
      BY <3>0 DEF RemoveTargetByChannel
    <3>2. r \in Request /\ WellFormed(r)
      BY IdleType, <3>4 DEF PCs, TypeOK, Request, WellFormed, Idle
    <3>3. RequestsTyped'
      BY <2>0, <3>1, <3>2, SetRequest
    <3> QED
      BY <2>3, <3>3 DEF RemoveTargetByChannel, TypeOK, RequestsTyped, Cancel, Without
  <2>4. ASSUME NEW id \in TargetIds, RemoveTarget(p, s, id) PROVE TypeOK'
    BY <2>0, <2>4, TakeTyped DEF RemoveTarget
  <2>5. ASSUME NEW show \in Presentations, SetPresentation(p, s, show) PROVE TypeOK'
    <3> DEFINE r == [Idle EXCEPT !.pc = "present_store", !.sess = s, !.value = show]
    <3>1. req' = [req EXCEPT ![p] = r]
      BY <2>5 DEF SetPresentation
    <3>2. r \in Request /\ WellFormed(r)
      BY IdleType DEF PCs, TypeOK, Request, WellFormed, Idle
    <3>3. RequestsTyped'
      BY <2>0, <3>1, <3>2, SetRequest
    <3> QED
      BY <2>5, <3>3 DEF SetPresentation, TypeOK, RequestsTyped, Cancel, Without
  <2>6. ASSUME NEW record \in BOOLEAN, SetRecord(p, s, record) PROVE TypeOK'
    <3> DEFINE r == [Idle EXCEPT !.pc = "record_store", !.sess = s, !.value = record]
    <3>1. req' = [req EXCEPT ![p] = r]
      BY <2>6 DEF SetRecord
    <3>2. r \in Request /\ WellFormed(r)
      BY IdleType DEF PCs, TypeOK, Request, WellFormed, Idle
    <3>3. RequestsTyped'
      BY <2>0, <3>1, <3>2, SetRequest
    <3> QED
      BY <2>6, <3>3 DEF SetRecord, TypeOK, RequestsTyped, Cancel, Without
  <2>7. CASE SetQuality(p, s)
    <3>4. {e.of : e \in runtime[s]} \in SUBSET Row /\ runtime[s] \in SUBSET Engine
      BY EngineFields DEF TypeOK
    <3> DEFINE r == [Idle EXCEPT !.pc = "quality_wait", !.sess = s, !.held = runtime[s],
                                   !.again = {x.of : x \in runtime[s]}]
    <3>1. req' = [req EXCEPT ![p] = r]
      BY <2>7 DEF SetQuality
    <3>2. r \in Request /\ WellFormed(r)
      BY IdleType, <3>4 DEF PCs, TypeOK, Request, WellFormed, Idle
    <3>3. RequestsTyped'
      BY <2>0, <3>1, <3>2, SetRequest
    <3> QED
      BY <2>7, <3>3 DEF SetQuality, TypeOK, RequestsTyped, Cancel, Without
  <2>8. CASE Stop(p, s)
    <3> DEFINE r == [Idle EXCEPT !.pc = "stop_cancel", !.sess = s, !.held = runtime[s]]
    <3>1. req' = [req EXCEPT ![p] = r]
      BY <2>8 DEF Stop
    <3>2. r \in Request /\ WellFormed(r)
      BY IdleType DEF PCs, TypeOK, Request, WellFormed, Idle
    <3>3. RequestsTyped'
      BY <2>0, <3>1, <3>2, SetRequest
    <3> QED
      BY <2>8, <3>3 DEF Stop, TypeOK, RequestsTyped, Cancel, Without
  <2> QED
    BY <2>1, <2>2, <2>3, <2>4, <2>5, <2>6, <2>7, <2>8
<1>7. CASE UNCHANGED vars
  BY <1>7 DEF vars, TypeOK
<1> QED
  BY <1>1, <1>2, <1>3, <1>4, <1>5, <1>6, <1>7 DEF Next

(* Every variable keeps its type, whatever the requests and faults.        *)
THEOREM TypeCorrect == Spec => []TypeOK
<1>1. Init => TypeOK
  BY TypeInit
<1>2. TypeOK /\ [Next]_vars => TypeOK'
  BY TypeNext
<1> QED
  BY <1>1, <1>2, PTL DEF Spec

-----------------------------------------------------------------------------
(***************************************************************************)
(* Part 2.  The invariant Inv of SessionProperties.                        *)
(*                                                                         *)
(* Steps fall into a few shapes, each with a lemma of its own: a request   *)
(* that begins (BeginStep) or goes on by itself (LocalStep), engines that  *)
(* leave a runtime (TakeStep), enter it (AddTargetStep, StartInstallInv,   *)
(* QualityRestartInv) or return (FadeStep), and the process (ResumeInv,    *)
(* ExitInv).                                                               *)
(***************************************************************************)

(* What the steps a request takes by itself mostly leave alone. *)
Frame == <<phase, running, runtime, live, rows, nextId>>

(* Where Start has still to finish. *)
Starting == {"start_record", "start_install", "start_add"}

(* What a step that changes the locals of request p alone does to others. *)
LEMMA Others ==
    ASSUME TypeOK, NEW p \in Requests, NEW r, req' = [req EXCEPT ![p] = r]
    PROVE  \A q \in Requests : req'[q] = IF q = p THEN r ELSE req[q]
  BY DEF TypeOK

(* An engine a request is about to cancel works on a row the request owns, *)
(* of the request's own session.                                           *)
LEMMA Held ==
    ASSUME TypeOK, OwnerInv, NEW q \in Requests, NEW e, WillCancel(q, e)
    PROVE  e.of \in Owns(req[q]) /\ e.of.sess = req[q].sess /\ KnownRow(req[q].sess, e.of)
<1>1. e.of \in Owns(req[q])
  BY DEF WillCancel, Owns, OwnerInv
<1> QED
  BY <1>1 DEF OwnerInv, KnownRow

(* Steps that leave runtimes and rows alone, by which request p goes on    *)
(* with a row it owns or returns.  They may cancel engines, and may say    *)
(* what the status of a session is that exists.                            *)
LEMMA LocalStep ==
    ASSUME Inv, TypeOK', NEW p \in Requests, NEW r, req' = [req EXCEPT ![p] = r],
           UNCHANGED Frame, cancelled \subseteq cancelled', phase # "down",
           r = Idle \/ (r.pc # "idle" /\ req[p].pc # "idle" /\ r.sess = req[p].sess),
           Owns(r) \subseteq Owns(req[p]),
           \A e \in Working' : WillCancel(p, e) => e \in r.held /\ r.pc = req[p].pc,
           r.pc \in {"remove_cancel", "stop_cancel", "quality_wait"} =>
               r.pc = req[p].pc /\ r.held \subseteq req[p].held /\ r.again = req[p].again,
           r.pc \in {"start_record", "start_install"} =>
               req[p].pc \in {"start_record", "start_install"},
           r.pc = "start_add" => req[p].pc = "start_add",
           r.pc = "stop_wait" => \/ req[p].pc = "stop_wait"
                                 \/ req[p].pc = "stop_cancel" /\ Silent(req[p].sess)',
           \A t \in Sessions :
               \/ status'[t] = status[t]
               \/ status'[t] = "running" /\ status[t] # "none"
               \/ /\ status'[t] = "stopped" /\ status[t] # "none"
                  /\ t \notin running /\ Silent(t)
                  /\ \A q \in Requests : req[q].pc \in Starting => req[q].sess # t
    PROVE  Inv'
<1> USE DEF Inv, Frame
<1>1. \A q \in Requests : req'[q] = IF q = p THEN r ELSE req[q]
  BY DEF TypeOK
<1>2. \A q \in Requests : Owns(req'[q]) \subseteq Owns(req[q])
  BY <1>1
<1>3. \A t : Silent(t) => Silent(t)'
  BY DEF Silent, Working
<1>4. DownInv'
  BY DEF DownInv
<1>5. TableInv'
  BY DEF TableInv
<1>6. RuntimeInv'
  <2>1. \A t, o : KnownRow(t, o)' <=> KnownRow(t, o)
    BY DEF KnownRow, MirrorRow
  <2>2. \A t \in running : t \in Sessions /\ status'[t] = "running"
    BY DEF RuntimeInv, TypeOK
  <2> QED
    BY <2>1, <2>2 DEF RuntimeInv
<1>7. RequestInv'
  <2>1. r.pc = "idle" => r = Idle
    OBVIOUS
  <2>2. \A q \in Requests : req[q].pc = "idle" => req[q] = Idle
    BY DEF RequestInv
  <2>3. Idle.sess \notin Sessions /\ Idle.pc = "idle"
    BY SessionsAssumption DEF Idle
  <2>4. ASSUME NEW q \in Requests, req'[q].pc # "idle"
        PROVE  status'[req'[q].sess] # "none" /\ req[q].pc # "idle" /\ req'[q].sess = req[q].sess
    <3>1. req[q].pc # "idle" /\ req'[q].sess = req[q].sess /\ req[q].sess \in Sessions
      BY <1>1, <2>3, <2>4 DEF TypeOK, WellFormed
    <3> QED
      BY <3>1 DEF RequestInv
  <2>5. ASSUME NEW q \in Requests, req'[q].pc \in Starting
        PROVE  status'[req'[q].sess] = "running" /\ \A t \in Requests \ {q} : req'[t].sess # req'[q].sess
    <3>1. req[q].pc \in Starting /\ req'[q].sess = req[q].sess
      BY <1>1, <2>3, <2>5 DEF Starting
    <3>2. status[req[q].sess] = "running" /\ \A t \in Requests \ {q} : req[t].sess # req[q].sess
      BY <3>1 DEF RequestInv, Starting
    <3>3. req[q].sess \in Sessions
      BY <3>1 DEF TypeOK, WellFormed, Starting
    <3>4. status'[req[q].sess] = "running"
      BY <3>1, <3>2, <3>3
    <3>5. \A t \in Requests : req'[t].sess \in {req[t].sess, Idle.sess}
      BY <1>1
    <3> QED
      BY <2>3, <3>1, <3>2, <3>3, <3>4, <3>5
  <2>6. ASSUME NEW q \in Requests, req'[q].pc \in {"start_record", "start_install"}
        PROVE  req'[q].sess \notin running /\ \A e \in Working' : e.of.sess # req'[q].sess
    <3>1. req[q].pc \in {"start_record", "start_install"} /\ req'[q].sess = req[q].sess
      BY <1>1, <2>3, <2>6
    <3>2. req[q].sess \notin running /\ Silent(req[q].sess)
      BY <3>1 DEF RequestInv
    <3> QED
      BY <3>1, <3>2 DEF Silent, Working
  <2>7. ASSUME NEW q \in Requests, req'[q].pc = "start_add"
        PROVE  req'[q].sess \in running
    BY <1>1, <2>3, <2>7 DEF RequestInv
  <2>8. ASSUME NEW q \in Requests, req'[q].pc = "stop_wait"
        PROVE  req'[q].sess \notin running /\ \A e \in Working' : e.of.sess # req'[q].sess
    <3>1. req[q].pc \in {"stop_wait", "stop_cancel"} /\ req'[q].sess = req[q].sess
      BY <1>1, <2>3, <2>8
    <3>2. req[q].sess \notin running
      BY <3>1 DEF RequestInv
    <3>3. CASE req[q].pc = "stop_wait"
      <4>1. Silent(req[q].sess)
        BY <3>3 DEF RequestInv
      <4> QED
        BY <3>1, <3>2, <4>1 DEF Silent, Working
    <3>4. CASE req[q].pc = "stop_cancel"
      <4>1. q = p /\ Silent(req[p].sess)'
        BY <1>1, <2>3, <2>8, <3>4
      <4> QED
        BY <3>1, <3>2, <4>1 DEF Silent
    <3> QED
      BY <3>1, <3>3, <3>4
  <2>9. ASSUME NEW q \in Requests, req'[q].pc = "stop_cancel"
        PROVE  req'[q].sess \notin running
    BY <1>1, <2>3, <2>9 DEF RequestInv
  <2>10. \A q \in Requests : req'[q].pc = "idle" => req'[q] = Idle
    BY <1>1, <2>1, <2>2
  <2> QED
    BY <2>4, <2>5, <2>6, <2>7, <2>8, <2>9, <2>10 DEF RequestInv, Starting, Silent
<1>8. OwnerInv'
  <2>1. \A t, o : KnownRow(t, o)' <=> KnownRow(t, o)
    BY DEF KnownRow, MirrorRow
  <2>2. \A q \in Requests : \A o : o \in Owns(req'[q]) => req'[q].sess = req[q].sess
    BY <1>1 DEF Owns, Idle
  <2>3. ASSUME NEW q \in Requests, NEW o \in Owns(req'[q])
        PROVE  /\ KnownRow(req[q].sess, o)'
               /\ \A e \in runtime[req'[q].sess] : e.of # o
               /\ \A t \in Requests \ {q} : o \notin Owns(req'[t])
    <3>1. o \in Owns(req[q]) /\ req'[q].sess = req[q].sess
      BY <1>2, <2>2, <2>3
    <3> QED
      BY <1>2, <2>1, <3>1 DEF OwnerInv, KnownRow, MirrorRow
  <2>4. \A q \in Requests :
          /\ req'[q].pc \in {"remove_cancel", "stop_cancel", "quality_wait"} =>
               \A e, f \in req'[q].held : e.of = f.of => e = f
          /\ req'[q].pc = "quality_wait" => \A e \in req'[q].held : e.of \in req'[q].again
    BY <1>1 DEF OwnerInv, Idle
  <2> QED
    BY <2>3, <2>4 DEF OwnerInv
<1>9. WorkingInv'
  <2> SUFFICES ASSUME NEW e \in Working'
               PROVE  e \in runtime[e.of.sess] \/ \E q \in Requests : WillCancel(q, e)'
    BY DEF WorkingInv
  <2>1. e \in Working
    BY DEF Working
  <2>2. ASSUME NEW q \in Requests, WillCancel(q, e) PROVE WillCancel(q, e)'
    BY <1>1, <2>2 DEF WillCancel
  <2> QED
    BY <2>1, <2>2 DEF WorkingInv
<1>10. StoppedInv'
  BY <1>3 DEF StoppedInv
<1> QED
  BY <1>4, <1>5, <1>6, <1>7, <1>8, <1>9, <1>10

(* Requests that begin on a running session and take no engine from it.    *)
LEMMA BeginStep ==
    ASSUME Inv, NEW p \in Requests, NEW r, NEW s \in running,
           req' = [req EXCEPT ![p] = r], UNCHANGED <<Frame, cancelled>>, TypeOK',
           phase # "down", Unlocked, req[p].pc = "idle",
           r.pc \in {"remove_take", "present_store", "record_store"}, r.sess = s,
           UNCHANGED status
    PROVE  Inv'
<1> USE DEF Inv, Frame
<1>1. \A q \in Requests : req'[q] = IF q = p THEN r ELSE req[q]
  BY Others
<1>2. \A q \in Requests : Owns(req'[q]) \subseteq Owns(req[q])
  BY <1>1 DEF Owns
<1>3. \A t : Silent(t)' <=> Silent(t)
  BY DEF Silent, Working
<1>4. DownInv'
  BY DEF DownInv
<1>5. TableInv'
  BY DEF TableInv
<1>6. RuntimeInv'
  BY DEF RuntimeInv, KnownRow, MirrorRow
<1>7. RequestInv'
  <2>1. s \in Sessions /\ status[s] = "running"
    BY DEF RuntimeInv, TypeOK
  <2>2. \A q \in Requests : req[q].pc \in {"start_record", "start_install", "start_add"} => req[q].sess # s
    BY DEF RequestInv, Unlocked
  <2> QED
    BY <1>1, <1>3, <2>1, <2>2 DEF RequestInv
<1>8. OwnerInv'
  BY <1>1, <1>2 DEF OwnerInv, KnownRow, MirrorRow, Owns
<1>9. WorkingInv'
  BY <1>1 DEF WorkingInv, Working, WillCancel
<1>10. StoppedInv'
  BY <1>3 DEF StoppedInv
<1> QED
  BY <1>4, <1>5, <1>6, <1>7, <1>8, <1>9, <1>10

(* A new session: its id is fresh, so no runtime, engine or request has it. *)
LEMMA StartCreateInv ==
    ASSUME Inv, TypeOK', NEW p \in Requests, NEW s \in Sessions, NEW chans, NEW show, NEW record,
           StartCreate(p, s, chans, show, record)
    PROVE  Inv'
<1> USE DEF Inv
<1> DEFINE r == [Idle EXCEPT !.pc = "start_record", !.sess = s, !.chans = chans]
<1>1. /\ r.pc = "start_record" /\ r.sess = s /\ r.held = {} /\ req' = [req EXCEPT ![p] = r]
  BY DEF StartCreate, Idle
<1>2. /\ UNCHANGED <<phase, running, runtime, live, cancelled, rows, nextId>>
      /\ status' = [status EXCEPT ![s] = "running"] /\ status[s] = "none"
      /\ phase = "up" /\ req[p].pc = "idle"
  BY DEF StartCreate, NewId, CanBegin, memory, engines
<1> HIDE DEF r
<1>3. \A q \in Requests : req'[q] = IF q = p THEN r ELSE req[q]
  BY <1>1, Others
<1>4. \A q \in Requests : Owns(req'[q]) \subseteq Owns(req[q])
  BY <1>1, <1>3 DEF Owns
<1>5. \A t : Silent(t)' <=> Silent(t)
  BY <1>2 DEF Silent, Working
<1>6. \A t \in Sessions : status'[t] = IF t = s THEN "running" ELSE status[t]
  BY <1>2 DEF TypeOK
<1>7. DownInv'
  BY <1>2 DEF DownInv
<1>8. TableInv'
  BY <1>2 DEF TableInv
<1>9. RuntimeInv'
  BY <1>2, <1>6 DEF RuntimeInv, KnownRow, MirrorRow
<1>10. RequestInv'
  <2>1. s \notin running
    BY <1>2 DEF RuntimeInv
  <2>2. \A q \in Requests : req[q].sess # s
    BY <1>2, SessionsAssumption DEF RequestInv, TypeOK, Idle
  <2>3. Silent(s)
    <3> SUFFICES ASSUME NEW e \in Working, e.of.sess = s PROVE FALSE
      BY DEF Silent
    <3>1. runtime[s] = {}
      BY <2>1 DEF RuntimeInv
    <3>2. PICK q \in Requests : WillCancel(q, e)
      BY <3>1 DEF WorkingInv
    <3> QED
      BY <2>2, <3>2, Held DEF WillCancel
  <2> QED
    BY <1>1, <1>2, <1>3, <1>5, <1>6, <2>1, <2>2, <2>3 DEF RequestInv, TypeOK, WellFormed
<1>11. OwnerInv'
  BY <1>1, <1>2, <1>3, <1>4 DEF OwnerInv, KnownRow, MirrorRow, Owns
<1>12. WorkingInv'
  BY <1>1, <1>2, <1>3 DEF WorkingInv, Working, WillCancel
<1>13. StoppedInv'
  BY <1>2, <1>5, <1>6 DEF StoppedInv
<1> QED
  BY <1>7, <1>8, <1>9, <1>10, <1>11, <1>12, <1>13

(* Start's runtime appears with its mirror, still unknown to anybody else. *)
LEMMA StartInstallInv ==
    ASSUME Inv, TypeOK', NEW p \in Requests, StartInstall(p)
    PROVE  Inv'
<1> USE DEF Inv
<1> DEFINE s == req[p].sess
           r == [req[p] EXCEPT !.pc = "start_add"]
           new == Named(MirrorRows(s))
<1>1. /\ r.pc = "start_add" /\ r.sess = s /\ s \in Sessions /\ req' = [req EXCEPT ![p] = r]
      /\ req[p].pc = "start_install"
  BY DEF StartInstall, Goto, TypeOK, Request, WellFormed
<1>2. /\ \A e \in new : e.of = MirrorRow(s)
      /\ \A e, f \in new : e.of = f.of => e = f
  BY <1>1, NamedEngines, MirrorRowType DEF StartInstall, MirrorRows
<1>3. /\ UNCHANGED <<phase, rows, nextId, status>>
      /\ running' = running \cup {s} /\ runtime' = [runtime EXCEPT ![s] = new]
      /\ live' = live \cup new /\ cancelled \subseteq cancelled'
  BY DEF StartInstall, Launch, database
<1>4. s \notin running /\ Silent(s) /\ status[s] = "running" /\ phase # "down"
      /\ \A q \in Requests \ {p} : req[q].sess # s
  BY <1>1 DEF RequestInv, DownInv, Idle
<1> HIDE DEF r, new, s
<1>5. \A q \in Requests : req'[q] = IF q = p THEN r ELSE req[q]
  BY <1>1, Others
<1>6. \A q \in Requests : Owns(req'[q]) \subseteq Owns(req[q])
  BY <1>1, <1>5 DEF Owns
<1>7. \A t \in Sessions : runtime'[t] = IF t = s THEN new ELSE runtime[t]
  BY <1>3 DEF TypeOK
<1>8. \A e \in Working' : e \in Working \/ e \in new
  BY <1>3 DEF Working
<1>9. \A e \in new : e.of.sess = s
  BY <1>2 DEF MirrorRow
<1>10. \A t : t # s /\ Silent(t) => Silent(t)'
  BY <1>8, <1>9 DEF Silent
<1>11. DownInv'
  BY <1>3, <1>4 DEF DownInv
<1>12. TableInv'
  BY <1>3 DEF TableInv
<1>13. RuntimeInv'
  BY <1>1, <1>2, <1>3, <1>4, <1>7 DEF RuntimeInv, KnownRow, MirrorRow
<1>14. RequestInv'
  BY <1>1, <1>3, <1>4, <1>5, <1>10 DEF RequestInv, TypeOK, WellFormed
<1>15. OwnerInv'
  BY <1>1, <1>3, <1>4, <1>5, <1>6, <1>7 DEF OwnerInv, KnownRow, MirrorRow, Owns
<1>16. WorkingInv'
  <2> SUFFICES ASSUME NEW e \in Working'
               PROVE  e \in runtime'[e.of.sess] \/ \E q \in Requests : WillCancel(q, e)'
    BY DEF WorkingInv
  <2>1. CASE e \in new
    BY <1>1, <1>7, <1>9, <2>1
  <2>2. CASE e \in Working /\ e \in runtime[e.of.sess]
    <3>1. e.of.sess \in Sessions /\ e.of.sess # s
      BY <1>4, <2>2, EngineFields DEF Working, TypeOK, Silent
    <3> QED
      BY <1>7, <2>2, <3>1
  <2>3. CASE e \in Working /\ e \notin runtime[e.of.sess]
    <3>1. PICK q \in Requests : WillCancel(q, e)
      BY <2>3 DEF WorkingInv
    <3>2. q # p
      BY <1>1, <3>1 DEF WillCancel
    <3> QED
      BY <1>5, <3>1, <3>2 DEF WillCancel
  <2> QED
    BY <1>8, <2>1, <2>2, <2>3
<1>17. StoppedInv'
  BY <1>3, <1>4, <1>10 DEF StoppedInv
<1> QED
  BY <1>11, <1>12, <1>13, <1>14, <1>15, <1>16, <1>17

(* A channel is added to a running session under the lock; the request     *)
(* that adds it stays in start_add, returns, or never left idle.           *)
LEMMA AddTargetStep ==
    ASSUME Inv, TypeOK', NEW p \in Requests, NEW s \in running, NEW c, NEW r,
           AddTargetLocked(s, c), req' = [req EXCEPT ![p] = r],
           r = Idle \/ (r.pc = "start_add" /\ req[p].pc = "start_add" /\ r.sess = req[p].sess),
           req[p].pc \in {"idle", "start_add"}, phase # "down"
    PROVE  Inv'
<1> USE DEF Inv
<1> DEFINE row == [id |-> nextId, sess |-> s, chan |-> c]
           new == Named({row})
<1>1. row \in Row
  <2>1. rows' = rows \cup {row}
    BY DEF AddTargetLocked
  <2> QED
    BY <2>1 DEF TypeOK
<1>2. /\ \A e \in new : e.of = row
      /\ \A e, f \in new : e.of = f.of => e = f
  BY <1>1, NamedEngines DEF AddTargetLocked
<1>3. /\ UNCHANGED <<phase, running, status>>
      /\ rows' = rows \cup {row} /\ nextId' = nextId + 1 /\ nextId \in TargetIds
      /\ runtime' = [runtime EXCEPT ![s] = @ \cup new]
      /\ live' = live \cup new /\ cancelled \subseteq cancelled'
  BY DEF AddTargetLocked, Launch
<1>4. row.id = nextId /\ row.sess = s
  OBVIOUS
<1>5. s \in Sessions /\ status[s] = "running"
  BY DEF RuntimeInv, TypeOK
<1>6. nextId # Mirror /\ nextId \in Nat
  BY <1>3, IdsAssumption
<1>7. row \notin rows /\ \A t : row # MirrorRow(t)
  BY <1>6 DEF TableInv, MirrorRow, TypeOK
<1> HIDE DEF row, new
<1>8. \A q \in Requests : req'[q] = IF q = p THEN r ELSE req[q]
  BY Others
<1>9. \A q \in Requests : Owns(req'[q]) \subseteq Owns(req[q])
  BY <1>8 DEF Owns, Idle
<1>10. \A t \in Sessions : runtime'[t] = IF t = s THEN runtime[t] \cup new ELSE runtime[t]
  BY <1>3 DEF TypeOK
<1>11. \A e \in Working' : e \in Working \/ e \in new
  BY <1>3 DEF Working
<1>12. \A t : t # s /\ Silent(t) => Silent(t)'
  BY <1>2, <1>4, <1>11 DEF Silent
<1>13. DownInv'
  BY <1>3 DEF DownInv
<1>14. TableInv'
  <2>1. \A t \in rows : t.id \in TargetIds /\ t.id \in Nat /\ t.id < nextId
    BY IdsAssumption DEF TableInv
  <2>2. \A t \in rows' : t.id \in TargetIds /\ t.id < nextId'
    <3> SUFFICES ASSUME NEW t \in rows' PROVE t.id \in TargetIds /\ t.id < nextId'
      OBVIOUS
    <3>1. CASE t = row
      BY <1>3, <1>4, <1>6, <3>1
    <3>2. CASE t \in rows
      BY <1>3, <1>6, <2>1, <3>2
    <3> QED
      BY <1>3, <3>1, <3>2
  <2>3. \A t \in rows : t.id # row.id
    BY <1>4, <1>6, <2>1
  <2>4. \A t, u \in rows' : t.id = u.id => t = u
    BY <1>3, <2>3 DEF TableInv
  <2> QED
    BY <2>2, <2>4 DEF TableInv
<1>15. RuntimeInv'
  BY <1>2, <1>3, <1>4, <1>5, <1>7, <1>10 DEF RuntimeInv, KnownRow, MirrorRow
<1>16. RequestInv'
  <2>1. \A q \in Requests : req[q].pc \in {"start_record", "start_install", "stop_wait"} => req[q].sess # s
    BY DEF RequestInv
  <2>2. Idle.sess \notin Sessions /\ Idle.pc = "idle"
    BY SessionsAssumption DEF Idle
  <2>3. \A q \in Requests : req[q].pc # "idle" => req[q].sess \in Sessions
    BY DEF TypeOK, WellFormed
  <2> QED
    BY <1>3, <1>8, <1>12, <2>1, <2>2, <2>3 DEF RequestInv
<1>17. OwnerInv'
  <2>1. \A t \in Sessions : \A o : KnownRow(t, o) => o # row /\ KnownRow(t, o)'
    BY <1>3, <1>7 DEF KnownRow, MirrorRow
  <2>2. \A q \in Requests : \A o \in Owns(req'[q]) :
            o \in Owns(req[q]) /\ req'[q].sess = req[q].sess /\ req[q].sess \in Sessions
    BY <1>8, <1>9 DEF Owns, Idle, TypeOK, WellFormed
  <2>3. ASSUME NEW q \in Requests, NEW o \in Owns(req'[q])
        PROVE  /\ KnownRow(req[q].sess, o)'
               /\ \A e \in runtime'[req'[q].sess] : e.of # o
               /\ \A t \in Requests \ {q} : o \notin Owns(req'[t])
    <3>1. o \in Owns(req[q]) /\ req'[q].sess = req[q].sess /\ req[q].sess \in Sessions
      BY <2>2, <2>3
    <3>2. /\ KnownRow(req[q].sess, o)
          /\ \A e \in runtime[req[q].sess] : e.of # o
          /\ \A t \in Requests \ {q} : o \notin Owns(req[t])
      BY <3>1 DEF OwnerInv
    <3>3. KnownRow(req[q].sess, o)' /\ o # row
      BY <2>1, <3>1, <3>2, <1>3 DEF KnownRow, MirrorRow
    <3>4. \A e \in runtime'[req'[q].sess] : e.of # o
      BY <1>2, <1>10, <3>1, <3>2, <3>3
    <3> QED
      BY <1>9, <3>2, <3>3, <3>4
  <2>4. \A q \in Requests : req'[q] = req[q] \/ req'[q].pc \in {"idle", "start_add"}
    BY <1>8 DEF Idle
  <2> QED
    BY <2>3, <2>4 DEF OwnerInv
<1>18. WorkingInv'
  <2> SUFFICES ASSUME NEW e \in Working'
               PROVE  e \in runtime'[e.of.sess] \/ \E q \in Requests : WillCancel(q, e)'
    BY DEF WorkingInv
  <2>1. CASE e \in new
    BY <1>2, <1>4, <1>5, <1>10, <2>1
  <2>2. CASE e \in Working /\ e \in runtime[e.of.sess]
    <3>1. e.of.sess \in Sessions
      BY <2>2, EngineFields DEF Working, TypeOK
    <3> QED
      BY <1>10, <2>2, <3>1
  <2>3. CASE e \in Working /\ e \notin runtime[e.of.sess]
    <3>1. PICK q \in Requests : WillCancel(q, e)
      BY <2>3 DEF WorkingInv
    <3>2. q # p
      BY <3>1 DEF WillCancel
    <3> QED
      BY <1>8, <3>1, <3>2 DEF WillCancel
  <2> QED
    BY <1>11, <2>1, <2>2, <2>3
<1>19. StoppedInv'
  BY <1>3, <1>5, <1>12 DEF StoppedInv
<1> QED
  BY <1>13, <1>14, <1>15, <1>16, <1>17, <1>18, <1>19

(* Request record r, of session s, took the engines E and owns their rows. *)
Took(r, s, E) ==
    /\ r.pc \in {"remove_cancel", "stop_cancel", "quality_wait"}
    /\ r.sess = s /\ r.held = E
    /\ \A e \in E : e.of \in Owns(r)
    /\ \A o \in Owns(r) : \E e \in E : o = e.of
    /\ \A e \in E : e \in Working' =>
           r.pc \in {"remove_cancel", "stop_cancel"} \/ e.of.id = Mirror

(* A request takes the engines E out of the runtime of a running session:  *)
(* one to remove it, all of them to restart them or to stop the session.   *)
LEMMA TakeStep ==
    ASSUME Inv, TypeOK', NEW p \in Requests, NEW r, NEW s \in running, NEW E \in SUBSET runtime[s],
           \A q \in Requests : req'[q] = IF q = p THEN r ELSE req[q],
           \A t \in Sessions : runtime'[t] = IF t = s THEN runtime[t] \ E ELSE runtime[t],
           UNCHANGED <<phase, live, status, rows, nextId>>, cancelled \subseteq cancelled',
           Unlocked, req[p].pc \in {"idle", "remove_take"}, phase # "down",
           Took(r, s, E),
           running' = running \/ (running' = running \ {s} /\ E = runtime[s]),
           r.pc = "stop_cancel" => s \notin running'
    PROVE  Inv'
<1> USE DEF Inv
<1>3. s \in Sessions /\ status[s] = "running"
  BY DEF RuntimeInv, TypeOK
<1>4. \A q \in Requests : req'[q] = IF q = p THEN r ELSE req[q]
  OBVIOUS
<1>5. \A q \in Requests \ {p} : Owns(req'[q]) = Owns(req[q])
  BY <1>4 DEF Owns
<1>6. \A t \in Sessions : runtime'[t] = IF t = s THEN runtime[t] \ E ELSE runtime[t]
  OBVIOUS
<1>7. \A t : Silent(t) => Silent(t)'
  BY DEF Silent, Working
<1>15. \A t, o : KnownRow(t, o)' <=> KnownRow(t, o)
  BY DEF KnownRow, MirrorRow
<1>8. DownInv'
  BY DEF DownInv
<1>9. TableInv'
  BY DEF TableInv
<1>10. RuntimeInv'
  <2> SUFFICES ASSUME NEW t \in Sessions
               PROVE  /\ t \in running' => status'[t] = "running"
                      /\ t \notin running' => runtime'[t] = {}
                      /\ \A f \in runtime'[t] : KnownRow(t, f.of)'
                      /\ \A f, g \in runtime'[t] : f.of = g.of => f = g
    BY DEF RuntimeInv
  <2>2. runtime'[t] \subseteq runtime[t]
    BY <1>6
  <2>3. t \in running' => status'[t] = "running"
    BY DEF RuntimeInv
  <2>4. t \notin running' => runtime'[t] = {}
    BY <1>6 DEF RuntimeInv
  <2> QED
    BY <1>15, <2>2, <2>3, <2>4 DEF RuntimeInv
<1>11. RequestInv'
  <2>1. \A q \in Requests : req[q].pc \in Starting => req[q].sess # s
    BY DEF RequestInv, Unlocked, Starting
  <2>2. ASSUME NEW q \in Requests \ {p}
        PROVE  /\ req'[q].pc = "idle" => req'[q] = Idle
               /\ req'[q].pc # "idle" => status[req'[q].sess] # "none"
               /\ req'[q].pc \in {"start_record", "start_install"} =>
                    req'[q].sess \notin running' /\ \A e \in Working' : e.of.sess # req'[q].sess
               /\ req'[q].pc = "start_add" => req'[q].sess \in running'
               /\ req'[q].pc \in {"stop_cancel", "stop_wait"} => req'[q].sess \notin running'
               /\ req'[q].pc = "stop_wait" => \A e \in Working' : e.of.sess # req'[q].sess
    <3>1. req'[q] = req[q]
      BY <1>4
    <3> QED
      BY <1>7, <2>1, <3>1 DEF RequestInv, Silent, Starting
  <2>3. ASSUME NEW q \in Requests, req'[q].pc \in Starting
        PROVE  status[req'[q].sess] = "running" /\ \A t \in Requests \ {q} : req'[t].sess # req'[q].sess
    <3>1. q # p /\ req'[q] = req[q] /\ req[q].sess # s /\ req[q].pc \in Starting
      BY <1>4, <2>1, <2>3 DEF Starting, Took
    <3>2. status[req[q].sess] = "running" /\ \A t \in Requests \ {q} : req[t].sess # req[q].sess
      BY <3>1 DEF RequestInv, Starting
    <3>3. r.sess = s
      BY DEF Took
    <3> QED
      BY <1>4, <3>1, <3>2, <3>3
  <2> QED
    BY <1>3, <1>4, <2>2, <2>3 DEF RequestInv, Starting, Silent, Took
<1>12. OwnerInv'
  <2>1. \A e \in E : KnownRow(s, e.of)' /\ \A f \in runtime'[s] : f.of # e.of
    BY <1>3, <1>6, <1>15 DEF RuntimeInv
  <2>2. \A q \in Requests : \A e \in E : e.of \notin Owns(req[q])
    BY <1>3 DEF OwnerInv, RuntimeInv, KnownRow
  <2>3. ASSUME NEW q \in Requests \ {p}, NEW o \in Owns(req[q])
        PROVE  KnownRow(req[q].sess, o)' /\ \A f \in runtime'[req[q].sess] : f.of # o
    <3>1. req[q].sess \in Sessions
      BY <2>3 DEF Owns, TypeOK, WellFormed
    <3>2. KnownRow(req[q].sess, o) /\ \A f \in runtime[req[q].sess] : f.of # o
      BY <2>3 DEF OwnerInv
    <3>3. runtime'[req[q].sess] \subseteq runtime[req[q].sess] /\ req'[q] = req[q]
      BY <1>4, <1>6, <2>3, <3>1
    <3> QED
      BY <1>15, <3>2, <3>3 DEF KnownRow, MirrorRow
  <2>4. /\ \A e, f \in r.held : e.of = f.of => e = f
        /\ r.pc = "quality_wait" => \A e \in r.held : e.of \in r.again
    <3>1. \A e, f \in runtime[s] : e.of = f.of => e = f
      BY <1>3 DEF RuntimeInv
    <3>2. r.pc = "quality_wait" => Owns(r) = r.again
      BY DEF Owns, Took
    <3> QED
      BY <3>1, <3>2 DEF Took
  <2>5. \A q \in Requests \ {p} :
          /\ req'[q].pc \in {"remove_cancel", "stop_cancel", "quality_wait"} =>
               \A e, f \in req'[q].held : e.of = f.of => e = f
          /\ req'[q].pc = "quality_wait" => \A e \in req'[q].held : e.of \in req'[q].again
    BY <1>4 DEF OwnerInv
  <2>6. ASSUME NEW q \in Requests, NEW o \in Owns(req'[q])
        PROVE  /\ o.sess = req'[q].sess /\ (o = MirrorRow(req'[q].sess) \/ o \in rows)
               /\ \A e \in runtime'[req'[q].sess] : e.of # o
               /\ \A t \in Requests \ {q} : o \notin Owns(req'[t])
    <3>1. CASE q = p
      <4>1. req'[q] = r /\ \E e \in E : o = e.of
        BY <1>4, <3>1 DEF Took
      <4>2. \A t \in Requests \ {q} : o \notin Owns(req'[t])
        BY <1>5, <2>2, <3>1, <4>1
      <4> QED
        BY <2>1, <4>1, <4>2 DEF KnownRow, MirrorRow, Took
    <3>2. CASE q # p
      <4>1. req'[q] = req[q] /\ o \in Owns(req[q])
        BY <1>4, <3>2
      <4>2. \A t \in Requests \ {q} : o \notin Owns(req'[t])
        BY <1>4, <1>5, <2>2, <3>2, <4>1 DEF OwnerInv, Took
      <4>3. KnownRow(req[q].sess, o)' /\ \A f \in runtime'[req[q].sess] : f.of # o
        BY <2>3, <3>2, <4>1
      <4> QED
        BY <4>1, <4>2, <4>3 DEF KnownRow, MirrorRow
    <3> QED
      BY <3>1, <3>2
  <2> QED
    BY <1>4, <2>4, <2>5, <2>6 DEF OwnerInv, KnownRow, MirrorRow
<1>13. WorkingInv'
  <2> SUFFICES ASSUME NEW f \in Working'
               PROVE  f \in runtime'[f.of.sess] \/ \E q \in Requests : WillCancel(q, f)'
    BY DEF WorkingInv
  <2>1. f \in Working /\ f.of.sess \in Sessions
    BY EngineFields DEF Working, TypeOK
  <2>3. CASE f \in E
    BY <1>4, <2>3 DEF WillCancel, Took
  <2>4. CASE f \notin E /\ f \in runtime[f.of.sess]
    BY <1>6, <2>1, <2>4
  <2>5. CASE f \notin E /\ f \notin runtime[f.of.sess]
    <3>1. PICK q \in Requests : WillCancel(q, f)
      BY <2>1, <2>5 DEF WorkingInv
    <3>2. q # p
      BY <3>1 DEF WillCancel
    <3> QED
      BY <1>4, <3>1, <3>2 DEF WillCancel
  <2> QED
    BY <2>3, <2>4, <2>5
<1>14. StoppedInv'
  BY <1>7 DEF StoppedInv
<1> QED
  BY <1>8, <1>9, <1>10, <1>11, <1>12, <1>13, <1>14

(* An engine leaves the runtime to be removed. *)
LEMMA TakeInv ==
    ASSUME Inv, TypeOK', NEW p \in Requests, NEW s \in running, NEW id, Take(p, s, id),
           Unlocked, req[p].pc \in {"idle", "remove_take"}, phase # "down"
    PROVE  Inv'
<1> USE DEF Inv
<1>1. PICK e \in Targets(s) :
         /\ runtime' = [runtime EXCEPT ![s] = Without(s, {e})]
         /\ req' = [req EXCEPT ![p] = [Idle EXCEPT !.pc = "remove_cancel", !.sess = s,
                                                   !.held = {e}]]
  BY DEF Take
<1>2. UNCHANGED <<phase, running, live, cancelled, status, rows, nextId>>
  BY DEF Take, engines, database
<1> DEFINE r == [Idle EXCEPT !.pc = "remove_cancel", !.sess = s, !.held = {e}]
<1>3. r.pc = "remove_cancel" /\ r.sess = s /\ r.held = {e} /\ req' = [req EXCEPT ![p] = r]
  BY <1>1 DEF Idle
<1>4. Owns(r) = {e.of}
  BY <1>3 DEF Owns
<1> HIDE DEF r
<1>5. Took(r, s, {e})
  BY <1>3, <1>4 DEF Took
<1>6. \A q \in Requests : req'[q] = IF q = p THEN r ELSE req[q]
  BY <1>3, Others
<1>7. \A t \in Sessions : runtime'[t] = IF t = s THEN runtime[t] \ {e} ELSE runtime[t]
  BY <1>1 DEF TypeOK, Without
<1>8. {e} \in SUBSET runtime[s]
  BY DEF Targets
<1> QED
  BY <1>2, <1>3, <1>5, <1>6, <1>7, <1>8, TakeStep

(* The row a removal deletes is its own: nobody casts to it or will again. *)
LEMMA RemoveDeleteInv ==
    ASSUME Inv, TypeOK', NEW p \in Requests, RemoveDelete(p)
    PROVE  Inv'
<1> USE DEF Inv
<1>1. /\ req[p].pc = "remove_delete" /\ req' = [req EXCEPT ![p] = Idle]
      /\ UNCHANGED <<phase, running, runtime, live, cancelled, status, nextId>>
      /\ rows' \subseteq rows /\ \A o \in rows : o \in Owns(req[p]) \/ o \in rows'
  BY DEF RemoveDelete, RowsDeleted, Return, memory, engines, Owns
<1>2. \A q \in Requests : req'[q] = IF q = p THEN Idle ELSE req[q]
  BY <1>1, Others
<1>3. Idle.pc = "idle" /\ Owns(Idle) = {} /\ Idle.sess \notin Sessions
  BY SessionsAssumption DEF Idle, Owns
<1>4. phase # "down"
  BY <1>1, <1>3 DEF DownInv
<1>5. \A t, o : KnownRow(t, o) /\ o \notin Owns(req[p]) => KnownRow(t, o)'
  BY <1>1 DEF KnownRow, MirrorRow
<1>6. \A t : Silent(t)' <=> Silent(t)
  BY <1>1 DEF Silent, Working
<1>7. DownInv'
  BY <1>1, <1>4 DEF DownInv
<1>8. TableInv'
  BY <1>1 DEF TableInv
<1>9. RuntimeInv'
  <2>1. ASSUME NEW t \in Sessions, NEW e \in runtime[t] PROVE e.of \notin Owns(req[p])
    BY <2>1 DEF RuntimeInv, OwnerInv, KnownRow
  <2> QED
    BY <1>1, <1>5, <2>1 DEF RuntimeInv
<1>10. RequestInv'
  <2>1. ASSUME NEW q \in Requests \ {p}
        PROVE  req'[q] = req[q] /\ (req[q].pc # "idle" => req[q].sess \in Sessions)
    BY <1>2 DEF TypeOK, WellFormed
  <2> QED
    BY <1>1, <1>2, <1>3, <1>6, <2>1 DEF RequestInv
<1>11. OwnerInv'
  <2>1. ASSUME NEW q \in Requests, NEW o \in Owns(req'[q])
        PROVE  /\ o.sess = req'[q].sess /\ (o = MirrorRow(req'[q].sess) \/ o \in rows')
               /\ \A e \in runtime'[req'[q].sess] : e.of # o
               /\ \A t \in Requests \ {q} : o \notin Owns(req'[t])
    <3>1. q # p /\ req'[q] = req[q] /\ o \in Owns(req[q])
      BY <1>2, <1>3, <2>1
    <3>2. /\ KnownRow(req[q].sess, o) /\ o \notin Owns(req[p])
          /\ \A e \in runtime[req[q].sess] : e.of # o
          /\ \A t \in Requests \ {q} : o \notin Owns(req[t])
      BY <3>1 DEF OwnerInv
    <3>3. \A t \in Requests \ {q} : o \notin Owns(req'[t])
      BY <1>2, <1>3, <3>2
    <3> QED
      BY <1>1, <3>1, <3>2, <3>3 DEF KnownRow, MirrorRow
  <2>2. \A q \in Requests :
          /\ req'[q].pc \in {"remove_cancel", "stop_cancel", "quality_wait"} =>
               \A e, f \in req'[q].held : e.of = f.of => e = f
          /\ req'[q].pc = "quality_wait" => \A e \in req'[q].held : e.of \in req'[q].again
    BY <1>2, <1>3 DEF OwnerInv
  <2> QED
    BY <2>1, <2>2 DEF OwnerInv, KnownRow, MirrorRow
<1>12. WorkingInv'
  <2>1. \A e, q : q \in Requests /\ WillCancel(q, e) => WillCancel(q, e)'
    BY <1>1, <1>2 DEF WillCancel
  <2> QED
    BY <1>1, <2>1 DEF WorkingInv, Working
<1>13. StoppedInv'
  BY <1>1, <1>6 DEF StoppedInv
<1> QED
  BY <1>7, <1>8, <1>9, <1>10, <1>11, <1>12, <1>13

(* A quality change starts again only what it took out and still owns.     *)
LEMMA QualityRestartInv ==
    ASSUME Inv, TypeOK', NEW p \in Requests, req[p].pc = "quality_restart",
           NEW s, s = req[p].sess, s \in running, NEW new,
           new = Named(req[p].again), HasName(req[p].again),
           runtime' = [runtime EXCEPT ![s] = @ \cup new],
           live' = live \cup new, cancelled \subseteq cancelled',
           req' = [req EXCEPT ![p] = Idle],
           UNCHANGED <<phase, running, status, rows, nextId>>
    PROVE  Inv'
<1> USE DEF Inv
<1>1. s \in Sessions /\ status[s] = "running"
  BY DEF RuntimeInv, TypeOK
<1>2. \A q \in Requests : req'[q] = IF q = p THEN Idle ELSE req[q]
  BY Others
<1>3. Idle.pc = "idle" /\ Owns(Idle) = {} /\ Idle.sess \notin Sessions
  BY SessionsAssumption DEF Idle, Owns
<1>4. phase # "down"
  BY <1>3 DEF DownInv
<1>5. \A t \in Sessions : runtime'[t] = IF t = s THEN runtime[t] \cup new ELSE runtime[t]
  BY DEF TypeOK
<1>6. Owns(req[p]) = req[p].again
  BY DEF Owns
<1>7. /\ \A e \in new : e.of \in Owns(req[p])
      /\ \A e, f \in new : e.of = f.of => e = f
  <2>1. req[p].again \in SUBSET Row
    BY DEF TypeOK, Request
  <2> QED
    BY <1>6, <2>1, NamedEngines
<1>8. \A e \in new : KnownRow(s, e.of) /\ e.of.sess = s
  BY <1>7 DEF OwnerInv, KnownRow
<1>9. \A t, o : KnownRow(t, o)' <=> KnownRow(t, o)
  BY DEF KnownRow, MirrorRow
<1>10. \A e \in Working' : e \in Working \/ e \in new
  BY DEF Working
<1>11. \A t : t # s /\ Silent(t) => Silent(t)'
  BY <1>8, <1>10 DEF Silent
<1>12. DownInv'
  BY <1>4 DEF DownInv
<1>13. TableInv'
  BY DEF TableInv
<1>14. RuntimeInv'
  <2>1. \A e \in runtime[s] : e.of \notin Owns(req[p])
    BY DEF OwnerInv
  <2>2. ASSUME NEW t \in Sessions, t # s
        PROVE  /\ t \in running => status[t] = "running"
               /\ t \notin running => runtime'[t] = {}
               /\ \A f \in runtime'[t] : KnownRow(t, f.of)'
               /\ \A f, g \in runtime'[t] : f.of = g.of => f = g
    BY <1>5, <1>9, <2>2 DEF RuntimeInv
  <2>3. \A f \in runtime'[s] : KnownRow(s, f.of)
    BY <1>1, <1>5, <1>8 DEF RuntimeInv
  <2>4. \A f, g \in runtime'[s] : f.of = g.of => f = g
    BY <1>1, <1>5, <1>7, <2>1 DEF RuntimeInv
  <2> QED
    BY <1>1, <1>9, <2>2, <2>3, <2>4 DEF RuntimeInv
<1>15. RequestInv'
  <2>1. \A q \in Requests : req[q].pc \in {"start_record", "start_install", "stop_wait"} => req[q].sess # s
    BY DEF RequestInv
  <2>2. ASSUME NEW q \in Requests \ {p}
        PROVE  req'[q] = req[q] /\ (req[q].pc # "idle" => req[q].sess \in Sessions)
    BY <1>2 DEF TypeOK, WellFormed
  <2> QED
    BY <1>2, <1>3, <1>11, <2>1, <2>2 DEF RequestInv
<1>16. OwnerInv'
  <2>1. ASSUME NEW q \in Requests, NEW o \in Owns(req'[q])
        PROVE  /\ o.sess = req'[q].sess /\ (o = MirrorRow(req'[q].sess) \/ o \in rows)
               /\ \A e \in runtime'[req'[q].sess] : e.of # o
               /\ \A t \in Requests \ {q} : o \notin Owns(req'[t])
    <3>1. q # p /\ req'[q] = req[q] /\ o \in Owns(req[q])
      BY <1>2, <1>3, <2>1
    <3>2. /\ KnownRow(req[q].sess, o) /\ o \notin Owns(req[p])
          /\ \A e \in runtime[req[q].sess] : e.of # o
          /\ \A t \in Requests \ {q} : o \notin Owns(req[t])
      BY <3>1 DEF OwnerInv
    <3>3. \A t \in Requests \ {q} : o \notin Owns(req'[t])
      BY <1>2, <1>3, <3>2
    <3>4. req[q].sess \in Sessions
      BY <3>1 DEF Owns, TypeOK, WellFormed
    <3>5. \A e \in runtime'[req[q].sess] : e.of # o
      BY <1>5, <1>7, <3>2, <3>4
    <3> QED
      BY <3>1, <3>2, <3>3, <3>5 DEF KnownRow
  <2>2. \A q \in Requests :
          /\ req'[q].pc \in {"remove_cancel", "stop_cancel", "quality_wait"} =>
               \A e, f \in req'[q].held : e.of = f.of => e = f
          /\ req'[q].pc = "quality_wait" => \A e \in req'[q].held : e.of \in req'[q].again
    BY <1>2, <1>3 DEF OwnerInv
  <2> QED
    BY <2>1, <2>2 DEF OwnerInv, KnownRow, MirrorRow
<1>17. WorkingInv'
  <2> SUFFICES ASSUME NEW e \in Working'
               PROVE  e \in runtime'[e.of.sess] \/ \E q \in Requests : WillCancel(q, e)'
    BY DEF WorkingInv
  <2>1. CASE e \in new
    <3>1. e.of.sess = s
      BY <1>8, <2>1
    <3> QED
      BY <1>1, <1>5, <2>1, <3>1
  <2>2. CASE e \in Working /\ e \in runtime[e.of.sess]
    <3>1. e.of.sess \in Sessions
      BY <2>2, EngineFields DEF Working, TypeOK
    <3> QED
      BY <1>5, <2>2, <3>1
  <2>3. CASE e \in Working /\ e \notin runtime[e.of.sess]
    <3>1. PICK q \in Requests : WillCancel(q, e)
      BY <2>3 DEF WorkingInv
    <3>2. q # p
      BY <3>1 DEF WillCancel
    <3> QED
      BY <1>2, <3>1, <3>2 DEF WillCancel
  <2> QED
    BY <1>10, <2>1, <2>2, <2>3
<1>18. StoppedInv'
  BY <1>1, <1>11 DEF StoppedInv
<1> QED
  BY <1>12, <1>13, <1>14, <1>15, <1>16, <1>17, <1>18

(* Engines return, or a signal cancels all of them. *)
LEMMA FadeStep ==
    ASSUME Inv, TypeOK', UNCHANGED <<running, runtime, status, rows, nextId, req>>,
           phase # "down", phase' # "down", Working' \subseteq Working
    PROVE  Inv'
<1> USE DEF Inv
<1>1. \A t : Silent(t) => Silent(t)'
  BY DEF Silent
<1>2. \A t, o : KnownRow(t, o)' <=> KnownRow(t, o)
  BY DEF KnownRow, MirrorRow
<1>3. DownInv'
  BY DEF DownInv
<1>4. TableInv'
  BY DEF TableInv
<1>5. RuntimeInv'
  BY <1>2 DEF RuntimeInv
<1>6. RequestInv'
  BY <1>1 DEF RequestInv
<1>7. OwnerInv'
  BY DEF OwnerInv, KnownRow, MirrorRow
<1>8. WorkingInv'
  BY DEF WorkingInv, WillCancel
<1>9. StoppedInv'
  BY <1>1 DEF StoppedInv
<1> QED
  BY <1>3, <1>4, <1>5, <1>6, <1>7, <1>8, <1>9

(* After the process ends, nothing but database and mediamtx is left. *)
LEMMA ExitInv == ASSUME Inv, TypeOK', Exit PROVE Inv'
<1> USE DEF Inv
<1>1. /\ running' = {} /\ live' = {} /\ \A s \in Sessions : runtime'[s] = {}
      /\ \A p \in Requests : req'[p] = Idle
      /\ UNCHANGED <<status, rows, nextId>>
  BY DEF Exit, database
<1>2. Idle.pc = "idle" /\ Owns(Idle) = {}
  BY DEF Idle, Owns
<1>3. Working' = {}
  BY <1>1 DEF Working
<1>4. DownInv'
  BY <1>1 DEF DownInv
<1>5. TableInv'
  BY <1>1 DEF TableInv
<1>6. RuntimeInv'
  BY <1>1 DEF RuntimeInv
<1>7. RequestInv'
  BY <1>1, <1>2 DEF RequestInv
<1>8. OwnerInv'
  BY <1>1, <1>2 DEF OwnerInv
<1>9. WorkingInv'
  BY <1>3 DEF WorkingInv
<1>10. StoppedInv'
  BY <1>1, <1>3 DEF StoppedInv, Silent
<1> QED
  BY <1>4, <1>5, <1>6, <1>7, <1>8, <1>9, <1>10

(* Resume gives each row of a session that is called running one engine.   *)
LEMMA ResumeInv == ASSUME Inv, TypeOK', Resume PROVE Inv'
<1> USE DEF Inv
<1>0. PICK back \in Listed : BringBack(back)
  BY DEF Resume
<1>6. \A s \in back : s \in Sessions /\ status[s] = "running"
  BY ListedRun DEF StoredRunning
<1> DEFINE wanted == {r \in rows : r.sess \in back} \cup UNION {MirrorRows(s) : s \in back}
           new == Named(wanted)
<1>1. /\ running' = back /\ runtime' = [s \in Sessions |-> {e \in new : e.of.sess = s}]
      /\ HasName(wanted) /\ phase = "down" /\ phase' = "up"
      /\ live' = live \cup new
      /\ UNCHANGED <<status, rows, nextId, req>>
  BY <1>0 DEF BringBack, Launch, database
<1>2. /\ live = {} /\ \A p \in Requests : req'[p] = Idle
  BY <1>1 DEF DownInv
<1>3. \A r \in wanted : r.sess \in back /\ KnownRow(r.sess, r)
  BY DEF MirrorRows, MirrorRow, KnownRow
<1>4. wanted \in SUBSET Row
  <2>1. rows \subseteq Row
    BY DEF TypeOK
  <2>2. \A s \in back : MirrorRows(s) \subseteq Row
    BY <1>6, MirrorRowType
  <2> QED
    BY <2>1, <2>2
<1>5. /\ \A e \in new : e.of \in wanted
      /\ \A e, f \in new : e.of = f.of => e = f
  BY <1>1, <1>4, NamedEngines
<1> HIDE DEF wanted, new
<1>7. Idle.pc = "idle" /\ Owns(Idle) = {}
  BY DEF Idle, Owns
<1>8. \A t \in Sessions : \A e : e \in runtime'[t] <=> e \in new /\ e.of.sess = t
  BY <1>1
<1>9. \A t, o : KnownRow(t, o)' <=> KnownRow(t, o)
  BY <1>1 DEF KnownRow, MirrorRow
<1>10. DownInv'
  BY <1>1 DEF DownInv
<1>11. TableInv'
  BY <1>1 DEF TableInv
<1>12. RuntimeInv'
  <2>1. ASSUME NEW t \in Sessions
        PROVE  /\ t \in running' => status'[t] = "running"
               /\ t \notin running' => runtime'[t] = {}
               /\ \A f \in runtime'[t] : KnownRow(t, f.of)'
               /\ \A f, g \in runtime'[t] : f.of = g.of => f = g
    <3>1. t \in running' => status'[t] = "running"
      BY <1>1, <1>6
    <3>2. t \notin running' => runtime'[t] = {}
      BY <1>1, <1>3, <1>5, <1>8
    <3>3. \A f \in runtime'[t] : KnownRow(t, f.of)'
      BY <1>3, <1>5, <1>8, <1>9
    <3>4. \A f, g \in runtime'[t] : f.of = g.of => f = g
      BY <1>5, <1>8
    <3> QED
      BY <3>1, <3>2, <3>3, <3>4
  <2> QED
    BY <2>1 DEF RuntimeInv
<1>13. RequestInv'
  BY <1>2, <1>7 DEF RequestInv
<1>14. OwnerInv'
  BY <1>2, <1>7 DEF OwnerInv
<1>15. WorkingInv'
  BY <1>1, <1>2, <1>3, <1>5, <1>6, <1>8 DEF WorkingInv, Working
<1>16. StoppedInv'
  <2>1. \A e \in Working' : status[e.of.sess] = "running"
    BY <1>1, <1>2, <1>3, <1>5, <1>6 DEF Working
  <2> QED
    BY <1>1, <1>6, <2>1 DEF StoppedInv, Silent
<1> QED
  BY <1>10, <1>11, <1>12, <1>13, <1>14, <1>15, <1>16

(* No request, no engine, no runtime: the invariant holds at first boot.   *)
LEMMA InvInit == Init => Inv
<1> SUFFICES ASSUME Init PROVE Inv
  OBVIOUS
<1>1. TypeOK
  BY TypeInit
<1>2. Idle.pc = "idle" /\ Owns(Idle) = {} /\ \A p \in Requests : req[p] = Idle
  BY DEF Idle, Owns, Init
<1>3. Working = {}
  BY DEF Init, Working
<1>4. DownInv
  BY DEF Init, DownInv
<1>5. TableInv
  BY DEF Init, TableInv
<1>6. RuntimeInv
  BY DEF Init, RuntimeInv
<1>7. RequestInv
  BY <1>2 DEF RequestInv
<1>8. OwnerInv
  BY <1>2 DEF OwnerInv
<1>9. WorkingInv /\ StoppedInv
  BY <1>3 DEF Init, WorkingInv, StoppedInv
<1> QED
  BY <1>1, <1>4, <1>5, <1>6, <1>7, <1>8, <1>9 DEF Inv

(* The requests that begin preserve it.                                    *)
LEMMA BeginInv ==
    ASSUME Inv, TypeOK', NEW p \in Requests, Begin(p)
    PROVE  Inv'
<1> USE DEF Inv
<1>1. PICK s \in Sessions :
        \/ \E chans \in SUBSET Channels, show \in Presentations, record \in Records :
               StartCreate(p, s, chans, show, record)
        \/ \E c \in Channels : AddTarget(p, s, c) \/ RemoveTargetByChannel(p, s, c)
        \/ \E id \in TargetIds : RemoveTarget(p, s, id)
        \/ \E show \in Presentations : SetPresentation(p, s, show)
        \/ \E record \in BOOLEAN : SetRecord(p, s, record)
        \/ SetQuality(p, s)
        \/ Stop(p, s)
  BY DEF Begin
<1>2. ASSUME NEW chans, NEW show, NEW record, StartCreate(p, s, chans, show, record)
      PROVE  Inv'
  BY <1>2, StartCreateInv
<1>3. ASSUME NEW c \in Channels, AddTarget(p, s, c)
      PROVE  Inv'
  <2>1. /\ AddTargetLocked(s, c) /\ s \in running /\ req' = req /\ req[p].pc = "idle"
        /\ phase # "down"
    BY <1>3 DEF AddTarget, CanBegin
  <2>2. req[p] = Idle
    BY <2>1 DEF RequestInv
  <2>3. req' = [req EXCEPT ![p] = Idle]
    BY <2>1, <2>2 DEF TypeOK
  <2> QED
    BY <2>1, <2>2, <2>3, AddTargetStep
<1>4. ASSUME NEW c \in Channels, RemoveTargetByChannel(p, s, c)
      PROVE  Inv'
  <2>1. PICK e \in Targets(s) :
          req' = [req EXCEPT ![p] = [Idle EXCEPT !.pc = "remove_take", !.sess = s,
                                                 !.again = {e.of}]]
    BY <1>4 DEF RemoveTargetByChannel
  <2> DEFINE r == [Idle EXCEPT !.pc = "remove_take", !.sess = s, !.again = {e.of}]
  <2>2. req' = [req EXCEPT ![p] = r] /\ r.pc = "remove_take" /\ r.sess = s
    BY <2>1 DEF Idle
  <2>3. /\ UNCHANGED <<Frame, cancelled, status>> /\ s \in running /\ Unlocked
        /\ req[p].pc = "idle" /\ phase # "down"
    BY <1>4 DEF RemoveTargetByChannel, CanBegin, Frame, memory, engines, database
  <2> HIDE DEF r
  <2> QED
    BY <2>2, <2>3, BeginStep
<1>5. ASSUME NEW id, RemoveTarget(p, s, id)
      PROVE  Inv'
  BY <1>5, TakeInv DEF RemoveTarget, CanBegin
<1>6. ASSUME NEW show, SetPresentation(p, s, show)
      PROVE  Inv'
  <2> DEFINE r == [Idle EXCEPT !.pc = "present_store", !.sess = s, !.value = show]
  <2>2. req' = [req EXCEPT ![p] = r] /\ r.pc = "present_store" /\ r.sess = s
    BY <1>6 DEF Idle, SetPresentation
  <2>3. /\ UNCHANGED <<Frame, cancelled, status>> /\ s \in running /\ Unlocked
        /\ req[p].pc = "idle" /\ phase # "down"
    BY <1>6 DEF SetPresentation, CanBegin, Frame, database
  <2> HIDE DEF r
  <2> QED
    BY <2>2, <2>3, BeginStep
<1>7. ASSUME NEW record, SetRecord(p, s, record)
      PROVE  Inv'
  <2> DEFINE r == [Idle EXCEPT !.pc = "record_store", !.sess = s, !.value = record]
  <2>2. req' = [req EXCEPT ![p] = r] /\ r.pc = "record_store" /\ r.sess = s
    BY <1>7 DEF Idle, SetRecord
  <2>3. /\ UNCHANGED <<Frame, cancelled, status>> /\ s \in running /\ Unlocked
        /\ req[p].pc = "idle" /\ phase # "down"
    BY <1>7 DEF SetRecord, CanBegin, Frame, database, engines
  <2> HIDE DEF r
  <2> QED
    BY <2>2, <2>3, BeginStep
<1>8. ASSUME SetQuality(p, s)
      PROVE  Inv'
  <2> DEFINE r == [Idle EXCEPT !.pc = "quality_wait", !.sess = s, !.held = runtime[s],
                               !.again = {e.of : e \in runtime[s]}]
  <2>1. /\ req' = [req EXCEPT ![p] = r] /\ r.pc = "quality_wait" /\ r.sess = s
        /\ r.held = runtime[s] /\ r.again = {e.of : e \in runtime[s]}
    BY <1>8 DEF Idle, SetQuality
  <2>2. /\ UNCHANGED <<phase, running, live, status, rows, nextId>> /\ s \in running
        /\ Unlocked /\ req[p].pc = "idle" /\ phase # "down"
        /\ runtime' = [runtime EXCEPT ![s] = {}]
        /\ cancelled' = cancelled \cup (Targets(s) \cap live)
    BY <1>8 DEF SetQuality, CanBegin, database, Cancel, Without
  <2>3. Owns(r) = r.again
    BY <2>1 DEF Owns
  <2>4. \A e \in runtime[s] : e \in Working' => e.of.id = Mirror
    BY <2>2 DEF Working, Targets, Mirrors
  <2> DEFINE E == runtime[s]
  <2> HIDE DEF r
  <2>5. Took(r, s, E)
    BY <2>1, <2>3, <2>4 DEF Took
  <2>6. \A q \in Requests : req'[q] = IF q = p THEN r ELSE req[q]
    BY <2>1, Others
  <2>7. \A t \in Sessions : runtime'[t] = IF t = s THEN runtime[t] \ E ELSE runtime[t]
    BY <2>2 DEF TypeOK
  <2>8. /\ E \in SUBSET runtime[s] /\ cancelled \subseteq cancelled'
        /\ running' = running \/ (running' = running \ {s} /\ E = runtime[s])
        /\ r.pc = "stop_cancel" => s \notin running'
    BY <2>1, <2>2
  <2> HIDE DEF E
  <2> QED
    BY <2>2, <2>5, <2>6, <2>7, <2>8, TakeStep
<1>9. ASSUME Stop(p, s)
      PROVE  Inv'
  <2> DEFINE r == [Idle EXCEPT !.pc = "stop_cancel", !.sess = s, !.held = runtime[s]]
  <2>1. /\ req' = [req EXCEPT ![p] = r] /\ r.pc = "stop_cancel" /\ r.sess = s
        /\ r.held = runtime[s]
    BY <1>9 DEF Idle, Stop
  <2>2. /\ UNCHANGED <<phase, live, cancelled, status, rows, nextId>> /\ s \in running
        /\ running' = running \ {s}
        /\ Unlocked /\ req[p].pc = "idle" /\ phase # "down"
        /\ runtime' = [runtime EXCEPT ![s] = {}]
    BY <1>9 DEF Stop, CanBegin, database, engines, Without
  <2>3. Owns(r) = {e.of : e \in runtime[s]}
    BY <2>1 DEF Owns
  <2> DEFINE E == runtime[s]
  <2> HIDE DEF r
  <2>5. Took(r, s, E)
    BY <2>1, <2>3 DEF Took
  <2>6. \A q \in Requests : req'[q] = IF q = p THEN r ELSE req[q]
    BY <2>1, Others
  <2>7. \A t \in Sessions : runtime'[t] = IF t = s THEN runtime[t] \ E ELSE runtime[t]
    BY <2>2 DEF TypeOK
  <2>8. /\ E \in SUBSET runtime[s] /\ s \notin running' /\ cancelled \subseteq cancelled'
        /\ running' = running \/ (running' = running \ {s} /\ E = runtime[s])
        /\ req[p].pc \in {"idle", "remove_take"} /\ UNCHANGED <<phase, live, status, rows, nextId>>
    BY <2>2
  <2> HIDE DEF E
  <2> QED
    BY <2>2, <2>5, <2>6, <2>7, <2>8, TakeStep
<1> QED
  BY <1>1, <1>2, <1>3, <1>4, <1>5, <1>6, <1>7, <1>8, <1>9

(* A request that returns without touching runtimes, rows or engines.      *)
LEMMA ReturnInv ==
    ASSUME Inv, TypeOK', NEW p \in Requests, Return(p),
           UNCHANGED <<Frame, cancelled, status>>, phase # "down",
           \A e \in Working : ~WillCancel(p, e)
    PROVE  Inv'
<1>1. Idle.pc = "idle" /\ Owns(Idle) = {}
  BY DEF Idle, Owns
<1>2. \A e \in Working' : ~WillCancel(p, e)
  BY DEF Working, Frame
<1>3. \A t \in Sessions : status'[t] = status[t]
  OBVIOUS
<1> QED
  BY <1>1, <1>2, <1>3, LocalStep DEF Return

(* A request that goes on to the step next, which owns no more than the    *)
(* one before, and has nothing left to cancel.                             *)
LEMMA GotoInv ==
    ASSUME Inv, TypeOK', NEW p \in Requests, NEW next, NEW r,
           req' = [req EXCEPT ![p] = r], r.pc = next, r.sess = req[p].sess,
           UNCHANGED <<Frame, status>>, cancelled \subseteq cancelled', req[p].pc # "idle",
           \/ req[p].pc = "start_record" /\ next = "start_install"
           \/ req[p].pc = "start_add" /\ next = "start_add"
           \/ req[p].pc = "remove_cancel" /\ next = "remove_wait" /\ r.held = req[p].held
           \/ req[p].pc = "remove_wait" /\ next = "remove_delete" /\ r.held = req[p].held
           \/ req[p].pc = "record_store" /\ next = "record_media"
           \/ /\ req[p].pc = "quality_wait" /\ next = "quality_wait" /\ r.again = req[p].again
              /\ r.held \subseteq req[p].held
              /\ \A e \in req[p].held : e.of.id = Mirror => e \in r.held
           \/ req[p].pc = "quality_wait" /\ next = "quality_mirror" /\ r.again = req[p].again
           \/ req[p].pc = "quality_mirror" /\ next = "quality_restart" /\ r.again = req[p].again
           \/ req[p].pc = "stop_cancel" /\ next = "stop_wait" /\ Silent(req[p].sess)'
           \/ req[p].pc = "stop_wait" /\ next = "stop_wait",
           \A e \in Working' : WillCancel(p, e) => next = "quality_wait"
    PROVE  Inv'
<1>1. phase # "down" /\ r.pc # "idle"
  BY DEF Inv, DownInv, Idle
<1>2. Owns(r) \subseteq Owns(req[p])
  BY DEF Owns
<1>3. \A e \in Working' : WillCancel(p, e) => e \in r.held /\ r.pc = req[p].pc
  BY DEF WillCancel
<1>4. \A t \in Sessions : status'[t] = status[t]
  OBVIOUS
<1> QED
  BY <1>1, <1>2, <1>3, <1>4, LocalStep

(* The steps requests take preserve it.                                    *)
LEMMA ContinueInv ==
    ASSUME Inv, TypeOK', NEW p \in Requests, Continue(p)
    PROVE  Inv'
<1>1. req[p].pc # "idle" => phase # "down"
  BY DEF Inv, DownInv, Idle
<1>2. req \in [Requests -> Request] /\ req[p] \in Request
  BY DEF Inv, TypeOK
<1>3. CASE StartRecord(p)
  <2> DEFINE r == [req[p] EXCEPT !.pc = "start_install"]
  <2>1. /\ req' = [req EXCEPT ![p] = r] /\ r.pc = "start_install" /\ r.sess = req[p].sess
        /\ req[p].pc = "start_record" /\ UNCHANGED <<Frame, cancelled, status>>
    BY <1>2, <1>3 DEF StartRecord, Goto, Frame, memory, engines, database, Request
  <2> HIDE DEF r
  <2>2. \A e : ~WillCancel(p, e)
    BY <2>1 DEF WillCancel
  <2> QED
    BY <2>1, <2>2, GotoInv
<1>4. CASE StartInstall(p)
  BY <1>4, StartInstallInv
<1>5. CASE StartAdd(p)
  <2>1. PICK c \in req[p].chans :
          /\ req[p].pc = "start_add"
          /\ \/ AddTargetLocked(req[p].sess, c)
             \/ UNCHANGED <<phase, memory, engines, database, recording>>
          /\ IF req[p].chans = {c} THEN Return(p)
             ELSE req' = [req EXCEPT ![p].chans = @ \ {c}]
    BY <1>5 DEF StartAdd
  <2>2. PICK r : /\ req' = [req EXCEPT ![p] = r]
                 /\ r = Idle \/ (r.pc = "start_add" /\ r.sess = req[p].sess)
    <3>1. CASE req[p].chans = {c}
      BY <2>1, <3>1 DEF Return
    <3>2. CASE req[p].chans # {c}
      <4> DEFINE w == [req[p] EXCEPT !.chans = @ \ {c}]
      <4>1. req' = [req EXCEPT ![p] = w] /\ w.pc = req[p].pc /\ w.sess = req[p].sess
        BY <1>2, <2>1, <3>2 DEF Request
      <4> HIDE DEF w
      <4> QED
        BY <2>1, <4>1
    <3> QED
      BY <3>1, <3>2
  <2>3. req[p].sess \in running
    BY <2>1 DEF Inv, RequestInv
  <2>4. CASE AddTargetLocked(req[p].sess, c)
    BY <1>1, <2>1, <2>2, <2>3, <2>4, AddTargetStep
  <2>5. CASE UNCHANGED <<phase, memory, engines, database, recording>>
    <3>1. UNCHANGED <<Frame, cancelled, status>>
      BY <2>5 DEF Frame, memory, engines, database
    <3>2. \A e : ~WillCancel(p, e)
      BY <2>1 DEF WillCancel
    <3>3. CASE r = Idle
      BY <1>1, <2>1, <2>2, <3>1, <3>2, <3>3, ReturnInv DEF Return
    <3>4. CASE r.pc = "start_add" /\ r.sess = req[p].sess
      BY <2>1, <2>2, <3>1, <3>2, <3>4, GotoInv
    <3> QED
      BY <2>2, <3>3, <3>4
  <2> QED
    BY <2>1, <2>4, <2>5
<1>6. CASE RemoveTake(p)
  <2>1. PICK o \in req[p].again :
          \/ req[p].sess \in running /\ Take(p, req[p].sess, o.id)
          \/ Return(p) /\ UNCHANGED <<phase, memory, engines, database, recording>>
    BY <1>6 DEF RemoveTake
  <2>2. req[p].pc = "remove_take" /\ Unlocked
    BY <1>6 DEF RemoveTake
  <2>3. CASE req[p].sess \in running /\ Take(p, req[p].sess, o.id)
    BY <1>1, <2>2, <2>3, TakeInv
  <2>4. CASE Return(p) /\ UNCHANGED <<phase, memory, engines, database, recording>>
    <3>1. UNCHANGED <<Frame, cancelled, status>>
      BY <2>4 DEF Frame, memory, engines, database
    <3>2. \A e : ~WillCancel(p, e)
      BY <2>2 DEF WillCancel
    <3> QED
      BY <1>1, <2>2, <2>4, <3>1, <3>2, ReturnInv
  <2> QED
    BY <2>1, <2>3, <2>4
<1>7. CASE RemoveCancel(p)
  <2> DEFINE r == [req[p] EXCEPT !.pc = "remove_wait"]
  <2>1. /\ req' = [req EXCEPT ![p] = r] /\ r.pc = "remove_wait" /\ r.sess = req[p].sess
        /\ r.held = req[p].held
        /\ req[p].pc = "remove_cancel" /\ UNCHANGED <<Frame, status>>
        /\ cancelled' = cancelled \cup (req[p].held \cap live)
    BY <1>2, <1>7 DEF RemoveCancel, Goto, Cancel, Frame, memory, database, Request
  <2> HIDE DEF r
  <2>2. \A e \in Working' : ~WillCancel(p, e)
    BY <2>1 DEF WillCancel, Working, Frame
  <2> QED
    BY <2>1, <2>2, GotoInv
<1>8. CASE RemoveWait(p)
  <2> DEFINE r == [req[p] EXCEPT !.pc = "remove_delete"]
  <2>1. /\ req' = [req EXCEPT ![p] = r] /\ r.pc = "remove_delete" /\ r.sess = req[p].sess
        /\ r.held = req[p].held
        /\ req[p].pc = "remove_wait" /\ UNCHANGED <<Frame, cancelled, status>>
    BY <1>2, <1>8 DEF RemoveWait, Goto, Frame, memory, engines, database, Request
  <2> HIDE DEF r
  <2>2. \A e : ~WillCancel(p, e)
    BY <2>1 DEF WillCancel
  <2> QED
    BY <2>1, <2>2, GotoInv
<1>9. CASE RemoveDelete(p)
  BY <1>9, RemoveDeleteInv
<1>10. CASE PresentStore(p)
  <2>1. /\ req[p].pc = "present_store" /\ Return(p) /\ UNCHANGED <<Frame, cancelled>>
        /\ status' = status \/ status' = [status EXCEPT ![req[p].sess] = "running"]
    BY <1>10 DEF PresentStore, Frame, memory, engines
  <2>2. status[req[p].sess] # "none"
    BY <2>1 DEF Inv, RequestInv
  <2>3. \A t \in Sessions : \/ status'[t] = status[t]
                            \/ status'[t] = "running" /\ status[t] # "none"
    BY <2>1, <2>2 DEF Inv, TypeOK
  <2>4. \A e : ~WillCancel(p, e)
    BY <2>1 DEF WillCancel
  <2>5. Idle.pc = "idle" /\ Owns(Idle) = {}
    BY DEF Idle, Owns
  <2> QED
    BY <1>1, <2>1, <2>3, <2>4, <2>5, LocalStep DEF Return
<1>11. CASE RecordStore(p)
  <2>1. req[p].pc = "record_store" /\ UNCHANGED <<Frame, cancelled, status>>
    BY <1>11 DEF RecordStore, Frame, memory, engines
  <2>2. \A e : ~WillCancel(p, e)
    BY <2>1 DEF WillCancel
  <2>3. CASE Return(p)
    BY <1>1, <2>1, <2>2, <2>3, ReturnInv
  <2>4. CASE Goto(p, "record_media")
    <3> DEFINE r == [req[p] EXCEPT !.pc = "record_media"]
    <3>1. req' = [req EXCEPT ![p] = r] /\ r.pc = "record_media" /\ r.sess = req[p].sess
      BY <1>2, <2>4 DEF Goto, Request
    <3> HIDE DEF r
    <3> QED
      BY <2>1, <2>2, <3>1, GotoInv
  <2> QED
    BY <1>11, <2>3, <2>4 DEF RecordStore
<1>12. CASE RecordMedia(p)
  <2>1. req[p].pc = "record_media" /\ Return(p) /\ UNCHANGED <<Frame, cancelled, status>>
    BY <1>12 DEF RecordMedia, Frame, memory, engines, database
  <2>2. \A e : ~WillCancel(p, e)
    BY <2>1 DEF WillCancel
  <2> QED
    BY <1>1, <2>1, <2>2, ReturnInv
<1>13. CASE QualityWait(p)
  <2>1. PICK e \in req[p].held :
          /\ req[p].pc = "quality_wait" /\ e.of.id # Mirror
          /\ req' = [req EXCEPT ![p].held = @ \ {e}]
          /\ UNCHANGED <<phase, memory, engines, database, recording>>
    BY <1>13 DEF QualityWait
  <2> DEFINE r == [req[p] EXCEPT !.held = @ \ {e}]
  <2>2. /\ req' = [req EXCEPT ![p] = r] /\ r.pc = "quality_wait" /\ r.sess = req[p].sess
        /\ r.held = req[p].held \ {e} /\ r.again = req[p].again
    BY <1>2, <2>1 DEF Request
  <2>3. UNCHANGED <<Frame, cancelled, status>>
    BY <2>1 DEF Frame, memory, engines, database
  <2> HIDE DEF r
  <2>4. r.held \subseteq req[p].held /\ \A f \in req[p].held : f.of.id = Mirror => f \in r.held
    BY <2>1, <2>2
  <2> QED
    BY <2>1, <2>2, <2>3, <2>4, GotoInv
<1>14. CASE QualityCancelMirror(p)
  <2> DEFINE r == [req[p] EXCEPT !.pc = "quality_mirror"]
  <2>1. /\ req' = [req EXCEPT ![p] = r] /\ r.pc = "quality_mirror" /\ r.sess = req[p].sess
        /\ r.again = req[p].again
        /\ req[p].pc = "quality_wait" /\ UNCHANGED <<Frame, status>>
        /\ cancelled' = cancelled \cup (req[p].held \cap live)
    BY <1>2, <1>14 DEF QualityCancelMirror, Goto, Cancel, Frame, memory, database, Request
  <2> HIDE DEF r
  <2>2. \A e \in Working' : ~WillCancel(p, e)
    BY <2>1 DEF WillCancel, Working, Frame
  <2> QED
    BY <2>1, <2>2, GotoInv
<1>15. CASE QualityWaitMirror(p)
  <2> DEFINE r == [req[p] EXCEPT !.pc = "quality_restart", !.held = {}]
  <2>1. /\ req' = [req EXCEPT ![p] = r] /\ r.pc = "quality_restart" /\ r.sess = req[p].sess
        /\ r.again = req[p].again
    BY <1>2, <1>15 DEF QualityWaitMirror, Request
  <2>2. req[p].pc = "quality_mirror" /\ UNCHANGED <<Frame, cancelled, status>>
    BY <1>15 DEF QualityWaitMirror, Frame, memory, engines, database
  <2> HIDE DEF r
  <2>3. \A e : ~WillCancel(p, e)
    BY <2>2 DEF WillCancel
  <2> QED
    BY <2>1, <2>2, <2>3, GotoInv
<1>16. CASE QualityRestart(p)
  <2>1. /\ req[p].pc = "quality_restart" /\ Return(p)
        /\ UNCHANGED <<phase, running, status, rows, nextId>>
    BY <1>16 DEF QualityRestart, database
  <2>2. CASE ~StillRunning(req[p].sess)
    <3>1. UNCHANGED <<Frame, cancelled, status>>
      BY <1>16, <2>2 DEF QualityRestart, Frame, engines, database
    <3>2. \A e : ~WillCancel(p, e)
      BY <2>1 DEF WillCancel
    <3> QED
      BY <1>1, <2>1, <3>1, <3>2, ReturnInv
  <2>3. CASE StillRunning(req[p].sess)
    <3> DEFINE s == req[p].sess
               new == Named(req[p].again)
    <3>1. /\ HasName(req[p].again) /\ runtime' = [runtime EXCEPT ![s] = @ \cup new]
          /\ live' = live \cup new /\ cancelled \subseteq cancelled' /\ s \in running
      BY <1>16, <2>3 DEF QualityRestart, Launch, StillRunning
    <3> QED
      BY <2>1, <3>1, QualityRestartInv DEF Return
  <2> QED
    BY <2>2, <2>3
<1>17. CASE StopCancel(p)
  <2> DEFINE r == [req[p] EXCEPT !.pc = "stop_wait", !.deadline = TRUE]
  <2>1. /\ req' = [req EXCEPT ![p] = r] /\ r.pc = "stop_wait" /\ r.sess = req[p].sess
        /\ req[p].pc = "stop_cancel" /\ UNCHANGED <<Frame, status>>
        /\ cancelled' = cancelled \cup (Below(req[p].sess) \cap live)
    BY <1>2, <1>17 DEF StopCancel, Cancel, Frame, memory, database, Request
  <2>2. \A e \in Working' : e.of.sess # req[p].sess
    BY <2>1 DEF Working, Below, Frame
  <2>3. req'[p] = r
    BY <1>2, <2>1
  <2> HIDE DEF r
  <2>4. Silent(req[p].sess)'
    BY <2>1, <2>2, <2>3 DEF Silent
  <2>5. \A e \in Working' : ~WillCancel(p, e)
    <3> SUFFICES ASSUME NEW e \in Working', WillCancel(p, e) PROVE FALSE
      OBVIOUS
    <3>1. e.of.sess = req[p].sess
      BY Held DEF Inv
    <3> QED
      BY <2>2, <3>1
  <2> QED
    BY <2>1, <2>4, <2>5, GotoInv
<1>18. CASE StopWait(p)
  <2>1. PICK e \in req[p].held :
          /\ req[p].pc = "stop_wait"
          /\ \/ req' = [req EXCEPT ![p].held = @ \ {e}]
             \/ req' = [req EXCEPT ![p].held = @ \ {e}, ![p].deadline = FALSE]
          /\ UNCHANGED <<phase, memory, engines, database, recording>>
    BY <1>18 DEF StopWait
  <2>2. PICK r : /\ req' = [req EXCEPT ![p] = r]
                 /\ r.pc = "stop_wait" /\ r.sess = req[p].sess
    <3> DEFINE a == [req[p] EXCEPT !.held = @ \ {e}]
               b == [req[p] EXCEPT !.held = @ \ {e}, !.deadline = FALSE]
    <3>1. a.pc = req[p].pc /\ a.sess = req[p].sess /\ b.pc = req[p].pc /\ b.sess = req[p].sess
      BY <1>2 DEF Request
    <3>2. req' = [req EXCEPT ![p] = a] \/ req' = [req EXCEPT ![p] = b]
      BY <1>2, <2>1
    <3> HIDE DEF a, b
    <3> QED
      BY <2>1, <3>1, <3>2
  <2>3. UNCHANGED <<Frame, cancelled, status>>
    BY <2>1 DEF Frame, memory, engines, database
  <2>4. \A f : ~WillCancel(p, f)
    BY <2>1 DEF WillCancel
  <2> QED
    BY <2>1, <2>2, <2>3, <2>4, GotoInv
<1>19. CASE StopStore(p)
  <2>1. /\ req[p].pc = "stop_wait" /\ Return(p) /\ UNCHANGED <<Frame, cancelled>>
        /\ status' = status \/ status' = [status EXCEPT ![req[p].sess] = "stopped"]
    BY <1>19 DEF StopStore, Frame, memory, engines
  <2>2. /\ status[req[p].sess] # "none" /\ req[p].sess \notin running /\ Silent(req[p].sess)
        /\ req[p].sess \in Sessions
    BY <2>1 DEF Inv, RequestInv, TypeOK, WellFormed
  <2>3. \A q \in Requests : req[q].pc \in Starting => req[q].sess # req[p].sess
    BY <2>1 DEF Inv, RequestInv, Starting
  <2>4. \A t \in Sessions :
          \/ status'[t] = status[t]
          \/ /\ status'[t] = "stopped" /\ status[t] # "none"
             /\ t \notin running /\ Silent(t)
             /\ \A q \in Requests : req[q].pc \in Starting => req[q].sess # t
    BY <2>1, <2>2, <2>3 DEF Inv, TypeOK
  <2>5. \A e : ~WillCancel(p, e)
    BY <2>1 DEF WillCancel
  <2>6. Idle.pc = "idle" /\ Owns(Idle) = {}
    BY DEF Idle, Owns
  <2> QED
    BY <1>1, <2>1, <2>4, <2>5, <2>6, LocalStep DEF Return
<1> QED
  BY <1>3, <1>4, <1>5, <1>6, <1>7, <1>8, <1>9, <1>10, <1>11, <1>12, <1>13, <1>14, <1>15,
     <1>16, <1>17, <1>18, <1>19 DEF Continue

(* Every step of the manager, its engines and the process preserves it.    *)
LEMMA InvNext == Inv /\ [Next]_vars => Inv'
<1> SUFFICES ASSUME Inv, [Next]_vars PROVE Inv'
  OBVIOUS
<1>1. TypeOK'
  BY TypeNext DEF Inv
<1>2. CASE Resume
  BY <1>1, <1>2, ResumeInv
<1>3. CASE Shutdown
  <2>1. /\ UNCHANGED <<running, runtime, status, rows, nextId, req>>
        /\ phase # "down" /\ phase' # "down" /\ Working' \subseteq Working
    BY <1>3 DEF Shutdown, memory, database, Working
  <2> QED
    BY <1>1, <2>1, FadeStep
<1>4. CASE Exit
  BY <1>1, <1>4, ExitInv
<1>5. ASSUME NEW p \in Requests, Begin(p) PROVE Inv'
  BY <1>1, <1>5, BeginInv
<1>6. ASSUME NEW p \in Requests, Continue(p) PROVE Inv'
  BY <1>1, <1>6, ContinueInv
<1>7. ASSUME NEW e \in live, EngineExit(e) PROVE Inv'
  <2>1. /\ UNCHANGED <<running, runtime, status, rows, nextId, req, phase>>
        /\ Working' \subseteq Working
    BY <1>7 DEF EngineExit, memory, database, Working
  <2>2. phase # "down"
    BY DEF Inv, DownInv
  <2> QED
    BY <1>1, <2>1, <2>2, FadeStep
<1>8. CASE UNCHANGED vars
  <2>1. UNCHANGED <<phase, running, runtime, live, cancelled, status, rows, nextId, req>>
    BY <1>8 DEF vars, memory, engines, database
  <2>2. Working' \subseteq Working
    BY <2>1 DEF Working
  <2>3. CASE phase # "down"
    BY <1>1, <2>1, <2>2, <2>3, FadeStep
  <2>4. CASE phase = "down"
    <3>1. /\ running' = {} /\ live' = {} /\ \A s \in Sessions : runtime'[s] = {}
          /\ \A p \in Requests : req'[p] = Idle
      BY <2>1, <2>4 DEF Inv, DownInv
    <3>2. Idle.pc = "idle" /\ Owns(Idle) = {} /\ Working' = {}
      BY <3>1 DEF Idle, Owns, Working
    <3>3. DownInv' /\ RuntimeInv' /\ TableInv'
      BY <2>1, <3>1 DEF DownInv, RuntimeInv, TableInv, Inv
    <3>4. RequestInv' /\ OwnerInv'
      BY <3>1, <3>2 DEF RequestInv, OwnerInv
    <3>5. WorkingInv' /\ StoppedInv'
      BY <3>1, <3>2 DEF WorkingInv, StoppedInv, Silent
    <3> QED
      BY <1>1, <3>3, <3>4, <3>5 DEF Inv
  <2> QED
    BY <2>3, <2>4
<1> QED
  BY <1>2, <1>3, <1>4, <1>5, <1>6, <1>7, <1>8 DEF Next

(***************************************************************************)
(* The theorems.  The inductive invariant holds of every behaviour, with   *)
(* any faults: calls that fail, waits that time out, crashes and signals.  *)
(***************************************************************************)
THEOREM InvCorrect == Spec => []Inv
<1>1. Init => Inv
  BY InvInit
<1>2. Inv /\ [Next]_vars => Inv'
  BY InvNext
<1> QED
  BY <1>1, <1>2, PTL DEF Spec

(* No engine works that neither a runtime holds nor a request will cancel. *)
THEOREM NoOrphanEngineCorrect == Spec => []NoOrphanEngine
<1>1. Inv => NoOrphanEngine
  <2> SUFFICES ASSUME Inv, NEW e \in Working, \A p \in Requests : ~WillCancel(p, e)
               PROVE  e.of.sess \in running /\ e \in runtime[e.of.sess]
    BY DEF NoOrphanEngine
  <2>1. e \in runtime[e.of.sess]
    BY DEF Inv, WorkingInv
  <2>2. e.of.sess \in Sessions
    BY EngineFields DEF Inv, TypeOK, Working
  <2> QED
    BY <2>1, <2>2 DEF Inv, RuntimeInv
<1> QED
  BY <1>1, InvCorrect, PTL

(* Two engines at work never share a row, and rows of the table never      *)
(* share an id: a target has one engine, however requests overlap.         *)
THEOREM OneEngineCorrect == Spec => []OneEnginePerTarget
<1>1. Inv => OneEnginePerTarget
  <2> SUFFICES ASSUME Inv, NEW e \in Working, NEW f \in Working,
                      e.of.sess = f.of.sess, e.of.id = f.of.id
               PROVE  e = f
    BY DEF OneEnginePerTarget
  <2> USE DEF Inv
  <2>1. e.of.sess \in Sessions
    BY EngineFields DEF TypeOK, Working
  <2>2. ASSUME NEW g \in Working
        PROVE  KnownRow(g.of.sess, g.of)
    <3>1. CASE g \in runtime[g.of.sess]
      <4>1. g.of.sess \in Sessions
        BY EngineFields DEF TypeOK, Working
      <4> QED
        BY <3>1, <4>1 DEF RuntimeInv
    <3>2. CASE g \notin runtime[g.of.sess]
      BY <3>2, Held DEF WorkingInv
    <3> QED
      BY <3>1, <3>2
  <2>3. e.of = f.of
    <3>1. \A r \in rows : r.id # Mirror
      BY IdsAssumption DEF TableInv
    <3>2. \A s : MirrorRow(s).id = Mirror
      BY DEF MirrorRow
    <3> QED
      BY <2>2, <3>1, <3>2 DEF KnownRow, TableInv
  <2>4. CASE e \in runtime[e.of.sess] /\ f \in runtime[e.of.sess]
    BY <2>1, <2>3, <2>4 DEF RuntimeInv
  <2>5. ASSUME NEW g \in Working, NEW h \in Working, g.of = h.of,
               g \in runtime[g.of.sess], NEW p \in Requests, WillCancel(p, h)
        PROVE  FALSE
    BY <2>5, Held DEF OwnerInv
  <2>6. ASSUME NEW p \in Requests, NEW q \in Requests, WillCancel(p, e), WillCancel(q, f)
        PROVE  e = f
    <3>1. p = q
      BY <2>3, <2>6, Held DEF OwnerInv
    <3> QED
      BY <2>3, <2>6, <3>1 DEF WillCancel, OwnerInv
  <2> QED
    BY <2>3, <2>4, <2>5, <2>6 DEF WorkingInv
<1> QED
  BY <1>1, InvCorrect, PTL

(* Whatever works for a target, the table has the target's row.            *)
THEOREM EngineHasRowCorrect == Spec => []EngineHasRow
<1>1. Inv => EngineHasRow
  <2> SUFFICES ASSUME Inv, NEW e \in Working
               PROVE  e.of.id = Mirror \/ e.of \in rows
    BY DEF EngineHasRow
  <2> USE DEF Inv
  <2>1. KnownRow(e.of.sess, e.of)
    <3>1. CASE e \in runtime[e.of.sess]
      <4>1. e.of.sess \in Sessions
        BY EngineFields DEF TypeOK, Working
      <4> QED
        BY <3>1, <4>1 DEF RuntimeInv
    <3>2. CASE e \notin runtime[e.of.sess]
      BY <3>2, Held DEF WorkingInv
    <3> QED
      BY <3>1, <3>2
  <2> QED
    BY <2>1 DEF KnownRow, MirrorRow
<1> QED
  BY <1>1, InvCorrect, PTL

(* A session the database calls stopped is not running, and silent.        *)
THEOREM StoppedIsSilentCorrect == Spec => []StoppedIsSilent
<1>1. Inv => StoppedIsSilent
  BY DEF Inv, StoppedInv, StoppedIsSilent, Silent
<1> QED
  BY <1>1, InvCorrect, PTL

(* An engine named for a row of R works on a row of R.                     *)
LEMMA NamedOf == ASSUME NEW R PROVE \A e \in Named(R) : e.of \in R
<1> DEFINE pick(r) == CHOOSE g \in Gens : [of |-> r, gen |-> g] \notin Referenced
<1>1. \A e \in Named(R) : \E r \in R : e = [of |-> r, gen |-> pick(r)]
  BY DEF Named
<1> HIDE DEF pick
<1> QED
  BY <1>1

(* Steps by which runtimes lose engines and nobody changes what is shown.  *)
LEMMA ShowsKept ==
    ASSUME ShowsPresentation, TypeOK, running' \subseteq running, live' \subseteq live,
           \A s \in Sessions : runtime'[s] \subseteq runtime[s],
           pres' = pres, \A e \in live' : told'[e] = told[e]
    PROVE  ShowsPresentation'
  BY DEF ShowsPresentation, Targets, Mirrors, TypeOK

(* Engines added to session s are started with what s shows.               *)
LEMMA ShowsAdded ==
    ASSUME ShowsPresentation, TypeOK, NEW s \in Sessions, NEW new, s \in running,
           Launch(new, pres), \A e \in new : e.of.sess = s,
           runtime' = [runtime EXCEPT ![s] = @ \cup new], UNCHANGED <<running, pres>>,
           \A t \in Sessions : \A e \in runtime[t] : e.of.sess = t
    PROVE  ShowsPresentation'
<1>1. /\ live' = live \cup new
      /\ \A e \in live' : told'[e] = IF e \in new THEN pres[e.of.sess] ELSE told[e]
  BY DEF Launch
<1>2. \A t \in Sessions : runtime'[t] = IF t = s THEN runtime[t] \cup new ELSE runtime[t]
  BY DEF TypeOK
<1> SUFFICES ASSUME NEW t \in running, NEW e \in (Targets(t) \cap live)' PROVE told'[e] = pres[t]
  BY DEF ShowsPresentation
<1>3. t \in Sessions /\ e \in runtime'[t] /\ e.of.id # Mirror /\ e \in live'
  BY DEF TypeOK, Targets, Mirrors
<1>4. e.of.sess = t
  BY <1>2, <1>3
<1>5. CASE e \in new
  BY <1>1, <1>3, <1>4, <1>5
<1>6. CASE e \notin new
  <2>1. e \in Targets(t) \cap live
    BY <1>1, <1>2, <1>3, <1>6 DEF Targets, Mirrors
  <2> QED
    BY <1>1, <1>3, <1>6, <2>1 DEF ShowsPresentation
<1> QED
  BY <1>5, <1>6

(* No step leaves an engine showing what its session does not.             *)
LEMMA ShowsNext == Inv /\ ShowsPresentation /\ [Next]_vars => ShowsPresentation'
<1> SUFFICES ASSUME Inv, ShowsPresentation, [Next]_vars PROVE ShowsPresentation'
  OBVIOUS
<1>1. TypeOK
  BY DEF Inv
<1>2. \A t \in Sessions : \A e \in runtime[t] : e.of.sess = t
  BY DEF Inv, RuntimeInv, KnownRow
<1>3. CASE UNCHANGED <<running, runtime, live, told, pres>>
  BY <1>1, <1>3, ShowsKept
<1>4. ASSUME NEW s \in running, NEW c, AddTargetLocked(s, c) PROVE ShowsPresentation'
  <2> DEFINE row == [id |-> nextId, sess |-> s, chan |-> c]
             new == Named({row})
  <2>1. \A e \in new : e.of.sess = s
    BY DEF Named
  <2>2. /\ Launch(new, pres) /\ runtime' = [runtime EXCEPT ![s] = @ \cup new]
        /\ UNCHANGED <<running, pres>> /\ s \in Sessions
    BY <1>1, <1>4 DEF AddTargetLocked, Launch, Shown, TypeOK
  <2> HIDE DEF new
  <2> QED
    BY <1>1, <1>2, <2>1, <2>2, ShowsAdded
<1>5. ASSUME NEW p, NEW s \in Sessions, NEW id, Take(p, s, id) PROVE ShowsPresentation'
  <2>1. /\ \A t \in Sessions : runtime'[t] \subseteq runtime[t]
        /\ UNCHANGED <<running, pres, live, told>>
    BY <1>1, <1>5 DEF Take, Without, engines, TypeOK
  <2> QED
    BY <1>1, <2>1, ShowsKept
<1>6. CASE Resume
  <2>0. PICK back \in Listed : BringBack(back)
    BY <1>6 DEF Resume
  <2> DEFINE wanted == {r \in rows : r.sess \in back} \cup UNION {MirrorRows(s) : s \in back}
             new == Named(wanted)
  <2>1. /\ runtime' = [s \in Sessions |-> {e \in new : e.of.sess = s}]
        /\ pres' = dbPres /\ running' = back
        /\ told' = [e \in live \cup new |-> IF e \in new THEN dbPres[e.of.sess] ELSE told[e]]
    BY <2>0 DEF BringBack, Launch
  <2>2. \A s \in back : s \in Sessions
    BY ListedRun DEF StoredRunning
  <2> HIDE DEF new
  <2>3. ASSUME NEW t \in running', NEW e \in runtime'[t] PROVE told'[e] = pres'[t]
    BY <2>1, <2>2, <2>3
  <2> QED
    BY <2>3 DEF ShowsPresentation, Targets, Mirrors
<1>7. CASE Exit
  BY <1>7 DEF Exit, ShowsPresentation
<1>8. CASE Shutdown
  BY <1>1, <1>8, ShowsKept DEF Shutdown, memory
<1>9. ASSUME NEW e \in live, EngineExit(e) PROVE ShowsPresentation'
  <2>1. /\ live' \subseteq live /\ \A d \in live' : told'[d] = told[d]
        /\ UNCHANGED <<running, runtime, pres>>
    BY <1>9 DEF EngineExit, memory
  <2> QED
    BY <1>1, <2>1, ShowsKept
<1>10. ASSUME NEW p \in Requests, Begin(p) PROVE ShowsPresentation'
  <2>1. PICK s \in Sessions :
        \/ \E chans \in SUBSET Channels, show \in Presentations, record \in Records :
               StartCreate(p, s, chans, show, record)
        \/ \E c \in Channels : AddTarget(p, s, c) \/ RemoveTargetByChannel(p, s, c)
        \/ \E id \in TargetIds : RemoveTarget(p, s, id)
        \/ \E show \in Presentations : SetPresentation(p, s, show)
        \/ \E record \in BOOLEAN : SetRecord(p, s, record)
        \/ SetQuality(p, s)
        \/ Stop(p, s)
    BY <1>10 DEF Begin
  <2>2. ASSUME NEW chans, NEW show, NEW record, StartCreate(p, s, chans, show, record)
        PROVE  ShowsPresentation'
    BY <1>3, <2>2 DEF StartCreate, memory, engines
  <2>3. ASSUME NEW c, AddTarget(p, s, c) PROVE ShowsPresentation'
    BY <1>4, <2>3 DEF AddTarget
  <2>4. ASSUME NEW c, RemoveTargetByChannel(p, s, c) PROVE ShowsPresentation'
    BY <1>3, <2>4 DEF RemoveTargetByChannel, memory, engines
  <2>5. ASSUME NEW id, RemoveTarget(p, s, id) PROVE ShowsPresentation'
    BY <1>5, <2>5 DEF RemoveTarget
  <2>6. ASSUME NEW show, SetPresentation(p, s, show) PROVE ShowsPresentation'
    <3>1. /\ pres' = [pres EXCEPT ![s] = show] /\ UNCHANGED <<running, runtime, live>>
          /\ told' = [e \in live |-> IF e \in Targets(s) THEN show ELSE told[e]]
      BY <2>6 DEF SetPresentation
    <3>2. \A t \in Sessions : Targets(t)' = Targets(t)
      BY <3>1 DEF Targets, Mirrors
    <3>3. ASSUME NEW t \in running, NEW e \in Targets(t) \cap live
          PROVE  told'[e] = pres'[t]
      <4>1. t \in Sessions /\ e.of.sess = t
        BY <1>1, <1>2 DEF TypeOK, Targets
      <4>2. CASE t = s
        BY <1>1, <3>1, <4>1, <4>2 DEF TypeOK
      <4>3. CASE t # s
        <5>1. e \notin Targets(s)
          BY <1>2, <4>1, <4>3 DEF Targets
        <5> QED
          BY <1>1, <3>1, <4>1, <4>3, <5>1 DEF ShowsPresentation, TypeOK
      <4> QED
        BY <4>2, <4>3
    <3>4. \A t \in running : t \in Sessions
      BY <1>1 DEF TypeOK
    <3> QED
      BY <3>1, <3>2, <3>3, <3>4 DEF ShowsPresentation
  <2>7. ASSUME NEW record, SetRecord(p, s, record) PROVE ShowsPresentation'
    BY <1>3, <2>7 DEF SetRecord, engines
  <2>8. CASE SetQuality(p, s)
    <3>1. /\ \A t \in Sessions : runtime'[t] \subseteq runtime[t]
          /\ UNCHANGED <<running, pres, live, told>>
      BY <1>1, <2>8 DEF SetQuality, Without, TypeOK
    <3> QED
      BY <1>1, <3>1, ShowsKept
  <2>9. CASE Stop(p, s)
    <3>1. /\ \A t \in Sessions : runtime'[t] \subseteq runtime[t]
          /\ UNCHANGED <<pres, live, told>> /\ running' \subseteq running
      BY <1>1, <2>9 DEF Stop, Without, TypeOK, engines
    <3> QED
      BY <1>1, <3>1, ShowsKept
  <2> QED
    BY <2>1, <2>2, <2>3, <2>4, <2>5, <2>6, <2>7, <2>8, <2>9
<1>11. ASSUME NEW p \in Requests, Continue(p) PROVE ShowsPresentation'
  <2>1. CASE StartInstall(p)
    <3> DEFINE s == req[p].sess
               new == Named(MirrorRows(s))
    <3>1. /\ running' = running \cup {s} /\ runtime' = [runtime EXCEPT ![s] = new]
          /\ pres' = [pres EXCEPT ![s] = dbPres[s]] /\ live' = live \cup new
          /\ told' = [e \in live \cup new |-> IF e \in new THEN dbPres[e.of.sess] ELSE told[e]]
      BY <2>1 DEF StartInstall, Launch
    <3>2. \A e \in new : e.of.id = Mirror /\ e.of.sess = s
      BY NamedOf DEF MirrorRows, MirrorRow
    <3>3. s \in Sessions
      BY <1>1, <2>1 DEF StartInstall, TypeOK, WellFormed
    <3> HIDE DEF s, new
    <3>4. ASSUME NEW t \in running', NEW e \in runtime'[t], e.of.id # Mirror, e \in live'
          PROVE  told'[e] = pres'[t]
      <4>1. t # s /\ t \in running /\ t \in Sessions /\ e \notin new
        BY <1>1, <3>1, <3>2, <3>3, <3>4 DEF TypeOK
      <4>2. e \in Targets(t) \cap live
        BY <1>1, <3>1, <3>3, <3>4, <4>1 DEF Targets, Mirrors, TypeOK
      <4> QED
        BY <1>1, <3>1, <3>3, <4>1, <4>2 DEF ShowsPresentation, TypeOK
    <3> QED
      BY <3>4 DEF ShowsPresentation, Targets, Mirrors
  <2>2. CASE StartAdd(p)
    <3>1. req[p].sess \in running
      BY <2>2 DEF Inv, RequestInv, StartAdd
    <3> QED
      BY <1>3, <1>4, <2>2, <3>1 DEF StartAdd, memory, engines
  <2>3. CASE RemoveTake(p)
    <3>1. req[p].sess \in Sessions
      BY <1>1, <2>3 DEF RemoveTake, TypeOK, WellFormed
    <3> QED
      BY <1>3, <1>5, <2>3, <3>1 DEF RemoveTake, memory, engines
  <2>4. CASE QualityRestart(p)
    <3> DEFINE s == req[p].sess
               new == Named(req[p].again)
    <3>1. CASE ~StillRunning(s)
      BY <1>3, <2>4, <3>1 DEF QualityRestart, engines
    <3>2. CASE StillRunning(s)
      <4>1. /\ Launch(new, pres) /\ runtime' = [runtime EXCEPT ![s] = @ \cup new]
            /\ UNCHANGED <<running, pres>> /\ s \in running
        BY <2>4, <3>2 DEF QualityRestart, Launch, Shown, StillRunning
      <4>2. \A o \in req[p].again : o.sess = s
        BY <2>4 DEF Inv, OwnerInv, Owns, KnownRow, QualityRestart
      <4>3. \A e \in new : e.of.sess = s
        BY <4>2, NamedOf
      <4>4. s \in Sessions
        BY <1>1, <4>1 DEF TypeOK
      <4> HIDE DEF s, new
      <4> QED
        BY <1>1, <1>2, <4>1, <4>3, <4>4, ShowsAdded
    <3> QED
      BY <3>1, <3>2
  <2>5. CASE ~(StartInstall(p) \/ StartAdd(p) \/ RemoveTake(p) \/ QualityRestart(p))
    <3>1. UNCHANGED <<running, runtime, live, told, pres>>
      BY <1>11, <2>5 DEF Continue, StartRecord, RemoveCancel, RemoveWait, RemoveDelete,
         PresentStore, RecordStore, RecordMedia, QualityWait, QualityCancelMirror,
         QualityWaitMirror, StopCancel, StopWait, StopStore, memory, engines
    <3> QED
      BY <1>3, <3>1
  <2> QED
    BY <2>1, <2>2, <2>3, <2>4, <2>5
<1>12. CASE UNCHANGED vars
  BY <1>3, <1>12 DEF vars, memory, engines
<1> QED
  BY <1>6, <1>7, <1>8, <1>9, <1>10, <1>11, <1>12 DEF Next

(* Whatever is started while a change is under way, every engine of a      *)
(* session shows what the session shows.                                   *)
THEOREM ShowsPresentationCorrect == Spec => []ShowsPresentation
<1>1. Init => ShowsPresentation
  BY DEF Init, ShowsPresentation
<1>2. Inv /\ ShowsPresentation /\ [Next]_vars => ShowsPresentation'
  BY ShowsNext
<1> QED
  BY <1>1, <1>2, InvCorrect, PTL DEF Spec

-----------------------------------------------------------------------------
(***************************************************************************)
(* Part 3.  Requests that do not overlap.                                  *)
(*                                                                         *)
(* What the database, the runtime of a session and a request in progress   *)
(* say of each other, one invariant at a time: PresentInv (what a change of *)
(* presentation can count on), RowsInv (rows without an engine),           *)
(* RunningInv (what the database calls running), ChannelsInv (channels not *)
(* yet taken) and SettingsInv (settings half written).                     *)
(***************************************************************************)

(***************************************************************************)
(* The steps a request goes through, by the places it is at.               *)
(***************************************************************************)
Order == {
    <<"start_record", "start_install">>, <<"start_install", "start_add">>,
    <<"start_add", "start_add">>, <<"start_add", "idle">>,
    <<"remove_take", "remove_cancel">>, <<"remove_take", "idle">>,
    <<"remove_cancel", "remove_wait">>, <<"remove_wait", "remove_delete">>,
    <<"remove_delete", "idle">>, <<"present_store", "idle">>,
    <<"record_store", "record_media">>, <<"record_store", "idle">>, <<"record_media", "idle">>,
    <<"quality_wait", "quality_wait">>, <<"quality_wait", "quality_mirror">>,
    <<"quality_mirror", "quality_restart">>, <<"quality_restart", "idle">>,
    <<"stop_cancel", "stop_wait">>, <<"stop_wait", "stop_wait">>, <<"stop_wait", "idle">>}

(* Request p goes on as r: further in the order of its steps, with its     *)
(* session, and with its other locals unless it takes an engine.           *)
GoesOn(p, r) ==
    /\ req' = [req EXCEPT ![p] = r]
    /\ <<req[p].pc, r.pc>> \in Order
    /\ r.pc = "idle" => r = Idle
    /\ r.pc # "idle" => r.sess = req[p].sess
    /\ r.pc \notin {"idle", "remove_cancel"} => r.again = req[p].again /\ r.value = req[p].value
    /\ r.pc \in {"remove_wait", "remove_delete"} => r.held = req[p].held

(* What a step of request p may change, by the place it is at.             *)
Touches(p) ==
    /\ UNCHANGED phase
    /\ req[p].pc # "start_install" => UNCHANGED <<running, pres, rec>>
    /\ req[p].pc \notin {"start_install", "start_add", "remove_take", "quality_restart"} =>
         UNCHANGED runtime
    /\ req[p].pc \notin {"start_add", "remove_delete"} => UNCHANGED rows
    /\ req[p].pc \notin {"present_store", "stop_wait"} => UNCHANGED <<status, dbPres>>
    /\ req[p].pc # "record_store" => UNCHANGED dbRec
    /\ req[p].pc \notin {"start_record", "record_media"} => UNCHANGED recording

(* A step from one place to the next, with nothing else in the locals.     *)
LEMMA GotoGoesOn ==
    ASSUME TypeOK, NEW p \in Requests, NEW next, Goto(p, next), next # "idle",
           next # "remove_cancel", <<req[p].pc, next>> \in Order
    PROVE  \E r : GoesOn(p, r)
<1> DEFINE r == [req[p] EXCEPT !.pc = next]
<1>1. req \in [Requests -> Request] /\ req[p] \in Request
  BY DEF TypeOK
<1>2. /\ r.pc = next /\ r.sess = req[p].sess /\ r.again = req[p].again
      /\ r.value = req[p].value /\ r.held = req[p].held
  BY <1>1 DEF Request
<1>3. req' = [req EXCEPT ![p] = r]
  BY <1>1 DEF Goto
<1> HIDE DEF r
<1> QED
  BY <1>2, <1>3 DEF GoesOn

LEMMA ReturnGoesOn ==
    ASSUME TypeOK, NEW p \in Requests, Return(p), <<req[p].pc, "idle">> \in Order
    PROVE  \E r : GoesOn(p, r)
<1>1. Idle.pc = "idle"
  BY DEF Idle
<1> QED
  BY <1>1 DEF GoesOn, Return

(* Every step of a request is one of these.                                *)
LEMMA ContinueGoesOn ==
    ASSUME TypeOK, NEW p \in Requests, Continue(p)
    PROVE  (\E r : GoesOn(p, r)) /\ Touches(p)
<1>2. req \in [Requests -> Request] /\ req[p] \in Request
  BY DEF TypeOK
<1> USE DEF memory, engines, database
<1>3. CASE StartRecord(p)
  <2>1. req[p].pc = "start_record" /\ Goto(p, "start_install") /\ Touches(p)
    BY <1>3 DEF StartRecord, Touches
  <2> QED
    BY <2>1, GotoGoesOn DEF Order
<1>4. CASE StartInstall(p)
  <2>1. req[p].pc = "start_install" /\ Goto(p, "start_add") /\ Touches(p)
    BY <1>4 DEF StartInstall, Touches
  <2> QED
    BY <2>1, GotoGoesOn DEF Order
<1>5. CASE StartAdd(p)
  <2>1. PICK c \in req[p].chans :
          /\ req[p].pc = "start_add"
          /\ \/ AddTargetLocked(req[p].sess, c)
             \/ UNCHANGED <<phase, memory, engines, database, recording>>
          /\ IF req[p].chans = {c} THEN Return(p)
             ELSE req' = [req EXCEPT ![p].chans = @ \ {c}]
    BY <1>5 DEF StartAdd
  <2>2. Touches(p)
    BY <2>1 DEF AddTargetLocked, Touches
  <2>3. CASE req[p].chans = {c}
    BY <2>1, <2>2, <2>3, ReturnGoesOn DEF Order
  <2>4. CASE req[p].chans # {c}
    <3> DEFINE w == [req[p] EXCEPT !.chans = @ \ {c}]
    <3>1. /\ req' = [req EXCEPT ![p] = w] /\ w.pc = req[p].pc /\ w.sess = req[p].sess
          /\ w.again = req[p].again /\ w.value = req[p].value /\ w.held = req[p].held
      BY <1>2, <2>1, <2>4 DEF Request
    <3>2. <<req[p].pc, w.pc>> \in Order /\ w.pc = "start_add"
      BY <2>1, <3>1 DEF Order
    <3> HIDE DEF w
    <3> QED
      BY <2>2, <3>1, <3>2 DEF GoesOn
  <2> QED
    BY <2>3, <2>4
<1>6. CASE RemoveTake(p)
  <2>1. PICK o \in req[p].again :
          \/ Take(p, req[p].sess, o.id)
          \/ Return(p) /\ UNCHANGED <<phase, memory, engines, database, recording>>
    BY <1>6 DEF RemoveTake
  <2>2. req[p].pc = "remove_take"
    BY <1>6 DEF RemoveTake
  <2>3. CASE Take(p, req[p].sess, o.id)
    <3>1. PICK e \in Targets(req[p].sess) :
            req' = [req EXCEPT ![p] = [Idle EXCEPT !.pc = "remove_cancel", !.sess = req[p].sess,
                                                   !.held = {e}]]
      BY <2>3 DEF Take
    <3> DEFINE r == [Idle EXCEPT !.pc = "remove_cancel", !.sess = req[p].sess, !.held = {e}]
    <3>2. req' = [req EXCEPT ![p] = r] /\ r.pc = "remove_cancel" /\ r.sess = req[p].sess
      BY <3>1 DEF Idle
    <3>3. Touches(p)
      BY <2>2, <2>3 DEF Take, Touches
    <3> HIDE DEF r
    <3>4. GoesOn(p, r)
      BY <2>2, <3>2 DEF GoesOn, Order
    <3> QED
      BY <3>3, <3>4
  <2>4. CASE Return(p) /\ UNCHANGED <<phase, memory, engines, database, recording>>
    <3>1. Touches(p)
      BY <2>2, <2>4 DEF Touches
    <3> QED
      BY <2>2, <2>4, <3>1, ReturnGoesOn DEF Order
  <2> QED
    BY <2>1, <2>3, <2>4
<1>7. CASE RemoveCancel(p)
  <2>1. req[p].pc = "remove_cancel" /\ Goto(p, "remove_wait") /\ Touches(p)
    BY <1>7 DEF RemoveCancel, Touches
  <2> QED
    BY <2>1, GotoGoesOn DEF Order
<1>8. CASE RemoveWait(p)
  <2>1. req[p].pc = "remove_wait" /\ Goto(p, "remove_delete") /\ Touches(p)
    BY <1>8 DEF RemoveWait, Touches
  <2> QED
    BY <2>1, GotoGoesOn DEF Order
<1>9. CASE RemoveDelete(p)
  <2>1. req[p].pc = "remove_delete" /\ Return(p) /\ Touches(p)
    BY <1>9 DEF RemoveDelete, Touches
  <2> QED
    BY <2>1, ReturnGoesOn DEF Order
<1>10. CASE PresentStore(p)
  <2>1. req[p].pc = "present_store" /\ Return(p) /\ Touches(p)
    BY <1>10 DEF PresentStore, Touches
  <2> QED
    BY <2>1, ReturnGoesOn DEF Order
<1>11. CASE RecordStore(p)
  <2>1. req[p].pc = "record_store" /\ (Return(p) \/ Goto(p, "record_media")) /\ Touches(p)
    BY <1>11 DEF RecordStore, Touches
  <2> QED
    BY <2>1, ReturnGoesOn, GotoGoesOn DEF Order
<1>12. CASE RecordMedia(p)
  <2>1. req[p].pc = "record_media" /\ Return(p) /\ Touches(p)
    BY <1>12 DEF RecordMedia, Touches
  <2> QED
    BY <2>1, ReturnGoesOn DEF Order
<1>13. CASE QualityWait(p)
  <2>1. PICK e \in req[p].held :
          /\ req[p].pc = "quality_wait"
          /\ req' = [req EXCEPT ![p].held = @ \ {e}]
          /\ UNCHANGED <<phase, memory, engines, database, recording>>
    BY <1>13 DEF QualityWait
  <2> DEFINE r == [req[p] EXCEPT !.held = @ \ {e}]
  <2>2. /\ req' = [req EXCEPT ![p] = r] /\ r.pc = "quality_wait" /\ r.sess = req[p].sess
        /\ r.again = req[p].again /\ r.value = req[p].value
    BY <1>2, <2>1 DEF Request
  <2>3. Touches(p)
    BY <2>1 DEF Touches
  <2> HIDE DEF r
  <2>4. GoesOn(p, r)
    BY <2>1, <2>2 DEF GoesOn, Order
  <2> QED
    BY <2>3, <2>4
<1>14. CASE QualityCancelMirror(p)
  <2>1. req[p].pc = "quality_wait" /\ Goto(p, "quality_mirror") /\ Touches(p)
    BY <1>14 DEF QualityCancelMirror, Touches
  <2> QED
    BY <2>1, GotoGoesOn DEF Order
<1>15. CASE QualityWaitMirror(p)
  <2> DEFINE r == [req[p] EXCEPT !.pc = "quality_restart", !.held = {}]
  <2>1. /\ req' = [req EXCEPT ![p] = r] /\ r.pc = "quality_restart" /\ r.sess = req[p].sess
        /\ r.again = req[p].again /\ r.value = req[p].value
    BY <1>2, <1>15 DEF QualityWaitMirror, Request
  <2>2. req[p].pc = "quality_mirror" /\ Touches(p)
    BY <1>15 DEF QualityWaitMirror, Touches
  <2> HIDE DEF r
  <2>3. GoesOn(p, r)
    BY <2>1, <2>2 DEF GoesOn, Order
  <2> QED
    BY <2>2, <2>3
<1>16. CASE QualityRestart(p)
  <2>1. req[p].pc = "quality_restart" /\ Return(p) /\ Touches(p)
    BY <1>16 DEF QualityRestart, Touches
  <2> QED
    BY <2>1, ReturnGoesOn DEF Order
<1>17. CASE StopCancel(p)
  <2> DEFINE r == [req[p] EXCEPT !.pc = "stop_wait", !.deadline = TRUE]
  <2>1. /\ req' = [req EXCEPT ![p] = r] /\ r.pc = "stop_wait" /\ r.sess = req[p].sess
        /\ r.again = req[p].again /\ r.value = req[p].value
    BY <1>2, <1>17 DEF StopCancel, Request
  <2>2. req[p].pc = "stop_cancel" /\ Touches(p)
    BY <1>17 DEF StopCancel, Touches
  <2> HIDE DEF r
  <2>3. GoesOn(p, r)
    BY <2>1, <2>2 DEF GoesOn, Order
  <2> QED
    BY <2>2, <2>3
<1>18. CASE StopWait(p)
  <2>1. PICK e \in req[p].held :
          /\ req[p].pc = "stop_wait"
          /\ \/ req' = [req EXCEPT ![p].held = @ \ {e}]
             \/ req' = [req EXCEPT ![p].held = @ \ {e}, ![p].deadline = FALSE]
          /\ UNCHANGED <<phase, memory, engines, database, recording>>
    BY <1>18 DEF StopWait
  <2>2. PICK r : /\ req' = [req EXCEPT ![p] = r]
                 /\ r.pc = "stop_wait" /\ r.sess = req[p].sess
                 /\ r.again = req[p].again /\ r.value = req[p].value
    <3> DEFINE a == [req[p] EXCEPT !.held = @ \ {e}]
               b == [req[p] EXCEPT !.held = @ \ {e}, !.deadline = FALSE]
    <3>1. /\ a.pc = req[p].pc /\ a.sess = req[p].sess /\ b.pc = req[p].pc /\ b.sess = req[p].sess
          /\ a.again = req[p].again /\ a.value = req[p].value
          /\ b.again = req[p].again /\ b.value = req[p].value
      BY <1>2 DEF Request
    <3>2. req' = [req EXCEPT ![p] = a] \/ req' = [req EXCEPT ![p] = b]
      BY <1>2, <2>1
    <3> HIDE DEF a, b
    <3> QED
      BY <2>1, <3>1, <3>2
  <2>3. Touches(p)
    BY <2>1 DEF Touches
  <2>4. GoesOn(p, r)
    BY <2>1, <2>2 DEF GoesOn, Order
  <2> QED
    BY <2>3, <2>4
<1>19. CASE StopStore(p)
  <2>1. req[p].pc = "stop_wait" /\ Return(p) /\ Touches(p)
    BY <1>19 DEF StopStore, Touches
  <2> QED
    BY <2>1, ReturnGoesOn DEF Order
<1> QED
  BY <1>3, <1>4, <1>5, <1>6, <1>7, <1>8, <1>9, <1>10, <1>11, <1>12, <1>13, <1>14, <1>15,
     <1>16, <1>17, <1>18, <1>19 DEF Continue

(* How a request for operation op on session s begins, with the locals r.  *)
Openings == {
    <<"start", "start_record">>, <<"add", "idle">>, <<"remove", "remove_cancel">>,
    <<"remove", "remove_take">>, <<"present", "present_store">>, <<"record", "record_store">>,
    <<"quality", "quality_wait">>, <<"stop", "stop_cancel">>}

Begins(p, s, op, r) ==
    /\ CanBegin(p, op, s)
    /\ req' = [req EXCEPT ![p] = r]
    /\ <<op, r.pc>> \in Openings
    /\ r.pc # "idle" => r.sess = s
    /\ op = "quality" => r.again = {e.of : e \in runtime[s]}
    /\ op \in {"quality", "stop"} => runtime' = [runtime EXCEPT ![s] = {}]
    /\ op = "add" => (\E c \in Channels : AddTargetLocked(s, c)) /\ r = req[p]
    /\ r.pc = "remove_cancel" => \E id : Take(p, s, id)
    /\ op = "present" => r.value = pres'[s] /\ \A t \in Sessions \ {s} : pres'[t] = pres[t]
    /\ op = "record" => r.value = rec'[s] /\ \A t \in Sessions \ {s} : rec'[t] = rec[t]
    /\ op = "start" =>
         /\ status[s] = "none" /\ status' = [status EXCEPT ![s] = "running"]
         /\ \A t \in Sessions \ {s} : dbPres'[t] = dbPres[t] /\ dbRec'[t] = dbRec[t]
    /\ op # "start" => s \in running /\ Unlocked /\ UNCHANGED <<status, dbPres, dbRec>>
    /\ UNCHANGED <<phase, recording>>
    /\ running' = IF op = "stop" THEN running \ {s} ELSE running
    /\ op \in {"start", "present", "record"} \/ r.pc = "remove_take" => UNCHANGED runtime
    /\ op # "add" => UNCHANGED rows
    /\ op # "present" => UNCHANGED pres
    /\ op # "record" => UNCHANGED rec

(* Every request begins so.                                                *)
LEMMA BeginBegins ==
    ASSUME TypeOK, NEW p \in Requests, Begin(p)
    PROVE  \E s, op, r : s \in Sessions /\ Begins(p, s, op, r)
<1> USE DEF memory, engines, database
<1>1. PICK s \in Sessions :
        \/ \E chans \in SUBSET Channels, show \in Presentations, record \in Records :
               StartCreate(p, s, chans, show, record)
        \/ \E c \in Channels : AddTarget(p, s, c) \/ RemoveTargetByChannel(p, s, c)
        \/ \E id \in TargetIds : RemoveTarget(p, s, id)
        \/ \E show \in Presentations : SetPresentation(p, s, show)
        \/ \E record \in BOOLEAN : SetRecord(p, s, record)
        \/ SetQuality(p, s)
        \/ Stop(p, s)
  BY DEF Begin
<1>2. ASSUME NEW chans, NEW show, NEW record, StartCreate(p, s, chans, show, record)
      PROVE  \E op, r : Begins(p, s, op, r)
  <2> DEFINE r == [Idle EXCEPT !.pc = "start_record", !.sess = s, !.chans = chans]
  <2>1. req' = [req EXCEPT ![p] = r] /\ r.pc = "start_record" /\ r.sess = s
    BY <1>2 DEF StartCreate, Idle
  <2> HIDE DEF r
  <2>2. Begins(p, s, "start", r)
    BY <1>2, <2>1 DEF StartCreate, NewId, Begins, Openings, TypeOK
  <2> QED
    BY <2>2
<1>3. ASSUME NEW c \in Channels, AddTarget(p, s, c)
      PROVE  \E op, r : Begins(p, s, op, r)
  <2>1. CanBegin(p, "add", s) /\ req[p].pc = "idle" /\ s \in running /\ Unlocked /\ req' = req
    BY <1>3 DEF AddTarget, CanBegin
  <2>2. req' = [req EXCEPT ![p] = req[p]]
    BY <2>1 DEF TypeOK
  <2>3. UNCHANGED <<phase, running, pres, rec, status, dbPres, dbRec, recording>>
    BY <1>3 DEF AddTarget, AddTargetLocked
  <2>4. AddTargetLocked(s, c)
    BY <1>3 DEF AddTarget
  <2>5. Begins(p, s, "add", req[p])
    BY <2>1, <2>2, <2>3, <2>4 DEF Begins, Openings
  <2> QED
    BY <2>5
<1>4. ASSUME NEW c, RemoveTargetByChannel(p, s, c)
      PROVE  \E op, r : Begins(p, s, op, r)
  <2>1. PICK e \in Targets(s) :
          req' = [req EXCEPT ![p] = [Idle EXCEPT !.pc = "remove_take", !.sess = s,
                                                 !.again = {e.of}]]
    BY <1>4 DEF RemoveTargetByChannel
  <2> DEFINE r == [Idle EXCEPT !.pc = "remove_take", !.sess = s, !.again = {e.of}]
  <2>2. req' = [req EXCEPT ![p] = r] /\ r.pc = "remove_take" /\ r.sess = s
    BY <2>1 DEF Idle
  <2> HIDE DEF r
  <2>3. Begins(p, s, "remove", r)
    BY <1>4, <2>2 DEF RemoveTargetByChannel, Begins, Openings
  <2> QED
    BY <2>3
<1>5. ASSUME NEW id, RemoveTarget(p, s, id)
      PROVE  \E op, r : Begins(p, s, op, r)
  <2>1. PICK e \in Targets(s) :
          req' = [req EXCEPT ![p] = [Idle EXCEPT !.pc = "remove_cancel", !.sess = s,
                                                 !.held = {e}]]
    BY <1>5 DEF RemoveTarget, Take
  <2> DEFINE r == [Idle EXCEPT !.pc = "remove_cancel", !.sess = s, !.held = {e}]
  <2>2. req' = [req EXCEPT ![p] = r] /\ r.pc = "remove_cancel" /\ r.sess = s
    BY <2>1 DEF Idle
  <2> HIDE DEF r
  <2>3. UNCHANGED <<phase, running, pres, rec, engines, database, recording>>
    BY <1>5 DEF RemoveTarget, Take
  <2>4. Take(p, s, id)
    BY <1>5 DEF RemoveTarget
  <2>5. Begins(p, s, "remove", r)
    BY <1>5, <2>2, <2>3, <2>4 DEF RemoveTarget, Begins, Openings
  <2> QED
    BY <2>5
<1>6. ASSUME NEW show, SetPresentation(p, s, show)
      PROVE  \E op, r : Begins(p, s, op, r)
  <2> DEFINE r == [Idle EXCEPT !.pc = "present_store", !.sess = s, !.value = show]
  <2>1. req' = [req EXCEPT ![p] = r] /\ r.pc = "present_store" /\ r.sess = s /\ r.value = show
    BY <1>6 DEF Idle, SetPresentation
  <2> HIDE DEF r
  <2>2. pres' = [pres EXCEPT ![s] = show] /\ pres'[s] = show
    BY <1>6 DEF SetPresentation, TypeOK
  <2>3. \A t \in Sessions \ {s} : pres'[t] = pres[t]
    BY <2>2 DEF TypeOK
  <2>4. Begins(p, s, "present", r)
    BY <1>6, <2>1, <2>2, <2>3 DEF SetPresentation, Begins, Openings
  <2> QED
    BY <2>4
<1>7. ASSUME NEW record, SetRecord(p, s, record)
      PROVE  \E op, r : Begins(p, s, op, r)
  <2> DEFINE r == [Idle EXCEPT !.pc = "record_store", !.sess = s, !.value = record]
  <2>1. req' = [req EXCEPT ![p] = r] /\ r.pc = "record_store" /\ r.sess = s /\ r.value = record
    BY <1>7 DEF Idle, SetRecord
  <2> HIDE DEF r
  <2>2. rec' = [rec EXCEPT ![s] = record] /\ rec'[s] = record
    BY <1>7 DEF SetRecord, TypeOK
  <2>3. \A t \in Sessions \ {s} : rec'[t] = rec[t]
    BY <2>2 DEF TypeOK
  <2>4. Begins(p, s, "record", r)
    BY <1>7, <2>1, <2>2, <2>3 DEF SetRecord, Begins, Openings
  <2> QED
    BY <2>4
<1>8. ASSUME SetQuality(p, s)
      PROVE  \E op, r : Begins(p, s, op, r)
  <2> DEFINE r == [Idle EXCEPT !.pc = "quality_wait", !.sess = s, !.held = runtime[s],
                               !.again = {e.of : e \in runtime[s]}]
  <2>1. /\ req' = [req EXCEPT ![p] = r] /\ r.pc = "quality_wait" /\ r.sess = s
        /\ r.again = {e.of : e \in runtime[s]}
    BY <1>8 DEF Idle, SetQuality
  <2> HIDE DEF r
  <2>2. runtime' = [runtime EXCEPT ![s] = {}]
    BY <1>8 DEF SetQuality, Without
  <2>3. Begins(p, s, "quality", r)
    BY <1>8, <2>1, <2>2 DEF SetQuality, Begins, Openings
  <2> QED
    BY <2>3
<1>9. ASSUME Stop(p, s)
      PROVE  \E op, r : Begins(p, s, op, r)
  <2> DEFINE r == [Idle EXCEPT !.pc = "stop_cancel", !.sess = s, !.held = runtime[s]]
  <2>1. req' = [req EXCEPT ![p] = r] /\ r.pc = "stop_cancel" /\ r.sess = s
    BY <1>9 DEF Idle, Stop
  <2> HIDE DEF r
  <2>2. runtime' = [runtime EXCEPT ![s] = {}]
    BY <1>9 DEF Stop, Without
  <2>3. Begins(p, s, "stop", r)
    BY <1>9, <2>1, <2>2 DEF Stop, Begins, Openings
  <2> QED
    BY <2>3
<1> QED
  BY <1>1, <1>2, <1>3, <1>4, <1>5, <1>6, <1>7, <1>8, <1>9

(* What a request is for shows at each of the places it waits at.          *)
LEMMA OpFacts ==
    /\ \A pc \in {"start_record", "start_install", "start_add"} : OpOf(pc) = "start"
    /\ \A pc \in {"remove_take", "remove_cancel", "remove_wait", "remove_delete"} :
         OpOf(pc) = "remove"
    /\ \A pc \in {"record_store", "record_media"} : OpOf(pc) = "record"
    /\ \A pc \in {"quality_wait", "quality_mirror", "quality_restart"} : OpOf(pc) = "quality"
    /\ \A pc \in {"stop_cancel", "stop_wait"} : OpOf(pc) = "stop"
    /\ OpOf("present_store") = "present" /\ OpOf("idle") = "none"
  BY DEF OpOf

(* A request that goes on ends no session.                                 *)
LEMMA SessionsGoOn ==
    ASSUME TypeOK, NEW p \in Requests, Continue(p)
    PROVE  running \subseteq running'
<1>1. CASE StartInstall(p)
  BY <1>1 DEF StartInstall
<1>2. CASE ~StartInstall(p)
  BY <1>2 DEF Continue, StartRecord, StartAdd, AddTargetLocked, RemoveTake, Take,
     RemoveCancel, RemoveWait, RemoveDelete,
     PresentStore, RecordStore, RecordMedia, QualityWait, QualityCancelMirror,
     QualityWaitMirror, QualityRestart, StopCancel, StopWait, StopStore, memory, engines
<1> QED
  BY <1>1, <1>2

(* No session is stopped while its new presentation is to be stored.       *)
LEMMA PresentNext == Inv /\ PresentInv /\ [Next]_vars => PresentInv'
<1> SUFFICES ASSUME Inv, PresentInv, [Next]_vars, {"present", "stop"} \in Apart
             PROVE  \A q \in Requests :
                        req'[q].pc = "present_store" => req'[q].sess \in running'
  BY DEF PresentInv
<1>1. TypeOK
  BY DEF Inv
<1>2. Idle.pc = "idle"
  BY DEF Idle
<1>3. CASE Resume \/ Exit
  BY <1>2, <1>3 DEF Resume, BringBack, Exit, Inv, DownInv
<1>4. CASE Shutdown \/ (\E e \in live : EngineExit(e)) \/ UNCHANGED vars
  BY <1>4 DEF Shutdown, EngineExit, memory, vars, PresentInv
<1>5. ASSUME NEW p \in Requests, Begin(p), NEW q \in Requests, req'[q].pc = "present_store"
      PROVE  req'[q].sess \in running'
  <2>1. PICK s, op, r : s \in Sessions /\ Begins(p, s, op, r)
    BY <1>1, <1>5, BeginBegins
  <2>2. /\ req' = [req EXCEPT ![p] = r] /\ <<op, r.pc>> \in Openings
        /\ running' = IF op = "stop" THEN running \ {s} ELSE running
    BY <2>1 DEF Begins
  <2>3. \A t \in Requests : req'[t] = IF t = p THEN r ELSE req[t]
    BY <1>1, <2>2, Others
  <2>4. CASE q = p
    <3>1. r.pc = "present_store" /\ op = "present"
      BY <1>5, <2>2, <2>3, <2>4 DEF Openings
    <3> QED
      BY <2>1, <2>2, <2>3, <2>4, <3>1 DEF Begins
  <2>5. CASE q # p
    <3>1. req[q].pc = "present_store" /\ req[q].sess \in running /\ req'[q] = req[q]
      BY <1>5, <2>3, <2>5 DEF PresentInv
    <3>2. CASE op = "stop"
      <4>1. {"stop", "present"} = {"present", "stop"}
        OBVIOUS
      <4>2. req[q].sess # s
        BY <2>1, <3>1, <3>2, <4>1, OpFacts DEF Begins, CanBegin
      <4> QED
        BY <2>2, <3>1, <4>2
    <3> QED
      BY <2>2, <3>1, <3>2
  <2> QED
    BY <2>4, <2>5
<1>6. ASSUME NEW p \in Requests, Continue(p), NEW q \in Requests, req'[q].pc = "present_store"
      PROVE  req'[q].sess \in running'
  <2>1. PICK r : GoesOn(p, r)
    BY <1>1, <1>6, ContinueGoesOn
  <2>2. req' = [req EXCEPT ![p] = r] /\ r.pc # "present_store"
    BY <2>1 DEF GoesOn, Order
  <2>3. \A t \in Requests : req'[t] = IF t = p THEN r ELSE req[t]
    BY <1>1, <2>2, Others
  <2>4. running \subseteq running'
    BY <1>1, <1>6, SessionsGoOn
  <2> QED
    BY <1>6, <2>2, <2>3, <2>4 DEF PresentInv
<1> QED
  BY <1>3, <1>4, <1>5, <1>6 DEF Next

LEMMA PresentAlways == Spec => []PresentInv
<1>1. Init => PresentInv
  BY DEF Init, PresentInv, Idle
<1>2. Inv /\ PresentInv /\ [Next]_vars => PresentInv'
  BY PresentNext
<1> QED
  BY <1>1, <1>2, InvCorrect, PTL DEF Spec

-----------------------------------------------------------------------------
(* Nothing a request of session s does changes whether s was stopped, but  *)
(* Start and the last step of Stop, when nothing is cast for s.            *)
LEMMA StatusSteps ==
    ASSUME {"present", "stop"} \in Apart, Inv, PresentInv, [Next]_vars
    PROVE  \/ UNCHANGED status
           \/ \E s \in Sessions :
                /\ UNCHANGED <<live, cancelled>>
                /\ \/ status[s] = "none" /\ status' = [status EXCEPT ![s] = "running"]
                   \/ /\ status[s] = "running" /\ status' = [status EXCEPT ![s] = "stopped"]
                      /\ Silent(s)
<1> USE DEF memory, engines, database
<1>1. TypeOK
  BY DEF Inv
<1>2. CASE Resume \/ Exit \/ Shutdown \/ (\E e \in live : EngineExit(e)) \/ UNCHANGED vars
  BY <1>2 DEF Resume, BringBack, Exit, Shutdown, EngineExit, vars
<1>3. ASSUME NEW p \in Requests, Begin(p), ~UNCHANGED status
      PROVE  \E s \in Sessions : /\ UNCHANGED <<live, cancelled>>
                                 /\ status[s] = "none" /\ status' = [status EXCEPT ![s] = "running"]
  BY <1>3 DEF Begin, StartCreate, NewId, AddTarget, AddTargetLocked, RemoveTargetByChannel,
     RemoveTarget, Take, SetPresentation, SetRecord, SetQuality, Stop
<1>4. ASSUME NEW p \in Requests, Continue(p), ~UNCHANGED status
      PROVE  \E s \in Sessions :
                /\ UNCHANGED <<live, cancelled>> /\ Silent(s)
                /\ status[s] = "running" /\ status' = [status EXCEPT ![s] = "stopped"]
  <2>1. PresentStore(p) \/ StopStore(p)
    <3>1. req[p].pc \in {"present_store", "stop_wait"}
      BY <1>1, <1>4, ContinueGoesOn DEF Touches
    <3> QED
      BY <1>4, <3>1 DEF Continue, StartRecord, StartInstall, StartAdd, RemoveTake,
         RemoveCancel, RemoveWait, RemoveDelete, RecordStore, RecordMedia, QualityWait,
         QualityCancelMirror, QualityWaitMirror, QualityRestart, StopCancel, StopWait
  <2>2. CASE PresentStore(p)
    <3>1. req[p].sess \in running
      BY <2>2 DEF PresentStore, PresentInv
    <3>2. status[req[p].sess] = "running" /\ req[p].sess \in Sessions
      BY <1>1, <3>1 DEF Inv, RuntimeInv, TypeOK
    <3> QED
      BY <1>1, <1>4, <2>2, <3>2 DEF PresentStore, TypeOK
  <2>3. CASE StopStore(p)
    <3> DEFINE s == req[p].sess
    <3>1. /\ req[p].pc = "stop_wait" /\ UNCHANGED <<live, cancelled>>
          /\ status' = [status EXCEPT ![s] = "stopped"]
      BY <1>4, <2>3 DEF StopStore
    <3>2. status[s] # "none" /\ Silent(s) /\ s \in Sessions
      BY <1>1, <3>1 DEF Inv, RequestInv, TypeOK, WellFormed
    <3>3. status[s] = "running"
      BY <1>1, <1>4, <3>1, <3>2 DEF TypeOK
    <3> QED
      BY <3>1, <3>2, <3>3
  <2> QED
    BY <2>1, <2>2, <2>3
<1> QED
  BY <1>2, <1>3, <1>4 DEF Next

(* An engine works for a session the database calls running.               *)
LEMMA WorkingRuns == Inv => \A e \in Working : e.of \in Row /\ status[e.of.sess] = "running"
<1> SUFFICES ASSUME Inv, NEW e \in Working PROVE e.of \in Row /\ status[e.of.sess] = "running"
  OBVIOUS
<1> USE DEF Inv
<1>1. e.of \in Row /\ e.of.sess \in Sessions
  BY EngineFields DEF TypeOK, Working
<1>2. status[e.of.sess] # "stopped"
  BY <1>1 DEF StoppedInv, Silent
<1>3. CASE e \in runtime[e.of.sess]
  BY <1>1, <1>3 DEF RuntimeInv
<1>4. CASE e \notin runtime[e.of.sess]
  <2>1. PICK p \in Requests : WillCancel(p, e)
    BY <1>4 DEF WorkingInv
  <2>2. req[p].pc # "idle" /\ e.of.sess = req[p].sess
    BY <2>1, Held DEF WillCancel
  <2>3. status[e.of.sess] # "none"
    BY <2>2 DEF RequestInv
  <2> QED
    BY <1>1, <1>2, <2>3 DEF TypeOK
<1> QED
  BY <1>1, <1>3, <1>4

(***************************************************************************)
(* The manager does what Broadcast promises: it casts for running sessions *)
(* only, and a session is started once and stopped once.  For this a       *)
(* change of presentation must not overlap a Stop: it writes the status.   *)
(***************************************************************************)
THEOREM CastHolds ==
    ASSUME {"present", "stop"} \in Apart
    PROVE  Spec => CastSpec
<1> USE DEF Cast!Create, Cast!End, Cast!Recast, RowSession
<1>1. Init => Cast!Init
  BY DEF Init, Cast!Init, Working
<1>2. Inv /\ Inv' /\ PresentInv /\ [Next]_vars => [Cast!Next]_(<<status, {e.of : e \in Working}>>)
  <2> SUFFICES ASSUME Inv, Inv', PresentInv, [Next]_vars
               PROVE  [Cast!Next]_(<<status, {e.of : e \in Working}>>)
    OBVIOUS
  <2>1. CASE UNCHANGED status
    <3>1. (Inv => \A e \in Working : e.of \in Row /\ status[e.of.sess] = "running")'
      BY WorkingRuns, PTL
    <3>2. Cast!Recast
      BY <2>1, <3>1
    <3> QED
      BY <3>2 DEF Cast!Next
  <2>2. CASE ~UNCHANGED status
    <3>1. PICK s \in Sessions :
            /\ UNCHANGED <<live, cancelled>>
            /\ \/ status[s] = "none" /\ status' = [status EXCEPT ![s] = "running"]
               \/ /\ status[s] = "running" /\ status' = [status EXCEPT ![s] = "stopped"]
                  /\ Silent(s)
      BY <2>2, StatusSteps
    <3>2. UNCHANGED {e.of : e \in Working}
      BY <3>1 DEF Working
    <3>3. Cast!Create(s) \/ Cast!End(s)
      BY <3>1, <3>2 DEF Silent
    <3> QED
      BY <3>3 DEF Cast!Next
  <2> QED
    BY <2>1, <2>2
<1> QED
  BY <1>1, <1>2, PresentAlways, InvCorrect, PTL DEF Spec, CastSpec, Cast!Spec

(* So nothing is ever cast for a session that does not run: Broadcast says *)
(* so, of whatever implements it.                                          *)
THEOREM CastsForRunning ==
    ASSUME {"present", "stop"} \in Apart
    PROVE  Spec => []Cast!OnlyRunningCast
<1> DEFINE casting == {e.of : e \in Working}
<1>1. Cast!Init => Cast!OnlyRunningCast
  BY DEF Cast!Init, Cast!OnlyRunningCast
<1>2. Cast!OnlyRunningCast /\ [Cast!Next]_(<<status, casting>>) => Cast!OnlyRunningCast'
  <2> SUFFICES ASSUME Cast!OnlyRunningCast, [Cast!Next]_(<<status, casting>>)
               PROVE  Cast!OnlyRunningCast'
    OBVIOUS
  <2> USE DEF Cast!OnlyRunningCast
  <2> HIDE DEF Working
  <2>1. ASSUME NEW s \in Sessions, Cast!Create(s) PROVE Cast!OnlyRunningCast'
    BY <2>1 DEF Cast!Create
  <2>2. CASE Cast!Recast
    BY <2>2 DEF Cast!Recast
  <2>3. ASSUME NEW s \in Sessions, Cast!End(s) PROVE Cast!OnlyRunningCast'
    BY <2>3 DEF Cast!End
  <2>4. CASE UNCHANGED <<status, casting>>
    BY <2>4
  <2> QED
    BY <2>1, <2>2, <2>3, <2>4 DEF Cast!Next
<1> QED
  BY <1>1, <1>2, CastHolds, PTL DEF CastSpec, Cast!Spec

(* A session that was stopped stays stopped.                               *)
THEOREM StoppedForGoodHolds ==
    ASSUME {"present", "stop"} \in Apart
    PROVE  Spec => StoppedForGood
<1>1. Inv /\ PresentInv /\ [Next]_vars =>
        [\A s \in Sessions : status[s] = "stopped" => status'[s] = "stopped"]_vars
  <2> SUFFICES ASSUME Inv, PresentInv, [Next]_vars, NEW s \in Sessions, status[s] = "stopped"
               PROVE  status'[s] = "stopped"
    OBVIOUS
  <2> QED
    BY StatusSteps DEF Inv, TypeOK
<1> QED
  BY <1>1, PresentAlways, InvCorrect, PTL DEF Spec, StoppedForGood

-----------------------------------------------------------------------------
(* Every row of R gets an engine when one is named for each.               *)
LEMMA NamedCovers == ASSUME NEW R PROVE \A r \in R : \E e \in Named(R) : e.of = r
<1> DEFINE pick(r) == CHOOSE g \in Gens : [of |-> r, gen |-> g] \notin Referenced
<1>1. \A r \in R : [of |-> r, gen |-> pick(r)] \in Named(R)
  BY DEF Named
<1> HIDE DEF pick
<1> QED
  BY <1>1

(* Steps by which request p goes on as r, or begins so, and every row of a *)
(* running session is still accounted for.                                 *)
LEMMA RowsStep ==
    ASSUME TypeOK, RowsInv, Inv', NEW p \in Requests, NEW r,
           \A q \in Requests : req'[q] = IF q = p THEN r ELSE req[q],
           \A s \in Sessions : status'[s] = "none" => status[s] = "none",
           r.pc \in {"start_record", "start_install"} =>
               \/ req[p].pc \in {"start_record", "start_install"} /\ r.sess = req[p].sess
               \/ status[r.sess] = "none",
           \A o \in rows' : o \in rows \/ o.sess \in running',
           \A o \in rows' : o.sess \in running' =>
               \/ \E e \in runtime'[o.sess] : e.of = o
               \/ o \in Owns(r)
               \/ \E q \in Requests \ {p} : o \in Owns(req[q])
    PROVE  RowsInv'
<1> SUFFICES ASSUME NEW o \in rows'
             PROVE  /\ status'[o.sess] # "none"
                    /\ \A q \in Requests :
                         req'[q].pc \in {"start_record", "start_install"} => req'[q].sess # o.sess
                    /\ o.sess \in running' =>
                         \/ \E e \in runtime'[o.sess] : e.of = o
                         \/ \E q \in Requests : o \in Owns(req'[q])
  BY DEF RowsInv, Owns
<1>1. CASE o.sess \in running'
  <2>1. status'[o.sess] # "none"
    BY <1>1 DEF Inv, RuntimeInv, TypeOK
  <2>2. \A q \in Requests :
          req'[q].pc \in {"start_record", "start_install"} => req'[q].sess # o.sess
    BY <1>1 DEF Inv, RequestInv
  <2>3. \A q \in Requests \ {p} : Owns(req'[q]) = Owns(req[q])
    OBVIOUS
  <2> QED
    BY <2>1, <2>2, <2>3
<1>2. CASE o.sess \notin running'
  <2>1. o \in rows
    BY <1>2
  <2>2. o.sess \in Sessions
    BY <2>1 DEF TypeOK, Row
  <2> QED
    BY <1>2, <2>1, <2>2 DEF RowsInv
<1> QED
  BY <1>1, <1>2

(* A channel is added: the new row has the new engine.                     *)
LEMMA AddRows ==
    ASSUME TypeOK, RowsInv, Inv, Inv', NEW p \in Requests, NEW r, NEW s \in running, NEW c,
           AddTargetLocked(s, c), \A q \in Requests : req'[q] = IF q = p THEN r ELSE req[q],
           r.pc \in {"idle", "start_add"}, req[p].pc \in {"idle", "start_add"}
    PROVE  RowsInv'
<1> DEFINE row == [id |-> nextId, sess |-> s, chan |-> c]
           new == Named({row})
<1>1. /\ rows' = rows \cup {row} /\ runtime' = [runtime EXCEPT ![s] = @ \cup new]
      /\ UNCHANGED <<running, status>>
  BY DEF AddTargetLocked
<1>2. \E e \in new : e.of = row
  BY NamedCovers
<1>3. s \in Sessions /\ row.sess = s
  BY DEF TypeOK
<1> HIDE DEF row, new
<1>4. \A t \in Sessions : runtime'[t] = IF t = s THEN runtime[t] \cup new ELSE runtime[t]
  BY <1>1 DEF TypeOK
<1>5. ASSUME NEW o \in rows', o.sess \in running'
      PROVE  \/ \E e \in runtime'[o.sess] : e.of = o
             \/ \E q \in Requests \ {p} : o \in Owns(req[q])
  <2>1. CASE o = row
    BY <1>2, <1>3, <1>4, <2>1
  <2>2. CASE o # row
    <3>1. o \in rows /\ o.sess \in running /\ o.sess \in Sessions
      BY <1>1, <1>5, <2>2 DEF TypeOK
    <3>2. Owns(req[p]) = {}
      BY DEF Owns
    <3>3. \/ \E e \in runtime[o.sess] : e.of = o
          \/ \E q \in Requests \ {p} : o \in Owns(req[q])
      BY <3>1, <3>2 DEF RowsInv
    <3> QED
      BY <1>4, <3>1, <3>3
  <2> QED
    BY <2>1, <2>2
<1>6. \A o \in rows' : o \in rows \/ o.sess \in running'
  BY <1>1, <1>3
<1> QED
  BY <1>1, <1>5, <1>6, RowsStep

(* An engine is taken to be removed: the request now owns its row.         *)
LEMMA TakeRows ==
    ASSUME TypeOK, RowsInv, Inv', NEW p \in Requests, NEW s \in Sessions, NEW id,
           Take(p, s, id), req[p].pc \in {"idle", "remove_take"}
    PROVE  RowsInv'
<1>1. PICK e \in Targets(s) :
         /\ runtime' = [runtime EXCEPT ![s] = Without(s, {e})]
         /\ req' = [req EXCEPT ![p] = [Idle EXCEPT !.pc = "remove_cancel", !.sess = s,
                                                   !.held = {e}]]
  BY DEF Take
<1>2. UNCHANGED <<running, status, rows>>
  BY DEF Take, database
<1> DEFINE r == [Idle EXCEPT !.pc = "remove_cancel", !.sess = s, !.held = {e}]
<1>3. r.pc = "remove_cancel" /\ r.held = {e} /\ req' = [req EXCEPT ![p] = r]
  BY <1>1 DEF Idle
<1> HIDE DEF r
<1>4. Owns(r) = {e.of} /\ Owns(req[p]) = {}
  BY <1>3 DEF Owns
<1>5. \A q \in Requests : req'[q] = IF q = p THEN r ELSE req[q]
  BY <1>3, Others
<1>6. \A t \in Sessions : runtime'[t] = IF t = s THEN runtime[t] \ {e} ELSE runtime[t]
  BY <1>1 DEF TypeOK, Without
<1>7. ASSUME NEW o \in rows', o.sess \in running'
      PROVE  \/ \E f \in runtime'[o.sess] : f.of = o
             \/ o \in Owns(r)
             \/ \E q \in Requests \ {p} : o \in Owns(req[q])
  <2>1. o \in rows /\ o.sess \in running /\ o.sess \in Sessions
    BY <1>2, <1>7 DEF TypeOK
  <2>2. \/ \E f \in runtime[o.sess] : f.of = o
        \/ \E q \in Requests \ {p} : o \in Owns(req[q])
    BY <1>4, <2>1 DEF RowsInv
  <2> QED
    BY <1>4, <1>6, <2>1, <2>2
<1> QED
  BY <1>2, <1>3, <1>5, <1>7, RowsStep

(* Steps that leave runtimes alone keep every row accounted for if the     *)
(* request keeps what it owns, deletes it, or its session has ended.       *)
LEMMA SameRows ==
    ASSUME TypeOK, RowsInv, Inv', NEW p \in Requests, NEW r,
           \A q \in Requests : req'[q] = IF q = p THEN r ELSE req[q],
           \A s \in Sessions : status'[s] = "none" => status[s] = "none",
           r.pc \in {"start_record", "start_install"} =>
               \/ req[p].pc \in {"start_record", "start_install"} /\ r.sess = req[p].sess
               \/ status[r.sess] = "none",
           rows' \subseteq rows, running' \subseteq running, UNCHANGED runtime,
           \A o \in Owns(req[p]) : o \in Owns(r) \/ o \notin rows' \/ o.sess \notin running'
    PROVE  RowsInv'
<1>1. ASSUME NEW o \in rows', o.sess \in running'
      PROVE  \/ \E f \in runtime'[o.sess] : f.of = o
             \/ o \in Owns(r)
             \/ \E q \in Requests \ {p} : o \in Owns(req[q])
  BY <1>1 DEF RowsInv
<1> QED
  BY <1>1, RowsStep

(* If deletions never fail, every row of a running session belongs to an   *)
(* engine of the runtime or to a request.                                  *)
LEMMA RowsNext ==
    ASSUME "store" \notin Faults, Inv, Inv', RowsInv, [Next]_vars
    PROVE  RowsInv'
<1> USE DEF memory, engines, database
<1>1. TypeOK
  BY DEF Inv
<1>2. Idle.pc = "idle" /\ Owns(Idle) = {}
  BY DEF Idle, Owns
<1>3. CASE Resume
  <2>0. PICK back \in Listed : BringBack(back)
    BY <1>3 DEF Resume
  <2> DEFINE wanted == {r \in rows : r.sess \in back} \cup UNION {MirrorRows(s) : s \in back}
             new == Named(wanted)
  <2>1. /\ UNCHANGED <<status, rows, req>> /\ running' = back
        /\ runtime' = [s \in Sessions |-> {e \in new : e.of.sess = s}]
    BY <2>0 DEF BringBack
  <2>4. back \subseteq Sessions
    BY ListedRun DEF StoredRunning
  <2>2. ASSUME NEW o \in rows, o.sess \in back PROVE \E e \in runtime'[o.sess] : e.of = o
    <3>1. o \in wanted
      BY <2>2
    <3>2. PICK e \in new : e.of = o
      BY <3>1, NamedCovers
    <3> HIDE DEF new
    <3> QED
      BY <2>1, <2>2, <2>4, <3>2
  <2>3. \A p \in Requests : req[p] = Idle
    BY <2>0 DEF BringBack, Inv, DownInv
  <2> HIDE DEF wanted, new
  <2> QED
    BY <1>2, <2>1, <2>2, <2>3 DEF RowsInv
<1>4. CASE Exit
  <2>1. UNCHANGED <<status, rows>> /\ running' = {} /\ \A p \in Requests : req'[p] = Idle
    BY <1>4 DEF Exit
  <2> QED
    BY <1>2, <2>1 DEF RowsInv
<1>5. CASE Shutdown \/ (\E e \in live : EngineExit(e)) \/ UNCHANGED vars
  <2>1. UNCHANGED <<status, rows, running, runtime, req>>
    BY <1>5 DEF Shutdown, EngineExit, vars
  <2> QED
    BY <2>1 DEF RowsInv, Owns
<1>6. ASSUME NEW p \in Requests, Begin(p) PROVE RowsInv'
  <2>1. PICK s, op, r : s \in Sessions /\ Begins(p, s, op, r)
    BY <1>1, <1>6, BeginBegins
  <2>2. /\ req' = [req EXCEPT ![p] = r] /\ <<op, r.pc>> \in Openings /\ req[p].pc = "idle"
        /\ op # "add" => UNCHANGED rows
    BY <2>1 DEF Begins, CanBegin
  <2>3. \A q \in Requests : req'[q] = IF q = p THEN r ELSE req[q]
    BY <1>1, <2>2, Others
  <2>4. Owns(req[p]) = {}
    BY <2>2 DEF Owns
  <2>5. CASE op = "start"
    <3>1. /\ status[s] = "none" /\ status' = [status EXCEPT ![s] = "running"] /\ r.sess = s
          /\ UNCHANGED <<running, runtime, rows>>
      BY <2>1, <2>5 DEF Begins, Openings
    <3>2. \A t \in Sessions : status'[t] = "none" => status[t] = "none"
      BY <1>1, <3>1 DEF TypeOK
    <3> QED
      BY <1>1, <2>3, <2>4, <3>1, <3>2, SameRows
  <2>6. CASE op \in {"present", "record"}
    <3>1. /\ UNCHANGED <<status, running, runtime, rows>>
          /\ r.pc \notin {"start_record", "start_install"}
      BY <2>1, <2>6 DEF Begins, Openings
    <3> QED
      BY <1>1, <2>3, <2>4, <3>1, SameRows
  <2>7. CASE op = "quality"
    <3>1. /\ UNCHANGED <<status, running, rows>> /\ runtime' = [runtime EXCEPT ![s] = {}]
          /\ r.again = {e.of : e \in runtime[s]} /\ r.pc = "quality_wait"
      BY <2>1, <2>7 DEF Begins, Openings
    <3>2. Owns(r) = r.again
      BY <3>1 DEF Owns
    <3>3. \A t \in Sessions : runtime'[t] = IF t = s THEN {} ELSE runtime[t]
      BY <1>1, <3>1 DEF TypeOK
    <3>4. ASSUME NEW o \in rows', o.sess \in running'
          PROVE  \/ \E f \in runtime'[o.sess] : f.of = o
                 \/ o \in Owns(r)
                 \/ \E q \in Requests \ {p} : o \in Owns(req[q])
      <4>1. o \in rows /\ o.sess \in running /\ o.sess \in Sessions
        BY <1>1, <3>1, <3>4 DEF TypeOK
      <4>2. (\E f \in runtime[o.sess] : f.of = o) \/ \E q \in Requests \ {p} : o \in Owns(req[q])
        BY <2>4, <4>1 DEF RowsInv
      <4> QED
        BY <3>1, <3>2, <3>3, <4>1, <4>2
    <3> QED
      BY <1>1, <2>3, <3>1, <3>4, RowsStep
  <2>8. CASE op = "stop"
    <3>1. /\ UNCHANGED <<status, rows>> /\ running' = running \ {s} /\ r.pc = "stop_cancel"
          /\ runtime' = [runtime EXCEPT ![s] = {}]
      BY <2>1, <2>8 DEF Begins, Openings
    <3>2. \A t \in Sessions : t # s => runtime'[t] = runtime[t]
      BY <1>1, <3>1 DEF TypeOK
    <3>3. ASSUME NEW o \in rows', o.sess \in running'
          PROVE  \/ \E f \in runtime'[o.sess] : f.of = o
                 \/ \E q \in Requests \ {p} : o \in Owns(req[q])
      <4>1. o \in rows /\ o.sess \in running /\ o.sess \in Sessions /\ o.sess # s
        BY <1>1, <3>1, <3>3 DEF TypeOK
      <4> QED
        BY <2>4, <3>2, <4>1 DEF RowsInv
    <3> QED
      BY <1>1, <2>3, <3>1, <3>3, RowsStep
  <2>9. CASE r.pc = "remove_take"
    <3>1. UNCHANGED <<status, running, runtime, rows>>
      BY <2>1, <2>9 DEF Begins, Openings
    <3> QED
      BY <1>1, <2>3, <2>4, <2>9, <3>1, SameRows
  <2>10. CASE r.pc = "remove_cancel"
    <3>1. PICK id : Take(p, s, id)
      BY <2>1, <2>10 DEF Begins
    <3> QED
      BY <1>1, <2>1, <2>2, <3>1, TakeRows
  <2>11. CASE op = "add"
    <3>1. PICK c \in Channels : AddTargetLocked(s, c)
      BY <2>1, <2>11 DEF Begins
    <3>2. r.pc = "idle" /\ s \in running
      BY <2>1, <2>2, <2>11 DEF Begins
    <3> QED
      BY <1>1, <2>2, <2>3, <3>1, <3>2, AddRows
  <2> QED
    BY <2>2, <2>5, <2>6, <2>7, <2>8, <2>9, <2>10, <2>11 DEF Openings
<1>7. ASSUME NEW p \in Requests, Continue(p) PROVE RowsInv'
  <2>1. PICK r : GoesOn(p, r)
    BY <1>1, <1>7, ContinueGoesOn
  <2>2. Touches(p)
    BY <1>1, <1>7, ContinueGoesOn
  <2>3. req' = [req EXCEPT ![p] = r] /\ <<req[p].pc, r.pc>> \in Order
    BY <2>1 DEF GoesOn
  <2>4. \A q \in Requests : req'[q] = IF q = p THEN r ELSE req[q]
    BY <1>1, <2>3, Others
  <2>5. \A t \in Sessions : status'[t] = "none" => status[t] = "none"
    <3>1. CASE PresentStore(p) \/ StopStore(p)
      BY <1>1, <3>1 DEF PresentStore, StopStore, TypeOK
    <3>2. CASE ~(PresentStore(p) \/ StopStore(p))
      BY <1>7, <3>2 DEF Continue, StartRecord, StartInstall, StartAdd, AddTargetLocked,
         RemoveTake, Take, RemoveCancel, RemoveWait, RemoveDelete, RecordStore, RecordMedia,
         QualityWait, QualityCancelMirror, QualityWaitMirror, QualityRestart, StopCancel, StopWait
    <3> QED
      BY <3>1, <3>2
  <2>6. CASE req[p].pc \in {"start_record", "remove_cancel", "remove_wait", "present_store",
                            "record_store", "record_media", "quality_wait", "quality_mirror"}
    <3>1. UNCHANGED <<running, runtime, rows>>
      BY <2>2, <2>6 DEF Touches
    <3>2. Owns(req[p]) \subseteq Owns(r)
      BY <2>1, <2>6 DEF GoesOn, Order, Owns
    <3>3. r.pc \in {"start_record", "start_install"} =>
            req[p].pc \in {"start_record", "start_install"} /\ r.sess = req[p].sess
      BY <2>1, <2>6 DEF GoesOn, Order
    <3> QED
      BY <1>1, <2>4, <2>5, <3>1, <3>2, <3>3, SameRows
  <2>7. CASE req[p].pc \in {"stop_cancel", "stop_wait"}
    <3>1. UNCHANGED <<running, runtime, rows>>
      BY <2>2, <2>7 DEF Touches
    <3>2. \A o \in Owns(req[p]) : o.sess \notin running
      BY <2>7 DEF Inv, OwnerInv, KnownRow, RequestInv
    <3>3. r.pc \notin {"start_record", "start_install"}
      BY <2>3, <2>7 DEF Order
    <3> QED
      BY <1>1, <2>4, <2>5, <3>1, <3>2, <3>3, SameRows
  <2>8. CASE StartInstall(p)
    <3> DEFINE s == req[p].sess
               new == Named(MirrorRows(s))
    <3>1. /\ running' = running \cup {s} /\ runtime' = [runtime EXCEPT ![s] = new]
          /\ req[p].pc = "start_install"
      BY <2>8 DEF StartInstall
    <3>2. UNCHANGED rows /\ r.pc = "start_add" /\ Owns(req[p]) = {}
      BY <2>2, <2>3, <3>1 DEF Touches, Order, Owns
    <3>3. \A o \in rows : o.sess # s
      BY <3>1 DEF RowsInv
    <3> HIDE DEF s, new
    <3>4. ASSUME NEW o \in rows', o.sess \in running'
          PROVE  \/ \E f \in runtime'[o.sess] : f.of = o
                 \/ \E q \in Requests \ {p} : o \in Owns(req[q])
      <4>1. o \in rows /\ o.sess \in running /\ o.sess \in Sessions /\ o.sess # s
        BY <1>1, <3>1, <3>2, <3>3, <3>4 DEF TypeOK
      <4>2. runtime'[o.sess] = runtime[o.sess]
        BY <1>1, <3>1, <4>1 DEF TypeOK
      <4> QED
        BY <3>2, <4>1, <4>2 DEF RowsInv
    <3> QED
      BY <1>1, <2>4, <2>5, <3>2, <3>4, RowsStep
  <2>9. CASE StartAdd(p)
    <3>1. /\ req[p].pc = "start_add"
          /\ \/ \E c : AddTargetLocked(req[p].sess, c)
             \/ UNCHANGED <<memory, database>>
      BY <2>9 DEF StartAdd
    <3>2. r.pc \in {"idle", "start_add"} /\ req[p].sess \in running
      BY <2>3, <3>1 DEF Order, Inv, RequestInv
    <3>3. CASE \E c : AddTargetLocked(req[p].sess, c)
      <4>1. PICK c : AddTargetLocked(req[p].sess, c)
        BY <3>3
      <4> QED
        BY <1>1, <2>4, <3>1, <3>2, <4>1, AddRows
    <3>4. CASE UNCHANGED <<memory, database>>
      <4>1. Owns(req[p]) = {}
        BY <3>1 DEF Owns
      <4> QED
        BY <1>1, <2>4, <2>5, <3>2, <3>4, <4>1, SameRows
    <3> QED
      BY <3>1, <3>3, <3>4
  <2>10. CASE RemoveTake(p)
    <3>1. /\ req[p].pc = "remove_take"
          /\ \/ \E id : Take(p, req[p].sess, id)
             \/ UNCHANGED <<memory, database>>
      BY <2>10 DEF RemoveTake
    <3>2. req[p].sess \in Sessions /\ Owns(req[p]) = {}
      BY <1>1, <3>1 DEF TypeOK, WellFormed, Owns
    <3>3. CASE \E id : Take(p, req[p].sess, id)
      BY <1>1, <3>1, <3>2, <3>3, TakeRows
    <3>4. CASE UNCHANGED <<memory, database>>
      <4>1. r.pc \notin {"start_record", "start_install"}
        BY <2>3, <3>1 DEF Order
      <4> QED
        BY <1>1, <2>4, <2>5, <3>2, <3>4, <4>1, SameRows
    <3> QED
      BY <3>1, <3>3, <3>4
  <2>11. CASE RemoveDelete(p)
    <3>1. /\ UNCHANGED <<running, runtime>> /\ rows' = rows \ {e.of : e \in req[p].held}
          /\ req[p].pc = "remove_delete"
      BY <1>7, <2>2, <2>11 DEF RemoveDelete, Fails, RowsDeleted, Touches
    <3>2. r.pc = "idle" /\ Owns(req[p]) = {e.of : e \in req[p].held}
      BY <2>3, <3>1 DEF Order, Owns
    <3> QED
      BY <1>1, <2>4, <2>5, <3>1, <3>2, SameRows
  <2>12. CASE QualityRestart(p)
    <3> DEFINE s == req[p].sess
               new == Named(req[p].again)
    <3>1. /\ req[p].pc = "quality_restart" /\ UNCHANGED <<running, rows>>
          /\ \/ runtime' = [runtime EXCEPT ![s] = @ \cup new]
             \/ s \notin running /\ UNCHANGED runtime
      BY <2>12 DEF QualityRestart, StillRunning
    <3>2. r.pc = "idle" /\ Owns(req[p]) = req[p].again /\ s \in Sessions
      BY <1>1, <2>3, <3>1 DEF Order, Owns, TypeOK, WellFormed
    <3>3. \A o \in req[p].again : o.sess = s
      BY <3>2 DEF Inv, OwnerInv, KnownRow
    <3>4. CASE runtime' = [runtime EXCEPT ![s] = @ \cup new]
      <4>1. \A o \in req[p].again : \E e \in new : e.of = o
        BY NamedCovers
      <4> HIDE DEF new, s
      <4>2. \A t \in Sessions : runtime'[t] = IF t = s THEN runtime[t] \cup new ELSE runtime[t]
        BY <1>1, <3>4 DEF TypeOK
      <4>3. ASSUME NEW o \in rows', o.sess \in running'
            PROVE  \/ \E f \in runtime'[o.sess] : f.of = o
                   \/ \E q \in Requests \ {p} : o \in Owns(req[q])
        <5>1. o \in rows /\ o.sess \in running /\ o.sess \in Sessions
          BY <1>1, <3>1, <4>3 DEF TypeOK
        <5>2. CASE o \in req[p].again
          BY <3>2, <3>3, <4>1, <4>2, <5>2
        <5>3. CASE o \notin req[p].again
          BY <3>2, <4>2, <5>1, <5>3 DEF RowsInv
        <5> QED
          BY <5>2, <5>3
      <4> QED
        BY <1>1, <2>4, <2>5, <3>1, <3>2, <4>3, RowsStep
    <3>5. CASE s \notin running /\ UNCHANGED runtime
      BY <1>1, <2>4, <2>5, <3>1, <3>2, <3>3, <3>5, SameRows
    <3> QED
      BY <3>1, <3>4, <3>5
  <2> QED
    BY <1>7, <2>6, <2>7, <2>8, <2>9, <2>10, <2>11, <2>12 DEF Continue,
       StartRecord, RemoveCancel, RemoveWait, PresentStore, RecordStore, RecordMedia,
       QualityWait, QualityCancelMirror, QualityWaitMirror, StopCancel, StopWait, StopStore
<1> QED
  BY <1>3, <1>4, <1>5, <1>6, <1>7 DEF Next

(* Of what the database calls running, a request is always at work on what *)
(* does not run, if its writes do not fail and no change of presentation   *)
(* overlaps a Stop.                                                        *)
LEMMA RunningNext ==
    ASSUME "store" \notin Faults, {"present", "stop"} \in Apart, WithinLimit,
           Inv, PresentInv, RunningInv, [Next]_vars
    PROVE  RunningInv'
<1> USE DEF memory, engines, database
<1> DEFINE Passing == {"start_record", "start_install", "stop_cancel", "stop_wait"}
<1>1. TypeOK
  BY DEF Inv
<1>2. CASE Resume
  BY <1>2 DEF Resume, BringBack, Listed, StoredRunning, WithinLimit, RunningInv
<1>3. CASE Exit
  BY <1>3 DEF Exit, RunningInv
<1>4. CASE Shutdown \/ (\E e \in live : EngineExit(e)) \/ UNCHANGED vars
  <2>1. UNCHANGED <<status, running, req>> /\ (phase # "down" \/ phase' = phase)
    BY <1>4 DEF Shutdown, EngineExit, Inv, DownInv, vars
  <2> QED
    BY <2>1 DEF RunningInv
<1>5. ASSUME NEW p \in Requests, Begin(p) PROVE RunningInv'
  <2>1. PICK s, op, r : s \in Sessions /\ Begins(p, s, op, r)
    BY <1>1, <1>5, BeginBegins
  <2>2. /\ req' = [req EXCEPT ![p] = r] /\ <<op, r.pc>> \in Openings /\ req[p].pc = "idle"
        /\ phase = "up"
        /\ (r.pc # "idle" => r.sess = s)
        /\ running' = IF op = "stop" THEN running \ {s} ELSE running
    BY <2>1 DEF Begins, CanBegin
  <2>3. \A q \in Requests : req'[q] = IF q = p THEN r ELSE req[q]
    BY <1>1, <2>2, Others
  <2>4. \A t \in Sessions : status'[t] = status[t] \/ (t = s /\ op = "start")
    BY <1>1, <2>1 DEF Begins, TypeOK
  <2> SUFFICES ASSUME NEW t \in Sessions, status'[t] = "running", t \notin running'
               PROVE  \E q \in Requests : req'[q].sess = t /\ req'[q].pc \in Passing
    BY DEF RunningInv
  <2>5. CASE t = s /\ op \in {"start", "stop"}
    BY <2>2, <2>3, <2>5 DEF Openings
  <2>6. CASE ~(t = s /\ op \in {"start", "stop"})
    <3>1. status[t] = "running" /\ t \notin running
      BY <2>2, <2>4, <2>6
    <3>2. PICK q \in Requests : req[q].sess = t /\ req[q].pc \in Passing
      BY <2>2, <3>1 DEF RunningInv
    <3> QED
      BY <2>2, <2>3, <3>2
  <2> QED
    BY <2>5, <2>6
<1>6. ASSUME NEW p \in Requests, Continue(p) PROVE RunningInv'
  <2>1. PICK r : GoesOn(p, r)
    BY <1>1, <1>6, ContinueGoesOn
  <2>2. Touches(p)
    BY <1>1, <1>6, ContinueGoesOn
  <2>3. /\ req' = [req EXCEPT ![p] = r] /\ <<req[p].pc, r.pc>> \in Order
        /\ (r.pc # "idle" => r.sess = req[p].sess)
    BY <2>1 DEF GoesOn
  <2>4. \A q \in Requests : req'[q] = IF q = p THEN r ELSE req[q]
    BY <1>1, <2>3, Others
  <2>5. phase # "down"
    BY <2>3 DEF Inv, DownInv, Idle, Order
  <2> SUFFICES ASSUME NEW t \in Sessions, status'[t] = "running", t \notin running'
               PROVE  \E q \in Requests : req'[q].sess = t /\ req'[q].pc \in Passing
    BY DEF RunningInv
  <2>6. status[t] = "running" \/ (t = req[p].sess /\ PresentStore(p))
    <3>1. CASE UNCHANGED status
      BY <3>1
    <3>2. CASE PresentStore(p) \/ StopStore(p)
      BY <1>1, <3>2 DEF PresentStore, StopStore, TypeOK
    <3>3. CASE ~(UNCHANGED status) /\ ~(PresentStore(p) \/ StopStore(p))
      BY <1>6, <3>3 DEF Continue, StartRecord, StartInstall, StartAdd, AddTargetLocked,
         RemoveTake, Take, RemoveCancel, RemoveWait, RemoveDelete, RecordStore, RecordMedia,
         QualityWait, QualityCancelMirror, QualityWaitMirror, QualityRestart, StopCancel, StopWait
    <3> QED
      BY <3>1, <3>2, <3>3
  <2>7. running \subseteq running'
    BY <1>6, <2>2 DEF Touches, Continue, StartRecord, StartInstall, StartAdd, RemoveTake,
       RemoveCancel, RemoveWait, RemoveDelete, PresentStore, RecordStore, RecordMedia,
       QualityWait, QualityCancelMirror, QualityWaitMirror, QualityRestart, StopCancel,
       StopWait, StopStore
  <2>8. CASE t = req[p].sess /\ PresentStore(p)
    BY <2>7, <2>8 DEF PresentStore, PresentInv
  <2>9. CASE status[t] = "running"
    <3>1. PICK q \in Requests : req[q].sess = t /\ req[q].pc \in Passing
      BY <2>5, <2>7, <2>9 DEF RunningInv
    <3>2. CASE q # p
      BY <2>4, <3>1, <3>2
    <3>3. CASE q = p /\ r.pc \in Passing
      BY <2>3, <2>4, <3>1, <3>3
    <3>4. CASE q = p /\ r.pc = "start_add"
      <4>1. StartInstall(p) \/ StartAdd(p)
        BY <1>6, <2>3, <3>1, <3>4 DEF Order, Continue, StartRecord, RemoveTake,
           RemoveCancel, RemoveWait, RemoveDelete, PresentStore, RecordStore, RecordMedia,
           QualityWait, QualityCancelMirror, QualityWaitMirror, QualityRestart, StopCancel,
           StopWait, StopStore
      <4> QED
        BY <3>1, <3>4, <4>1 DEF StartInstall, StartAdd
    <3>5. CASE q = p /\ r.pc = "idle"
      <4>1. req[p].pc = "stop_wait" /\ r.pc # "stop_wait"
        BY <2>3, <3>1, <3>5 DEF Order
      <4>2. StopStore(p)
        <5>1. ~StopWait(p)
          <6> SUFFICES ASSUME NEW e, req' = [req EXCEPT ![p].held = @ \ {e}] \/
                                     req' = [req EXCEPT ![p].held = @ \ {e}, ![p].deadline = FALSE]
                       PROVE  FALSE
            BY DEF StopWait
          <6>1. req'[p].pc = req[p].pc
            BY <1>1 DEF TypeOK, Request
          <6> QED
            BY <2>4, <4>1, <6>1
        <5> QED
          BY <1>6, <4>1, <5>1 DEF Continue, StartRecord, StartInstall, StartAdd, RemoveTake,
             RemoveCancel, RemoveWait, RemoveDelete, PresentStore, RecordStore, RecordMedia,
             QualityWait, QualityCancelMirror, QualityWaitMirror, QualityRestart, StopCancel
      <4>3. status' = [status EXCEPT ![t] = "stopped"]
        BY <3>1, <3>5, <4>2 DEF StopStore, Fails
      <4> QED
        BY <1>1, <4>3 DEF TypeOK
    <3> QED
      BY <2>3, <3>1, <3>2, <3>3, <3>4, <3>5 DEF Order
  <2> QED
    BY <2>6, <2>8, <2>9
<1> QED
  BY <1>2, <1>3, <1>4, <1>5, <1>6 DEF Next

LEMMA RowsAlways ==
    ASSUME "store" \notin Faults
    PROVE  Spec => []RowsInv
<1>1. Init => RowsInv
  BY DEF Init, RowsInv
<1>2. Inv /\ Inv' /\ RowsInv /\ [Next]_vars => RowsInv'
  BY RowsNext
<1> QED
  BY <1>1, <1>2, InvCorrect, PTL DEF Spec

LEMMA RunningAlways ==
    ASSUME "store" \notin Faults, {"present", "stop"} \in Apart
    PROVE  Spec /\ []WithinLimit => []RunningInv
<1>1. Init => RunningInv
  BY DEF Init, RunningInv
<1>2. WithinLimit /\ Inv /\ PresentInv /\ RunningInv /\ [Next]_vars => RunningInv'
  BY RunningNext
<1> QED
  BY <1>1, <1>2, PresentAlways, InvCorrect, PTL DEF Spec

(* What is known of rows and runtimes at rest makes them agree.            *)
LEMMA AtRest == Inv /\ RowsInv => RunsAsStored
<1> SUFFICES ASSUME Inv, RowsInv, Quiet
             PROVE  /\ running \subseteq StoredRunning
                    /\ \A s \in running :
                         {e.of : e \in Targets(s)} = {r \in rows : r.sess = s}
  BY DEF RunsAsStored
<1>1. \A p \in Requests : req[p].pc = "idle" /\ Owns(req[p]) = {}
  BY DEF Quiet, NoRequests, Owns
<1>2. running \subseteq StoredRunning
  BY DEF StoredRunning, Inv, RuntimeInv, TypeOK
<1>3. ASSUME NEW s \in running, NEW e \in Targets(s) PROVE e.of \in rows /\ e.of.sess = s
  <2>1. s \in Sessions /\ e \in runtime[s] /\ e.of.id # Mirror
    BY <1>3 DEF Targets, Mirrors, Inv, TypeOK
  <2>2. KnownRow(s, e.of)
    BY <2>1 DEF Inv, RuntimeInv
  <2>3. MirrorRow(s).id = Mirror
    BY DEF MirrorRow
  <2> QED
    BY <2>1, <2>2, <2>3 DEF KnownRow
<1>4. ASSUME NEW s \in running, NEW r \in rows, r.sess = s
      PROVE  \E e \in Targets(s) : e.of = r
  <2>1. r.id # Mirror
    BY IdsAssumption DEF Inv, TableInv
  <2> QED
    BY <1>1, <1>4, <2>1 DEF RowsInv, Targets, Mirrors
<1>5. ASSUME NEW s \in running
      PROVE  {e.of : e \in Targets(s)} = {r \in rows : r.sess = s}
  BY <1>3, <1>4
<1> QED
  BY <1>2, <1>5

(***************************************************************************)
(* At rest the database says what runs, and nothing else unless it ever    *)
(* called more sessions running than Resume asks for, if its writes do not *)
(* fail and no change of presentation overlaps a Stop: a crash then, and a *)
(* Resume, bring back the same sessions and targets.                       *)
(***************************************************************************)
THEOREM RestartFaithfulHolds ==
    ASSUME "store" \notin Faults, {"present", "stop"} \in Apart
    PROVE  Spec => RestartFaithful
<1>1. Inv /\ RowsInv => RunsAsStored
  BY AtRest
<1>2. RunningInv => StoredRuns
  BY DEF RunningInv, StoredRuns, StoredRunning, Quiet, NoRequests
<1> QED
  BY <1>1, <1>2, RowsAlways, RunningAlways, InvCorrect, PTL DEF Spec, RestartFaithful

-----------------------------------------------------------------------------
(* No row comes, and what is to be deleted stays so until it is.           *)
LEMMA ChannelsKept ==
    ASSUME ChannelsInv, phase' # "stopping", rows' \subseteq rows,
           \A o \in rows' : Leaving(o) => Leaving(o)'
    PROVE  ChannelsInv'
  BY DEF ChannelsInv

(* A request that was to delete rows goes on with them, or they are gone.  *)
LEMMA LeavingStep ==
    ASSUME NEW p \in Requests, NEW r,
           \A q \in Requests : req'[q] = IF q = p THEN r ELSE req[q],
           NEW o,
           OpOf(req[p].pc) = "remove" /\ o \in Owns(req[p]) =>
               OpOf(r.pc) = "remove" /\ o \in Owns(r),
           Leaving(o)
    PROVE  Leaving(o)'
<1>1. PICK q \in Requests : OpOf(req[q].pc) = "remove" /\ o \in Owns(req[q])
  BY DEF Leaving
<1>2. OpOf(req'[q].pc) = "remove" /\ o \in Owns(req'[q])
  BY <1>1
<1> QED
  BY <1>2 DEF Leaving, OpOf, Owns

(* A row of a running session for a channel its runtime has no engine for  *)
(* is to be deleted, if no change of quality has the engine.               *)
LEMMA ChannelTaken ==
    ASSUME Inv, RowsInv, NEW s \in running, NEW o \in rows, o.sess = s,
           IsNewChannel(s, o.chan),
           \A q \in Requests : req[q].sess = s => OpOf(req[q].pc) # "quality"
    PROVE  Leaving(o)
<1>1. o.id # Mirror
  BY IdsAssumption DEF Inv, TableInv
<1>2. \A e \in runtime[s] : e.of # o
  BY <1>1 DEF IsNewChannel, Targets, Mirrors
<1>3. PICK p \in Requests : o \in Owns(req[p])
  BY <1>2 DEF RowsInv
<1>4. req[p].sess = s
  BY <1>3 DEF Inv, OwnerInv, KnownRow
<1>5. req[p].pc # "stop_cancel"
  BY <1>4 DEF Inv, RequestInv
<1>6. req[p].pc \notin {"quality_wait", "quality_mirror", "quality_restart"}
  BY <1>4, OpFacts
<1>7. req[p].pc \in {"remove_cancel", "remove_wait", "remove_delete"}
  BY <1>3, <1>5, <1>6 DEF Owns
<1> QED
  BY <1>3, <1>7, OpFacts DEF Leaving

(* A channel is added that no other target of the session casts to.        *)
LEMMA AddChannels ==
    ASSUME Inv, RowsInv, ChannelsInv, NEW s \in running, NEW c, AddTargetLocked(s, c),
           \A q \in Requests : req[q].sess = s => OpOf(req[q].pc) # "quality",
           \A o \in rows : Leaving(o) => Leaving(o)'
    PROVE  ChannelsInv'
<1> DEFINE row == [id |-> nextId, sess |-> s, chan |-> c]
<1>1. rows' = rows \cup {row} /\ IsNewChannel(s, c) /\ UNCHANGED phase
  BY DEF AddTargetLocked
<1>2. row.sess = s /\ row.chan = c
  OBVIOUS
<1> HIDE DEF row
<1>3. \A o \in rows : o.sess = s /\ o.chan = c => Leaving(o)
  BY <1>1, ChannelTaken
<1>4. phase' # "stopping"
  BY <1>1 DEF ChannelsInv
<1> SUFFICES ASSUME NEW o \in rows', NEW t \in rows', o.sess = t.sess, o.chan = t.chan,
                    ~Leaving(o)', ~Leaving(t)'
             PROVE  o = t
  BY <1>4 DEF ChannelsInv
<1>5. CASE o \in rows /\ t \in rows
  BY <1>5 DEF ChannelsInv
<1>6. CASE o = row /\ t \in rows
  BY <1>2, <1>3, <1>6
<1>7. CASE t = row /\ o \in rows
  BY <1>2, <1>3, <1>7
<1> QED
  BY <1>1, <1>5, <1>6, <1>7

(* Channels stay distinct if nothing is added while engines are restarted, *)
(* deletions do not fail, and the process ends only at rest.               *)
LEMMA ChannelsNext ==
    ASSUME {"quality", "add"} \in Apart, "store" \notin Faults, "crash" \notin Faults,
           "shutdown" \notin Faults, Inv, RowsInv, ChannelsInv, [Next]_vars
    PROVE  ChannelsInv'
<1> USE DEF memory, engines, database
<1>1. TypeOK
  BY DEF Inv
<1>2. CASE Resume
  <2>1. UNCHANGED <<rows, req>> /\ phase' = "up"
    BY <1>2 DEF Resume, BringBack
  <2> QED
    BY <2>1, ChannelsKept DEF Leaving, Owns
<1>3. CASE Exit
  <2>1. UNCHANGED rows /\ phase' = "down"
    BY <1>3 DEF Exit
  <2>2. \A p \in Requests : OpOf(req[p].pc) = "none"
    BY <1>3, OpFacts DEF Exit, NoRequests, ChannelsInv
  <2> QED
    BY <2>1, <2>2, ChannelsKept DEF Leaving
<1>4. CASE (\E e \in live : EngineExit(e)) \/ UNCHANGED vars
  <2>1. UNCHANGED <<rows, req, phase>>
    BY <1>4 DEF EngineExit, vars
  <2> QED
    BY <2>1, ChannelsKept DEF Leaving, Owns, ChannelsInv
<1>5. ~Shutdown
  BY DEF Shutdown
<1>6. ASSUME NEW p \in Requests, Begin(p) PROVE ChannelsInv'
  <2>1. PICK s, op, r : s \in Sessions /\ Begins(p, s, op, r)
    BY <1>1, <1>6, BeginBegins
  <2>2. /\ req' = [req EXCEPT ![p] = r] /\ UNCHANGED phase /\ req[p].pc = "idle"
        /\ \A q \in Requests : req[q].sess = s => {op, OpOf(req[q].pc)} \notin Apart
    BY <2>1 DEF Begins, CanBegin
  <2>3. \A q \in Requests : req'[q] = IF q = p THEN r ELSE req[q]
    BY <1>1, <2>2, Others
  <2>4. \A o : Leaving(o) => Leaving(o)'
    BY <2>2, <2>3, LeavingStep, OpFacts
  <2>5. CASE op = "add"
    <3>1. PICK c \in Channels : AddTargetLocked(s, c)
      BY <2>1, <2>5 DEF Begins
    <3>2. s \in running
      BY <2>1, <2>5 DEF Begins
    <3>3. {"add", "quality"} = {"quality", "add"}
      OBVIOUS
    <3>4. \A q \in Requests : req[q].sess = s => OpOf(req[q].pc) # "quality"
      BY <2>2, <2>5, <3>3
    <3> QED
      BY <2>4, <3>1, <3>2, <3>4, AddChannels
  <2>6. CASE op # "add"
    <3>1. UNCHANGED rows
      BY <2>1, <2>6 DEF Begins
    <3> QED
      BY <2>2, <2>4, <3>1, ChannelsKept DEF ChannelsInv
  <2> QED
    BY <2>5, <2>6
<1>7. ASSUME NEW p \in Requests, Continue(p) PROVE ChannelsInv'
  <2>1. PICK r : GoesOn(p, r)
    BY <1>1, <1>7, ContinueGoesOn
  <2>2. Touches(p)
    BY <1>1, <1>7, ContinueGoesOn
  <2>3. /\ req' = [req EXCEPT ![p] = r] /\ <<req[p].pc, r.pc>> \in Order
        /\ r.pc \in {"remove_wait", "remove_delete"} => r.held = req[p].held
    BY <2>1 DEF GoesOn
  <2>4. \A q \in Requests : req'[q] = IF q = p THEN r ELSE req[q]
    BY <1>1, <2>3, Others
  <2>5. phase' # "stopping"
    BY <2>2 DEF Touches, ChannelsInv
  <2>6. CASE StartAdd(p)
    <3>1. /\ req[p].pc = "start_add"
          /\ (\E c : AddTargetLocked(req[p].sess, c)) \/ UNCHANGED rows
      BY <2>6 DEF StartAdd
    <3>2. OpOf(req[p].pc) = "start"
      BY <3>1, OpFacts
    <3>3. \A o : Leaving(o) => Leaving(o)'
      BY <2>4, <3>2, LeavingStep
    <3>4. \A q \in Requests : req[q].sess = req[p].sess => OpOf(req[q].pc) # "quality"
      BY <3>1, <3>2 DEF Inv, RequestInv
    <3>5. req[p].sess \in running
      BY <3>1 DEF Inv, RequestInv
    <3>6. CASE \E c : AddTargetLocked(req[p].sess, c)
      <4>1. PICK c : AddTargetLocked(req[p].sess, c)
        BY <3>6
      <4> QED
        BY <3>3, <3>4, <3>5, <4>1, AddChannels
    <3> QED
      BY <2>5, <3>1, <3>3, <3>6, ChannelsKept
  <2>7. CASE RemoveDelete(p)
    <3>1. rows' = rows \ {e.of : e \in req[p].held} /\ req[p].pc = "remove_delete"
      BY <2>7 DEF RemoveDelete, Fails, RowsDeleted
    <3>2. Owns(req[p]) = {e.of : e \in req[p].held}
      BY <3>1 DEF Owns
    <3>3. \A o \in rows' : Leaving(o) => Leaving(o)'
      BY <2>4, <3>1, <3>2, LeavingStep
    <3> QED
      BY <2>5, <3>1, <3>3, ChannelsKept
  <2>8. CASE ~StartAdd(p) /\ ~RemoveDelete(p)
    <3>1. UNCHANGED rows
      BY <1>7, <2>8 DEF Continue, StartRecord, StartInstall, RemoveTake, Take, RemoveCancel,
         RemoveWait, PresentStore, RecordStore, RecordMedia, QualityWait, QualityCancelMirror,
         QualityWaitMirror, QualityRestart, StopCancel, StopWait, StopStore
    <3>2. req[p].pc # "remove_delete"
      BY <1>7, <2>8 DEF Continue, StartRecord, StartInstall, RemoveTake, RemoveCancel,
         RemoveWait, PresentStore, RecordStore, RecordMedia, QualityWait, QualityCancelMirror,
         QualityWaitMirror, QualityRestart, StopCancel, StopWait, StopStore
    <3>3. ASSUME NEW o, OpOf(req[p].pc) = "remove", o \in Owns(req[p])
          PROVE  OpOf(r.pc) = "remove" /\ o \in Owns(r)
      <4>1. req[p].pc \in {"remove_cancel", "remove_wait"}
        BY <3>2, <3>3, OpFacts DEF Owns
      <4>2. r.pc \in {"remove_wait", "remove_delete"}
        BY <2>3, <4>1 DEF Order
      <4> QED
        BY <2>3, <3>3, <4>1, <4>2, OpFacts DEF Owns
    <3>4. \A o : Leaving(o) => Leaving(o)'
      BY <2>4, <3>3, LeavingStep
    <3> QED
      BY <2>5, <3>1, <3>4, ChannelsKept
  <2> QED
    BY <2>6, <2>7, <2>8
<1> QED
  BY <1>2, <1>3, <1>4, <1>5, <1>6, <1>7 DEF Next

(***************************************************************************)
(* A session casts once into each channel, if SetQuality and AddTarget do  *)
(* not overlap on it, the process ends only at rest and the database       *)
(* works.  (A removal still under way when the process dies leaves a row   *)
(* of a channel that may have been added again: Resume would start both.)  *)
(***************************************************************************)
THEOREM ChannelOnceHolds ==
    ASSUME {"quality", "add"} \in Apart,
           "store" \notin Faults, "crash" \notin Faults, "shutdown" \notin Faults
    PROVE  Spec => []ChannelOnce
<1>1. Init => ChannelsInv
  BY DEF Init, ChannelsInv
<1>2. Inv /\ RowsInv /\ ChannelsInv /\ [Next]_vars => ChannelsInv'
  BY ChannelsNext
<1>3. Inv /\ ChannelsInv => ChannelOnce
  <2> SUFFICES ASSUME Inv, ChannelsInv, NEW s \in running, NEW e \in Targets(s),
                      NEW f \in Targets(s), e.of.chan = f.of.chan
               PROVE  e = f
    BY DEF ChannelOnce
  <2>1. ASSUME NEW d \in Targets(s)
        PROVE  d \in runtime[s] /\ s \in Sessions /\ d.of \in rows /\ d.of.sess = s /\ ~Leaving(d.of)
    <3>1. s \in Sessions /\ d \in runtime[s] /\ d.of.id # Mirror
      BY DEF Targets, Mirrors, Inv, TypeOK
    <3>2. KnownRow(s, d.of)
      BY <3>1 DEF Inv, RuntimeInv
    <3>3. d.of \in rows /\ d.of.sess = s
      BY <3>1, <3>2 DEF KnownRow, MirrorRow
    <3>4. \A p \in Requests : d.of \notin Owns(req[p])
      BY <3>1, <3>3 DEF Inv, OwnerInv, KnownRow
    <3> QED
      BY <3>1, <3>3, <3>4 DEF Leaving
  <2>2. e.of = f.of
    BY <2>1 DEF ChannelsInv
  <2> QED
    BY <2>1, <2>2 DEF Inv, RuntimeInv
<1> QED
  BY <1>1, <1>2, <1>3, RowsAlways, InvCorrect, PTL DEF Spec
-----------------------------------------------------------------------------
(* A session that exists is never forgotten.                               *)
LEMMA NeverForgotten ==
    ASSUME TypeOK, [Next]_vars, NEW s \in Sessions, status[s] # "none"
    PROVE  status'[s] # "none"
<1> USE DEF memory, engines, database
<1>1. CASE Resume \/ Exit \/ Shutdown \/ (\E e \in live : EngineExit(e)) \/ UNCHANGED vars
  BY <1>1 DEF Resume, BringBack, Exit, Shutdown, EngineExit, vars
<1>2. ASSUME NEW p \in Requests, Begin(p) PROVE status'[s] # "none"
  <2>1. PICK t, op, r : t \in Sessions /\ Begins(p, t, op, r)
    BY <1>2, BeginBegins
  <2>2. UNCHANGED status \/ status' = [status EXCEPT ![t] = "running"]
    BY <2>1 DEF Begins
  <2> QED
    BY <2>1, <2>2 DEF TypeOK
<1>3. ASSUME NEW p \in Requests, Continue(p) PROVE status'[s] # "none"
  <2>1. CASE PresentStore(p) \/ StopStore(p) \/ StopWait(p)
    BY <2>1 DEF PresentStore, StopStore, StopWait, TypeOK
  <2>2. CASE UNCHANGED status
    BY <2>2
  <2>3. Touches(p)
    BY <1>3, ContinueGoesOn
  <2>4. CASE req[p].pc = "present_store"
    BY <1>3, <2>1, <2>4 DEF Continue, StartRecord, StartInstall, StartAdd, RemoveTake,
       RemoveCancel, RemoveWait, RemoveDelete, RecordStore, RecordMedia, QualityWait,
       QualityCancelMirror, QualityWaitMirror, QualityRestart, StopCancel
  <2>5. CASE req[p].pc = "stop_wait"
    BY <1>3, <2>1, <2>5 DEF Continue, StartRecord, StartInstall, StartAdd, RemoveTake,
       RemoveCancel, RemoveWait, RemoveDelete, RecordStore, RecordMedia, QualityWait,
       QualityCancelMirror, QualityWaitMirror, QualityRestart, StopCancel
  <2> QED
    BY <2>2, <2>3, <2>4, <2>5 DEF Touches
<1> QED
  BY <1>1, <1>2, <1>3 DEF Next

(* HasOwnPath after the step.                                              *)
OwnPathNext(s) == \A t \in Sessions : Path[t] = Path[s] /\ status'[t] # "none" => t = s

(* A path is a session's own no longer once another session has it.        *)
LEMMA OwnPathKept ==
    ASSUME TypeOK, [Next]_vars, NEW s \in Sessions, OwnPathNext(s)
    PROVE  HasOwnPath(s)
BY NeverForgotten DEF HasOwnPath, OwnPathNext

(* Steps that change the settings of one session at most, and leave the    *)
(* others' and what was told of them alone.                                *)
LEMMA SettingsStep ==
    ASSUME SettingsInv, NEW p \in Requests, NEW r,
           \A t \in Sessions : OwnPathNext(t) => HasOwnPath(t),
           running' \subseteq Sessions,
           \A q \in Requests : req'[q].pc = "start_install" => req'[q].sess \in Sessions,
           \A q \in Requests : req'[q] = IF q = p THEN r ELSE req[q],
           \A t \in running' :
               \/ dbPres'[t] = pres'[t]
               \/ r.sess = t /\ r.pc = "present_store"
               \/ /\ t \in running /\ dbPres'[t] = dbPres[t] /\ pres'[t] = pres[t]
                  /\ ~(req[p].sess = t /\ req[p].pc = "present_store"),
           \A t \in running' :
               \/ dbRec'[t] = rec'[t]
               \/ r.sess = t /\ r.pc = "record_store"
               \/ /\ t \in running /\ dbRec'[t] = dbRec[t] /\ rec'[t] = rec[t]
                  /\ ~(req[p].sess = t /\ req[p].pc = "record_store"),
           \A t \in running' :
               \/ ~OwnPathNext(t)
               \/ recording'[Path[t]] = rec'[t]
               \/ r.sess = t /\ r.pc \in {"record_store", "record_media"}
               \/ /\ t \in running /\ recording'[Path[t]] = recording[Path[t]]
                  /\ rec'[t] = rec[t]
                  /\ ~(req[p].sess = t /\ req[p].pc \in {"record_store", "record_media"}),
           r.pc = "present_store" => r.value = pres'[r.sess],
           r.pc \in {"record_store", "record_media"} => r.value = rec'[r.sess],
           r.pc = "start_install" /\ OwnPathNext(r.sess) =>
               recording'[Path[r.sess]] = dbRec'[r.sess],
           \A q \in Requests \ {p} : req[q].pc = "present_store" =>
               pres'[req[q].sess] = pres[req[q].sess],
           \A q \in Requests \ {p} : req[q].pc \in {"record_store", "record_media"} =>
               rec'[req[q].sess] = rec[req[q].sess],
           \A q \in Requests \ {p} : req[q].pc = "start_install" /\ OwnPathNext(req[q].sess) =>
               /\ recording'[Path[req[q].sess]] = recording[Path[req[q].sess]]
               /\ dbRec'[req[q].sess] = dbRec[req[q].sess]
    PROVE  SettingsInv'
<1>1. ASSUME NEW t \in running, NEW pcs, Writing(t, pcs), ~(req[p].sess = t /\ req[p].pc \in pcs)
      PROVE  \E q \in Requests : req'[q].sess = t /\ req'[q].pc \in pcs
  BY <1>1 DEF Writing
<1>2. ASSUME NEW t \in running'
      PROVE  dbPres'[t] = pres'[t] \/ Writing(t, {"present_store"})'
  BY <1>1 DEF SettingsInv, Writing
<1>3. ASSUME NEW t \in running'
      PROVE  dbRec'[t] = rec'[t] \/ Writing(t, {"record_store"})'
  BY <1>1 DEF SettingsInv, Writing
<1>4. ASSUME NEW t \in running'
      PROVE  \/ ~OwnPathNext(t)
             \/ recording'[Path[t]] = rec'[t]
             \/ Writing(t, {"record_store", "record_media"})'
  BY <1>1 DEF SettingsInv, Writing
<1>5. ASSUME NEW q \in Requests
      PROVE  /\ req'[q].pc = "present_store" => req'[q].value = pres'[req'[q].sess]
             /\ req'[q].pc \in {"record_store", "record_media"} =>
                  req'[q].value = rec'[req'[q].sess]
             /\ req'[q].pc = "start_install" /\ OwnPathNext(req'[q].sess) =>
                  recording'[Path[req'[q].sess]] = dbRec'[req'[q].sess]
  <2>1. CASE q = p
    BY <2>1
  <2>2. CASE q # p
    BY <2>2 DEF SettingsInv
  <2> QED
    BY <2>1, <2>2
<1> QED
  BY <1>2, <1>3, <1>4, <1>5 DEF SettingsInv, HasOwnPath, OwnPathNext

(* Settings stay in agreement, but for what a request is still to write.   *)
LEMMA SettingsNext ==
    ASSUME {"present"} \in Apart, {"record"} \in Apart,
           "store" \notin Faults, "media" \notin Faults,
           Inv, TypeOK', SettingsInv, [Next]_vars
    PROVE  SettingsInv'
<1> USE DEF memory, engines, database
<1>1. TypeOK
  BY DEF Inv
<1>2. Idle.pc = "idle"
  BY DEF Idle
<1>8. \A t \in Sessions : OwnPathNext(t) => HasOwnPath(t)
  BY <1>1, OwnPathKept
<1>9. /\ running' \subseteq Sessions
      /\ \A q \in Requests : req'[q].pc = "start_install" => req'[q].sess \in Sessions
  BY DEF TypeOK, WellFormed
<1>3. CASE Resume
  <2>0. PICK back \in Listed : BringBack(back)
    BY <1>3 DEF Resume
  <2>1. /\ running' = back /\ pres' = dbPres /\ rec' = dbRec
        /\ UNCHANGED <<database, req>>
        /\ \A q \in Paths : \/ recording'[q] \in Asked(back, q)
                            \/ Asked(back, q) = {}
    BY <2>0 DEF BringBack, Fails
  <2>2. ASSUME NEW s \in running', OwnPathNext(s) PROVE recording'[Path[s]] = dbRec[s]
    <3>1. s \in Sessions /\ Path[s] \in Paths /\ back \subseteq StoredRunning
      BY <2>1, ListedRun, SourceAssumption DEF StoredRunning
    <3>3. \A t \in back : Path[t] = Path[s] => t = s
      BY <2>2, <3>1, <1>8 DEF HasOwnPath, StoredRunning
    <3>2. Asked(back, Path[s]) = {dbRec[s]}
      BY <2>1, <3>1, <3>3 DEF Asked
    <3> QED
      BY <2>1, <3>1, <3>2
  <2>3. \A p \in Requests : req'[p].pc = "idle"
    BY <1>2, <2>0, <2>1 DEF BringBack, Inv, DownInv
  <2> QED
    BY <2>1, <2>2, <2>3 DEF SettingsInv, HasOwnPath, OwnPathNext
<1>4. CASE Exit
  BY <1>2, <1>4 DEF Exit, SettingsInv
<1>5. CASE Shutdown \/ (\E e \in live : EngineExit(e)) \/ UNCHANGED vars
  <2>1. UNCHANGED <<memory, database, recording, req>>
    BY <1>5 DEF Shutdown, EngineExit, vars
  <2> QED
    BY <2>1 DEF SettingsInv, Writing, HasOwnPath
<1>6. ASSUME NEW p \in Requests, Begin(p) PROVE SettingsInv'
  <2>1. PICK s, op, r : s \in Sessions /\ Begins(p, s, op, r)
    BY <1>1, <1>6, BeginBegins
  <2>2. /\ req' = [req EXCEPT ![p] = r] /\ <<op, r.pc>> \in Openings /\ req[p].pc = "idle"
        /\ running' \subseteq running /\ UNCHANGED recording
        /\ (r.pc # "idle" => r.sess = s)
    BY <2>1 DEF Begins, CanBegin
  <2>3. \A q \in Requests : req'[q] = IF q = p THEN r ELSE req[q]
    BY <1>1, <2>2 DEF TypeOK
  <2>4. \A q \in Requests : req[q].sess = s => {op, OpOf(req[q].pc)} \notin Apart
    BY <2>1 DEF Begins, CanBegin
  <2>9. \A q \in Requests : req[q].pc # "idle" => req[q].sess \in Sessions
    BY <1>1 DEF TypeOK, WellFormed
  <2>5. CASE op = "start"
    <3>1. /\ status[s] = "none" /\ r.pc = "start_record" /\ UNCHANGED <<pres, rec>>
          /\ \A t \in Sessions \ {s} : dbPres'[t] = dbPres[t] /\ dbRec'[t] = dbRec[t]
      BY <2>1, <2>5 DEF Begins, Openings
    <3>2. running \subseteq Sessions /\ s \notin running
      BY <1>1, <3>1 DEF Inv, RuntimeInv, TypeOK
    <3>3. \A q \in Requests \ {p} : req[q].pc = "start_install" =>
            dbRec'[req[q].sess] = dbRec[req[q].sess]
      <4> SUFFICES ASSUME NEW q \in Requests \ {p}, req[q].pc = "start_install"
                   PROVE  dbRec'[req[q].sess] = dbRec[req[q].sess]
        OBVIOUS
      <4>1. req[q].sess \in Sessions /\ status[req[q].sess] = "running"
        BY <1>1 DEF Inv, RequestInv, TypeOK, WellFormed
      <4> QED
        BY <3>1, <4>1
    <3> QED
      BY <2>2, <2>3, <3>1, <3>2, <3>3, <1>8, <1>9, SettingsStep
  <2>6. CASE op = "present"
    <3>1. /\ r.value = pres'[s] /\ r.pc = "present_store" /\ UNCHANGED <<rec, dbPres, dbRec>>
          /\ \A t \in Sessions \ {s} : pres'[t] = pres[t]
      BY <2>1, <2>6 DEF Begins, Openings
    <3>2. running \subseteq Sessions
      BY <1>1 DEF TypeOK
    <3>3. \A q \in Requests \ {p} : req[q].pc = "present_store" =>
            pres'[req[q].sess] = pres[req[q].sess]
      BY <2>4, <2>6, <2>9, <3>1, OpFacts
    <3> QED
      BY <2>2, <2>3, <3>1, <3>2, <3>3, <1>8, <1>9, SettingsStep
  <2>7. CASE op = "record"
    <3>1. /\ r.value = rec'[s] /\ r.pc = "record_store" /\ UNCHANGED <<pres, dbPres, dbRec>>
          /\ \A t \in Sessions \ {s} : rec'[t] = rec[t]
      BY <2>1, <2>7 DEF Begins, Openings
    <3>2. running \subseteq Sessions
      BY <1>1 DEF TypeOK
    <3>3. \A q \in Requests \ {p} : req[q].pc \in {"record_store", "record_media"} =>
            rec'[req[q].sess] = rec[req[q].sess]
      BY <2>4, <2>7, <2>9, <3>1, OpFacts
    <3> QED
      BY <2>2, <2>3, <3>1, <3>2, <3>3, <1>8, <1>9, SettingsStep
  <2>8. CASE op \notin {"start", "present", "record"}
    <3>1. /\ UNCHANGED <<pres, rec, dbPres, dbRec>>
          /\ r.pc \notin {"present_store", "record_store", "record_media", "start_install"}
      BY <2>1, <2>8 DEF Begins, Openings
    <3> QED
      BY <2>2, <2>3, <3>1, <1>8, <1>9, SettingsStep
  <2> QED
    BY <2>5, <2>6, <2>7, <2>8
<1>7. ASSUME NEW p \in Requests, Continue(p) PROVE SettingsInv'
  <2>1. PICK r : GoesOn(p, r)
    BY <1>1, <1>7, ContinueGoesOn
  <2>2. Touches(p)
    BY <1>1, <1>7, ContinueGoesOn
  <2>3. /\ req' = [req EXCEPT ![p] = r] /\ <<req[p].pc, r.pc>> \in Order
        /\ (r.pc # "idle" => r.sess = req[p].sess)
    BY <2>1 DEF GoesOn
  <2>4. \A q \in Requests : req'[q] = IF q = p THEN r ELSE req[q]
    BY <1>1, <2>3 DEF TypeOK
  <2>5. req[p].pc # "idle" /\ req[p].sess \in Sessions
    BY <1>1, <2>3 DEF Order, TypeOK, WellFormed
  <2>6. running \subseteq Sessions
    BY <1>1 DEF TypeOK
  <2>7. \A q \in Requests \ {p} : req[q].pc # "idle" => req[q].sess \in Sessions
    BY <1>1 DEF TypeOK, WellFormed
  <2>8. \A q \in Requests \ {p} : req[q].pc = "start_install" => req[q].sess # req[p].sess
    BY <2>5 DEF Inv, RequestInv
  <2> DEFINE s == req[p].sess
  <2>9. CASE PresentStore(p)
    <3>1. /\ req[p].pc = "present_store" /\ dbPres' = [dbPres EXCEPT ![s] = req[p].value]
          /\ UNCHANGED <<running, pres, rec, dbRec, recording>>
      BY <2>9 DEF PresentStore, Fails
    <3>2. r.pc = "idle" /\ req[p].value = pres[s]
      BY <2>3, <3>1 DEF Order, SettingsInv
    <3>3. \A t \in Sessions : dbPres'[t] = IF t = s THEN pres[s] ELSE dbPres[t]
      BY <1>1, <3>1, <3>2 DEF TypeOK
    <3> HIDE DEF s
    <3> QED
      BY <2>4, <2>6, <3>1, <3>2, <3>3, <1>8, <1>9, SettingsStep DEF s
  <2>10. CASE RecordStore(p)
    <3>1. /\ req[p].pc = "record_store" /\ dbRec' = [dbRec EXCEPT ![s] = req[p].value]
          /\ Goto(p, "record_media") /\ UNCHANGED <<running, pres, rec, dbPres, recording>>
      BY <2>10 DEF RecordStore, Fails
    <3>2. r.pc = "record_media" /\ req[p].value = rec[s]
      BY <1>1, <2>4, <3>1 DEF SettingsInv, TypeOK, Request, Goto
    <3>3. \A t \in Sessions : dbRec'[t] = IF t = s THEN rec[s] ELSE dbRec[t]
      BY <1>1, <3>1, <3>2 DEF TypeOK
    <3>4. r.value = rec[s] /\ r.sess = s
      BY <2>1, <3>2 DEF GoesOn
    <3> HIDE DEF s
    <3> QED
      BY <2>4, <2>6, <2>7, <2>8, <3>1, <3>2, <3>3, <3>4, <1>8, <1>9, SettingsStep DEF s
  <2>11. CASE RecordMedia(p)
    <3>1. /\ req[p].pc = "record_media"
          /\ recording' = [recording EXCEPT ![Path[s]] = req[p].value]
          /\ UNCHANGED <<running, pres, rec, dbPres, dbRec>>
      BY <2>11 DEF RecordMedia, Fails
    <3>2. r.pc = "idle" /\ req[p].value = rec[s]
      BY <2>3, <3>1 DEF Order, SettingsInv
    <3>4. status'[s] # "none"
      BY <1>1, <2>5, NeverForgotten DEF Inv, RequestInv
    <3>3. \A t \in Sessions : OwnPathNext(t) =>
            recording'[Path[t]] = IF t = s THEN rec[s] ELSE recording[Path[t]]
      BY <1>1, <2>5, <3>1, <3>2, <3>4, SourceAssumption DEF TypeOK, OwnPathNext
    <3> HIDE DEF s
    <3> QED
      BY <2>4, <2>6, <2>7, <2>8, <3>1, <3>2, <3>3, <1>8, <1>9, SettingsStep DEF s
  <2>12. CASE StartRecord(p)
    <3>1. /\ req[p].pc = "start_record" /\ recording' = [recording EXCEPT ![Path[s]] = dbRec[s]]
          /\ UNCHANGED <<running, pres, rec, dbPres, dbRec>>
      BY <2>12 DEF StartRecord, Fails
    <3>2. /\ r.pc = "start_install" /\ r.sess = s /\ s \notin running
          /\ \A q \in Requests \ {p} : req[q].sess # s
      BY <2>3, <3>1 DEF Order, Inv, RequestInv
    <3>5. status'[s] # "none"
      BY <1>1, <2>5, NeverForgotten DEF Inv, RequestInv
    <3>3. \A t \in Sessions : OwnPathNext(t) =>
            recording'[Path[t]] = IF t = s THEN dbRec[s] ELSE recording[Path[t]]
      BY <1>1, <2>5, <3>1, <3>5, SourceAssumption DEF TypeOK, OwnPathNext
    <3>4. \A q \in Requests \ {p} : req[q].pc = "start_install" => req[q].sess \in Sessions
      BY <1>1 DEF TypeOK, WellFormed
    <3> HIDE DEF s
    <3> QED
      BY <2>4, <2>5, <2>6, <2>7, <3>1, <3>2, <3>3, <3>4, <1>8, <1>9, SettingsStep DEF s
  <2>13. CASE StartInstall(p)
    <3>1. /\ req[p].pc = "start_install" /\ running' = running \cup {s}
          /\ pres' = [pres EXCEPT ![s] = dbPres[s]] /\ rec' = [rec EXCEPT ![s] = dbRec[s]]
          /\ UNCHANGED <<dbPres, dbRec, recording>>
      BY <2>13 DEF StartInstall
    <3>2. r.pc = "start_add" /\ (OwnPathNext(s) => recording[Path[s]] = dbRec[s])
      BY <1>8, <2>3, <2>5, <3>1 DEF Order, SettingsInv
    <3>4. \A q \in Requests \ {p} : req[q].sess # s
      BY <3>1 DEF Inv, RequestInv
    <3>3. \A t \in Sessions : /\ pres'[t] = IF t = s THEN dbPres[s] ELSE pres[t]
                              /\ rec'[t] = IF t = s THEN dbRec[s] ELSE rec[t]
      BY <1>1, <3>1 DEF TypeOK
    <3> HIDE DEF s
    <3> QED
      BY <2>4, <2>5, <2>6, <2>7, <3>1, <3>2, <3>3, <3>4, <1>8, <1>9, SettingsStep DEF s
  <2>14. CASE req[p].pc \notin {"present_store", "record_store", "record_media",
                               "start_record", "start_install"}
    <3>1. /\ UNCHANGED <<running, pres, rec, dbRec, recording>>
          /\ r.pc \notin {"present_store", "record_store", "record_media", "start_install"}
      BY <2>2, <2>3, <2>14 DEF Touches, Order
    <3>2. \A t \in running : dbPres'[t] = dbPres[t]
      <4>1. CASE req[p].pc # "stop_wait"
        BY <2>2, <2>14, <4>1 DEF Touches
      <4>2. CASE req[p].pc = "stop_wait"
        <5>1. StopWait(p) \/ StopStore(p)
          BY <1>7, <4>2 DEF Continue, StartRecord, StartInstall, StartAdd, RemoveTake,
             RemoveCancel, RemoveWait, RemoveDelete, PresentStore, RecordStore, RecordMedia,
             QualityWait, QualityCancelMirror, QualityWaitMirror, QualityRestart, StopCancel
        <5>2. s \notin running
          BY <4>2 DEF Inv, RequestInv
        <5> QED
          BY <1>1, <2>6, <5>1, <5>2 DEF StopWait, StopStore, TypeOK
      <4> QED
        BY <4>1, <4>2
    <3> QED
      BY <2>4, <2>7, <2>14, <3>1, <3>2, <1>8, <1>9, SettingsStep
  <2> QED
    BY <1>7, <2>9, <2>10, <2>11, <2>12, <2>13, <2>14 DEF Continue, StartAdd, RemoveTake,
       RemoveCancel, RemoveWait, RemoveDelete, QualityWait, QualityCancelMirror,
       QualityWaitMirror, QualityRestart, StopCancel, StopWait, StopStore
<1> QED
  BY <1>3, <1>4, <1>5, <1>6, <1>7 DEF Next

(***************************************************************************)
(* At rest, memory, database and mediamtx agree on how each session is     *)
(* shown and whether it is recorded (mediamtx on paths no two sessions     *)
(* have), if no two changes of the same setting overlap, and database and  *)
(* mediamtx work.                                                          *)
(***************************************************************************)
THEOREM SettingsAgreeHolds ==
    ASSUME {"present"} \in Apart, {"record"} \in Apart,
           "store" \notin Faults, "media" \notin Faults
    PROVE  Spec => []SettingsAgree
<1>1. Init => SettingsInv
  <2>1. Idle.pc = "idle"
    BY DEF Idle
  <2>2. ASSUME Init PROVE running = {} /\ \A p \in Requests : req[p].pc = "idle"
    BY <2>1, <2>2 DEF Init
  <2> QED
    BY <2>2 DEF SettingsInv
<1>2. Inv /\ Inv' /\ SettingsInv /\ [Next]_vars => SettingsInv'
  BY SettingsNext DEF Inv
<1>3. SettingsInv => SettingsAgree
  BY DEF SettingsInv, SettingsAgree, Writing, Quiet, NoRequests
<1> QED
  BY <1>1, <1>2, <1>3, InvCorrect, PTL DEF Spec
=============================================================================
