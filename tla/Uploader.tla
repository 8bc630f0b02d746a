------------------------------ MODULE Uploader ------------------------------
(***************************************************************************)
(* The uploader of internal/recording/uploader.go.  Every 30 seconds it    *)
(* walks the directory mediamtx records to, lists in the recordings table  *)
(* (internal/store/store.go) each file that has not changed for a while,   *)
(* copies it to a bucket, lists the copy, and, if it is told to, removes   *)
(* the file.  It keeps nothing between two scans but what the table says,  *)
(* so a crash costs it no more than the scan it was in.                    *)
(*                                                                         *)
(* Left out: names, keys and links of recordings, and a clock that is set  *)
(* back; a bucket is configured.                                           *)
(***************************************************************************)
EXTENDS Naturals, FiniteSets

CONSTANTS
    Files,          \* the files mediamtx may record
    MaxSize,        \* bound: the size of a file
    Limit,          \* how many rows a scan reads (5000 in the code)
    Seconds,        \* bound: the seconds in which rows are added
    DeleteLocal,    \* cfg.DeleteLocal
    MaxFaults,      \* bound: failures
    Faults          \* what may fail; see the actions

NoFile == "no file"

ASSUME UploaderAssumption == NoFile \notin Files /\ Seconds \subseteq Nat
ASSUME BoundsAssumption ==
    MaxSize \in Nat \ {0} /\ Limit \in Nat \ {0} /\ DeleteLocal \in BOOLEAN /\ MaxFaults \in Nat

VARIABLES
    file,       \* file[f]: "none" yet, "open", "closed", or "removed"
    size,       \* size[f]: what is written to it
    quiet,      \* the files not modified for UploadGrace
    bucket,     \* bucket[f]: how much of f the bucket has
    rows,       \* the recordings table: rows[r] is the created_at of row r
    pc,         \* where scan is
    seen,       \* scan: the rows it knows of
    todo, cur,  \* scan: the files still to visit, and the one it is at
    faults      \* failures so far

recorder == <<file, size, quiet>>
scan == <<pc, seen, todo, cur>>
vars == <<recorder, bucket, rows, scan, faults>>

Row == {"local", "r2"} \X Files

TypeOK ==
    /\ file \in [Files -> {"none", "open", "closed", "removed"}]
    /\ size \in [Files -> 0 .. MaxSize] /\ bucket \in [Files -> 0 .. MaxSize]
    /\ quiet \subseteq Files /\ todo \subseteq Files
    /\ DOMAIN rows \subseteq Row /\ \A r \in DOMAIN rows : rows[r] \in Seconds
    /\ pc \in {"idle", "walk", "put", "row", "remove"}
    /\ seen \subseteq Row
    /\ cur \in Files \cup {NoFile} /\ (cur = NoFile <=> pc \in {"idle", "walk"})
    /\ faults \in 0 .. MaxFaults

Init ==
    /\ file = [f \in Files |-> "none"] /\ size = [f \in Files |-> 0] /\ quiet = {}
    /\ bucket = [f \in Files |-> 0] /\ rows = <<>>
    /\ pc = "idle" /\ seen = {} /\ todo = {} /\ cur = NoFile
    /\ faults = 0

Fails(what) == what \in Faults /\ faults < MaxFaults /\ faults' = faults + 1

-----------------------------------------------------------------------------
(* mediamtx writes files and ends them.  "pause": the source may be silent *)
(* for so long that its file looks complete, and then go on.               *)
Write(f) ==
    /\ file[f] \in {"none", "open"} /\ size[f] < MaxSize
    /\ file' = [file EXCEPT ![f] = "open"]
    /\ size' = [size EXCEPT ![f] = @ + 1]
    /\ quiet' = quiet \ {f}
    /\ UNCHANGED <<bucket, rows, scan, faults>>

Finish(f) ==
    /\ file[f] = "open" /\ f \notin quiet
    /\ file' = [file EXCEPT ![f] = "closed"]
    /\ UNCHANGED <<size, quiet, bucket, rows, scan, faults>>

Age(f) ==
    /\ f \notin quiet /\ quiet' = quiet \cup {f}
    /\ \/ file[f] = "closed" /\ UNCHANGED faults
       \/ file[f] = "open" /\ Fails("pause")
    /\ UNCHANGED <<file, size, bucket, rows, scan>>

-----------------------------------------------------------------------------
(* The table with row r: that of an earlier time, if it is there already,  *)
(* or one of the time now, which no row's is after.                        *)
With(r, now) ==
    [t \in DOMAIN rows \cup {r} |-> IF t \in DOMAIN rows THEN rows[t] ELSE now]

(* AddRecording: the row is added, or "row" the database refuses it. *)
AddRecording(r) ==
    \/ /\ \E now \in Seconds : /\ \A t \in DOMAIN rows : rows[t] <= now
                               /\ rows' = With(r, now)
       /\ seen' = seen \cup {r} /\ UNCHANGED faults
    \/ Fails("row") /\ UNCHANGED <<rows, seen>>

(* ListRecordings: the newest rows.  Times are whole seconds, and which of *)
(* several rows of one second is cut off is for the database to choose.    *)
Newest ==
    {S \in SUBSET DOMAIN rows :
        /\ S = DOMAIN rows \/ Cardinality(S) = Limit
        /\ Cardinality(S) <= Limit
        /\ \A r \in S : \A t \in DOMAIN rows \ S : rows[t] <= rows[r]}

(* A scan begins: it reads the table, or cannot and takes it as empty. *)
Scan ==
    /\ pc = "idle" /\ pc' = "walk"
    /\ \/ seen' \in Newest /\ UNCHANGED faults
       \/ Fails("list") /\ seen' = {}
    /\ todo' = {f \in Files : file[f] \in {"open", "closed"}}
    /\ UNCHANGED <<recorder, bucket, rows, cur>>

(* Faulty: the grace period is not waited for. *)
TooEarly(f) == TRUE

Ripe(f) == f \in quiet

(* Faulty: nobody looks whether there is a copy. *)
NeverUploaded(f) == FALSE

(* Faulty: to be listed at all is taken for uploaded. *)
Listed(f) == <<"local", f>> \in seen

Uploaded(f) == <<"r2", f>> \in seen

(* The walk comes to f: a file that is ripe is listed, and copied unless   *)
(* there is a copy of it.                                                  *)
Visit(f) ==
    /\ pc = "walk" /\ f \in todo /\ todo' = todo \ {f}
    /\ IF Ripe(f) /\ <<"local", f>> \notin seen THEN AddRecording(<<"local", f>>)
       ELSE UNCHANGED <<rows, seen, faults>>
    /\ IF Ripe(f) /\ ~Uploaded(f) THEN pc' = "put" /\ cur' = f ELSE UNCHANGED <<pc, cur>>
    /\ UNCHANGED <<recorder, bucket>>

(* Faulty: the walk goes on as if still at the last file. *)
SameFile == pc' = "walk" /\ UNCHANGED cur

NextFile == pc' = "walk" /\ cur' = NoFile

(* Faulty: what could not be uploaded is dealt with as if it were. *)
Anyway == pc' = "row" /\ UNCHANGED cur

GiveUp == NextFile

Put ==
    /\ pc = "put"
    /\ \/ /\ bucket' = [bucket EXCEPT ![cur] = size[cur]]
          /\ pc' = "row" /\ UNCHANGED <<cur, faults>>
       \/ Fails("put") /\ GiveUp /\ UNCHANGED bucket
    /\ UNCHANGED <<recorder, rows, seen, todo>>

(* The copy is listed; whether it was or not, the file may go. *)
PutRow ==
    /\ pc = "row"
    /\ AddRecording(<<"r2", cur>>)
    /\ IF DeleteLocal THEN pc' = "remove" /\ UNCHANGED cur ELSE NextFile
    /\ UNCHANGED <<recorder, bucket, todo>>

Delete ==
    /\ pc = "remove"
    /\ \/ file' = [file EXCEPT ![cur] = "removed"] /\ UNCHANGED faults
       \/ Fails("remove") /\ UNCHANGED file
    /\ NextFile
    /\ UNCHANGED <<size, quiet, bucket, rows, seen, todo>>

ScanDone ==
    /\ pc = "walk" /\ todo = {} /\ pc' = "idle" /\ seen' = {}
    /\ UNCHANGED <<recorder, bucket, rows, todo, cur, faults>>

(* The process dies and is started again. *)
Crash ==
    /\ pc # "idle" /\ Fails("crash")
    /\ pc' = "idle" /\ seen' = {} /\ todo' = {} /\ cur' = NoFile
    /\ UNCHANGED <<recorder, bucket, rows>>

-----------------------------------------------------------------------------
Steps == Scan \/ Put \/ PutRow \/ Delete \/ ScanDone \/ \E f \in Files : Visit(f)

Next == Steps \/ Crash \/ \E f \in Files : Write(f) \/ Finish(f) \/ Age(f)

Spec == Init /\ [][Next]_vars

(* The ticker fires again and again, calls return, and files grow old. *)
FairSpec == Spec /\ WF_vars(Steps) /\ \A f \in Files : WF_vars(Age(f) /\ file[f] = "closed")
=============================================================================
