------------------------- MODULE UploaderProperties -------------------------
(***************************************************************************)
(* What must be true of the recordings.                                    *)
(***************************************************************************)
EXTENDS Uploader

(* A recording is never lost: until the whole of it is in the bucket and   *)
(* the table says so, its file stays, through failed uploads and crashes.  *)
Findable ==
    \A f \in Files : file[f] = "removed" =>
        bucket[f] = size[f] /\ <<"r2", f>> \in DOMAIN rows

(* What the table lists in the bucket is there, and there in full. *)
ListedIsComplete ==
    \A f \in Files : <<"r2", f>> \in DOMAIN rows => bucket[f] = size[f]

(* Does a scan read the whole table?  (The code reads 5000 rows.) *)
AllRead == Cardinality(DOMAIN rows) <= Limit

(* A copy that is listed is not made again: as long as the table has no    *)
(* more rows than a scan reads, scans do not upload the same recording for *)
(* as long as it is on disk, whatever failed or crashed in between.        *)
UploadedOnce ==
    [][\A f \in Files :
        AllRead /\ pc = "put" /\ pc' = "row" /\ cur = f => <<"r2", f>> \notin DOMAIN rows]_vars

(* Each recording that was completed comes to be listed in the bucket.     *)
Synced == \A f \in Files : file[f] = "closed" ~> <<"r2", f>> \in DOMAIN rows

-----------------------------------------------------------------------------
(***************************************************************************)
(* The inductive invariant behind ListedIsComplete and Findable, for when  *)
(* no file looks complete that is not ("pause") and no row is refused      *)
(* ("row"): where the scan is tells how much of cur it has made safe.      *)
(***************************************************************************)
QuietInv == \A f \in quiet : file[f] \in {"closed", "removed"}

CurInv ==
    /\ pc \in {"put", "row", "remove"} => cur \in quiet
    /\ pc \in {"row", "remove"} => bucket[cur] = size[cur]

ListedInv ==
    \A f \in Files : <<"r2", f>> \in DOMAIN rows => f \in quiet /\ bucket[f] = size[f]

CopyInv == TypeOK /\ QuietInv /\ CurInv /\ ListedInv

RemovedInv ==
    /\ pc = "remove" => <<"r2", cur>> \in DOMAIN rows
    /\ \A f \in Files : file[f] = "removed" => <<"r2", f>> \in DOMAIN rows

(***************************************************************************)
(* The inductive invariant behind UploadedOnce, for when the table can be  *)
(* read ("list") and no row is refused: as long as a scan reads the whole  *)
(* table, it knows of all the copies that are listed.                      *)
(***************************************************************************)
SeenInv ==
    /\ pc # "idle" /\ AllRead => \A f \in Files : <<"r2", f>> \in DOMAIN rows => <<"r2", f>> \in seen
    /\ pc = "put" => <<"r2", cur>> \notin seen
=============================================================================
