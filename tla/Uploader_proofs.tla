--------------------------- MODULE Uploader_proofs ---------------------------
(***************************************************************************)
(* Proofs about the uploader, for any files, sizes, limit and number of    *)
(* failures.  That no file looks complete that is not, and that no row is  *)
(* refused, are assumptions of the theorems that need them: without them   *)
(* TLC finds the properties violated.                                      *)
(***************************************************************************)
EXTENDS UploaderProperties, FiniteSetTheorems, TLAPS

(* The table with one more row. *)
LEMMA WithRow ==
    ASSUME TypeOK, NEW r \in Row, NEW now \in Seconds
    PROVE  /\ DOMAIN With(r, now) = DOMAIN rows \cup {r}
           /\ \A t \in DOMAIN With(r, now) : With(r, now)[t] \in Seconds
  BY DEF With, TypeOK

(* AddRecording keeps the table well formed and forgets nothing. *)
LEMMA Added ==
    ASSUME TypeOK, NEW r \in Row, AddRecording(r)
    PROVE  /\ DOMAIN rows' \subseteq Row /\ \A t \in DOMAIN rows' : rows'[t] \in Seconds
           /\ seen' \subseteq Row /\ faults' \in 0 .. MaxFaults
           /\ DOMAIN rows' \in {DOMAIN rows, DOMAIN rows \cup {r}}
           /\ "row" \notin Faults => DOMAIN rows' = DOMAIN rows \cup {r} /\ seen' = seen \cup {r}
<1>1. CASE \E now \in Seconds :
              rows' = With(r, now) /\ seen' = seen \cup {r} /\ UNCHANGED faults
  <2>1. PICK now \in Seconds : rows' = With(r, now) /\ seen' = seen \cup {r} /\ UNCHANGED faults
    BY <1>1
  <2>2. /\ DOMAIN rows' = DOMAIN rows \cup {r}
        /\ \A t \in DOMAIN rows' : rows'[t] \in Seconds
    BY <2>1, WithRow
  <2> QED
    BY <2>1, <2>2 DEF TypeOK
<1>2. CASE Fails("row") /\ UNCHANGED <<rows, seen>>
  BY <1>2, BoundsAssumption DEF TypeOK, Fails
<1> QED
  BY <1>1, <1>2 DEF AddRecording

LEMMA TypeInit == Init => TypeOK
<1> SUFFICES ASSUME Init PROVE TypeOK
  OBVIOUS
<1>1. DOMAIN rows = {}
  BY DEF Init
<1> QED
  BY <1>1, UploaderAssumption, BoundsAssumption DEF Init, TypeOK

LEMMA TypeNext == TypeOK /\ [Next]_vars => TypeOK'
<1> SUFFICES ASSUME TypeOK, [Next]_vars PROVE TypeOK'
  OBVIOUS
<1> USE UploaderAssumption, BoundsAssumption
<1> USE DEF TypeOK, recorder, scan, Fails
<1>1. ASSUME NEW f \in Files, Write(f) PROVE TypeOK'
  BY <1>1 DEF Write
<1>2. ASSUME NEW f \in Files, Finish(f) PROVE TypeOK'
  BY <1>2 DEF Finish
<1>3. ASSUME NEW f \in Files, Age(f) PROVE TypeOK'
  BY <1>3 DEF Age
<1>4. CASE Scan
  BY <1>4 DEF Scan, Newest
<1>5. ASSUME NEW f \in Files, Visit(f) PROVE TypeOK'
  <2>1. <<"local", f>> \in Row
    BY DEF Row
  <2>2. /\ DOMAIN rows' \subseteq Row /\ \A t \in DOMAIN rows' : rows'[t] \in Seconds
        /\ seen' \subseteq Row /\ faults' \in 0 .. MaxFaults
    BY <1>5, <2>1, Added DEF Visit
  <2> QED
    BY <1>5, <2>2 DEF Visit, NoFile
<1>6. CASE Put
  BY <1>6 DEF Put, GiveUp, NextFile
<1>7. CASE PutRow
  <2>1. <<"r2", cur>> \in Row
    BY <1>7 DEF PutRow, Row
  <2>2. /\ DOMAIN rows' \subseteq Row /\ \A t \in DOMAIN rows' : rows'[t] \in Seconds
        /\ seen' \subseteq Row /\ faults' \in 0 .. MaxFaults
    BY <1>7, <2>1, Added DEF PutRow
  <2> QED
    BY <1>7, <2>2 DEF PutRow, NextFile
<1>8. CASE Delete
  BY <1>8 DEF Delete, NextFile
<1>9. CASE ScanDone
  BY <1>9 DEF ScanDone
<1>10. CASE Crash
  BY <1>10 DEF Crash
<1>11. CASE UNCHANGED vars
  BY <1>11 DEF vars
<1> QED
  BY <1>1, <1>2, <1>3, <1>4, <1>5, <1>6, <1>7, <1>8, <1>9, <1>10, <1>11 DEF Next, Steps

(* The state of every file, row and scan is well typed. *)
THEOREM UploaderTypeCorrect == Spec => []TypeOK
  BY TypeInit, TypeNext, PTL DEF Spec

-----------------------------------------------------------------------------
LEMMA CopyInit == Init => CopyInv /\ RemovedInv
<1> SUFFICES ASSUME Init PROVE CopyInv /\ RemovedInv
  OBVIOUS
<1>1. DOMAIN rows = {}
  BY DEF Init
<1> QED
  BY <1>1, TypeInit DEF Init, CopyInv, QuietInv, CurInv, ListedInv, RemovedInv

(* What a step does to the files whose copies are listed. *)
LEMMA CopyNext ==
    ASSUME "pause" \notin Faults, CopyInv, [Next]_vars
    PROVE  CopyInv'
<1> USE DEF recorder, scan
<1>1. TypeOK /\ TypeOK'
  BY TypeNext DEF CopyInv
<1>2. QuietInv /\ CurInv /\ ListedInv
  BY DEF CopyInv
<1> SUFFICES QuietInv' /\ CurInv' /\ ListedInv'
  BY <1>1 DEF CopyInv
<1>3. ASSUME NEW f \in Files, Write(f) PROVE QuietInv' /\ CurInv' /\ ListedInv'
  <2>1. f \notin quiet /\ quiet' = quiet
    BY <1>1, <1>2, <1>3 DEF Write, QuietInv
  <2> QED
    BY <1>1, <1>2, <1>3, <2>1 DEF Write, QuietInv, CurInv, ListedInv, TypeOK
<1>4. ASSUME NEW f \in Files, Finish(f) PROVE QuietInv' /\ CurInv' /\ ListedInv'
  BY <1>1, <1>2, <1>4 DEF Finish, QuietInv, CurInv, ListedInv, TypeOK
<1>5. ASSUME NEW f \in Files, Age(f) PROVE QuietInv' /\ CurInv' /\ ListedInv'
  BY <1>1, <1>2, <1>5 DEF Age, Fails, QuietInv, CurInv, ListedInv, TypeOK
<1>6. CASE Scan
  BY <1>2, <1>6 DEF Scan, QuietInv, CurInv, ListedInv
<1>7. ASSUME NEW f \in Files, Visit(f) PROVE QuietInv' /\ CurInv' /\ ListedInv'
  <2>1. <<"local", f>> \in Row
    BY DEF Row
  <2>2. DOMAIN rows' \in {DOMAIN rows, DOMAIN rows \cup {<<"local", f>>}}
    BY <1>1, <1>7, <2>1, Added DEF Visit
  <2>3. \A g \in Files : <<"r2", g>> \in DOMAIN rows' => <<"r2", g>> \in DOMAIN rows
    BY <2>2
  <2> QED
    BY <1>1, <1>2, <1>7, <2>3 DEF Visit, Ripe, QuietInv, CurInv, ListedInv
<1>8. CASE Put
  BY <1>1, <1>2, <1>8 DEF Put, GiveUp, NextFile, QuietInv, CurInv, ListedInv, TypeOK
<1>9. CASE PutRow
  <2>1. <<"r2", cur>> \in Row /\ cur \in Files
    BY <1>1, <1>9 DEF PutRow, Row, TypeOK
  <2>2. DOMAIN rows' \in {DOMAIN rows, DOMAIN rows \cup {<<"r2", cur>>}}
    BY <1>1, <1>9, <2>1, Added DEF PutRow
  <2>3. \A g \in Files : <<"r2", g>> \in DOMAIN rows' => <<"r2", g>> \in DOMAIN rows \/ g = cur
    BY <2>2
  <2> QED
    BY <1>1, <1>2, <1>9, <2>1, <2>3 DEF PutRow, NextFile, QuietInv, CurInv, ListedInv
<1>10. CASE Delete
  BY <1>1, <1>2, <1>10 DEF Delete, NextFile, QuietInv, CurInv, ListedInv, TypeOK
<1>11. CASE ScanDone
  BY <1>2, <1>11 DEF ScanDone, QuietInv, CurInv, ListedInv
<1>12. CASE Crash
  BY <1>2, <1>12 DEF Crash, QuietInv, CurInv, ListedInv
<1>13. CASE UNCHANGED vars
  BY <1>2, <1>13 DEF vars, QuietInv, CurInv, ListedInv
<1> QED
  BY <1>3, <1>4, <1>5, <1>6, <1>7, <1>8, <1>9, <1>10, <1>11, <1>12, <1>13 DEF Next, Steps

(* Unless a recording pauses for longer than the grace period, what the    *)
(* table lists in the bucket is there in full, through crashes and         *)
(* failures of every other kind.                                           *)
THEOREM ListedIsCompleteCorrect ==
    ASSUME "pause" \notin Faults
    PROVE  Spec => []ListedIsComplete
<1>1. Init => CopyInv
  BY CopyInit
<1>2. CopyInv /\ [Next]_vars => CopyInv'
  BY CopyNext
<1>3. CopyInv => ListedIsComplete
  BY DEF CopyInv, ListedInv, ListedIsComplete
<1> QED
  BY <1>1, <1>2, <1>3, PTL DEF Spec

-----------------------------------------------------------------------------
LEMMA RemovedNext ==
    ASSUME "row" \notin Faults, TypeOK, RemovedInv, [Next]_vars
    PROVE  RemovedInv'
<1> USE DEF recorder, scan, RemovedInv
<1>1. ASSUME NEW f \in Files, Write(f) PROVE RemovedInv'
  BY <1>1 DEF Write, TypeOK
<1>2. ASSUME NEW f \in Files, Finish(f) PROVE RemovedInv'
  BY <1>2 DEF Finish, TypeOK
<1>3. ASSUME NEW f \in Files, Age(f) PROVE RemovedInv'
  BY <1>3 DEF Age
<1>4. CASE Scan
  BY <1>4 DEF Scan
<1>5. ASSUME NEW f \in Files, Visit(f) PROVE RemovedInv'
  <2>1. <<"local", f>> \in Row
    BY DEF Row
  <2>2. DOMAIN rows \subseteq DOMAIN rows'
    BY <1>5, <2>1, Added DEF Visit
  <2> QED
    BY <1>5, <2>2 DEF Visit
<1>6. CASE Put
  BY <1>6 DEF Put, GiveUp, NextFile
<1>7. CASE PutRow
  <2>1. <<"r2", cur>> \in Row
    BY <1>7 DEF PutRow, Row, TypeOK
  <2>2. DOMAIN rows \subseteq DOMAIN rows' /\ <<"r2", cur>> \in DOMAIN rows'
    BY <1>7, <2>1, Added DEF PutRow
  <2> QED
    BY <1>7, <2>2 DEF PutRow, NextFile
<1>8. CASE Delete
  BY <1>8 DEF Delete, NextFile, TypeOK
<1>9. CASE ScanDone
  BY <1>9 DEF ScanDone
<1>10. CASE Crash
  BY <1>10 DEF Crash
<1>11. CASE UNCHANGED vars
  BY <1>11 DEF vars
<1> QED
  BY <1>1, <1>2, <1>3, <1>4, <1>5, <1>6, <1>7, <1>8, <1>9, <1>10, <1>11 DEF Next, Steps

(* Unless a recording pauses or the database refuses a row, a file is only *)
(* removed when the whole of it is in the bucket and in the table.         *)
THEOREM FindableCorrect ==
    ASSUME "pause" \notin Faults, "row" \notin Faults
    PROVE  Spec => []Findable
<1>1. Init => CopyInv /\ RemovedInv
  BY CopyInit
<1>2. CopyInv /\ RemovedInv /\ [Next]_vars => (CopyInv /\ RemovedInv)'
  BY CopyNext, RemovedNext DEF CopyInv
<1>3. CopyInv /\ RemovedInv => Findable
  BY DEF CopyInv, ListedInv, RemovedInv, Findable
<1> QED
  BY <1>1, <1>2, <1>3, PTL DEF Spec

-----------------------------------------------------------------------------
(* The table is finite, so it can only lose rows to be within the limit.   *)
LEMMA RowsFinite ==
    ASSUME TypeOK, IsFiniteSet(Files)
    PROVE  IsFiniteSet(DOMAIN rows) /\ Cardinality(DOMAIN rows) \in Nat
<1>1. IsFiniteSet({"local", "r2"})
  <2>1. {"local", "r2"} = {"local"} \cup {"r2"}
    OBVIOUS
  <2>2. IsFiniteSet({"local"}) /\ IsFiniteSet({"r2"})
    BY FS_Singleton
  <2>3. IsFiniteSet({"local"} \cup {"r2"})
    BY <2>2, FS_Union
  <2> QED
    BY <2>1, <2>3
<1>2. IsFiniteSet(Row)
  BY <1>1, FS_Product DEF Row
<1>3. IsFiniteSet(DOMAIN rows)
  BY <1>2, FS_Subset DEF TypeOK
<1> QED
  BY <1>3, FS_CardinalityType

LEMMA MoreRows ==
    ASSUME TypeOK, TypeOK', IsFiniteSet(Files), DOMAIN rows \subseteq DOMAIN rows', AllRead'
    PROVE  AllRead
<1>1. IsFiniteSet(DOMAIN rows') /\ Cardinality(DOMAIN rows') \in Nat
  <2>1. (TypeOK /\ IsFiniteSet(Files)
           => IsFiniteSet(DOMAIN rows) /\ Cardinality(DOMAIN rows) \in Nat)'
    BY RowsFinite, PTL
  <2> QED
    BY <2>1
<1>2. Cardinality(DOMAIN rows) <= Cardinality(DOMAIN rows')
  BY <1>1, FS_Subset
<1> QED
  BY <1>1, <1>2, RowsFinite, BoundsAssumption DEF AllRead

(* A scan that can read the whole table knows of every row. *)
LEMMA NewestAll ==
    ASSUME TypeOK, IsFiniteSet(Files), AllRead, NEW S \in Newest
    PROVE  S = DOMAIN rows
<1>1. CASE Cardinality(S) = Limit
  <2>1. Cardinality(S) <= Cardinality(DOMAIN rows)
        /\ (Cardinality(S) = Cardinality(DOMAIN rows) => S = DOMAIN rows)
    BY RowsFinite, FS_Subset DEF Newest
  <2> QED
    BY <1>1, <2>1, RowsFinite, BoundsAssumption DEF AllRead
<1> QED
  BY <1>1 DEF Newest

LEMMA SeenNext ==
    ASSUME "row" \notin Faults, "list" \notin Faults, IsFiniteSet(Files),
           TypeOK, TypeOK', SeenInv, [Next]_vars
    PROVE  SeenInv'
<1> USE DEF recorder, scan
<1>1. ASSUME UNCHANGED <<rows, seen>>,
             (pc' = pc /\ cur' = cur) \/ (pc' \in {"walk", "row", "remove"} /\ pc # "idle")
      PROVE  SeenInv'
  BY <1>1 DEF SeenInv, AllRead
<1>2. ASSUME NEW f \in Files, Write(f) \/ Finish(f) \/ Age(f) PROVE SeenInv'
  BY <1>1, <1>2 DEF Write, Finish, Age
<1>3. CASE Scan
  <2>1. seen' \in Newest /\ UNCHANGED rows /\ pc' = "walk"
    BY <1>3 DEF Scan, Fails
  <2> QED
    BY <2>1, NewestAll DEF SeenInv, AllRead
<1>4. ASSUME NEW f \in Files, Visit(f) PROVE SeenInv'
  <2> DEFINE r == <<"local", f>>
  <2>1. r \in Row /\ \A g \in Files : <<"r2", g>> # r
    BY DEF Row
  <2>2. pc = "walk" /\ ((pc' = "put" /\ cur' = f /\ <<"r2", f>> \notin seen) \/ pc' = "walk")
    BY <1>4 DEF Visit, Uploaded
  <2>3. \/ UNCHANGED <<rows, seen>>
        \/ DOMAIN rows' = DOMAIN rows \cup {r} /\ seen' = seen \cup {r}
    BY <1>4, <2>1, Added DEF Visit
  <2>4. AllRead' => AllRead
    BY <2>3, MoreRows
  <2> HIDE DEF r
  <2> QED
    BY <2>1, <2>2, <2>3, <2>4 DEF SeenInv
<1>5. CASE Put
  BY <1>1, <1>5 DEF Put, GiveUp, NextFile
<1>6. CASE PutRow
  <2> DEFINE r == <<"r2", cur>>
  <2>1. r \in Row /\ pc = "row"
    BY <1>6 DEF PutRow, Row, TypeOK
  <2>2. DOMAIN rows' = DOMAIN rows \cup {r} /\ seen' = seen \cup {r}
    BY <1>6, <2>1, Added DEF PutRow
  <2>3. pc' \in {"walk", "remove"}
    BY <1>6 DEF PutRow, NextFile
  <2>4. AllRead' => AllRead
    BY <2>2, MoreRows
  <2> HIDE DEF r
  <2> QED
    BY <2>1, <2>2, <2>3, <2>4 DEF SeenInv
<1>7. CASE Delete
  BY <1>1, <1>7 DEF Delete, NextFile
<1>8. CASE ScanDone \/ Crash
  BY <1>8 DEF ScanDone, Crash, SeenInv
<1>9. CASE UNCHANGED vars
  BY <1>1, <1>9 DEF vars
<1> QED
  BY <1>2, <1>3, <1>4, <1>5, <1>6, <1>7, <1>8, <1>9 DEF Next, Steps

(* A copy that is listed is not made again, through failed uploads, failed *)
(* removals, pauses and crashes, as long as the table has no more rows     *)
(* than a scan reads, can be read and takes every row.                     *)
THEOREM UploadedOnceHolds ==
    ASSUME "row" \notin Faults, "list" \notin Faults, IsFiniteSet(Files)
    PROVE  Spec => UploadedOnce
<1>1. Init => SeenInv
  BY DEF Init, SeenInv
<1>2. TypeOK /\ TypeOK' /\ SeenInv /\ [Next]_vars => SeenInv'
  BY SeenNext
<1>3. SeenInv
        => (\A f \in Files :
              AllRead /\ pc = "put" /\ pc' = "row" /\ cur = f => <<"r2", f>> \notin DOMAIN rows)
  BY DEF SeenInv
<1> QED
  BY <1>1, <1>2, <1>3, UploaderTypeCorrect, PTL DEF Spec, UploadedOnce
=============================================================================
