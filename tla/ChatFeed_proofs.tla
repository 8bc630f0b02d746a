--------------------------- MODULE ChatFeed_proofs ---------------------------
(***************************************************************************)
(* Proofs about the chat feed, for any messages, readers, pages, sizes of  *)
(* queues and batches, and failures.                                       *)
(***************************************************************************)
EXTENDS FeedProperties, FiniteSetTheorems, SequenceTheorems, TLAPS

-----------------------------------------------------------------------------
(* What a query returns.                                                   *)

Rank(i, S) == Cardinality({j \in S : j <= i})

(* Ranks number the elements of a finite set in ascending order.           *)
LEMMA Ranks ==
    ASSUME NEW S \in SUBSET Nat, IsFiniteSet(S)
    PROVE  /\ Cardinality(S) \in Nat
           /\ \A i \in S : Rank(i, S) \in 1 .. Cardinality(S)
           /\ \A i, j \in S : i < j => Rank(i, S) < Rank(j, S)
           /\ \A n \in 1 .. Cardinality(S) : \E i \in S : Rank(i, S) = n
<1> DEFINE Upto(i) == {j \in S : j <= i}
           rank == [i \in S |-> Rank(i, S)]
           size == Cardinality(S)
<1>1. size \in Nat /\ \A i \in S : i \in Int
  BY FS_CardinalityType
<1>2. ASSUME NEW i \in S
      PROVE  /\ IsFiniteSet(Upto(i)) /\ Cardinality(Upto(i)) = Rank(i, S)
             /\ Rank(i, S) \in 1 .. size
  <2>1. Upto(i) \in SUBSET S /\ i \in Upto(i)
    OBVIOUS
  <2>2. IsFiniteSet(Upto(i)) /\ Cardinality(Upto(i)) <= size
    BY <2>1, FS_Subset
  <2>3. Cardinality(Upto(i)) \in Nat /\ Cardinality(Upto(i)) # 0
    BY <2>1, <2>2, FS_CardinalityType, FS_EmptySet
  <2>4. Cardinality(Upto(i)) = Rank(i, S)
    BY DEF Rank
  <2> QED
    BY <1>1, <2>2, <2>3, <2>4
<1>3. ASSUME NEW i \in S, NEW j \in S, i < j PROVE Rank(i, S) < Rank(j, S)
  <2>1. Upto(i) \in SUBSET Upto(j) /\ j \in Upto(j) /\ j \notin Upto(i)
    <3>1. i \in Int /\ j \in Int
      BY <1>1
    <3>2. ASSUME NEW k \in Upto(i) PROVE k \in Upto(j) /\ k # j
      <4>1. k \in S /\ k \in Int /\ k <= i
        BY <1>1
      <4> QED
        BY <1>3, <3>1, <4>1
    <3>3. j \in Upto(j)
      BY <3>1
    <3> HIDE DEF Upto
    <3> QED
      BY <3>2, <3>3
  <2>2. /\ Cardinality(Upto(i)) <= Cardinality(Upto(j))
        /\ Cardinality(Upto(i)) # Cardinality(Upto(j))
    BY <1>2, <2>1, FS_Subset
  <2> QED
    BY <1>1, <1>2, <2>2
<1>4. rank \in Injection(S, 1 .. size)
  <2>1. rank \in [S -> 1 .. size]
    BY <1>2
  <2>2. ASSUME NEW i \in S, NEW j \in S, rank[i] = rank[j] PROVE i = j
    <3>1. Rank(i, S) = Rank(j, S) /\ Rank(i, S) \in Int
      <4>1. Rank(i, S) = Rank(j, S)
        BY <2>2
      <4>2. Rank(i, S) \in 1 .. size
        BY <1>2
      <4> QED
        BY <1>1, <4>1, <4>2
    <3>2. ~(i < j) /\ ~(j < i)
      BY <1>3, <3>1
    <3> QED
      BY <1>1, <3>2
  <2> QED
    BY <2>1, <2>2 DEF Injection, IsInjective
<1>5. IsFiniteSet(1 .. size) /\ Cardinality(1 .. size) = size
  BY <1>1, FS_Interval
<1>6. rank \in Surjection(S, 1 .. size)
  BY <1>4, <1>5, FS_Injection
<1>7. \A n \in 1 .. size : \E i \in S : rank[i] = n
  BY <1>6 DEF Surjection
<1> QED
  BY <1>1, <1>2, <1>3, <1>7

(* A set of positions that has whatever comes before its elements is an    *)
(* initial segment.                                                        *)
LEMMA InitialSegment ==
    ASSUME NEW n \in Nat, NEW S \in SUBSET (1 .. n),
           \A i \in S, j \in 1 .. n : j < i => j \in S
    PROVE  Cardinality(S) \in 0 .. n /\ S = 1 .. Cardinality(S)
<1>1. IsFiniteSet(1 .. n) /\ Cardinality(1 .. n) = n
  BY FS_Interval
<1>2. IsFiniteSet(S) /\ Cardinality(S) \in 0 .. n
  <2>1. IsFiniteSet(S) /\ Cardinality(S) <= n
    BY <1>1, FS_Subset
  <2>2. Cardinality(S) \in Nat
    BY <2>1, FS_CardinalityType
  <2> QED
    BY <2>1, <2>2
<1>3. ASSUME NEW i \in S PROVE i <= Cardinality(S)
  <2>1. 1 .. i \in SUBSET S
    OBVIOUS
  <2>2. Cardinality(1 .. i) = i
    BY FS_Interval
  <2> QED
    BY <1>2, <2>1, <2>2, FS_Subset
<1>4. S \in SUBSET (1 .. Cardinality(S))
  BY <1>2, <1>3
<1>5. IsFiniteSet(1 .. Cardinality(S)) /\ Cardinality(1 .. Cardinality(S)) = Cardinality(S)
  BY <1>2, FS_Interval
<1> QED
  BY <1>2, <1>4, <1>5, FS_Subset

Ascending(list) == \A j, k \in DOMAIN list : j < k => list[j].id < list[k].id

Table == [msg : Messages, sess : Sessions]

LEMMA RowsFinite ==
    ASSUME chat \in Seq(Table), NEW s, NEW after
    PROVE  RowsAfter(s, after) \in SUBSET Nat /\ IsFiniteSet(RowsAfter(s, after))
<1>1. DOMAIN chat = 1 .. Len(chat) /\ Len(chat) \in Nat
  OBVIOUS
<1>2. IsFiniteSet(1 .. Len(chat))
  BY <1>1, FS_Interval
<1>3. RowsAfter(s, after) \in SUBSET (1 .. Len(chat))
  BY <1>1 DEF RowsAfter
<1> QED
  BY <1>1, <1>2, <1>3, FS_Subset

(* A query returns rows that were asked for, oldest first and none of them *)
(* left out in between, and is empty only if there are none.               *)
LEMMA ListFacts ==
    ASSUME chat \in Seq(Table), Batch \in Nat \ {0}, NEW s, NEW after, NEW list,
           list = ListChat(s, after)
    PROVE  /\ list \in Seq(Entry)
           /\ Ascending(list)
           /\ \A k \in DOMAIN list : /\ list[k].id \in RowsAfter(s, after)
                                     /\ list[k].msg = chat[list[k].id].msg
           /\ list = <<>> <=> RowsAfter(s, after) = {}
           /\ list # <<>> => \A i \in RowsAfter(s, after) :
                i <= list[Len(list)].id => \E k \in DOMAIN list : list[k].id = i
<1> DEFINE rows == RowsAfter(s, after)
           size == Cardinality(rows)
           Nth(n) == CHOOSE i \in rows : Cardinality({j \in rows : j <= i}) = n
           len == IF size < Batch THEN size ELSE Batch
<1>1. rows \in SUBSET Nat /\ IsFiniteSet(rows) /\ \A i \in rows : i \in Int
  BY RowsFinite
<1>2. size \in Nat /\ len \in Nat /\ len <= size /\ (len = 0 <=> size = 0)
  BY <1>1, FS_CardinalityType
<1>3. list = [n \in 1 .. len |-> [id |-> Nth(n), msg |-> chat[Nth(n)].msg]]
  BY DEF ListChat
<1>4. ASSUME NEW n \in 1 .. len PROVE Nth(n) \in rows /\ Rank(Nth(n), rows) = n
  <2>1. \E i \in rows : Rank(i, rows) = n
    BY <1>1, <1>2, Ranks
  <2> QED
    BY <2>1 DEF Rank
<1> HIDE DEF Nth
<1>5. \A i \in rows : i \in DOMAIN chat /\ chat[i].msg \in Messages /\ i \in Nat
  <2>1. \A i \in DOMAIN chat : chat[i] \in Table
    OBVIOUS
  <2>2. \A r \in Table : r.msg \in Messages
    BY DEF Table
  <2> QED
    BY <1>1, <2>1, <2>2 DEF RowsAfter
<1>6. \A n \in 1 .. len : [id |-> Nth(n), msg |-> chat[Nth(n)].msg] \in Entry
  BY <1>4, <1>5 DEF Entry
<1> HIDE DEF rows, size, len
<1>7. list \in Seq(Entry) /\ Len(list) = len /\ DOMAIN list = 1 .. len
  BY <1>2, <1>3, <1>6
<1>8. \A k \in 1 .. len : list[k].id = Nth(k) /\ list[k].msg = chat[Nth(k)].msg
  BY <1>3
<1>9. /\ size = Cardinality(rows)
      /\ \A i \in rows : Rank(i, rows) \in 1 .. size
      /\ \A i, j \in rows : i < j => Rank(i, rows) < Rank(j, rows)
  BY <1>1, Ranks DEF size
<1>10. \A i, j \in rows : Rank(i, rows) < Rank(j, rows) => i < j
  BY <1>1, <1>2, <1>9
<1>11. \A i, j \in rows : Rank(i, rows) = Rank(j, rows) => i = j
  BY <1>1, <1>2, <1>9
<1>12. Ascending(list)
  BY <1>2, <1>4, <1>7, <1>8, <1>10 DEF Ascending
<1>13. rows = {} <=> size = 0
  BY <1>1, <1>9, FS_EmptySet
<1>14. ASSUME list # <<>>, NEW i \in rows, i <= list[Len(list)].id
       PROVE  \E k \in DOMAIN list : list[k].id = i
  <2>1. len \in 1 .. len /\ i <= Nth(len)
    BY <1>2, <1>7, <1>8, <1>14
  <2>2. Rank(i, rows) \in 1 .. len
    <3>1. i = Nth(len) \/ i < Nth(len)
      <4>1. i \in Int /\ Nth(len) \in Int
        BY <1>1, <1>4, <2>1
      <4> QED
        BY <2>1, <4>1
    <3>2. Rank(i, rows) = len \/ Rank(i, rows) < len
      BY <1>4, <1>9, <2>1, <3>1
    <3> QED
      BY <1>2, <1>9, <3>2
  <2>3. Nth(Rank(i, rows)) = i
    BY <1>4, <1>11, <2>2
  <2> QED
    BY <1>7, <1>8, <2>2, <2>3
<1> QED
  BY <1>2, <1>4, <1>7, <1>8, <1>12, <1>13, <1>14 DEF rows

-----------------------------------------------------------------------------
(* What showing a list does to a page.                                     *)

PageStates == [open : BOOLEAN, mark : Nat, shown : Seq(Entry)]

(* A page shows its entries in order, and its mark is past all of them.    *)
Tidy(p) == Ascending(p.shown) /\ \A k \in DOMAIN p.shown : p.shown[k].id <= p.mark

(* What q shows beyond what p shows is from the list. *)
Added(p, q, list) ==
    \A k \in 1 .. Len(q.shown) : k > Len(p.shown) => \E j \in DOMAIN list : q.shown[k] = list[j]

(* What a page shows stays, and what comes after it is from the list; a    *)
(* page in order stays so, if the list is in order.                        *)
LEMMA AppendFacts ==
    ASSUME NEW p \in PageStates, NEW list \in Seq(Entry), NEW q, q = AppendChat(p, list)
    PROVE  /\ q \in PageStates /\ q.open = p.open
           /\ Len(p.shown) <= Len(q.shown)
           /\ \A k \in 1 .. Len(p.shown) : q.shown[k] = p.shown[k]
           /\ Added(p, q, list)
           /\ SubSeq(q.shown, 1, Len(p.shown)) = p.shown
           /\ Tidy(p) /\ Ascending(list) => Tidy(q)
<1> DEFINE seen == {k \in DOMAIN list : ~Unseen(list[k], p.mark)}
           from == Cardinality(seen)
           new == SubSeq(list, from + 1, Len(list))
<1>1. /\ Len(list) \in Nat /\ DOMAIN list = 1 .. Len(list)
      /\ \A k \in 1 .. Len(list) : list[k] \in Entry
      /\ p.shown \in Seq(Entry) /\ p.open \in BOOLEAN /\ p.mark \in Nat
      /\ Len(p.shown) \in Nat /\ DOMAIN p.shown = 1 .. Len(p.shown)
  BY DEF PageStates
<1>2. from \in Nat /\ from \in 0 .. Len(list)
  <2>1. IsFiniteSet(1 .. Len(list)) /\ Cardinality(1 .. Len(list)) = Len(list)
    <3>1. \A n \in Nat : IsFiniteSet(1 .. n) /\ Cardinality(1 .. n) = n
      BY FS_Interval
    <3> QED
      BY <1>1, <3>1
  <2>2. seen \in SUBSET (1 .. Len(list))
    BY <1>1
  <2>3. IsFiniteSet(seen) /\ from <= Len(list)
    BY <2>1, <2>2, FS_Subset
  <2> QED
    BY <1>1, <2>3, FS_CardinalityType
<1>3. /\ new \in Seq(Entry)
      /\ Len(new) = Len(list) - from
      /\ \A k \in 1 .. Len(list) - from : new[k] = list[from + k]
  <2>1. \A k \in from + 1 .. Len(list) : list[k] \in Entry
    BY <1>1, <1>2
  <2>2. from + 1 \in Int /\ Len(list) \in Int
    BY <1>1, <1>2
  <2> HIDE DEF from
  <2>3. /\ new \in Seq(Entry)
        /\ Len(new) = IF from + 1 <= Len(list) THEN Len(list) - (from + 1) + 1 ELSE 0
        /\ \A k \in 1 .. Len(list) - (from + 1) + 1 : new[k] = list[from + 1 + k - 1]
    BY <2>1, <2>2, SubSeqProperties
  <2> HIDE DEF new
  <2>4. Len(new) = Len(list) - from
    <3>1. \A n \in Nat : \A m \in 0 .. n :
            (IF m + 1 <= n THEN n - (m + 1) + 1 ELSE 0) = n - m
      OBVIOUS
    <3> QED
      BY <1>1, <1>2, <2>3, <3>1
  <2>5. ASSUME NEW k \in 1 .. Len(list) - from PROVE new[k] = list[from + k]
    <3>1. k \in 1 .. Len(list) - (from + 1) + 1 /\ from + 1 + k - 1 = from + k
      BY <1>1, <1>2
    <3> QED
      BY <2>3, <3>1
  <2> QED
    BY <2>3, <2>4, <2>5
<1>4. q = [p EXCEPT !.shown = p.shown \o new,
                    !.mark = IF new = <<>> THEN p.mark ELSE Last(new).id]
  BY DEF AppendChat
<1> HIDE DEF new, from, seen
<1>5. /\ q.open = p.open /\ q.shown = p.shown \o new
      /\ q.mark = IF new = <<>> THEN p.mark ELSE Last(new).id
  BY <1>4 DEF PageStates
<1>6. new # <<>> => Len(new) \in 1 .. Len(new) /\ Last(new) = new[Len(new)]
  BY <1>3 DEF Last
<1>7. q.mark \in Nat
  <2>1. CASE new = <<>>
    BY <1>1, <1>5, <2>1
  <2>2. CASE new # <<>>
    <3>1. new[Len(new)] \in Entry
      BY <1>3, <1>6, <2>2
    <3> QED
      BY <1>5, <1>6, <2>2, <3>1 DEF Entry
  <2> QED
    BY <2>1, <2>2
<1>8. q \in PageStates
  <2>1. p.shown \o new \in Seq(Entry)
    BY <1>1, <1>3, ConcatProperties
  <2> QED
    BY <1>1, <1>4, <1>5, <1>7, <2>1 DEF PageStates
<1>9. /\ Len(q.shown) = Len(p.shown) + Len(new) /\ Len(new) \in Nat
      /\ \A k \in 1 .. Len(p.shown) + Len(new) :
            q.shown[k] = IF k <= Len(p.shown) THEN p.shown[k] ELSE new[k - Len(p.shown)]
  <2> DEFINE shown == p.shown
  <2>1. shown \in Seq(Entry) /\ new \in Seq(Entry) /\ q.shown = shown \o new
    BY <1>1, <1>3, <1>5
  <2> HIDE DEF shown
  <2>2. /\ Len(q.shown) = Len(shown) + Len(new) /\ Len(new) \in Nat
        /\ \A k \in 1 .. Len(shown) + Len(new) :
            q.shown[k] = IF k <= Len(shown) THEN shown[k] ELSE new[k - Len(shown)]
    BY <2>1, ConcatProperties, LenProperties
  <2> QED
    BY <2>2 DEF shown
<1>10. \A k \in 1 .. Len(p.shown) : q.shown[k] = p.shown[k]
  BY <1>1, <1>9
<1>11. ASSUME NEW k \in 1 .. Len(q.shown), k > Len(p.shown)
       PROVE  /\ k - Len(p.shown) \in 1 .. Len(new)
              /\ from + (k - Len(p.shown)) \in 1 .. Len(list)
              /\ q.shown[k] = new[k - Len(p.shown)]
              /\ q.shown[k] = list[from + (k - Len(p.shown))]
  <2> DEFINE d == k - Len(p.shown)
  <2>1. d \in 1 .. Len(new) /\ q.shown[k] = new[d]
    <3>1. \A m, n \in Nat : \A i \in 1 .. m + n :
            i > m => i - m \in 1 .. n /\ ~(i <= m)
      OBVIOUS
    <3>2. k \in 1 .. Len(p.shown) + Len(new)
      BY <1>9
    <3>3. d \in 1 .. Len(new) /\ ~(k <= Len(p.shown))
      BY <1>1, <1>9, <1>11, <3>1, <3>2
    <3> QED
      BY <1>9, <3>2, <3>3
  <2>2. d \in 1 .. Len(list) - from /\ from + d \in 1 .. Len(list)
    BY <1>1, <1>2, <1>3, <2>1
  <2> QED
    BY <1>3, <2>1, <2>2
<1>12. SubSeq(q.shown, 1, Len(p.shown)) = p.shown
  <2> DEFINE start == SubSeq(q.shown, 1, Len(p.shown))
  <2>1. \A k \in 1 .. Len(p.shown) : q.shown[k] \in Entry
    BY <1>1, <1>10
  <2>2. /\ start \in Seq(Entry)
        /\ Len(start) = IF 1 <= Len(p.shown) THEN Len(p.shown) - 1 + 1 ELSE 0
        /\ \A k \in 1 .. Len(p.shown) - 1 + 1 : start[k] = q.shown[1 + k - 1]
    BY <1>1, <2>1, SubSeqProperties
  <2>3. Len(start) = Len(p.shown) /\ \A k \in 1 .. Len(p.shown) : start[k] = p.shown[k]
    BY <1>1, <1>10, <2>2
  <2> QED
    BY <1>1, <2>2, <2>3, SeqEqual
<1>13. ASSUME Tidy(p), Ascending(list) PROVE Tidy(q)
  <2>1. /\ seen = 1 .. from
        /\ \A k \in 1 .. Len(list) : k > from => list[k].id > p.mark
    <3> USE DEF seen, from
    <3>1. \A k \in 1 .. Len(list) : list[k].id \in Nat
      BY <1>1 DEF Entry
    <3>2. seen \in SUBSET (1 .. Len(list))
      BY <1>1
    <3>3. \A i \in seen, j \in 1 .. Len(list) : j < i => j \in seen
      BY <1>1, <1>13, <3>1 DEF Ascending, Unseen
    <3>4. seen = 1 .. from
      BY <1>1, <3>2, <3>3, InitialSegment
    <3>5. \A k \in 1 .. Len(list) : k \notin seen => list[k].id > p.mark
      BY <1>1 DEF Unseen
    <3> HIDE DEF seen, from
    <3>6. \A k \in 1 .. Len(list) : k > from => k \notin seen
      BY <1>2, <3>4
    <3> QED
      BY <3>4, <3>5, <3>6
  <2>2. DOMAIN q.shown = 1 .. Len(q.shown)
    BY <1>8 DEF PageStates
  <2>3. \A k \in 1 .. Len(q.shown) : q.shown[k].id \in Nat
    <3>1. q.shown \in Seq(Entry)
      BY <1>8 DEF PageStates
    <3>2. \A k \in 1 .. Len(q.shown) : q.shown[k] \in Entry
      BY <3>1
    <3> QED
      BY <3>2 DEF Entry
  <2>4. Ascending(q.shown)
    <3> SUFFICES ASSUME NEW j \in 1 .. Len(q.shown), NEW k \in 1 .. Len(q.shown), j < k
                 PROVE  q.shown[j].id < q.shown[k].id
      BY <2>2 DEF Ascending
    <3>1. CASE k <= Len(p.shown)
      <4>1. j \in DOMAIN p.shown /\ k \in DOMAIN p.shown
        BY <1>1, <3>1
      <4> QED
        BY <1>1, <1>10, <1>13, <4>1 DEF Ascending, Tidy
    <3>2. CASE j <= Len(p.shown) /\ k > Len(p.shown)
      <4>1. j \in DOMAIN p.shown /\ q.shown[j] = p.shown[j] /\ q.shown[j].id <= p.mark
        BY <1>1, <1>10, <1>13, <3>2 DEF Tidy
      <4>2. q.shown[k].id > p.mark
        <5>1. /\ from + (k - Len(p.shown)) \in 1 .. Len(list)
              /\ from + (k - Len(p.shown)) > from
              /\ q.shown[k] = list[from + (k - Len(p.shown))]
          <6>1. \A m \in Nat : \A n \in 1 .. Len(new) : m + n > m
            BY <1>3
          <6>2. from \in Nat /\ k - Len(p.shown) \in 1 .. Len(new)
            BY <1>1, <1>2, <1>11, <3>2
          <6> QED
            BY <1>11, <3>2, <6>1, <6>2
        <5> QED
          BY <2>1, <5>1
      <4> QED
        BY <1>1, <2>3, <4>1, <4>2
    <3>3. CASE j > Len(p.shown) /\ k > Len(p.shown)
      <4>1. /\ from + (j - Len(p.shown)) \in DOMAIN list
            /\ from + (k - Len(p.shown)) \in DOMAIN list
            /\ q.shown[j] = list[from + (j - Len(p.shown))]
            /\ q.shown[k] = list[from + (k - Len(p.shown))]
        BY <1>1, <1>11, <3>3
      <4>2. from + (j - Len(p.shown)) < from + (k - Len(p.shown))
        <5>1. from \in Int /\ Len(p.shown) \in Int /\ j \in Int /\ k \in Int
          BY <1>1, <1>2
        <5>2. \A a, b, c, d \in Int : c < d => a + (c - b) < a + (d - b)
          OBVIOUS
        <5> QED
          BY <5>1, <5>2
      <4> QED
        BY <1>13, <4>1, <4>2 DEF Ascending
    <3>4. k <= Len(p.shown) \/ (j <= Len(p.shown) /\ k > Len(p.shown))
            \/ (j > Len(p.shown) /\ k > Len(p.shown))
      BY <1>1, <1>9
    <3> QED
      BY <3>1, <3>2, <3>3, <3>4
  <2>5. ASSUME NEW k \in 1 .. Len(q.shown) PROVE q.shown[k].id <= q.mark
    <3>1. CASE new = <<>>
      <4>1. k \in DOMAIN p.shown /\ q.shown[k] = p.shown[k] /\ q.mark = p.mark
        BY <1>1, <1>5, <1>9, <1>10, <3>1
      <4> QED
        BY <1>13, <4>1 DEF Tidy
    <3>2. CASE new # <<>>
      <4>1. /\ Len(q.shown) \in 1 .. Len(q.shown)
            /\ q.mark = q.shown[Len(q.shown)].id
        <5>1. /\ Len(q.shown) > Len(p.shown) /\ Len(q.shown) \in 1 .. Len(q.shown)
              /\ Len(q.shown) - Len(p.shown) = Len(new)
          BY <1>1, <1>6, <1>9, <3>2
        <5>2. q.shown[Len(q.shown)] = new[Len(new)]
          BY <1>11, <5>1
        <5> QED
          BY <1>5, <1>6, <3>2, <5>1, <5>2
      <4>2. k = Len(q.shown) \/ k < Len(q.shown)
        BY <1>1, <1>9
      <4>3. q.shown[k].id = q.mark \/ q.shown[k].id < q.mark
        BY <2>2, <2>4, <4>1, <4>2 DEF Ascending
      <4> QED
        BY <1>7, <2>3, <4>3
    <3> QED
      BY <3>1, <3>2
  <2> QED
    BY <2>2, <2>4, <2>5 DEF Tidy
<1>14. Added(p, q, list)
  BY <1>1, <1>11 DEF Added
<1>15. Len(p.shown) <= Len(q.shown)
  BY <1>1, <1>9
<1> QED
  BY <1>5, <1>8, <1>10, <1>12, <1>13, <1>14, <1>15

-----------------------------------------------------------------------------
(* Types.                                                                  *)

Posted == [entry : Entry, sess : Sessions]

LEMMA ReaderCases ==
    ASSUME NEW x \in ReaderStates
    PROVE  /\ x.pc \in {"check", "store"} =>
                /\ x.msg \in Messages /\ x.sess \in Sessions
                /\ x = [pc |-> x.pc, msg |-> x.msg, sess |-> x.sess]
           /\ x.pc = "publish" =>
                /\ x.msg \in Messages /\ x.sess \in Sessions /\ x.id \in Nat
                /\ x = [pc |-> "publish", msg |-> x.msg, sess |-> x.sess, id |-> x.id]
           /\ x.pc \in {"off", "idle", "check", "store", "publish"}
BY DEF ReaderStates, NoReader, Waiting

LEMMA AsReader ==
    ASSUME NEW m \in Messages, NEW s \in Sessions
    PROVE  /\ NoReader \in ReaderStates /\ Waiting \in ReaderStates
           /\ [pc |-> "check", msg |-> m, sess |-> s] \in ReaderStates
           /\ [pc |-> "store", msg |-> m, sess |-> s] \in ReaderStates
           /\ \A id \in Nat : [pc |-> "publish", msg |-> m, sess |-> s, id |-> id] \in ReaderStates
BY DEF ReaderStates

LEMMA PullCases ==
    ASSUME NEW x \in PollStates
    PROVE  /\ x.pc = "asked" => x \in [pc : {"asked"}, after : Nat] /\ x.after \in Nat
           /\ x.pc = "answered" => x \in [pc : {"answered"}, list : Seq(Entry)] /\ x.list \in Seq(Entry)
           /\ x.pc \in {"none", "asked", "answered"}
           /\ x.pc = "none" <=> x = NoPull
BY DEF PollStates, NoPull

ExportStates == [pc : {"reading", "done"}, sess : Sessions, after : Nat, got : Seq(Nat), upto : Nat]

LEMMA ExportCases ==
    ASSUME NEW x, x = NoExport \/ x \in ExportStates, x.pc \in {"reading", "done"}
    PROVE  x \in ExportStates
BY DEF NoExport

(* The types again, under the names used here. *)
LEMMA Types ==
    TypeOK <=>
        /\ inbox \in Seq(Messages) /\ Len(inbox) <= Inbox
        /\ acked \subseteq Messages
        /\ roots \subseteq {m.thread : m \in Messages}
        /\ reader \in [Readers -> ReaderStates]
        /\ chat \in Seq(Table) /\ lastInsert \in Nat
        /\ sub \in [Pages -> [on : BOOLEAN, queue : Seq(Posted)]]
        /\ \A g \in Pages : Len(sub[g].queue) <= Cap
        /\ page \in [Pages -> PageStates]
        /\ pull \in [Pages -> [Polls -> PollStates]]
        /\ export = NoExport \/ export \in ExportStates
BY DEF TypeOK, Table, Posted, PageStates, ExportStates

LEMMA InitType == Init => TypeOK
<1> SUFFICES ASSUME Init PROVE TypeOK
  OBVIOUS
<1>1. inbox \in Seq(Messages) /\ Len(inbox) <= Inbox /\ chat \in Seq(Table)
  BY BoundsAssumption DEF Init
<1>2. reader \in [Readers -> ReaderStates]
  BY DEF Init, ReaderStates
<1>3. /\ sub \in [Pages -> [on : BOOLEAN, queue : Seq(Posted)]]
      /\ \A g \in Pages : Len(sub[g].queue) <= Cap
  BY BoundsAssumption DEF Init, Unsubscribed
<1>4. page \in [Pages -> PageStates]
  BY DEF Init, Closed, PageStates
<1>5. pull \in [Pages -> [Polls -> PollStates]]
  BY DEF Init, PollStates, NoPulls
<1> QED
  BY <1>1, <1>2, <1>3, <1>4, <1>5, Types DEF Init

(* The readers' side. *)
LEMMA TypeReaders ==
    ASSUME TypeOK, \/ \E m \in Messages : Deliver(m)
                   \/ \E r \in Readers : Run(r) \/ Receive(r) \/ Check(r) \/ Store(r)
    PROVE  TypeOK'
<1> USE DEF slack, tables, pages
<1>1. ASSUME NEW m \in Messages, Deliver(m) PROVE TypeOK'
  <2>1. inbox' \in Seq(Messages) /\ Len(inbox') <= Inbox
    BY <1>1, BoundsAssumption, AppendProperties DEF TypeOK, Deliver
  <2> QED
    BY <1>1, <2>1 DEF TypeOK, Deliver
<1>2. ASSUME NEW r \in Readers, Run(r) PROVE TypeOK'
  <2>1. reader' \in [Readers -> ReaderStates]
    BY <1>2 DEF TypeOK, Run, ReaderStates
  <2> QED
    BY <1>2, <2>1 DEF TypeOK, Run
<1>3. ASSUME NEW r \in Readers, Receive(r) PROVE TypeOK'
  <2> DEFINE m == Head(inbox)
  <2>1. m \in Messages /\ inbox' \in Seq(Messages) /\ Len(inbox') <= Inbox
    <3>1. inbox \in Seq(Messages) /\ inbox # <<>> /\ inbox' = Tail(inbox) /\ Len(inbox) <= Inbox
      BY <1>3 DEF TypeOK, Receive
    <3>2. Len(inbox') = Len(inbox) - 1 /\ Len(inbox) \in Nat
      BY <3>1, HeadTailProperties
    <3> QED
      BY <3>1, <3>2, HeadTailProperties, BoundsAssumption
  <2>2. acked' \subseteq Messages /\ roots' \subseteq {x.thread : x \in Messages}
    BY <1>3, <2>1 DEF TypeOK, Receive
  <2>3. reader' \in [Readers -> ReaderStates]
    <3>1. CASE UNCHANGED reader
      BY <3>1 DEF TypeOK
    <3>2. CASE reader' # reader
      <4>1. PICK s \in SessionsOf[m.chan] :
               reader' = [reader EXCEPT ![r] = [pc |-> "check", msg |-> m, sess |-> s]]
        BY <1>3, <3>2 DEF Receive
      <4>2. s \in Sessions
        BY <2>1, <4>1, SessionsAssumption
      <4>3. [pc |-> "check", msg |-> m, sess |-> s] \in ReaderStates
        BY <2>1, <4>2, AsReader
      <4> QED
        BY <4>1, <4>3 DEF TypeOK
    <3> QED
      BY <3>1, <3>2
  <2> QED
    BY <1>3, <2>1, <2>2, <2>3 DEF TypeOK, Receive
<1>4. ASSUME NEW r \in Readers, Check(r) PROVE TypeOK'
  <2>1. /\ reader[r].msg \in Messages /\ reader[r].sess \in Sessions
        /\ reader[r] = [pc |-> "check", msg |-> reader[r].msg, sess |-> reader[r].sess]
    BY <1>4, ReaderCases DEF TypeOK, Check
  <2>2. [reader[r] EXCEPT !.pc = "store"] = [pc |-> "store", msg |-> reader[r].msg, sess |-> reader[r].sess]
    BY <2>1
  <2>3. [reader[r] EXCEPT !.pc = "store"] \in ReaderStates /\ Waiting \in ReaderStates
    BY <2>1, <2>2, AsReader
  <2>4. reader' \in [Readers -> ReaderStates]
    BY <1>4, <2>3 DEF TypeOK, Check
  <2>5. roots' \subseteq {x.thread : x \in Messages}
    BY <1>4, <2>1 DEF TypeOK, Check
  <2> QED
    BY <1>4, <2>4, <2>5 DEF TypeOK, Check
<1>5. ASSUME NEW r \in Readers, Store(r) PROVE TypeOK'
  <2> DEFINE row == [msg |-> reader[r].msg, sess |-> reader[r].sess]
  <2>1. /\ reader[r].msg \in Messages /\ reader[r].sess \in Sessions
        /\ chat \in Seq(Table) /\ row \in Table
    BY <1>5, ReaderCases, Types DEF Store, Table
  <2>2. /\ chat' \in Seq(Table) /\ lastInsert' \in Nat
        /\ reader' \in [Readers -> ReaderStates]
    <3>1. /\ \A id \in Nat : [pc |-> "publish", msg |-> reader[r].msg,
                              sess |-> reader[r].sess, id |-> id] \in ReaderStates
          /\ Waiting \in ReaderStates
      BY <2>1, AsReader
    <3>2. Append(chat, row) \in Seq(Table) /\ Len(Append(chat, row)) \in Nat
      BY <2>1, AppendProperties
    <3>3. lastInsert \in Nat /\ reader \in [Readers -> ReaderStates]
      BY DEF TypeOK
    <3>4. CASE ~Stored(reader[r].msg) /\ chat' = Append(chat, row) /\ lastInsert' = Len(chat')
                 /\ reader' = [reader EXCEPT ![r] = [pc |-> "publish", msg |-> reader[r].msg,
                                 sess |-> reader[r].sess, id |-> Len(chat')]]
      BY <3>1, <3>2, <3>3, <3>4
    <3>5. CASE UNCHANGED tables /\ reader' = [reader EXCEPT ![r] = [pc |-> "publish",
                 msg |-> reader[r].msg, sess |-> reader[r].sess, id |-> lastInsert]]
      BY <2>1, <3>1, <3>3, <3>5
    <3>6. CASE UNCHANGED tables /\ reader' = [reader EXCEPT ![r] = Waiting]
      BY <2>1, <3>1, <3>3, <3>6
    <3> QED
      BY <1>5, <3>4, <3>5, <3>6 DEF Store
  <2> QED
    BY <1>5, <2>2 DEF TypeOK, Store, Table
<1> QED
  BY <1>1, <1>2, <1>3, <1>4, <1>5

(* The subscriptions, the pages and the polls. *)
LEMMA TypePages ==
    ASSUME TypeOK, \/ \E r \in Readers : Publish(r)
                   \/ \E g \in Pages :
                        \/ Load(g) \/ Close(g) \/ Subscribe(g) \/ Disconnect(g) \/ Event(g)
                        \/ \E k \in Polls : \/ PullAsk(g, k) \/ PullAnswer(g, k)
                                           \/ PullFail(g, k) \/ PullShow(g, k)
    PROVE  TypeOK'
<1> USE DEF slack, tables, pages
<1> DEFINE Subs == [on : BOOLEAN, queue : Seq(Posted)]
<1>1. ASSUME NEW r \in Readers, Publish(r) PROVE TypeOK'
  <2> DEFINE e == [entry |-> [id |-> reader[r].id, msg |-> reader[r].msg], sess |-> reader[r].sess]
  <2>1. e \in Posted
    BY <1>1, ReaderCases DEF TypeOK, Publish, Posted, Entry
  <2>2. reader' \in [Readers -> ReaderStates]
    BY <1>1 DEF TypeOK, Publish, ReaderStates
  <2>3. ASSUME NEW g \in Pages PROVE sub'[g] \in Subs /\ Len(sub'[g].queue) <= Cap
    <3>1. sub[g] \in Subs /\ sub[g].queue \in Seq(Posted) /\ Len(sub[g].queue) <= Cap
      BY Types
    <3>2. CASE sub[g].on /\ HasRoom(sub[g].queue)
      <4> HIDE DEF e
      <4>1. sub'[g] = [sub[g] EXCEPT !.queue = Append(sub[g].queue, e)]
        BY <1>1, <3>2 DEF Publish, e
      <4>2. /\ Append(sub[g].queue, e) \in Seq(Posted)
            /\ Len(Append(sub[g].queue, e)) = Len(sub[g].queue) + 1
        BY <2>1, <3>1, AppendProperties
      <4>3. Len(sub[g].queue) + 1 <= Cap
        BY <3>1, <3>2, BoundsAssumption, LenProperties DEF HasRoom
      <4> QED
        BY <3>1, <4>1, <4>2, <4>3
    <3>3. CASE ~(sub[g].on /\ HasRoom(sub[g].queue))
      BY <1>1, <3>1, <3>3 DEF Publish
    <3> QED
      BY <3>2, <3>3
  <2>4. sub' \in [Pages -> Subs]
    BY <1>1, <2>3 DEF Publish
  <2> QED
    BY <1>1, <2>2, <2>3, <2>4 DEF TypeOK, Publish, Posted
<1>2. ASSUME NEW g \in Pages, page' \in [Pages -> PageStates],
             UNCHANGED <<slack, tables, export>>,
             UNCHANGED sub \/ (sub' \in [Pages -> Subs] /\ \A h \in Pages : Len(sub'[h].queue) <= Cap),
             pull' \in [Pages -> [Polls -> PollStates]]
      PROVE  TypeOK'
  <2>1. /\ sub' \in [Pages -> Subs]
        /\ \A h \in Pages : Len(sub'[h].queue) <= Cap
    BY <1>2 DEF TypeOK, Posted
  <2>2. /\ page' \in [Pages -> [open : BOOLEAN, mark : Nat, shown : Seq(Entry)]]
    BY <1>2 DEF PageStates
  <2> QED
    BY <1>2, <2>1, <2>2 DEF TypeOK, Posted
<1>3. /\ sub \in [Pages -> Subs] /\ \A h \in Pages : Len(sub[h].queue) <= Cap
      /\ page \in [Pages -> PageStates] /\ pull \in [Pages -> [Polls -> PollStates]]
      /\ chat \in Seq(Table) /\ Cap \in Nat /\ Batch \in Nat \ {0}
  BY Types, BoundsAssumption
<1> HIDE DEF Subs
<1>4. Unsubscribed \in Subs /\ Len(Unsubscribed.queue) <= Cap /\ NoPulls \in [Polls -> PollStates]
        /\ [on |-> TRUE, queue |-> <<>>] \in Subs /\ Closed \in PageStates
        /\ [Closed EXCEPT !.open = TRUE] \in PageStates
  <2>1. Closed = [open |-> FALSE, mark |-> 0, shown |-> <<>>] /\ <<>> \in Seq(Entry)
    BY DEF Closed
  <2>2. Closed \in PageStates /\ [Closed EXCEPT !.open = TRUE] \in PageStates
    BY <2>1 DEF PageStates
  <2>3. <<>> \in Seq(Posted) /\ Len(<<>>) = 0
    OBVIOUS
  <2> QED
    BY <1>3, <2>2, <2>3 DEF Unsubscribed, Subs, PollStates, NoPulls
<1>5. ASSUME NEW g \in Pages, Load(g) PROVE TypeOK'
  <2>1. PICK list \in {ListChat(PageOf[g], 0), <<>>} :
           page' = [page EXCEPT ![g] = AppendChat([Closed EXCEPT !.open = TRUE], list)]
    BY <1>5 DEF Load
  <2>2. list \in Seq(Entry)
    <3>1. ListChat(PageOf[g], 0) \in Seq(Entry)
      BY <1>3, ListFacts
    <3>2. <<>> \in Seq(Entry)
      OBVIOUS
    <3> QED
      BY <2>1, <3>1, <3>2
  <2>3. AppendChat([Closed EXCEPT !.open = TRUE], list) \in PageStates
    BY <1>4, <2>2, AppendFacts
  <2> QED
    BY <1>2, <1>3, <1>5, <2>1, <2>3 DEF Load
<1>6. ASSUME NEW g \in Pages, Close(g) PROVE TypeOK'
  <2>1. sub' \in [Pages -> Subs] /\ \A h \in Pages : Len(sub'[h].queue) <= Cap
    BY <1>3, <1>4, <1>6 DEF Close
  <2>2. page' \in [Pages -> PageStates]
    BY <1>3, <1>4, <1>6 DEF Close
  <2>3. pull' \in [Pages -> [Polls -> PollStates]]
    BY <1>3, <1>4, <1>6 DEF Close
  <2> QED
    BY <1>2, <1>6, <2>1, <2>2, <2>3 DEF Close
<1>7. ASSUME NEW g \in Pages, Subscribe(g) \/ Disconnect(g) PROVE TypeOK'
  <2>1. sub' \in [Pages -> Subs] /\ \A h \in Pages : Len(sub'[h].queue) <= Cap
    <3>1. [on |-> TRUE, queue |-> <<>>].queue = <<>> /\ Len(<<>>) <= Cap
      BY <1>3
    <3>2. PICK x \in {Unsubscribed, [on |-> TRUE, queue |-> <<>>]} : sub' = [sub EXCEPT ![g] = x]
      BY <1>7 DEF Subscribe, Disconnect
    <3>3. x \in Subs /\ Len(x.queue) <= Cap
      BY <1>4, <3>1, <3>2
    <3> QED
      BY <1>3, <3>2, <3>3
  <2> QED
    BY <1>2, <1>3, <1>7, <2>1 DEF Subscribe, Disconnect
<1>8. ASSUME NEW g \in Pages, Event(g) PROVE TypeOK'
  <2> DEFINE q == sub[g].queue
  <2>1. q \in Seq(Posted) /\ q # <<>> /\ Len(q) <= Cap
    BY <1>3, <1>8 DEF Event, Subs
  <2>2. Head(q) \in Posted /\ Tail(q) \in Seq(Posted) /\ Len(Tail(q)) <= Cap
    BY <1>3, <2>1, HeadTailProperties, LenProperties
  <2>3. sub' \in [Pages -> Subs] /\ \A h \in Pages : Len(sub'[h].queue) <= Cap
    BY <1>3, <1>8, <2>2 DEF Event, Subs
  <2>4. AppendChat(page[g], <<Head(q).entry>>) \in PageStates
    <3>1. <<Head(q).entry>> \in Seq(Entry)
      BY <2>2 DEF Posted
    <3> QED
      BY <1>3, <3>1, AppendFacts
  <2>5. page' \in [Pages -> PageStates]
    BY <1>3, <1>8, <2>4 DEF Event
  <2> QED
    BY <1>2, <1>3, <1>8, <2>3, <2>5 DEF Event
<1>9. ASSUME NEW g \in Pages, NEW k \in Polls, PullAsk(g, k) \/ PullAnswer(g, k) \/ PullFail(g, k)
      PROVE  TypeOK'
  <2>1. PICK x : pull' = [pull EXCEPT ![g][k] = x] /\ x \in PollStates
    <3>1. CASE PullAsk(g, k)
      <4>1. [pc |-> "asked", after |-> page[g].mark] \in PollStates
        BY <1>3 DEF PageStates, PollStates
      <4> QED
        BY <3>1, <4>1 DEF PullAsk
    <3>2. CASE PullAnswer(g, k)
      <4>1. ListChat(PageOf[g], pull[g][k].after) \in Seq(Entry)
        BY <1>3, ListFacts
      <4>2. [pc |-> "answered", list |-> ListChat(PageOf[g], pull[g][k].after)] \in PollStates
        BY <4>1 DEF PollStates
      <4> QED
        BY <3>2, <4>2 DEF PullAnswer
    <3>3. CASE PullFail(g, k)
      BY <3>3 DEF PullFail, PollStates
    <3> QED
      BY <1>9, <3>1, <3>2, <3>3
  <2>2. pull' \in [Pages -> [Polls -> PollStates]]
    BY <1>3, <2>1
  <2> QED
    BY <1>2, <1>3, <1>9, <2>2 DEF PullAsk, PullAnswer, PullFail
<1>10. ASSUME NEW g \in Pages, NEW k \in Polls, PullShow(g, k) PROVE TypeOK'
  <2>1. pull[g][k].list \in Seq(Entry)
    BY <1>3, <1>10, PullCases DEF PullShow
  <2>2. AppendChat(page[g], pull[g][k].list) \in PageStates
    BY <1>3, <2>1, AppendFacts
  <2>3. page' \in [Pages -> PageStates]
    BY <1>3, <1>10, <2>2 DEF PullShow
  <2>4. NoPull \in PollStates
    BY DEF PollStates
  <2>5. pull' \in [Pages -> [Polls -> PollStates]]
    BY <1>3, <1>10, <2>4 DEF PullShow
  <2> QED
    BY <1>2, <1>10, <2>3, <2>5 DEF PullShow
<1> QED
  BY <1>1, <1>5, <1>6, <1>7, <1>8, <1>9, <1>10

(* Downloads, other tables, and restarts. *)
LEMMA TypeOthers ==
    ASSUME TypeOK, \/ \E s \in Exported : ExportBegin(s)
                   \/ ExportRead \/ ExportEnd \/ OtherInsert \/ Restart
    PROVE  TypeOK'
<1> USE DEF slack, tables, pages
<1>1. chat \in Seq(Table) /\ Batch \in Nat \ {0} /\ (export = NoExport \/ export \in ExportStates)
  BY Types, BoundsAssumption
<1>2. ASSUME export' = NoExport \/ export' \in ExportStates, UNCHANGED <<slack, tables, pages>>
      PROVE  TypeOK'
  BY <1>2 DEF TypeOK, ExportStates
<1>3. ASSUME NEW s \in Exported, ExportBegin(s) PROVE TypeOK'
  <2>1. Len(chat) \in Nat /\ s \in Sessions
    BY <1>1, PagesAssumption
  <2>2. export' \in ExportStates
    BY <1>3, <2>1 DEF ExportBegin, ExportStates
  <2> QED
    BY <1>2, <1>3, <2>2 DEF ExportBegin
<1>4. ASSUME ExportRead PROVE TypeOK'
  <2> DEFINE list == ListChat(export.sess, export.after)
             ids == [k \in DOMAIN list |-> list[k].id]
  <2>1. export \in ExportStates
    BY <1>1, <1>4, ExportCases DEF ExportRead
  <2>2. list \in Seq(Entry)
    BY <1>1, ListFacts
  <2> HIDE DEF list
  <2>3. /\ ids \in Seq(Nat) /\ Len(ids) = Len(list)
        /\ list # <<>> => Last(ids) \in Nat
    <3>1. /\ Len(list) \in Nat /\ DOMAIN list = 1 .. Len(list)
          /\ \A k \in 1 .. Len(list) : list[k].id \in Nat
      <4>1. /\ Len(list) \in Nat /\ DOMAIN list = 1 .. Len(list)
            /\ \A k \in 1 .. Len(list) : list[k] \in Entry
        BY <2>2
      <4> QED
        BY <4>1 DEF Entry
    <3>2. ids \in Seq(Nat) /\ Len(ids) = Len(list)
      BY <3>1
    <3>3. list # <<>> => Len(list) \in 1 .. Len(list)
      BY <2>2
    <3> QED
      BY <3>1, <3>2, <3>3 DEF Last
  <2> HIDE DEF ids
  <2>4. export' \in ExportStates
    <3>1. CASE list # <<>> /\ export' = [export EXCEPT !.got = export.got \o ids, !.after = Last(ids)]
      <4>1. export.got \o ids \in Seq(Nat)
        BY <2>1, <2>3, ConcatProperties DEF ExportStates
      <4> QED
        BY <2>1, <2>3, <3>1, <4>1 DEF ExportStates
    <3>2. CASE export' = [export EXCEPT !.pc = "done"]
      BY <2>1, <3>2 DEF ExportStates
    <3> QED
      BY <1>4, <3>1, <3>2 DEF ExportRead, GoOnAfter, list, ids
  <2> QED
    BY <1>2, <1>4, <2>4 DEF ExportRead
<1>5. ASSUME ExportEnd PROVE TypeOK'
  BY <1>2, <1>5 DEF ExportEnd
<1>6. ASSUME OtherInsert PROVE TypeOK'
  BY <1>6, SessionsAssumption DEF OtherInsert, TypeOK
<1>7. ASSUME Restart PROVE TypeOK'
  <2>1. inbox' \in Seq(Messages) /\ Len(inbox') <= Inbox /\ reader' \in [Readers -> ReaderStates]
    BY <1>7, BoundsAssumption DEF Restart, ReaderStates
  <2>2. /\ sub' \in [Pages -> [on : BOOLEAN, queue : Seq(Posted)]]
        /\ \A g \in Pages : Len(sub'[g].queue) <= Cap
    BY <1>7, BoundsAssumption DEF Restart, Unsubscribed
  <2>3. pull' \in [Pages -> [Polls -> PollStates]]
    BY <1>7, Types DEF Restart, PollStates
  <2> QED
    BY <1>7, <2>1, <2>2, <2>3 DEF Restart, TypeOK, Posted
<1> QED
  BY <1>3, <1>4, <1>5, <1>6, <1>7

LEMMA TypeNext == TypeOK /\ [Next]_vars => TypeOK'
<1> SUFFICES ASSUME TypeOK, [Next]_vars PROVE TypeOK'
  OBVIOUS
<1>1. CASE UNCHANGED vars
  BY <1>1 DEF TypeOK, vars, slack, tables, pages
<1>2. CASE Next
  BY <1>2, TypeReaders, TypePages, TypeOthers DEF Next, Reader
<1> QED
  BY <1>1, <1>2

(* The state of the feed is always of its types: no queue exceeds its      *)
(* capacity, whatever Slack, the network and the readers do.               *)
THEOREM FeedTypes == Spec => []TypeOK
<1> QED
  BY InitType, TypeNext, PTL DEF Spec

-----------------------------------------------------------------------------
(* Downloads.                                                              *)

(* The table only grows, at its end. *)
LEMMA ChatGrows ==
    ASSUME TypeOK, [Next]_vars
    PROVE  /\ chat' = chat \/ \E row \in Table : chat' = Append(chat, row)
           /\ Len(chat) \in Nat /\ Len(chat') \in Nat /\ Len(chat) <= Len(chat')
           /\ \A i \in DOMAIN chat : i \in DOMAIN chat' /\ chat'[i] = chat[i]
           /\ \A s, n : \A i \in RowsAfter(s, n)' :
                i \in RowsAfter(s, n) \/ i = Len(chat) + 1
<1>1. chat' = chat \/ \E row \in Table : chat' = Append(chat, row)
  <2>1. ASSUME NEW r \in Readers, Store(r) PROVE chat' = chat \/ \E row \in Table : chat' = Append(chat, row)
    <3>1. reader[r].msg \in Messages /\ reader[r].sess \in Sessions
      BY <2>1, ReaderCases DEF Store, TypeOK
    <3> QED
      BY <2>1, <3>1 DEF Store, Table, tables
  <2>2. CASE UNCHANGED vars
    BY <2>2 DEF vars, tables
  <2>3. CASE Next
    BY <2>1, <2>3 DEF Next, Reader, Deliver, Run, Receive, Check, Publish, Load, Close, Subscribe,
         Disconnect, Event, PullAsk, PullAnswer, PullFail, PullShow, ExportBegin, ExportRead,
         ExportEnd, OtherInsert, Restart, tables
  <2> QED
    BY <2>2, <2>3
<1>2. chat \in Seq(Table) /\ Len(chat) \in Nat /\ DOMAIN chat = 1 .. Len(chat)
  BY Types
<1>3. CASE chat' = chat
  BY <1>2, <1>3 DEF RowsAfter
<1>4. ASSUME NEW row \in Table, chat' = Append(chat, row)
      PROVE  /\ Len(chat') \in Nat /\ Len(chat) <= Len(chat')
             /\ \A i \in DOMAIN chat : i \in DOMAIN chat' /\ chat'[i] = chat[i]
             /\ \A s, n : \A i \in RowsAfter(s, n)' : i \in RowsAfter(s, n) \/ i = Len(chat) + 1
  <2>1. /\ Len(chat') = Len(chat) + 1 /\ DOMAIN chat' = 1 .. Len(chat) + 1
        /\ \A i \in 1 .. Len(chat) : chat'[i] = chat[i]
    BY <1>2, <1>4, AppendProperties
  <2>2. \A s, n : \A i \in RowsAfter(s, n)' : i \in RowsAfter(s, n) \/ i = Len(chat) + 1
    BY <1>2, <2>1 DEF RowsAfter
  <2> QED
    BY <1>2, <2>1, <2>2
<1> QED
  BY <1>1, <1>2, <1>3, <1>4

Holds(got, i) == \E k \in DOMAIN got : got[k] = i

(* A download has every row up to the id it asks for next, each once; when *)
(* it is done it has every row there was when it began.                    *)
ExportInv ==
    export # NoExport =>
        /\ export.after <= Len(chat) /\ export.upto <= Len(chat)
        /\ \A j, k \in DOMAIN export.got : j < k => export.got[j] < export.got[k]
        /\ \A k \in DOMAIN export.got : export.got[k] <= export.after
        /\ \A i \in RowsAfter(export.sess, 0) : i <= export.after => Holds(export.got, i)
        /\ export.pc = "done" =>
             \A i \in RowsAfter(export.sess, 0) : i <= export.upto => Holds(export.got, i)

(* While a download is not touched the table may grow, but only past it. *)
LEMMA ExportKept ==
    ASSUME TypeOK, [Next]_vars, ExportInv, UNCHANGED export
    PROVE  ExportInv'
<1> SUFFICES ASSUME export # NoExport PROVE ExportInv'
  BY DEF ExportInv
<1>1. export \in ExportStates
  BY Types
<1>2. export.after \in Nat /\ export.upto \in Nat /\ export.got \in Seq(Nat)
  BY <1>1 DEF ExportStates
<1>3. /\ Len(chat) \in Nat /\ Len(chat') \in Nat /\ Len(chat) <= Len(chat')
      /\ \A i \in RowsAfter(export.sess, 0)' : i \in RowsAfter(export.sess, 0) \/ i = Len(chat) + 1
  BY ChatGrows
<1>4. export.after <= Len(chat) /\ export.upto <= Len(chat)
  BY DEF ExportInv
<1>5. export.after <= Len(chat') /\ export.upto <= Len(chat')
  BY <1>2, <1>3, <1>4
<1>6. /\ ~(Len(chat) + 1 <= export.after) /\ ~(Len(chat) + 1 <= export.upto)
  BY <1>2, <1>3, <1>4
<1>7. \A i \in RowsAfter(export.sess, 0)' :
        i <= export.after \/ i <= export.upto => i \in RowsAfter(export.sess, 0)
  BY <1>3, <1>6
<1> QED
  BY <1>5, <1>7 DEF ExportInv

LEMMA ExportReads ==
    ASSUME TypeOK, ExportInv, ExportRead, "read" \notin Faults
    PROVE  ExportInv'
<1> DEFINE list == ListChat(export.sess, export.after)
           ids == [k \in DOMAIN list |-> list[k].id]
           rows == RowsAfter(export.sess, 0)
           got == export.got
<1>1. export \in ExportStates /\ export # NoExport
  BY Types, ExportCases DEF ExportRead, NoExport
<1>2. /\ export.after \in Nat /\ export.upto \in Nat /\ got \in Seq(Nat)
      /\ chat \in Seq(Table) /\ Len(chat) \in Nat /\ DOMAIN chat = 1 .. Len(chat)
  BY <1>1, Types DEF ExportStates
<1>3. /\ list \in Seq(Entry) /\ Ascending(list)
      /\ \A k \in DOMAIN list : list[k].id \in RowsAfter(export.sess, export.after)
      /\ list = <<>> <=> RowsAfter(export.sess, export.after) = {}
      /\ list # <<>> => \A i \in RowsAfter(export.sess, export.after) :
            i <= list[Len(list)].id => \E k \in DOMAIN list : list[k].id = i
  BY <1>2, BoundsAssumption, ListFacts
<1>4. /\ export.after <= Len(chat) /\ export.upto <= Len(chat)
      /\ \A j, k \in DOMAIN got : j < k => got[j] < got[k]
      /\ \A k \in DOMAIN got : got[k] <= export.after
      /\ \A i \in rows : i <= export.after => Holds(got, i)
  BY <1>1 DEF ExportInv
<1> HIDE DEF list
<1>5. \A i \in rows : i \in Int /\ (i <= export.after \/ i \in RowsAfter(export.sess, export.after))
  BY <1>2 DEF RowsAfter
<1>6. CASE list # <<>> /\ export' = [export EXCEPT !.got = got \o ids, !.after = Last(ids)]
  <2>1. /\ Len(list) \in Nat /\ DOMAIN list = 1 .. Len(list) /\ Len(list) \in 1 .. Len(list)
        /\ \A k \in 1 .. Len(list) : list[k].id \in 1 .. Len(chat) /\ list[k].id > export.after
    <3>1. Len(list) \in Nat /\ DOMAIN list = 1 .. Len(list) /\ Len(list) \in 1 .. Len(list)
      BY <1>3, <1>6
    <3> QED
      BY <1>2, <1>3, <3>1 DEF RowsAfter
  <2>2. /\ ids \in Seq(Nat) /\ Len(ids) = Len(list) /\ \A k \in 1 .. Len(list) : ids[k] = list[k].id
        /\ Last(ids) = list[Len(list)].id
    <3>1. \A k \in 1 .. Len(list) : list[k].id \in Nat
      BY <2>1
    <3> QED
      BY <2>1, <3>1 DEF Last
  <2> HIDE DEF ids
  <2>3. /\ export'.got = got \o ids /\ export'.after = Last(ids) /\ export'.sess = export.sess
        /\ export'.upto = export.upto /\ export'.pc = "reading" /\ UNCHANGED chat
    BY <1>1, <1>6 DEF ExportStates, ExportRead, tables
  <2> DEFINE new == got \o ids
             n == Len(got)
  <2>4. /\ n \in Nat /\ DOMAIN got = 1 .. n
        /\ DOMAIN new = 1 .. n + Len(list)
        /\ \A k \in 1 .. n + Len(list) : new[k] = IF k <= n THEN got[k] ELSE ids[k - n]
    <3>1. n \in Nat /\ DOMAIN got = 1 .. n /\ new \in Seq(Nat)
      BY <1>2, <2>2, ConcatProperties
    <3> HIDE DEF got
    <3>2. /\ Len(new) = n + Len(ids)
          /\ \A k \in 1 .. n + Len(ids) : new[k] = IF k <= n THEN got[k] ELSE ids[k - n]
      BY <1>2, <2>2, ConcatProperties
    <3>3. DOMAIN new = 1 .. Len(new)
      BY <3>1
    <3> HIDE DEF new, n
    <3> QED
      BY <2>2, <3>1, <3>2, <3>3
  <2> HIDE DEF new, n
  <2>5. \A k \in DOMAIN got : k \in DOMAIN new /\ new[k] = got[k] /\ got[k] \in Nat
    BY <1>2, <2>1, <2>4
  <2>6. \A k \in 1 .. Len(list) : n + k \in DOMAIN new /\ new[n + k] = list[k].id
    <3>1. ASSUME NEW k \in 1 .. Len(list)
          PROVE  n + k \in 1 .. n + Len(list) /\ ~(n + k <= n) /\ (n + k) - n = k
      BY <2>1, <2>4
    <3> QED
      BY <2>2, <2>4, <3>1
  <2>7. \A k \in DOMAIN new : k \in DOMAIN got \/ \E j \in 1 .. Len(list) : k = n + j
    <3>1. \A k \in 1 .. n + Len(list) : k \in 1 .. n \/ (k - n \in 1 .. Len(list) /\ k = n + (k - n))
      BY <2>1, <2>4
    <3> QED
      BY <2>4, <3>1
  <2>8. ASSUME NEW j \in DOMAIN new, NEW k \in DOMAIN new, j < k PROVE new[j] < new[k]
    <3>1. CASE k \in DOMAIN got
      <4>1. j \in DOMAIN got
        BY <2>4, <2>8, <3>1
      <4> QED
        BY <1>4, <2>5, <2>8, <3>1, <4>1
    <3>2. CASE j \in DOMAIN got /\ k \notin DOMAIN got
      <4>1. PICK i \in 1 .. Len(list) : k = n + i
        BY <2>7, <3>2
      <4>2. /\ new[k] = list[i].id /\ new[j] = got[j] /\ got[j] <= export.after
            /\ list[i].id > export.after /\ list[i].id \in Nat /\ got[j] \in Nat
        BY <1>4, <2>1, <2>5, <2>6, <3>2, <4>1
      <4> QED
        BY <1>2, <4>2
    <3>3. CASE j \notin DOMAIN got /\ k \notin DOMAIN got
      <4>1. PICK i \in 1 .. Len(list) : k = n + i
        BY <2>7, <3>3
      <4>2. PICK h \in 1 .. Len(list) : j = n + h
        BY <2>7, <3>3
      <4>3. h < i
        BY <2>1, <2>4, <2>8, <4>1, <4>2
      <4> QED
        BY <1>3, <2>1, <2>6, <4>1, <4>2, <4>3 DEF Ascending
    <3> QED
      BY <3>1, <3>2, <3>3
  <2>9. ASSUME NEW k \in DOMAIN new PROVE new[k] <= Last(ids)
    <3>1. \A i \in 1 .. Len(list) : list[i].id <= Last(ids)
      <4>1. \A i \in 1 .. Len(list) : i = Len(list) \/ i < Len(list)
        <5>1. \A m \in Nat : \A i \in 1 .. m : i = m \/ i < m
          OBVIOUS
        <5> QED
          BY <2>1, <5>1
      <4>2. ASSUME NEW i \in 1 .. Len(list) PROVE list[i].id <= list[Len(list)].id
        <5>1. list[i].id = list[Len(list)].id \/ list[i].id < list[Len(list)].id
          BY <1>3, <2>1, <4>1 DEF Ascending
        <5> QED
          BY <2>1, <5>1
      <4> QED
        BY <2>2, <4>2
    <3>2. CASE k \in DOMAIN got
      <4>1. got[k] <= export.after /\ export.after < list[Len(list)].id /\ list[Len(list)].id \in Nat
        BY <1>4, <2>1, <3>2
      <4> QED
        BY <1>2, <2>2, <2>5, <3>2, <4>1
    <3>3. CASE k \notin DOMAIN got
      BY <2>6, <2>7, <3>1, <3>3
    <3> QED
      BY <3>2, <3>3
  <2>10. ASSUME NEW i \in rows, i <= Last(ids) PROVE Holds(new, i)
    <3>1. CASE i <= export.after
      BY <1>4, <2>5, <3>1 DEF Holds
    <3>2. CASE i \in RowsAfter(export.sess, export.after)
      <4>1. PICK k \in 1 .. Len(list) : list[k].id = i
        BY <1>3, <1>6, <2>1, <2>2, <2>10, <3>2
      <4> QED
        BY <2>6, <4>1 DEF Holds
    <3> QED
      BY <1>5, <3>1, <3>2
  <2>11. Last(ids) <= Len(chat)
    BY <2>1, <2>2
  <2> QED
    BY <1>4, <2>3, <2>8, <2>9, <2>10, <2>11 DEF ExportInv, RowsAfter, new
<1>7. CASE list = <<>> /\ export' = [export EXCEPT !.pc = "done"]
  <2>1. /\ export'.got = got /\ export'.after = export.after /\ export'.sess = export.sess
        /\ export'.upto = export.upto /\ UNCHANGED chat
    BY <1>1, <1>7 DEF ExportStates, ExportRead, tables
  <2>2. \A i \in rows : i <= export.after
    BY <1>3, <1>5, <1>7
  <2>3. \A i \in rows : Holds(got, i)
    BY <1>4, <2>2
  <2> QED
    BY <1>4, <2>1, <2>3 DEF ExportInv, RowsAfter
<1>8. \/ list # <<>> /\ export' = [export EXCEPT !.got = got \o ids, !.after = Last(ids)]
      \/ list = <<>> /\ export' = [export EXCEPT !.pc = "done"]
  BY DEF ExportRead, Fails, GoOnAfter, list
<1> QED
  BY <1>6, <1>7, <1>8

LEMMA ExportNext ==
    ASSUME "read" \notin Faults
    PROVE  TypeOK /\ ExportInv /\ [Next]_vars => ExportInv'
<1> SUFFICES ASSUME TypeOK, ExportInv, [Next]_vars PROVE ExportInv'
  OBVIOUS
<1>1. CASE UNCHANGED export
  BY <1>1, ExportKept
<1>2. CASE export' = NoExport
  BY <1>2 DEF ExportInv
<1>3. CASE ExportRead
  BY <1>3, ExportReads
<1>4. ASSUME NEW s \in Exported, ExportBegin(s) PROVE ExportInv'
  <2>1. /\ export' = [pc |-> "reading", sess |-> s, after |-> 0, got |-> <<>>, upto |-> Len(chat)]
        /\ UNCHANGED chat /\ Len(chat) \in Nat
    BY <1>4, ChatGrows DEF ExportBegin, tables
  <2>2. \A i \in RowsAfter(s, 0) : ~(i <= 0)
    BY Types DEF RowsAfter
  <2> QED
    BY <2>1, <2>2 DEF ExportInv, RowsAfter
<1> QED
  BY <1>1, <1>2, <1>3, <1>4 DEF Next, vars, Reader, Deliver, Run, Receive, Check, Store, Publish, Load,
     Close, Subscribe, Disconnect, Event, PullAsk, PullAnswer, PullFail, PullShow, ExportEnd,
     OtherInsert, Restart, slack, pages

(* A download that ends is complete, however small the batches and however *)
(* many messages are stored meanwhile, if no query fails: when one does,   *)
(* handleChatExport ends the file early.                                   *)
THEOREM ExportCompleteHolds ==
    ASSUME "read" \notin Faults
    PROVE  Spec => []ExportComplete
<1>1. Init => ExportInv
  BY DEF Init, ExportInv
<1>2. TypeOK /\ ExportInv => ExportComplete
  <2> SUFFICES ASSUME TypeOK, ExportInv, export.pc = "done" PROVE ExportComplete
    BY DEF ExportComplete
  <2>1. export \in ExportStates /\ export # NoExport
    BY Types, ExportCases DEF NoExport
  <2>2. export.got \in Seq(Nat) /\ \A k \in DOMAIN export.got : export.got[k] \in Nat /\ k \in Nat
    BY <2>1 DEF ExportStates
  <2>3. \A j, k \in DOMAIN export.got : j < k => export.got[j] < export.got[k]
    BY <2>1 DEF ExportInv
  <2>4. ASSUME NEW j \in DOMAIN export.got, NEW k \in DOMAIN export.got, j # k
        PROVE  export.got[j] # export.got[k]
    <3>1. j < k \/ k < j
      BY <2>2, <2>4
    <3> QED
      BY <2>2, <2>3, <3>1
  <2> QED
    BY <2>1, <2>4 DEF ExportInv, ExportComplete, Holds
<1> QED
  BY <1>1, <1>2, InitType, TypeNext, ExportNext, PTL DEF Spec

-----------------------------------------------------------------------------
(* The feed as a page shows it.                                            *)

(* Where the log stands for a message that is on its way to be stored:     *)
(* Slack knows it to be received, it is not in the table, and one reader   *)
(* alone has it.  So the table never has it already when it is stored.     *)
OnceInv ==
    /\ \A k \in DOMAIN inbox : inbox[k] \notin acked
    /\ \A j, k \in DOMAIN inbox : j # k => inbox[j] # inbox[k]
    /\ \A r \in Readers : reader[r].pc \in {"check", "store"} =>
         reader[r].msg \in acked /\ ~Stored(reader[r].msg)
    /\ \A r, q \in Readers :
         reader[r].pc \in {"check", "store"} /\ reader[q].pc \in {"check", "store"} /\ r # q
            => reader[r].msg # reader[q].msg
    /\ \A i \in DOMAIN chat : chat[i].msg \in acked

(* An entry is the message the table has under its id, for session s. *)
Genuine(e, s) == e.id \in DOMAIN chat /\ chat[e.id] = [msg |-> e.msg, sess |-> s]

AllGenuine(list, s) == \A k \in DOMAIN list : Genuine(list[k], s)

(* What is published, queued, fetched and shown is in the table. *)
GenuineInv ==
    /\ \A r \in Readers : reader[r].pc = "publish" =>
         Genuine([id |-> reader[r].id, msg |-> reader[r].msg], reader[r].sess)
    /\ \A g \in Pages : \A k \in DOMAIN sub[g].queue :
         Genuine(sub[g].queue[k].entry, sub[g].queue[k].sess)
    /\ \A g \in Pages, k \in Polls : pull[g][k].pc = "answered" =>
         Ascending(pull[g][k].list) /\ AllGenuine(pull[g][k].list, PageOf[g])
    /\ \A g \in Pages : Tidy(page[g]) /\ AllGenuine(page[g].shown, PageOf[g])

(* A page that is closed shows nothing and nothing is on its way to it. *)
ClosedInv ==
    \A g \in Pages :
        /\ ~sub[g].on => sub[g].queue = <<>>
        /\ ~page[g].open => page[g] = Closed /\ ~sub[g].on /\ pull[g] = NoPulls

Pending(r) == reader[r].pc \in {"check", "store"}

(* Readers may drop what they have as long as nothing else is touched. *)
LEMMA OnceKept ==
    ASSUME TypeOK, OnceInv, UNCHANGED <<inbox, acked, chat>>,
           \A q \in Readers : Pending(q)' => Pending(q) /\ reader'[q].msg = reader[q].msg
    PROVE  OnceInv'
<1>1. ASSUME NEW q \in Readers, Pending(q)'
      PROVE  reader'[q].msg \in acked' /\ ~Stored(reader[q].msg)'
  <2>1. Pending(q) /\ reader'[q].msg = reader[q].msg
    BY <1>1
  <2>2. reader[q].msg \in acked /\ ~Stored(reader[q].msg)
    BY <2>1 DEF OnceInv, Pending
  <2> QED
    BY <2>1, <2>2 DEF Stored
<1>2. ASSUME NEW r \in Readers, NEW q \in Readers, Pending(r)', Pending(q)', r # q
      PROVE  reader'[r].msg # reader'[q].msg
  <2>1. Pending(r) /\ Pending(q) /\ reader'[r].msg = reader[r].msg /\ reader'[q].msg = reader[q].msg
    BY <1>2
  <2> QED
    BY <1>2, <2>1 DEF OnceInv, Pending
<1> QED
  BY <1>1, <1>2 DEF OnceInv, Pending

LEMMA OnceNext ==
    ASSUME "ack" \notin Faults
    PROVE  TypeOK /\ OnceInv /\ [Next]_vars => OnceInv'
<1> SUFFICES ASSUME TypeOK, OnceInv, [Next]_vars PROVE OnceInv'
  OBVIOUS
<1> USE DEF slack, tables, pages
<1>1. inbox \in Seq(Messages) /\ Len(inbox) \in Nat /\ DOMAIN inbox = 1 .. Len(inbox)
        /\ reader \in [Readers -> ReaderStates]
  BY DEF TypeOK
<1>2. CASE UNCHANGED slack /\ UNCHANGED chat
  BY <1>2, OnceKept DEF Pending
<1>3. ASSUME NEW m \in Messages, Deliver(m) PROVE OnceInv'
  <2>1. m \notin acked /\ \A k \in DOMAIN inbox : inbox[k] # m
    BY <1>3 DEF Deliver, Fails
  <2>2. /\ DOMAIN inbox' = 1 .. Len(inbox) + 1 /\ inbox'[Len(inbox) + 1] = m
        /\ \A k \in 1 .. Len(inbox) : inbox'[k] = inbox[k]
    BY <1>1, <1>3, AppendProperties DEF Deliver
  <2>3. /\ \A k \in DOMAIN inbox' : inbox'[k] \notin acked
        /\ \A j, k \in DOMAIN inbox' : j # k => inbox'[j] # inbox'[k]
    <3>1. \A k \in DOMAIN inbox' : k \in DOMAIN inbox \/ k = Len(inbox) + 1
      BY <1>1, <2>2
    <3> QED
      BY <1>1, <2>1, <2>2, <3>1 DEF OnceInv
  <2> QED
    BY <1>3, <2>3 DEF Deliver, OnceInv, Stored
<1>4. ASSUME NEW r \in Readers, Run(r) \/ Check(r) \/ Publish(r) PROVE OnceInv'
  <2>1. UNCHANGED <<inbox, acked, chat>>
    BY <1>4 DEF Run, Check, Publish
  <2>2. \/ reader' = [reader EXCEPT ![r] = Waiting]
        \/ Check(r) /\ reader' = [reader EXCEPT ![r] = [reader[r] EXCEPT !.pc = "store"]]
    BY <1>4 DEF Run, Publish, Check
  <2>3. ASSUME NEW q \in Readers, Pending(q)'
        PROVE  Pending(q) /\ reader'[q].msg = reader[q].msg
    <3>1. CASE q # r
      BY <1>1, <2>2, <2>3, <3>1 DEF Pending
    <3>2. CASE q = r /\ reader' = [reader EXCEPT ![r] = Waiting]
      BY <1>1, <2>3, <3>2 DEF Pending, Waiting
    <3>3. CASE q = r /\ Check(r) /\ reader' = [reader EXCEPT ![r] = [reader[r] EXCEPT !.pc = "store"]]
      <4>1. reader[r] \in ReaderStates /\ reader[r].pc = "check"
        BY <1>1, <3>3 DEF Check
      <4>2. [reader[r] EXCEPT !.pc = "store"]
               = [pc |-> "store", msg |-> reader[r].msg, sess |-> reader[r].sess]
        BY <4>1, ReaderCases
      <4> QED
        BY <1>1, <3>3, <4>1, <4>2 DEF Pending
    <3> QED
      BY <2>2, <3>1, <3>2, <3>3
  <2> QED
    BY <2>1, <2>3, OnceKept
<1>5. ASSUME NEW r \in Readers, Receive(r) PROVE OnceInv'
  <2> DEFINE m == Head(inbox)
  <2>1. /\ inbox # <<>> /\ inbox' = Tail(inbox) /\ acked' = acked \cup {m} /\ UNCHANGED chat
        /\ reader[r].pc = "idle"
    BY <1>5 DEF Receive
  <2>2. /\ m = inbox[1] /\ 1 \in DOMAIN inbox /\ m \notin acked
        /\ \A k \in DOMAIN inbox : k # 1 => inbox[k] # m
    BY <1>1, <2>1 DEF OnceInv
  <2>3. /\ DOMAIN inbox' = 1 .. Len(inbox) - 1
        /\ \A k \in DOMAIN inbox' :
             k + 1 \in DOMAIN inbox /\ k + 1 # 1 /\ inbox'[k] = inbox[k + 1]
    <3>1. /\ Tail(inbox) \in Seq(Messages) /\ Len(Tail(inbox)) = Len(inbox) - 1
          /\ \A k \in 1 .. Len(Tail(inbox)) : Tail(inbox)[k] = inbox[k + 1]
      BY <1>1, <2>1, HeadTailProperties
    <3> QED
      BY <1>1, <2>1, <3>1
  <2>4. /\ \A k \in DOMAIN inbox' : inbox'[k] \notin acked'
        /\ \A j, k \in DOMAIN inbox' : j # k => inbox'[j] # inbox'[k]
    <3>1. ASSUME NEW k \in DOMAIN inbox' PROVE inbox'[k] \notin acked'
      BY <2>1, <2>2, <2>3 DEF OnceInv
    <3>2. ASSUME NEW j \in DOMAIN inbox', NEW k \in DOMAIN inbox', j # k
          PROVE  inbox'[j] # inbox'[k]
      <4>1. j + 1 # k + 1
        BY <2>3, <3>2, <1>1
      <4> QED
        BY <2>3, <4>1 DEF OnceInv
    <3> QED
      BY <3>1, <3>2
  <2>5. ~Stored(m) /\ \A x : Stored(x)' <=> Stored(x)
    BY <2>1, <2>2 DEF OnceInv, Stored
  <2>6. ASSUME NEW q \in Readers, Pending(q)'
        PROVE  \/ q = r /\ reader'[q].msg = m
               \/ q # r /\ reader'[q] = reader[q] /\ Pending(q)
    <3>1. CASE UNCHANGED reader
      BY <2>1, <2>6, <3>1 DEF Pending
    <3>2. CASE reader' # reader
      <4>1. PICK s : reader' = [reader EXCEPT ![r] = [pc |-> "check", msg |-> m, sess |-> s]]
        BY <1>5, <3>2 DEF Receive
      <4> QED
        BY <1>1, <2>6, <4>1 DEF Pending
    <3> QED
      BY <3>1, <3>2
  <2>7. ASSUME NEW q \in Readers, Pending(q)'
        PROVE  reader'[q].msg \in acked' /\ ~Stored(reader[q].msg)'
    <3>1. CASE q = r /\ reader'[q].msg = m
      BY <2>1, <2>5, <3>1 DEF Stored
    <3>2. CASE q # r /\ reader'[q] = reader[q] /\ Pending(q)
      <4>1. reader[q].msg \in acked /\ ~Stored(reader[q].msg)
        BY <3>2 DEF OnceInv, Pending
      <4> QED
        BY <2>1, <3>2, <4>1 DEF Stored
    <3> QED
      BY <2>6, <2>7, <3>1, <3>2
  <2>8. ASSUME NEW p \in Readers, NEW q \in Readers, Pending(p)', Pending(q)', p # q
        PROVE  reader'[p].msg # reader'[q].msg
    <3>1. \A o \in Readers : Pending(o) => reader[o].msg \in acked
      BY DEF OnceInv, Pending
    <3>2. CASE p = r \/ q = r
      BY <2>2, <2>6, <2>8, <3>1, <3>2
    <3>3. CASE p # r /\ q # r
      BY <2>6, <2>8, <3>3 DEF OnceInv, Pending
    <3> QED
      BY <3>2, <3>3
  <2>9. \A i \in DOMAIN chat' : chat'[i].msg \in acked'
    BY <2>1 DEF OnceInv
  <2> QED
    BY <2>4, <2>7, <2>8, <2>9 DEF OnceInv, Pending
<1>6. ASSUME NEW r \in Readers, Store(r) PROVE OnceInv'
  <2>1. UNCHANGED <<inbox, acked>> /\ Pending(r)
    BY <1>6 DEF Store, Pending
  <2>2. PICK x \in ReaderStates : reader' = [reader EXCEPT ![r] = x] /\ x.pc \notin {"check", "store"}
    <3>1. /\ Waiting \in ReaderStates /\ Waiting.pc = "idle"
          /\ \A id \in Nat : [pc |-> "publish", msg |-> reader[r].msg,
                              sess |-> reader[r].sess, id |-> id] \in ReaderStates
      <4>1. reader[r].msg \in Messages /\ reader[r].sess \in Sessions
        BY <1>1, <1>6, ReaderCases DEF Store
      <4> QED
        BY <4>1, AsReader DEF Waiting
    <3>2. Len(chat') \in Nat /\ lastInsert \in Nat
      BY ChatGrows DEF TypeOK
    <3>3. \/ reader' = [reader EXCEPT ![r] = Waiting]
          \/ \E id \in Nat : reader' = [reader EXCEPT ![r] =
                [pc |-> "publish", msg |-> reader[r].msg, sess |-> reader[r].sess, id |-> id]]
      BY <1>6, <3>2 DEF Store
    <3> QED
      BY <3>1, <3>3
  <2>3. \A q \in Readers : Pending(q)' => q # r /\ Pending(q) /\ reader'[q] = reader[q]
    BY <1>1, <2>2 DEF Pending
  <2>4. CASE UNCHANGED chat
    BY <2>1, <2>3, <2>4, OnceKept
  <2>5. CASE chat' = Append(chat, [msg |-> reader[r].msg, sess |-> reader[r].sess])
    <3> DEFINE row == [msg |-> reader[r].msg, sess |-> reader[r].sess]
    <3>1. chat \in Seq(Table) /\ row \in Table
      BY <1>1, <1>6, Types, ReaderCases DEF Store, Table
    <3>2. /\ DOMAIN chat' = 1 .. Len(chat) + 1 /\ DOMAIN chat = 1 .. Len(chat) /\ Len(chat) \in Nat
          /\ chat'[Len(chat) + 1] = row /\ \A i \in 1 .. Len(chat) : chat'[i] = chat[i]
      BY <2>5, <3>1, AppendProperties
    <3>3. \A i \in DOMAIN chat' : chat'[i].msg = reader[r].msg \/ (i \in DOMAIN chat /\ chat'[i] = chat[i])
      BY <3>2
    <3>4. \A i \in DOMAIN chat' : chat'[i].msg \in acked'
      BY <2>1, <3>3 DEF OnceInv, Pending
    <3>5. ASSUME NEW q \in Readers, Pending(q)'
          PROVE  reader'[q].msg \in acked' /\ ~Stored(reader[q].msg)'
      <4>1. /\ Pending(q) /\ reader'[q] = reader[q]
            /\ reader[q].msg # reader[r].msg
            /\ reader[q].msg \in acked /\ ~Stored(reader[q].msg)
        BY <2>1, <2>3, <3>5 DEF OnceInv, Pending
      <4> QED
        BY <2>1, <3>3, <4>1 DEF Stored
    <3>6. ASSUME NEW p \in Readers, NEW q \in Readers, Pending(p)', Pending(q)', p # q
          PROVE  reader'[p].msg # reader'[q].msg
      BY <2>3, <3>6 DEF OnceInv, Pending
    <3> QED
      BY <2>1, <3>4, <3>5, <3>6 DEF OnceInv, Pending
  <2> QED
    BY <1>6, <2>4, <2>5 DEF Store
<1>7. CASE Restart
  <2>1. /\ inbox' = <<>> /\ UNCHANGED <<acked, chat>>
        /\ \A q \in Readers : ~Pending(q)'
    BY <1>7 DEF Restart, NoReader, Pending
  <2> QED
    BY <2>1 DEF OnceInv, Pending
<1> QED
  BY <1>2, <1>3, <1>4, <1>5, <1>6, <1>7 DEF Next, vars, Reader, Load, Close, Subscribe, Disconnect,
     Event, PullAsk, PullAnswer, PullFail, PullShow, ExportBegin, ExportRead, ExportEnd, OtherInsert

(* Pages open before anything is on its way to them. *)
LEMMA ClosedNext == TypeOK /\ ClosedInv /\ [Next]_vars => ClosedInv'
<1> SUFFICES ASSUME TypeOK, ClosedInv, [Next]_vars PROVE ClosedInv'
  OBVIOUS
<1> USE DEF slack, tables, pages
<1>1. /\ sub \in [Pages -> [on : BOOLEAN, queue : Seq(Posted)]]
      /\ page \in [Pages -> PageStates] /\ pull \in [Pages -> [Polls -> PollStates]]
  BY Types
<1>2. CASE UNCHANGED pages
  BY <1>2 DEF ClosedInv
<1>3. ASSUME NEW r \in Readers, Publish(r) PROVE ClosedInv'
  <2>1. ASSUME NEW g \in Pages
        PROVE  sub'[g].on = sub[g].on /\ (~sub[g].on => sub'[g] = sub[g])
    BY <1>1, <1>3, <2>1 DEF Publish
  <2> QED
    BY <1>3, <2>1 DEF Publish, ClosedInv
<1>4. ASSUME NEW g \in Pages, Load(g) PROVE ClosedInv'
  <2>1. PICK list \in {ListChat(PageOf[g], 0), <<>>} :
           page' = [page EXCEPT ![g] = AppendChat([Closed EXCEPT !.open = TRUE], list)]
    BY <1>4 DEF Load
  <2>2. page'[g].open
    BY <1>1, <2>1 DEF AppendChat, Closed
  <2>3. \A h \in Pages : h # g => page'[h] = page[h]
    BY <1>1, <2>1
  <2> QED
    BY <1>4, <2>2, <2>3 DEF Load, ClosedInv
<1>5. ASSUME NEW g \in Pages, Close(g) PROVE ClosedInv'
  <2>1. page'[g] = Closed /\ sub'[g] = Unsubscribed /\ pull'[g] = NoPulls
    BY <1>1, <1>5 DEF Close
  <2>2. \A h \in Pages : h # g => page'[h] = page[h] /\ sub'[h] = sub[h] /\ pull'[h] = pull[h]
    BY <1>1, <1>5 DEF Close
  <2> QED
    BY <2>1, <2>2 DEF ClosedInv, Unsubscribed
<1>6. ASSUME NEW g \in Pages, Subscribe(g) \/ Disconnect(g) PROVE ClosedInv'
  <2>1. sub'[g].queue = <<>> /\ (sub'[g].on => page[g].open) /\ UNCHANGED <<page, pull>>
    <3>1. CASE Subscribe(g)
      BY <1>1, <3>1 DEF Subscribe
    <3>2. CASE Disconnect(g)
      BY <1>1, <3>2 DEF Disconnect, Unsubscribed
    <3> QED
      BY <1>6, <3>1, <3>2
  <2>2. \A h \in Pages : h # g => sub'[h] = sub[h]
    BY <1>1, <1>6 DEF Subscribe, Disconnect
  <2> QED
    BY <1>1, <2>1, <2>2 DEF ClosedInv
<1>7. ASSUME NEW g \in Pages, Event(g) PROVE ClosedInv'
  <2>1. sub[g].on /\ page[g].open
    BY <1>1, <1>7 DEF Event, ClosedInv
  <2>2. sub'[g].on /\ page'[g].open /\ UNCHANGED pull
    BY <1>1, <1>7, <2>1 DEF Event, AppendChat, PageStates
  <2>3. \A h \in Pages : h # g => page'[h] = page[h] /\ sub'[h] = sub[h]
    BY <1>1, <1>7 DEF Event
  <2> QED
    BY <2>2, <2>3 DEF ClosedInv
<1>8. ASSUME NEW g \in Pages, NEW k \in Polls,
             PullAsk(g, k) \/ PullAnswer(g, k) \/ PullFail(g, k) \/ PullShow(g, k)
      PROVE  ClosedInv'
  <2>1. page[g].open
    <3>1. PullAsk(g, k) \/ pull[g][k].pc \in {"asked", "answered"}
      BY <1>8 DEF PullAnswer, PullFail, PullShow
    <3> QED
      BY <3>1 DEF PullAsk, ClosedInv, NoPulls, NoPull
  <2>2. page'[g].open /\ UNCHANGED sub
    <3>1. CASE UNCHANGED page
      BY <1>8, <2>1, <3>1 DEF PullAsk, PullAnswer, PullFail, PullShow
    <3>2. CASE PullShow(g, k)
      BY <1>1, <2>1, <3>2 DEF PullShow, AppendChat, PageStates
    <3> QED
      BY <1>8, <3>1, <3>2 DEF PullAsk, PullAnswer, PullFail
  <2>3. \A h \in Pages : h # g => page'[h] = page[h] /\ pull'[h] = pull[h]
    BY <1>1, <1>8 DEF PullAsk, PullAnswer, PullFail, PullShow
  <2> QED
    BY <2>2, <2>3 DEF ClosedInv
<1>9. CASE Restart
  <2>1. \A g \in Pages : pull[g] = NoPulls => pull'[g] = NoPulls
    BY <1>9 DEF Restart, NoPulls, NoPull
  <2> QED
    BY <1>1, <1>9, <2>1 DEF Restart, ClosedInv, Unsubscribed
<1> QED
  BY <1>2, <1>3, <1>4, <1>5, <1>6, <1>7, <1>8, <1>9 DEF Next, vars, Reader, Deliver, Run, Receive,
     Check, Store, ExportBegin, ExportRead, ExportEnd, OtherInsert

LEMMA ListGenuine ==
    ASSUME TypeOK, NEW s, NEW after
    PROVE  /\ ListChat(s, after) \in Seq(Entry) /\ Ascending(ListChat(s, after))
           /\ AllGenuine(ListChat(s, after), s)
<1> DEFINE list == ListChat(s, after)
<1>1. chat \in Seq(Table) /\ Batch \in Nat \ {0}
  BY Types, BoundsAssumption
<1>2. /\ list \in Seq(Entry) /\ Ascending(list)
      /\ \A k \in DOMAIN list : /\ list[k].id \in RowsAfter(s, after)
                                /\ list[k].msg = chat[list[k].id].msg
  BY <1>1, ListFacts
<1> HIDE DEF list
<1>3. ASSUME NEW k \in DOMAIN list PROVE Genuine(list[k], s)
  <2> DEFINE i == list[k].id
  <2>1. i \in DOMAIN chat /\ chat[i].sess = s /\ chat[i].msg = list[k].msg
    BY <1>2 DEF RowsAfter
  <2>2. chat[i] \in Table
    BY <1>1, <2>1
  <2>3. chat[i] = [msg |-> chat[i].msg, sess |-> chat[i].sess]
    BY <2>2 DEF Table
  <2> QED
    BY <2>1, <2>3 DEF Genuine
<1> QED
  BY <1>2, <1>3 DEF AllGenuine, list

(* What is in the table stays there. *)
LEMMA GenuineStays ==
    ASSUME TypeOK, [Next]_vars
    PROVE  /\ \A e, s : Genuine(e, s) => Genuine(e, s)'
           /\ \A list, s : AllGenuine(list, s) => AllGenuine(list, s)'
<1>1. \A i \in DOMAIN chat : i \in DOMAIN chat' /\ chat'[i] = chat[i]
  BY ChatGrows
<1>2. ASSUME NEW e, NEW s, Genuine(e, s) PROVE Genuine(e, s)'
  BY <1>1, <1>2 DEF Genuine
<1>3. ASSUME NEW list, NEW s, AllGenuine(list, s) PROVE AllGenuine(list, s)'
  BY <1>1, <1>3 DEF AllGenuine, Genuine
<1> QED
  BY <1>2, <1>3

ReadersGenuine ==
    \A r \in Readers : reader[r].pc = "publish" =>
        Genuine([id |-> reader[r].id, msg |-> reader[r].msg], reader[r].sess)

QueuesGenuine ==
    \A g \in Pages : \A k \in DOMAIN sub[g].queue :
        Genuine(sub[g].queue[k].entry, sub[g].queue[k].sess)

PullsGenuine ==
    \A g \in Pages, k \in Polls : pull[g][k].pc = "answered" =>
        Ascending(pull[g][k].list) /\ AllGenuine(pull[g][k].list, PageOf[g])

PageGenuine(p, g) == Tidy(p) /\ AllGenuine(p.shown, PageOf[g])

PagesGenuine == \A g \in Pages : PageGenuine(page[g], g)

LEMMA GenuineParts == GenuineInv <=> ReadersGenuine /\ QueuesGenuine /\ PullsGenuine /\ PagesGenuine
BY DEF GenuineInv, ReadersGenuine, QueuesGenuine, PullsGenuine, PagesGenuine, PageGenuine

(* A reader publishes the row it inserted: as the message was not in the   *)
(* table before, the id that came back is that of its own row.             *)
LEMMA ReadersGenuineNext ==
    ASSUME TypeOK, OnceInv, ReadersGenuine, [Next]_vars
    PROVE  ReadersGenuine'
<1>1. reader \in [Readers -> ReaderStates]
  BY Types
<1>2. ASSUME NEW r \in Readers, reader'[r].pc = "publish", reader[r].pc = "publish", reader'[r] = reader[r]
      PROVE  Genuine([id |-> reader[r].id, msg |-> reader[r].msg], reader[r].sess)'
  <2> DEFINE e == [id |-> reader[r].id, msg |-> reader[r].msg]
  <2>1. Genuine(e, reader[r].sess)
    BY <1>2 DEF ReadersGenuine
  <2>2. \A i \in DOMAIN chat : i \in DOMAIN chat' /\ chat'[i] = chat[i]
    BY ChatGrows
  <2> QED
    BY <1>2, <2>1, <2>2 DEF Genuine
<1>3. ASSUME NEW r \in Readers, Store(r), reader'[r].pc = "publish"
      PROVE  Genuine([id |-> reader[r].id, msg |-> reader[r].msg], reader[r].sess)'
  <2> DEFINE row == [msg |-> reader[r].msg, sess |-> reader[r].sess]
  <2>1. reader[r].pc = "store" /\ reader[r].msg \in Messages /\ reader[r].sess \in Sessions
    BY <1>1, <1>3, ReaderCases DEF Store
  <2>2. ~Stored(reader[r].msg)
    BY <2>1 DEF OnceInv
  <2>3. reader' # [reader EXCEPT ![r] = Waiting]
    BY <1>1, <1>3 DEF Waiting
  <2>4. /\ chat' = Append(chat, row)
        /\ reader' = [reader EXCEPT ![r] = [pc |-> "publish", msg |-> reader[r].msg,
                                            sess |-> reader[r].sess, id |-> Len(chat')]]
    BY <1>3, <2>2, <2>3 DEF Store
  <2>5. chat \in Seq(Table) /\ row \in Table
    BY <2>1, Types DEF Table
  <2>6. Len(chat') \in DOMAIN chat' /\ chat'[Len(chat')] = row
    BY <2>4, <2>5, AppendProperties
  <2>7. reader'[r].id = Len(chat') /\ reader'[r].msg = reader[r].msg /\ reader'[r].sess = reader[r].sess
    BY <1>1, <2>4
  <2> QED
    BY <2>6, <2>7 DEF Genuine
<1>4. ASSUME NEW q \in Readers, reader'[q].pc = "publish"
      PROVE  reader'[q] = reader[q] \/ Store(q)
  <2>1. ASSUME NEW r \in Readers, Run(r) \/ Check(r) \/ Publish(r)
        PROVE  reader'[q] = reader[q]
    <3>1. \/ reader' = [reader EXCEPT ![r] = Waiting]
          \/ Check(r) /\ reader' = [reader EXCEPT ![r] = [reader[r] EXCEPT !.pc = "store"]]
      BY <2>1 DEF Run, Publish, Check
    <3>2. CASE q # r
      BY <1>1, <3>1, <3>2
    <3>3. CASE q = r
      <4>1. reader'[q] # Waiting
        BY <1>4 DEF Waiting
      <4>2. Check(r) /\ reader' = [reader EXCEPT ![r] = [reader[r] EXCEPT !.pc = "store"]]
        BY <1>1, <3>1, <3>3, <4>1
      <4>3. reader[r].pc = "check" /\ reader[r] \in ReaderStates
        BY <1>1, <4>2 DEF Check
      <4>4. [reader[r] EXCEPT !.pc = "store"].pc = "store"
        BY <4>3, ReaderCases
      <4> QED
        BY <1>1, <1>4, <3>3, <4>2, <4>4
    <3> QED
      BY <3>2, <3>3
  <2>2. ASSUME NEW r \in Readers, Receive(r)
        PROVE  reader'[q] = reader[q]
    <3>1. UNCHANGED reader \/ \E s : reader' = [reader EXCEPT ![r] =
                [pc |-> "check", msg |-> Head(inbox), sess |-> s]]
      BY <2>2 DEF Receive
    <3> QED
      BY <1>1, <1>4, <3>1
  <2>3. ASSUME NEW r \in Readers, Store(r), r # q
        PROVE  reader'[q] = reader[q]
    BY <1>1, <2>3 DEF Store
  <2>4. ~Restart
    BY <1>4 DEF Restart, NoReader
  <2>5. CASE UNCHANGED reader
    BY <2>5
  <2> QED
    BY <2>1, <2>2, <2>3, <2>4, <2>5 DEF Next, vars, slack, Reader, Deliver, Load, Close, Subscribe,
       Disconnect, Event, PullAsk, PullAnswer, PullFail, PullShow, ExportBegin, ExportRead,
       ExportEnd, OtherInsert
<1>5. ASSUME NEW r \in Readers, reader'[r].pc = "publish"
      PROVE  Genuine([id |-> reader[r].id, msg |-> reader[r].msg], reader[r].sess)'
  <2>1. CASE Store(r)
    BY <1>3, <1>5, <2>1
  <2>2. CASE reader'[r] = reader[r]
    BY <1>2, <1>5, <2>2
  <2> QED
    BY <1>4, <1>5, <2>1, <2>2
<1> QED
  BY <1>5 DEF ReadersGenuine

QueueGenuine(q) == \A k \in DOMAIN q : Genuine(q[k].entry, q[k].sess)

LEMMA QueuesGenuineNext ==
    ASSUME TypeOK, ReadersGenuine, QueuesGenuine, [Next]_vars
    PROVE  QueuesGenuine'
<1>1. sub \in [Pages -> [on : BOOLEAN, queue : Seq(Posted)]]
  BY Types
<1>2. SUFFICES ASSUME NEW g \in Pages PROVE QueueGenuine(sub[g].queue)'
  BY DEF QueuesGenuine, QueueGenuine
<1> DEFINE q == sub[g].queue
<1>3. q \in Seq(Posted) /\ Len(q) \in Nat /\ DOMAIN q = 1 .. Len(q) /\ QueueGenuine(q)
  <2>1. q \in Seq(Posted)
    BY <1>1
  <2> QED
    BY <2>1 DEF QueuesGenuine, QueueGenuine
<1>4. \A e, s : Genuine(e, s) => Genuine(e, s)'
  BY GenuineStays
<1>5. ASSUME \A k \in DOMAIN sub'[g].queue : \E j \in DOMAIN q : sub'[g].queue[k] = q[j]
      PROVE  QueueGenuine(sub[g].queue)'
  <2>1. ASSUME NEW k \in DOMAIN sub'[g].queue
        PROVE  Genuine(sub[g].queue[k].entry, sub[g].queue[k].sess)'
    <3>1. PICK j \in DOMAIN q : sub'[g].queue[k] = q[j]
      BY <1>5
    <3> DEFINE x == q[j].entry
               s == q[j].sess
    <3>2. Genuine(x, s)
      BY <1>3 DEF QueueGenuine
    <3>3. \A i \in DOMAIN chat : i \in DOMAIN chat' /\ chat'[i] = chat[i]
      BY ChatGrows
    <3> QED
      BY <3>1, <3>2, <3>3 DEF Genuine
  <2> QED
    BY <2>1 DEF QueueGenuine
<1>6. ASSUME sub'[g] = sub[g] \/ sub'[g].queue = <<>> PROVE QueueGenuine(sub[g].queue)'
  <2>1. \A k \in DOMAIN sub'[g].queue : \E j \in DOMAIN q : sub'[g].queue[k] = q[j]
    BY <1>6
  <2> QED
    BY <1>5, <2>1
<1>7. ASSUME NEW r \in Readers, Publish(r) PROVE QueueGenuine(sub[g].queue)'
  <2> DEFINE e == [entry |-> [id |-> reader[r].id, msg |-> reader[r].msg], sess |-> reader[r].sess]
  <2>1. e \in Posted /\ Genuine(e.entry, e.sess) /\ UNCHANGED chat
    <3>1. reader[r].pc = "publish" /\ reader[r] \in ReaderStates
      BY <1>7 DEF Publish, TypeOK
    <3>2. Genuine(e.entry, e.sess)
      BY <3>1 DEF ReadersGenuine
    <3>3. reader[r].id \in Nat /\ reader[r].msg \in Messages /\ reader[r].sess \in Sessions
      BY <3>1, ReaderCases
    <3> QED
      BY <1>7, <3>2, <3>3 DEF Publish, tables, Posted, Entry
  <2>2. CASE ~(sub[g].on /\ HasRoom(sub[g].queue))
    BY <1>1, <1>6, <1>7, <2>2 DEF Publish
  <2>3. CASE sub[g].on /\ HasRoom(sub[g].queue)
    <3> HIDE DEF e
    <3>1. sub'[g] = [sub[g] EXCEPT !.queue = Append(q, e)]
      BY <1>7, <2>3 DEF Publish, e
    <3>2. sub'[g].queue = Append(q, e)
      BY <1>1, <3>1
    <3> HIDE DEF q
    <3>3. /\ DOMAIN sub'[g].queue = 1 .. Len(q) + 1
          /\ sub'[g].queue[Len(q) + 1] = e
          /\ \A k \in 1 .. Len(q) : sub'[g].queue[k] = q[k]
      <4>1. /\ Append(q, e) \in Seq(Posted) /\ Len(Append(q, e)) = Len(q) + 1
            /\ \A k \in 1 .. Len(q) : Append(q, e)[k] = q[k]
            /\ Append(q, e)[Len(q) + 1] = e
        BY <1>3, <2>1, AppendProperties
      <4> QED
        BY <3>2, <4>1
    <3>4. \A k \in DOMAIN sub'[g].queue : k \in DOMAIN q \/ k = Len(q) + 1
      BY <1>3, <3>3
    <3>5. ASSUME NEW k \in DOMAIN sub'[g].queue
          PROVE  Genuine(sub[g].queue[k].entry, sub[g].queue[k].sess)'
      <4>1. CASE k \in DOMAIN q
        BY <1>3, <2>1, <3>3, <4>1 DEF QueueGenuine, Genuine
      <4>2. CASE k = Len(q) + 1
        BY <2>1, <3>3, <4>2 DEF Genuine
      <4> QED
        BY <3>4, <4>1, <4>2
    <3> QED
      BY <3>5 DEF QueueGenuine
  <2> QED
    BY <2>2, <2>3
<1>8. ASSUME NEW h \in Pages, Event(h) PROVE QueueGenuine(sub[g].queue)'
  <2>1. CASE h # g
    BY <1>1, <1>6, <1>8, <2>1 DEF Event
  <2>2. CASE h = g
    <3>1. q # <<>> /\ sub'[g].queue = Tail(q)
      BY <1>1, <1>8, <2>2 DEF Event
    <3> HIDE DEF q
    <3>2. \A k \in 1 .. Len(Tail(q)) : k + 1 \in DOMAIN q /\ Tail(q)[k] = q[k + 1]
      <4>1. /\ Len(Tail(q)) = Len(q) - 1
            /\ \A k \in 1 .. Len(Tail(q)) : Tail(q)[k] = q[k + 1]
        BY <1>3, <3>1, HeadTailProperties
      <4> QED
        BY <1>3, <4>1
    <3>3. DOMAIN Tail(q) = 1 .. Len(Tail(q))
      BY <1>3, <3>1, HeadTailProperties
    <3>4. \A k \in DOMAIN sub'[g].queue : \E j \in DOMAIN q : sub'[g].queue[k] = q[j]
      BY <3>1, <3>2, <3>3
    <3> QED
      BY <1>5, <3>4 DEF q
  <2> QED
    BY <2>1, <2>2
<1>9. ASSUME NEW h \in Pages, Close(h) \/ Subscribe(h) \/ Disconnect(h)
      PROVE  sub'[g] = sub[g] \/ sub'[g].queue = <<>>
  <2>1. CASE h # g
    BY <1>1, <1>9, <2>1 DEF Close, Subscribe, Disconnect
  <2>2. CASE h = g
    BY <1>1, <1>9, <2>2 DEF Close, Subscribe, Disconnect, Unsubscribed
  <2> QED
    BY <2>1, <2>2
<1>10. CASE Restart
  BY <1>6, <1>10 DEF Restart, Unsubscribed
<1>11. CASE UNCHANGED sub
  BY <1>6, <1>11
<1> QED
  BY <1>6, <1>7, <1>8, <1>9, <1>10, <1>11 DEF Next, vars, pages, Reader, Deliver, Run, Receive, Check,
     Store, Load, PullAsk, PullAnswer, PullFail, PullShow, ExportBegin, ExportRead, ExportEnd, OtherInsert

LEMMA PullsGenuineNext ==
    ASSUME TypeOK, PullsGenuine, [Next]_vars
    PROVE  PullsGenuine'
<1>1. pull \in [Pages -> [Polls -> PollStates]]
  BY Types
<1>2. SUFFICES ASSUME NEW g \in Pages, NEW k \in Polls, pull'[g][k].pc = "answered"
               PROVE  Ascending(pull'[g][k].list) /\ AllGenuine(pull[g][k].list, PageOf[g])'
  BY DEF PullsGenuine, Ascending
<1>3. CASE pull'[g][k] = pull[g][k]
  <2> DEFINE list == pull[g][k].list
  <2>1. Ascending(list) /\ AllGenuine(list, PageOf[g])
    BY <1>2, <1>3 DEF PullsGenuine
  <2>2. \A i \in DOMAIN chat : i \in DOMAIN chat' /\ chat'[i] = chat[i]
    BY ChatGrows
  <2> QED
    BY <1>3, <2>1, <2>2 DEF AllGenuine, Genuine
<1>4. CASE PullAnswer(g, k)
  <2>1. pull'[g][k].list = ListChat(PageOf[g], pull[g][k].after) /\ UNCHANGED chat
    BY <1>1, <1>4 DEF PullAnswer, tables
  <2>2. Ascending(pull'[g][k].list) /\ AllGenuine(pull'[g][k].list, PageOf[g])
    BY <2>1, ListGenuine
  <2> QED
    BY <2>1, <2>2 DEF AllGenuine, Genuine
<1>5. ASSUME ~PullAnswer(g, k) PROVE pull'[g][k] = pull[g][k]
  <2>1. pull'[g][k] # NoPull
    BY <1>2 DEF NoPull
  <2>2. ASSUME NEW h \in Pages, NEW l \in Polls,
               PullAsk(h, l) \/ PullAnswer(h, l) \/ PullFail(h, l) \/ PullShow(h, l)
        PROVE  pull'[g][k] = pull[g][k]
    <3>1. CASE h # g \/ l # k
      BY <1>1, <2>2, <3>1 DEF PullAsk, PullAnswer, PullFail, PullShow
    <3>2. CASE h = g /\ l = k /\ ~PullAsk(h, l)
      BY <1>1, <1>5, <2>1, <2>2, <3>2 DEF PullFail, PullShow
    <3>3. CASE h = g /\ l = k /\ PullAsk(h, l)
      BY <1>1, <1>2, <3>3 DEF PullAsk
    <3> QED
      BY <3>1, <3>2, <3>3
  <2>3. ASSUME NEW h \in Pages, Close(h) PROVE pull'[g][k] = pull[g][k]
    BY <1>1, <2>1, <2>3 DEF Close, NoPulls
  <2>4. CASE Restart
    BY <1>1, <2>1, <2>4 DEF Restart
  <2>5. CASE UNCHANGED pull
    BY <2>5
  <2> QED
    BY <2>2, <2>3, <2>4, <2>5 DEF Next, vars, pages, Reader, Deliver, Run, Receive, Check, Store, Publish,
       Load, Subscribe, Disconnect, Event, ExportBegin, ExportRead, ExportEnd, OtherInsert
<1> QED
  BY <1>3, <1>4, <1>5

(* A genuine list that is in order keeps a page genuine. *)
LEMMA Shows ==
    ASSUME NEW g, NEW p \in PageStates, NEW list \in Seq(Entry), NEW q, q = AppendChat(p, list),
           Ascending(list), AllGenuine(list, PageOf[g]), PageGenuine(p, g)
    PROVE  /\ PageGenuine(q, g)
           /\ q \in PageStates
           /\ SubSeq(q.shown, 1, Len(p.shown)) = p.shown
<1>1. /\ q \in PageStates
      /\ \A k \in 1 .. Len(p.shown) : q.shown[k] = p.shown[k]
      /\ \A k \in 1 .. Len(q.shown) : k > Len(p.shown) => \E j \in DOMAIN list : q.shown[k] = list[j]
      /\ SubSeq(q.shown, 1, Len(p.shown)) = p.shown
      /\ Tidy(q)
  <2>1. Tidy(p)
    BY DEF PageGenuine
  <2>2. q \in PageStates /\ SubSeq(q.shown, 1, Len(p.shown)) = p.shown
    BY AppendFacts
  <2>3. \A k \in 1 .. Len(p.shown) : q.shown[k] = p.shown[k]
    BY AppendFacts
  <2>4. Added(p, q, list)
    BY AppendFacts
  <2>5. Tidy(q)
    BY <2>1, AppendFacts
  <2> QED
    BY <2>2, <2>3, <2>4, <2>5 DEF Added
<1>2. /\ DOMAIN p.shown = 1 .. Len(p.shown) /\ Len(p.shown) \in Nat
      /\ DOMAIN q.shown = 1 .. Len(q.shown) /\ Len(q.shown) \in Nat
  BY <1>1 DEF PageStates
<1>3. ASSUME NEW k \in 1 .. Len(q.shown) PROVE Genuine(q.shown[k], PageOf[g])
  <2>1. CASE k > Len(p.shown)
    BY <1>1, <2>1 DEF AllGenuine
  <2>2. CASE ~(k > Len(p.shown))
    <3>1. k \in 1 .. Len(p.shown)
      BY <1>2, <2>2
    <3> QED
      BY <1>1, <1>2, <3>1 DEF PageGenuine, AllGenuine
  <2> QED
    BY <2>1, <2>2
<1> QED
  BY <1>1, <1>2, <1>3 DEF PageGenuine, AllGenuine

(* What a step does to a page: nothing; it shows more; or it is opened or  *)
(* closed.                                                                 *)
Grows(p, q) == SubSeq(q.shown, 1, Len(p.shown)) = p.shown

LEMMA PageSteps ==
    ASSUME TypeOK, ClosedInv, QueuesGenuine, PullsGenuine, PagesGenuine,
           NEW g \in Pages, Load(g) \/ Close(g) \/ Event(g) \/ \E k \in Polls : PullShow(g, k)
    PROVE  /\ page' = [page EXCEPT ![g] = page'[g]]
           /\ page'[g] \in PageStates
           /\ PageGenuine(page'[g], g)
           /\ \/ page[g].shown = <<>> \/ page'[g].shown = <<>>
              \/ Grows(page[g], page'[g])
           /\ UNCHANGED chat
<1> DEFINE Opened == [Closed EXCEPT !.open = TRUE]
<1>1. /\ page \in [Pages -> PageStates] /\ sub \in [Pages -> [on : BOOLEAN, queue : Seq(Posted)]]
      /\ pull \in [Pages -> [Polls -> PollStates]] /\ PageGenuine(page[g], g)
  BY Types DEF PagesGenuine
<1>2. /\ Opened \in PageStates /\ Opened.shown = <<>> /\ PageGenuine(Opened, g)
      /\ Closed \in PageStates /\ Closed.shown = <<>> /\ PageGenuine(Closed, g)
  <2>1. Closed = [open |-> FALSE, mark |-> 0, shown |-> <<>>] /\ <<>> \in Seq(Entry)
    BY DEF Closed
  <2>2. Closed \in PageStates /\ Opened \in PageStates
    BY <2>1 DEF PageStates
  <2>3. Opened.shown = <<>> /\ Closed.shown = <<>>
    BY <2>1
  <2> HIDE DEF Opened
  <2> QED
    BY <2>2, <2>3 DEF PageGenuine, Tidy, Ascending, AllGenuine
<1> HIDE DEF Opened
<1>3. CASE Load(g)
  <2>1. PICK list \in {ListChat(PageOf[g], 0), <<>>} : page' = [page EXCEPT ![g] = AppendChat(Opened, list)]
    BY <1>3 DEF Load, Opened
  <2>2. list \in Seq(Entry) /\ Ascending(list) /\ AllGenuine(list, PageOf[g])
    <3>1. CASE list = <<>>
      BY <3>1 DEF Ascending, AllGenuine
    <3>2. CASE list = ListChat(PageOf[g], 0)
      BY <3>2, ListGenuine
    <3> QED
      BY <2>1, <3>1, <3>2
  <2>3. page'[g] = AppendChat(Opened, list) /\ page' = [page EXCEPT ![g] = page'[g]]
    BY <1>1, <2>1
  <2>4. PageGenuine(page'[g], g) /\ page'[g] \in PageStates
    BY <1>2, <2>2, <2>3, Shows
  <2>5. page[g].shown = <<>>
    BY <1>2, <1>3 DEF Load, ClosedInv
  <2> QED
    BY <1>3, <2>3, <2>4, <2>5 DEF Load, tables
<1>4. CASE Close(g)
  BY <1>1, <1>2, <1>4 DEF Close, tables
<1>5. CASE Event(g)
  <2> DEFINE e == Head(sub[g].queue)
             list == <<e.entry>>
  <2>1. sub[g].queue # <<>> /\ sub[g].queue \in Seq(Posted) /\ UNCHANGED chat
    BY <1>1, <1>5 DEF Event, tables
  <2>2. e \in Posted /\ e = sub[g].queue[1] /\ 1 \in DOMAIN sub[g].queue
    BY <2>1
  <2>3. Genuine(e.entry, e.sess) /\ e.entry \in Entry
    BY <2>2 DEF QueuesGenuine, Posted
  <2> HIDE DEF e
  <2>4. CASE ForPage(e, g)
    <3>1. /\ list \in Seq(Entry) /\ Len(list) = 1 /\ DOMAIN list = 1 .. 1 /\ list[1] = e.entry
      BY <2>3
    <3> HIDE DEF list
    <3>2. Ascending(list) /\ AllGenuine(list, PageOf[g])
      <4>1. \A k \in DOMAIN list : k = 1
        BY <3>1
      <4> QED
        BY <2>3, <2>4, <3>1, <4>1 DEF Ascending, AllGenuine, ForPage
    <3>3. page' = [page EXCEPT ![g] = AppendChat(page[g], list)]
      BY <1>5, <2>4 DEF Event, e, list
    <3>4. page'[g] = AppendChat(page[g], list) /\ page' = [page EXCEPT ![g] = page'[g]]
      BY <1>1, <3>3
    <3> QED
      BY <1>1, <2>1, <3>1, <3>2, <3>4, Shows DEF Grows
  <2>5. CASE ~ForPage(e, g)
    <3>1. page' = page
      BY <1>5, <2>5 DEF Event, e
    <3>2. SubSeq(page[g].shown, 1, Len(page[g].shown)) = page[g].shown
      BY <1>1, SubSeqFull DEF PageStates
    <3> QED
      BY <1>1, <2>1, <3>1, <3>2 DEF Grows
  <2> QED
    BY <2>4, <2>5
<1>6. ASSUME NEW k \in Polls, PullShow(g, k)
      PROVE  /\ page' = [page EXCEPT ![g] = page'[g]] /\ page'[g] \in PageStates
             /\ PageGenuine(page'[g], g) /\ Grows(page[g], page'[g]) /\ UNCHANGED chat
  <2> DEFINE list == pull[g][k].list
  <2>1. /\ pull[g][k].pc = "answered" /\ page' = [page EXCEPT ![g] = AppendChat(page[g], list)]
        /\ UNCHANGED chat
    BY <1>6 DEF PullShow, tables
  <2>2. list \in Seq(Entry) /\ Ascending(list) /\ AllGenuine(list, PageOf[g])
    BY <1>1, <2>1, PullCases DEF PullsGenuine
  <2> HIDE DEF list
  <2>3. page'[g] = AppendChat(page[g], list) /\ page' = [page EXCEPT ![g] = page'[g]]
    BY <1>1, <2>1
  <2> QED
    BY <1>1, <2>1, <2>2, <2>3, Shows DEF Grows
<1> QED
  BY <1>3, <1>4, <1>5, <1>6

LEMMA PagesGenuineNext ==
    ASSUME TypeOK, ClosedInv, QueuesGenuine, PullsGenuine, PagesGenuine, [Next]_vars
    PROVE  PagesGenuine'
<1>1. page \in [Pages -> PageStates]
  BY Types
<1>2. CASE UNCHANGED page
  <2>1. \A i \in DOMAIN chat : i \in DOMAIN chat' /\ chat'[i] = chat[i]
    BY ChatGrows
  <2> QED
    BY <1>2, <2>1 DEF PagesGenuine, PageGenuine, AllGenuine, Genuine, Tidy, Ascending
<1>3. ASSUME NEW h \in Pages, Load(h) \/ Close(h) \/ Event(h) \/ \E k \in Polls : PullShow(h, k)
      PROVE  PagesGenuine'
  <2>1. PageGenuine(page'[h], h) /\ page' = [page EXCEPT ![h] = page'[h]] /\ UNCHANGED chat
    BY <1>3, PageSteps
  <2>2. \A g \in Pages : PageGenuine(page'[g], g)
    BY <1>1, <2>1 DEF PagesGenuine
  <2> QED
    BY <2>1, <2>2 DEF PagesGenuine, PageGenuine, AllGenuine, Genuine, Tidy, Ascending
<1> QED
  BY <1>2, <1>3 DEF Next, vars, pages, Reader, Deliver, Run, Receive, Check, Store, Publish, Subscribe,
     Disconnect, PullAsk, PullAnswer, PullFail, ExportBegin, ExportRead, ExportEnd, OtherInsert, Restart

FeedInv == TypeOK /\ OnceInv /\ ClosedInv /\ GenuineInv

LEMMA FeedNext ==
    ASSUME "ack" \notin Faults
    PROVE  FeedInv /\ [Next]_vars => FeedInv'
<1> SUFFICES ASSUME FeedInv, [Next]_vars PROVE FeedInv'
  OBVIOUS
<1>1. TypeOK' /\ OnceInv' /\ ClosedInv'
  BY TypeNext, OnceNext, ClosedNext DEF FeedInv
<1>2. /\ TypeOK /\ OnceInv /\ ClosedInv
      /\ ReadersGenuine /\ QueuesGenuine /\ PullsGenuine /\ PagesGenuine
  BY GenuineParts DEF FeedInv
<1>3. ReadersGenuine' /\ QueuesGenuine' /\ PullsGenuine' /\ PagesGenuine'
  BY <1>2, ReadersGenuineNext, QueuesGenuineNext, PullsGenuineNext, PagesGenuineNext
<1>4. GenuineInv'
  BY <1>3 DEF GenuineInv, ReadersGenuine, QueuesGenuine, PullsGenuine, PagesGenuine, PageGenuine
<1> QED
  BY <1>1, <1>4 DEF FeedInv

LEMMA FeedBegins == Init => FeedInv
<1> SUFFICES ASSUME Init PROVE FeedInv
  OBVIOUS
<1>1. OnceInv
  BY DEF Init, OnceInv, NoReader
<1>2. ClosedInv
  BY DEF Init, ClosedInv, Unsubscribed
<1>3. GenuineInv
  <2>1. <<>> \in Seq(Entry) /\ DOMAIN <<>> = {}
    OBVIOUS
  <2> QED
    BY <2>1 DEF Init, GenuineInv, NoReader, Unsubscribed, NoPulls, NoPull, Closed, Tidy, Ascending, AllGenuine
<1> QED
  BY <1>1, <1>2, <1>3, InitType DEF FeedInv

-----------------------------------------------------------------------------
(* The promise.                                                            *)

(* A step that stores a message. *)
LEMMA StoreKeepsPromise ==
    ASSUME FeedInv, NEW r \in Readers, Store(r), chat' # chat
    PROVE  Promise!Store
<1>1. reader[r].pc = "store" /\ reader[r].msg \in Messages /\ reader[r].sess \in Sessions
  BY ReaderCases DEF Store, FeedInv, TypeOK
<1>2. /\ ~Stored(reader[r].msg)
      /\ chat' = Append(chat, [msg |-> reader[r].msg, sess |-> reader[r].sess])
      /\ UNCHANGED page
  BY <1>1 DEF Store, tables, pages, FeedInv, OnceInv
<1> QED
  BY <1>1, <1>2 DEF Promise!Store, Stored

(* A step that opens or closes a page or shows something on it. *)
LEMMA ShowKeepsPromise ==
    ASSUME FeedInv, NEW g \in Pages, Load(g) \/ Close(g) \/ Event(g) \/ \E k \in Polls : PullShow(g, k)
    PROVE  Promise!Show(g)
<1> DEFINE view == [h \in Pages |-> page[h].shown]
<1>1. /\ page \in [Pages -> PageStates]
      /\ page' = [page EXCEPT ![g] = page'[g]] /\ page'[g] \in PageStates
      /\ PageGenuine(page'[g], g) /\ UNCHANGED chat
      /\ \/ page[g].shown = <<>> \/ page'[g].shown = <<>> \/ Grows(page[g], page'[g])
  BY Types, PageSteps, GenuineParts DEF FeedInv
<1>2. view' = [view EXCEPT ![g] = view'[g]] /\ view[g] = page[g].shown /\ view'[g] = page'[g].shown
  BY <1>1
<1>3. Promise!Excerpt(view'[g], PageOf[g])
  <2> DEFINE new == page'[g].shown
  <2>1. new \in Seq(Entry) /\ Len(new) \in Nat /\ DOMAIN new = 1 .. Len(new)
    BY <1>1 DEF PageStates
  <2>2. \A k \in DOMAIN new : new[k].id \in DOMAIN chat
          /\ chat[new[k].id] = [msg |-> new[k].msg, sess |-> PageOf[g]]
    BY <1>1 DEF PageGenuine, AllGenuine, Genuine
  <2>3. \A k \in 1 .. Len(new) - 1 : new[k].id < new[k + 1].id
    <3>1. \A k \in 1 .. Len(new) - 1 : k \in DOMAIN new /\ k + 1 \in DOMAIN new /\ k < k + 1
      BY <2>1
    <3> QED
      BY <1>1, <3>1 DEF PageGenuine, Tidy, Ascending
  <2> QED
    BY <1>2, <2>2, <2>3 DEF Promise!Excerpt
<1> QED
  BY <1>1, <1>2, <1>3 DEF Promise!Show, Grows

(* A page shows messages of its session, in the order they were stored,    *)
(* each once, and keeps what it shows; and no message is stored twice.     *)
(* This needs Slack not to deliver a message again whose acknowledgement   *)
(* was lost: INSERT OR IGNORE then returns the id of another row.          *)
THEOREM FeedCorrect ==
    ASSUME "ack" \notin Faults
    PROVE  Spec => FeedSpec
<1>1. Init => Promise!Init
  BY DEF Init, Promise!Init, Closed
<1>2. FeedInv /\ [Next]_vars => [Promise!Next]_(<<chat, [g \in Pages |-> page[g].shown]>>)
  <2> SUFFICES ASSUME FeedInv, [Next]_vars
               PROVE  [Promise!Next]_(<<chat, [g \in Pages |-> page[g].shown]>>)
    OBVIOUS
  <2>1. ASSUME NEW r \in Readers, Store(r), chat' # chat PROVE Promise!Next
    BY <2>1, StoreKeepsPromise DEF Promise!Next
  <2>2. ASSUME NEW g \in Pages, Load(g) \/ Close(g) \/ Event(g) \/ \E k \in Polls : PullShow(g, k) PROVE Promise!Next
    BY <2>2, ShowKeepsPromise DEF Promise!Next
  <2>3. ASSUME NEW r \in Readers, Store(r) PROVE UNCHANGED page
    BY <2>3 DEF Store, pages
  <2>4. CASE UNCHANGED <<chat, page>>
    BY <2>4
  <2> QED
    BY <2>1, <2>2, <2>3, <2>4 DEF Next, vars, tables, pages, Reader, Deliver, Run, Receive, Check,
       Publish, Subscribe, Disconnect, PullAsk, PullAnswer, PullFail, ExportBegin, ExportRead,
       ExportEnd, OtherInsert, Restart
<1> QED
  BY <1>1, <1>2, FeedBegins, FeedNext, PTL DEF Spec, FeedSpec, Promise!Spec

(* The table has each message once: two readers never store the same one.  *)
EachOnce == \A i, j \in DOMAIN chat : i # j => chat[i].msg # chat[j].msg

LEMMA EachOnceNext ==
    ASSUME TypeOK, EachOnce, [Next]_vars
    PROVE  EachOnce'
<1>1. CASE UNCHANGED chat
  BY <1>1 DEF EachOnce
<1>2. ASSUME NEW r \in Readers, Store(r), chat' # chat PROVE EachOnce'
  <2> DEFINE row == [msg |-> reader[r].msg, sess |-> reader[r].sess]
  <2>1. /\ ~Stored(reader[r].msg) /\ chat' = Append(chat, row)
        /\ chat \in Seq(Table) /\ row \in Table
    <3>1. reader[r].msg \in Messages /\ reader[r].sess \in Sessions
      BY <1>2, ReaderCases DEF Store, TypeOK
    <3> QED
      BY <1>2, <3>1, Types DEF Store, tables, Table
  <2>2. /\ DOMAIN chat' = 1 .. Len(chat) + 1 /\ DOMAIN chat = 1 .. Len(chat) /\ Len(chat) \in Nat
        /\ chat'[Len(chat) + 1] = row /\ \A i \in 1 .. Len(chat) : chat'[i] = chat[i]
    BY <2>1, AppendProperties
  <2>3. \A i \in DOMAIN chat' : i \in DOMAIN chat \/ i = Len(chat) + 1
    BY <2>2
  <2>4. \A i \in DOMAIN chat : chat'[i] = chat[i] /\ chat[i].msg # chat'[Len(chat) + 1].msg
    BY <2>1, <2>2 DEF Stored
  <2> QED
    BY <2>3, <2>4 DEF EachOnce
<1> QED
  BY <1>1, <1>2 DEF Next, vars, tables, Reader, Deliver, Run, Receive, Check, Publish, Load, Close,
     Subscribe, Disconnect, Event, PullAsk, PullAnswer, PullFail, PullShow, ExportBegin, ExportRead,
     ExportEnd, OtherInsert, Restart

(* No page ever shows the same message twice, although it reaches the page *)
(* by two routes and a page tells what it has by ids, not by messages.     *)
THEOREM ShownOnce ==
    ASSUME "ack" \notin Faults
    PROVE  Spec => [](\A g \in Pages : \A j, k \in DOMAIN page[g].shown :
                        j # k => page[g].shown[j].msg # page[g].shown[k].msg)
<1> DEFINE Once == \A g \in Pages : \A j, k \in DOMAIN page[g].shown :
                      j # k => page[g].shown[j].msg # page[g].shown[k].msg
<1>1. Init => EachOnce
  BY DEF Init, EachOnce
<1>2. FeedInv /\ EachOnce => Once
  <2> SUFFICES ASSUME FeedInv, EachOnce, NEW g \in Pages,
                      NEW j \in DOMAIN page[g].shown, NEW k \in DOMAIN page[g].shown, j # k
               PROVE  page[g].shown[j].msg # page[g].shown[k].msg
    OBVIOUS
  <2> DEFINE s == page[g].shown
  <2>1. s \in Seq(Entry) /\ Ascending(s) /\ AllGenuine(s, PageOf[g])
    BY Types DEF FeedInv, GenuineInv, Tidy, PageStates
  <2> HIDE DEF s
  <2>2. j \in DOMAIN s /\ k \in DOMAIN s
    BY DEF s
  <2>3. s[j].id \in Nat /\ s[k].id \in Nat /\ (j < k \/ k < j)
    <3>1. s[j] \in Entry /\ s[k] \in Entry /\ j \in Nat /\ k \in Nat
      BY <2>1, <2>2
    <3> QED
      BY <3>1 DEF Entry
  <2>4. s[j].id # s[k].id
    BY <2>1, <2>2, <2>3 DEF Ascending
  <2>5. /\ s[j].id \in DOMAIN chat /\ chat[s[j].id].msg = s[j].msg
        /\ s[k].id \in DOMAIN chat /\ chat[s[k].id].msg = s[k].msg
    <3>1. Genuine(s[j], PageOf[g]) /\ Genuine(s[k], PageOf[g])
      BY <2>1, <2>2 DEF AllGenuine
    <3> QED
      BY <3>1 DEF Genuine
  <2>6. s[j].msg # s[k].msg
    BY <2>4, <2>5 DEF EachOnce
  <2> QED
    BY <2>6 DEF s
<1>3. FeedInv /\ EachOnce /\ [Next]_vars => EachOnce'
  BY EachOnceNext DEF FeedInv
<1> HIDE DEF Once
<1>4. Spec => []Once
  BY <1>1, <1>2, <1>3, FeedBegins, FeedNext, PTL DEF Spec
<1> QED
  BY <1>4 DEF Once
=============================================================================
