--------------------------- MODULE RangeScanProofs ---------------------------
(***************************************************************************)
(* Proofs about the paginated range scan for every number of keys, every  *)
(* limit, every bound on the concurrent commits and every set of scanners. *)
(*                                                                         *)
(* ScanInOrder is not inductive by itself: a page continues the scan only *)
(* because the cursor is the last key collected, exclusive.  ScanInv adds *)
(* that fact about the cursor (CursorAtLast), and for a read-write scan   *)
(* that the keys collected are a prefix, in key order, of the one version *)
(* its transaction reads (SnapshotPrefix), which is ScanIsSnapshotPrefix  *)
(* together with the fact that nothing is collected before the read       *)
(* version is fixed.  A page is the first keys of the version after the   *)
(* cursor (PageFacts), so appending it keeps both (AppendSortedPrefix).   *)
(***************************************************************************)
EXTENDS RangeScan, SequenceTheorems, TLAPS

\* The keys of q are strictly increasing.
Increasing(q) == \A i, j \in DOMAIN q : i < j => q[i] < q[j]

\* A scan that will call again resumes from the start, or just after the
\* last key it collected.
CursorAtLast(s) ==
    pc[s] = "call" =>
        \/ got[s] = <<>> /\ cursor[s] = [key |-> 0, inclusive |-> TRUE]
        \/ got[s] # <<>>
           /\ cursor[s] = [key |-> got[s][Len(got[s])], inclusive |-> FALSE]

\* A read-write scan collects nothing before its transaction has a read
\* version, and then a prefix of that version in key order.
SnapshotPrefix(s) ==
    Scanners[s] = "readwrite" =>
        /\ rv[s] = 0 => got[s] = <<>>
        /\ rv[s] # 0 => IsSortedPrefix(got[s], store[rv[s]])

ScanInv ==
    /\ TypeOK
    /\ \A s \in S : Increasing(got[s]) /\ CursorAtLast(s) /\ SnapshotPrefix(s)

-----------------------------------------------------------------------------
(* Lemmas about sequences of keys. *)

\* The keys of a concatenation.
LEMMA ElemsConcat ==
    ASSUME NEW g \in Seq(Nat), NEW p \in Seq(Nat)
    PROVE  Elems(g \o p) = Elems(g) \cup Elems(p)
<1>1. /\ Len(g \o p) = Len(g) + Len(p)
      /\ \A i \in 1 .. Len(g) + Len(p) :
            (g \o p)[i] = IF i <= Len(g) THEN g[i] ELSE p[i - Len(g)]
      /\ DOMAIN (g \o p) = 1 .. Len(g) + Len(p)
      /\ DOMAIN g = 1 .. Len(g) /\ DOMAIN p = 1 .. Len(p)
      /\ Len(g) \in Nat /\ Len(p) \in Nat
  BY ConcatProperties, LenProperties
<1>2. ASSUME NEW i \in DOMAIN (g \o p) PROVE (g \o p)[i] \in Elems(g) \cup Elems(p)
  <2>1. CASE i <= Len(g)
    BY <1>1, <2>1 DEF Elems
  <2>2. CASE i > Len(g)
    <3>1. i - Len(g) \in DOMAIN p
      BY <1>1, <2>2
    <3> QED
      BY <1>1, <2>2, <3>1 DEF Elems
  <2> QED
    BY <1>1, <2>1, <2>2
<1>3. ASSUME NEW i \in DOMAIN g PROVE g[i] \in Elems(g \o p)
  <2>1. i \in DOMAIN (g \o p) /\ (g \o p)[i] = g[i]
    BY <1>1
  <2> QED
    BY <2>1 DEF Elems
<1>4. ASSUME NEW j \in DOMAIN p PROVE p[j] \in Elems(g \o p)
  <2> DEFINE i == Len(g) + j
  <2>0. i \in 1 .. Len(g) + Len(p) /\ ~(i <= Len(g)) /\ i - Len(g) = j
    BY <1>1
  <2>1. i \in DOMAIN (g \o p) /\ (g \o p)[i] = p[j]
    <3>1. (g \o p)[i] = IF i <= Len(g) THEN g[i] ELSE p[i - Len(g)]
      BY <1>1, <2>0
    <3> QED
      BY <1>1, <2>0, <3>1
  <2> QED
    BY <2>1 DEF Elems
<1> QED
  BY <1>2, <1>3, <1>4 DEF Elems

\* Two increasing sequences, every key of the first below every key of the
\* second, concatenate to an increasing sequence.
LEMMA ConcatIncreasing ==
    ASSUME NEW g \in Seq(Nat), NEW p \in Seq(Nat),
           Increasing(g), Increasing(p),
           \A i \in DOMAIN g, j \in DOMAIN p : g[i] < p[j]
    PROVE  Increasing(g \o p)
BY DEF Increasing

\* A page is a sequence of keys of the set it is taken from, increasing,
\* and a prefix of that set in key order.
LEMMA PageFacts ==
    ASSUME NEW Y \in SUBSET Keys, NEW p \in FirstKeys(Y)
    PROVE  p \in Seq(Keys) /\ IsSortedPrefix(p, Y) /\ Increasing(p)
<1>1. PICK n \in 0..Limit : p \in [1..n -> Y]
  BY DEF FirstKeys
<1>2. p \in Seq(Keys)
  BY <1>1, RangeScanAssumption
<1> QED
  BY <1>2 DEF FirstKeys, IsSortedPrefix, Increasing

\* Appending to a prefix g of X, in key order, a prefix p in key order of
\* the keys Y of X that follow every key of g, where g already holds every
\* key of X outside Y, gives a prefix of X in key order.
LEMMA AppendSortedPrefix ==
    ASSUME NEW X, NEW Y \in SUBSET X, NEW g \in Seq(Nat), NEW p \in Seq(Nat),
           IsSortedPrefix(g, X), IsSortedPrefix(p, Y),
           \A k \in X \ Y : k \in Elems(g),
           \A k \in Y : \A i \in DOMAIN g : g[i] < k
    PROVE  IsSortedPrefix(g \o p, X)
<1>1. Elems(g \o p) = Elems(g) \cup Elems(p)
  BY ElemsConcat
<1>2. Elems(g \o p) \subseteq X
  BY <1>1 DEF IsSortedPrefix
<1>3. Increasing(g \o p)
  <2>1. \A i \in DOMAIN g, j \in DOMAIN p : g[i] < p[j]
    BY DEF IsSortedPrefix, Elems
  <2> QED
    BY <2>1, ConcatIncreasing DEF IsSortedPrefix, Increasing
<1>4. ASSUME NEW k \in X \ Elems(g \o p), NEW m \in DOMAIN (g \o p)
      PROVE  (g \o p)[m] < k
  <2>1. k \in Y /\ k \notin Elems(p) /\ k \notin Elems(g)
    BY <1>1, <1>4
  <2>2. \A e \in Elems(g) \cup Elems(p) : e < k
    BY <2>1 DEF IsSortedPrefix, Elems
  <2>3. (g \o p)[m] \in Elems(g) \cup Elems(p)
    BY <1>1 DEF Elems
  <2> QED
    BY <2>2, <2>3
<1> QED
  BY <1>2, <1>3, <1>4 DEF IsSortedPrefix, Increasing
\* Every key of an increasing sequence is at most its last key.
LEMMA AtMostLast ==
    ASSUME NEW g \in Seq(Nat), g # <<>>, Increasing(g)
    PROVE  /\ Len(g) \in DOMAIN g /\ g[Len(g)] \in Nat
           /\ \A i \in DOMAIN g : g[i] \in Nat /\ g[i] <= g[Len(g)]
<1>1. Len(g) \in Nat \ {0} /\ DOMAIN g = 1..Len(g) /\ g \in [1..Len(g) -> Nat]
  BY LenProperties, EmptySeq
<1> QED
  BY <1>1 DEF Increasing

\* A key of X not after the last key of a prefix g of X in key order is
\* one of g's keys.
LEMMA UpToLastCollected ==
    ASSUME NEW X \in SUBSET Nat, NEW g \in Seq(Nat), g # <<>>,
           IsSortedPrefix(g, X), NEW k \in X, k <= g[Len(g)]
    PROVE  k \in Elems(g)
<1>1. Len(g) \in DOMAIN g /\ g[Len(g)] \in Nat
  BY AtMostLast DEF IsSortedPrefix, Increasing
<1> QED
  BY <1>1 DEF IsSortedPrefix

-----------------------------------------------------------------------------
(* The inductive invariant. *)

\* The scans start with nothing collected, from the first key.
LEMMA InitScanInv == Init => ScanInv
<1> SUFFICES ASSUME Init PROVE ScanInv
  OBVIOUS
<1>1. TypeOK
  BY RangeScanAssumption DEF Init, TypeOK
<1>2. ASSUME NEW s \in S
      PROVE  Increasing(got[s]) /\ CursorAtLast(s) /\ SnapshotPrefix(s)
  BY DEF Init, Increasing, CursorAtLast, SnapshotPrefix
<1> QED
  BY <1>1, <1>2 DEF ScanInv

\* A call of scan s appends its page after the keys already collected and
\* moves the cursor to the page's last key: the scan stays in order and,
\* read-write, a prefix of its read version.
LEMMA PageStep ==
    ASSUME ScanInv, NEW s \in S, Page(s)
    PROVE  ScanInv'
<1> USE RangeScanAssumption
<1> DEFINE v == ReadVersion(s)
           X == store[v]
           Y == {k \in X : IF cursor[s].inclusive THEN k >= cursor[s].key
                                                  ELSE k > cursor[s].key}
           g == got[s]
<1> USE DEF v, X, Y, g
<1>1. TypeOK
  BY DEF ScanInv
<1>2. v \in 1..Len(store)
  BY <1>1 DEF ReadVersion, TypeOK
<1>3. X \in SUBSET Keys
  BY <1>1, <1>2 DEF TypeOK
<1>4. X \subseteq Nat
  BY <1>3 DEF Keys
<1>5. \A k \in X : k \in Y <=> IF cursor[s].inclusive THEN k >= cursor[s].key
                                                     ELSE k > cursor[s].key
  OBVIOUS
<1>6. /\ g \in Seq(Keys)
      /\ Increasing(g) /\ CursorAtLast(s) /\ SnapshotPrefix(s)
      /\ pc[s] = "call" /\ store' = store
  BY <1>1 DEF ScanInv, TypeOK, Page
<1>7. g \in Seq(Nat)
  <2>1. Keys \subseteq Nat
    BY DEF Keys
  <2> QED
    BY <1>6, <2>1, SeqMonotonic
\* The keys after the cursor come after every key collected so far.
<1>8. \A k \in Y : \A i \in DOMAIN g : g[i] < k
  <2>1. CASE g = <<>>
    BY <2>1
  <2>2. CASE g # <<>>
    <3>1. cursor[s] = [key |-> g[Len(g)], inclusive |-> FALSE]
      BY <1>6, <2>2 DEF CursorAtLast
    <3>2. /\ g[Len(g)] \in Nat
          /\ \A i \in DOMAIN g : g[i] \in Nat /\ g[i] <= g[Len(g)]
      BY <1>6, <1>7, <2>2, AtMostLast
    <3>3. ASSUME NEW k \in Y PROVE k \in Nat /\ k > g[Len(g)]
      <4>1. k \in X
        OBVIOUS
      <4>2. k \in Nat
        BY <1>4, <4>1
      <4> QED
        BY <1>5, <3>1, <4>1, <4>2
    <3> QED
      BY <3>2, <3>3
  <2> QED
    BY <2>1, <2>2
\* A read-write scan has collected a prefix of the version it reads, and
\* every key of that version before the cursor.
<1>9. ASSUME Scanners[s] = "readwrite"
      PROVE  /\ IsSortedPrefix(g, X)
             /\ \A k \in X \ Y : k \in Elems(g)
  <2>1. CASE g = <<>>
    <3>1. cursor[s] = [key |-> 0, inclusive |-> TRUE]
      BY <1>6, <2>1 DEF CursorAtLast
    <3>2. \A k \in X : k \in Y
      BY <1>4, <1>5, <3>1
    <3> QED
      BY <2>1, <3>2 DEF IsSortedPrefix, Elems
  <2>2. CASE g # <<>>
    <3>1. rv[s] # 0 /\ v = rv[s]
      BY <1>6, <1>9, <2>2 DEF SnapshotPrefix, ReadVersion
    <3>2. IsSortedPrefix(g, X)
      BY <1>6, <1>9, <3>1 DEF SnapshotPrefix
    <3>3. cursor[s] = [key |-> g[Len(g)], inclusive |-> FALSE]
      BY <1>6, <2>2 DEF CursorAtLast
    <3>4. ASSUME NEW k \in X \ Y PROVE k \in Elems(g)
      <4>1. k \in Nat /\ g[Len(g)] \in Nat
        BY <1>4, <1>6, <1>7, <2>2, AtMostLast
      <4>2. k <= g[Len(g)]
        BY <1>5, <3>3, <4>1
      <4> QED
        BY <1>4, <1>7, <2>2, <3>2, <4>2, UpToLastCollected
    <3> QED
      BY <3>2, <3>4
  <2> QED
    BY <2>1, <2>2
<1>10. PICK page \in FirstKeys(Y) :
        \E count \in {Len(page), 0} :
          /\ got' = [got EXCEPT ![s] = @ \o page]
          /\ rv' = [rv EXCEPT ![s] = IF Scanners[s] = "readwrite" THEN v
                                     ELSE 0]
          /\ IF HasMore(s, count) /\ page # <<>>
                THEN /\ cursor' = [cursor EXCEPT ![s] = Continue(s, page)]
                     /\ UNCHANGED pc
                ELSE /\ pc' = [pc EXCEPT ![s] = "done"]
                     /\ UNCHANGED cursor
  BY DEF Page, PageOf
<1>11. PICK count \in {Len(page), 0} :
          /\ got' = [got EXCEPT ![s] = @ \o page]
          /\ rv' = [rv EXCEPT ![s] = IF Scanners[s] = "readwrite" THEN v
                                     ELSE 0]
          /\ IF HasMore(s, count) /\ page # <<>>
                THEN /\ cursor' = [cursor EXCEPT ![s] = Continue(s, page)]
                     /\ UNCHANGED pc
                ELSE /\ pc' = [pc EXCEPT ![s] = "done"]
                     /\ UNCHANGED cursor
  BY <1>10
<1>12. /\ page \in Seq(Keys) /\ page \in Seq(Nat)
       /\ IsSortedPrefix(page, Y) /\ Increasing(page)
  <2>1. Y \in SUBSET Keys
    BY <1>3
  <2>2. Keys \subseteq Nat
    BY DEF Keys
  <2> QED
    BY <2>1, <2>2, PageFacts, SeqMonotonic
<1>13. got'[s] = g \o page
  BY <1>1, <1>11 DEF TypeOK
<1>14. Increasing(got'[s])
  <2>1. \A i \in DOMAIN g, j \in DOMAIN page : g[i] < page[j]
    BY <1>8, <1>12 DEF IsSortedPrefix, Elems
  <2> QED
    BY <1>6, <1>7, <1>12, <1>13, <2>1, ConcatIncreasing
<1>15. CursorAtLast(s)'
  <2>1. CASE HasMore(s, count) /\ page # <<>>
    <3>1. cursor'[s] = [key |-> page[Len(page)], inclusive |-> FALSE]
      BY <1>1, <1>11, <2>1 DEF TypeOK, Continue
    <3>2. Len(page) \in Nat \ {0}
      BY <1>12, <2>1, LenProperties, EmptySeq
    <3>3. /\ Len(g \o page) = Len(g) + Len(page)
          /\ (g \o page)[Len(g) + Len(page)] = page[Len(page)]
          /\ Len(g) \in Nat
      BY <1>7, <1>12, <3>2, ConcatProperties, LenProperties
    <3>4. got'[s] # <<>> /\ got'[s][Len(got'[s])] = page[Len(page)]
      BY <1>13, <3>2, <3>3
    <3> QED
      BY <3>1, <3>4 DEF CursorAtLast
  <2>2. CASE ~(HasMore(s, count) /\ page # <<>>)
    <3>1. pc'[s] = "done"
      BY <1>1, <1>11, <2>2 DEF TypeOK
    <3> QED
      BY <3>1 DEF CursorAtLast
  <2> QED
    BY <2>1, <2>2
<1>16. SnapshotPrefix(s)'
  <2>1. CASE Scanners[s] = "readwrite"
    <3>1. rv'[s] = v /\ v # 0
      BY <1>1, <1>2, <1>11, <2>1 DEF TypeOK
    <3>2. IsSortedPrefix(g \o page, X)
      BY <1>7, <1>8, <1>9, <1>12, <2>1, AppendSortedPrefix
    <3> QED
      BY <1>6, <1>13, <3>1, <3>2 DEF SnapshotPrefix
  <2>2. CASE Scanners[s] # "readwrite"
    BY <2>2 DEF SnapshotPrefix
  <2> QED
    BY <2>1, <2>2
<1>17. TypeOK'
  <2>1. got' \in [S -> Seq(Keys)]
    <3>1. g \o page \in Seq(Keys)
      BY <1>6, <1>12, ConcatProperties
    <3> QED
      BY <1>1, <1>11, <3>1 DEF TypeOK
  <2>2. rv' \in [S -> 0..Len(store')]
    BY <1>1, <1>2, <1>6, <1>11 DEF TypeOK
  <2>3. cursor' \in [S -> [key : 0..MaxKey, inclusive : BOOLEAN]]
    <3>1. CASE HasMore(s, count) /\ page # <<>>
      <4>1. Len(page) \in Nat \ {0}
        BY <1>12, <3>1, LenProperties, EmptySeq
      <4>2. page[Len(page)] \in 0..MaxKey
        BY <1>12, <4>1, ElementOfSeq DEF Keys
      <4>3. cursor' = [cursor EXCEPT ![s] = [key |-> page[Len(page)],
                                             inclusive |-> FALSE]]
        BY <1>11, <3>1 DEF Continue
      <4> QED
        BY <1>1, <4>2, <4>3 DEF TypeOK
    <3>2. CASE ~(HasMore(s, count) /\ page # <<>>)
      BY <1>1, <1>11, <3>2 DEF TypeOK
    <3> QED
      BY <3>1, <3>2
  <2>4. pc' \in [S -> {"call", "done", "failed"}]
    BY <1>1, <1>11 DEF TypeOK
  <2> QED
    BY <1>1, <1>6, <2>1, <2>2, <2>3, <2>4 DEF TypeOK
<1>18. ASSUME NEW u \in S, u # s
       PROVE  Increasing(got'[u]) /\ CursorAtLast(u)' /\ SnapshotPrefix(u)'
  <2>1. /\ got'[u] = got[u] /\ cursor'[u] = cursor[u] /\ pc'[u] = pc[u]
        /\ rv'[u] = rv[u]
    BY <1>1, <1>11, <1>18 DEF TypeOK
  <2>2. Increasing(got[u]) /\ CursorAtLast(u) /\ SnapshotPrefix(u)
    BY DEF ScanInv
  <2> QED
    BY <1>6, <2>1, <2>2 DEF Increasing, CursorAtLast, SnapshotPrefix
<1> QED
  BY <1>14, <1>15, <1>16, <1>17, <1>18 DEF ScanInv

\* A failed call only ends its scan.
LEMMA PageFailsStep ==
    ASSUME ScanInv, NEW s \in S, PageFails(s)
    PROVE  ScanInv'
<1>1. TypeOK
  BY DEF ScanInv
<1>2. TypeOK'
  BY <1>1 DEF TypeOK, PageFails
<1>3. ASSUME NEW u \in S
      PROVE  Increasing(got'[u]) /\ CursorAtLast(u)' /\ SnapshotPrefix(u)'
  <2>1. /\ got' = got /\ cursor' = cursor /\ rv' = rv /\ store' = store
        /\ pc'[u] = IF u = s THEN "failed" ELSE pc[u]
    BY <1>1 DEF TypeOK, PageFails
  <2>2. Increasing(got[u]) /\ CursorAtLast(u) /\ SnapshotPrefix(u)
    BY DEF ScanInv
  <2> QED
    BY <2>1, <2>2 DEF Increasing, CursorAtLast, SnapshotPrefix
<1> QED
  BY <1>2, <1>3 DEF ScanInv

\* A concurrent commit appends a version and changes none of the
\* versions a scan may be reading.
LEMMA CommitStep ==
    ASSUME ScanInv, NEW k \in Keys, Commit(k)
    PROVE  ScanInv'
<1> DEFINE cur == store[Len(store)]
           new == IF k \in cur THEN cur \ {k} ELSE cur \cup {k}
<1> USE DEF cur, new
<1>1. TypeOK
  BY DEF ScanInv
<1>2. new \in SUBSET Keys
  BY <1>1 DEF TypeOK
<1>3. /\ store' = Append(store, new)
      /\ UNCHANGED <<rv, cursor, got, pc>>
  BY DEF Commit
<1>4. /\ store' \in Seq(SUBSET Keys)
      /\ Len(store') = Len(store) + 1
      /\ \A i \in 1..Len(store) : store'[i] = store[i]
  BY <1>1, <1>2, <1>3, AppendProperties DEF TypeOK
<1>5. TypeOK'
  BY <1>1, <1>3, <1>4 DEF TypeOK
<1>6. ASSUME NEW u \in S
      PROVE  Increasing(got'[u]) /\ CursorAtLast(u)' /\ SnapshotPrefix(u)'
  <2>1. Increasing(got[u]) /\ CursorAtLast(u) /\ SnapshotPrefix(u)
    BY DEF ScanInv
  <2>2. rv[u] # 0 => store'[rv[u]] = store[rv[u]]
    BY <1>1, <1>4 DEF TypeOK
  <2> QED
    BY <1>3, <2>1, <2>2 DEF Increasing, CursorAtLast, SnapshotPrefix
<1> QED
  BY <1>5, <1>6 DEF ScanInv

\* ScanInv holds in every reachable state.
LEMMA ScanInvInvariant == Spec => []ScanInv
<1>1. Init => ScanInv
  BY InitScanInv
<1>2. ScanInv /\ [Next]_vars => ScanInv'
  <2> SUFFICES ASSUME ScanInv, [Next]_vars PROVE ScanInv'
    OBVIOUS
  <2>1. ASSUME NEW s \in S, Page(s) PROVE ScanInv'
    BY <2>1, PageStep
  <2>2. ASSUME NEW s \in S, PageFails(s) PROVE ScanInv'
    BY <2>2, PageFailsStep
  <2>3. ASSUME NEW k \in Keys, Commit(k) PROVE ScanInv'
    BY <2>3, CommitStep
  <2>4. CASE UNCHANGED vars
    BY <2>4 DEF ScanInv, TypeOK, Increasing, CursorAtLast, SnapshotPrefix,
               vars
  <2> QED
    BY <2>1, <2>2, <2>3, <2>4 DEF Next
<1> QED
  BY <1>1, <1>2, PTL DEF Spec

-----------------------------------------------------------------------------
(* The properties range_scan checks. *)

\* Pages never overlap or go backwards: the keys every scan collects, over
\* all its calls, are strictly increasing (the cursor is the last key
\* returned, exclusive).
THEOREM ScanInOrderHolds == Spec => []ScanInOrder
<1>1. ScanInv => ScanInOrder
  <2> SUFFICES ASSUME ScanInv, NEW s \in S,
                      NEW i \in 1..(Len(got[s]) - 1)
               PROVE  got[s][i] < got[s][i + 1]
    BY DEF ScanInOrder
  <2>1. got[s] \in Seq(Keys) /\ Increasing(got[s])
    BY DEF ScanInv, TypeOK
  <2>2. i \in DOMAIN got[s] /\ i + 1 \in DOMAIN got[s]
    BY <2>1, LenProperties
  <2> QED
    BY <2>1, <2>2 DEF Increasing
<1> QED
  BY <1>1, ScanInvInvariant, PTL

\* A read-write scan is a consistent prefix: whatever commits run between
\* its calls, the keys it has collected are the first keys, in order, of
\* the one version its transaction reads (getRange reads every page at the
\* read version ensureTransaction fixed).
THEOREM ScanIsSnapshotPrefixHolds == Spec => []ScanIsSnapshotPrefix
<1>1. ScanInv => ScanIsSnapshotPrefix
  BY DEF ScanInv, SnapshotPrefix, ScanIsSnapshotPrefix
<1> QED
  BY <1>1, ScanInvInvariant, PTL
=============================================================================
