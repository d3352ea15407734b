----------------------------- MODULE RangeScan -----------------------------
(***************************************************************************)
(* A paginated range scan over the custom KV engine: the caller's loop of *)
(* the metadata service (a directory listing: "snapshot range scan with   *)
(* pagination, continuation cursor = last returned key") calling          *)
(* CustomTransaction::getRange or CustomReadOnlyTransaction::             *)
(* snapshotGetRange (src/src/fdb/CustomTransaction.h) until has_more is   *)
(* false, while writers commit concurrently.                              *)
(*                                                                         *)
(* Keys are 1..MaxKey in byte order; the scanned range is all of them.    *)
(* The store is the sequence of committed key sets.  A read-write         *)
(* transaction reads every page at the read version its first page began; *)
(* the read-only transaction begins a fresh read transaction at           *)
(* read_version_.value_or(0), the latest version, for every page.         *)
(*                                                                         *)
(* Both variants read pair_array.count after kv_pair_array_free, whose   *)
(* effect on the struct the library does not document: the read yields   *)
(* the count or 0 (a free that clears the struct).                        *)
(***************************************************************************)
EXTENDS Naturals, Sequences

CONSTANTS
    MaxKey,     \* keys are 1..MaxKey
    Limit,      \* the limit argument of every call
    MaxWrites,  \* bound on the concurrent commits
    Scanners    \* [scanner -> "readwrite" | "readonly"]

ASSUME RangeScanAssumption ==
    /\ MaxKey \in Nat \ {0}
    /\ Limit \in Nat \ {0}
    /\ MaxWrites \in Nat
    /\ \A s \in DOMAIN Scanners : Scanners[s] \in {"readwrite", "readonly"}

Keys == 1..MaxKey

VARIABLES
    store,      \* committed key sets: store[v] is version v
    rv,         \* per scanner: read version of its read-write transaction (0: none)
    cursor,     \* per scanner: the begin selector of its next call
    got,        \* per scanner: the keys returned so far, in order
    pc          \* per scanner: "call", "done" or "failed"

vars == <<store, rv, cursor, got, pc>>

S == DOMAIN Scanners

\* The type invariant.
TypeOK ==
    /\ store \in Seq(SUBSET Keys) /\ Len(store) >= 1
    /\ rv \in [S -> 0..Len(store)]
    /\ cursor \in [S -> [key : 0..MaxKey, inclusive : BOOLEAN]]
    /\ got \in [S -> Seq(Keys)]
    /\ pc \in [S -> {"call", "done", "failed"}]

Init ==
    /\ \E init \in SUBSET Keys : store = <<init>>
    /\ rv = [s \in S |-> 0]
    /\ cursor = [s \in S |-> [key |-> 0, inclusive |-> TRUE]]
    /\ got = [s \in S |-> <<>>]
    /\ pc = [s \in S |-> "call"]

\* The keys of a sequence.
Elems(q) == {q[i] : i \in DOMAIN q}

\* q lists keys of X in increasing order, and every key of X it leaves out
\* comes after all of them: q is a prefix of X in key order.
IsSortedPrefix(q, X) ==
    /\ Elems(q) \subseteq X
    /\ \A i, j \in DOMAIN q : i < j => q[i] < q[j]
    /\ \A k \in X \ Elems(q) : \A i \in DOMAIN q : q[i] < k

\* The answers to a range read that returns the first Limit keys of the
\* set in order (the set of them has exactly one element).
FirstKeys(X) ==
    {q \in UNION {[1..n -> X] : n \in 0..Limit} :
        IsSortedPrefix(q, X) /\ (Len(q) = Limit \/ Elems(q) = X)}

\* Mutant of PageOf: the begin_or_equal flags swapped, so an exclusive
\* selector includes its key.
PageOfFlagsSwapped(keys, b) ==
    FirstKeys({k \in keys : IF b.inclusive THEN k > b.key ELSE k >= b.key})

\* The pages kv_*_get_range can return for begin selector b
\* (begin_or_equal is 0 for an inclusive selector, 1 for an exclusive one)
\* and an end past the last key: the first Limit keys of the version from
\* the selector on, in order.
PageOf(keys, b) ==
    FirstKeys({k \in keys : IF b.inclusive THEN k >= b.key ELSE k > b.key})

\* has_more as each variant computes it from the count it reads.
HasMore(s, count) ==
    IF Scanners[s] = "readwrite"
    THEN count # 0 /\ count = Limit
    ELSE count = Limit

\* Mutant of ReadVersion: every call reads the latest version, as if each
\* getRange began a new transaction.
ReadVersionLatest(s) == Len(store)

\* The version a call of scanner s reads, and its read version afterwards:
\* getRange's ensureTransaction begins the transaction on the first call.
ReadVersion(s) ==
    IF Scanners[s] = "readwrite" /\ rv[s] # 0 THEN rv[s] ELSE Len(store)

\* The next cursor: the last returned key, exclusive.
Continue(s, page) == [key |-> page[Len(page)], inclusive |-> FALSE]

\* One call of the scan: the page is appended; has_more decides whether
\* the loop calls again from the last key (a page with no key ends the
\* loop: there is no key to continue from).
Page(s) ==
    /\ pc[s] = "call"
    /\ LET v == ReadVersion(s)
       IN \E page \in PageOf(store[v], cursor[s]) :
          \E count \in {Len(page), 0} :
             /\ got' = [got EXCEPT ![s] = @ \o page]
             /\ rv' = [rv EXCEPT ![s] = IF Scanners[s] = "readwrite" THEN v
                                        ELSE 0]
             /\ IF HasMore(s, count) /\ page # <<>>
                   THEN /\ cursor' = [cursor EXCEPT ![s] = Continue(s, page)]
                        /\ UNCHANGED pc
                   ELSE /\ pc' = [pc EXCEPT ![s] = "done"]
                        /\ UNCHANGED cursor
    /\ UNCHANGED store

\* The call fails: the read transaction or the range read fails
\* (kIOError), or the server timed out the read-write transaction.
PageFails(s) ==
    /\ pc[s] = "call"
    /\ pc' = [pc EXCEPT ![s] = "failed"]
    /\ UNCHANGED <<store, rv, cursor, got>>

\* Another transaction commits: it inserts or deletes one key.
Commit(k) ==
    /\ Len(store) <= MaxWrites
    /\ LET cur == store[Len(store)]
       IN store' = Append(store, IF k \in cur THEN cur \ {k} ELSE cur \cup {k})
    /\ UNCHANGED <<rv, cursor, got, pc>>

Next ==
    \/ \E s \in S : Page(s) \/ PageFails(s)
    \/ \E k \in Keys : Commit(k)

Spec == Init /\ [][Next]_vars

-----------------------------------------------------------------------------
(* Properties *)

\* Pages never overlap or go backwards: the keys a scan collects are
\* strictly increasing (the cursor resumes after the last returned key).
ScanInOrder ==
    \A s \in S : \A i \in 1..(Len(got[s]) - 1) : got[s][i] < got[s][i + 1]

\* A read-write scan is a consistent prefix: the keys it has collected
\* so far, over several calls and concurrent commits, are the first keys
\* of the one version its transaction reads.
ScanIsSnapshotPrefix ==
    \A s \in S : Scanners[s] = "readwrite" /\ rv[s] # 0 =>
        IsSortedPrefix(got[s], store[rv[s]])

\* A finished scan returned exactly the keys of one version of the store
\* (a snapshot range scan, as the listing requires).
ScanComplete ==
    \A s \in S : pc[s] = "done" =>
        \E v \in 1..Len(store) : Elems(got[s]) = store[v]
=============================================================================
