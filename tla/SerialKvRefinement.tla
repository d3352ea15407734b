------------------------- MODULE SerialKvRefinement -------------------------
(***************************************************************************)
(* Proof that CustomTransaction, on top of KvServer, implements SerialKv  *)
(* under the mapping of CustomTransaction's Serial instance, for every    *)
(* set of objects, keys and values and every clock bound.                 *)
(*                                                                         *)
(* Initial states map to SerialKv's initial state.  A step maps to:       *)
(*   - Read(t, k, v) when the server answers get() on t with value v;     *)
(*   - Commit(t) when the server accepts t's commit: the commit appends   *)
(*     Installed(s) to the history, which is the store with t's writes,   *)
(*     and ReadsInv (proved in CustomTransactionProofs) gives that every *)
(*     value t read is still the latest state's value;                    *)
(*   - a stutter otherwise.  That every other step leaves "done" alone    *)
(*     rests on CommittedFinished: a committed object is cancelled, reset *)
(*     or committed_, so no method of it can begin a fresh server         *)
(*     transaction over the committed one, and cancel() and the server   *)
(*     timeout abort only open transactions.                              *)
(***************************************************************************)
EXTENDS CustomTransactionProofs, TLAPS

\* The refinement mapping, as state functions.
storeBar == db[Len(db)].val
doneBar == [u \in Txns |-> srv[u].st = "committed"]

\* TypeInv and ReadsInv hold in every reachable state.
LEMMA ReadsInvInvariant == Spec => [](TypeInv /\ ReadsInv)
<1>1. Init => ReadsInv
  BY DEF Init, ServerInit, NoSrvTxn, ReadsInv, DbStable, WrittenBetween,
     NoReadsBeforeBegin, CommittedFinished, OpenReadsTracked,
     CommittedReadsValid
<1>2. TypeInv /\ ReadsInv /\ [Next]_vars => ReadsInv'
  BY ReadsInvStep
<1>3. Init /\ [][Next]_vars => []TypeInv
  BY TypeInvInductive
<1>4. TypeInv /\ [Next]_vars => TypeInv'
  BY TypeInvStep
<1> QED
  BY <1>1, <1>2, <1>3, <1>4, PTL DEF Spec

\* A step that leaves the history and the tracked reads alone, and no
\* object's committed status, is a stutter of SerialKv.
LEMMA SerialStutter ==
    ASSUME db' = db, tracked' = tracked,
           \A u \in Txns : (srv'[u].st = "committed") = (srv[u].st = "committed")
    PROVE  UNCHANGED Serial!vars
<1>1. doneBar' = doneBar
  BY DEF doneBar
<1> QED
  BY <1>1 DEF Serial!vars, doneBar

\* A step that changes only object t's server transaction, to one that is
\* committed exactly when the old one was, keeps every committed status.
LEMMA SameStatus ==
    ASSUME NEW t \in Txns, NEW n, srv \in [Txns -> SrvTxn],
           srv' = [srv EXCEPT ![t] = n],
           (n.st = "committed") = (srv[t].st = "committed")
    PROVE  \A u \in Txns : (srv'[u].st = "committed") = (srv[u].st = "committed")
OBVIOUS

\* The server transaction that ensureTransaction yields for an unfinished
\* object has not committed.
LEMMA EnsuredNotCommitted ==
    ASSUME ReadsInv, NEW t \in Txns, Unfinished(t)
    PROVE  /\ Ensured(t).st # "committed"
           /\ srv[t].st # "committed"
<1>1. srv[t].st # "committed"
  BY DEF ReadsInv, CommittedFinished
<1> QED
  BY <1>1, EnsuredCases DEF Begun

\* get() is a Read of SerialKv when the server answers it with the value
\* at the read version, and a stutter when it reads the object's own
\* buffered write, fails (returning std::nullopt) or throws.
LEMMA SerialGet ==
    ASSUME TypeInv, ReadsInv, NEW t \in Txns, NEW k \in Keys,
           Get(t, k) \/ GetThrows(t, k)
    PROVE  [Serial!Next]_Serial!vars
<1> DEFINE s == Ensured(t)
<1> USE DEF s
<1>1. PICK n \in SrvTxn : GetOutcome(t, k, n)
  BY GetEffect
<1>2. s.st # "committed" /\ srv[t].st # "committed"
  BY EnsuredNotCommitted DEF Get, GetThrows
<1>3. srv' = [srv EXCEPT ![t] = n] /\ db' = db /\ n.st = s.st
  BY <1>1 DEF GetOutcome, Get, GetThrows
<1>4. \A u \in Txns : (srv'[u].st = "committed") = (srv[u].st = "committed")
  <2>1. srv \in [Txns -> SrvTxn]
    BY DEF TypeInv, SrvInv, ServerTypeOK
  <2> QED
    BY <1>2, <1>3, <2>1, SameStatus
<1>5. CASE tracked' = tracked
  BY <1>3, <1>4, <1>5, SerialStutter
<1>6. CASE /\ s.st = "open"
           /\ tracked' = [tracked EXCEPT ![t] = @ \cup {<<k, db[s.rv].val[k]>>}]
  <2>1. db[s.rv].val[k] \in Val
    <3>1. s.rv \in 1..Len(db)
      BY <1>6, EnsuredType
    <3>2. db[s.rv].val \in [Keys -> Val]
      BY <3>1, DbEntryType DEF TypeInv, SrvInv
    <3> QED
      BY <3>2
  <2>2. doneBar' = doneBar
    BY <1>4 DEF doneBar
  <2>3. Serial!Read(t, k, db[s.rv].val[k])
    BY <1>2, <1>3, <1>6, <2>2 DEF Serial!Read, doneBar
  <2> QED
    BY <2>1, <2>3 DEF Serial!Next
<1> QED
  BY <1>1, <1>5, <1>6 DEF GetOutcome

\* set() and clear() are stutters of SerialKv: they change only the write
\* buffer of a server transaction that has not committed.
LEMMA SerialWrite ==
    ASSUME TypeInv, ReadsInv, NEW t \in Txns, NEW k \in Keys, NEW v,
           Write(t, k, v)
    PROVE  UNCHANGED Serial!vars
<1> DEFINE s == Ensured(t)
           n == IF s.st = "open" THEN [s EXCEPT !.ws = @ \cup {k}, !.wv[k] = v]
                ELSE s
<1>1. s \in SrvTxn
  BY EnsuredType
<1>2. s.st # "committed" /\ srv[t].st # "committed"
  BY EnsuredNotCommitted DEF Write
<1>3. n.st = s.st
  BY <1>1 DEF SrvTxn
<1>4. srv' = [srv EXCEPT ![t] = n] /\ db' = db /\ tracked' = tracked
  BY DEF Write, ghostVars
<1>5. srv \in [Txns -> SrvTxn]
  BY DEF TypeInv, SrvInv, ServerTypeOK
<1> HIDE DEF n
<1> QED
  BY <1>2, <1>3, <1>4, <1>5, SameStatus, SerialStutter

\* commit()'s request is a Commit of SerialKv when the server accepts it,
\* and a stutter when the server reports a conflict or no transaction.
LEMMA SerialCommitSend ==
    ASSUME TypeInv, ReadsInv, [Next]_vars, NEW t \in Txns, CommitSend(t)
    PROVE  [Serial!Next]_Serial!vars
<1> DEFINE s == Ensured(t)
<1>1. s \in SrvTxn /\ (s.st # "none" => s.rv \in 1..Len(db))
  BY EnsuredType
<1>2. s.st # "committed" /\ srv[t].st # "committed"
  BY EnsuredNotCommitted DEF CommitSend
<1>3. tracked' = tracked /\ srv \in [Txns -> SrvTxn]
  BY DEF CommitSend, ghostVars, TypeInv, SrvInv, ServerTypeOK
<1>4. CASE s.st # "open"
  <2>1. srv' = [srv EXCEPT ![t] = s] /\ db' = db
    BY <1>4 DEF CommitSend
  <2> HIDE DEF s
  <2> QED
    BY <1>2, <1>3, <2>1, SameStatus, SerialStutter
<1>5. CASE s.st = "open" /\ Conflicts(s)
  <2> DEFINE n == [s EXCEPT !.st = "aborted"]
  <2>1. srv' = [srv EXCEPT ![t] = n] /\ db' = db
    BY <1>5 DEF CommitSend
  <2>2. n.st = "aborted"
    BY <1>1 DEF SrvTxn
  <2> HIDE DEF s, n
  <2> QED
    BY <1>2, <1>3, <2>1, <2>2, SameStatus, SerialStutter
<1>6. CASE s.st = "open" /\ ~Conflicts(s)
  <2> DEFINE n == [s EXCEPT !.st = "committed", !.cpos = Len(db) + 1]
  <2>1. /\ db' = Append(db, [ws |-> s.ws, val |-> Installed(s)])
        /\ srv' = [srv EXCEPT ![t] = n]
    BY <1>6 DEF CommitSend
  <2>2. ReadsInv'
    BY ReadsInvStep
  <2>3. Len(db) \in Nat /\ Len(db) >= 1 /\ db \in Seq([ws : SUBSET Keys, val : [Keys -> Val]])
    BY DEF TypeInv, SrvInv, ServerTypeOK
  <2>4. srv'[t].st = "committed" /\ srv'[t].cpos = Len(db) + 1
    BY <1>1, <1>3, <2>1 DEF SrvTxn
  <2>5. /\ Len(db') = Len(db) + 1
        /\ db'[Len(db)] = db[Len(db)]
        /\ db'[Len(db')].val = Installed(s)
    BY <2>1, <2>3
  <2>6. \A r \in tracked[t] : storeBar[r[1]] = r[2]
    <3>1. \A r \in tracked'[t] : db'[srv'[t].cpos - 1].val[r[1]] = r[2]
      BY <2>2, <2>4 DEF ReadsInv, CommittedReadsValid
    <3> QED
      BY <3>1, <1>3, <2>3, <2>4, <2>5 DEF storeBar
  <2>7. storeBar' = [k \in Keys |-> IF k \in s.ws THEN s.wv[k] ELSE storeBar[k]]
    BY <2>5 DEF storeBar, Installed, Latest
  <2>8. s.ws \in SUBSET Keys /\ s.wv \in [Keys -> Val]
    BY <1>1 DEF SrvTxn
  <2>9. doneBar' = [doneBar EXCEPT ![t] = TRUE]
    BY <1>3, <2>1, <2>4 DEF doneBar
  <2>10. Serial!Commit(t)
    <3>1. \E W \in SUBSET Keys, w \in [Keys -> Val] :
             storeBar' = [k \in Keys |-> IF k \in W THEN w[k] ELSE storeBar[k]]
      BY <2>7, <2>8
    <3> HIDE DEF s, n
    <3> QED
      BY <1>2, <1>3, <2>6, <3>1, <2>9 DEF Serial!Commit, storeBar, doneBar
  <2> QED
    BY <2>10 DEF Serial!Next
<1> QED
  BY <1>4, <1>5, <1>6

\* Every step of the objects and the server is a step of SerialKv or a
\* stutter of it.
LEMMA SerialStep ==
    ASSUME TypeInv, ReadsInv, [Next]_vars
    PROVE  [Serial!Next]_Serial!vars
<1>0. srv \in [Txns -> SrvTxn]
  BY DEF TypeInv, SrvInv, ServerTypeOK
<1>1. ASSUME NEW t \in Txns, NEW k \in Keys, Get(t, k) \/ GetThrows(t, k)
      PROVE  [Serial!Next]_Serial!vars
  BY <1>1, SerialGet
<1>2. ASSUME NEW t \in Txns, NEW k \in Keys, NEW v, Write(t, k, v)
      PROVE  [Serial!Next]_Serial!vars
  BY <1>2, SerialWrite
<1>3. ASSUME NEW t \in Txns, CommitSend(t) PROVE [Serial!Next]_Serial!vars
  BY <1>3, SerialCommitSend
<1>4. ASSUME NEW t \in Txns, Cancel(t) PROVE [Serial!Next]_Serial!vars
  <2>1. db' = db /\ tracked' = tracked
    BY <1>4 DEF Cancel, ghostVars
  <2>2. CASE transaction_handle_[t] /\ srv[t].st = "open"
    <3>1. srv' = [srv EXCEPT ![t] = [srv[t] EXCEPT !.st = "aborted"]]
      BY <1>4, <2>2 DEF Cancel
    <3>2. [srv[t] EXCEPT !.st = "aborted"].st = "aborted"
      BY <1>0 DEF SrvTxn
    <3> QED
      BY <1>0, <2>1, <2>2, <3>1, <3>2, SameStatus, SerialStutter
  <2>3. CASE ~(transaction_handle_[t] /\ srv[t].st = "open")
    BY <1>4, <2>1, <2>3, SerialStutter DEF Cancel
  <2> QED
    BY <2>2, <2>3
<1>5. ASSUME NEW t \in Txns, ServerExpire(t) PROVE [Serial!Next]_Serial!vars
  <2>1. /\ srv' = [srv EXCEPT ![t] = [srv[t] EXCEPT !.st = "aborted"]]
        /\ srv[t].st = "open" /\ db' = db /\ tracked' = tracked
    BY <1>5 DEF ServerExpire, Expire, ghostVars
  <2>2. [srv[t] EXCEPT !.st = "aborted"].st = "aborted"
    BY <1>0 DEF SrvTxn
  <2> QED
    BY <1>0, <2>1, <2>2, SameStatus, SerialStutter
<1>6. ASSUME NEW t \in Txns,
             \/ CommitAgain(t) \/ CommitBeginFails(t) \/ CommitReturn(t)
             \/ Reset(t) \/ Destroy(t)
      PROVE  UNCHANGED Serial!vars
  <2>1. UNCHANGED <<serverVars, tracked>>
    BY <1>6 DEF CommitAgain, CommitBeginFails, CommitReturn, Reset, Destroy,
       ghostVars, readGhosts
  <2> QED
    BY <2>1, SerialStutter DEF serverVars
<1>7. CASE \/ \E t \in Txns, k \in Keys : SnapshotGet(t, k) \/ AddReadConflict(t, k)
           \/ Tick \/ Terminated \/ UNCHANGED vars
  <2>1. UNCHANGED <<serverVars, tracked>>
    BY <1>7 DEF SnapshotGet, AddReadConflict, Tick, Terminated, vars,
       serverVars, ghostVars
  <2> QED
    BY <2>1, SerialStutter DEF serverVars
<1> QED
  BY <1>1, <1>2, <1>3, <1>4, <1>5, <1>6, <1>7 DEF Next, Set, Clear

\* The client objects and the server implement a serial store, for every
\* number of objects, keys and values: every commit the server accepts is
\* an atomic install of the object's writes at an instant when all its
\* get() results are current, no other step changes the committed state,
\* and a committed object never reads or commits again.
THEOREM SerialRefinement == Spec => Serial!Spec
<1>1. Init => Serial!Init
  <2> SUFFICES ASSUME Init PROVE Serial!Init
    OBVIOUS
  <2>1. storeBar = [k \in Keys |-> NoValue]
    BY DEF Init, ServerInit, InitState, storeBar
  <2>2. \A u \in Txns : srv[u].st # "committed"
    BY DEF Init, ServerInit, NoSrvTxn
  <2>3. doneBar = [u \in Txns |-> FALSE]
    BY <2>2 DEF doneBar
  <2>4. tracked = [u \in Txns |-> {}]
    BY DEF Init
  <2> QED
    BY <2>1, <2>3, <2>4 DEF Serial!Init, storeBar, doneBar
<1>2. TypeInv /\ ReadsInv /\ [Next]_vars => [Serial!Next]_Serial!vars
  BY SerialStep
<1> QED
  BY <1>1, <1>2, ReadsInvInvariant, PTL DEF Spec, Serial!Spec

\* The same theorem, stated with the property the txn_safety run checks.
THEOREM SerialKvImplemented == Spec => ImplementsSerialKv
BY SerialRefinement DEF ImplementsSerialKv
=============================================================================
