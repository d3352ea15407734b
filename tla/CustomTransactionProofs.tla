---------------------- MODULE CustomTransactionProofs ----------------------
(***************************************************************************)
(* Proofs about CustomTransaction for every set of objects, keys and      *)
(* values and every clock bound.                                           *)
(*                                                                         *)
(* TypeOK is not inductive by itself: get() reads db[s.rv] of the server  *)
(* transaction s, so the proof carries the fact that a begun server       *)
(* transaction reads at a version that exists (SrvRvValid).               *)
(* CommittedVersionSound is not inductive either: it is proved from       *)
(* CommittedVersionInv, which also covers a successful reply still in     *)
(* flight and records that committed_ stays set, so that no data method   *)
(* can begin a fresh server transaction under a recorded version.          *)
(***************************************************************************)
EXTENDS CustomTransaction, TLAPS

\* A server transaction that has been begun reads at a committed version.
SrvRvValid == \A t \in Txns : srv[t].st # "none" => srv[t].rv \in 1..Len(db)

SrvInv == ServerTypeOK /\ SrvRvValid

TypeInv == SrvInv /\ ClientTypeOK /\ GhostTypeOK

\* An element of a sequence belongs to the sequence's element set.
LEMMA SeqElement ==
    ASSUME NEW S, NEW q \in Seq(S), NEW i \in 1..Len(q)
    PROVE  q[i] \in S
OBVIOUS

\* A committed state is a function from keys to values.
LEMMA DbEntryType ==
    ASSUME ServerTypeOK, NEW i \in 1..Len(db)
    PROVE  db[i].val \in [Keys -> Val] /\ db[i].ws \subseteq Keys
<1> DEFINE Entry == [ws : SUBSET Keys, val : [Keys -> Val]]
<1>1. db \in Seq(Entry)
  BY DEF ServerTypeOK
<1>2. db[i] \in Entry
  BY <1>1, SeqElement
<1> QED
  BY <1>2

\* ensureTransaction() yields a well-formed server transaction reading at
\* an existing version.
LEMMA EnsuredType ==
    ASSUME TypeInv, NEW t \in Txns
    PROVE  /\ Ensured(t) \in SrvTxn
           /\ Ensured(t).st # "none" => Ensured(t).rv \in 1..Len(db)
<1>1. Len(db) \in Nat /\ Len(db) >= 1
  BY DEF TypeInv, SrvInv, ServerTypeOK
<1>2. CASE transaction_handle_[t]
  BY <1>2 DEF Ensured, TypeInv, SrvInv, ServerTypeOK, SrvRvValid
<1>3. CASE ~transaction_handle_[t]
  <2>1. Begun \in SrvTxn
    BY <1>1 DEF Begun, SrvTxn, SrvStatus, InitState, Val
  <2>2. Begun.rv \in 1..Len(db)
    BY <1>1 DEF Begun
  <2> QED
    BY <1>3, <2>1, <2>2 DEF Ensured
<1> QED
  BY <1>2, <1>3

\* The value a get() reads from an open server transaction is a value.
LEMMA SrvReadType ==
    ASSUME ServerTypeOK, NEW s \in SrvTxn, s.rv \in 1..Len(db),
           NEW k \in Keys
    PROVE  SrvRead(s, k) \in Val
<1>1. s.wv \in [Keys -> Val]
  BY DEF SrvTxn
<1>2. db[s.rv].val \in [Keys -> Val]
  BY DbEntryType
<1> QED
  BY <1>1, <1>2 DEF SrvRead

\* The latest committed value of a key is a value.
LEMMA LatestType ==
    ASSUME ServerTypeOK, NEW k \in Keys
    PROVE  Latest(k) \in Val
<1>1. Len(db) \in 1..Len(db)
  BY DEF ServerTypeOK
<1> QED
  BY <1>1, DbEntryType DEF Latest

\* A step that leaves the server alone preserves the server's invariant.
LEMMA ServerUnchanged ==
    ASSUME SrvInv, UNCHANGED serverVars
    PROVE  SrvInv'
BY DEF SrvInv, ServerTypeOK, SrvRvValid, serverVars

\* Replacing one object's server transaction by a well-formed one that
\* reads at an existing version preserves the server's invariant.
LEMMA ServerSetTxn ==
    ASSUME SrvInv, NEW t \in Txns, NEW r \in SrvTxn,
           r.st # "none" => r.rv \in 1..Len(db),
           srv' = [srv EXCEPT ![t] = r], db' = db
    PROVE  SrvInv'
BY DEF SrvInv, ServerTypeOK, SrvRvValid

\* A commit appends a well-formed state and replaces the committing
\* object's server transaction: the server's invariant is preserved.
LEMMA ServerAppend ==
    ASSUME SrvInv, NEW t \in Txns, NEW r \in SrvTxn,
           r.st # "none" => r.rv \in 1..Len(db),
           NEW e \in [ws : SUBSET Keys, val : [Keys -> Val]],
           srv' = [srv EXCEPT ![t] = r], db' = Append(db, e)
    PROVE  SrvInv'
<1> DEFINE Entry == [ws : SUBSET Keys, val : [Keys -> Val]]
<1>1. db \in Seq(Entry) /\ Len(db) >= 1
  BY DEF SrvInv, ServerTypeOK
<1>2. db' \in Seq(Entry) /\ Len(db') = Len(db) + 1
  BY <1>1
<1>3. srv' \in [Txns -> SrvTxn]
  BY DEF SrvInv, ServerTypeOK
<1>4. SrvRvValid'
  BY <1>1, <1>2 DEF SrvInv, SrvRvValid
<1> QED
  BY <1>1, <1>2, <1>3, <1>4 DEF SrvInv, ServerTypeOK

\* What get() does to the object's server transaction and to the ghost
\* observations, whether it returns or throws: it replaces the server
\* transaction s it works on by one with the same status and read version
\* and a larger conflict set, and records at most one answered read, the
\* value at the read version of an open s, whose key is then in the
\* conflict set.
GetOutcome(t, k, n) ==
    LET s == Ensured(t) IN
    /\ n.st = s.st /\ n.rv = s.rv /\ s.rs \subseteq n.rs
    /\ srv' = [srv EXCEPT ![t] = n]
    /\ \/ tracked' = tracked
       \/ /\ s.st = "open" /\ k \in n.rs
          /\ tracked' = [tracked EXCEPT ![t] = @ \cup {<<k, db[s.rv].val[k]>>}]
    /\ failed' \in [Txns -> SUBSET Keys]

LEMMA GetEffect ==
    ASSUME TypeInv, NEW t \in Txns, NEW k \in Keys, Get(t, k) \/ GetThrows(t, k)
    PROVE  \E n \in SrvTxn : GetOutcome(t, k, n)
<1> DEFINE s == Ensured(t)
<1> USE DEF s
<1>1. s \in SrvTxn
  BY EnsuredType
<1>2. ASSUME NEW r \in GetReplies(s, k)
      PROVE  /\ r.txn \in SrvTxn /\ r.txn.st = s.st /\ r.txn.rv = s.rv
             /\ s.rs \subseteq r.txn.rs
             /\ r.ok => s.st = "open" /\ k \in r.txn.rs
  BY <1>1 DEF GetReplies, SrvTxn
<1>3. CASE Get(t, k)
  <2>1. PICK r \in GetReplies(s, k) :
          /\ srv' = [srv EXCEPT ![t] = r.txn]
          /\ tracked' = IF r.ok /\ k \notin s.ws
                        THEN [tracked EXCEPT ![t] = @ \cup {<<k, SrvRead(s, k)>>}]
                        ELSE tracked
          /\ failed' = IF ~r.ok /\ k \notin s.ws
                       THEN [failed EXCEPT ![t] = @ \cup {k}] ELSE failed
    BY <1>3 DEF Get
  <2>2. k \notin s.ws => SrvRead(s, k) = db[s.rv].val[k]
    BY DEF SrvRead
  <2>3. failed' \in [Txns -> SUBSET Keys]
    BY <2>1 DEF TypeInv, GhostTypeOK
  <2> QED
    BY <1>2, <2>1, <2>2, <2>3 DEF GetOutcome
<1>4. CASE GetThrows(t, k)
  <2>1. PICK r \in GetReplies(s, k) : srv' = [srv EXCEPT ![t] = r.txn]
    BY <1>4 DEF GetThrows
  <2>2. tracked' = tracked /\ failed' = failed
    BY <1>4 DEF GetThrows, ghostVars
  <2> QED
    BY <1>2, <2>1, <2>2 DEF GetOutcome, TypeInv, GhostTypeOK
<1> QED
  BY <1>3, <1>4

\* Every step of the specification preserves the type invariant.
LEMMA TypeInvStep == TypeInv /\ [Next]_vars => TypeInv'
<1> SUFFICES ASSUME TypeInv, [Next]_vars PROVE TypeInv'
  OBVIOUS
<1>. USE CustomTransactionAssumption
<1>0. SrvInv
  BY DEF TypeInv
<1>. USE DEF TypeInv, ClientTypeOK, GhostTypeOK, CommitResult,
             clientVars, ghostVars, readGhosts
<1>1. ASSUME NEW t \in Txns, NEW k \in Keys, Get(t, k) \/ GetThrows(t, k)
      PROVE TypeInv'
  <2>1. PICK n \in SrvTxn : GetOutcome(t, k, n)
    BY <1>1, GetEffect
  <2>2. n.st # "none" => n.rv \in 1..Len(db)
    BY <2>1, EnsuredType DEF GetOutcome
  <2>3. Ensured(t).st = "open" => db[Ensured(t).rv].val[k] \in Val
    <3> SUFFICES ASSUME Ensured(t).st = "open"
                 PROVE  db[Ensured(t).rv].val[k] \in Val
      OBVIOUS
    <3>1. Ensured(t).rv \in 1..Len(db)
      BY EnsuredType
    <3>2. db[Ensured(t).rv].val \in [Keys -> Val]
      BY <1>0, <3>1, DbEntryType DEF SrvInv
    <3> QED
      BY <3>2
  <2>4. SrvInv'
    BY <1>0, <1>1, <2>1, <2>2, ServerSetTxn DEF GetOutcome, Get, GetThrows
  <2>5. tracked' \in [Txns -> SUBSET (Keys \X Val)]
    BY <2>1, <2>3 DEF GetOutcome
  <2> QED
    BY <1>1, <2>1, <2>4, <2>5 DEF GetOutcome, Get, GetThrows, HandleSet
<1>2. ASSUME NEW t \in Txns, NEW k \in Keys, SnapshotGet(t, k)
      PROVE TypeInv'
  BY <1>0, <1>2, ServerUnchanged DEF SnapshotGet, SrvInv, vars, serverVars,
                                    clientVars, ghostVars
<1>3. ASSUME NEW t \in Txns, NEW k \in Keys, NEW v \in Val, Write(t, k, v)
      PROVE TypeInv'
  <2> DEFINE s == Ensured(t)
  <2>1. s \in SrvTxn /\ (s.st # "none" => s.rv \in 1..Len(db))
    BY EnsuredType
  <2>2. SrvInv'
    <3> DEFINE r == IF s.st = "open"
                    THEN [s EXCEPT !.ws = @ \cup {k}, !.wv[k] = v] ELSE s
    <3>1. r \in SrvTxn /\ (r.st # "none" => r.rv \in 1..Len(db))
      BY <2>1 DEF SrvTxn
    <3> QED
      BY <1>0, <1>3, <3>1, ServerSetTxn DEF Write
  <2> QED
    BY <1>3, <2>2 DEF Write, HandleSet
<1>4. ASSUME NEW t \in Txns, NEW k \in Keys, AddReadConflict(t, k)
      PROVE TypeInv'
  BY <1>0, <1>4, ServerUnchanged DEF AddReadConflict, vars, serverVars,
                                    clientVars, ghostVars
<1>5. ASSUME NEW t \in Txns, CommitAgain(t) PROVE TypeInv'
  BY <1>0, <1>5, ServerUnchanged DEF CommitAgain
<1>6. ASSUME NEW t \in Txns, CommitBeginFails(t) PROVE TypeInv'
  BY <1>0, <1>6, ServerUnchanged DEF CommitBeginFails
<1>7. ASSUME NEW t \in Txns, CommitSend(t) PROVE TypeInv'
  <2> DEFINE s == Ensured(t)
  <2>1. s \in SrvTxn /\ (s.st # "none" => s.rv \in 1..Len(db))
    BY EnsuredType
  <2>2. Installed(s) \in [Keys -> Val]
    BY <1>0, <2>1, LatestType DEF Installed, SrvTxn, SrvInv
  <2>3. SrvInv'
    <3>1. CASE s.st # "open"
      BY <1>0, <1>7, <2>1, <3>1, ServerSetTxn DEF CommitSend
    <3>2. CASE s.st = "open" /\ Conflicts(s)
      <4> DEFINE r == [s EXCEPT !.st = "aborted"]
      <4>1. r \in SrvTxn /\ r.rv = s.rv
        BY <2>1 DEF SrvTxn, SrvStatus
      <4>2. srv' = [srv EXCEPT ![t] = r] /\ db' = db
        BY <1>7, <3>2 DEF CommitSend
      <4> QED
        BY <1>0, <2>1, <3>2, <4>1, <4>2, ServerSetTxn
    <3>3. CASE s.st = "open" /\ ~Conflicts(s)
      <4> DEFINE r == [s EXCEPT !.st = "committed", !.cpos = Len(db) + 1]
                 e == [ws |-> s.ws, val |-> Installed(s)]
      <4>1. Len(db) + 1 \in Nat
        BY <1>0 DEF SrvInv, ServerTypeOK
      <4>2. r \in SrvTxn /\ r.rv = s.rv
        BY <2>1, <4>1 DEF SrvTxn, SrvStatus
      <4>3. e \in [ws : SUBSET Keys, val : [Keys -> Val]]
        BY <2>1, <2>2 DEF SrvTxn
      <4>4. srv' = [srv EXCEPT ![t] = r] /\ db' = Append(db, e)
        BY <1>7, <3>3 DEF CommitSend
      <4> QED
        BY <1>0, <2>1, <3>3, <4>2, <4>3, <4>4, ServerAppend
    <3> QED
      BY <3>1, <3>2, <3>3
  <2> QED
    BY <1>7, <2>3 DEF CommitSend, HandleSet
<1>8. ASSUME NEW t \in Txns, CommitReturn(t) PROVE TypeInv'
  <2>1. SrvInv'
    BY <1>0, <1>8, ServerUnchanged DEF CommitReturn
  <2>2. committed_version_' \in [Txns -> {-1} \cup (0..MaxClock)]
    BY <1>8 DEF CommitReturn
  <2>3. acked' \in [Txns -> BOOLEAN]
    BY <1>8 DEF CommitReturn
  <2> QED
    BY <1>8, <2>1, <2>2, <2>3 DEF CommitReturn
<1>9. ASSUME NEW t \in Txns, Cancel(t) PROVE TypeInv'
  <2>1. SrvInv'
    <3>1. CASE transaction_handle_[t] /\ srv[t].st = "open"
      <4> DEFINE r == [srv[t] EXCEPT !.st = "aborted"]
      <4>1. r \in SrvTxn /\ r.rv = srv[t].rv /\ srv[t].rv \in 1..Len(db)
        BY <1>0, <3>1 DEF SrvInv, ServerTypeOK, SrvRvValid, SrvTxn, SrvStatus
      <4>2. srv' = [srv EXCEPT ![t] = r] /\ db' = db
        BY <1>9, <3>1 DEF Cancel
      <4> QED
        BY <1>0, <4>1, <4>2, ServerSetTxn
    <3>2. CASE ~(transaction_handle_[t] /\ srv[t].st = "open")
      BY <1>0, <1>9, <3>2, ServerUnchanged DEF Cancel, serverVars
    <3> QED
      BY <3>1, <3>2
  <2> QED
    BY <1>9, <2>1 DEF Cancel
<1>10. ASSUME NEW t \in Txns, Reset(t) PROVE TypeInv'
  BY <1>0, <1>10, ServerUnchanged DEF Reset
<1>11. ASSUME NEW t \in Txns, Destroy(t) PROVE TypeInv'
  BY <1>0, <1>11, ServerUnchanged DEF Destroy
<1>12. ASSUME NEW t \in Txns, ServerExpire(t) PROVE TypeInv'
  <2> DEFINE r == [srv[t] EXCEPT !.st = "aborted"]
  <2>1. r \in SrvTxn /\ r.rv = srv[t].rv /\ srv[t].rv \in 1..Len(db)
    BY <1>0, <1>12 DEF ServerExpire, Expire, SrvInv, ServerTypeOK,
                       SrvRvValid, SrvTxn, SrvStatus
  <2>2. srv' = [srv EXCEPT ![t] = r] /\ db' = db
    BY <1>12 DEF ServerExpire, Expire
  <2>3. SrvInv'
    BY <1>0, <2>1, <2>2, ServerSetTxn
  <2> QED
    BY <1>12, <2>3 DEF ServerExpire
<1>13. CASE Tick
  BY <1>0, <1>13, ServerUnchanged DEF Tick
<1>14. CASE Terminated \/ UNCHANGED vars
  BY <1>0, <1>14, ServerUnchanged DEF Terminated, vars
<1> QED
  BY <1>1, <1>2, <1>3, <1>4, <1>5, <1>6, <1>7, <1>8, <1>9, <1>10, <1>11,
     <1>12, <1>13, <1>14 DEF Next, Set, Clear, Val

\* The type invariant, with the read-version fact, holds initially and is
\* preserved by every method of the transaction object and every server
\* step.
LEMMA TypeInvInductive == Init /\ [][Next]_vars => []TypeInv
<1>1. Init => TypeInv
  BY CustomTransactionAssumption
  DEF Init, ServerInit, TypeInv, SrvInv, ServerTypeOK, SrvRvValid, ClientTypeOK,
      GhostTypeOK, CommitResult, NoSrvTxn, SrvTxn, SrvStatus, InitState, Val
<1>2. TypeInv /\ [Next]_vars => TypeInv'
  BY TypeInvStep
<1> QED
  BY <1>1, <1>2, PTL

\* Type correctness of the transaction object and the server: every
\* reachable state of the specification satisfies TypeOK.
THEOREM TypeCorrect == Spec => []TypeOK
BY TypeInvInductive, PTL DEF Spec, TypeInv, TypeOK, SrvInv

-----------------------------------------------------------------------------
(* getCommittedVersion() reports only commits the server accepted. *)

\* Every step preserves CommittedVersionInv: a method that could begin a new
\* server transaction (get, set, clear, commit) requires committed_ to be
\* clear, hence no recorded version and no pending success; reset() clears
\* the version together with committed_; cancel() and the server timeout
\* only abort an open transaction, never a committed one.
LEMMA CommittedVersionInvStep ==
    ASSUME TypeInv, CommittedVersionInv, [Next]_vars
    PROVE  CommittedVersionInv'
<1> SUFFICES ASSUME NEW u \in Txns,
                    committed_version_'[u] >= 0 \/ pending'[u] = "ok"
             PROVE  committed_'[u] /\ srv'[u].st = "committed"
  BY DEF CommittedVersionInv
<1>. USE DEF TypeInv, SrvInv, ServerTypeOK, ClientTypeOK, CommitResult
\* Before the step, an object whose committed_ is clear has neither a
\* version nor a pending success.
<1>0. ASSUME NEW t \in Txns, ~committed_[t]
      PROVE  committed_version_[t] = -1 /\ pending[t] # "ok"
  BY <1>0 DEF CommittedVersionInv
<1>2. CASE \E t \in Txns, k \in Keys : Get(t, k) \/ GetThrows(t, k)
  BY <1>2, <1>0 DEF Get, GetThrows, Unfinished, Callable, CommittedVersionInv,
                    HandleSet
<1>3. CASE \E t \in Txns, k \in Keys, v \in Val : Write(t, k, v)
  BY <1>3, <1>0 DEF Write, Unfinished, Callable, CommittedVersionInv, HandleSet
<1>4. CASE \E t \in Txns, k \in Keys :
             SnapshotGet(t, k) \/ AddReadConflict(t, k)
  BY <1>4 DEF SnapshotGet, AddReadConflict, CommittedVersionInv, vars,
              serverVars, clientVars, ghostVars
<1>5. CASE \E t \in Txns : CommitAgain(t) \/ CommitBeginFails(t)
  BY <1>5 DEF CommitAgain, CommitBeginFails, CommittedVersionInv, serverVars,
              clientVars
<1>6. ASSUME NEW t \in Txns, CommitSend(t)
      PROVE  committed_'[u] /\ srv'[u].st = "committed"
  <2>1. CASE u = t
    <3>1. committed_version_[t] = -1 /\ committed_version_' = committed_version_
      BY <1>6, <1>0 DEF CommitSend, Unfinished
    <3>0. Ensured(t) \in SrvTxn
      BY EnsuredType
    <3>2. pending'[t] = "ok" => committed_'[t] /\ srv'[t].st = "committed"
      <4> DEFINE s == Ensured(t)
      <4>1. CASE ~(s.st = "open" /\ ~Conflicts(s))
        BY <1>6, <4>1 DEF CommitSend
      <4>2. CASE s.st = "open" /\ ~Conflicts(s)
        <5>1. srv'[t] = [s EXCEPT !.st = "committed", !.cpos = Len(db) + 1]
          BY <1>6, <4>2 DEF CommitSend
        <5>2. [s EXCEPT !.st = "committed", !.cpos = Len(db) + 1].st
                = "committed"
          BY <3>0 DEF SrvTxn
        <5> QED
          BY <1>6, <5>1, <5>2 DEF CommitSend
      <4> QED
        BY <4>1, <4>2
    <3> QED
      BY <2>1, <3>1, <3>2
  <2>2. CASE u # t
    BY <1>6, <2>2 DEF CommitSend, CommittedVersionInv
  <2> QED
    BY <2>1, <2>2
<1>7. ASSUME NEW t \in Txns, CommitReturn(t)
      PROVE  committed_'[u] /\ srv'[u].st = "committed"
  BY <1>7 DEF CommitReturn, CommittedVersionInv, serverVars
<1>8. ASSUME NEW t \in Txns, Cancel(t)
      PROVE  committed_'[u] /\ srv'[u].st = "committed"
  BY <1>8 DEF Cancel, CommittedVersionInv
<1>9. ASSUME NEW t \in Txns, Reset(t)
      PROVE  committed_'[u] /\ srv'[u].st = "committed"
  BY <1>9 DEF Reset, Callable, CommittedVersionInv, serverVars
<1>10. ASSUME NEW t \in Txns, Destroy(t)
       PROVE  committed_'[u] /\ srv'[u].st = "committed"
  BY <1>10 DEF Destroy, CommittedVersionInv, serverVars
<1>13. ASSUME NEW t \in Txns, ServerExpire(t)
       PROVE  committed_'[u] /\ srv'[u].st = "committed"
  BY <1>13 DEF ServerExpire, Expire, CommittedVersionInv, clientVars
<1>11. CASE Tick \/ Terminated \/ UNCHANGED vars
  BY <1>11 DEF Tick, Terminated, vars, CommittedVersionInv, serverVars,
               clientVars
<1>12. ASSUME NEW t \in Txns, NEW k \in Keys,
             Clear(t, k) \/ \E v \in Vals : Set(t, k, v)
       PROVE  \E v \in Val : Write(t, k, v)
  BY <1>12 DEF Clear, Set, Val
<1> QED
  BY <1>2, <1>3, <1>4, <1>5, <1>6, <1>7, <1>8, <1>9, <1>10, <1>11, <1>12,
     <1>13
  DEF Next

\* getCommittedVersion() returns a version other than -1 only for an object
\* whose server transaction was committed, for every number of objects,
\* keys and values and every clock bound.
THEOREM CommittedVersionSoundness == Spec => []CommittedVersionSound
<1>1. Init => CommittedVersionInv
  BY DEF Init, ServerInit, NoSrvTxn, CommittedVersionInv
<1>2. TypeInv /\ CommittedVersionInv /\ [Next]_vars => CommittedVersionInv'
  BY CommittedVersionInvStep
<1>3. CommittedVersionInv => CommittedVersionSound
  BY DEF CommittedVersionInv, CommittedVersionSound
<1> QED
  BY <1>1, <1>2, <1>3, TypeInvInductive, PTL DEF Spec

-----------------------------------------------------------------------------
(* Reads the server answered are still valid when the transaction commits. *)

\* The committed history only changes a key by writing it: between two
\* versions a and j, a key no commit wrote keeps its value.
DbStable ==
    \A a \in 1..Len(db), j \in 1..Len(db), k \in Keys :
        a <= j /\ ~WrittenBetween(k, a, j + 1) => db[j].val[k] = db[a].val[k]

\* Before its first server call an unfinished object has observed nothing.
NoReadsBeforeBegin ==
    \A t \in Txns : ~transaction_handle_[t] /\ Unfinished(t) => tracked[t] = {}

\* A committed server transaction belongs to a finished object: no data
\* method can read through it again.
CommittedFinished ==
    \A t \in Txns : srv[t].st = "committed" => ~Unfinished(t)

\* Every read of an open server transaction is in its conflict set and is
\* the value at its read version.
OpenReadsTracked ==
    \A t \in Txns : srv[t].st = "open" =>
        \A r \in tracked[t] : r[1] \in srv[t].rs /\ r[2] = db[srv[t].rv].val[r[1]]

\* A committed transaction's position is in the history, and every read it
\* made is the value just before its commit.
CommittedReadsValid ==
    \A t \in Txns : srv[t].st = "committed" =>
        /\ srv[t].cpos \in 2..Len(db)
        /\ \A r \in tracked[t] : db[srv[t].cpos - 1].val[r[1]] = r[2]

ReadsInv == DbStable /\ NoReadsBeforeBegin /\ CommittedFinished
            /\ OpenReadsTracked /\ CommittedReadsValid

\* A step that leaves the history, the server transactions, the
\* observations and the handles alone, and can only finish objects,
\* preserves ReadsInv.
LEMMA ReadsInvFrame ==
    ASSUME ReadsInv, db' = db, srv' = srv, tracked' = tracked,
           transaction_handle_' = transaction_handle_,
           \A u \in Txns : Unfinished(u)' => Unfinished(u)
    PROVE  ReadsInv'
BY DEF ReadsInv, DbStable, WrittenBetween, NoReadsBeforeBegin,
       CommittedFinished, OpenReadsTracked, CommittedReadsValid

\* Aborting one open server transaction, with the history and the
\* observations unchanged, preserves ReadsInv when no object becomes
\* unfinished and every handle that is cleared belongs to a finished object.
LEMMA ReadsInvAbort ==
    ASSUME ReadsInv, NEW t \in Txns, srv[t].st = "open",
           srv' = [srv EXCEPT ![t].st = "aborted"],
           db' = db, tracked' = tracked,
           \A u \in Txns : Unfinished(u)' => Unfinished(u),
           \A u \in Txns : ~transaction_handle_'[u] /\ Unfinished(u)'
                              => ~transaction_handle_[u]
    PROVE  ReadsInv'
BY DEF ReadsInv, DbStable, WrittenBetween, NoReadsBeforeBegin,
       CommittedFinished, OpenReadsTracked, CommittedReadsValid

\* A data method that calls ensureTransaction preserves ReadsInv: it sets
\* the handle and replaces the object's server transaction s (the one it
\* had, or a fresh one when it had none and so had observed nothing) by one
\* with the same status and read version and a larger conflict set, and it
\* observes at most one value: one read at the read version of an open s
\* with the key added to the conflict set.
LEMMA ReadsInvAccess ==
    ASSUME TypeInv, ReadsInv, NEW t \in Txns, Unfinished(t),
           NEW s \in SrvTxn, NEW n \in SrvTxn,
           \/ transaction_handle_[t] /\ s = srv[t]
           \/ ~transaction_handle_[t] /\ s = Begun,
           n.st = s.st, n.rv = s.rv, s.rs \subseteq n.rs,
           srv' = [srv EXCEPT ![t] = n],
           NEW k \in Keys,
           \/ tracked' = tracked
           \/ /\ s.st = "open" /\ k \in n.rs
              /\ tracked' = [tracked EXCEPT ![t] = @ \cup
                                {<<k, db[s.rv].val[k]>>}],
           HandleSet(t),
           UNCHANGED <<db, cancelled_, reset_, committed_>>
    PROVE  ReadsInv'
<1>. USE DEF TypeInv, SrvInv, ServerTypeOK, ClientTypeOK, GhostTypeOK
<1>1. ~transaction_handle_[t] => tracked[t] = {}
  BY DEF ReadsInv, NoReadsBeforeBegin
<1>2. s.st # "committed"
  BY DEF Begun, ReadsInv, CommittedFinished
<1>3. \A u \in Txns : (Unfinished(u))' = Unfinished(u)
  BY DEF Unfinished
<1>4. DbStable'
  BY DEF ReadsInv, DbStable, WrittenBetween
<1>5. NoReadsBeforeBegin'
  BY <1>3 DEF HandleSet, ReadsInv, NoReadsBeforeBegin
<1>6. CommittedFinished'
  BY <1>2, <1>3 DEF ReadsInv, CommittedFinished
<1>7. CommittedReadsValid'
  BY <1>2 DEF ReadsInv, CommittedReadsValid
<1>8. OpenReadsTracked'
  <2> SUFFICES ASSUME NEW u \in Txns, srv'[u].st = "open",
                      NEW r \in tracked'[u]
               PROVE  r[1] \in srv'[u].rs /\ r[2] = db[srv'[u].rv].val[r[1]]
    BY DEF OpenReadsTracked
  <2>1. CASE u # t
    BY <2>1 DEF ReadsInv, OpenReadsTracked
  <2>2. CASE u = t /\ r \in tracked[t]
    <3>1. transaction_handle_[t] /\ s = srv[t]
      BY <2>2, <1>1
    <3>2. srv'[t] = n /\ s.st = "open"
      BY <2>2
    <3>3. r[1] \in s.rs /\ r[2] = db[s.rv].val[r[1]]
      BY <2>2, <3>1, <3>2 DEF ReadsInv, OpenReadsTracked
    <3> QED
      BY <2>2, <3>2, <3>3
  <2>3. CASE u = t /\ r \notin tracked[t]
    BY <2>3
  <2> QED
    BY <2>1, <2>2, <2>3
<1> QED
  BY <1>4, <1>5, <1>6, <1>7, <1>8 DEF ReadsInv

\* The server transaction a data method works on is the object's own, or a
\* fresh one when the object has no handle.
LEMMA EnsuredCases ==
    ASSUME NEW t \in Txns
    PROVE  \/ transaction_handle_[t] /\ Ensured(t) = srv[t]
           \/ ~transaction_handle_[t] /\ Ensured(t) = Begun
BY DEF Ensured

\* get() preserves ReadsInv, whether it returns or throws.
LEMMA ReadsInvGet ==
    ASSUME TypeInv, ReadsInv, NEW t \in Txns, NEW k \in Keys,
           Get(t, k) \/ GetThrows(t, k)
    PROVE  ReadsInv'
<1>1. PICK n \in SrvTxn : GetOutcome(t, k, n)
  BY GetEffect
<1>2. Unfinished(t) /\ HandleSet(t)
      /\ UNCHANGED <<db, cancelled_, reset_, committed_>>
  BY DEF Get, GetThrows
<1>3. \/ transaction_handle_[t] /\ Ensured(t) = srv[t]
      \/ ~transaction_handle_[t] /\ Ensured(t) = Begun
  BY EnsuredCases
<1>4. Ensured(t) \in SrvTxn
  BY EnsuredType
<1> QED
  BY <1>1, <1>2, <1>3, <1>4, ReadsInvAccess DEF GetOutcome

\* set() and clear() preserve ReadsInv.
LEMMA ReadsInvWrite ==
    ASSUME TypeInv, ReadsInv, NEW t \in Txns, NEW k \in Keys, NEW v \in Val,
           Write(t, k, v)
    PROVE  ReadsInv'
<1> DEFINE s == Ensured(t)
           n == IF s.st = "open" THEN [s EXCEPT !.ws = @ \cup {k}, !.wv[k] = v]
                ELSE s
<1>1. s \in SrvTxn /\ (s.st # "none" => s.rv \in 1..Len(db))
  BY EnsuredType
<1>2. n \in SrvTxn /\ n.st = s.st /\ n.rv = s.rv /\ s.rs \subseteq n.rs
  BY <1>1 DEF SrvTxn, Val
<1>3. srv' = [srv EXCEPT ![t] = n]
  BY DEF Write
<1>4. tracked' = tracked
  BY DEF Write, ghostVars
<1>5. Unfinished(t) /\ HandleSet(t)
      /\ UNCHANGED <<db, cancelled_, reset_, committed_>>
  BY DEF Write
<1>6. \/ transaction_handle_[t] /\ s = srv[t]
      \/ ~transaction_handle_[t] /\ s = Begun
  BY EnsuredCases
<1> HIDE DEF s, n
<1> QED
  BY <1>1, <1>2, <1>3, <1>4, <1>5, <1>6, ReadsInvAccess

\* Appending the state a commit installs keeps the history stable: a key
\* the commit did not write takes its latest value.
LEMMA DbStableAppend ==
    ASSUME ServerTypeOK, DbStable, NEW s \in SrvTxn,
           db' = Append(db, [ws |-> s.ws, val |-> Installed(s)])
    PROVE  DbStable'
<1> SUFFICES ASSUME NEW a \in 1..Len(db'), NEW j \in 1..Len(db'),
                    NEW k \in Keys, a <= j, ~WrittenBetween(k, a, j + 1)'
             PROVE  db'[j].val[k] = db'[a].val[k]
  BY DEF DbStable
<1>. USE DEF ServerTypeOK
<1>1. Len(db') = Len(db) + 1 /\ \A i \in 1..Len(db) : db'[i] = db[i]
  OBVIOUS
<1>2. CASE j <= Len(db)
  <2>1. a \in 1..Len(db) /\ j \in 1..Len(db)
    BY <1>2
  <2>2. ~WrittenBetween(k, a, j + 1)
    BY <1>1, <2>1 DEF WrittenBetween
  <2>3. db[j].val[k] = db[a].val[k]
    BY <2>1, <2>2 DEF DbStable
  <2> QED
    BY <1>1, <2>1, <2>3
<1>3. CASE j = Len(db) + 1 /\ a = j
  BY <1>3
<1>4. CASE j = Len(db) + 1 /\ a <= Len(db)
  <2>1. k \notin s.ws
    BY <1>1, <1>4 DEF WrittenBetween
  <2>2. ~WrittenBetween(k, a, Len(db) + 1)
    BY <1>1, <1>4 DEF WrittenBetween
  <2>3. db[Len(db)].val[k] = db[a].val[k]
    BY <1>4, <2>2 DEF DbStable
  <2>4. db'[j].val[k] = db[Len(db)].val[k]
    BY <1>4, <2>1 DEF Installed, Latest
  <2> QED
    BY <1>1, <1>4, <2>3, <2>4
<1> QED
  BY <1>1, <1>2, <1>3, <1>4

\* commit() sending the transaction preserves ReadsInv: the object is
\* finished from now on; a rejected transaction is aborted; an accepted
\* one read only keys no commit wrote since its read version (the server's
\* validation), so its reads are the values just before its own commit.
LEMMA ReadsInvCommitSend ==
    ASSUME TypeInv, ReadsInv, NEW t \in Txns, CommitSend(t)
    PROVE  ReadsInv'
<1> DEFINE s == Ensured(t)
<1>. USE DEF TypeInv, SrvInv, ServerTypeOK, ClientTypeOK, GhostTypeOK
<1>1. s \in SrvTxn /\ (s.st # "none" => s.rv \in 1..Len(db))
  BY EnsuredType
<1>2. \/ transaction_handle_[t] /\ s = srv[t]
      \/ ~transaction_handle_[t] /\ s = Begun /\ tracked[t] = {}
  BY EnsuredCases DEF CommitSend, ReadsInv, NoReadsBeforeBegin
<1>3. /\ tracked' = tracked /\ ~(Unfinished(t))'
      /\ \A u \in Txns \ {t} : (Unfinished(u))' = Unfinished(u)
      /\ transaction_handle_' = [transaction_handle_ EXCEPT ![t] = TRUE]
  BY DEF CommitSend, Unfinished, HandleSet, ghostVars
<1>4. s.st # "committed"
  BY <1>2 DEF Begun, CommitSend, ReadsInv, CommittedFinished
<1>5. CASE s.st # "open"
  <2>1. transaction_handle_[t] /\ s = srv[t]
    BY <1>2, <1>5 DEF Begun
  <2>2. srv' = [srv EXCEPT ![t] = srv[t]] /\ db' = db
    BY <1>5, <2>1 DEF CommitSend
  <2>3. srv' = srv /\ transaction_handle_' = transaction_handle_
    BY <1>3, <2>1, <2>2
  <2> QED
    BY <1>3, <2>2, <2>3, ReadsInvFrame
<1>6. CASE s.st = "open" /\ Conflicts(s)
  <2>1. srv' = [srv EXCEPT ![t] = [s EXCEPT !.st = "aborted"]] /\ db' = db
    BY <1>6 DEF CommitSend
  <2>2. srv'[t].st = "aborted"
    BY <1>1, <2>1 DEF SrvTxn
  <2> QED
    BY <1>3, <2>1, <2>2 DEF ReadsInv, DbStable, WrittenBetween,
       NoReadsBeforeBegin, CommittedFinished, OpenReadsTracked,
       CommittedReadsValid
<1>7. CASE s.st = "open" /\ ~Conflicts(s)
  <2> DEFINE n == [s EXCEPT !.st = "committed", !.cpos = Len(db) + 1]
  <2>1. /\ srv' = [srv EXCEPT ![t] = n]
        /\ db' = Append(db, [ws |-> s.ws, val |-> Installed(s)])
    BY <1>7 DEF CommitSend
  <2>2. /\ Len(db') = Len(db) + 1
        /\ \A i \in 1..Len(db) : db'[i] = db[i]
    BY <2>1
  <2>3. n.st = "committed" /\ n.cpos = Len(db) + 1 /\ n.rv = s.rv
        /\ n.rs = s.rs
    BY <1>1 DEF SrvTxn
  <2>4. DbStable'
    BY <1>1, <2>1, DbStableAppend DEF ReadsInv
  <2>5. NoReadsBeforeBegin' /\ CommittedFinished'
    BY <1>3, <2>1, <2>3 DEF ReadsInv, NoReadsBeforeBegin, CommittedFinished
  <2>6. OpenReadsTracked'
    <3> SUFFICES ASSUME NEW u \in Txns, srv'[u].st = "open",
                        NEW r \in tracked'[u]
                 PROVE  r[1] \in srv'[u].rs /\ r[2] = db'[srv'[u].rv].val[r[1]]
      BY DEF OpenReadsTracked
    <3>1. u # t /\ srv'[u] = srv[u]
      BY <2>1, <2>3
    <3>2. srv[u].rv \in 1..Len(db)
      BY <3>1 DEF SrvRvValid
    <3>3. r \in tracked[u]
      BY <1>3
    <3>4. r[1] \in srv[u].rs /\ r[2] = db[srv[u].rv].val[r[1]]
      BY <3>1, <3>3 DEF ReadsInv, OpenReadsTracked
    <3> QED
      BY <2>2, <3>1, <3>2, <3>4
  <2>7. CommittedReadsValid'
    <3> SUFFICES ASSUME NEW u \in Txns, srv'[u].st = "committed"
                 PROVE  /\ srv'[u].cpos \in 2..Len(db')
                        /\ \A r \in tracked'[u] :
                              db'[srv'[u].cpos - 1].val[r[1]] = r[2]
      BY DEF CommittedReadsValid
    <3>1. CASE u # t
      BY <1>3, <2>1, <2>2, <3>1 DEF ReadsInv, CommittedReadsValid
    <3>2. CASE u = t
      <4>1. srv'[t] = n
        BY <2>1
      <4>2. ASSUME NEW r \in tracked[t]
            PROVE  db[Len(db)].val[r[1]] = r[2]
        <5>1. transaction_handle_[t] /\ s = srv[t]
          BY <1>2
        <5>2. r[1] \in s.rs /\ r[2] = db[s.rv].val[r[1]] /\ r[1] \in Keys
          BY <1>7, <5>1 DEF ReadsInv, OpenReadsTracked
        <5>3. ~WrittenBetween(r[1], s.rv, Len(db) + 1)
          BY <1>7, <5>2 DEF Conflicts
        <5>4. s.rv \in 1..Len(db) /\ Len(db) \in 1..Len(db) /\ s.rv <= Len(db)
          BY <1>1, <1>7
        <5>5. DbStable
          BY DEF ReadsInv
        <5> QED
          BY <5>2, <5>3, <5>4, <5>5 DEF DbStable
      <4>3. srv'[t].cpos = Len(db) + 1 /\ Len(db) \in 1..Len(db)
        BY <2>3, <4>1
      <4>4. Len(db') = Len(db) + 1 /\ db'[Len(db)] = db[Len(db)]
        BY <2>2, <4>3
      <4>5. tracked'[t] = tracked[t]
        BY <1>3
      <4> QED
        BY <3>2, <4>2, <4>3, <4>4, <4>5
    <3> QED
      BY <3>1, <3>2
  <2> QED
    BY <2>4, <2>5, <2>6, <2>7 DEF ReadsInv
<1> QED
  BY <1>5, <1>6, <1>7

\* Every step preserves ReadsInv.
LEMMA ReadsInvStep ==
    ASSUME TypeInv, ReadsInv, [Next]_vars
    PROVE  ReadsInv'
<1>. USE DEF TypeInv, ClientTypeOK
<1>1. ASSUME NEW t \in Txns, NEW k \in Keys, Get(t, k) \/ GetThrows(t, k)
      PROVE ReadsInv'
  BY <1>1, ReadsInvGet
<1>2. ASSUME NEW t \in Txns, NEW k \in Keys, NEW v \in Val, Write(t, k, v)
      PROVE ReadsInv'
  BY <1>2, ReadsInvWrite
<1>3. ASSUME NEW t \in Txns, CommitSend(t) PROVE ReadsInv'
  BY <1>3, ReadsInvCommitSend
\* cancel() finishes the object before it clears the handle and aborts.
<1>4. ASSUME NEW t \in Txns, Cancel(t) PROVE ReadsInv'
  <2>1. /\ \A u \in Txns : (Unfinished(u))' => Unfinished(u)
        /\ \A u \in Txns : ~transaction_handle_'[u] /\ (Unfinished(u))'
                              => ~transaction_handle_[u]
        /\ db' = db /\ tracked' = tracked
    BY <1>4 DEF Cancel, Unfinished, ghostVars
  <2>2. CASE transaction_handle_[t] /\ srv[t].st = "open"
    BY <1>4, <2>1, <2>2, ReadsInvAbort DEF Cancel
  <2>3. CASE ~(transaction_handle_[t] /\ srv[t].st = "open")
    <3>1. srv' = srv
      BY <1>4, <2>3 DEF Cancel
    <3> QED
      BY <2>1, <3>1 DEF ReadsInv, DbStable, WrittenBetween,
         NoReadsBeforeBegin, CommittedFinished, OpenReadsTracked,
         CommittedReadsValid
  <2> QED
    BY <2>2, <2>3
<1>5. ASSUME NEW t \in Txns, ServerExpire(t) PROVE ReadsInv'
  <2>1. /\ srv[t].st = "open" /\ srv' = [srv EXCEPT ![t].st = "aborted"]
        /\ db' = db /\ tracked' = tracked
        /\ transaction_handle_' = transaction_handle_
        /\ UNCHANGED <<cancelled_, reset_, committed_>>
    BY <1>5 DEF ServerExpire, Expire, clientVars, ghostVars
  <2>2. \A u \in Txns : (Unfinished(u))' => Unfinished(u)
    BY <2>1 DEF Unfinished
  <2>3. \A u \in Txns : ~transaction_handle_'[u] /\ (Unfinished(u))'
                          => ~transaction_handle_[u]
    BY <2>1
  <2> QED
    BY <2>1, <2>2, <2>3, ReadsInvAbort
<1>6. ASSUME NEW t \in Txns, Reset(t) PROVE ReadsInv'
  <2>1. /\ db' = db /\ srv' = srv /\ tracked' = tracked
        /\ transaction_handle_' = transaction_handle_
    BY <1>6 DEF Reset, serverVars, ghostVars
  <2>2. \A u \in Txns : (Unfinished(u))' => Unfinished(u)
    BY <1>6 DEF Reset, Unfinished
  <2> QED
    BY <2>1, <2>2, ReadsInvFrame
<1>7. ASSUME NEW t \in Txns,
             CommitAgain(t) \/ CommitReturn(t) \/ Destroy(t)
      PROVE ReadsInv'
  <2>1. /\ db' = db /\ srv' = srv /\ tracked' = tracked
        /\ transaction_handle_' = transaction_handle_
        /\ UNCHANGED <<cancelled_, reset_, committed_>>
    <3>1. CASE CommitAgain(t)
      BY <3>1 DEF CommitAgain, serverVars, clientVars, readGhosts
    <3>2. CASE CommitReturn(t)
      BY <3>2 DEF CommitReturn, serverVars, readGhosts
    <3>3. CASE Destroy(t)
      BY <3>3 DEF Destroy, serverVars, ghostVars
    <3> QED
      BY <1>7, <3>1, <3>2, <3>3
  <2>2. \A u \in Txns : (Unfinished(u))' => Unfinished(u)
    BY <2>1 DEF Unfinished
  <2> QED
    BY <2>1, <2>2, ReadsInvFrame
<1>9. ASSUME NEW t \in Txns, CommitBeginFails(t) PROVE ReadsInv'
  <2>1. /\ db' = db /\ srv' = srv /\ tracked' = tracked
        /\ transaction_handle_' = transaction_handle_
        /\ UNCHANGED <<cancelled_, reset_>>
        /\ committed_' = [committed_ EXCEPT ![t] = TRUE]
    BY <1>9 DEF CommitBeginFails, serverVars, ghostVars
  <2>2. \A u \in Txns : (Unfinished(u))' => Unfinished(u)
    BY <2>1 DEF Unfinished
  <2> QED
    BY <2>1, <2>2, ReadsInvFrame
<1>8. CASE \/ \E t \in Txns, k \in Keys :
                SnapshotGet(t, k) \/ AddReadConflict(t, k)
           \/ Tick \/ Terminated \/ UNCHANGED vars
  BY <1>8, ReadsInvFrame DEF SnapshotGet, AddReadConflict, Tick, Terminated,
     vars, Unfinished, serverVars, clientVars, ghostVars
<1> QED
  BY <1>1, <1>2, <1>3, <1>4, <1>5, <1>6, <1>7, <1>8, <1>9
  DEF Next, Set, Clear, Val

\* Serializability of the reads the server answered, for every number of
\* objects, keys and values: every value kv_transaction_get returned to a
\* transaction whose commit the server accepted (other than its own
\* buffered write) is the value of that key in the state just before its
\* commit.  The std::nullopt that get() returns for a failed call is not
\* such a value; run get_error_reads_absent shows it need not be valid.
THEOREM ReadsValidity == Spec => []AnsweredReadsValidAtCommit
<1>1. Init => ReadsInv
  BY DEF Init, ServerInit, NoSrvTxn, ReadsInv, DbStable, WrittenBetween,
     NoReadsBeforeBegin, CommittedFinished, OpenReadsTracked,
     CommittedReadsValid
<1>2. TypeInv /\ ReadsInv /\ [Next]_vars => ReadsInv'
  BY ReadsInvStep
<1>3. ReadsInv => AnsweredReadsValidAtCommit
  BY DEF ReadsInv, CommittedReadsValid, AnsweredReadsValidAtCommit
<1> QED
  BY <1>1, <1>2, <1>3, TypeInvInductive, PTL DEF Spec
=============================================================================
