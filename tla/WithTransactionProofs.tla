------------------------ MODULE WithTransactionProofs ------------------------
(***************************************************************************)
(* Proofs about the WithTransaction retry loop for every set of objects,  *)
(* keys and values, every clock bound and every retry budget.             *)
(*                                                                         *)
(* Every step of the loop is a step of CustomTransaction's specification, *)
(* so the invariants proved there hold in the loop too.  On top of them,  *)
(* LoopOkMeansCommitted needs the facts that the loop's object is         *)
(* acknowledged only by the commit() the loop awaits (no one else calls   *)
(* its methods, and the handler's errors are never success), so a success *)
(* returned by the loop is a success the server reported, and that a     *)
(* committed server transaction stays committed.                          *)
(***************************************************************************)
EXTENDS WithTransaction, CustomTransactionProofs, TLAPS

\* The errors the handler hands to the loop.
HandlerCodes == {"none", "ioerror", "invalid"}

\* The loop's object has not been acknowledged while the loop runs.
NotAckedBeforeReturn == lpc # "returned" => ~acked[c]

LoopInv ==
    /\ TypeInv /\ CommittedVersionInv
    /\ lpc \in {"get", "set", "commit", "wait", "onerror", "returned"}
    /\ err \in HandlerCodes /\ lres \in Codes /\ retries \in 0..MaxRetries
    /\ NotAckedBeforeReturn
    /\ LoopOkMeansCommitted

\* Every step of the loop is a step of the transaction specification, or
\* leaves its variables alone.
LEMMA LoopStepIsNext ==
    ASSUME [LoopNext]_allVars
    PROVE  [Next]_vars
<1>. c \in Txns
  BY WithTransactionAssumption DEF c
<1>1. CASE \E k \in Keys : LoopGet(k)
  BY <1>1 DEF LoopGet, Next
<1>2. CASE \E k \in Keys, v \in Vals : LoopSet(k, v)
  BY <1>2 DEF LoopSet, Next
<1>3. CASE LoopCommit
  BY <1>3 DEF LoopCommit, Next
<1>4. CASE LoopCommitReturn
  BY <1>4 DEF LoopCommitReturn, Next
<1>5. CASE LoopOnError
  BY <1>5 DEF LoopOnError, Next
<1>6. CASE Others
  BY <1>6 DEF Others, Next
<1>7. CASE UNCHANGED allVars
  BY <1>7 DEF allVars
<1> QED
  BY <1>1, <1>2, <1>3, <1>4, <1>5, <1>6, <1>7 DEF LoopNext

\* A method of another object, or a server timeout of another object,
\* leaves the loop object's server transaction and acknowledgement alone.
LEMMA OtherObjectFrame ==
    ASSUME TypeInv, NEW t \in Txns, t # c,
           \/ \E k \in Keys :
                 \/ Get(t, k) \/ GetThrows(t, k) \/ SnapshotGet(t, k)
                 \/ Clear(t, k) \/ AddReadConflict(t, k)
                 \/ \E v \in Vals : Set(t, k, v)
           \/ CommitAgain(t) \/ CommitBeginFails(t) \/ CommitSend(t)
           \/ CommitReturn(t) \/ Cancel(t) \/ Reset(t) \/ Destroy(t)
           \/ ServerExpire(t)
    PROVE  srv'[c] = srv[c] /\ acked'[c] = acked[c]
<1>. srv \in [Txns -> SrvTxn] /\ acked \in [Txns -> BOOLEAN]
  BY DEF TypeInv, SrvInv, ServerTypeOK, GhostTypeOK
<1>. c \in Txns
  BY WithTransactionAssumption DEF c
<1>1. CASE \E k \in Keys : Get(t, k) \/ GetThrows(t, k)
  BY <1>1 DEF Get, GetThrows, ghostVars
<1>2. CASE \E k \in Keys : SnapshotGet(t, k) \/ AddReadConflict(t, k)
  BY <1>2 DEF SnapshotGet, AddReadConflict, vars, serverVars, ghostVars
<1>3. CASE \E k \in Keys : Clear(t, k) \/ \E v \in Vals : Set(t, k, v)
  BY <1>3 DEF Clear, Set, Write, ghostVars
<1>4. CASE CommitAgain(t) \/ CommitBeginFails(t) \/ CommitReturn(t)
  BY <1>4 DEF CommitAgain, CommitBeginFails, CommitReturn, serverVars,
              ghostVars
<1>5. CASE CommitSend(t)
  BY <1>5 DEF CommitSend, ghostVars
<1>6. CASE Cancel(t) \/ Reset(t) \/ Destroy(t)
  BY <1>6 DEF Cancel, Reset, Destroy, serverVars, ghostVars
<1>7. CASE ServerExpire(t)
  BY <1>7 DEF ServerExpire, Expire, ghostVars
<1> QED
  BY <1>1, <1>2, <1>3, <1>4, <1>5, <1>6, <1>7

\* The conjuncts of LoopInv about the loop itself.
LoopPart ==
    /\ lpc \in {"get", "set", "commit", "wait", "onerror", "returned"}
    /\ err \in HandlerCodes /\ lres \in Codes /\ retries \in 0..MaxRetries
    /\ NotAckedBeforeReturn
    /\ LoopOkMeansCommitted

\* Every step of the loop, of the other objects and of the server preserves
\* LoopInv.
LEMMA LoopInvStep ==
    ASSUME LoopInv, [LoopNext]_allVars
    PROVE  LoopInv'
<1>. USE WithTransactionAssumption
<1>0. c \in Txns
  BY DEF c
<1>1. TypeInv' /\ CommittedVersionInv'
  <2>1. [Next]_vars
    BY LoopStepIsNext
  <2> QED
    BY <2>1, TypeInvStep, CommittedVersionInvStep DEF LoopInv
<1>2. /\ srv \in [Txns -> SrvTxn] /\ acked \in [Txns -> BOOLEAN]
      /\ pending \in [Txns -> CommitResult]
  BY DEF LoopInv, TypeInv, SrvInv, ServerTypeOK, GhostTypeOK, ClientTypeOK
<1>9. LoopPart
  BY DEF LoopInv, LoopPart
<1> SUFFICES LoopPart'
  BY <1>1 DEF LoopInv, LoopPart
<1>. USE DEF LoopPart, NotAckedBeforeReturn, LoopOkMeansCommitted
<1>3. ASSUME NEW k \in Keys, LoopGet(k) PROVE LoopPart'
  <2>1. CASE UNCHANGED vars /\ \E x \in {"invalid", "ioerror"} : HandlerFails(x)
    BY <1>3, <1>9, <2>1 DEF LoopGet, vars, ghostVars, HandlerFails, HandlerCodes
  <2>2. CASE Get(c, k) /\ lpc' = "set" /\ UNCHANGED <<err, lres, retries>>
    BY <1>3, <1>9, <2>2 DEF Get, LoopGet
  <2>3. CASE /\ GetThrows(c, k) /\ lpc' = "returned" /\ lres' = "exception"
             /\ UNCHANGED <<err, retries>>
    BY <1>3, <1>9, <2>3 DEF GetThrows, ghostVars, Codes
  <2> QED
    BY <1>3, <2>1, <2>2, <2>3 DEF LoopGet
<1>4. ASSUME NEW k \in Keys, NEW v \in Vals, LoopSet(k, v) PROVE LoopPart'
  <2>1. CASE UNCHANGED vars /\ HandlerFails("ioerror")
    BY <1>4, <1>9, <2>1 DEF LoopSet, vars, ghostVars, HandlerFails, HandlerCodes
  <2>2. CASE Set(c, k, v) /\ lpc' = "commit" /\ UNCHANGED <<err, lres, retries>>
    BY <1>4, <1>9, <2>2 DEF LoopSet, Set, Write, ghostVars
  <2> QED
    BY <1>4, <2>1, <2>2 DEF LoopSet
<1>5. CASE LoopCommit
  BY <1>5, <1>9 DEF LoopCommit, CommitSend, ghostVars
<1>6. CASE LoopCommitReturn
  <2>1. lpc' = "returned" /\ srv' = srv /\ lpc = "wait"
        /\ UNCHANGED <<err, retries>> /\ pending[c] # "none"
    BY <1>6 DEF LoopCommitReturn, CommitReturn, serverVars
  <2>2. CASE pending[c] = "ok"
    <3>1. srv[c].st = "committed"
      BY <2>2, <1>0 DEF LoopInv, CommittedVersionInv
    <3>2. lres' \in {"ok", "exception"}
      BY <1>6, <2>2 DEF LoopCommitReturn
    <3> QED
      BY <2>1, <3>1, <3>2, <1>9 DEF Codes
  <2>3. CASE pending[c] # "ok"
    <3>1. ~acked'[c]
      BY <1>6, <2>1, <2>3, <1>9 DEF LoopCommitReturn, CommitReturn
    <3>2. pending[c] \in {"conflict", "notfound"}
      BY <1>2, <2>1, <2>3, <1>0 DEF CommitResult
    <3>3. lres' \in {"conflict", "invalid"}
      BY <1>6, <3>1, <3>2 DEF LoopCommitReturn
    <3> QED
      BY <2>1, <3>3, <1>9 DEF Codes
  <2> QED
    BY <2>2, <2>3
<1>7. CASE LoopOnError
  <2>1. CASE /\ err \in Retriable /\ retries < MaxRetries
             /\ retries' = retries + 1 /\ lpc' = "get"
             /\ \/ Reset(c)
                \/ UNCHANGED vars
             /\ UNCHANGED <<err, lres>>
    <3>1. acked' = acked
      BY <2>1 DEF Reset, vars, ghostVars
    <3> QED
      BY <1>7, <1>9, <2>1, <3>1 DEF LoopOnError
  <2>2. CASE /\ err \notin Retriable \/ retries = MaxRetries
             /\ lpc' = "returned" /\ lres' = err
             /\ UNCHANGED <<vars, err, retries>>
    BY <1>9, <2>2 DEF HandlerCodes, Codes
  <2> QED
    BY <1>7, <2>1, <2>2 DEF LoopOnError
<1>8. CASE Others
  <2>1. UNCHANGED loopVars
    BY <1>8 DEF Others
  <2>2. lpc # "returned" => acked'[c] = acked[c]
    <3>1. CASE \E t \in Txns \ {c} :
             \/ \E k \in Keys :
                   \/ Get(t, k) \/ GetThrows(t, k) \/ SnapshotGet(t, k)
                   \/ Clear(t, k) \/ AddReadConflict(t, k)
                   \/ \E v \in Vals : Set(t, k, v)
             \/ CommitAgain(t) \/ CommitBeginFails(t) \/ CommitSend(t)
             \/ CommitReturn(t) \/ Cancel(t) \/ Reset(t) \/ Destroy(t)
      BY <3>1, OtherObjectFrame DEF LoopInv
    <3>2. CASE \E t \in Txns : ServerExpire(t)
      BY <3>2 DEF ServerExpire, ghostVars
    <3>3. CASE Tick \/ Terminated
      BY <3>3 DEF Tick, Terminated, vars, ghostVars
    <3>4. CASE lpc = "returned" /\ Destroy(c)
      BY <3>4
    <3> QED
      BY <1>8, <3>1, <3>2, <3>3, <3>4 DEF Others
  <2>3. srv[c].st = "committed" => srv'[c].st = "committed"
    <3>1. CASE \E t \in Txns \ {c} :
             \/ \E k \in Keys :
                   \/ Get(t, k) \/ GetThrows(t, k) \/ SnapshotGet(t, k)
                   \/ Clear(t, k) \/ AddReadConflict(t, k)
                   \/ \E v \in Vals : Set(t, k, v)
             \/ CommitAgain(t) \/ CommitBeginFails(t) \/ CommitSend(t)
             \/ CommitReturn(t) \/ Cancel(t) \/ Reset(t) \/ Destroy(t)
      BY <3>1, OtherObjectFrame DEF LoopInv
    <3>2. CASE \E t \in Txns : ServerExpire(t)
      <4>1. PICK t \in Txns : ServerExpire(t)
        BY <3>2
      <4>2. CASE t = c
        BY <4>1, <4>2 DEF ServerExpire, Expire
      <4>3. CASE t # c
        BY <4>1, <4>3, <1>0, <1>2 DEF ServerExpire, Expire
      <4> QED
        BY <4>2, <4>3
    <3>3. CASE Tick \/ Terminated \/ (lpc = "returned" /\ Destroy(c))
      BY <3>3 DEF Tick, Terminated, Destroy, vars, serverVars
    <3> QED
      BY <1>8, <3>1, <3>2, <3>3 DEF Others
  <2> QED
    BY <1>9, <2>1, <2>2, <2>3 DEF loopVars
<1>10. CASE UNCHANGED allVars
  BY <1>9, <1>10 DEF allVars, vars, loopVars, serverVars, ghostVars
<1> QED
  BY <1>3, <1>4, <1>5, <1>6, <1>7, <1>8, <1>10 DEF LoopNext

\* LoopInv holds in every reachable state of the loop.
LEMMA LoopInvInvariant == LoopSpec => []LoopInv
<1>1. LoopInit => LoopInv
  <2> SUFFICES ASSUME LoopInit PROVE LoopInv
    OBVIOUS
  <2>1. TypeInv
    BY CustomTransactionAssumption
    DEF LoopInit, Init, ServerInit, TypeInv, SrvInv, ServerTypeOK, SrvRvValid,
        ClientTypeOK, GhostTypeOK, CommitResult, NoSrvTxn, SrvTxn, SrvStatus,
        InitState, Val
  <2>2. CommittedVersionInv
    BY DEF LoopInit, Init, CommittedVersionInv
  <2>3. LoopPart
    BY WithTransactionAssumption
    DEF LoopInit, Init, LoopPart, HandlerCodes, Codes, NotAckedBeforeReturn,
        LoopOkMeansCommitted, c
  <2> QED
    BY <2>1, <2>2, <2>3 DEF LoopInv, LoopPart
<1>2. LoopInv /\ [LoopNext]_allVars => LoopInv'
  BY LoopInvStep
<1> QED
  BY <1>1, <1>2, PTL DEF LoopSpec

\* WithTransaction returns success only when the server committed the
\* loop's transaction, for every retry budget, every clock bound and every
\* number of other objects running concurrently: the success is the one
\* commit() reported, and no later step of another object or of the
\* server's timeout undoes a commit.
THEOREM LoopOkMeansCommittedHolds == LoopSpec => []LoopOkMeansCommitted
BY LoopInvInvariant, PTL DEF LoopInv

\* Type correctness of the loop model.
THEOREM LoopTypeCorrect == LoopSpec => []LoopTypeOK
<1>1. LoopInv => LoopTypeOK
  BY DEF LoopInv, LoopTypeOK, TypeOK, TypeInv, SrvInv, HandlerCodes, Codes
<1> QED
  BY <1>1, LoopInvInvariant, PTL
=============================================================================
