------------------------- MODULE WaitForFutureProofs -------------------------
(***************************************************************************)
(* Proofs about WaitForFuture for every set of concurrent calls and either *)
(* behaviour of the library on a late-registered callback.                *)
(*                                                                         *)
(* ReturnsOnlyWhenComplete is not inductive by itself: Resume ends a call *)
(* because its Baton was posted, so the proof carries the fact that a     *)
(* Baton is posted only for a completed future (WaitInv).  The same       *)
(* invariant gives the refinement of WaitContract's safety part: every    *)
(* step that ends a call is a Return or a Throw the contract allows, and  *)
(* every other step is a Complete or leaves the contract's state alone.   *)
(* The fairness part of WaitContract!Spec (a call with a completed future *)
(* ends) is checked by TLC only: it is a liveness property.               *)
(***************************************************************************)
EXTENDS WaitForFuture, TLAPS

\* A call has returned, or its Baton has been posted, only on a completed
\* future.
PostedOnlyWhenComplete ==
    \A w \in Waiters : pc[w] = "done" \/ posted[w] => fut[w] # "pending"

\* A call throws only on a failed future.
ThrownOnlyWhenFailed == \A w \in Waiters : pc[w] = "thrown" => fut[w] = "failed"

WaitInv == TypeOK /\ PostedOnlyWhenComplete /\ ThrownOnlyWhenFailed

\* Every step preserves WaitInv.
LEMMA WaitInvStep ==
    ASSUME WaitInv, [Next]_vars
    PROVE  WaitInv'
<1>. USE DEF WaitInv, TypeOK, PostedOnlyWhenComplete, ThrownOnlyWhenFailed
<1>1. ASSUME NEW w \in Waiters, Poll(w) PROVE WaitInv'
  BY <1>1 DEF Poll
<1>2. ASSUME NEW w \in Waiters, SetCallback(w) PROVE WaitInv'
  <2>1. CASE fut[w] = "pending"
    BY <1>2, <2>1 DEF SetCallback
  <2>2. CASE fut[w] # "pending" /\ CallbackIfReady
    BY <1>2, <2>2 DEF SetCallback
  <2>3. CASE fut[w] # "pending" /\ ~CallbackIfReady
    BY <1>2, <2>3 DEF SetCallback
  <2> QED
    BY <2>1, <2>2, <2>3
<1>3. ASSUME NEW w \in Waiters, Complete(w) PROVE WaitInv'
  BY <1>3 DEF Complete
<1>4. ASSUME NEW w \in Waiters, Fire(w) PROVE WaitInv'
  BY <1>4 DEF Fire
<1>5. ASSUME NEW w \in Waiters, Resume(w) PROVE WaitInv'
  BY <1>5 DEF Resume
<1>6. CASE UNCHANGED vars
  BY <1>6 DEF vars
<1> QED
  BY <1>1, <1>2, <1>3, <1>4, <1>5, <1>6 DEF Next

\* WaitInv holds in every reachable state.
LEMMA WaitInvInvariant == Spec => []WaitInv
<1>1. Init => WaitInv
  BY DEF Init, WaitInv, TypeOK, PostedOnlyWhenComplete, ThrownOnlyWhenFailed
<1>2. WaitInv /\ [Next]_vars => WaitInv'
  BY WaitInvStep
<1> QED
  BY <1>1, <1>2, PTL DEF Spec

\* waitForFuture returns normally only on a completed future, for every
\* number of concurrent calls, whether the poll already saw it complete or
\* the callback's Baton resumed the coroutine.
THEOREM ReturnsOnlyWhenCompleteHolds == Spec => []ReturnsOnlyWhenComplete
<1>1. WaitInv => ReturnsOnlyWhenComplete
  BY DEF WaitInv, PostedOnlyWhenComplete, ReturnsOnlyWhenComplete
<1> QED
  BY <1>1, WaitInvInvariant, PTL

-----------------------------------------------------------------------------
(* The refinement of WaitContract's safety part. *)

\* The contract's view of the calls.
stBar == [w \in Waiters |-> Status(w)]

\* A step that moves call w from pc[w] to x and leaves every other call
\* where it is changes the contract's view of w only.
LEMMA StatusUpdate ==
    ASSUME TypeOK, NEW w \in Waiters, NEW x,
           pc' = [pc EXCEPT ![w] = x]
    PROVE  stBar' = [stBar EXCEPT ![w] = Status(w)']
BY DEF TypeOK, stBar, Status

\* Every step of waitForFuture and the library is a step of the contract or
\* leaves its state unchanged.
LEMMA RefinementStep ==
    ASSUME WaitInv, [Next]_vars
    PROVE  [Contract!Next]_Contract!vars
<1>. USE DEF WaitInv, TypeOK
<1>1. ASSUME NEW w \in Waiters, Poll(w) PROVE [Contract!Next]_Contract!vars
  <2>1. stBar' = [stBar EXCEPT ![w] = Status(w)'] /\ fut' = fut
        /\ Status(w) = "waiting"
    BY <1>1, StatusUpdate DEF Poll, Status
  <2>2. CASE fut[w] = "ready"
    <3>1. Status(w)' = "returned"
      BY <1>1, <2>2 DEF Poll, Status
    <3>2. Contract!Return(w)
      BY <2>1, <2>2, <3>1 DEF stBar, Contract!Return
    <3> QED
      BY <3>2 DEF Contract!Next
  <2>3. CASE fut[w] = "failed"
    <3>1. Status(w)' = "thrown"
      BY <1>1, <2>3 DEF Poll, Status
    <3>2. Contract!Throw(w)
      BY <2>1, <2>3, <3>1 DEF stBar, Contract!Throw
    <3> QED
      BY <3>2 DEF Contract!Next
  <2>4. CASE fut[w] = "pending"
    <3>1. Status(w)' = "waiting"
      BY <1>1, <2>4 DEF Poll, Status
    <3>2. stBar' = stBar
      BY <2>1, <3>1 DEF stBar
    <3> QED
      BY <2>1, <3>2 DEF Contract!vars, stBar
  <2> QED
    BY <2>2, <2>3, <2>4
<1>2. ASSUME NEW w \in Waiters, SetCallback(w)
      PROVE  [Contract!Next]_Contract!vars
  <2>1. stBar' = [stBar EXCEPT ![w] = Status(w)'] /\ fut' = fut
    BY <1>2, StatusUpdate DEF SetCallback
  <2>2. Status(w)' = "waiting" /\ Status(w) = "waiting"
    BY <1>2 DEF SetCallback, Status
  <2>3. stBar' = stBar
    BY <2>1, <2>2 DEF stBar
  <2> QED
    BY <2>1, <2>3 DEF Contract!vars, stBar
<1>3. ASSUME NEW w \in Waiters, Complete(w)
      PROVE  [Contract!Next]_Contract!vars
  <2>1. stBar' = stBar
    BY <1>3 DEF Complete, stBar, Status
  <2>2. Contract!Complete(w)
    BY <1>3, <2>1 DEF Complete, Contract!Complete, stBar
  <2> QED
    BY <2>2 DEF Contract!Next
<1>4. ASSUME NEW w \in Waiters, Fire(w) PROVE [Contract!Next]_Contract!vars
  <2>1. stBar' = stBar /\ fut' = fut
    BY <1>4 DEF Fire, stBar, Status
  <2> QED
    BY <2>1 DEF Contract!vars, stBar
<1>5. ASSUME NEW w \in Waiters, Resume(w) PROVE [Contract!Next]_Contract!vars
  <2>1. stBar' = [stBar EXCEPT ![w] = Status(w)'] /\ fut' = fut
    BY <1>5, StatusUpdate DEF Resume
  <2>2. Status(w) = "waiting" /\ Status(w)' = "returned"
    BY <1>5 DEF Resume, Status
  <2>3. fut[w] # "pending"
    BY <1>5 DEF Resume, PostedOnlyWhenComplete
  <2>4. Contract!Return(w)
    BY <2>1, <2>2, <2>3 DEF stBar, Contract!Return
  <2> QED
    BY <2>4 DEF Contract!Next
<1>6. CASE UNCHANGED vars
  BY <1>6 DEF vars, Contract!vars, stBar, Status
<1> QED
  BY <1>1, <1>2, <1>3, <1>4, <1>5, <1>6 DEF Next

\* waitForFuture implements the safety part of its contract, for every
\* number of concurrent calls: every behaviour of the poll, the callback,
\* the Baton and the library is a behaviour in which calls return only on
\* completed futures and throw only on failed ones.
THEOREM WaitRefinesContract == Spec => Contract!Safety
<1>1. Init => Contract!Init
  BY DEF Init, Contract!Init, Status
<1>2. WaitInv /\ [Next]_vars => [Contract!Next]_Contract!vars
  BY RefinementStep
<1> QED
  BY <1>1, <1>2, WaitInvInvariant, PTL DEF Spec, Contract!Safety
=============================================================================
