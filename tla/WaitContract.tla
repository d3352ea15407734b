--------------------------- MODULE WaitContract ---------------------------
(***************************************************************************)
(* What a call of waitForFuture (src/src/fdb/CustomTransaction.h)         *)
(* promises its caller, without the poll, the callback and the Baton: it  *)
(* returns only once the library has completed the future, it throws only *)
(* when the future failed, and once the future has completed it does not  *)
(* stay suspended.  WaitForFuture is shown to implement this module.      *)
(***************************************************************************)
CONSTANTS Waiters

VARIABLES
    st,     \* each call: "waiting", "returned" or "thrown"
    fut     \* each future: "pending", "ready" or "failed"

vars == <<st, fut>>

Init ==
    /\ st = [w \in Waiters |-> "waiting"]
    /\ fut = [w \in Waiters |-> "pending"]

\* The library completes the future, with a result or an error.
Complete(w) ==
    /\ fut[w] = "pending"
    /\ \E r \in {"ready", "failed"} : fut' = [fut EXCEPT ![w] = r]
    /\ UNCHANGED st

\* The call returns: the future has completed (the caller reads its
\* result or its error).
Return(w) ==
    /\ st[w] = "waiting" /\ fut[w] # "pending"
    /\ st' = [st EXCEPT ![w] = "returned"]
    /\ UNCHANGED fut

\* The call throws: the future failed.
Throw(w) ==
    /\ st[w] = "waiting" /\ fut[w] = "failed"
    /\ st' = [st EXCEPT ![w] = "thrown"]
    /\ UNCHANGED fut

Next == \E w \in Waiters : Complete(w) \/ Return(w) \/ Throw(w)

Safety == Init /\ [][Next]_vars

\* A call whose future has completed ends: the library is not required to
\* complete a future, but the call must not outlive a completed one.
Spec == Safety /\ \A w \in Waiters : WF_vars(Return(w) \/ Throw(w))
=============================================================================
