--------------------------- MODULE WaitForFuture ---------------------------
(***************************************************************************)
(* waitForFuture (src/src/fdb/CustomTransaction.h) and the library thread *)
(* that completes a kv_* future.  The coroutine polls the future once;    *)
(* when it is not ready it registers a callback that posts a Baton and    *)
(* suspends on the Baton.  The future may complete between the poll and   *)
(* kv_future_set_callback.  Whether the library then runs a callback      *)
(* registered on an already completed future is not stated anywhere in   *)
(* this repository (kvstore_client.h is not part of it): the constant     *)
(* CallbackIfReady says it does.                                          *)
(*                                                                         *)
(* Each waiter is one call of waitForFuture on its own future, as the      *)
(* coroutines of different transactions do concurrently.                  *)
(***************************************************************************)
EXTENDS Naturals

CONSTANTS
    Waiters,            \* the concurrent waitForFuture calls
    CallbackIfReady     \* the library runs a late-registered callback

ASSUME WaitForFutureAssumption == CallbackIfReady \in BOOLEAN

VARIABLES
    pc,         \* where each waitForFuture call is
    fut,        \* state of each future in the library
    cb,         \* the callback of each future ("dropped": registered
                \* after completion and never run)
    posted      \* each Baton has been posted

vars == <<pc, fut, cb, posted>>

\* The type invariant.
TypeOK ==
    /\ pc \in [Waiters -> {"poll", "setcb", "wait", "done", "thrown"}]
    /\ fut \in [Waiters -> {"pending", "ready", "failed"}]
    /\ cb \in [Waiters -> {"none", "registered", "fired", "dropped"}]
    /\ posted \in [Waiters -> BOOLEAN]

Init ==
    /\ pc = [w \in Waiters |-> "poll"]
    /\ fut = [w \in Waiters |-> "pending"]
    /\ cb = [w \in Waiters |-> "none"]
    /\ posted = [w \in Waiters |-> FALSE]

\* Mutant: only -1 is checked, so a poll of 0 returns as if ready.
PollReturnsOnZero(w) ==
    /\ pc[w] = "poll"
    /\ pc' = [pc EXCEPT ![w] = IF fut[w] = "failed" THEN "thrown" ELSE "done"]
    /\ UNCHANGED <<fut, cb, posted>>

\* kv_future_poll: 1 returns at once, -1 throws "Future polling failed",
\* 0 goes on to register the callback.
Poll(w) ==
    /\ pc[w] = "poll"
    /\ pc' = [pc EXCEPT ![w] = CASE fut[w] = "ready"   -> "done"
                                 [] fut[w] = "failed"  -> "thrown"
                                 [] fut[w] = "pending" -> "setcb"]
    /\ UNCHANGED <<fut, cb, posted>>

\* Mutant: the callback is only ever run for a future still pending
\* when it is registered.
SetCallbackPendingOnly(w) ==
    /\ pc[w] = "setcb"
    /\ cb' = [cb EXCEPT ![w] = IF fut[w] = "pending" THEN "registered"
                                                    ELSE "dropped"]
    /\ pc' = [pc EXCEPT ![w] = "wait"]
    /\ UNCHANGED <<fut, posted>>

\* kv_future_set_callback, then co_await on the Baton.  On a future that
\* has already completed the library runs the callback at once, or never.
SetCallback(w) ==
    /\ pc[w] = "setcb"
    /\ CASE fut[w] = "pending" ->
               cb' = [cb EXCEPT ![w] = "registered"] /\ UNCHANGED posted
          [] fut[w] # "pending" /\ CallbackIfReady ->
               /\ cb' = [cb EXCEPT ![w] = "fired"]
               /\ posted' = [posted EXCEPT ![w] = TRUE]
          [] fut[w] # "pending" /\ ~CallbackIfReady ->
               cb' = [cb EXCEPT ![w] = "dropped"] /\ UNCHANGED posted
    /\ pc' = [pc EXCEPT ![w] = "wait"]
    /\ UNCHANGED fut

\* The library completes the future, with a result or an error.
Complete(w) ==
    /\ fut[w] = "pending"
    /\ \E r \in {"ready", "failed"} : fut' = [fut EXCEPT ![w] = r]
    /\ UNCHANGED <<pc, cb, posted>>

\* The library runs the registered callback of a completed future, which
\* posts the Baton.
Fire(w) ==
    /\ fut[w] # "pending" /\ cb[w] = "registered"
    /\ cb' = [cb EXCEPT ![w] = "fired"]
    /\ posted' = [posted EXCEPT ![w] = TRUE]
    /\ UNCHANGED <<pc, fut>>

\* The posted Baton resumes the coroutine, and waitForFuture returns.
Resume(w) ==
    /\ pc[w] = "wait" /\ posted[w]
    /\ pc' = [pc EXCEPT ![w] = "done"]
    /\ UNCHANGED <<fut, cb, posted>>

Next ==
    \/ \E w \in Waiters :
          Poll(w) \/ SetCallback(w) \/ Complete(w) \/ Fire(w) \/ Resume(w)

\* The executor runs every resumable coroutine, and the library runs the
\* callbacks it holds; the server is not assumed to answer (Complete has
\* no fairness).
Fairness ==
    \A w \in Waiters : /\ WF_vars(Poll(w)) /\ WF_vars(SetCallback(w))
                       /\ WF_vars(Fire(w)) /\ WF_vars(Resume(w))

Spec == Init /\ [][Next]_vars /\ Fairness

-----------------------------------------------------------------------------
(* Properties *)

\* waitForFuture never returns normally on a future that has not
\* completed (the caller goes on to read its result).
ReturnsOnlyWhenComplete ==
    \A w \in Waiters : pc[w] = "done" => fut[w] # "pending"

-----------------------------------------------------------------------------
(* Refinement: the poll, the callback and the Baton implement the contract *)
(* of WaitContract.  A call that has not returned or thrown is waiting,   *)
(* wherever it is suspended; the futures are the same.                     *)

Status(w) == CASE pc[w] = "done"   -> "returned"
               [] pc[w] = "thrown" -> "thrown"
               [] OTHER            -> "waiting"

Contract == INSTANCE WaitContract WITH st <- [w \in Waiters |-> Status(w)]

\* Every behaviour of waitForFuture, with the scheduling it assumes, is a
\* behaviour of the contract: each poll that returns or throws, and each
\* resumption by the Baton, is a Return or Throw allowed at that moment,
\* and every call with a completed future ends.
ImplementsContract == Contract!Spec
=============================================================================
