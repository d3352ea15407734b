-------------------------- MODULE WithTransaction --------------------------
(***************************************************************************)
(* The retry loop the metadata service wraps every transaction in         *)
(* (WithTransaction, src/unnamed/part_005 lines 127-145), run on one      *)
(* CustomTransaction object, LoopTxn, while the other objects of Txns run *)
(* any methods concurrently.  The handler is a read-modify-write of one   *)
(* key: get(k), then set(k, v).  On an error the retry strategy           *)
(* (strategy.onError, whose code is not in the repository) retries the    *)
(* codes the engine contract calls retriable, at most MaxRetries times,   *)
(* after calling reset() on the object or not: both are modelled.         *)
(*                                                                         *)
(* Status codes are abstracted to the ones the loop tells apart: conflict *)
(* (TransactionCode::kConflict), ioerror (StatusCode::kIOError), invalid  *)
(* (StatusCode::kInvalidArg); an exception thrown out of commit() leaves  *)
(* the loop as "exception".                                                *)
(***************************************************************************)
EXTENDS CustomTransaction

CONSTANTS
    LoopTxn,        \* the object the loop runs on
    MaxRetries      \* bound of the retry strategy

ASSUME WithTransactionAssumption ==
    /\ LoopTxn \in Txns
    /\ MaxRetries \in Nat

VARIABLES
    lpc,        \* where the loop is
    err,        \* the error the handler or commit() returned
    lres,       \* what the loop returned
    retries     \* retries so far

loopVars == <<lpc, err, lres, retries>>
allVars == <<vars, loopVars>>

Codes == {"none", "ok", "conflict", "ioerror", "invalid", "exception"}

\* The type invariant.
LoopTypeOK ==
    /\ TypeOK
    /\ lpc \in {"get", "set", "commit", "wait", "onerror", "returned"}
    /\ err \in Codes /\ lres \in Codes
    /\ retries \in 0..MaxRetries

\* Codes the engine contract calls retriable (Conflict; NetworkError and
\* the other transport failures, which the client reports as kIOError).
Retriable == {"conflict", "ioerror"}

LoopInit ==
    /\ Init
    /\ lpc = "get" /\ err = "none" /\ lres = "none" /\ retries = 0

c == LoopTxn

\* The handler gets an error: it is returned to the loop.
HandlerFails(code) ==
    /\ lpc' = "onerror" /\ err' = code
    /\ UNCHANGED <<lres, retries>>

\* The handler's get(k): "Transaction is finished", a failed
\* kv_transaction_begin (kIOError), the value or std::nullopt, or the
\* exception of waitForFuture, which leaves the handler and the loop.
LoopGet(k) ==
    /\ lpc = "get" /\ Callable(c)
    /\ \/ ~Unfinished(c) /\ HandlerFails("invalid") /\ UNCHANGED vars
       \/ Unfinished(c) /\ ~transaction_handle_[c]
          /\ HandlerFails("ioerror") /\ UNCHANGED vars
       \/ Get(c, k) /\ lpc' = "set" /\ UNCHANGED <<err, lres, retries>>
       \/ GetThrows(c, k) /\ lpc' = "returned" /\ lres' = "exception"
          /\ UNCHANGED <<err, retries>>

\* The handler's set(k, v).  The get() before it succeeded and only the
\* loop calls the object's methods, so its "Transaction is finished" and
\* ensureTransaction checks pass; kv_transaction_set fails (kIOError) on a
\* transaction the server no longer has.
LoopSet(k, v) ==
    /\ lpc = "set" /\ Callable(c)
    /\ \/ srv[c].st # "open" /\ HandlerFails("ioerror") /\ UNCHANGED vars
       \/ srv[c].st = "open" /\ Set(c, k, v)
          /\ lpc' = "commit" /\ UNCHANGED <<err, lres, retries>>

\* The loop's txn.commit(), up to the co_await on the commit future.  The
\* handler's get() and set() succeeded on this object, so the cancelled,
\* reset and already-committed returns and the failed ensureTransaction
\* cannot happen here: commit() sends kv_transaction_commit.
LoopCommit ==
    /\ lpc = "commit" /\ Callable(c)
    /\ CommitSend(c)
    /\ lpc' = "wait"
    /\ UNCHANGED <<err, lres, retries>>

\* commit() resumes: success, an error code (conflict -> kConflict,
\* not found -> kInvalidArg), or the exception of waitForFuture.
\* CO_RETURN_ON_ERROR returns a commit error from the loop unretried, and
\* the exception leaves the loop.
LoopCommitReturn ==
    /\ lpc = "wait"
    /\ CommitReturn(c)
    /\ lpc' = "returned"
    /\ lres' = CASE acked'[c]                 -> "ok"
                 [] pending[c] = "ok"         -> "exception"
                 [] pending[c] = "conflict"   -> "conflict"
                 [] pending[c] = "notfound"   -> "invalid"
    /\ UNCHANGED <<err, retries>>

\* Mutant of LoopOnError: the budget check is off by one.
LoopOnErrorOffByOne ==
    /\ lpc = "onerror"
    /\ \/ /\ err \in Retriable /\ retries <= MaxRetries
          /\ retries' = retries + 1 /\ lpc' = "get"
          /\ \/ Reset(c)
             \/ UNCHANGED vars
          /\ UNCHANGED <<err, lres>>
       \/ /\ err \notin Retriable \/ retries > MaxRetries
          /\ lpc' = "returned" /\ lres' = err
          /\ UNCHANGED <<vars, err, retries>>

\* strategy.onError: a retriable error within the budget goes back to the
\* handler, after reset() or without it; any other error is returned.
LoopOnError ==
    /\ lpc = "onerror"
    /\ \/ /\ err \in Retriable /\ retries < MaxRetries
          /\ retries' = retries + 1 /\ lpc' = "get"
          /\ \/ Reset(c)
             \/ UNCHANGED vars
          /\ UNCHANGED <<err, lres>>
       \/ /\ err \notin Retriable \/ retries = MaxRetries
          /\ lpc' = "returned" /\ lres' = err
          /\ UNCHANGED <<vars, err, retries>>

\* The other objects' methods, the server timeout of any object, the clock,
\* and the destruction of the loop's object once the loop has returned.
Others ==
    /\ \/ \E t \in Txns \ {c} :
             \/ \E k \in Keys :
                   \/ Get(t, k) \/ GetThrows(t, k) \/ SnapshotGet(t, k)
                   \/ Clear(t, k) \/ AddReadConflict(t, k)
                   \/ \E v \in Vals : Set(t, k, v)
             \/ CommitAgain(t) \/ CommitBeginFails(t) \/ CommitSend(t)
             \/ CommitReturn(t) \/ Cancel(t) \/ Reset(t) \/ Destroy(t)
       \/ \E t \in Txns : ServerExpire(t)
       \/ Tick
       \/ lpc = "returned" /\ Destroy(c)
       \/ Terminated
    /\ UNCHANGED loopVars

LoopNext ==
    \/ \E k \in Keys : LoopGet(k) \/ \E v \in Vals : LoopSet(k, v)
    \/ LoopCommit \/ LoopCommitReturn \/ LoopOnError
    \/ Others

LoopSpec == LoopInit /\ [][LoopNext]_allVars

-----------------------------------------------------------------------------
(* Properties *)

\* When WithTransaction returns success, the server committed the loop's
\* transaction: a commit() that fails after setting committed_ is never
\* followed by the "already committed" success, because the handler's
\* get() of the retry is refused first.
LoopOkMeansCommitted ==
    (lpc = "returned" /\ lres = "ok") => srv[c].st = "committed"

\* When WithTransaction returns anything but success, the server did not
\* commit the loop's transaction (errors are structured results; only
\* MaybeCommitted may leave the outcome open, and the client has no such
\* code).
ErrorMeansNotCommitted ==
    (lpc = "returned" /\ lres # "ok") => srv[c].st # "committed"

\* A retried transaction is not refused by the object: the loop never
\* returns kInvalidArg, since the handler passes only valid arguments and
\* every error it retries is retriable.
RetryNotRefused ==
    lpc = "returned" => lres # "invalid"
=============================================================================
