------------------------- MODULE CustomTransaction -------------------------
(***************************************************************************)
(* The read-write transaction object of the custom KV engine              *)
(* (hf3fs::kv::CustomTransaction, the implementation part of              *)
(* src/src/fdb/CustomTransaction.h) against the server of KvServer.       *)
(*                                                                         *)
(* Each element of Txns is one CustomTransaction object, owned by one     *)
(* coroutine.  Its state is the four atomics cancelled_, reset_,          *)
(* committed_, committed_version_, and whether transaction_handle_ is     *)
(* set.  The owner calls the methods in any order; each method is one    *)
(* action, except commit(), which is split at the co_await on the commit *)
(* future: other objects run while the owner waits for the reply.         *)
(*                                                                         *)
(* A method call that only returns an error without changing any state    *)
(* (a call on a finished transaction, a failed kv_transaction_begin in    *)
(* get/set/clear) is a stuttering step and is not written out.           *)
(*                                                                         *)
(* Ghost variables record what the owner observed, for the properties:    *)
(* tracked (values the server answered to get), failed (keys whose get    *)
(* returned std::nullopt because the call failed) and acked (commit()     *)
(* returned success).                                                      *)
(***************************************************************************)
EXTENDS KvServer, Integers

CONSTANTS
    MaxClock    \* bound on the steady clock read by commit()

ASSUME CustomTransactionAssumption == MaxClock \in Nat

VARIABLES
    cancelled_,             \* [Txns -> BOOLEAN]
    reset_,                 \* [Txns -> BOOLEAN]
    committed_,             \* [Txns -> BOOLEAN]
    transaction_handle_,    \* [Txns -> BOOLEAN]: the handle is non-null
    committed_version_,     \* [Txns -> Int]
    alive,                  \* [Txns -> BOOLEAN]: the object is not destroyed
    pending,                \* [Txns -> result of a commit awaiting its reply]
    clock,                  \* steady_clock, in ticks
    tracked, failed, acked  \* ghost observations

clientVars == <<cancelled_, reset_, committed_, transaction_handle_,
                committed_version_, alive, pending>>
readGhosts == <<tracked, failed>>
ghostVars == <<tracked, failed, acked>>
vars == <<serverVars, clientVars, clock, ghostVars>>

\* Outcome of a commit as the server reports it: success, transaction
\* conflict, transaction not found (the server timed it out).  The model's
\* server raises no other error; KV_ERROR_TRANSACTION_TIMEOUT (kTimeout)
\* and the default case (kIOError) would take commit()'s error branch with
\* the same effect on the state as a conflict, only another code returned.
CommitResult == {"none", "ok", "conflict", "notfound"}

ClientTypeOK ==
    /\ cancelled_ \in [Txns -> BOOLEAN]
    /\ reset_ \in [Txns -> BOOLEAN]
    /\ committed_ \in [Txns -> BOOLEAN]
    /\ transaction_handle_ \in [Txns -> BOOLEAN]
    /\ committed_version_ \in [Txns -> {-1} \cup (0..MaxClock)]
    /\ alive \in [Txns -> BOOLEAN]
    /\ pending \in [Txns -> CommitResult]
    /\ clock \in 0..MaxClock

GhostTypeOK ==
    /\ tracked \in [Txns -> SUBSET (Keys \X Val)]
    /\ failed \in [Txns -> SUBSET Keys]
    /\ acked \in [Txns -> BOOLEAN]

\* The type invariant of the object's fields, the clock, the server and the
\* observations.
TypeOK == ServerTypeOK /\ ClientTypeOK /\ GhostTypeOK

Init ==
    /\ ServerInit
    /\ cancelled_ = [t \in Txns |-> FALSE]
    /\ reset_ = [t \in Txns |-> FALSE]
    /\ committed_ = [t \in Txns |-> FALSE]
    /\ transaction_handle_ = [t \in Txns |-> FALSE]
    /\ committed_version_ = [t \in Txns |-> -1]
    /\ alive = [t \in Txns |-> TRUE]
    /\ pending = [t \in Txns |-> "none"]
    /\ clock = 0
    /\ tracked = [t \in Txns |-> {}]
    /\ failed = [t \in Txns |-> {}]
    /\ acked = [t \in Txns |-> FALSE]

\* The owner can call a method: the object exists and the owner is not
\* suspended in commit().
Callable(t) == alive[t] /\ pending[t] = "none"

\* The "Transaction is finished" early return of every data method.
Unfinished(t) == ~cancelled_[t] /\ ~reset_[t] /\ ~committed_[t]

\* ensureTransaction(): the server transaction after the call, beginning
\* one when transaction_handle_ is null.
Ensured(t) == IF transaction_handle_[t] THEN srv[t] ELSE Begun

HandleSet(t) == transaction_handle_' = [transaction_handle_ EXCEPT ![t] = TRUE]

\* Mutant of Get: get() served by a read transaction at the latest version,
\* as snapshotGet is, so the read is not in the conflict set.
GetViaSnapshot(t, k) ==
    /\ Callable(t) /\ Unfinished(t)
    /\ tracked' = [tracked EXCEPT ![t] = @ \cup {<<k, Latest(k)>>}]
    /\ UNCHANGED <<serverVars, clientVars, clock, failed, acked>>

\* The outcomes of kv_transaction_get of k on server transaction s, with the
\* server transaction after the call: the value, when s is open; or a
\* failed call (s no longer open, a transport or server error), after which
\* the server may or may not have recorded the read.
GetReplies(s, k) ==
    LET read == [s EXCEPT !.rs = @ \cup {k}]
        after == IF s.st = "open" THEN {s, read} ELSE {s}
    IN  {[ok |-> FALSE, txn |-> x] : x \in after}
        \cup (IF s.st = "open" THEN {[ok |-> TRUE, txn |-> read]} ELSE {})

\* get(key): ensureTransaction, kv_transaction_get, waitForFuture, then
\* kv_future_get_value_result.  Any unsuccessful result is mapped to
\* std::nullopt, the answer for an absent key; waitForFuture returns
\* normally on a failed future completed through its callback.
Get(t, k) ==
    /\ Callable(t) /\ Unfinished(t)
    /\ LET s == Ensured(t)
       IN \E r \in GetReplies(s, k) :
             /\ srv' = [srv EXCEPT ![t] = r.txn]
             /\ tracked' = IF r.ok /\ k \notin s.ws
                           THEN [tracked EXCEPT ![t] = @ \cup {<<k, SrvRead(s, k)>>}]
                           ELSE tracked
             /\ failed' = IF ~r.ok /\ k \notin s.ws
                          THEN [failed EXCEPT ![t] = @ \cup {k}]
                          ELSE failed
    /\ HandleSet(t)
    /\ UNCHANGED <<db, cancelled_, reset_, committed_, committed_version_,
                   alive, pending, clock, acked>>

\* get(key) whose waitForFuture throws (kv_future_poll returns -1): the
\* exception leaves get() with nothing returned.
GetThrows(t, k) ==
    /\ Callable(t) /\ Unfinished(t)
    /\ LET s == Ensured(t)
       IN \E r \in GetReplies(s, k) : ~r.ok /\ srv' = [srv EXCEPT ![t] = r.txn]
    /\ HandleSet(t)
    /\ UNCHANGED <<db, cancelled_, reset_, committed_, committed_version_,
                   alive, pending, clock, ghostVars>>

\* snapshotGet(key): a separate read transaction begun at
\* read_version_.value_or(0), read and destroyed; it leaves the object,
\* its server transaction and its conflict set as they are.
SnapshotGet(t, k) ==
    /\ Callable(t) /\ Unfinished(t)
    /\ UNCHANGED vars

\* set(key, value) and clear(key): ensureTransaction, then
\* kv_transaction_set / kv_transaction_delete into the write buffer.
Write(t, k, v) ==
    /\ Callable(t) /\ Unfinished(t)
    /\ LET s == Ensured(t)
       IN srv' = [srv EXCEPT ![t] =
                    IF s.st = "open"
                    THEN [s EXCEPT !.ws = @ \cup {k}, !.wv[k] = v] ELSE s]
    /\ HandleSet(t)
    /\ UNCHANGED <<db, cancelled_, reset_, committed_, committed_version_,
                   alive, pending, clock, ghostVars>>

Set(t, k, v) == Write(t, k, v)
Clear(t, k) == Write(t, k, NoValue)

\* addReadConflict(key): after the "Transaction is finished" check the body
\* is a TODO, so the key never reaches the server's conflict set.
AddReadConflict(t, k) ==
    /\ Callable(t) /\ Unfinished(t)
    /\ UNCHANGED vars

\* commit() when committed_ is already set: the compare_exchange fails and
\* the call returns success.
CommitAgain(t) ==
    /\ Callable(t) /\ ~cancelled_[t] /\ ~reset_[t]
    /\ committed_[t]
    /\ acked' = [acked EXCEPT ![t] = TRUE]
    /\ UNCHANGED <<serverVars, clientVars, clock, readGhosts>>

\* commit(): committed_ is set, then ensureTransaction fails
\* (kv_transaction_begin yields no handle) and the call returns IOError.
CommitBeginFails(t) ==
    /\ Callable(t) /\ Unfinished(t)
    /\ ~transaction_handle_[t]
    /\ committed_' = [committed_ EXCEPT ![t] = TRUE]
    /\ UNCHANGED <<serverVars, cancelled_, reset_, transaction_handle_,
                   committed_version_, alive, pending, clock, ghostVars>>

\* commit(): committed_ is set, ensureTransaction, kv_transaction_commit.
\* The server validates and installs or rejects the transaction atomically;
\* the owner then waits for the reply.
CommitSend(t) ==
    /\ Callable(t) /\ Unfinished(t)
    /\ committed_' = [committed_ EXCEPT ![t] = TRUE]
    /\ HandleSet(t)
    /\ LET s == Ensured(t) IN
       \/ /\ s.st # "open"
          /\ pending' = [pending EXCEPT ![t] = "notfound"]
          /\ srv' = [srv EXCEPT ![t] = s]
          /\ UNCHANGED db
       \/ /\ s.st = "open" /\ Conflicts(s)
          /\ pending' = [pending EXCEPT ![t] = "conflict"]
          /\ srv' = [srv EXCEPT ![t] = [s EXCEPT !.st = "aborted"]]
          /\ UNCHANGED db
       \/ /\ s.st = "open" /\ ~Conflicts(s)
          /\ pending' = [pending EXCEPT ![t] = "ok"]
          /\ db' = Append(db, [ws |-> s.ws, val |-> Installed(s)])
          /\ srv' = [srv EXCEPT ![t] = [s EXCEPT !.st = "committed",
                                                 !.cpos = Len(db) + 1]]
    /\ UNCHANGED <<cancelled_, reset_, committed_version_, alive, clock,
                   ghostVars>>

\* Mutant of CommitReturn: the steady_clock reading is stored before the
\* result is checked, whatever the server answered.
CommitReturnStoresFirst(t) ==
    /\ alive[t] /\ pending[t] # "none"
    /\ pending' = [pending EXCEPT ![t] = "none"]
    /\ committed_version_' = [committed_version_ EXCEPT ![t] = clock]
    /\ acked' = [acked EXCEPT ![t] = pending[t] = "ok"]
    /\ UNCHANGED <<serverVars, cancelled_, reset_, committed_,
                   transaction_handle_, alive, clock, readGhosts>>

\* Mutant of CommitReturn: the version is the clock reading plus one.
CommitReturnOffByOne(t) ==
    /\ alive[t] /\ pending[t] = "ok"
    /\ pending' = [pending EXCEPT ![t] = "none"]
    /\ committed_version_' = [committed_version_ EXCEPT ![t] = clock + 1]
    /\ acked' = [acked EXCEPT ![t] = TRUE]
    /\ UNCHANGED <<serverVars, cancelled_, reset_, committed_,
                   transaction_handle_, alive, clock, readGhosts>>

\* Mutant of CommitReturn: the result is not checked (the
\* !result.success branch is missing), so every reply is a success.
CommitReturnIgnoresResult(t) ==
    /\ alive[t] /\ pending[t] # "none"
    /\ pending' = [pending EXCEPT ![t] = "none"]
    /\ committed_version_' = [committed_version_ EXCEPT ![t] = clock]
    /\ acked' = [acked EXCEPT ![t] = TRUE]
    /\ UNCHANGED <<serverVars, cancelled_, reset_, committed_,
                   transaction_handle_, alive, clock, readGhosts>>

\* commit() resumes with the reply.  On success committed_version_ is set to
\* the current steady_clock reading; an error is mapped to a status code and
\* returned; a failed poll of the future throws, whatever the server did.
CommitReturn(t) ==
    /\ alive[t] /\ pending[t] # "none"
    /\ pending' = [pending EXCEPT ![t] = "none"]
    /\ \/ /\ pending[t] = "ok"
          /\ committed_version_' = [committed_version_ EXCEPT ![t] = clock]
          /\ acked' = [acked EXCEPT ![t] = TRUE]
       \/ /\ pending[t] # "ok"
          /\ UNCHANGED <<committed_version_, acked>>
       \/ /\ pending[t] = "ok"     \* waitForFuture throws
          /\ UNCHANGED <<committed_version_, acked>>
    /\ UNCHANGED <<serverVars, cancelled_, reset_, committed_,
                   transaction_handle_, alive, clock, readGhosts>>

\* cancel(): the first call sets cancelled_ and, if there is a handle,
\* aborts the server transaction and clears the handle.
Cancel(t) ==
    /\ Callable(t) /\ ~cancelled_[t]
    /\ cancelled_' = [cancelled_ EXCEPT ![t] = TRUE]
    /\ transaction_handle_' = [transaction_handle_ EXCEPT ![t] = FALSE]
    /\ srv' = IF transaction_handle_[t] /\ srv[t].st = "open"
              THEN [srv EXCEPT ![t].st = "aborted"] ELSE srv
    /\ UNCHANGED <<db, reset_, committed_, committed_version_, alive,
                   pending, clock, ghostVars>>

\* reset(): sets reset_, clears cancelled_, committed_ and the committed
\* version; the handle and the server transaction are left as they are.
Reset(t) ==
    /\ Callable(t)
    /\ reset_' = [reset_ EXCEPT ![t] = TRUE]
    /\ cancelled_' = [cancelled_ EXCEPT ![t] = FALSE]
    /\ committed_' = [committed_ EXCEPT ![t] = FALSE]
    /\ committed_version_' = [committed_version_ EXCEPT ![t] = -1]
    /\ UNCHANGED <<serverVars, transaction_handle_, alive, pending, clock,
                   ghostVars>>

\* ~CustomTransaction(): when not cancelled, reset or committed it creates
\* the cancel() task, but the task is lazy and is destroyed without being
\* awaited, so nothing reaches the server.
Destroy(t) ==
    /\ Callable(t)
    /\ alive' = [alive EXCEPT ![t] = FALSE]
    /\ UNCHANGED <<serverVars, cancelled_, reset_, committed_,
                   transaction_handle_, committed_version_, pending, clock,
                   ghostVars>>

\* The steady clock advances.
Tick ==
    /\ clock < MaxClock
    /\ clock' = clock + 1
    /\ UNCHANGED <<serverVars, clientVars, ghostVars>>

ServerExpire(t) ==
    /\ Expire(t)
    /\ UNCHANGED <<clientVars, clock, ghostVars>>

\* Every object has been destroyed: the clients are done.
Terminated ==
    /\ \A t \in Txns : ~alive[t]
    /\ UNCHANGED vars

Next ==
    \/ \E t \in Txns :
          \/ \E k \in Keys :
                \/ Get(t, k) \/ GetThrows(t, k) \/ SnapshotGet(t, k)
                \/ Clear(t, k)
                \/ AddReadConflict(t, k)
                \/ \E v \in Vals : Set(t, k, v)
          \/ CommitAgain(t) \/ CommitBeginFails(t) \/ CommitSend(t)
          \/ CommitReturn(t) \/ Cancel(t) \/ Reset(t) \/ Destroy(t)
          \/ ServerExpire(t)
    \/ Tick
    \/ Terminated

Spec == Init /\ [][Next]_vars

-----------------------------------------------------------------------------
(* Properties *)

\* Serializability of the reads the server answered: every value the
\* server returned to a get() of a committed transaction (not from its own
\* write) is still the committed value of that key when it commits.  It
\* rests on get() going through the object's one server transaction
\* (ensureTransaction reusing the handle) and on commit() reporting the
\* server's validation.
AnsweredReadsValidAtCommit ==
    \A t \in Txns : srv[t].st = "committed" =>
        \A r \in tracked[t] : db[srv[t].cpos - 1].val[r[1]] = r[2]

\* What get() returned to the owner: the values the server answered, and
\* std::nullopt (absent) for every key whose get() failed.
Returned(t) == tracked[t] \cup {<<k, NoValue>> : k \in failed[t]}

\* Serializability as the owner sees it (engine contract: serializable
\* transactions; a get of an absent key returns nullopt): every result a
\* committed transaction's get() returned is the committed state when it
\* commits.
ReadsValidAtCommit ==
    \A t \in Txns : srv[t].st = "committed" =>
        \A r \in Returned(t) : db[srv[t].cpos - 1].val[r[1]] = r[2]

\* getCommittedVersion() reports a version (not -1) only for a transaction
\* whose commit the server accepted.
CommittedVersionSound ==
    \A t \in Txns : committed_version_[t] >= 0 => srv[t].st = "committed"

\* Strengthening of CommittedVersionSound that is inductive: a recorded
\* version, or a successful reply not yet processed, implies that committed_
\* is set (so no data method can begin a new server transaction) and that
\* the server committed.
CommittedVersionInv ==
    \A t \in Txns :
        (committed_version_[t] >= 0 \/ pending[t] = "ok")
            => committed_[t] /\ srv[t].st = "committed"

\* commit() returns success only when the server committed the
\* transaction, as the engine contract says (Conflict: definitely not
\* committed).
CommitAckImpliesCommitted ==
    \A t \in Txns : acked[t] => srv[t].st = "committed"

\* Destroying a transaction object does not leave its server transaction
\* open (the destructor's "auto-cancel on destruction").
NoOpenTxnAfterDestroy ==
    \A t \in Txns : ~alive[t] => srv[t].st # "open"

-----------------------------------------------------------------------------
(* Refinement: the objects and the server implement SerialKv.  The store  *)
(* is the latest committed state, a transaction's reads are the values    *)
(* the server answered to get() (not from its own writes; a failed get() *)
(* that returned nullopt is not a read of the store: see ReadsValidAtCommit *)
(* for what it does to the owner), and it is                              *)
(* done once the server has committed it.                                 *)

Serial == INSTANCE SerialKv
            WITH Values <- Val, Absent <- NoValue,
                 store <- db[Len(db)].val,
                 reads <- tracked,
                 done <- [t \in Txns |-> srv[t].st = "committed"]

\* Every behaviour of the client objects and the server is a behaviour of
\* a serial store: a commit the server accepts installs the object's
\* writes at one instant at which every value the server answered to its
\* get() calls is still current, nothing else changes the committed state, and a
\* committed object never reads or commits again (reset(), cancel() and
\* the server timeout included).
ImplementsSerialKv == Serial!Spec
=============================================================================
