--------------------------- MODULE CustomKvEngine ---------------------------
(***************************************************************************)
(* The engine of the custom KV client (CustomKvEngine and                 *)
(* CustomKvEngineImpl, src/src/fdb/CustomKvEngine.cc): the Rust client    *)
(* handle it creates in initialize(), destroys in cleanup() and replaces  *)
(* in reconnect(), and the transactions it creates, each of which copies  *)
(* the client handle when it is constructed and passes it to every        *)
(* kv_* call afterwards.                                                   *)
(*                                                                         *)
(* Client handles are numbered in the order kv_client_create returns them *)
(* (0 is nullptr); live is the set the library has not destroyed.  The   *)
(* outcomes of the library calls (kv_init, kv_client_create,              *)
(* kv_client_ping) are nondeterministic.                                   *)
(*                                                                         *)
(* One caller calls reconnect(); the transaction threads run concurrently *)
(* with it.  cleanup() is two steps (kv_client_destroy, then the stores   *)
(* to client_handle_ and healthy_), and creating a transaction is two     *)
(* steps (the healthy_ check, then the constructor that copies            *)
(* client_handle_), because the fields are plain members read and written *)
(* without a lock.                                                         *)
(***************************************************************************)
EXTENDS Naturals, FiniteSets

CONSTANTS
    Threads,        \* the coroutines that create and use transactions
    MaxHandles,     \* bound on the number of client handles ever created
    HasEndpoints    \* config cluster_endpoints is not empty

ASSUME CustomKvEngineAssumption ==
    /\ MaxHandles \in Nat \ {0}
    /\ HasEndpoints \in BOOLEAN

Handles == 1..MaxHandles
NoHandle == 0

\* The kinds of transaction the engine creates.
TxnKinds == {"readonly", "readwrite"}

VARIABLES
    client_handle_,     \* CustomKvEngineImpl::client_handle_
    healthy_,           \* CustomKvEngineImpl::healthy_
    live,               \* client handles not yet destroyed by the library
    created,            \* number of client handles kv_client_create returned
    rc,                 \* where the reconnect() call is
    engineAlive,        \* the CustomKvEngine object exists
    txn,                \* per thread: its transaction and the handle it copied
    misused             \* a kv_* call was made with a destroyed client handle

vars == <<client_handle_, healthy_, live, created, rc, engineAlive, txn,
          misused>>

TxnState == [st : {"none", "checked", "live"}, kind : TxnKinds,
             client : 0..MaxHandles]

\* The type invariant.
TypeOK ==
    /\ client_handle_ \in 0..MaxHandles
    /\ healthy_ \in BOOLEAN
    /\ live \subseteq Handles
    /\ created \in 0..MaxHandles
    /\ rc \in {"idle", "destroyed", "cleaned"}
    /\ engineAlive \in BOOLEAN
    /\ txn \in [Threads -> TxnState]
    /\ misused \in BOOLEAN

\* Mutant: a failed ping leaves the new client alive (the
\* kv_client_destroy before client_handle_ = nullptr is missing).
InitializeKeepsUnpinged(h, lv, n) ==
    LET Outcome(h2, ok, lv2, n2) ==
            [handle |-> h2, healthy |-> ok, live |-> lv2, created |-> n2]
    IN     {Outcome(h, FALSE, lv, n)}
       \cup (IF ~HasEndpoints THEN {Outcome(h, FALSE, lv, n)}
             ELSE {Outcome(NoHandle, FALSE, lv, n)}
                  \cup (IF n < MaxHandles
                        THEN {Outcome(NoHandle, FALSE, lv \cup {n + 1}, n + 1),
                              Outcome(n + 1, TRUE, lv \cup {n + 1}, n + 1)}
                        ELSE {}))

\* initialize() from client handle h, the live handles and the number
\* created so far: kv_init, then kv_client_create on the first endpoint and
\* a ping.  The ping future is not awaited: a non-null future makes the
\* engine healthy; a null one destroys the new client again.  The result
\* is the set of possible outcomes, as records of the four fields.
Initialize(h, lv, n) ==
    LET Outcome(h2, ok, lv2, n2) ==
            [handle |-> h2, healthy |-> ok, live |-> lv2, created |-> n2]
    IN     {Outcome(h, FALSE, lv, n)}          \* kv_init failed
       \cup (IF ~HasEndpoints THEN {Outcome(h, FALSE, lv, n)}
             ELSE {Outcome(NoHandle, FALSE, lv, n)}     \* create failed
                  \cup (IF n < MaxHandles
                        THEN {Outcome(NoHandle, FALSE, lv, n + 1),  \* no ping
                              Outcome(n + 1, TRUE, lv \cup {n + 1}, n + 1)}
                        ELSE {}))

\* Take the outcome o of initialize().
Apply(o) ==
    /\ client_handle_' = o.handle /\ healthy_' = o.healthy
    /\ live' = o.live /\ created' = o.created

NoTxn == [st |-> "none", kind |-> "readwrite", client |-> NoHandle]

\* The CustomKvEngine constructor: make_shared<CustomKvEngineImpl>, whose
\* constructor runs initialize() from a null handle, then setSharedThis,
\* which makes the Impl own itself.
Init ==
    /\ \E o \in Initialize(NoHandle, {}, 0) :
          /\ client_handle_ = o.handle /\ healthy_ = o.healthy
          /\ live = o.live /\ created = o.created
    /\ rc = "idle" /\ engineAlive = TRUE
    /\ txn = [th \in Threads |-> NoTxn]
    /\ misused = FALSE

\* reconnect(), first step of cleanup(): kv_client_destroy on the current
\* handle; the field still holds it.
ReconnectDestroy ==
    /\ engineAlive /\ rc = "idle"
    /\ live' = live \ {client_handle_}
    /\ rc' = "destroyed"
    /\ UNCHANGED <<client_handle_, healthy_, created, engineAlive, txn, misused>>

\* Second step of cleanup(): client_handle_ = nullptr, healthy_ = false.
ReconnectClear ==
    /\ rc = "destroyed"
    /\ client_handle_' = NoHandle /\ healthy_' = FALSE
    /\ rc' = "cleaned"
    /\ UNCHANGED <<live, created, engineAlive, txn, misused>>

\* reconnect() then runs initialize().
ReconnectInit ==
    /\ rc = "cleaned"
    /\ \E o \in Initialize(client_handle_, live, created) : Apply(o)
    /\ rc' = "idle"
    /\ UNCHANGED <<engineAlive, txn, misused>>

\* createReadonlyTransaction / createReadWriteTransaction: the healthy_
\* check passes (when it fails the call returns nullptr and nothing changes).
CreateCheck(th, kind) ==
    /\ engineAlive /\ txn[th].st = "none"
    /\ healthy_
    /\ txn' = [txn EXCEPT ![th] = [st |-> "checked", kind |-> kind,
                                   client |-> NoHandle]]
    /\ UNCHANGED <<client_handle_, healthy_, live, created, rc, engineAlive,
                   misused>>

\* The transaction's constructor copies client_handle_ as it is now.
CreateMake(th) ==
    /\ txn[th].st = "checked"
    /\ txn' = [txn EXCEPT ![th].st = "live", ![th].client = client_handle_]
    /\ UNCHANGED <<client_handle_, healthy_, live, created, rc, engineAlive,
                   misused>>

\* The transaction calls the library with its copy (kv_read_transaction_begin
\* in snapshotGet, kv_transaction_begin in ensureTransaction).  A null copy
\* returns "Client handle not available" without a call.
Use(th) ==
    /\ txn[th].st = "live" /\ txn[th].client # NoHandle
    /\ misused' = (misused \/ txn[th].client \notin live)
    /\ UNCHANGED <<client_handle_, healthy_, live, created, rc, engineAlive,
                   txn>>

\* The transaction object is destroyed.
TxnDestroy(th) ==
    /\ txn[th].st = "live"
    /\ txn' = [txn EXCEPT ![th] = NoTxn]
    /\ UNCHANGED <<client_handle_, healthy_, live, created, rc, engineAlive,
                   misused>>

\* ~CustomKvEngine() (defaulted) releases impl_.  The Impl still owns
\* itself through shared_from_this_, so ~CustomKvEngineImpl, and the
\* cleanup() in it, never run.
EngineDestroy ==
    /\ engineAlive /\ rc = "idle"
    /\ \A th \in Threads : txn[th].st # "checked"
    /\ engineAlive' = FALSE
    /\ UNCHANGED <<client_handle_, healthy_, live, created, rc, txn, misused>>

\* The engine and all transactions are gone.
Finished ==
    /\ ~engineAlive /\ \A th \in Threads : txn[th].st = "none"
    /\ UNCHANGED vars

Next ==
    \/ ReconnectDestroy \/ ReconnectClear \/ ReconnectInit \/ EngineDestroy
    \/ \E th \in Threads :
          \/ \E kind \in TxnKinds : CreateCheck(th, kind)
          \/ CreateMake(th) \/ Use(th) \/ TxnDestroy(th)
    \/ Finished

Spec == Init /\ [][Next]_vars

-----------------------------------------------------------------------------
(* Properties *)

\* initialize() and reconnect() never leak a client: every client handle
\* the library still holds is the engine's current one (cleanup destroys
\* the old client before initialize creates a new one, and a failed ping
\* destroys the client just created).
ClientHandleNotLeaked == live \subseteq {client_handle_}

\* No transaction passes a destroyed client handle to the library.
NoUseOfDestroyedClient == ~misused
=============================================================================
