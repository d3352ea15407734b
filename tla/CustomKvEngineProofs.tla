------------------------ MODULE CustomKvEngineProofs ------------------------
(***************************************************************************)
(* Proofs about CustomKvEngine for every set of threads, every bound on  *)
(* the client handles and either configuration of endpoints.              *)
(*                                                                         *)
(* ClientHandleNotLeaked is not inductive by itself: ReconnectClear       *)
(* overwrites client_handle_ with nullptr, which leaks nothing only       *)
(* because ReconnectDestroy has already destroyed the old client.  The    *)
(* strengthening EngineInv records that during reconnect() (after the     *)
(* destroy, until initialize() returns) the library holds no client.     *)
(***************************************************************************)
EXTENDS CustomKvEngine, TLAPS

USE CustomKvEngineAssumption

\* Between kv_client_destroy and the end of initialize(), no client is live.
NoClientDuringReconnect == rc # "idle" => live = {}

EngineInv == TypeOK /\ ClientHandleNotLeaked /\ NoClientDuringReconnect

\* initialize() called with no live client yields a well-typed outcome in
\* which the library holds at most the client the engine keeps.
LEMMA InitializeOutcome ==
    ASSUME NEW h \in 0..MaxHandles, NEW n \in 0..MaxHandles,
           NEW o \in Initialize(h, {}, n)
    PROVE  /\ o.handle \in 0..MaxHandles /\ o.healthy \in BOOLEAN
           /\ o.live \subseteq Handles /\ o.live \subseteq {o.handle}
           /\ o.created \in 0..MaxHandles
<1> DEFINE Out(h2, ok, lv2, n2) ==
             [handle |-> h2, healthy |-> ok, live |-> lv2, created |-> n2]
<1>1. \/ o = Out(h, FALSE, {}, n)
      \/ o = Out(NoHandle, FALSE, {}, n)
      \/ n < MaxHandles /\ o = Out(NoHandle, FALSE, {}, n + 1)
      \/ n < MaxHandles /\ o = Out(n + 1, TRUE, {n + 1}, n + 1)
  BY DEF Initialize
<1>2. MaxHandles \in Nat /\ NoHandle \in 0..MaxHandles
  BY DEF NoHandle
<1>3. n < MaxHandles => n + 1 \in Handles /\ n + 1 \in 0..MaxHandles
  BY DEF Handles
<1>4. CASE o = Out(h, FALSE, {}, n)
  BY <1>4 DEF Handles
<1>7. CASE o = Out(NoHandle, FALSE, {}, n)
  BY <1>2, <1>7 DEF Handles
<1>5. CASE n < MaxHandles /\ o = Out(NoHandle, FALSE, {}, n + 1)
  BY <1>2, <1>3, <1>5 DEF Handles
<1>6. CASE n < MaxHandles /\ o = Out(n + 1, TRUE, {n + 1}, n + 1)
  BY <1>3, <1>6
<1> QED
  BY <1>1, <1>4, <1>5, <1>6, <1>7

\* Every step preserves EngineInv.
LEMMA EngineInvStep ==
    ASSUME EngineInv, [Next]_vars
    PROVE  EngineInv'
<1>. USE DEF EngineInv, TypeOK, ClientHandleNotLeaked,
             NoClientDuringReconnect
<1>1. CASE ReconnectDestroy
  BY <1>1 DEF ReconnectDestroy
<1>2. CASE ReconnectClear
  <2>1. live = {} /\ live' = {}
    BY <1>2 DEF ReconnectClear
  <2>2. client_handle_' \in 0..MaxHandles /\ rc' = "cleaned"
    BY <1>2 DEF ReconnectClear, NoHandle
  <2> QED
    BY <1>2, <2>1, <2>2 DEF ReconnectClear
<1>3. CASE ReconnectInit
  <2>1. PICK o \in Initialize(client_handle_, {}, created) : Apply(o)
    BY <1>3 DEF ReconnectInit
  <2>2. /\ o.handle \in 0..MaxHandles /\ o.healthy \in BOOLEAN
        /\ o.live \subseteq Handles /\ o.live \subseteq {o.handle}
        /\ o.created \in 0..MaxHandles
    BY InitializeOutcome
  <2> QED
    BY <1>3, <2>1, <2>2 DEF ReconnectInit, Apply
<1>4. ASSUME NEW th \in Threads, NEW kind \in TxnKinds, CreateCheck(th, kind)
      PROVE  EngineInv'
  BY <1>4 DEF CreateCheck, TxnState, NoHandle
<1>5. ASSUME NEW th \in Threads, CreateMake(th) PROVE EngineInv'
  BY <1>5 DEF CreateMake, TxnState
<1>6. ASSUME NEW th \in Threads, Use(th) PROVE EngineInv'
  BY <1>6 DEF Use
<1>7. ASSUME NEW th \in Threads, TxnDestroy(th) PROVE EngineInv'
  BY <1>7 DEF TxnDestroy, NoTxn, TxnState, TxnKinds, NoHandle
<1>8. CASE EngineDestroy \/ Finished \/ UNCHANGED vars
  BY <1>8 DEF EngineDestroy, Finished, vars
<1> QED
  BY <1>1, <1>2, <1>3, <1>4, <1>5, <1>6, <1>7, <1>8 DEF Next

\* EngineInv holds in every reachable state.
LEMMA EngineInvInvariant == Spec => []EngineInv
<1>1. Init => EngineInv
  <2> SUFFICES ASSUME Init PROVE EngineInv
    OBVIOUS
  <2>1. PICK o \in Initialize(NoHandle, {}, 0) :
            /\ client_handle_ = o.handle /\ healthy_ = o.healthy
            /\ live = o.live /\ created = o.created
    BY DEF Init
  <2>2. /\ o.handle \in 0..MaxHandles /\ o.healthy \in BOOLEAN
        /\ o.live \subseteq Handles /\ o.live \subseteq {o.handle}
        /\ o.created \in 0..MaxHandles
    BY InitializeOutcome DEF NoHandle
  <2>3. NoTxn \in TxnState
    BY DEF NoTxn, TxnState, TxnKinds, NoHandle
  <2>4. txn \in [Threads -> TxnState] /\ rc = "idle"
    BY <2>3 DEF Init
  <2> QED
    BY <2>1, <2>2, <2>4 DEF Init, EngineInv, TypeOK, ClientHandleNotLeaked,
       NoClientDuringReconnect
<1>2. EngineInv /\ [Next]_vars => EngineInv'
  BY EngineInvStep
<1> QED
  BY <1>1, <1>2, PTL DEF Spec

\* The engine never leaks a Rust client, for every number of threads and
\* reconnects: whenever the library holds a client, it is the one in
\* client_handle_ (cleanup() destroys the old client before initialize()
\* creates a new one, and a failed ping destroys the client it created).
THEOREM ClientNeverLeaked == Spec => []ClientHandleNotLeaked
BY EngineInvInvariant, PTL DEF EngineInv

\* Type correctness of the engine model.
THEOREM EngineTypeCorrect == Spec => []TypeOK
BY EngineInvInvariant, PTL DEF EngineInv
=============================================================================
