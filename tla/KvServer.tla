------------------------------ MODULE KvServer ------------------------------
(***************************************************************************)
(* The transactional key-value server that CustomTransaction talks to     *)
(* through the kvstore_client C API (kv_transaction_begin/get/set/delete/ *)
(* commit/abort, kv_read_transaction_begin/get).  The server itself is    *)
(* not part of this repository; its behaviour is taken from the engine    *)
(* contract (spec section 4.1) and the requirements document             *)
(* (src/unnamed/part_005): optimistic concurrency control, reads at the   *)
(* transaction's read version, read-write and write-write conflicts      *)
(* detected at commit, a per-transaction timeout.                          *)
(*                                                                         *)
(* The committed history is a sequence: db[i] is the i-th committed state *)
(* together with the set of keys the commit that produced it wrote, so   *)
(* the current version is Len(db) and a snapshot at read version rv is   *)
(* db[rv].val.                                                             *)
(***************************************************************************)
EXTENDS Naturals, Sequences

CONSTANTS
    Txns,       \* the CustomTransaction objects, one per client task
    Keys,       \* the keys the clients use
    Vals,       \* the values they write
    NoValue     \* an absent key (std::nullopt)

ASSUME KvServerAssumption == NoValue \notin Vals

Val == Vals \cup {NoValue}

\* Status of the server-side transaction a client object has begun.
SrvStatus == {"none", "open", "committed", "aborted"}

\* A server transaction: status, read version, read-conflict keys, write
\* buffer (the keys written and their values; NoValue is a delete), and
\* the position in db of its commit.
SrvTxn == [st : SrvStatus, rv : Nat, rs : SUBSET Keys, ws : SUBSET Keys,
           wv : [Keys -> Val], cpos : Nat]

InitState == [k \in Keys |-> NoValue]

NoSrvTxn == [st |-> "none", rv |-> 0, rs |-> {}, ws |-> {},
             wv |-> InitState, cpos |-> 0]

VARIABLES
    db,     \* Seq of [ws : SUBSET Keys, val : [Keys -> Val]]
    srv     \* [Txns -> SrvTxn]

serverVars == <<db, srv>>

ServerTypeOK ==
    /\ db \in Seq([ws : SUBSET Keys, val : [Keys -> Val]])
    /\ Len(db) >= 1
    /\ srv \in [Txns -> SrvTxn]

ServerInit ==
    /\ db = << [ws |-> {}, val |-> InitState] >>
    /\ srv = [t \in Txns |-> NoSrvTxn]

\* kv_transaction_begin: a fresh open transaction reading at the current
\* committed version.
Begun == [st |-> "open", rv |-> Len(db), rs |-> {}, ws |-> {},
          wv |-> InitState, cpos |-> 0]

\* Latest committed value of k (a read transaction begun at version 0,
\* i.e. "latest", as kv_read_transaction_begin(client, 0) is called).
Latest(k) == db[Len(db)].val[k]

\* kv_transaction_get on transaction s: its own buffered write if any,
\* else the value at its read version.
SrvRead(s, k) == IF k \in s.ws THEN s.wv[k] ELSE db[s.rv].val[k]

\* Whether key k was written by a commit after version rv and before
\* position p (exclusive).
WrittenBetween(k, rv, p) == \E i \in (rv + 1)..(p - 1) : k \in db[i].ws

\* Commit-time validation: a key the transaction read or wrote was written
\* by a transaction that committed after its read version.
Conflicts(s) == \E k \in s.rs \cup s.ws : WrittenBetween(k, s.rv, Len(db) + 1)

\* The state installed by committing s on top of the latest state.
Installed(s) == [k \in Keys |-> IF k \in s.ws THEN s.wv[k] ELSE Latest(k)]

\* The server-side transaction timeout (kv_transaction_begin(client, 30)):
\* an open transaction is discarded by the server.
Expire(t) ==
    /\ srv[t].st = "open"
    /\ srv' = [srv EXCEPT ![t].st = "aborted"]
    /\ UNCHANGED db
=============================================================================
