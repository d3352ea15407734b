------------------------------ MODULE SerialKv ------------------------------
(***************************************************************************)
(* What the custom KV engine promises the metadata service about its      *)
(* read-write transactions (engine contract, spec section 4.1:            *)
(* serializable, with read-write and write-write conflicts detected at    *)
(* commit), without the server's versions, the client object's flags and *)
(* the library calls.  There is one store.  A transaction reads values    *)
(* (any value: nothing is promised about a transaction that does not      *)
(* commit), and commits at one instant at which every value it read is    *)
(* still the store's value, installing its writes at that instant.  A     *)
(* committed transaction reads nothing more and commits only once.        *)
(*                                                                         *)
(* CustomTransaction, on top of KvServer, is shown to implement this      *)
(* module.                                                                 *)
(***************************************************************************)
CONSTANTS
    Txns,       \* the transactions
    Keys,       \* the keys
    Values,     \* the values a key can hold, the absent value included
    Absent      \* the value of a key never written

VARIABLES
    store,      \* [Keys -> Values]: the committed state
    reads,      \* [Txns -> SUBSET (Keys \X Values)]: the values each
                \* transaction read from the store
    done        \* [Txns -> BOOLEAN]: the transaction has committed

vars == <<store, reads, done>>

Init ==
    /\ store = [k \in Keys |-> Absent]
    /\ reads = [t \in Txns |-> {}]
    /\ done = [t \in Txns |-> FALSE]

\* Transaction t, not yet committed, reads v as the value of k.
Read(t, k, v) ==
    /\ ~done[t]
    /\ reads' = [reads EXCEPT ![t] = @ \cup {<<k, v>>}]
    /\ UNCHANGED <<store, done>>

\* Transaction t commits: what it read is the current state, and its
\* writes (the keys of W, with the values w gives them) replace it.
Commit(t) ==
    /\ ~done[t]
    /\ \A r \in reads[t] : store[r[1]] = r[2]
    /\ \E W \in SUBSET Keys, w \in [Keys -> Values] :
          store' = [k \in Keys |-> IF k \in W THEN w[k] ELSE store[k]]
    /\ done' = [done EXCEPT ![t] = TRUE]
    /\ UNCHANGED reads

Next ==
    \E t \in Txns :
        \/ \E k \in Keys, v \in Values : Read(t, k, v)
        \/ Commit(t)

Spec == Init /\ [][Next]_vars
=============================================================================
