CONSTANTS
    t1 = t1
    t2 = t2
    k1 = k1
    v1 = v1
    v2 = v2
    NoValue = NoValue
    Txns <- MCTxns
    Keys <- MCKeys
    Vals <- MCVals
    MaxClock <- MCMaxClock
SYMMETRY Symmetry
SPECIFICATION Spec
INVARIANT CommitAckImpliesCommitted
