CONSTANTS
    t1 = t1
    t2 = t2
    k1 = k1
    v1 = v1
    NoValue = NoValue
    Txns <- MCTxns
    Keys <- MCKeys
    Vals <- MCVals
    MaxClock <- MCMaxClock
    MaxRetries <- MCMaxRetries
    LoopTxn = t1
SPECIFICATION LoopSpec
INVARIANT
    ErrorMeansNotCommitted
