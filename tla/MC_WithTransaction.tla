------------------------ MODULE MC_WithTransaction ------------------------
(* The retry loop on object t1, with one other object t2, one key, one   *)
(* value, a clock of two readings and one retry.                          *)
EXTENDS WithTransaction, TLC

CONSTANTS t1, t2, k1, v1

MCTxns == {t1, t2}
MCKeys == {k1}
MCVals == {v1}
MCMaxClock == 1
MCMaxRetries == 1
=============================================================================
