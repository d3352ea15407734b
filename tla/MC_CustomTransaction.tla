----------------------- MODULE MC_CustomTransaction -----------------------
(* Model-checking instance of CustomTransaction: two transaction objects, *)
(* one key, two values, a clock of two readings.                      *)
EXTENDS CustomTransaction, TLC

CONSTANTS t1, t2, k1, v1, v2

MCTxns == {t1, t2}
MCKeys == {k1}
MCVals == {v1, v2}
MCMaxClock == 1

Symmetry == Permutations(MCTxns) \cup Permutations(MCKeys)
=============================================================================
