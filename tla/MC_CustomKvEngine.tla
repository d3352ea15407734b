-------------------------- MODULE MC_CustomKvEngine --------------------------
(* Model of CustomKvEngine for TLC: two threads, three client handles (the *)
(* constructor's and two reconnects').                                      *)
EXTENDS CustomKvEngine, TLC

CONSTANTS th1, th2

MCThreads == {th1, th2}
MCMaxHandles == 3

Symmetry == Permutations(MCThreads)
=============================================================================
