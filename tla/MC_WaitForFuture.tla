-------------------------- MODULE MC_WaitForFuture --------------------------
(* Three concurrent waitForFuture calls. *)
EXTENDS WaitForFuture

CONSTANTS w1, w2, w3

MCWaiters == {w1, w2, w3}
=============================================================================
