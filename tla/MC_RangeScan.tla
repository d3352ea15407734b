---------------------------- MODULE MC_RangeScan ----------------------------
(* One read-write and one read-only scan of three keys, pages of two     *)
(* keys, and two concurrent commits.                                     *)
EXTENDS RangeScan, TLC

MCScanners == ("rw" :> "readwrite") @@ ("ro" :> "readonly")
=============================================================================
