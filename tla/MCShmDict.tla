----------------------------- MODULE MCShmDict -----------------------------
(* Instances of ShmDict for TLC: a dictionary of one block in three cells    *)
(* (block count and header, a hash, the mask) and one of two blocks in four. *)
EXTENDS ShmDict, TLC

CONSTANTS d1, d2

TwoSizes  == (d1 :> 3) @@ (d2 :> 4)
OneAndTwo == (d1 :> 1) @@ (d2 :> 2)
=============================================================================
