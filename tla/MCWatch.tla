------------------------------- MODULE MCWatch -------------------------------
(* Instances of Watch for TLC: two keys that fall into one slot. *)
EXTENDS Watch, TLC

CONSTANTS w1, w2, n1, k1, k2
==============================================================================
