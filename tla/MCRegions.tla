-------------------------------- MODULE MCRegions --------------------------------
(* Regions with a few processes that all do the same. *)
EXTENDS Regions, TLC

Alike == Permutations(Proc)
============================================================================
