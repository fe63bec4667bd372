------------------------------- MODULE MCListing -------------------------------
(* Listing with a handful of names. *)
EXTENDS Listing

\* [2], [10], [10]/, [1a], b and b/
Names == {<<91, 50, 93>>, <<91, 49, 48, 93>>, <<91, 49, 48, 93, 47>>, <<91, 49, 97, 93>>, <<98>>, <<98, 47>>}
Few   == {C \in SUBSET Names : Cardinality(C) <= 3}
==============================================================================
