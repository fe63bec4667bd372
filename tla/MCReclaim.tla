------------------------------ MODULE MCReclaim ------------------------------
(* Small instances of Reclaim for TLC. *)
EXTENDS Reclaim, TLC

CONSTANTS h1, h2, n1, b1, b2

\* Boxes are interchangeable; handles are not, their roles differ.
Symmetry == Permutations(Box)
==============================================================================
