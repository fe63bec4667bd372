------------------------------- MODULE MCViews -------------------------------
(* Instances of Views for TLC. *)
EXTENDS Views, TLC

CONSTANTS v1, v2

AllOps == {"Set", "WriteNewPlace", "Del", "ViewWrite", "ViewDel", "SetPart", "SetPartByRef", "SetBelow"}

\* Values are only copied and compared.
Interchangeable == Permutations(Values)
==============================================================================
