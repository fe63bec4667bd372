------------------------------ MODULE MCRegistry ------------------------------
(* Small instances of Registry for TLC. *)
EXTENDS Registry, TLC

CONSTANTS p1, p2, p3

SharedPids == (p1 :> 1) @@ (p2 :> 2) @@ (p3 :> 1)
OwnPids    == (p1 :> 1) @@ (p2 :> 2) @@ (p3 :> 3)

\* One operation at a time, deaths anywhere, p1 and p3 share a pid.
OneByOne == [pids |-> SharedPids, old |-> 0, own |-> {TRUE}, other |-> {TRUE},
             serial |-> TRUE, leavers |-> {p1, p2}, leaders |-> {p2}]

\* Concurrent opens and rounds on slots that were used before; nobody leaves.
Together == [pids |-> OwnPids, old |-> 9, own |-> {TRUE}, other |-> {TRUE, FALSE},
             serial |-> FALSE, leavers |-> {}, leaders |-> {p1, p2}]

\* Concurrent opens of a new store.
NewStore == [Together EXCEPT !.old = 0, !.other = {TRUE}, !.leaders = {}]

Tame == {OneByOne, Together}
New  == {NewStore}
==============================================================================
