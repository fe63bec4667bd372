-------------------------------- MODULE MCArt --------------------------------
(* Small instances of Art for TLC: '/' 1, a 2, b 3, c 4, d 5, U+00B7 is 7 6. *)
EXTENDS Art

CONSTANTS v1, v2

\* Five children of "/a/": every kind of node.
Fanout == {<<1, 2, 1, 2>>, <<1, 2, 1, 3>>, <<1, 2, 1, 4>>, <<1, 2, 1, 5>>, <<1, 2, 1, 7, 6>>}
\* A node that grows below another one.
Deep == {<<1, 2>>, <<1, 2, 1, 3>>, <<1, 2, 1, 4>>, <<1, 2, 1, 5>>}
\* A name that is a file, a directory with its own entry, and has a member.
Entry == {<<1, 2>>, <<1, 2, 1>>, <<1, 2, 1, 3>>}
\* A key that is a prefix of three others, one a member: its node grows.
Nested == {<<1, 2>>, <<1, 2, 1>>, <<1, 2, 3>>, <<1, 2, 7, 6, 3>>}
\* Prefixes longer than a node can hold, split at every place; a name that ends
\* in the first byte of the separator of another.
Long == {<<1, 2, 3, 4, 5, 2>>, <<1, 2, 3>>, <<1, 2, 3, 4, 7, 6, 2>>, <<1, 2, 3, 4, 7, 3>>}

SmallFamilies == {Fanout, Deep, Entry, Nested, Long}
Swap == Permutations({v1, v2})
SmallCap == <<2, 3, 4, 7>>
==============================================================================
