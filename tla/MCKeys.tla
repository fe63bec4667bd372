--------------------------------- MODULE MCKeys ---------------------------------
(* Small instances of Keys for TLC: keys over the letters a and b. *)
EXTENDS Keys

S == Slash
a  == <<S, "a">>
b  == <<S, "b">>
ad == <<S, "a", S>>
bd == <<S, "b", S>>

Call(op, x, y, v) == [op |-> op, a |-> x, b |-> y, v |-> v]

\* Values tell where they were first stored.
Own(K) == [k \in K |-> Inline(k)]

Plains == {a, ad, <<S, "a", S, "b">>, <<S, "a", Dot, "b">>, <<S, "a", Run, "b">>, <<S, "a", "b">>,
           <<S, "a", S, "b", S>>}

Mounts == {[k \in {bd} |-> v] : v \in {Ext(ad), Ptr(ad), Inline(bd)}}
          \union {[k \in {b} |-> v] : v \in {Ptr(a), Inline(b)}}
          \union {[k \in {b, bd} |-> IF k = b THEN Ptr(a) ELSE Inline(bd)], [k \in {} |-> NoValue],
                  [k \in {<<S, "b", S, "a">>} |-> Inline(k)],
                  [k \in {b, bd} |-> IF k = b THEN Ptr(bd) ELSE Ptr(b)]}

FewMounts == {[k \in {bd} |-> v] : v \in {Ext(ad), Ptr(ad)}}
             \union {[k \in {} |-> NoValue], [k \in {b, bd} |-> IF k = b THEN Ptr(bd) ELSE Ptr(b)]}

Merge(f, g) == [k \in DOMAIN f \union DOMAIN g |-> IF k \in DOMAIN f THEN f[k] ELSE g[k]]

SmallCalls ==
  {Call("Set", k, <<>>, Inline(<<"x">>)) : k \in {<<S, "a", S, "b">>, <<S, "b", S, "b">>, <<S, S>>}}
  \union {Call("Set", b, <<>>, Ptr(a)), Call("Set", bd, <<>>, Ptr(ad)),
          Call("Set", <<S, "b", S, "b">>, <<>>, Ptr(a))}
  \union {Call("WriteNewPlace", <<S, "b", S, "b">>, <<>>, Inline(<<"x">>))}
  \union {Call("Del", k, <<>>, NoValue) : k \in {bd, <<S, "a", S, "b">>}}
  \union {Call("DelKeys", <<S, "a", S, "b">>, b, NoValue)}
  \union {Call("Deltree", k, <<>>, NoValue) : k \in {a, ad, b, bd, Root, <<S, Meta>>}}
  \union {Call(op, a, b, NoValue) : op \in {"Cp", "Cptree", "Cplist"}}
  \union {Call("Cptree", x, y, NoValue) : x \in {b}, y \in {a, <<S, "b", S, "a">>, b}}
  \union {Call("Cptree", <<S, "a", S, "b">>, a, NoValue)}
  \union {Call("Mkindex", a, <<>>, NoValue), Call("Extindex", bd, ad, NoValue)}

Query(p, r) == [prefix |-> p, ex |-> TRUE, resolve |-> r]

\* Every small store for one call, and a few with a reader.
SmallScenarios ==
  [store : {Merge(Own(K), m) : K \in SUBSET Plains, m \in Mounts}, queries : {{}}, calls : {1}]
  \union [store : {Merge(Own(Plains), m) : m \in FewMounts}, calls : {1},
          queries : {{Query(Root, FALSE), Query(bd, TRUE)},
                     {Query(bd, FALSE), Query(<<S, Meta>>, TRUE), Query(b, TRUE)}}]
  \union [store : {Merge(Own({<<S, "a", S, "b">>}), m) : m \in {[k \in {bd} |-> v] : v \in {Ext(ad), Ptr(ad)}}},
          calls : {2}, queries : {{Query(bd, TRUE)}}]

\* The one operand that may shadow what a mount shows.
SmallFrame == {<<S, "b", S, "b">>}

SmallLetters == << {"a", Meta}, {"b"} >>
==============================================================================
