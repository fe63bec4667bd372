--------------------------------- MODULE Art ---------------------------------
(***************************************************************************)
(* The adaptive radix tree that indexes the keys of a store (kvspace.c).   *)
(*                                                                         *)
(* A node has a compressed prefix, children by byte, and a val word.  It   *)
(* is one of four kinds by the number of children it can take; a full one  *)
(* is copied into the next larger kind and left behind as MOVED, with the  *)
(* id of its successor in the val word.  A node is never given back, and a *)
(* deleted key leaves its node behind without a value: ids of nodes are    *)
(* handed out to callers (kvspaceRef_t) and must stay good.                *)
(*                                                                         *)
(* Bytes are numbers, in the order of the real ones.  The operations of    *)
(* the single writer are atomic here.  A node id is its position in the    *)
(* sequence `node`, 0 stands for -1.                                       *)
(***************************************************************************)
EXTENDS Integers, Sequences, FiniteSets, SequencesExt

CONSTANTS
  Families,   \* sets of keys; a behaviour uses the keys of one of them
  Values,
  None,       \* no value (AV_HAS is 0)
  Slash, C2, B7,  \* the separators: '/' and the two bytes of U+00B7
  PrefixMax,  \* ART_PREFIX_MAX
  Cap,        \* children of an N4, N16, N48 and N256
  Budgets     \* how many allocations of one insertion may succeed

\* The largest kind has room for every byte.
Byte == 1 .. Cap[4]

ASSUME ArtAssumption ==
  /\ None \notin Values
  /\ PrefixMax \in Nat /\ Budgets \subseteq Nat
  /\ Cap \in Seq(Nat) /\ Len(Cap) = 4 /\ \A i \in 1 .. 3 : Cap[i] < Cap[i + 1]
  /\ Cap[1] > 1
  /\ \A F \in Families : F \subseteq Seq(Byte)

VARIABLES
  keys,   \* the keys in use
  node,   \* the nodes allocated so far
  root    \* art_root

vars == <<keys, node, root>>

N4 == 1
N16 == 2
N256 == 4
MOVED == 5

Init ==
  /\ keys \in Families
  /\ node = <<>>
  /\ root = 0

Rest(s, d) == SubSeq(s, d + 1, Len(s))
Bytes(kids) == {kids[i][1] : i \in DOMAIN kids}
Position(kids, b) == CHOOSE i \in DOMAIN kids : kids[i][1] = b

pfx_shared(a, b) ==
  Cardinality({i \in 1 .. Len(a) : i <= Len(b) /\ SubSeq(a, 1, i) = SubSeq(b, 1, i)})

------------------------------------------------------------------------------
(* Children *)

\* Position of b in the sorted children of an N16, 0 if absent.
BinarySearch(kids, b) ==
  LET search[at \in (1 .. Len(kids) + 1) \X (0 .. Len(kids))] ==
        LET lo == at[1]
            hi == at[2]
            m == (lo + hi) \div 2
        IN IF lo > hi THEN 0
           ELSE IF kids[m][1] = b THEN m
           ELSE IF kids[m][1] < b THEN search[<<m + 1, hi>>] ELSE search[<<lo, m - 1>>]
  IN search[<<1, Len(kids)>>]

art_child(ns, id, b) ==
  LET kids == ns[id].kids IN
  CASE ns[id].kind = MOVED -> 0
    [] ns[id].kind = N16 ->
         IF BinarySearch(kids, b) = 0 THEN 0 ELSE kids[BinarySearch(kids, b)][2]
    [] OTHER -> IF b \in Bytes(kids) THEN kids[Position(kids, b)][2] ELSE 0

\* Broken variant: an N16 takes new children at its end, like an N4.
AddPosition_end(n, b) == Len(n.kids) + 1

\* An N16 keeps its children sorted.
AddPosition(n, b) ==
  IF n.kind = N16
    THEN 1 + Cardinality({i \in DOMAIN n.kids : n.kids[i][1] <= b})
    ELSE Len(n.kids) + 1

\* Nothing is done when the node is full or MOVED (the callers ignore that).
art_add(ns, id, b, child) ==
  IF ns[id].kind # MOVED /\ Len(ns[id].kids) < Cap[ns[id].kind]
    THEN [ns EXCEPT ![id].kids = InsertAt(@, AddPosition(ns[id], b), <<b, child>>)]
    ELSE ns

\* An N48 closes the gap with its last child, the others move up.
art_rm(ns, id, b) ==
  LET kids == ns[id].kids
      i == Position(kids, b)
  IN [ns EXCEPT ![id].kids =
        IF @ = <<>> \/ b \notin Bytes(@) THEN @
        ELSE IF ns[id].kind = 3 THEN Front([@ EXCEPT ![i] = Last(kids)])
        ELSE RemoveAt(@, i)]

------------------------------------------------------------------------------
(* Nodes; an allocation beyond the limit fails with id 0 *)

art_new_node(ns, lim, prefix, val) ==
  IF Len(ns) >= lim
    THEN [ns |-> ns, id |-> 0]
    ELSE [ns |-> Append(ns, [kind |-> N4, prefix |-> prefix, kids |-> <<>>,
                             val |-> val, fwd |-> 0]),
          id |-> Len(ns) + 1]

\* The rest of a key after d bytes as a chain of nodes with bounded prefixes,
\* each the only child of the one before.  They are linked from the last one up:
\* when an allocation fails those already made stay behind alone.
art_leaf_chain(ns, lim, key, d, v) ==
  LET n == (Len(key) - d) \div (PrefixMax + 1) + 1
      made == IF Len(ns) + n <= lim THEN n ELSE lim - Len(ns)
      end(i) == d + (i - 1) * (PrefixMax + 1) + PrefixMax
      Piece(i) ==
        [kind |-> N4, fwd |-> 0,
         prefix |-> SubSeq(key, end(i) - PrefixMax + 1, IF i < n THEN end(i) ELSE Len(key)),
         kids |-> IF i < n /\ made = n THEN <<<<key[end(i) + 1], Len(ns) + i + 1>>>> ELSE <<>>,
         val |-> IF i = n THEN v ELSE None]
  IN [ns |-> ns \o [i \in 1 .. made |-> Piece(i)],
      id |-> IF made = n THEN Len(ns) + 1 ELSE 0]

ByByte(kids) ==
  [i \in DOMAIN kids |->
     CHOOSE kid \in ToSet(kids) : Cardinality({b \in Bytes(kids) : b < kid[1]}) = i - 1]

\* The children in the order the larger kind keeps them.
GrownKids(n) == IF n.kind = N4 THEN ByByte(n.kids) ELSE n.kids

\* Broken variant: the value of the node that grows is not taken along.
GrownVal_none(n) == None

GrownVal(n) == n.val

\* The node is copied into the next larger kind and left MOVED.
art_grow(ns, lim, id) ==
  LET n == art_new_node(ns, lim, ns[id].prefix, GrownVal(ns[id])) IN
  IF n.id = 0 THEN n
  ELSE [ns |-> [n.ns EXCEPT ![n.id].kind = ns[id].kind + 1,
                            ![n.id].kids = GrownKids(ns[id]),
                            ![id].kind = MOVED, ![id].val = None, ![id].fwd = n.id],
        id |-> n.id]

\* Broken variant: the byte that now leads to the node stays in its prefix.
Shortened_keep(prefix, shared) == Rest(prefix, shared)

\* The prefix a split leaves to the lower node: its first byte became a branch.
Shortened(prefix, shared) == Rest(prefix, shared + 1)

\* A new node takes over the shared bytes of the prefix, the old one goes below.
art_split(ns, lim, id, shared, v) ==
  LET old == ns[id].prefix
      n == art_new_node(ns, lim, SubSeq(old, 1, shared), v)
      cut == [n.ns EXCEPT ![id].prefix = Shortened(old, shared)]
  IN IF n.id = 0 THEN n
     ELSE [ns |-> art_add(cut, n.id, old[shared + 1], id), id |-> n.id]

------------------------------------------------------------------------------
(* Insert, delete, find *)

\* The child a branch leads to was split or has grown: the branch is replaced.
Relink(ns, id, b, child, new) ==
  IF new = child THEN ns ELSE art_add(art_rm(ns, id, b), id, b, new)

\* The key ends within the prefix of the node, or leaves it there.
InsertSplit(ns, lim, id, key, d, shared, v) ==
  LET s == art_split(ns, lim, id, shared, None)
      leaf == art_leaf_chain(s.ns, lim, key, d + shared + 1, v)
  IN IF d + shared = Len(key) THEN art_split(ns, lim, id, shared, v)
     ELSE IF s.id = 0 THEN s
     ELSE IF leaf.id = 0 THEN leaf
     ELSE [ns |-> art_add(leaf.ns, s.id, key[d + shared + 1], leaf.id), id |-> s.id]

\* The key goes on where the node, which ends after e bytes, has no child: it
\* gets one, and grows if it is full.
InsertChild(ns, lim, id, key, e, v) ==
  LET new == art_leaf_chain(ns, lim, key, e + 1, v)
      g == art_grow(new.ns, lim, id)
  IN IF new.id = 0 THEN new
     ELSE IF ns[id].kind = N256 \/ Len(ns[id].kids) < Cap[ns[id].kind]
       THEN [ns |-> art_add(new.ns, id, key[e + 1], new.id), id |-> id]
     ELSE IF g.id = 0 THEN g
     ELSE [ns |-> art_add(g.ns, g.id, key[e + 1], new.id), id |-> g.id]

art_ins(ns, lim, top, key, v) ==
  LET ins[at \in (0 .. Len(ns)) \X (0 .. Len(key))] ==
        LET id == at[1]
            d == at[2]
            prefix == ns[id].prefix
            shared == pfx_shared(prefix, Rest(key, d))
            e == d + Len(prefix)
            child == art_child(ns, id, key[e + 1])
            r == ins[<<child, e + 1>>]
        IN IF id = 0 THEN art_leaf_chain(ns, lim, key, d, v)
           ELSE IF shared < Len(prefix) THEN InsertSplit(ns, lim, id, key, d, shared, v)
           ELSE IF e = Len(key) THEN [ns |-> [ns EXCEPT ![id].val = v], id |-> id]
           ELSE IF child = 0 THEN InsertChild(ns, lim, id, key, e, v)
           ELSE IF r.id = 0 THEN r
           ELSE [ns |-> Relink(r.ns, id, key[e + 1], child, r.id), id |-> id]
  IN ins[<<top, 0>>]

\* The node of a key that has a value, from a node on.
art_walk(ns, top, key, depth) ==
  LET walk[at \in (0 .. Len(ns)) \X (0 .. Len(key))] ==
        LET id == at[1]
            d == at[2]
            e == d + Len(ns[id].prefix)
        IN IF id = 0 \/ ns[id].kind = MOVED \/ ~IsPrefix(ns[id].prefix, Rest(key, d)) THEN 0
           ELSE IF e = Len(key) THEN IF ns[id].val = None THEN 0 ELSE id
           ELSE walk[<<art_child(ns, id, key[e + 1]), e + 1>>]
  IN walk[<<top, depth>>]

art_find(key) == art_walk(node, root, key, 0)

\* art_del swaps the val word of the key's node to zero; the nodes stay.
art_del(ns, id) == [ns EXCEPT ![id].val = None]

\* Follow a MOVED node to its successor, at most 8 steps.
art_follow(ns, id) ==
  LET hop[at \in (0 .. 8) \X (0 .. Len(ns))] ==
        IF at[1] = 0 \/ at[2] = 0 THEN 0
        ELSE IF ns[at[2]].kind # MOVED THEN at[2] ELSE hop[<<at[1] - 1, ns[at[2]].fwd>>]
  IN hop[<<8, id>>]

------------------------------------------------------------------------------
(* References handed out to callers *)

\* Last '/' (not the first byte of the key) or U+00B7, and its length in bytes.
last_key_sep(key) ==
  LET slash == {i \in 1 .. Len(key) : key[i] = Slash}
      mid == {i \in 1 .. Len(key) - 1 : key[i] = C2 /\ key[i + 1] = B7}
      Last0(S) == IF S = {} THEN 0 ELSE CHOOSE i \in S : \A j \in S : j <= i
  IN IF Last0(mid) > Last0(slash) THEN [pos |-> Last0(mid), len |-> 2]
     ELSE IF Last0(slash) > 1 THEN [pos |-> Last0(slash), len |-> 1]
     ELSE [pos |-> 0, len |-> 0]

\* The node of the key, and the first node on the way that covers the separator
\* or ends right after it, with the depth at which that node ends.
art_find_dir(key, sep) ==
  LET Dir == [id : 0 .. Len(node), depth : 0 .. Len(key)]
      find[at \in (0 .. Len(node)) \X (0 .. Len(key)) \X Dir] ==
        LET id == at[1]
            d == at[2]
            dir == at[3]
            e == d + Len(node[id].prefix)
            covers == sep.pos > 1 /\ \/ d < sep.pos /\ sep.pos <= e
                                     \/ e = sep.pos - 1 + sep.len
            dir2 == IF dir.id = 0 /\ covers THEN [id |-> id, depth |-> e] ELSE dir
        IN IF id = 0 \/ node[id].kind = MOVED \/ ~IsPrefix(node[id].prefix, Rest(key, d))
             THEN [id |-> 0, dir |-> dir]
           ELSE IF e = Len(key) THEN [id |-> IF node[id].val = None THEN 0 ELSE id, dir |-> dir2]
           ELSE find[<<art_child(node, id, key[e + 1]), e + 1, dir2>>]
  IN find[<<root, 0, [id |-> 0, depth |-> 0]>>]

kvspaceShmResolveRef(key) == art_find_dir(key, last_key_sep(key))

\* Broken variant: the node of the reference is used although it was moved.
ref_leaf_nofollow(dir, key) ==
  IF dir.id = 0 \/ dir.depth > Len(key) THEN 0
  ELSE IF dir.depth = Len(key) THEN dir.id
  ELSE art_walk(node, art_child(node, dir.id, key[dir.depth + 1]), key, dir.depth + 1)

\* A key looked up from a directory reference: the key shares the first depth bytes.
ref_leaf(dir, key) ==
  LET id == art_follow(node, dir.id) IN
  IF id = 0 \/ dir.depth > Len(key) THEN 0
  ELSE IF dir.depth = Len(key) THEN id
  ELSE art_walk(node, art_child(node, id, key[dir.depth + 1]), key, dir.depth + 1)

\* The node in which a path ends, and how many bytes of its prefix it covers.
kvspaceShmResolvePrefix(path) ==
  LET find[id \in Nat, d \in Nat] ==
        IF id = 0 \/ node[id].kind = MOVED THEN [id |-> 0, depth |-> 0]
        ELSE LET s == pfx_shared(node[id].prefix, Rest(path, d)) IN
             IF s # Len(node[id].prefix) /\ d + s # Len(path) THEN [id |-> 0, depth |-> 0]
             ELSE IF d + s = Len(path) THEN [id |-> id, depth |-> s]
             ELSE find[art_child(node, id, path[d + s + 1]), d + s + 1]
  IN find[root, 0]

\* The node of the key path \o rel, starting at the reference of path: what is
\* left of the node's prefix is matched with rel, then rel is walked.
kvspaceShmViewResolveFrom(ref, rel) ==
  LET id == art_follow(node, ref.id)
      left == Rest(node[id].prefix, ref.depth)
      n == pfx_shared(left, rel)
  IN IF id = 0 \/ (n < Len(left) /\ n < Len(rel)) THEN 0
     ELSE IF n = Len(rel) THEN IF node[id].val = None THEN 0 ELSE id
     ELSE art_walk(node, art_child(node, id, rel[n + 1]), Rest(rel, n), 1)

------------------------------------------------------------------------------
(* Scans *)

\* The node under which all keys with this prefix lie, and the depth it starts at.
art_cover(pfx) ==
  LET cover[at \in (0 .. Len(node)) \X (0 .. Len(pfx))] ==
        LET id == at[1]
            d == at[2]
            s == pfx_shared(node[id].prefix, Rest(pfx, d))
            e == d + Len(node[id].prefix)
        IN IF id = 0 \/ (s < Len(node[id].prefix) /\ d + s < Len(pfx))
             THEN [id |-> 0, depth |-> 0]
           ELSE IF s < Len(node[id].prefix) \/ e = Len(pfx) THEN [id |-> id, depth |-> d]
           ELSE cover[<<art_child(node, id, pfx[e + 1]), e + 1>>]
  IN cover[<<root, 0>>]

\* All keys with a value below a node reached with the bytes of start.
art_collect_keys(top, start) ==
  LET collect[at \in (1 .. Len(node)) \X Seq(Byte)] ==
        LET here == at[2] \o node[at[1]].prefix
            kids == node[at[1]].kids
        IN (IF node[at[1]].val = None THEN {} ELSE {here})
           \union UNION {collect[<<kids[i][2], Append(here, kids[i][1])>>] : i \in DOMAIN kids}
  IN collect[<<top, start>>]

art_scan_keys(pfx) ==
  LET c == art_cover(pfx) IN
  IF c.id = 0 THEN {} ELSE art_collect_keys(c.id, SubSeq(pfx, 1, c.depth))

\* Deleted values leave nodes behind.
art_has_live_value(top) ==
  LET live[id \in Nat] == \/ node[id].val # None
                          \/ \E i \in DOMAIN node[id].kids : live[node[id].kids[i][2]]
  IN live[top]

\* Bytes before the first separator.
child_name_len(rest) ==
  LET seps == {i \in 1 .. Len(rest) :
                 \/ rest[i] = Slash
                 \/ i < Len(rest) /\ rest[i] = C2 /\ rest[i + 1] = B7}
  IN IF seps = {} THEN Len(rest) ELSE (CHOOSE i \in seps : \A j \in seps : i <= j) - 1

\* Broken variant: the search for a separator starts at the node's own bytes.
ScanStart_node(buf, plen) == IF Len(buf) > plen THEN Len(buf) - plen ELSE 0

\* Where the search for a separator goes on: the last byte of the parent is
\* looked at again, a U+00B7 may be split between parent and child.
ScanStart(buf, plen) == IF Len(buf) > plen + 1 THEN Len(buf) - plen - 2 ELSE 0

\* Names of the direct children of a directory of plen bytes, below a node.
art_scan_children(top, from, plen) ==
  LET scan[id \in Nat, buf \in Seq(Nat)] ==
        LET here == buf \o node[id].prefix
            rest == Rest(here, plen)
            start == ScanStart(buf, plen)
            len == start + child_name_len(Rest(rest, start))
            dirkey == rest[len + 1] = Slash /\ len + 1 = Len(rest) /\ node[id].val # None
            kids == node[id].kids
        IN IF Len(here) > plen /\ len < Len(rest)
             THEN IF len = 0 \/ ~art_has_live_value(id) THEN {}
                  ELSE {SubSeq(rest, 1, IF dirkey THEN len + 1 ELSE len)}
             ELSE (IF Len(here) > plen /\ node[id].val # None THEN {rest} ELSE {})
                  \union UNION {scan[kids[i][2], Append(here, kids[i][1])] : i \in DOMAIN kids}
  IN scan[top, from]

art_scan_pfx(pfx) ==
  LET c == art_cover(pfx) IN
  IF c.id = 0 THEN {} ELSE art_scan_children(c.id, SubSeq(pfx, 1, c.depth), Len(pfx))

\* list_scan drops a name when the directory entry of the same name is there.
list_scan(pfx) ==
  LET children == art_scan_pfx(pfx) IN {n \in children : Append(n, Slash) \notin children}

------------------------------------------------------------------------------
(* Operations *)

\* kvspaceShmSet with a new box: the insertion may run out of nodes.
kvspaceShmSet(k, v) ==
  \E b \in Budgets :
    LET r == art_ins(node, Len(node) + b, root, k, v) IN
    /\ node' = r.ns
    /\ root' = IF r.id = 0 THEN root ELSE r.id
    /\ UNCHANGED keys

kvspaceShmDel(k) ==
  /\ art_find(k) # 0
  /\ node' = art_del(node, art_find(k))
  /\ UNCHANGED <<keys, root>>

Next == \E k \in keys : kvspaceShmDel(k) \/ \E v \in Values : kvspaceShmSet(k, v)

Spec == Init /\ [][Next]_vars

------------------------------------------------------------------------------
(* Correctness *)

AllKeys == UNION Families

\* Lookup of every key: the map the index stands for.
Lookup ==
  [k \in AllKeys |-> LET id == IF k \in keys THEN art_find(k) ELSE 0
                     IN IF id = 0 THEN None ELSE node[id].val]

Abstract == INSTANCE KvMap WITH map <- Lookup, Keys <- AllKeys

\* Through splits, growth, tombstones and failed allocations the tree behaves
\* like a map: an operation on one key changes what is found for that key only.
IsMap == Abstract!Spec

\* The bytes that lead to the end of each node that can be reached.
Paths ==
  LET from[at \in (1 .. Len(node)) \X Seq(Byte)] ==
        LET here == at[2] \o node[at[1]].prefix
            kids == node[at[1]].kids
        IN {<<at[1], here>>}
           \union UNION {from[<<kids[i][2], Append(here, kids[i][1])>>] : i \in DOMAIN kids}
  IN IF root = 0 THEN {} ELSE from[<<root, <<>>>>]

\* A node, or the one it was moved to, stands for the same bytes for ever: what
\* kvspaceShmResolveRef handed out stays good without any check (ref_leaf).
NodesStay ==
  [][LET after == Paths' IN
     \A p \in Paths : <<art_follow(node', p[1]), p[2]>> \in after]_vars

Live(k) == art_find(k) # 0
Dirs == UNION {Prefixes(k) : k \in keys}

\* A scan returns exactly the keys with values that have the prefix (Deltree).
ScanExact == \A p \in Dirs : art_scan_keys(p) = {k \in keys : Live(k) /\ IsPrefix(p, k)}

\* Reference definition of the children of a directory.
ChildOf(p, k) ==
  LET rest == Rest(k, Len(p))
      n == child_name_len(rest)
  IN IF n + 1 = Len(rest) /\ rest[n + 1] = Slash THEN rest ELSE SubSeq(rest, 1, n)
Children(p) ==
  LET names == {ChildOf(p, k) : k \in {k \in keys : Live(k) /\ IsStrictPrefix(p, k)}} \ {<<>>}
  IN {n \in names : n # <<Slash>> /\ Append(n, Slash) \notin names}
IsDir(p) == p # <<>> /\ (Last(p) = Slash \/ (Len(p) > 1 /\ p[Len(p)] = B7 /\ p[Len(p) - 1] = C2))

\* Listing a directory yields each child once, whatever nodes its bytes are
\* spread over, and no child all of whose values were deleted.
ChildrenExact == \A p \in {p \in Dirs : IsDir(p)} : list_scan(p) = Children(p)

\* The directory references of the keys with values, and the bytes they stand for.
DirRefs ==
  LET dir(k) == kvspaceShmResolveRef(k).dir
  IN {<<dir(k), SubSeq(k, 1, dir(k).depth)>> : k \in {k \in keys : Live(k)}}

\* From the directory reference that comes with a key, every key that shares its
\* bytes is found as it is from the root, also after the tree changed under it.
DirRefExact ==
  [][\A r \in {r \in DirRefs : r[1].id # 0} :
       \A j \in {j \in keys : IsStrictPrefix(r[2], j)} :
         (ref_leaf(r[1], j) = art_find(j))']_vars

\* A view resolved from a path reference and a relative name is the view of the
\* joined key.
PrefixRefExact ==
  \A p \in {p \in Dirs : IsDir(p) /\ kvspaceShmResolvePrefix(p).id # 0} :
    \A k \in {k \in Dirs : IsStrictPrefix(p, k)} :
      kvspaceShmViewResolveFrom(kvspaceShmResolvePrefix(p), Rest(k, Len(p))) = art_find(k)

==============================================================================
