--------------------------------- MODULE Listing ---------------------------------
(***************************************************************************)
(* The order of a listing and how it is made unique (kvspace.c: list_scan, *)
(* child_cmp, same_child; coord.c).                                        *)
(*                                                                         *)
(* list_scan collects the children of a directory and of the index mounted *)
(* on it, sorts them and drops neighbours with the same name.  Names are   *)
(* sequences of character codes; one step is one turn of the loop that     *)
(* drops.  Names are short enough for int64_t coordinates.                 *)
(***************************************************************************)
EXTENDS Integers, Sequences, SequencesExt

CONSTANTS
  Children,   \* sets of names that a directory or an index may have
  MaxCoord    \* the most coordinates that are parsed (8)

Open  == 91
Close == 93
Comma == 44
Slash == 47
Digit(c) == c \in 48..57

\* What the code takes for a coordinate: brackets around something without brackets.
kvspaceCoordIsCoord(n) ==
  /\ Len(n) >= 3 /\ n[1] = Open /\ Last(n) = Close
  /\ \A i \in 2 .. Len(n) - 1 : n[i] \notin {Open, Close}

\* One character of a coordinate: digits, and a comma or bracket after a digit.
Parse(s, c) ==
  CASE s.fail -> s
    [] Digit(c) -> [s EXCEPT !.cur = 10 * @ + (c - 48), !.has = TRUE]
    [] c \in {Comma, Close} /\ s.has /\ Len(s.coords) < MaxCoord ->
         [s EXCEPT !.coords = Append(@, s.cur), !.cur = 0, !.has = FALSE]
    [] OTHER -> [s EXCEPT !.fail = TRUE]

\* The integers of a coordinate; fail if it has other parts.
kvspaceParseCoord(n) ==
  FoldLeft(Parse, [coords |-> <<>>, cur |-> 0, has |-> FALSE, fail |-> FALSE], Tail(n))

\* a comes before b where they first differ; a prefix comes first.
Before(a, b) ==
  \/ IsStrictPrefix(a, b)
  \/ \E i \in 1 .. Len(a) : /\ i <= Len(b) /\ a[i] < b[i]
                            /\ \A j \in 1 .. i - 1 : a[j] = b[j]

\* The sign of a comparison, of bytes or of integers.
Sign(a, b) == IF Before(a, b) THEN -1 ELSE IF a = b THEN 0 ELSE 1

\* Coordinates come first, by their integers if both have integers and by their
\* bytes if not.
kvspaceCoordCmp(a, b) ==
  LET ia == kvspaceCoordIsCoord(a)     ib == kvspaceCoordIsCoord(b)
      pa == kvspaceParseCoord(a)       pb == kvspaceParseCoord(b)
  IN CASE ia # ib -> IF ia THEN -1 ELSE 1
       [] ia /\ ib /\ ~pa.fail /\ ~pb.fail -> Sign(pa.coords, pb.coords)
       [] OTHER -> Sign(a, b)

\* The name without the slash of a directory entry.
Bare(n) == IF n # <<>> /\ Last(n) = Slash THEN Front(n) ELSE n

child_cmp(a, b) ==
  LET c == kvspaceCoordCmp(Bare(a), Bare(b)) IN IF c # 0 THEN c ELSE Sign(a, b)

same_child(a, b) == Bare(a) = Bare(b)

\* qsort as the C library has it, a merge sort: the first half of s, the rest of it,
\* and of two heads the one of the first half unless it comes later.
RECURSIVE merge(_, _), qsort(_)
merge(s, t) ==
  IF s = <<>> THEN t ELSE IF t = <<>> THEN s
  ELSE IF child_cmp(Head(s), Head(t)) <= 0 THEN <<Head(s)>> \o merge(Tail(s), t)
  ELSE <<Head(t)>> \o merge(s, Tail(t))
qsort(s) ==
  LET h == Len(s) \div 2
  IN IF Len(s) <= 1 THEN s ELSE merge(qsort(SubSeq(s, 1, h)), qsort(SubSeq(s, h + 1, Len(s))))

\* A scan of the tree finds the names in the order of their bytes (in a small node
\* whose children came in that order).
art_scan_pfx(names) == SetToSortSeq(names, Before)

VARIABLES
  own, ext,   \* children of the directory and of the mounted index
  todo,       \* sorted names not looked at yet
  keys        \* names kept

vars == <<own, ext, todo, keys>>

Init ==
  /\ own \in Children /\ ext \in Children
  /\ todo = qsort(art_scan_pfx(own) \o art_scan_pfx(ext))
  /\ keys = <<>>

\* A name like the one before it is dropped, the directory entry is preferred.
list_scan ==
  /\ todo # <<>>
  /\ todo' = Tail(todo)
  /\ LET n == Head(todo) IN
       keys' = IF keys = <<>> \/ ~same_child(Last(keys), n) THEN Append(keys, n)
               ELSE IF Last(n) = Slash THEN Append(Front(keys), n)
               ELSE keys
  /\ UNCHANGED <<own, ext>>

Next == list_scan
Spec == Init /\ [][Next]_vars

------------------------------------------------------------------------------
\* "Scan direct children of target (and mounted ext): sort, deduplicate (prefer
\* directory entry on name collision)" (list_scan): a listing has every child once, as
\* a directory if it is one.
ListedOnce ==
  todo = <<>> =>
    /\ \A i, j \in 1 .. Len(keys) : same_child(keys[i], keys[j]) => i = j
    /\ \A n \in own \union ext : n \in ToSet(keys) \/ Append(Bare(n), Slash) \in ToSet(keys)
==============================================================================
