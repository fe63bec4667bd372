------------------------------ MODULE ArtProofs ------------------------------
(***************************************************************************)
(* The radix tree implements a map, for any keys, values and capacities.   *)
(*                                                                         *)
(* Numbers, walks and sequences come first, then labelled trees as such    *)
(* (Shape, and what a split, a replacement and a chain do to one), then    *)
(* the children of a node, the single operations on nodes, and what they   *)
(* make of the tree.  Walks and insertions are recursive functions: that   *)
(* they have values at all is WalkEnds and its kind, along the length of   *)
(* the bytes left.  The insertion is followed from the place where it      *)
(* stops back up to the root; FindExact and InsertExact say what a lookup  *)
(* and an insertion do, and the invariant of the specification is IsTree.  *)
(***************************************************************************)
EXTENDS Art, FiniteSetTheorems, SequenceTheorems, FunctionTheorems,
        WellFoundedInduction, NaturalsInduction, TLAPS

\* Every non-empty set of numbers has a least member.
LEMMA Least ==
  ASSUME NEW T, T \subseteq Nat, T # {}
  PROVE  \E m \in T : \A j \in T : m <= j
<1>1. IsWellFoundedOn(OpToRel(<, Nat), Nat)
  BY NatLessThanWellFounded, Zenon
<1>2. PICK m \in T : \A j \in T : ~(<<j, m>> \in OpToRel(<, Nat))
  BY <1>1, WFMin, Zenon
<1>3. ASSUME NEW j \in T PROVE ~(j < m)
  <2>1. j \in Nat /\ m \in Nat
    OBVIOUS
  <2>. QED BY <2>1, <1>2, Zenon DEF OpToRel
<1>. QED BY <1>3

\* A walk goes on from a place to one of smaller rank, or stops.
Descends(D, stop, nxt, rank, R) ==
  /\ \A x \in D : rank[x] \in 0 .. R
  /\ \A x \in D : x \notin stop => nxt[x] \in D /\ rank[nxt[x]] < rank[x]

\* What the walk finds.
Ends(D, stop, out, nxt) == \E f : \A x \in D : f[x] = IF x \in stop THEN out[x] ELSE f[nxt[x]]

\* A walk that comes to places of smaller rank ends: the equation that defines
\* it has a solution.
LEMMA WalkEnds ==
  ASSUME NEW D, NEW stop, NEW out, NEW nxt, NEW rank, NEW R \in Nat,
         Descends(D, stop, nxt, rank, R)
  PROVE  Ends(D, stop, out, nxt)
<1>. USE DEF Descends, Ends
<1>. DEFINE B(f, x) == IF x \in stop THEN out[x] ELSE f[nxt[x]]
            Ok(f, m) == \A x \in D : rank[x] < m => f[x] = B(f, x)
            IsF(f) == f = [x \in D |-> f[x]]
            T == {m \in Nat : ~\E f : IsF(f) /\ Ok(f, m)}
<1>1. ASSUME NEW m \in Nat, NEW f, IsF(f), Ok(f, m)
      PROVE  \E g : IsF(g) /\ Ok(g, m + 1)
  <2>. DEFINE g == [x \in D |-> IF rank[x] = m THEN B(f, x) ELSE f[x]]
  <2>1. IsF(g)
    OBVIOUS
  <2>2. ASSUME NEW x \in D, rank[x] < m + 1 PROVE g[x] = B(g, x)
    <3>1. rank[x] \in Nat /\ (rank[x] = m \/ rank[x] < m)
      BY <2>2
    <3>2. g[x] = B(f, x)
      BY <1>1, <3>1
    <3>3. ASSUME x \notin stop PROVE g[nxt[x]] = f[nxt[x]]
      <4>1. nxt[x] \in D /\ rank[nxt[x]] < rank[x]
        BY <3>3
      <4>2. rank[nxt[x]] # m
        BY <4>1, <3>1
      <4>. QED BY <4>1, <4>2
    <3>. HIDE DEF g
    <3>. QED BY <3>2, <3>3
  <2>. HIDE DEF g, B, IsF
  <2>3. Ok(g, m + 1)
    BY <2>2
  <2>. QED BY <2>1, <2>3
<1>2. \E f : IsF(f) /\ Ok(f, 0)
  <2>1. IsF([x \in D |-> 0]) /\ Ok([x \in D |-> 0], 0)
    OBVIOUS
  <2>. HIDE DEF IsF, Ok
  <2>. QED BY <2>1
<1>3. T = {}
  <2>1. SUFFICES ASSUME T # {} PROVE FALSE
    OBVIOUS
  <2>. HIDE DEF Ok, IsF
  <2>2. T \subseteq Nat
    OBVIOUS
  <2>. HIDE DEF T
  <2>3. PICK m \in T : \A j \in T : m <= j
    BY <2>1, <2>2, Least
  <2>4. m \in Nat /\ m # 0
    BY <2>2, <1>2 DEF T
  <2>5. m - 1 \in Nat /\ m - 1 \notin T /\ (m - 1) + 1 = m
    BY <2>3, <2>4
  <2>6. PICK f : IsF(f) /\ Ok(f, m - 1)
    BY <2>5 DEF T
  <2>7. \E g : IsF(g) /\ Ok(g, m)
    BY <2>5, <2>6, <1>1
  <2>. QED BY <2>7, <2>4 DEF T
<1>4. PICK f : IsF(f) /\ Ok(f, R + 1)
  <2>. HIDE DEF Ok, IsF
  <2>. QED BY <1>3
<1>5. \A x \in D : f[x] = B(f, x)
  BY <1>4
<1>. QED BY <1>5

------------------------------------------------------------------------------
(* Bytes in common *)

\* The rest of a string.
LEMMA RestFacts ==
  ASSUME NEW s \in Seq(Byte), NEW d \in 0 .. Len(s)
  PROVE  /\ Rest(s, d) \in Seq(Byte) /\ Len(Rest(s, d)) = Len(s) - d
         /\ \A i \in 1 .. Len(s) - d : Rest(s, d)[i] = s[d + i]
BY DEF Rest

\* The numbers up to the first that is missing are counted.
LEMMA CountPrefix ==
  ASSUME NEW n \in Nat, NEW A \in SUBSET (1 .. n),
         \A i \in A : \A j \in 1 .. i : j \in A
  PROVE  /\ Cardinality(A) \in 0 .. n
         /\ \A i \in 1 .. n : i \in A <=> i <= Cardinality(A)
<1>. DEFINE T == {k \in Nat : k + 1 \notin A}
<1>1. T \subseteq Nat /\ n \in T
  OBVIOUS
<1>2. PICK m \in T : \A j \in T : m <= j
  <2>. HIDE DEF T
  <2>. QED BY <1>1, Least
<1>3. m \in Nat /\ m + 1 \notin A /\ m <= n
  BY <1>1, <1>2
<1>4. ASSUME NEW i \in 1 .. m PROVE i \in A
  <2>1. i - 1 \in Nat /\ ~(m <= i - 1)
    BY <1>3
  <2>2. i - 1 \notin T
    BY <1>2, <2>1
  <2>. QED BY <2>1, <2>2
<1>5. ASSUME NEW i \in A PROVE i \in 1 .. m
  BY <1>3
<1>6. A = 1 .. m
  BY <1>4, <1>5
<1>7. Cardinality(A) = m
  BY <1>3, <1>6, FS_Interval
<1>. QED BY <1>3, <1>6, <1>7

\* What two strings share.
LEMMA SharedFacts ==
  ASSUME NEW a \in Seq(Byte), NEW b \in Seq(Byte)
  PROVE  LET s == pfx_shared(a, b) IN
         /\ s \in Nat /\ s <= Len(a) /\ s <= Len(b)
         /\ \A i \in 1 .. s : a[i] = b[i]
         /\ s < Len(a) /\ s < Len(b) => a[s + 1] # b[s + 1]
<1>. DEFINE A == {i \in 1 .. Len(a) : i <= Len(b) /\ SubSeq(a, 1, i) = SubSeq(b, 1, i)}
            s == Cardinality(A)
<1>1. \A i \in 1 .. Len(a) : i \in A <=> i <= Len(b) /\ \A j \in 1 .. i : a[j] = b[j]
  <2>1. SUFFICES ASSUME NEW i \in 1 .. Len(a), i <= Len(b)
                 PROVE  SubSeq(a, 1, i) = SubSeq(b, 1, i) <=> \A j \in 1 .. i : a[j] = b[j]
    OBVIOUS
  <2>2. /\ SubSeq(a, 1, i) \in Seq(Byte) /\ Len(SubSeq(a, 1, i)) = i
        /\ SubSeq(b, 1, i) \in Seq(Byte) /\ Len(SubSeq(b, 1, i)) = i
        /\ \A j \in 1 .. i : SubSeq(a, 1, i)[j] = a[j] /\ SubSeq(b, 1, i)[j] = b[j]
    BY <2>1
  <2>. QED BY <2>2
<1>2. Len(a) \in Nat /\ Len(b) \in Nat /\ A \in SUBSET (1 .. Len(a))
  OBVIOUS
<1>. HIDE DEF A
<1>3. ASSUME NEW i \in A, NEW j \in 1 .. i PROVE j \in A
  <2>1. i \in 1 .. Len(a) /\ i \in Nat
    BY <1>2
  <2>2. j \in 1 .. Len(a) /\ j <= i /\ j \in Nat
    BY <1>2, <2>1
  <2>3. i <= Len(b) /\ \A k \in 1 .. i : a[k] = b[k]
    BY <1>1, <2>1
  <2>4. j <= Len(b) /\ \A k \in 1 .. j : a[k] = b[k]
    BY <1>2, <2>1, <2>2, <2>3
  <2>. QED BY <1>1, <2>2, <2>4
<1>4. s \in 0 .. Len(a) /\ \A i \in 1 .. Len(a) : i \in A <=> i <= s
  BY <1>2, <1>3, CountPrefix
<1>5. s = pfx_shared(a, b)
  BY DEF pfx_shared, A
<1>. HIDE DEF s
<1>6. s \in Nat /\ s <= Len(a)
  BY <1>2, <1>4
<1>7. s > 0 => s \in 1 .. Len(a)
  BY <1>2, <1>6
<1>8. s > 0 => s <= Len(b) /\ \A j \in 1 .. s : a[j] = b[j]
  BY <1>1, <1>4, <1>7
<1>9. ASSUME s < Len(a), s < Len(b) PROVE a[s + 1] # b[s + 1]
  <2>1. s + 1 \in 1 .. Len(a) /\ s + 1 <= Len(b) /\ ~(s + 1 <= s)
    BY <1>2, <1>6, <1>9
  <2>2. ~\A j \in 1 .. s + 1 : a[j] = b[j]
    BY <1>1, <1>4, <2>1
  <2>3. \A j \in 1 .. s : a[j] = b[j]
    BY <1>6, <1>8
  <2>. QED BY <1>6, <2>2, <2>3
<1>. QED BY <1>2, <1>5, <1>6, <1>8, <1>9

------------------------------------------------------------------------------
(* The shape of the tree: labels *)

\* Two strings agree on their first n bytes.
Agree(s, t, n) == \A i \in 1 .. n : s[i] = t[i]

\* A string is a prefix of another.
Within(s, t) == Len(s) <= Len(t) /\ Agree(s, t, Len(s))

\* A branch by b leads from x to c.
Branch(lab, st, x, b, c) ==
  /\ st[c] = Len(lab[x]) + 1
  /\ Agree(lab[x], lab[c], Len(lab[x]))
  /\ lab[c][Len(lab[x]) + 1] = b

\* S: the nodes in the tree; lab: the bytes up to the end of a node; st: how
\* many of them come before its prefix; ch: the children; top: the root.
Labels(S, lab, st) ==
  /\ S \subseteq Nat /\ 0 \notin S
  /\ \A x \in S : lab[x] \in Seq(Byte) /\ st[x] \in Nat /\ st[x] <= Len(lab[x])

Top(S, st, top) == (top = 0 => S = {}) /\ (top # 0 => top \in S /\ st[top] = 0)

Branches(S, lab, st, ch) ==
  \A x \in S : \A b \in Byte :
    ch[<<x, b>>] # 0 => ch[<<x, b>>] \in S /\ Branch(lab, st, x, b, ch[<<x, b>>])

\* A node has a child towards every node whose label is longer than its own.
Complete(S, lab, ch) ==
  \A x \in S : \A y \in S :
    Len(lab[x]) < Len(lab[y]) /\ Agree(lab[x], lab[y], Len(lab[x])) =>
      ch[<<x, lab[y][Len(lab[x]) + 1]>>] # 0

\* Nothing leaves a node inside its prefix.
Apart(S, lab, st) ==
  \A x \in S : \A y \in S :
    st[x] <= Len(lab[y]) /\ Agree(lab[x], lab[y], st[x]) => Within(lab[x], lab[y])

OneNode(S, lab) == \A x \in S : \A y \in S : lab[x] = lab[y] => x = y

Shape(S, lab, st, ch, top) ==
  /\ Labels(S, lab, st) /\ Top(S, st, top) /\ Branches(S, lab, st, ch)
  /\ Complete(S, lab, ch) /\ Apart(S, lab, st) /\ OneNode(S, lab)

\* Equal strings.
LEMMA SameString ==
  ASSUME NEW s \in Seq(Byte), NEW t \in Seq(Byte), Len(s) = Len(t), Agree(s, t, Len(s))
  PROVE  s = t
BY DEF Agree

\* Agreement.
LEMMA AgreeFacts ==
  /\ \A s, t, n : Agree(s, t, n) <=> Agree(t, s, n)
  /\ \A s, t, u, n : Agree(s, t, n) /\ Agree(t, u, n) => Agree(s, u, n)
  /\ \A s, t : \A n, m \in Nat : Agree(s, t, n) /\ m <= n => Agree(s, t, m)
  /\ \A s, t : \A n, m \in Nat : Agree(s, t, n) /\ m < n => s[m + 1] = t[m + 1]
  /\ \A s, t : \A n \in Nat : Agree(s, t, n) /\ s[n + 1] = t[n + 1] => Agree(s, t, n + 1)
  /\ \A s, t : Agree(s, t, 0)
<1>1. \A s, t, n : Agree(s, t, n) <=> Agree(t, s, n)
  BY DEF Agree
<1>2. \A s, t, u, n : Agree(s, t, n) /\ Agree(t, u, n) => Agree(s, u, n)
  BY DEF Agree
<1>3. \A s, t : \A n, m \in Nat : Agree(s, t, n) /\ m <= n => Agree(s, t, m)
  BY DEF Agree
<1>4. \A s, t : \A n, m \in Nat : Agree(s, t, n) /\ m < n => s[m + 1] = t[m + 1]
  <2>. SUFFICES ASSUME NEW s, NEW t
                PROVE  \A n, m \in Nat : Agree(s, t, n) /\ m < n => s[m + 1] = t[m + 1]
    OBVIOUS
  <2>. SUFFICES ASSUME NEW n \in Nat, NEW m \in Nat, Agree(s, t, n), m < n
                PROVE  s[m + 1] = t[m + 1]
    OBVIOUS
  <2>1. m + 1 \in 1 .. n
    OBVIOUS
  <2>. QED BY <2>1 DEF Agree
<1>5. \A s, t : \A n \in Nat : Agree(s, t, n) /\ s[n + 1] = t[n + 1] => Agree(s, t, n + 1)
  <2>1. SUFFICES ASSUME NEW s, NEW t, NEW n \in Nat, Agree(s, t, n), s[n + 1] = t[n + 1],
                        NEW i \in 1 .. n + 1
                 PROVE s[i] = t[i]
    BY DEF Agree
  <2>2. i \in 1 .. n \/ i = n + 1
    OBVIOUS
  <2>. QED BY <2>1, <2>2 DEF Agree
<1>6. \A s, t : Agree(s, t, 0)
  BY DEF Agree
<1>. QED BY <1>1, <1>2, <1>3, <1>4, <1>5, <1>6, Zenon

\* A new node n takes over the first m bytes of y's label.
SplitRel(S, lab, st, ch, y, m, n, lab2, st2, ch2) ==
  /\ y \in S /\ m \in Nat /\ st[y] <= m /\ m < Len(lab[y])
  /\ n \in Nat /\ n # 0 /\ n \notin S
  /\ \A x \in S : lab2[x] = lab[x]
  /\ lab2[n] = SubSeq(lab[y], 1, m)
  /\ \A x \in S : x # y => st2[x] = st[x]
  /\ st2[n] = st[y] /\ st2[y] = m + 1
  /\ \A b \in Byte : ch2[<<n, b>>] = IF b = lab[y][m + 1] THEN y ELSE 0
  /\ \A x \in S : \A b \in Byte :
       ch2[<<x, b>>] = IF ch[<<x, b>>] = y THEN n ELSE ch[<<x, b>>]

\* A node that is split keeps the shape: a new node ends where the shared bytes end.
LEMMA SplitShape ==
  ASSUME NEW S, NEW lab, NEW st, NEW ch, NEW top, Shape(S, lab, st, ch, top),
         NEW y, NEW m, NEW n, NEW lab2, NEW st2, NEW ch2,
         SplitRel(S, lab, st, ch, y, m, n, lab2, st2, ch2)
  PROVE  Shape(S \union {n}, lab2, st2, ch2, IF top = y THEN n ELSE top)
<1>. SUFFICES
       ASSUME y \in S, m \in Nat, st[y] <= m, m < Len(lab[y]),
              n \in Nat, n # 0, n \notin S,
              \A x \in S : lab2[x] = lab[x],
              lab2[n] = SubSeq(lab[y], 1, m),
              \A x \in S : x # y => st2[x] = st[x],
              st2[n] = st[y], st2[y] = m + 1,
              \A b \in Byte : ch2[<<n, b>>] = IF b = lab[y][m + 1] THEN y ELSE 0,
              \A x \in S : \A b \in Byte :
                ch2[<<x, b>>] = IF ch[<<x, b>>] = y THEN n ELSE ch[<<x, b>>]
       PROVE  Shape(S \union {n}, lab2, st2, ch2, IF top = y THEN n ELSE top)
  BY Zenon DEF SplitRel
<1>1. /\ Labels(S, lab, st) /\ Top(S, st, top) /\ Branches(S, lab, st, ch)
      /\ Complete(S, lab, ch) /\ Apart(S, lab, st) /\ OneNode(S, lab)
  BY Zenon DEF Shape
<1>2. /\ y \in Nat /\ y # 0 /\ y # n
      /\ \A x \in S : /\ lab[x] \in Seq(Byte) /\ Len(lab[x]) \in Nat /\ st[x] \in Nat
                      /\ st[x] <= Len(lab[x]) /\ x \in Nat /\ x # 0
  BY <1>1 DEF Labels
<1>3. lab2[n] \in Seq(Byte) /\ Len(lab2[n]) = m /\ Agree(lab2[n], lab[y], m)
  BY <1>2 DEF Agree
<1>4. lab[y][m + 1] \in Byte
  <2>1. m + 1 \in 1 .. Len(lab[y])
    BY <1>2
  <2>. QED BY <2>1, <1>2
<1>5. Labels(S \union {n}, lab2, st2)
  <2>1. lab2[n] \in Seq(Byte) /\ st2[n] \in Nat /\ st2[n] <= Len(lab2[n])
    BY <1>2, <1>3
  <2>2. ASSUME NEW x \in S PROVE lab2[x] \in Seq(Byte) /\ st2[x] \in Nat /\ st2[x] <= Len(lab2[x])
    <3>1. CASE x = y
      BY <1>2, <3>1
    <3>2. CASE x # y
      BY <1>2, <3>2
    <3>. QED BY <3>1, <3>2
  <2>. QED BY <1>2, <2>1, <2>2 DEF Labels
<1>6. Top(S \union {n}, st2, IF top = y THEN n ELSE top)
  BY <1>1, <1>2 DEF Top
<1>7. Branches(S \union {n}, lab2, st2, ch2)
  <2>1. SUFFICES ASSUME NEW x \in S \union {n}, NEW b \in Byte, ch2[<<x, b>>] # 0
                 PROVE  /\ ch2[<<x, b>>] \in S \union {n}
                        /\ Branch(lab2, st2, x, b, ch2[<<x, b>>])
    BY DEF Branches
  <2>2. CASE x = n
    <3>1. ch2[<<x, b>>] = y /\ b = lab[y][m + 1]
      BY <2>1, <2>2
    <3>2. lab2[y] = lab[y] /\ Agree(lab2[n], lab2[y], Len(lab2[n]))
      BY <1>3
    <3>. QED BY <1>3, <2>2, <3>1, <3>2 DEF Branch
  <2>3. CASE x \in S
    <3>. DEFINE c == ch[<<x, b>>]
    <3>1. c # 0 /\ c \in S /\ Branch(lab, st, x, b, c)
      <4>1. c # 0
        BY <2>1, <2>3, <1>2
      <4>. QED BY <4>1, <1>1, <2>3 DEF Branches
    <3>2. CASE c # y
      <4>1. ch2[<<x, b>>] = c
        BY <2>3, <3>2
      <4>2. lab2[x] = lab[x] /\ lab2[c] = lab[c] /\ st2[c] = st[c]
        BY <2>3, <3>1, <3>2
      <4>. QED BY <3>1, <4>1, <4>2 DEF Branch
    <3>3. CASE c = y
      <4>1. ch2[<<x, b>>] = n
        BY <2>3, <3>3
      <4>2. /\ st[y] = Len(lab[x]) + 1 /\ Agree(lab[x], lab[y], Len(lab[x]))
            /\ lab[y][Len(lab[x]) + 1] = b
        BY <3>1, <3>3 DEF Branch
      <4>3. Agree(lab[x], lab2[n], Len(lab[x])) /\ lab2[n][Len(lab[x]) + 1] = b
        BY <1>2, <1>3, <2>3, <4>2, AgreeFacts
      <4>. QED BY <2>3, <4>1, <4>2, <4>3 DEF Branch
    <3>. QED BY <3>2, <3>3
  <2>. QED BY <2>1, <2>2, <2>3
<1>8. \A x \in S : Len(lab[x]) >= st[y] /\ Agree(lab[x], lab[y], st[y]) =>
        Len(lab[y]) <= Len(lab[x]) /\ Agree(lab[y], lab[x], Len(lab[y]))
  BY <1>1, <1>2, AgreeFacts DEF Apart, Within
<1>9. Complete(S \union {n}, lab2, ch2)
  <2>1. SUFFICES ASSUME NEW x \in S \union {n}, NEW z \in S \union {n},
                        Len(lab2[x]) < Len(lab2[z]), Agree(lab2[x], lab2[z], Len(lab2[x]))
                 PROVE  ch2[<<x, lab2[z][Len(lab2[x]) + 1]>>] # 0
    BY DEF Complete
  <2>2. CASE x = n
    <3>1. z \in S /\ lab2[z] = lab[z]
      BY <1>3, <2>1, <2>2
    <3>2. Len(lab[z]) > m /\ Agree(lab2[n], lab[z], m)
      BY <1>3, <2>1, <2>2, <3>1
    <3>3. Agree(lab[z], lab[y], st[y])
      BY <1>2, <1>3, <3>2, AgreeFacts
    <3>4. Len(lab[y]) <= Len(lab[z]) /\ Agree(lab[y], lab[z], Len(lab[y]))
      <4>1. Len(lab[z]) >= st[y]
        BY <1>2, <3>1, <3>2
      <4>. QED BY <1>8, <3>1, <3>3, <4>1
    <3>5. lab[z][m + 1] = lab[y][m + 1]
      BY <1>2, <3>1, <3>4, AgreeFacts
    <3>. QED BY <1>2, <1>3, <1>4, <2>2, <3>1, <3>5, SMTT(40)
  <2>3. CASE x \in S /\ z \in S
    <3>1. ch[<<x, lab[z][Len(lab[x]) + 1]>>] # 0
      BY <1>1, <2>1, <2>3 DEF Complete
    <3>2. lab[z][Len(lab[x]) + 1] \in Byte
      <4>1. Len(lab[x]) + 1 \in 1 .. Len(lab[z])
        BY <1>2, <2>1, <2>3
      <4>. QED BY <4>1, <1>2, <2>3
    <3>. DEFINE b == lab[z][Len(lab[x]) + 1]
    <3>3. ch2[<<x, b>>] = IF ch[<<x, b>>] = y THEN n ELSE ch[<<x, b>>]
      BY <2>3, <3>2
    <3>4. lab2[x] = lab[x] /\ lab2[z] = lab[z]
      BY <2>3
    <3>5. ch2[<<x, b>>] # 0
      BY <3>1, <3>3
    <3>. QED BY <3>4, <3>5
  <2>4. CASE x \in S /\ z = n
    <3>1. Len(lab[x]) < m /\ Agree(lab[x], lab2[n], Len(lab[x]))
      BY <1>3, <2>1, <2>4
    <3>2. Agree(lab[x], lab[y], Len(lab[x])) /\ lab2[n][Len(lab[x]) + 1] = lab[y][Len(lab[x]) + 1]
      BY <1>2, <1>3, <2>4, <3>1, AgreeFacts
    <3>3. Len(lab[x]) < Len(lab[y])
      BY <1>2, <2>4, <3>1
    <3>4. ch[<<x, lab[y][Len(lab[x]) + 1]>>] # 0
      BY <1>1, <2>4, <3>2, <3>3 DEF Complete
    <3>5. lab[y][Len(lab[x]) + 1] \in Byte
      <4>1. Len(lab[x]) + 1 \in 1 .. Len(lab[y])
        BY <1>2, <2>4, <3>3
      <4>. QED BY <4>1, <1>2
    <3>. DEFINE b == lab[y][Len(lab[x]) + 1]
    <3>6. ch2[<<x, b>>] = IF ch[<<x, b>>] = y THEN n ELSE ch[<<x, b>>]
      BY <2>4, <3>5
    <3>7. lab2[x] = lab[x] /\ lab2[z][Len(lab[x]) + 1] = b
      BY <2>4, <3>2
    <3>8. ch2[<<x, b>>] # 0
      BY <3>4, <3>6
    <3>. QED BY <3>7, <3>8
  <2>. QED BY <2>2, <2>3, <2>4
<1>10. \A x \in S : x # y /\ Within(lab[x], lab[y]) => Len(lab[x]) <= m
  <2>1. SUFFICES ASSUME NEW x \in S, x # y, Len(lab[x]) <= Len(lab[y]), Len(lab[x]) > m,
                        Agree(lab[x], lab[y], Len(lab[x]))
                 PROVE  FALSE
    BY <1>2 DEF Within
  <2>2. Agree(lab[x], lab[y], st[y]) /\ Len(lab[x]) >= st[y]
    BY <1>2, <2>1, AgreeFacts
  <2>3. Len(lab[y]) <= Len(lab[x])
    BY <1>8, <2>2
  <2>4. lab[x] = lab[y]
    BY <1>2, <2>1, <2>3, SameString
  <2>. QED BY <1>1, <2>1, <2>4 DEF OneNode
<1>11. Apart(S \union {n}, lab2, st2)
  <2>1. SUFFICES ASSUME NEW x \in S \union {n}, NEW z \in S \union {n},
                        st2[x] <= Len(lab2[z]), Agree(lab2[x], lab2[z], st2[x])
                 PROVE  Within(lab2[x], lab2[z])
    BY DEF Apart
  <2>2. CASE x \in S /\ z \in S
    <3>1. st[x] <= st2[x] /\ st2[x] \in Nat /\ lab2[x] = lab[x] /\ lab2[z] = lab[z]
      <4>1. CASE x = y
        BY <1>2, <2>2, <4>1
      <4>2. CASE x # y
        BY <1>2, <2>2, <4>2
      <4>. QED BY <4>1, <4>2
    <3>2. st[x] <= Len(lab[z]) /\ Agree(lab[x], lab[z], st[x])
      BY <1>2, <2>1, <2>2, <3>1, AgreeFacts
    <3>. QED BY <1>1, <2>2, <3>1, <3>2 DEF Apart
  <2>3. CASE x = n /\ z = n
    BY <1>3, <2>3 DEF Within, Agree
  <2>4. CASE x = n /\ z \in S
    <3>1. st[y] <= Len(lab[z]) /\ Agree(lab2[n], lab[z], st[y])
      BY <2>1, <2>4
    <3>2. Agree(lab[z], lab[y], st[y])
      BY <1>2, <1>3, <3>1, AgreeFacts
    <3>3. Len(lab[y]) <= Len(lab[z]) /\ Agree(lab[y], lab[z], Len(lab[y]))
      BY <1>2, <1>8, <2>4, <3>1, <3>2, AgreeFacts
    <3>4. m <= Len(lab[z]) /\ Agree(lab[y], lab[z], m)
      BY <1>2, <2>4, <3>3, AgreeFacts
    <3>5. Agree(lab2[n], lab[z], m)
      BY <1>3, <3>4, AgreeFacts
    <3>. QED BY <1>3, <2>4, <3>4, <3>5 DEF Within
  <2>5. CASE x \in S /\ z = n
    <3>1. x # y
      BY <1>3, <2>1, <2>5
    <3>2. st[x] <= m /\ Agree(lab[x], lab2[n], st[x])
      BY <1>3, <2>1, <2>5, <3>1
    <3>3. Agree(lab[x], lab[y], st[x]) /\ st[x] <= Len(lab[y])
      BY <1>2, <1>3, <2>5, <3>2, AgreeFacts
    <3>4. Within(lab[x], lab[y])
      BY <1>1, <2>5, <3>3 DEF Apart
    <3>5. Len(lab[x]) <= m
      BY <1>10, <2>5, <3>1, <3>4
    <3>6. Agree(lab[x], lab2[n], Len(lab[x]))
      BY <1>2, <1>3, <2>5, <3>4, <3>5, AgreeFacts DEF Within
    <3>. QED BY <1>3, <2>5, <3>5, <3>6 DEF Within
  <2>. QED BY <2>2, <2>3, <2>4, <2>5
<1>12. \A x \in S : lab[x] # lab2[n]
  <2>1. SUFFICES ASSUME NEW x \in S, lab[x] = lab2[n] PROVE FALSE
    OBVIOUS
  <2>2. Len(lab[x]) = m /\ Agree(lab[x], lab[y], m)
    BY <1>3, <2>1
  <2>3. Agree(lab[x], lab[y], st[y])
    BY <1>2, <2>2, AgreeFacts
  <2>4. Len(lab[x]) >= st[y]
    BY <2>2
  <2>5. Len(lab[y]) <= Len(lab[x])
    BY <1>8, <2>3, <2>4
  <2>. QED BY <1>2, <2>2, <2>5
<1>13. OneNode(S \union {n}, lab2)
  BY <1>1, <1>12 DEF OneNode
<1>. QED BY <1>5, <1>6, <1>7, <1>9, <1>11, <1>13, Zenon DEF Shape

\* A node g takes the place of y.
ReplaceRel(S, lab, st, ch, y, g, lab2, st2, ch2) ==
  /\ y \in S /\ g \in Nat /\ g # 0 /\ g \notin S
  /\ \A x \in S : x # y => lab2[x] = lab[x] /\ st2[x] = st[x]
  /\ lab2[g] = lab[y] /\ st2[g] = st[y]
  /\ \A b \in Byte : ch2[<<g, b>>] = ch[<<y, b>>]
  /\ \A x \in S : \A b \in Byte : x # y =>
       ch2[<<x, b>>] = IF ch[<<x, b>>] = y THEN g ELSE ch[<<x, b>>]

\* A node that is replaced by a copy with another id keeps the shape.
LEMMA ReplaceShape ==
  ASSUME NEW S, NEW lab, NEW st, NEW ch, NEW top, Shape(S, lab, st, ch, top),
         NEW y, NEW g, NEW lab2, NEW st2, NEW ch2,
         ReplaceRel(S, lab, st, ch, y, g, lab2, st2, ch2)
  PROVE  Shape((S \ {y}) \union {g}, lab2, st2, ch2, IF top = y THEN g ELSE top)
<1>. SUFFICES
       ASSUME y \in S, g \in Nat, g # 0, g \notin S,
              \A x \in S : x # y => lab2[x] = lab[x] /\ st2[x] = st[x],
              lab2[g] = lab[y], st2[g] = st[y],
              \A b \in Byte : ch2[<<g, b>>] = ch[<<y, b>>],
              \A x \in S : \A b \in Byte : x # y =>
                ch2[<<x, b>>] = IF ch[<<x, b>>] = y THEN g ELSE ch[<<x, b>>]
       PROVE  Shape((S \ {y}) \union {g}, lab2, st2, ch2, IF top = y THEN g ELSE top)
  BY Zenon DEF ReplaceRel
<1>. DEFINE T == (S \ {y}) \union {g}
            old == [x \in T |-> IF x = g THEN y ELSE x]
<1>1. /\ Labels(S, lab, st) /\ Top(S, st, top) /\ Branches(S, lab, st, ch)
      /\ Complete(S, lab, ch) /\ Apart(S, lab, st) /\ OneNode(S, lab)
  BY Zenon DEF Shape
<1>2. /\ y \in Nat /\ y # 0 /\ y # g
      /\ \A x \in S : /\ lab[x] \in Seq(Byte) /\ Len(lab[x]) \in Nat /\ st[x] \in Nat
                      /\ st[x] <= Len(lab[x]) /\ x \in Nat /\ x # 0
  BY <1>1 DEF Labels
<1>3. \A x \in T : old[x] \in S /\ lab2[x] = lab[old[x]] /\ st2[x] = st[old[x]]
  OBVIOUS
<1>4. \A x \in T : \A z \in T : old[x] = old[z] => x = z
  OBVIOUS
<1>5. \A x \in T : \A b \in Byte :
        ch2[<<x, b>>] = IF ch[<<old[x], b>>] = y THEN g ELSE ch[<<old[x], b>>]
  <2>1. SUFFICES ASSUME NEW x \in T, NEW b \in Byte
                 PROVE ch2[<<x, b>>] = IF ch[<<old[x], b>>] = y THEN g ELSE ch[<<old[x], b>>]
    OBVIOUS
  <2>2. CASE x = g
    <3>1. ch[<<y, b>>] # y
      <4>1. SUFFICES ASSUME ch[<<y, b>>] = y PROVE FALSE
        OBVIOUS
      <4>2. Branch(lab, st, y, b, y)
        BY <1>1, <1>2, <4>1 DEF Branches
      <4>. QED BY <4>2, <1>2 DEF Branch
    <3>. QED BY <2>2, <3>1
  <2>3. CASE x # g
    BY <2>3
  <2>. QED BY <2>2, <2>3
<1>6. /\ \A x \in S : x # y => x \in T /\ old[x] = x
      /\ g \in T /\ old[g] = y
  OBVIOUS
<1>7. Labels(T, lab2, st2)
  BY <1>2, <1>3 DEF Labels
<1>8. Top(T, st2, IF top = y THEN g ELSE top)
  BY <1>1, <1>2 DEF Top
<1>. HIDE DEF T, old
<1>9. Branches(T, lab2, st2, ch2)
  <2>1. SUFFICES ASSUME NEW x \in T, NEW b \in Byte, ch2[<<x, b>>] # 0
                 PROVE  ch2[<<x, b>>] \in T /\ Branch(lab2, st2, x, b, ch2[<<x, b>>])
    BY DEF Branches
  <2>2. old[x] \in S /\ ch[<<old[x], b>>] # 0
    BY <1>2, <1>3, <1>5, <2>1
  <2>3. ch[<<old[x], b>>] \in S /\ Branch(lab, st, old[x], b, ch[<<old[x], b>>])
    BY <1>1, <2>2 DEF Branches
  <2>4. ch2[<<x, b>>] \in T /\ old[ch2[<<x, b>>]] = ch[<<old[x], b>>]
    BY <1>5, <1>6, <2>3
  <2>. QED BY <1>3, <2>3, <2>4 DEF Branch
<1>10. Complete(T, lab2, ch2)
  <2>1. SUFFICES ASSUME NEW x \in T, NEW z \in T,
                        Len(lab2[x]) < Len(lab2[z]), Agree(lab2[x], lab2[z], Len(lab2[x]))
                 PROVE  ch2[<<x, lab2[z][Len(lab2[x]) + 1]>>] # 0
    BY DEF Complete
  <2>2. ch[<<old[x], lab[old[z]][Len(lab[old[x]]) + 1]>>] # 0
    BY <1>1, <1>3, <2>1 DEF Complete
  <2>3. lab[old[z]][Len(lab[old[x]]) + 1] \in Byte
    <3>1. old[x] \in S /\ old[z] \in S /\ Len(lab[old[x]]) < Len(lab[old[z]])
      BY <1>3, <2>1
    <3>2. PICK s \in Seq(Byte), k \in Nat : s = lab[old[z]] /\ k = Len(lab[old[x]]) /\ k < Len(s)
      BY <3>1, <1>2
    <3>3. k + 1 \in 1 .. Len(s)
      BY <3>2
    <3>4. s[k + 1] \in Byte
      BY <3>2, <3>3
    <3>. QED BY <3>2, <3>4
  <2>. QED BY <1>3, <1>5, <2>2, <2>3
<1>11. Apart(T, lab2, st2)
  BY <1>1, <1>3 DEF Apart
<1>12. OneNode(T, lab2)
  BY <1>1, <1>3, <1>4 DEF OneNode
<1>. QED BY <1>7, <1>8, <1>9, <1>10, <1>11, <1>12, Zenon DEF Shape, T

\* A chain of nodes cid[1] .. cid[m] that stands for the rest of a key is
\* hung below p, or is the tree when there was none (p = 0).  en: where the nodes
\* end; e: where the first one starts.
ChainRel(S, lab, st, ch, key, e, m, cid, en, p, S2, lab2, st2, ch2) ==
  /\ e \in Nat /\ m \in Nat /\ m >= 1
  /\ \A i \in 1 .. m : en[i] \in Nat /\ cid[i] \in Nat /\ cid[i] # 0 /\ cid[i] \notin S
  /\ en[m] = Len(key) /\ e <= en[1]
  /\ \A i \in 1 .. m : \A j \in 1 .. m : i < j => en[i] < en[j]
  /\ \/ p \in S /\ e = Len(lab[p]) + 1 /\ Agree(lab[p], key, e - 1) /\ ch[<<p, key[e]>>] = 0
     \/ p = 0 /\ S = {} /\ e = 0
  /\ \A x \in S : lab2[x] = lab[x] /\ st2[x] = st[x]
  /\ \A x \in S : \A b \in Byte :
       ch2[<<x, b>>] = IF x = p /\ b = key[e] THEN cid[1] ELSE ch[<<x, b>>]
  /\ \A i \in 1 .. m :
       /\ lab2[cid[i]] = SubSeq(key, 1, en[i])
       /\ st2[cid[i]] = IF i = 1 THEN e ELSE en[i - 1] + 1
       /\ \A b \in Byte : ch2[<<cid[i], b>>] =
            IF i < m /\ b = key[en[i] + 1] THEN cid[i + 1] ELSE 0
  /\ S2 = S \union {cid[i] : i \in 1 .. m}

\* A chain that is hung below a node keeps the shape.
LEMMA ChainShape ==
  ASSUME NEW S, NEW lab, NEW st, NEW ch, NEW top, Shape(S, lab, st, ch, top),
         NEW key \in Seq(Byte), NEW e, NEW m, NEW cid, NEW en, NEW p,
         NEW S3, NEW lab2, NEW st2, NEW ch2,
         ChainRel(S, lab, st, ch, key, e, m, cid, en, p, S3, lab2, st2, ch2)
  PROVE  Shape(S3, lab2, st2, ch2, IF S = {} THEN cid[1] ELSE top)
<1>. SUFFICES
       ASSUME e \in Nat, m \in Nat, m >= 1,
              \A i \in 1 .. m : en[i] \in Nat /\ cid[i] \in Nat /\ cid[i] # 0 /\ cid[i] \notin S,
              en[m] = Len(key), e <= en[1],
              \A i \in 1 .. m : \A j \in 1 .. m : i < j => en[i] < en[j],
              \/ p \in S /\ e = Len(lab[p]) + 1 /\ Agree(lab[p], key, e - 1) /\ ch[<<p, key[e]>>] = 0
              \/ p = 0 /\ S = {} /\ e = 0,
              \A x \in S : lab2[x] = lab[x] /\ st2[x] = st[x],
              \A x \in S : \A b \in Byte :
                ch2[<<x, b>>] = IF x = p /\ b = key[e] THEN cid[1] ELSE ch[<<x, b>>],
              \A i \in 1 .. m :
                /\ lab2[cid[i]] = SubSeq(key, 1, en[i])
                /\ st2[cid[i]] = IF i = 1 THEN e ELSE en[i - 1] + 1
                /\ \A b \in Byte : ch2[<<cid[i], b>>] =
                     IF i < m /\ b = key[en[i] + 1] THEN cid[i + 1] ELSE 0
       PROVE  Shape(S \union {cid[i] : i \in 1 .. m}, lab2, st2, ch2,
                    IF S = {} THEN cid[1] ELSE top)
  BY Zenon DEF ChainRel
<1>. DEFINE K == {cid[i] : i \in 1 .. m}
            S2 == S \union K
<1>1. /\ Labels(S, lab, st) /\ Top(S, st, top) /\ Branches(S, lab, st, ch)
      /\ Complete(S, lab, ch) /\ Apart(S, lab, st) /\ OneNode(S, lab)
  BY Zenon DEF Shape
<1>2. \A x \in S : /\ lab[x] \in Seq(Byte) /\ Len(lab[x]) \in Nat /\ st[x] \in Nat
                   /\ st[x] <= Len(lab[x]) /\ x \in Nat /\ x # 0
  BY <1>1 DEF Labels
<1>3. Len(key) \in Nat
  OBVIOUS
<1>4. ASSUME NEW i \in 1 .. m
      PROVE  /\ en[i] \in Nat /\ en[i] <= Len(key) /\ e <= en[i]
             /\ lab2[cid[i]] \in Seq(Byte) /\ Len(lab2[cid[i]]) = en[i]
             /\ Agree(lab2[cid[i]], key, en[i])
  <2>1. en[i] \in Nat /\ en[1] \in Nat /\ m \in 1 .. m /\ 1 \in 1 .. m
    OBVIOUS
  <2>2. en[i] <= Len(key)
    <3>1. i = m \/ i < m
      OBVIOUS
    <3>. QED BY <2>1, <3>1, <1>3
  <2>3. e <= en[i]
    <3>1. i = 1 \/ 1 < i
      OBVIOUS
    <3>. QED BY <2>1, <3>1
  <2>4. lab2[cid[i]] = SubSeq(key, 1, en[i])
    OBVIOUS
  <2>5. PICK k \in Nat : k = en[i] /\ k <= Len(key)
    BY <2>1, <2>2
  <2>6. /\ SubSeq(key, 1, k) \in Seq(Byte) /\ Len(SubSeq(key, 1, k)) = k
        /\ Agree(SubSeq(key, 1, k), key, k)
    BY <1>3, <2>5 DEF Agree
  <2>. QED BY <2>1, <2>2, <2>3, <2>4, <2>5, <2>6
<1>5. ASSUME NEW i \in 1 .. m
      PROVE  /\ st2[cid[i]] \in Nat /\ st2[cid[i]] <= en[i] /\ e <= st2[cid[i]]
             /\ i # 1 => i - 1 \in 1 .. m /\ st2[cid[i]] = en[i - 1] + 1
             /\ i = 1 => st2[cid[i]] = e
  <2>1. CASE i = 1
    BY <2>1, <1>4
  <2>2. CASE i # 1
    <3>1. i - 1 \in 1 .. m /\ i - 1 < i
      BY <2>2
    <3>2. en[i - 1] < en[i] /\ en[i - 1] \in Nat /\ e <= en[i - 1]
      BY <3>1, <1>4
    <3>. QED BY <2>2, <3>1, <3>2, <1>4, SMTT(40)
  <2>. QED BY <2>1, <2>2
<1>6. \A i \in 1 .. m : \A j \in 1 .. m : en[i] < en[j] => i < j
  <2>1. SUFFICES ASSUME NEW i \in 1 .. m, NEW j \in 1 .. m, en[i] < en[j], j <= i PROVE FALSE
    OBVIOUS
  <2>2. j < i \/ j = i
    BY <2>1
  <2>. QED BY <1>4, <2>1, <2>2
<1>7. p # 0 => /\ p \in S /\ e = Len(lab[p]) + 1 /\ Agree(lab[p], key, Len(lab[p]))
               /\ ch[<<p, key[e]>>] = 0 /\ key[e] \in Byte
  <2>1. SUFFICES ASSUME p # 0 PROVE /\ p \in S /\ e = Len(lab[p]) + 1 /\ Agree(lab[p], key, Len(lab[p]))
                                    /\ ch[<<p, key[e]>>] = 0 /\ key[e] \in Byte
    OBVIOUS
  <2>2. p \in S /\ e = Len(lab[p]) + 1 /\ Agree(lab[p], key, e - 1) /\ ch[<<p, key[e]>>] = 0
    BY <2>1
  <2>3. e - 1 = Len(lab[p])
    BY <1>2, <2>2
  <2>4. e \in 1 .. Len(key)
    BY <1>2, <1>3, <1>4, <2>2
  <2>. QED BY <2>2, <2>3, <2>4
<1>8. p = 0 => S = {} /\ e = 0
  BY <1>2
<1>9. ASSUME NEW y \in S, Len(lab[y]) >= e, Agree(lab[y], key, e) PROVE FALSE
  <2>1. p # 0
    BY <1>8
  <2>. PICK l \in Nat : l = Len(lab[p])
    BY <1>7, <1>2, <2>1
  <2>2. Agree(lab[y], key, l) /\ lab[y][l + 1] = key[l + 1] /\ l < Len(lab[y])
    <3>1. e = l + 1 /\ l < e /\ Len(lab[y]) \in Nat
      BY <1>2, <1>7, <2>1
    <3>2. Agree(lab[y], key, e) /\ Len(lab[y]) >= e
      BY <1>9
    <3>. QED BY <3>1, <3>2, AgreeFacts
  <2>3. Agree(lab[p], lab[y], l)
    BY <1>7, <2>1, <2>2, AgreeFacts
  <2>4. ch[<<p, lab[y][l + 1]>>] # 0
    BY <1>1, <1>7, <2>1, <2>2, <2>3 DEF Complete
  <2>. QED BY <1>7, <2>1, <2>2, <2>4
<1>10. ASSUME NEW x \in S, st[x] <= Len(key), Agree(lab[x], key, st[x])
       PROVE  Len(lab[x]) < e /\ Agree(lab[x], key, Len(lab[x]))
  <2>1. p # 0
    BY <1>8
  <2>2. CASE st[x] < e
    <3>1. st[x] <= Len(lab[p]) /\ Agree(lab[x], lab[p], st[x])
      BY <1>2, <1>7, <1>10, <2>1, <2>2, AgreeFacts
    <3>2. Within(lab[x], lab[p])
      BY <1>1, <1>7, <2>1, <3>1 DEF Apart
    <3>. QED BY <1>2, <1>7, <2>1, <3>2, AgreeFacts DEF Within
  <2>3. CASE e <= st[x]
    <3>1. Len(lab[x]) >= e /\ Agree(lab[x], key, e)
      BY <1>2, <1>10, <2>3, AgreeFacts
    <3>. QED BY <1>9, <3>1
  <2>. QED BY <1>2, <2>2, <2>3
<1>11. ASSUME NEW x \in S, Len(lab[x]) < e, Agree(lab[x], key, Len(lab[x]))
       PROVE  /\ key[Len(lab[x]) + 1] \in Byte
              /\ (x = p /\ Len(lab[x]) + 1 = e) \/ ch[<<x, key[Len(lab[x]) + 1]>>] # 0
  <2>1. p # 0
    BY <1>8
  <2>2. key[Len(lab[x]) + 1] \in Byte
    <3>1. Len(lab[x]) + 1 \in 1 .. Len(key)
      BY <1>2, <1>3, <1>4, <1>11, SMTT(40)
    <3>. QED BY <3>1
  <2>3. CASE Len(lab[x]) = Len(lab[p])
    <3>1. Agree(lab[x], lab[p], Len(lab[x]))
      BY <1>7, <1>11, <2>1, <2>3, AgreeFacts
    <3>2. lab[x] = lab[p]
      BY <1>2, <1>7, <2>1, <2>3, <3>1, SameString
    <3>3. x = p
      BY <1>1, <1>7, <2>1, <3>2 DEF OneNode
    <3>. QED BY <1>7, <2>1, <2>2, <3>3
  <2>4. CASE Len(lab[x]) # Len(lab[p])
    <3>1. Len(lab[x]) < Len(lab[p])
      BY <1>2, <1>7, <1>11, <2>1, <2>4
    <3>2. /\ Agree(lab[x], lab[p], Len(lab[x]))
          /\ lab[p][Len(lab[x]) + 1] = key[Len(lab[x]) + 1]
      <4>1. PICK l \in Nat, q \in Nat : l = Len(lab[x]) /\ q = Len(lab[p]) /\ l < q
        BY <1>2, <1>7, <2>1, <3>1
      <4>2. Agree(lab[x], key, l) /\ Agree(lab[p], key, q)
        BY <1>7, <1>11, <2>1, <4>1
      <4>3. Agree(lab[p], key, l) /\ lab[p][l + 1] = key[l + 1]
        BY <4>1, <4>2, AgreeFacts
      <4>4. Agree(lab[x], lab[p], l)
        BY <4>2, <4>3, AgreeFacts
      <4>. QED BY <4>1, <4>3, <4>4
    <3>3. ch[<<x, lab[p][Len(lab[x]) + 1]>>] # 0
      BY <1>1, <1>7, <2>1, <3>1, <3>2 DEF Complete
    <3>. QED BY <2>2, <3>2, <3>3
  <2>. QED BY <2>3, <2>4
<1>12. \A x \in K : \E i \in 1 .. m : x = cid[i]
  OBVIOUS
<1>13. \A i \in 1 .. m : cid[i] \in K /\ cid[i] \in Nat /\ cid[i] # 0
  OBVIOUS
<1>14. Labels(S2, lab2, st2)
  <2>1. ASSUME NEW x \in K PROVE /\ x \in Nat /\ x # 0 /\ lab2[x] \in Seq(Byte)
                                 /\ st2[x] \in Nat /\ st2[x] <= Len(lab2[x])
    <3>1. PICK i \in 1 .. m : x = cid[i]
      OBVIOUS
    <3>. QED BY <1>4, <1>5, <3>1
  <2>2. ASSUME NEW x \in S PROVE /\ x \in Nat /\ x # 0 /\ lab2[x] \in Seq(Byte)
                                 /\ st2[x] \in Nat /\ st2[x] <= Len(lab2[x])
    BY <1>2
  <2>. HIDE DEF K
  <2>. QED BY <2>1, <2>2 DEF Labels
<1>15. Top(S2, st2, IF S = {} THEN cid[1] ELSE top)
  <2>1. CASE S = {}
    <3>1. e = 0
      BY <1>7, <1>8, <2>1
    <3>2. 1 \in 1 .. m /\ cid[1] \in K /\ st2[cid[1]] = 0 /\ cid[1] # 0
      BY <1>5, <3>1
    <3>. HIDE DEF K
    <3>. QED BY <2>1, <3>2 DEF Top
  <2>2. CASE S # {}
    <3>1. top \in S /\ top # 0 /\ st2[top] = 0
      BY <1>1, <1>2, <2>2 DEF Top
    <3>. HIDE DEF K
    <3>. QED BY <2>2, <3>1 DEF Top
  <2>. QED BY <2>1, <2>2
<1>. HIDE DEF K
<1>16. Branches(S2, lab2, st2, ch2)
  <2>1. SUFFICES ASSUME NEW x \in S2, NEW b \in Byte, ch2[<<x, b>>] # 0
                 PROVE  ch2[<<x, b>>] \in S2 /\ Branch(lab2, st2, x, b, ch2[<<x, b>>])
    BY DEF Branches
  <2>2. CASE x \in K
    <3>1. PICK i \in 1 .. m : x = cid[i]
      BY <1>12, <2>2
    <3>2. i < m /\ b = key[en[i] + 1] /\ ch2[<<x, b>>] = cid[i + 1]
      BY <2>1, <3>1, SMTT(40)
    <3>3. PICK j \in 1 .. m : j = i + 1
      BY <3>2
    <3>4. /\ cid[j] \in K /\ st2[cid[j]] = en[i] + 1 /\ Len(lab2[x]) = en[i]
          /\ en[i] \in Nat /\ en[j] \in Nat /\ en[i] < en[j]
      BY <1>4, <1>5, <1>13, <3>1, <3>3, SMTT(40)
    <3>5. Agree(lab2[x], lab2[cid[j]], en[i]) /\ lab2[cid[j]][en[i] + 1] = key[en[i] + 1]
      <4>1. Agree(lab2[cid[j]], key, en[j]) /\ Agree(lab2[x], key, en[i])
        BY <1>4, <3>1
      <4>2. Agree(lab2[cid[j]], key, en[i]) /\ lab2[cid[j]][en[i] + 1] = key[en[i] + 1]
        <5>. DEFINE t == lab2[cid[j]]
        <5>1. Agree(t, key, en[j])
          BY <4>1
        <5>. HIDE DEF t
        <5>2. PICK k \in Nat, n \in Nat : k = en[i] /\ n = en[j] /\ k < n
          BY <3>4
        <5>3. Agree(t, key, k) /\ t[k + 1] = key[k + 1]
          BY <5>1, <5>2, AgreeFacts
        <5>4. Agree(t, key, en[i]) /\ t[en[i] + 1] = key[en[i] + 1]
          BY <5>2, <5>3
        <5>. QED BY <5>4 DEF t
      <4>. QED BY <4>1, <4>2, AgreeFacts
    <3>. QED BY <3>2, <3>3, <3>4, <3>5 DEF Branch
  <2>3. CASE x \in S /\ ~(x = p /\ b = key[e])
    <3>1. ch2[<<x, b>>] = ch[<<x, b>>]
      BY <2>3
    <3>2. ch[<<x, b>>] \in S /\ Branch(lab, st, x, b, ch[<<x, b>>])
      BY <1>1, <2>1, <2>3, <3>1 DEF Branches
    <3>3. PICK c \in S : c = ch[<<x, b>>] /\ lab2[c] = lab[c] /\ st2[c] = st[c] /\ lab2[x] = lab[x]
      <4>1. ch[<<x, b>>] \in S
        BY <3>2, Zenon
      <4>. QED BY <2>3, <4>1
    <3>4. Branch(lab2, st2, x, b, c)
      BY <3>2, <3>3 DEF Branch
    <3>. QED BY <3>1, <3>3, <3>4
  <2>4. CASE x \in S /\ x = p /\ b = key[e]
    <3>1. 1 \in 1 .. m /\ ch2[<<x, b>>] = cid[1] /\ cid[1] \in K
      BY <1>13, <2>4
    <3>2. st2[cid[1]] = e /\ e = Len(lab[x]) + 1 /\ Agree(lab[x], key, Len(lab[x]))
      BY <1>2, <1>5, <1>7, <2>4, <3>1
    <3>3. /\ Agree(lab2[cid[1]], key, en[1]) /\ Len(lab[x]) \in Nat /\ en[1] \in Nat
          /\ Len(lab[x]) < en[1]
      BY <1>2, <1>4, <2>4, <3>1, <3>2
    <3>4. /\ Agree(lab[x], lab2[cid[1]], Len(lab[x]))
          /\ lab2[cid[1]][Len(lab[x]) + 1] = key[Len(lab[x]) + 1]
      BY <3>2, <3>3, AgreeFacts, SMTT(40)
    <3>. QED BY <2>4, <3>1, <3>2, <3>4 DEF Branch
  <2>. QED BY <2>1, <2>2, <2>3, <2>4
<1>17. Complete(S2, lab2, ch2)
  <2>1. SUFFICES ASSUME NEW x \in S2, NEW z \in S2,
                        Len(lab2[x]) < Len(lab2[z]), Agree(lab2[x], lab2[z], Len(lab2[x]))
                 PROVE  ch2[<<x, lab2[z][Len(lab2[x]) + 1]>>] # 0
    BY DEF Complete
  <2>2. CASE x \in K /\ z \in K
    <3>1. PICK i \in 1 .. m, j \in 1 .. m : x = cid[i] /\ z = cid[j]
      BY <1>12, <2>2
    <3>2. en[i] < en[j] /\ Len(lab2[x]) = en[i] /\ en[i] \in Nat /\ en[j] \in Nat
      <4>1. Len(lab2[x]) = en[i] /\ en[i] \in Nat
        BY <1>4, <3>1
      <4>2. Len(lab2[z]) = en[j] /\ en[j] \in Nat
        BY <1>4, <3>1
      <4>. QED BY <2>1, <4>1, <4>2
    <3>3. i < m
      <4>1. i < j
        BY <1>6, <3>2, Zenon
      <4>. QED BY <4>1
    <3>. PICK a \in Nat, c \in Nat : a = en[i] /\ c = en[j] /\ a < c
      BY <3>2
    <3>4. lab2[z][en[i] + 1] = key[en[i] + 1]
      <4>1. Agree(lab2[z], key, c)
        BY <1>4, <3>1
      <4>2. lab2[z][a + 1] = key[a + 1]
        BY <4>1, AgreeFacts, SMTT(40)
      <4>. QED BY <4>2
    <3>5. en[i] + 1 \in 1 .. Len(key)
      <4>1. c <= Len(key)
        BY <1>4
      <4>. QED BY <1>3, <4>1, SMTT(40)
    <3>6. key[en[i] + 1] \in Byte
      BY <3>5
    <3>7. ch2[<<x, key[en[i] + 1]>>] = cid[i + 1]
      BY <3>1, <3>3, <3>6
    <3>8. i + 1 \in 1 .. m
      BY <3>3
    <3>9. cid[i + 1] # 0
      BY <3>8
    <3>. QED BY <3>2, <3>4, <3>7, <3>9
  <2>3. CASE x \in K /\ z \in S
    <3>1. PICK i \in 1 .. m : x = cid[i]
      BY <1>12, <2>3
    <3>2. Len(lab[z]) >= en[i] /\ Agree(lab2[x], lab[z], en[i])
      BY <1>2, <1>4, <2>1, <2>3, <3>1
    <3>3. Len(lab[z]) >= e /\ Agree(lab[z], key, e)
      BY <1>2, <1>4, <2>3, <3>1, <3>2, AgreeFacts
    <3>. QED BY <1>9, <2>3, <3>3
  <2>4. CASE x \in S /\ z \in K
    <3>1. PICK j \in 1 .. m : z = cid[j]
      BY <1>12, <2>4
    <3>. PICK l \in Nat : l = Len(lab[x])
      BY <1>2, <2>4
    <3>2. l < en[j] /\ en[j] \in Nat /\ Agree(lab[x], lab2[z], l) /\ lab2[x] = lab[x]
      BY <1>4, <2>1, <2>4, <3>1
    <3>3. Agree(lab[x], key, l) /\ lab2[z][l + 1] = key[l + 1]
      BY <1>4, <3>1, <3>2, AgreeFacts, SMTT(40)
    <3>4. st[x] <= Len(key) /\ Agree(lab[x], key, st[x])
      BY <1>2, <1>4, <1>3, <2>4, <3>1, <3>2, <3>3, AgreeFacts, SMTT(40)
    <3>5. l < e
      BY <1>10, <2>4, <3>4
    <3>6. key[l + 1] \in Byte /\ ((x = p /\ l + 1 = e) \/ ch[<<x, key[l + 1]>>] # 0)
      BY <1>11, <2>4, <3>3, <3>5
    <3>7. ch2[<<x, key[l + 1]>>] # 0
      BY <1>13, <2>4, <3>6, SMTT(40)
    <3>. QED BY <3>2, <3>3, <3>7
  <2>5. CASE x \in S /\ z \in S
    <3>. PICK l \in Nat : l = Len(lab[x])
      BY <1>2, <2>5
    <3>1. lab2[x] = lab[x] /\ lab2[z] = lab[z] /\ l < Len(lab[z])
      BY <2>1, <2>5
    <3>2. ch[<<x, lab[z][l + 1]>>] # 0
      BY <1>1, <2>1, <2>5, <3>1 DEF Complete
    <3>3. l + 1 \in 1 .. Len(lab[z])
      BY <1>2, <2>5, <3>1
    <3>4. lab[z][l + 1] \in Byte
      BY <1>2, <2>5, <3>3
    <3>5. ch2[<<x, lab[z][l + 1]>>] # 0
      BY <1>13, <2>5, <3>2, <3>4, ZenonT(40)
    <3>. QED BY <3>1, <3>5
  <2>. QED BY <2>2, <2>3, <2>4, <2>5
<1>18. Apart(S2, lab2, st2)
  <2>1. SUFFICES ASSUME NEW x \in S2, NEW z \in S2,
                        st2[x] <= Len(lab2[z]), Agree(lab2[x], lab2[z], st2[x])
                 PROVE  Within(lab2[x], lab2[z])
    BY DEF Apart
  <2>2. CASE x \in K /\ z \in K
    <3>1. PICK i \in 1 .. m, j \in 1 .. m : x = cid[i] /\ z = cid[j]
      BY <1>12, <2>2
    <3>2. st2[cid[i]] <= en[j] /\ en[i] \in Nat /\ en[j] \in Nat
      BY <1>4, <2>1, <3>1
    <3>3. en[i] <= en[j]
      <4>1. CASE i = 1
        <5>1. e <= en[j] /\ st2[cid[i]] = e
          BY <1>4, <1>5, <4>1
        <5>2. i <= j /\ (i = j \/ i < j)
          BY <4>1
        <5>. QED BY <3>2, <5>2
      <4>2. CASE i # 1
        <5>1. i - 1 \in 1 .. m /\ en[i - 1] < en[j]
          BY <1>4, <1>5, <3>2, <4>2, SMTT(40)
        <5>2. i - 1 < j
          BY <1>6, <5>1
        <5>3. i < j \/ i = j
          BY <5>2
        <5>. QED BY <3>2, <5>3
      <4>. QED BY <4>1, <4>2
    <3>4. Agree(lab2[x], lab2[z], en[i])
      BY <1>4, <3>1, <3>2, <3>3, AgreeFacts
    <3>. QED BY <1>4, <3>1, <3>3, <3>4 DEF Within
  <2>3. CASE x \in K /\ z \in S
    <3>1. PICK i \in 1 .. m : x = cid[i]
      BY <1>12, <2>3
    <3>2. st2[x] <= Len(lab[z]) /\ Agree(lab2[x], lab[z], st2[x]) /\ e <= st2[x] /\ st2[x] \in Nat
      BY <1>5, <2>1, <2>3, <3>1
    <3>3. Agree(lab2[x], key, e)
      BY <1>4, <3>1, AgreeFacts
    <3>4. Len(lab[z]) >= e /\ Agree(lab[z], key, e)
      BY <1>2, <2>3, <3>2, <3>3, AgreeFacts
    <3>. QED BY <1>9, <2>3, <3>4
  <2>4. CASE x \in S /\ z \in K
    <3>1. PICK j \in 1 .. m : z = cid[j]
      BY <1>12, <2>4
    <3>2. st[x] <= en[j] /\ en[j] \in Nat /\ Agree(lab[x], lab2[z], st[x])
      BY <1>4, <2>1, <2>4, <3>1
    <3>3. st[x] <= Len(key) /\ Agree(lab[x], key, st[x])
      BY <1>2, <1>3, <1>4, <2>4, <3>1, <3>2, AgreeFacts, SMTT(40)
    <3>4. Len(lab[x]) < e /\ Agree(lab[x], key, Len(lab[x]))
      BY <1>10, <2>4, <3>3
    <3>5. Len(lab[x]) <= en[j] /\ Agree(lab[x], lab2[z], Len(lab[x]))
      BY <1>2, <1>4, <2>4, <3>1, <3>4, AgreeFacts, SMTT(40)
    <3>. QED BY <1>4, <2>4, <3>1, <3>5 DEF Within
  <2>5. CASE x \in S /\ z \in S
    BY <1>1, <2>1, <2>5 DEF Apart
  <2>. QED BY <2>2, <2>3, <2>4, <2>5
<1>19. OneNode(S2, lab2)
  <2>1. SUFFICES ASSUME NEW x \in S2, NEW z \in S2, lab2[x] = lab2[z] PROVE x = z
    BY DEF OneNode
  <2>2. ASSUME NEW i \in 1 .. m, NEW y \in S PROVE lab2[cid[i]] # lab2[y]
    <3>1. SUFFICES ASSUME lab[y] = lab2[cid[i]] PROVE FALSE
      OBVIOUS
    <3>2. Len(lab[y]) = en[i] /\ Agree(lab[y], key, en[i]) /\ e <= en[i] /\ en[i] \in Nat
      BY <1>4, <3>1
    <3>3. Len(lab[y]) >= e /\ Agree(lab[y], key, e)
      BY <3>2, AgreeFacts
    <3>. QED BY <1>9, <3>3
  <2>3. ASSUME NEW i \in 1 .. m, NEW j \in 1 .. m, lab2[cid[i]] = lab2[cid[j]] PROVE i = j
    <3>1. en[i] = en[j]
      BY <1>4, <2>3
    <3>2. i < j \/ j < i \/ i = j
      OBVIOUS
    <3>. QED BY <1>4, <3>1, <3>2
  <2>4. CASE x \in S /\ z \in S
    BY <1>1, <2>1, <2>4 DEF OneNode
  <2>5. CASE x \in K /\ z \in K
    BY <1>12, <2>1, <2>3, <2>5
  <2>6. CASE x \in K /\ z \in S
    BY <1>12, <2>1, <2>2, <2>6
  <2>7. CASE x \in S /\ z \in K
    BY <1>12, <2>1, <2>2, <2>7
  <2>. QED BY <2>4, <2>5, <2>6, <2>7
<1>. QED BY <1>14, <1>15, <1>16, <1>17, <1>18, <1>19, Zenon DEF Shape, K

------------------------------------------------------------------------------
(* Children *)

\* Sequences of children: a byte and the id of a node.
KidSeq == Seq(Byte \X Nat)

\* No byte twice.
Distinct(kids) == \A i, j \in DOMAIN kids : kids[i][1] = kids[j][1] => i = j

\* The order an N16 keeps.
Sorted(kids) == \A i, j \in DOMAIN kids : i < j => kids[i][1] < kids[j][1]

\* The child of a byte, 0 if there is none.
KidOf(kids, b) == IF b \in Bytes(kids) THEN kids[Position(kids, b)][2] ELSE 0

\* A member of a sequence of numbers.
LEMMA NatAt == ASSUME NEW s \in Seq(Nat), NEW i \in 1 .. Len(s) PROVE s[i] \in Nat
OBVIOUS

\* Bytes are numbers.
LEMMA ByteFacts == Cap[4] \in Nat /\ Byte \subseteq Nat /\ \A b \in Byte : b \in Nat /\ b <= Cap[4]
<1>1. Cap \in Seq(Nat) /\ Len(Cap) = 4
  BY ArtAssumption, Zenon
<1>2. 4 \in 1 .. Len(Cap)
  BY <1>1
<1>3. Cap[4] \in Nat
  BY <1>1, <1>2, NatAt, Zenon
<1>. QED BY <1>3 DEF Byte

\* A child is a byte and an id.
LEMMA KidType ==
  ASSUME NEW kids \in KidSeq
  PROVE  /\ Len(kids) \in Nat /\ DOMAIN kids = 1 .. Len(kids)
         /\ \A i \in DOMAIN kids : /\ kids[i][1] \in Byte /\ kids[i][1] \in Nat /\ kids[i][2] \in Nat
                                   /\ kids[i] = <<kids[i][1], kids[i][2]>>
<1>1. \A i \in DOMAIN kids : kids[i] \in Byte \X Nat
  BY DEF KidSeq
<1>2. Len(kids) \in Nat /\ DOMAIN kids = 1 .. Len(kids)
  BY DEF KidSeq
<1>3. ASSUME NEW i \in DOMAIN kids
      PROVE  /\ kids[i][1] \in Byte /\ kids[i][2] \in Nat
             /\ kids[i] = <<kids[i][1], kids[i][2]>>
  <2>1. PICK b \in Byte, c \in Nat : kids[i] = <<b, c>>
    BY <1>1
  <2>. QED BY <2>1
<1>. QED BY <1>2, <1>3, ByteFacts

\* The child of a byte is found by its place.
LEMMA KidFacts ==
  ASSUME NEW kids \in KidSeq, Distinct(kids)
  PROVE  /\ \A i \in DOMAIN kids : KidOf(kids, kids[i][1]) = kids[i][2] /\ Position(kids, kids[i][1]) = i
         /\ \A b : (\A i \in DOMAIN kids : kids[i][1] # b) => KidOf(kids, b) = 0
<1>1. ASSUME NEW i \in DOMAIN kids PROVE Position(kids, kids[i][1]) = i /\ kids[i][1] \in Bytes(kids)
  BY DEF Position, Distinct, Bytes
<1>2. ASSUME NEW b, \A i \in DOMAIN kids : kids[i][1] # b PROVE KidOf(kids, b) = 0
  BY <1>2 DEF KidOf, Bytes
<1>3. ASSUME NEW i \in DOMAIN kids PROVE KidOf(kids, kids[i][1]) = kids[i][2]
  BY <1>1 DEF KidOf
<1>. QED BY <1>1, <1>2, <1>3

\* Binary search in sorted children finds the place of a byte if it is there.
LEMMA SearchFacts ==
  ASSUME NEW kids \in KidSeq, Sorted(kids), NEW b \in Byte
  PROVE  /\ BinarySearch(kids, b) \in 0 .. Len(kids)
         /\ BinarySearch(kids, b) # 0 => kids[BinarySearch(kids, b)][1] = b
         /\ BinarySearch(kids, b) = 0 => \A i \in DOMAIN kids : kids[i][1] # b
<1>. DEFINE n == Len(kids)
            D == (1 .. n + 1) \X (0 .. n)
            mid(x) == (x[1] + x[2]) \div 2
            B(f, x) == IF x[1] > x[2] THEN 0
                       ELSE IF kids[mid(x)][1] = b THEN mid(x)
                       ELSE IF kids[mid(x)][1] < b THEN f[<<mid(x) + 1, x[2]>>]
                       ELSE f[<<x[1], mid(x) - 1>>]
            stop == {x \in D : x[1] > x[2] \/ kids[mid(x)][1] = b}
            out == [x \in D |-> IF x[1] > x[2] THEN 0 ELSE mid(x)]
            nxt == [x \in D |-> IF kids[mid(x)][1] < b THEN <<mid(x) + 1, x[2]>>
                                ELSE <<x[1], mid(x) - 1>>]
            rank == [x \in D |-> IF x[1] > x[2] THEN 0 ELSE x[2] + 1 - x[1]]
            h == CHOOSE f : f = [x \in D |-> B(f, x)]
<1>1. n \in Nat /\ DOMAIN kids = 1 .. n /\ \A i \in 1 .. n : kids[i][1] \in Nat
  BY KidType
<1>2. b \in Nat
  BY ByteFacts
<1>. HIDE DEF n
<1>3. ASSUME NEW x \in D
      PROVE  x[1] \in 1 .. n + 1 /\ x[2] \in 0 .. n /\ x[1] \in Nat /\ x[2] \in Nat /\ x = <<x[1], x[2]>>
  BY <1>1
<1>4. ASSUME NEW x \in D, x[1] <= x[2]
      PROVE  mid(x) \in 1 .. n /\ x[1] <= mid(x) /\ mid(x) <= x[2]
  BY <1>1, <1>3, <1>4
<1>5. ASSUME NEW x \in D PROVE rank[x] \in 0 .. n
  BY <1>1, <1>3
<1>6. ASSUME NEW x \in D, x \notin stop
      PROVE  /\ x[1] <= x[2] /\ nxt[x] \in D /\ rank[nxt[x]] < rank[x]
             /\ kids[mid(x)][1] # b
             /\ \/ kids[mid(x)][1] < b /\ nxt[x] = <<mid(x) + 1, x[2]>>
                \/ ~(kids[mid(x)][1] < b) /\ nxt[x] = <<x[1], mid(x) - 1>>
  <2>1. x[1] <= x[2] /\ kids[mid(x)][1] # b
    BY <1>3, <1>6
  <2>2. mid(x) \in 1 .. n /\ x[1] <= mid(x) /\ mid(x) <= x[2]
    BY <1>4, <2>1
  <2>3. rank[x] = x[2] + 1 - x[1]
    BY <1>3, <2>1
  <2>4. CASE kids[mid(x)][1] < b
    <3>1. nxt[x] = <<mid(x) + 1, x[2]>>
      BY <2>4
    <3>2. <<mid(x) + 1, x[2]>> \in D
      BY <1>1, <1>3, <2>2
    <3>3. rank[<<mid(x) + 1, x[2]>>] < rank[x]
      <4>. HIDE DEF mid
      <4>. QED BY <1>1, <1>3, <2>1, <2>2, <2>3, <3>2
    <3>. QED BY <2>1, <2>4, <3>1, <3>2, <3>3
  <2>5. CASE ~(kids[mid(x)][1] < b)
    <3>1. nxt[x] = <<x[1], mid(x) - 1>>
      BY <2>5
    <3>2. <<x[1], mid(x) - 1>> \in D
      BY <1>1, <1>3, <2>2
    <3>3. rank[<<x[1], mid(x) - 1>>] < rank[x]
      <4>. HIDE DEF mid
      <4>. QED BY <1>1, <1>3, <2>1, <2>2, <2>3, <3>2
    <3>. QED BY <2>1, <2>5, <3>1, <3>2, <3>3
  <2>. QED BY <2>4, <2>5
<1>. HIDE DEF rank
<1>7. PICK g : \A x \in D : g[x] = IF x \in stop THEN out[x] ELSE g[nxt[x]]
  <2>1. \A x \in D : x \notin stop => nxt[x] \in D /\ rank[nxt[x]] < rank[x]
    BY <1>6
  <2>2. \A x \in D : rank[x] \in 0 .. n
    BY <1>5
  <2>3. n \in Nat
    BY <1>1
  <2>. HIDE DEF D, stop, out, nxt, B, mid, h
  <2>4. Descends(D, stop, nxt, rank, n)
    BY <2>1, <2>2, Zenon DEF Descends
  <2>5. Ends(D, stop, out, nxt)
    BY <2>3, <2>4, WalkEnds, Zenon
  <2>. QED BY <2>5, Zenon DEF Ends
<1>. DEFINE f == [x \in D |-> g[x]]
<1>8. ASSUME NEW x \in D PROVE g[x] = B(f, x)
  BY <1>3, <1>6, <1>7
<1>9. f = [x \in D |-> B(f, x)]
  <2>. HIDE DEF B, D, stop, out, nxt
  <2>. QED BY <1>8
<1>. HIDE DEF f
<1>10. h = [x \in D |-> B(h, x)]
  <2>. HIDE DEF B, D
  <2>. QED BY <1>9
<1>11. BinarySearch(kids, b) = h[<<1, n>>]
  BY Zenon DEF BinarySearch, n
<1>12. \A x \in D : h[x] = B(h, x)
  <2>. HIDE DEF B, D, h
  <2>. QED BY <1>10
<1>. HIDE DEF h
<1>. DEFINE Good(x) == /\ h[x] \in 0 .. n
                       /\ h[x] # 0 => kids[h[x]][1] = b
                       /\ h[x] = 0 => \A i \in 1 .. n : kids[i][1] # b
            Around(x) == \A i \in 1 .. n : kids[i][1] = b => x[1] <= i /\ i <= x[2]
            T == {rank[x] : x \in {x \in D : Around(x) /\ ~Good(x)}}
<1>13. T = {}
  <2>1. SUFFICES ASSUME T # {} PROVE FALSE
    OBVIOUS
  <2>2. T \subseteq Nat
    <3>. HIDE DEF D, Good, Around
    <3>. QED BY <1>1, <1>5
  <2>3. PICK m \in T : \A j \in T : m <= j
    <3>. HIDE DEF T
    <3>. QED BY <2>1, <2>2, Least
  <2>4. PICK x \in D : Around(x) /\ ~Good(x) /\ rank[x] = m
    OBVIOUS
  <2>5. ASSUME NEW y \in D, Around(y), rank[y] < m PROVE Good(y)
    <3>1. rank[y] \notin T
      <4>. HIDE DEF T
      <4>1. m \in Nat /\ rank[y] \in Nat
        BY <2>2, <1>1, <1>5
      <4>. QED BY <2>3, <2>5, <4>1
    <3>. HIDE DEF D, Good, Around
    <3>. QED BY <2>5, <3>1
  <2>6. CASE x \in stop
    <3>1. CASE x[1] > x[2]
      <4>1. h[x] = 0
        BY <1>12, <3>1
      <4>2. \A i \in 1 .. n : kids[i][1] # b
        BY <1>1, <1>3, <2>4, <3>1
      <4>. QED BY <1>1, <2>4, <4>1, <4>2
    <3>2. CASE ~(x[1] > x[2])
      <4>1. x[1] <= x[2] /\ kids[mid(x)][1] = b
        BY <1>3, <2>6, <3>2
      <4>2. h[x] = mid(x)
        BY <1>12, <3>2, <4>1
      <4>3. mid(x) \in 1 .. n
        BY <1>4, <4>1
      <4>. HIDE DEF mid
      <4>. QED BY <1>1, <2>4, <4>1, <4>2, <4>3
    <3>. QED BY <3>1, <3>2
  <2>7. CASE x \notin stop
    <3>1. nxt[x] \in D /\ rank[nxt[x]] < m /\ x[1] <= x[2] /\ kids[mid(x)][1] # b
      BY <1>6, <2>4, <2>7
    <3>2. h[x] = h[nxt[x]]
      BY <1>12, <1>6, <1>3, <2>7, <3>1
    <3>3. mid(x) \in 1 .. n /\ x[1] <= mid(x) /\ mid(x) <= x[2]
      BY <1>4, <3>1
    <3>4. Around(nxt[x])
      <4>1. SUFFICES ASSUME NEW i \in 1 .. n, kids[i][1] = b
                     PROVE  nxt[x][1] <= i /\ i <= nxt[x][2]
        OBVIOUS
      <4>2. x[1] <= i /\ i <= x[2]
        BY <2>4, <4>1
      <4>3. CASE kids[mid(x)][1] < b /\ nxt[x] = <<mid(x) + 1, x[2]>>
        <5>. HIDE DEF mid, nxt
        <5>1. ~(i < mid(x)) /\ i # mid(x)
          <6>1. PICK y \in 1 .. n : y = mid(x)
            BY <3>3
          <6>2. kids[y][1] < kids[i][1]
            BY <4>1, <4>3, <6>1
          <6>3. kids[y][1] \in Nat /\ kids[i][1] \in Nat
            BY <1>1, <4>1, <6>1
          <6>4. i < y => kids[i][1] < kids[y][1]
            BY <1>1, <4>1, <6>1 DEF Sorted
          <6>. QED BY <6>1, <6>2, <6>3, <6>4
        <5>. QED BY <1>1, <1>3, <3>3, <4>2, <4>3, <5>1
      <4>4. CASE ~(kids[mid(x)][1] < b) /\ nxt[x] = <<x[1], mid(x) - 1>>
        <5>. HIDE DEF mid, nxt
        <5>1. ~(mid(x) < i) /\ i # mid(x)
          BY <1>1, <1>2, <3>1, <3>3, <4>1, <4>4 DEF Sorted
        <5>. QED BY <1>1, <1>3, <3>3, <4>2, <4>4, <5>1
      <4>. QED BY <1>6, <2>7, <4>3, <4>4
    <3>5. Good(nxt[x])
      <4>. HIDE DEF Good, D, Around, nxt
      <4>. QED BY <2>5, <3>1, <3>4
    <3>. HIDE DEF nxt
    <3>. QED BY <2>4, <3>2, <3>5
  <2>. QED BY <2>6, <2>7
<1>14. <<1, n>> \in D /\ Around(<<1, n>>)
  BY <1>1
<1>15. Good(<<1, n>>)
  <2>. HIDE DEF Good, Around, D
  <2>. QED BY <1>13, <1>14
<1>16. n = Len(kids) /\ h[<<1, n>>] = BinarySearch(kids, b)
  BY <1>11 DEF n
<1>17. DOMAIN kids = 1 .. n
  BY <1>1
<1>18. /\ h[<<1, n>>] \in 0 .. n
       /\ h[<<1, n>>] # 0 => kids[h[<<1, n>>]][1] = b
       /\ h[<<1, n>>] = 0 => \A i \in 1 .. n : kids[i][1] # b
  BY <1>15, Zenon
<1>. HIDE DEF n
<1>. QED BY <1>16, <1>17, <1>18, Zenon

\* A member is put into a sequence.
LEMMA InsertMember ==
  ASSUME NEW T, NEW s \in Seq(T), NEW e \in T, NEW p \in 1 .. Len(s) + 1
  PROVE  /\ InsertAt(s, p, e) \in Seq(T) /\ Len(InsertAt(s, p, e)) = Len(s) + 1
         /\ \A j \in 1 .. Len(s) + 1 :
              InsertAt(s, p, e)[j] = IF j < p THEN s[j] ELSE IF j = p THEN e ELSE s[j - 1]
<1>. DEFINE a == SubSeq(s, 1, p - 1)
            c == SubSeq(s, p, Len(s))
            ae == a \o <<e>>
<1>1. Len(s) \in Nat /\ p \in Nat /\ 1 <= p /\ p <= Len(s) + 1
  OBVIOUS
<1>2. a \in Seq(T) /\ Len(a) = p - 1 /\ \A j \in 1 .. p - 1 : a[j] = s[j]
  BY <1>1
<1>3. c \in Seq(T) /\ Len(c) = Len(s) + 1 - p /\ \A j \in 1 .. Len(s) + 1 - p : c[j] = s[p + j - 1]
  <2>1. CASE p = Len(s) + 1
    BY <1>1, <2>1
  <2>2. CASE p <= Len(s)
    BY <1>1, <2>2
  <2>. QED BY <1>1, <2>1, <2>2
<1>. HIDE DEF a, c
<1>4. ae \in Seq(T) /\ Len(ae) = p /\ ae[p] = e /\ \A j \in 1 .. p - 1 : ae[j] = s[j]
  BY <1>1, <1>2
<1>. HIDE DEF ae
<1>5. /\ ae \o c \in Seq(T) /\ Len(ae \o c) = Len(s) + 1
      /\ \A j \in 1 .. Len(s) + 1 : (ae \o c)[j] = IF j <= p THEN ae[j] ELSE c[j - p]
  <2>1. Len(ae) + Len(c) = Len(s) + 1
    BY <1>1, <1>3, <1>4
  <2>. QED BY <1>3, <1>4, <2>1, ConcatProperties
<1>6. ASSUME NEW j \in 1 .. Len(s) + 1
      PROVE  (ae \o c)[j] = IF j < p THEN s[j] ELSE IF j = p THEN e ELSE s[j - 1]
  <2>1. CASE j <= p
    <3>1. (ae \o c)[j] = ae[j]
      BY <1>5, <2>1
    <3>. QED BY <1>1, <1>4, <2>1, <3>1
  <2>2. CASE p < j
    <3>1. (ae \o c)[j] = c[j - p]
      BY <1>1, <1>5, <2>2
    <3>2. j - p \in 1 .. Len(s) + 1 - p /\ p + (j - p) - 1 = j - 1
      BY <1>1, <2>2
    <3>3. c[j - p] = s[j - 1]
      BY <1>3, <3>2
    <3>4. ~(j < p) /\ j # p
      BY <1>1, <2>2
    <3>. QED BY <3>1, <3>3, <3>4
  <2>3. j <= p \/ p < j
    BY <1>1
  <2>. QED BY <2>1, <2>2, <2>3
<1>7. InsertAt(s, p, e) = ae \o c
  BY DEF InsertAt, ae, a, c
<1>. QED BY <1>5, <1>6, <1>7

\* A child with a new byte is put in; an N16 stays sorted.
LEMMA InsertKid ==
  ASSUME NEW kids \in KidSeq, Distinct(kids), NEW p \in 1 .. Len(kids) + 1,
         NEW b \in Byte, NEW c \in Nat, b \notin Bytes(kids)
  PROVE  /\ InsertAt(kids, p, <<b, c>>) \in KidSeq
         /\ Len(InsertAt(kids, p, <<b, c>>)) = Len(kids) + 1
         /\ \A j \in 1 .. Len(kids) + 1 :
              InsertAt(kids, p, <<b, c>>)[j] = IF j < p THEN kids[j]
                                               ELSE IF j = p THEN <<b, c>> ELSE kids[j - 1]
         /\ Distinct(InsertAt(kids, p, <<b, c>>))
         /\ \A b2 \in Byte : KidOf(InsertAt(kids, p, <<b, c>>), b2) = IF b2 = b THEN c ELSE KidOf(kids, b2)
<1>. DEFINE n == Len(kids)
            new == InsertAt(kids, p, <<b, c>>)
<1>1. n \in Nat /\ DOMAIN kids = 1 .. n /\ p \in Nat /\ 1 <= p /\ p <= n + 1
  BY KidType
<1>2. kids \in Seq(Byte \X Nat) /\ <<b, c>> \in Byte \X Nat
  BY DEF KidSeq
<1>a. /\ new \in Seq(Byte \X Nat) /\ Len(new) = n + 1
      /\ \A j \in 1 .. n + 1 :
           new[j] = IF j < p THEN kids[j] ELSE IF j = p THEN <<b, c>> ELSE kids[j - 1]
  <2>. DEFINE T == Byte \X Nat
              e == <<b, c>>
  <2>1. kids \in Seq(T) /\ e \in T /\ p \in 1 .. Len(kids) + 1
    BY <1>2
  <2>. HIDE DEF T, e
  <2>2. /\ InsertAt(kids, p, e) \in Seq(T) /\ Len(InsertAt(kids, p, e)) = Len(kids) + 1
        /\ \A j \in 1 .. Len(kids) + 1 :
             InsertAt(kids, p, e)[j] = IF j < p THEN kids[j] ELSE IF j = p THEN e ELSE kids[j - 1]
    BY <2>1, InsertMember
  <2>. QED BY <2>2 DEF T, e
<1>3. new \in Seq(Byte \X Nat) /\ Len(new) = n + 1
  BY <1>a, Zenon
<1>4. \A j \in 1 .. n + 1 :
        new[j] = IF j < p THEN kids[j] ELSE IF j = p THEN <<b, c>> ELSE kids[j - 1]
  BY <1>a, Zenon
<1>5. new \in KidSeq /\ DOMAIN new = 1 .. n + 1
  BY <1>1, <1>3 DEF KidSeq
<1>6. \A j \in 1 .. n : kids[j][1] # b
  BY <1>1 DEF Bytes
<1>. HIDE DEF new, n
<1>7. Distinct(new)
  <2>1. SUFFICES ASSUME NEW i \in 1 .. n + 1, NEW j \in 1 .. n + 1, new[i][1] = new[j][1], i < j PROVE FALSE
    BY <1>1, <1>5 DEF Distinct
  <2>2. \A k \in 1 .. n : \A l \in 1 .. n : k < l => kids[k][1] # kids[l][1]
    BY <1>1 DEF Distinct
  <2>3. CASE i < p /\ j < p
    BY <1>1, <1>4, <2>1, <2>2, <2>3
  <2>4. CASE i < p /\ j = p
    BY <1>1, <1>4, <1>6, <2>1, <2>4
  <2>5. CASE i < p /\ p < j
    <3>1. new[i] = kids[i] /\ new[j] = kids[j - 1]
      BY <1>1, <1>4, <2>5
    <3>2. i \in 1 .. n /\ j - 1 \in 1 .. n /\ i < j - 1
      BY <1>1, <2>5
    <3>. QED BY <2>1, <2>2, <3>1, <3>2
  <2>6. CASE i = p
    <3>1. new[i] = <<b, c>> /\ new[j] = kids[j - 1] /\ j - 1 \in 1 .. n
      BY <1>1, <1>4, <2>1, <2>6
    <3>. QED BY <1>6, <2>1, <3>1
  <2>7. CASE p < i
    <3>1. new[i] = kids[i - 1] /\ new[j] = kids[j - 1]
      BY <1>1, <1>4, <2>1, <2>7
    <3>2. i - 1 \in 1 .. n /\ j - 1 \in 1 .. n /\ i - 1 < j - 1
      BY <1>1, <2>1, <2>7
    <3>. QED BY <2>1, <2>2, <3>1, <3>2
  <2>8. (i < p /\ j < p) \/ (i < p /\ j = p) \/ (i < p /\ p < j) \/ i = p \/ p < i
    BY <1>1
  <2>. QED BY <2>3, <2>4, <2>5, <2>6, <2>7, <2>8
<1>8. ASSUME NEW b2 \in Byte PROVE KidOf(new, b2) = IF b2 = b THEN c ELSE KidOf(kids, b2)
  <2>1. CASE b2 = b
    <3>1. p \in DOMAIN new /\ new[p] = <<b, c>>
      BY <1>1, <1>4, <1>5
    <3>2. KidOf(new, new[p][1]) = new[p][2]
      BY <1>5, <1>7, <3>1, KidFacts, Zenon
    <3>. QED BY <2>1, <3>1, <3>2
  <2>2. CASE b2 # b /\ \E i \in 1 .. n : kids[i][1] = b2
    <3>1. PICK i \in 1 .. n : kids[i][1] = b2
      BY <2>2
    <3>2. PICK j \in 1 .. n + 1 : new[j] = kids[i]
      <4>1. CASE i < p
        BY <1>1, <1>4, <4>1
      <4>2. CASE i >= p
        <5>1. i + 1 \in 1 .. n + 1 /\ new[i + 1] = kids[i]
          BY <1>1, <1>4, <4>2
        <5>. QED BY <5>1
      <4>. QED BY <1>1, <4>1, <4>2
    <3>3. KidOf(new, new[j][1]) = new[j][2] /\ KidOf(kids, kids[i][1]) = kids[i][2]
      BY <1>1, <1>5, <1>7, KidFacts, Zenon
    <3>. QED BY <2>2, <3>1, <3>2, <3>3
  <2>3. CASE b2 # b /\ ~\E i \in 1 .. n : kids[i][1] = b2
    <3>1. \A j \in 1 .. n + 1 : new[j][1] # b2
      <4>1. SUFFICES ASSUME NEW j \in 1 .. n + 1 PROVE new[j][1] # b2
        OBVIOUS
      <4>2. j < p \/ j = p \/ (p < j /\ j - 1 \in 1 .. n)
        BY <1>1
      <4>. QED BY <1>1, <1>4, <2>3, <4>2
    <3>2. KidOf(new, b2) = 0 /\ KidOf(kids, b2) = 0
      BY <1>1, <1>5, <1>7, <2>3, <3>1, KidFacts, Zenon
    <3>. QED BY <2>3, <3>2
  <2>. QED BY <2>1, <2>2, <2>3
<1>. QED BY <1>3, <1>4, <1>5, <1>7, <1>8 DEF new, n

\* The children up to a byte.
UpTo(kids, b) == {i \in DOMAIN kids : kids[i][1] <= b}

\* The place art_add chooses in an N16 keeps it sorted.
LEMMA SortedPlace ==
  ASSUME NEW kids \in KidSeq, Distinct(kids), Sorted(kids), NEW b \in Byte, NEW c \in Nat,
         b \notin Bytes(kids),
         NEW p, p = 1 + Cardinality(UpTo(kids, b))
  PROVE  p \in 1 .. Len(kids) + 1 /\ Sorted(InsertAt(kids, p, <<b, c>>))
<1>. DEFINE n == Len(kids)
            A == UpTo(kids, b)
            new == InsertAt(kids, p, <<b, c>>)
<1>1. n \in Nat /\ DOMAIN kids = 1 .. n /\ \A i \in 1 .. n : kids[i][1] \in Nat
  BY KidType
<1>2. b \in Nat /\ \A i \in 1 .. n : kids[i][1] # b
  BY <1>1, ByteFacts DEF Bytes
<1>3. A \in SUBSET (1 .. n)
  BY <1>1 DEF UpTo
<1>. HIDE DEF n
<1>4. \A i \in 1 .. n : i \in A <=> kids[i][1] < b
  BY <1>1, <1>2 DEF UpTo
<1>5. \A i \in 1 .. n : \A j \in 1 .. n : i < j => kids[i][1] < kids[j][1]
  BY <1>1 DEF Sorted
<1>. HIDE DEF A
<1>6. ASSUME NEW i \in A, NEW j \in 1 .. i PROVE j \in A
  <2>1. i \in 1 .. n /\ j \in 1 .. n /\ (j < i \/ j = i)
    BY <1>1, <1>3
  <2>. QED BY <1>1, <1>2, <1>4, <1>5, <2>1
<1>7. Cardinality(A) \in 0 .. n /\ \A i \in 1 .. n : i \in A <=> i <= Cardinality(A)
  BY <1>1, <1>3, <1>6, CountPrefix
<1>8. p = 1 + Cardinality(A)
  BY DEF A
<1>9. p \in 1 .. n + 1 /\ \A i \in 1 .. n : IF i < p THEN kids[i][1] < b ELSE b < kids[i][1]
  <2>. PICK k \in 0 .. n : k = Cardinality(A)
    BY <1>7
  <2>1. p \in 1 .. n + 1 /\ \A i \in 1 .. n : i < p <=> i \in A
    <3>1. \A i \in 1 .. n : i \in A <=> i <= k
      BY <1>7
    <3>2. p = 1 + k
      BY <1>8
    <3>3. p \in 1 .. n + 1
      BY <1>1, <3>2
    <3>4. \A i \in 1 .. n : i < p <=> i <= k
      BY <1>1, <3>2
    <3>. QED BY <3>1, <3>3, <3>4
  <2>2. \A i \in 1 .. n : i \notin A => b < kids[i][1]
    BY <1>1, <1>2, <1>4
  <2>. QED BY <1>4, <2>1, <2>2
<1>10. /\ Len(new) = n + 1 /\ DOMAIN new = 1 .. n + 1
       /\ \A j \in 1 .. n + 1 :
            new[j] = IF j < p THEN kids[j] ELSE IF j = p THEN <<b, c>> ELSE kids[j - 1]
  <2>1. p \in 1 .. Len(kids) + 1
    BY <1>9 DEF n
  <2>. HIDE DEF new
  <2>2. new \in KidSeq /\ Len(new) = n + 1
    BY <2>1, InsertKid DEF new, n
  <2>3. DOMAIN new = 1 .. n + 1
    BY <2>2 DEF KidSeq
  <2>4. \A j \in 1 .. Len(kids) + 1 :
          InsertAt(kids, p, <<b, c>>)[j] = IF j < p THEN kids[j]
                                           ELSE IF j = p THEN <<b, c>> ELSE kids[j - 1]
    BY <2>1, InsertKid
  <2>. QED BY <2>2, <2>3, <2>4, Zenon DEF new, n
<1>. HIDE DEF new
<1>11. Sorted(new)
  <2>1. SUFFICES ASSUME NEW i \in 1 .. n + 1, NEW j \in 1 .. n + 1, i < j PROVE new[i][1] < new[j][1]
    BY <1>10 DEF Sorted
  <2>. PICK q \in 1 .. n + 1 : q = p
    BY <1>9
  <2>0. \A k \in 1 .. n + 1 :
          new[k] = IF k < q THEN kids[k] ELSE IF k = q THEN <<b, c>> ELSE kids[k - 1]
    BY <1>10
  <2>2. CASE i < q /\ j < q
    BY <1>1, <1>5, <1>10, <2>1, <2>2
  <2>3. CASE i < q /\ j = q
    BY <1>1, <1>9, <1>10, <2>1, <2>3
  <2>4. CASE i < q /\ q < j
    <3>1. new[i] = kids[i] /\ new[j] = kids[j - 1]
      BY <1>1, <1>10, <2>4
    <3>2. i \in 1 .. n /\ j - 1 \in 1 .. n /\ i < j - 1
      BY <1>1, <2>4
    <3>. QED BY <1>5, <3>1, <3>2
  <2>5. CASE i = q
    <3>0. ~(i < q) /\ ~(j < q) /\ j # q
      BY <2>1, <2>5
    <3>1. new[i] = <<b, c>>
      BY <2>0, <2>5, <3>0
    <3>2. new[j] = kids[j - 1]
      BY <2>0, <3>0
    <3>3. j - 1 \in 1 .. n /\ ~(j - 1 < q)
      BY <1>1, <2>1, <2>5
    <3>4. b < kids[j - 1][1]
      BY <1>9, <3>3
    <3>. QED BY <3>1, <3>2, <3>4
  <2>6. CASE q < i
    <3>1. new[i] = kids[i - 1] /\ new[j] = kids[j - 1]
      BY <1>1, <2>0, <2>1, <2>6
    <3>2. i - 1 \in 1 .. n /\ j - 1 \in 1 .. n /\ i - 1 < j - 1
      BY <1>1, <2>1, <2>6
    <3>. QED BY <1>5, <3>1, <3>2
  <2>7. (i < q /\ j < q) \/ (i < q /\ j = q) \/ (i < q /\ q < j) \/ i = q \/ q < i
    BY <1>1
  <2>. QED BY <2>2, <2>3, <2>4, <2>5, <2>6, <2>7
<1>. QED BY <1>9, <1>11 DEF n, new

\* Children chosen from others, each once.
LEMMA ChosenKids ==
  ASSUME NEW kids \in KidSeq, Distinct(kids), NEW new \in KidSeq,
         NEW from, \A j \in DOMAIN new : from[j] \in DOMAIN kids /\ new[j] = kids[from[j]],
         \A j, k \in DOMAIN new : from[j] = from[k] => j = k
  PROVE  /\ Distinct(new)
         /\ \A j \in DOMAIN new : KidOf(new, kids[from[j]][1]) = KidOf(kids, kids[from[j]][1])
         /\ \A b : (\A j \in DOMAIN new : kids[from[j]][1] # b) => KidOf(new, b) = 0
<1>1. Distinct(new)
  BY DEF Distinct
<1>2. ASSUME NEW j \in DOMAIN new
      PROVE  KidOf(new, kids[from[j]][1]) = KidOf(kids, kids[from[j]][1])
  <2>1. KidOf(new, new[j][1]) = new[j][2]
    BY <1>1, KidFacts
  <2>2. KidOf(kids, kids[from[j]][1]) = kids[from[j]][2]
    BY KidFacts
  <2>. QED BY <2>1, <2>2
<1>3. ASSUME NEW b, \A j \in DOMAIN new : kids[from[j]][1] # b PROVE KidOf(new, b) = 0
  <2>1. \A j \in DOMAIN new : new[j][1] # b
    BY <1>3
  <2>. QED BY <1>1, <2>1, KidFacts
<1>. QED BY <1>1, <1>2, <1>3

\* The place of a child is given up.
Without(kids, i, new) ==
  /\ new \in KidSeq /\ Len(new) = Len(kids) - 1 /\ Distinct(new)
  /\ kids[i][1] \notin Bytes(new)
  /\ \A j \in DOMAIN new : \E k \in DOMAIN kids : new[j] = kids[k]
  /\ \A b \in Byte : KidOf(new, b) = IF b = kids[i][1] THEN 0 ELSE KidOf(kids, b)

\* What is left when one is not chosen.
LEMMA WithoutKid ==
  ASSUME NEW kids \in KidSeq, Distinct(kids), NEW i \in DOMAIN kids, NEW new \in KidSeq,
         Len(new) = Len(kids) - 1,
         NEW from, \A j \in DOMAIN new : from[j] \in DOMAIN kids /\ new[j] = kids[from[j]] /\ from[j] # i,
         \A j, k \in DOMAIN new : from[j] = from[k] => j = k,
         \A k \in DOMAIN kids : k # i => \E j \in DOMAIN new : from[j] = k
  PROVE  Without(kids, i, new)
<1>1. /\ Distinct(new)
      /\ \A j \in DOMAIN new : KidOf(new, kids[from[j]][1]) = KidOf(kids, kids[from[j]][1])
      /\ \A b : (\A j \in DOMAIN new : kids[from[j]][1] # b) => KidOf(new, b) = 0
  BY ChosenKids
<1>2. \A j \in DOMAIN new : kids[from[j]][1] # kids[i][1]
  BY DEF Distinct
<1>3. kids[i][1] \notin Bytes(new)
  BY <1>2 DEF Bytes
<1>4. ASSUME NEW b \in Byte PROVE KidOf(new, b) = IF b = kids[i][1] THEN 0 ELSE KidOf(kids, b)
  <2>1. CASE b = kids[i][1]
    BY <1>1, <1>2, <2>1
  <2>2. CASE b # kids[i][1] /\ \E k \in DOMAIN kids : kids[k][1] = b
    <3>1. PICK k \in DOMAIN kids : kids[k][1] = b
      BY <2>2
    <3>2. PICK j \in DOMAIN new : from[j] = k
      BY <2>2, <3>1
    <3>. QED BY <1>1, <2>2, <3>1, <3>2
  <2>3. CASE b # kids[i][1] /\ \A k \in DOMAIN kids : kids[k][1] # b
    <3>1. KidOf(kids, b) = 0
      BY <2>3, KidFacts
    <3>2. KidOf(new, b) = 0
      BY <1>1, <2>3
    <3>. QED BY <2>3, <3>1, <3>2
  <2>. QED BY <2>1, <2>2, <2>3
<1>5. \A j \in DOMAIN new : \E k \in DOMAIN kids : new[j] = kids[k]
  OBVIOUS
<1>. QED BY <1>1, <1>3, <1>4, <1>5 DEF Without

\* The children behind a removed one move up.
LEMMA RemoveKid ==
  ASSUME NEW kids \in KidSeq, Distinct(kids), NEW i \in DOMAIN kids
  PROVE  Without(kids, i, RemoveAt(kids, i)) /\ (Sorted(kids) => Sorted(RemoveAt(kids, i)))
<1>. DEFINE n == Len(kids)
            T == Byte \X Nat
            a == SubSeq(kids, 1, i - 1)
            c == SubSeq(kids, i + 1, n)
            new == RemoveAt(kids, i)
            from == [j \in 1 .. n - 1 |-> IF j < i THEN j ELSE j + 1]
<1>1. n \in Nat /\ DOMAIN kids = 1 .. n /\ i \in Nat /\ 1 <= i /\ i <= n
  BY KidType
<1>2. kids \in Seq(T) /\ \A j \in 1 .. n : kids[j] \in T
  BY DEF KidSeq
<1>. HIDE DEF T, n
<1>3. a \in Seq(T) /\ Len(a) = i - 1 /\ \A j \in 1 .. i - 1 : a[j] = kids[j]
  <2>1. \A j \in 1 .. i - 1 : kids[j] \in T
    BY <1>1, <1>2
  <2>2. Len(a) = IF 1 <= i - 1 THEN i - 1 - 1 + 1 ELSE 0
    BY <1>1, <2>1, SubSeqProperties
  <2>3. a \in Seq(T) /\ \A j \in 1 .. i - 1 - 1 + 1 : a[j] = kids[1 + j - 1]
    BY <1>1, <2>1, SubSeqProperties
  <2>. QED BY <1>1, <2>2, <2>3
<1>4. c \in Seq(T) /\ Len(c) = n - i /\ \A j \in 1 .. n - i : c[j] = kids[i + j]
  <2>1. \A j \in i + 1 .. n : kids[j] \in T
    BY <1>1, <1>2
  <2>2. Len(c) = IF i + 1 <= n THEN n - (i + 1) + 1 ELSE 0
    BY <1>1, <2>1, SubSeqProperties
  <2>3. c \in Seq(T) /\ \A j \in 1 .. n - (i + 1) + 1 : c[j] = kids[i + 1 + j - 1]
    BY <1>1, <2>1, SubSeqProperties
  <2>4. n - (i + 1) + 1 = n - i /\ \A j \in 1 .. n - i : i + 1 + j - 1 = i + j
    BY <1>1
  <2>. QED BY <1>1, <2>2, <2>3, <2>4
<1>. HIDE DEF a, c
<1>5. Len(a) + Len(c) = n - 1
  BY <1>1, <1>3, <1>4
<1>6. /\ a \o c \in Seq(T) /\ Len(a \o c) = n - 1
      /\ \A j \in 1 .. n - 1 : (a \o c)[j] = IF j <= i - 1 THEN a[j] ELSE c[j - (i - 1)]
  <2>1. /\ a \o c \in Seq(T) /\ Len(a \o c) = Len(a) + Len(c)
        /\ \A j \in 1 .. Len(a) + Len(c) : (a \o c)[j] = IF j <= Len(a) THEN a[j] ELSE c[j - Len(a)]
    BY <1>3, <1>4, ConcatProperties, Zenon
  <2>2. Len(a) = i - 1
    BY <1>3, Zenon
  <2>. QED BY <1>5, <2>1, <2>2, Zenon
<1>7. new = a \o c
  BY DEF RemoveAt, a, c, n
<1>8. new \in KidSeq /\ DOMAIN new = 1 .. n - 1 /\ Len(new) = n - 1
  BY <1>6, <1>7 DEF KidSeq, T
<1>9. \A j \in 1 .. n - 1 : new[j] = kids[from[j]] /\ from[j] \in 1 .. n /\ from[j] # i
  <2>1. SUFFICES ASSUME NEW j \in 1 .. n - 1
                 PROVE new[j] = kids[from[j]] /\ from[j] \in 1 .. n /\ from[j] # i
    OBVIOUS
  <2>2. CASE j < i
    <3>1. j <= i - 1 /\ j \in 1 .. i - 1 /\ from[j] = j
      BY <1>1, <2>2
    <3>2. new[j] = kids[j]
      BY <1>3, <1>6, <1>7, <3>1
    <3>. QED BY <1>1, <2>2, <3>1, <3>2
  <2>3. CASE ~(j < i)
    <3>1. /\ ~(j <= i - 1) /\ j - (i - 1) \in 1 .. n - i /\ i + (j - (i - 1)) = j + 1
          /\ from[j] = j + 1
      BY <1>1, <2>3
    <3>2. new[j] = kids[j + 1]
      BY <1>4, <1>6, <1>7, <3>1
    <3>. QED BY <1>1, <2>3, <3>1, <3>2
  <2>. QED BY <2>2, <2>3
<1>10. \A j, k \in 1 .. n - 1 : (from[j] = from[k] => j = k) /\ (j < k => from[j] < from[k])
  BY <1>1
<1>11. \A k \in 1 .. n : k # i => \E j \in 1 .. n - 1 : from[j] = k
  <2>1. SUFFICES ASSUME NEW k \in 1 .. n, k # i PROVE \E j \in 1 .. n - 1 : from[j] = k
    OBVIOUS
  <2>2. CASE k < i
    BY <1>1, <2>2
  <2>3. CASE i < k
    <3>1. k - 1 \in 1 .. n - 1 /\ from[k - 1] = k
      BY <1>1, <2>3
    <3>. QED BY <3>1
  <2>. QED BY <1>1, <2>1, <2>2, <2>3
<1>. HIDE DEF from, new
<1>12. Without(kids, i, new)
  <2>1. Len(new) = Len(kids) - 1
    BY <1>8 DEF n
  <2>2. \A j \in DOMAIN new : from[j] \in DOMAIN kids /\ new[j] = kids[from[j]] /\ from[j] # i
    BY <1>1, <1>8, <1>9
  <2>3. \A j, k \in DOMAIN new : from[j] = from[k] => j = k
    BY <1>8, <1>10
  <2>4. \A k \in DOMAIN kids : k # i => \E j \in DOMAIN new : from[j] = k
    BY <1>1, <1>8, <1>11
  <2>5. new \in KidSeq
    BY <1>8
  <2>. QED BY <2>1, <2>2, <2>3, <2>4, <2>5, WithoutKid, Zenon
<1>13. ASSUME Sorted(kids) PROVE Sorted(new)
  BY <1>1, <1>8, <1>9, <1>10, <1>13 DEF Sorted
<1>. QED BY <1>12, <1>13 DEF new

\* The last child fills the gap.
LEMMA SwapKid ==
  ASSUME NEW kids \in KidSeq, Distinct(kids), NEW i \in DOMAIN kids
  PROVE  Without(kids, i, Front([kids EXCEPT ![i] = Last(kids)]))
<1>. DEFINE n == Len(kids)
            T == Byte \X Nat
            s == [kids EXCEPT ![i] = Last(kids)]
            new == Front(s)
            from == [j \in 1 .. n - 1 |-> IF j = i THEN n ELSE j]
<1>1. n \in Nat /\ DOMAIN kids = 1 .. n /\ i \in Nat /\ 1 <= i /\ i <= n
  BY KidType
<1>2. kids \in Seq(T) /\ \A j \in 1 .. n : kids[j] \in T
  BY DEF KidSeq
<1>3. Last(kids) = kids[n] /\ n \in 1 .. n
  BY <1>1 DEF Last
<1>. HIDE DEF T
<1>4. s \in Seq(T) /\ Len(s) = n /\ \A j \in 1 .. n : s[j] = IF j = i THEN kids[n] ELSE kids[j]
  <2>1. kids[n] \in T /\ i \in 1 .. Len(kids)
    BY <1>1, <1>2, <1>3
  <2>. QED BY <1>2, <1>3, <2>1, ExceptSeq
<1>. HIDE DEF s, n
<1>5. new = SubSeq(s, 1, n - 1)
  BY <1>4 DEF Front
<1>6. \A j \in 1 .. n - 1 : s[j] \in T
  BY <1>1, <1>4
<1>7. /\ new \in Seq(T) /\ Len(new) = IF 1 <= n - 1 THEN n - 1 - 1 + 1 ELSE 0
      /\ \A j \in 1 .. n - 1 - 1 + 1 : new[j] = s[1 + j - 1]
  BY <1>1, <1>5, <1>6, SubSeqProperties
<1>8. new \in KidSeq /\ Len(new) = n - 1 /\ DOMAIN new = 1 .. n - 1
  BY <1>1, <1>7 DEF KidSeq, T
<1>9. \A j \in 1 .. n - 1 : new[j] = kids[from[j]] /\ from[j] \in 1 .. n /\ from[j] # i
  <2>1. SUFFICES ASSUME NEW j \in 1 .. n - 1
                 PROVE new[j] = kids[from[j]] /\ from[j] \in 1 .. n /\ from[j] # i
    OBVIOUS
  <2>2. new[j] = s[j] /\ j \in 1 .. n
    BY <1>1, <1>7
  <2>. QED BY <1>1, <1>4, <2>2
<1>10. \A j, k \in 1 .. n - 1 : from[j] = from[k] => j = k
  BY <1>1
<1>11. \A k \in 1 .. n : k # i => \E j \in 1 .. n - 1 : from[j] = k
  <2>1. SUFFICES ASSUME NEW k \in 1 .. n, k # i PROVE \E j \in 1 .. n - 1 : from[j] = k
    OBVIOUS
  <2>2. CASE k < n
    <3>1. k \in 1 .. n - 1 /\ from[k] = k
      BY <1>1, <2>1, <2>2
    <3>. QED BY <3>1
  <2>3. CASE k = n
    <3>1. i \in 1 .. n - 1 /\ from[i] = k
      BY <1>1, <2>1, <2>3
    <3>. QED BY <3>1
  <2>. QED BY <1>1, <2>2, <2>3
<1>. HIDE DEF from, new
<1>12. Without(kids, i, new)
  <2>1. Len(new) = Len(kids) - 1
    BY <1>8 DEF n
  <2>2. \A j \in DOMAIN new : from[j] \in DOMAIN kids /\ new[j] = kids[from[j]] /\ from[j] # i
    BY <1>1, <1>8, <1>9
  <2>3. \A j, k \in DOMAIN new : from[j] = from[k] => j = k
    BY <1>8, <1>10
  <2>4. \A k \in DOMAIN kids : k # i => \E j \in DOMAIN new : from[j] = k
    BY <1>1, <1>8, <1>11
  <2>5. new \in KidSeq
    BY <1>8
  <2>. QED BY <2>1, <2>2, <2>3, <2>4, <2>5, WithoutKid, Zenon
<1>. QED BY <1>12 DEF new, s

\* There are as many bytes as children.
LEMMA BytesCount ==
  ASSUME NEW kids \in KidSeq, Distinct(kids)
  PROVE  /\ IsFiniteSet(Bytes(kids)) /\ Cardinality(Bytes(kids)) = Len(kids)
         /\ Bytes(kids) \subseteq Byte
<1>. DEFINE n == Len(kids)
            f == [i \in 1 .. n |-> kids[i][1]]
<1>1. n \in Nat /\ DOMAIN kids = 1 .. n /\ \A i \in 1 .. n : kids[i][1] \in Byte
  BY KidType
<1>2. f \in Bijection(1 .. n, Bytes(kids))
  <2>1. f \in [1 .. n -> Bytes(kids)]
    BY <1>1 DEF Bytes
  <2>2. \A i, j \in 1 .. n : f[i] = f[j] => i = j
    BY <1>1 DEF Distinct
  <2>3. \A b \in Bytes(kids) : \E i \in 1 .. n : f[i] = b
    BY <1>1 DEF Bytes
  <2>. HIDE DEF f
  <2>. QED BY <2>1, <2>2, <2>3, Fun_IsBij
<1>3. ExistsBijection(1 .. n, Bytes(kids))
  BY <1>2 DEF ExistsBijection
<1>4. IsFiniteSet(1 .. n) /\ Cardinality(1 .. n) = n
  BY <1>1, FS_Interval
<1>5. Bytes(kids) \subseteq Byte
  BY <1>1 DEF Bytes
<1>. QED BY <1>3, <1>4, <1>5, FS_Bijection

\* A node has no more children than there are bytes, and fewer when one is missing.
LEMMA Room ==
  ASSUME NEW kids \in KidSeq, Distinct(kids), NEW b \in Byte, b \notin Bytes(kids)
  PROVE  Len(kids) < Cap[4]
<1>1. IsFiniteSet(Byte) /\ Cardinality(Byte) = Cap[4] /\ Cap[4] \in Nat
  <2>. PICK m \in Nat : m = Cap[4]
    BY ByteFacts
  <2>1. 1 \in Int /\ m \in Int
    OBVIOUS
  <2>2. IsFiniteSet(1 .. m) /\ Cardinality(1 .. m) = IF 1 > m THEN 0 ELSE m - 1 + 1
    BY <2>1, FS_Interval
  <2>3. Cardinality(1 .. m) = m
    BY <2>2
  <2>. QED BY <2>2, <2>3 DEF Byte
<1>2. /\ IsFiniteSet(Bytes(kids)) /\ Cardinality(Bytes(kids)) = Len(kids)
      /\ Bytes(kids) \subseteq Byte
  BY BytesCount
<1>3. Cardinality(Bytes(kids)) <= Cardinality(Byte) /\ Cardinality(Bytes(kids)) # Cardinality(Byte)
  BY <1>1, <1>2, FS_Subset
<1>. QED BY <1>1, <1>2, <1>3, KidType

\* Children in the order of their bytes are the same children.
LEMMA ByByteFacts ==
  ASSUME NEW kids \in KidSeq, Distinct(kids)
  PROVE  /\ ByByte(kids) \in KidSeq /\ Len(ByByte(kids)) = Len(kids)
         /\ Distinct(ByByte(kids)) /\ Sorted(ByByte(kids))
         /\ \A j \in DOMAIN ByByte(kids) : \E i \in DOMAIN kids : ByByte(kids)[j] = kids[i]
         /\ \A b \in Byte : KidOf(ByByte(kids), b) = KidOf(kids, b)
<1>. DEFINE n == Len(kids)
            Less(c) == {b \in Bytes(kids) : b < c}
            rank == [i \in 1 .. n |-> Cardinality(Less(kids[i][1]))]
            new == ByByte(kids)
<1>1. /\ n \in Nat /\ DOMAIN kids = 1 .. n
      /\ \A i \in 1 .. n : kids[i][1] \in Byte /\ kids[i][1] \in Nat /\ kids[i] \in Byte \X Nat
  BY KidType DEF KidSeq
<1>2. IsFiniteSet(Bytes(kids)) /\ Cardinality(Bytes(kids)) = n /\ \A b \in Bytes(kids) : b \in Nat
  BY BytesCount, ByteFacts
<1>3. \A i \in 1 .. n : kids[i][1] \in Bytes(kids)
  BY <1>1 DEF Bytes
<1>. HIDE DEF n
<1>4. \A c : IsFiniteSet(Less(c)) /\ Cardinality(Less(c)) \in Nat
  <2>1. \A c : Less(c) \in SUBSET Bytes(kids)
    OBVIOUS
  <2>. HIDE DEF Less
  <2>. QED BY <1>2, <2>1, FS_Subset, FS_CardinalityType
<1>5. ASSUME NEW i \in 1 .. n PROVE rank[i] \in 0 .. n - 1
  <2>1. Less(kids[i][1]) \in SUBSET Bytes(kids) /\ kids[i][1] \in Bytes(kids) \ Less(kids[i][1])
    BY <1>1, <1>3
  <2>2. rank[i] = Cardinality(Less(kids[i][1]))
    OBVIOUS
  <2>. HIDE DEF Less, rank
  <2>3. Cardinality(Less(kids[i][1])) <= n /\ Cardinality(Less(kids[i][1])) # n
    BY <1>2, <2>1, FS_Subset
  <2>4. Cardinality(Less(kids[i][1])) \in Nat
    BY <1>4
  <2>. QED BY <1>1, <2>2, <2>3, <2>4
<1>6. ASSUME NEW i \in 1 .. n, NEW j \in 1 .. n, kids[i][1] < kids[j][1] PROVE rank[i] < rank[j]
  <2>1. Less(kids[i][1]) \in SUBSET Less(kids[j][1])
    <3>1. \A b \in Bytes(kids) : b < kids[i][1] => b < kids[j][1]
      BY <1>1, <1>2, <1>6
    <3>. QED BY <3>1
  <2>2. kids[i][1] \in Less(kids[j][1]) /\ kids[i][1] \notin Less(kids[i][1])
    BY <1>1, <1>3, <1>6
  <2>3. rank[i] = Cardinality(Less(kids[i][1])) /\ rank[j] = Cardinality(Less(kids[j][1]))
    OBVIOUS
  <2>. HIDE DEF Less, rank
  <2>4. Less(kids[i][1]) # Less(kids[j][1])
    BY <2>2
  <2>5. /\ Cardinality(Less(kids[i][1])) <= Cardinality(Less(kids[j][1]))
        /\ Cardinality(Less(kids[i][1])) # Cardinality(Less(kids[j][1]))
    BY <1>4, <2>1, <2>4, FS_Subset
  <2>6. Cardinality(Less(kids[i][1])) \in Nat /\ Cardinality(Less(kids[j][1])) \in Nat
    BY <1>4
  <2>. QED BY <2>3, <2>5, <2>6
<1>7. \A i, j \in 1 .. n : rank[i] = rank[j] => i = j
  <2>1. SUFFICES ASSUME NEW i \in 1 .. n, NEW j \in 1 .. n, rank[i] = rank[j], i # j PROVE FALSE
    OBVIOUS
  <2>. HIDE DEF rank
  <2>2. kids[i][1] # kids[j][1]
    BY <1>1, <2>1 DEF Distinct
  <2>3. kids[i][1] < kids[j][1] \/ kids[j][1] < kids[i][1]
    BY <1>1, <2>2
  <2>4. rank[i] \in Nat /\ rank[j] \in Nat
    BY <1>1, <1>5
  <2>. QED BY <1>6, <2>1, <2>3, <2>4
<1>8. \A k \in 0 .. n - 1 : \E i \in 1 .. n : rank[i] = k
  <2>1. rank \in [1 .. n -> 0 .. n - 1]
    <3>1. rank = [i \in 1 .. n |-> rank[i]]
      OBVIOUS
    <3>. HIDE DEF rank
    <3>. QED BY <1>5, <3>1
  <2>. HIDE DEF rank
  <2>2. rank \in Injection(1 .. n, 0 .. n - 1)
    BY <1>7, <2>1, Fun_IsInj
  <2>3. IsFiniteSet(0 .. n - 1) /\ Cardinality(0 .. n - 1) = n /\ Cardinality(1 .. n) = n
    <3>1. n - 1 \in Int /\ 0 \in Int /\ 1 \in Int /\ n \in Int
      BY <1>1
    <3>2. /\ IsFiniteSet(0 .. n - 1)
          /\ Cardinality(0 .. n - 1) = IF 0 > n - 1 THEN 0 ELSE n - 1 - 0 + 1
          /\ Cardinality(1 .. n) = IF 1 > n THEN 0 ELSE n - 1 + 1
      BY <3>1, FS_Interval
    <3>. QED BY <1>1, <3>2
  <2>4. rank \in Surjection(1 .. n, 0 .. n - 1)
    BY <2>2, <2>3, FS_Injection
  <2>. QED BY <2>4 DEF Surjection
<1>. DEFINE from == [j \in 1 .. n |-> CHOOSE i \in 1 .. n : rank[i] = j - 1]
<1>9. \A j \in 1 .. n : from[j] \in 1 .. n /\ rank[from[j]] = j - 1
  <2>1. \A j \in 1 .. n : j - 1 \in 0 .. n - 1
    BY <1>1
  <2>. HIDE DEF rank
  <2>. QED BY <1>8, <2>1
<1>10. ASSUME NEW j \in 1 .. n PROVE new[j] = kids[from[j]]
  <2>. DEFINE P(kid) == Cardinality({b \in Bytes(kids) : b < kid[1]}) = j - 1
  <2>1. new[j] = CHOOSE kid \in ToSet(kids) : P(kid)
    BY <1>1 DEF ByByte
  <2>2. kids[from[j]] \in ToSet(kids) /\ P(kids[from[j]])
    BY <1>1, <1>9 DEF ToSet
  <2>3. \A kid \in ToSet(kids) : P(kid) => kid = kids[from[j]]
    <3>1. SUFFICES ASSUME NEW i \in 1 .. n, P(kids[i]) PROVE kids[i] = kids[from[j]]
      BY <1>1 DEF ToSet
    <3>2. rank[i] = j - 1
      BY <3>1
    <3>. HIDE DEF rank
    <3>. QED BY <1>7, <1>9, <3>2
  <2>. HIDE DEF P
  <2>. QED BY <2>1, <2>2, <2>3
<1>11. new = [j \in 1 .. n |-> kids[from[j]]]
  <2>. DEFINE pick(j) == CHOOSE kid \in ToSet(kids) :
                           Cardinality({b \in Bytes(kids) : b < kid[1]}) = j - 1
  <2>1. new = [j \in 1 .. n |-> pick(j)]
    BY <1>1 DEF ByByte
  <2>2. \A j \in 1 .. n : pick(j) = kids[from[j]]
    <3>. HIDE DEF pick, from
    <3>. QED BY <1>10, <2>1
  <2>. HIDE DEF pick, from, new
  <2>. QED BY <2>1, <2>2
<1>11a. DOMAIN new = 1 .. n
  <2>. HIDE DEF from, new
  <2>. QED BY <1>11
<1>. HIDE DEF from, rank, new, Less
<1>12. new \in KidSeq /\ Len(new) = n
  <2>1. \A j \in 1 .. n : kids[from[j]] \in Byte \X Nat
    BY <1>1, <1>9
  <2>. QED BY <1>1, <1>11, <2>1 DEF KidSeq
<1>13. \A j, k \in 1 .. n : from[j] = from[k] => j = k
  <2>1. \A j, k \in 1 .. n : j - 1 = k - 1 => j = k
    OBVIOUS
  <2>. QED BY <1>9, <2>1
<1>14. /\ Distinct(new)
       /\ \A j \in DOMAIN new : KidOf(new, kids[from[j]][1]) = KidOf(kids, kids[from[j]][1])
       /\ \A b : (\A j \in DOMAIN new : kids[from[j]][1] # b) => KidOf(new, b) = 0
  <2>1. \A j \in DOMAIN new : from[j] \in DOMAIN kids /\ new[j] = kids[from[j]]
    BY <1>1, <1>9, <1>10, <1>11a
  <2>2. \A j, k \in DOMAIN new : from[j] = from[k] => j = k
    BY <1>11a, <1>13
  <2>3. new \in KidSeq
    BY <1>12
  <2>. QED BY <2>1, <2>2, <2>3, ChosenKids
<1>15. \A i \in 1 .. n : \E j \in 1 .. n : from[j] = i
  <2>1. SUFFICES ASSUME NEW i \in 1 .. n PROVE \E j \in 1 .. n : from[j] = i
    OBVIOUS
  <2>2. PICK j \in 1 .. n : j = rank[i] + 1
    BY <1>1, <1>5, SMTT(40)
  <2>3. rank[from[j]] = rank[i]
    <3>1. rank[i] \in Int
      BY <1>5
    <3>. QED BY <1>9, <2>2, <3>1
  <2>. QED BY <1>7, <1>9, <2>3
<1>16. ASSUME NEW b \in Byte PROVE KidOf(new, b) = KidOf(kids, b)
  <2>1. CASE \E i \in 1 .. n : kids[i][1] = b
    <3>1. PICK i \in 1 .. n : kids[i][1] = b
      BY <2>1
    <3>2. PICK j \in 1 .. n : from[j] = i
      BY <1>15
    <3>. QED BY <1>11a, <1>14, <3>1, <3>2
  <2>2. CASE \A i \in 1 .. n : kids[i][1] # b
    <3>1. KidOf(kids, b) = 0
      BY <1>1, <2>2, KidFacts
    <3>2. KidOf(new, b) = 0
      BY <1>9, <1>11a, <1>14, <2>2
    <3>. QED BY <3>1, <3>2
  <2>. QED BY <2>1, <2>2
<1>17. Sorted(new)
  <2>1. SUFFICES ASSUME NEW j \in 1 .. n, NEW k \in 1 .. n, j < k PROVE new[j][1] < new[k][1]
    BY <1>11a DEF Sorted
  <2>2. new[j] = kids[from[j]] /\ new[k] = kids[from[k]] /\ from[j] \in 1 .. n /\ from[k] \in 1 .. n
    BY <1>9, <1>10
  <2>3. rank[from[j]] < rank[from[k]]
    BY <1>9, <2>1
  <2>4. kids[from[j]][1] < kids[from[k]][1] \/ kids[from[k]][1] < kids[from[j]][1]
        \/ kids[from[j]][1] = kids[from[k]][1]
    <3>1. PICK a \in Nat, c \in Nat : a = kids[from[j]][1] /\ c = kids[from[k]][1]
      BY <1>1, <2>2
    <3>. QED BY <3>1
  <2>5. CASE kids[from[k]][1] < kids[from[j]][1]
    <3>1. rank[from[k]] < rank[from[j]]
      BY <1>6, <2>2, <2>5
    <3>. QED BY <1>5, <2>2, <2>3, <3>1
  <2>6. CASE kids[from[j]][1] = kids[from[k]][1]
    <3>1. from[j] = from[k]
      BY <1>1, <2>2, <2>6 DEF Distinct
    <3>. QED BY <1>5, <2>2, <2>3, <3>1
  <2>. QED BY <2>2, <2>4, <2>5, <2>6
<1>18. \A j \in DOMAIN new : \E i \in DOMAIN kids : new[j] = kids[i]
  BY <1>1, <1>9, <1>10, <1>11a
<1>19. n = Len(kids) /\ new = ByByte(kids)
  BY DEF n, new
<1>. QED BY <1>12, <1>14, <1>16, <1>17, <1>18, <1>19

------------------------------------------------------------------------------
(* Nodes *)

Node == [kind : 1 .. 5, prefix : Seq(Byte), kids : KidSeq, val : Values \union {None}, fwd : Nat]

\* A node of a store with L nodes.
NodeOK(n, L) ==
  /\ n \in Node
  /\ Distinct(n.kids) /\ (n.kind = N16 => Sorted(n.kids))
  /\ n.kind # MOVED => Len(n.kids) <= Cap[n.kind]
  /\ \A i \in DOMAIN n.kids : n.kids[i][2] \in 1 .. L
  /\ n.fwd \in 0 .. L

NodesOK(ns) == ns \in Seq(Node) /\ \A x \in 1 .. Len(ns) : NodeOK(ns[x], Len(ns))

\* The capacities grow.
LEMMA CapFacts ==
  /\ \A k \in 1 .. 4 : Cap[k] \in Nat /\ Cap[k] > 1
  /\ \A k \in 1 .. 3 : Cap[k] < Cap[k + 1]
<1>1. Cap \in Seq(Nat) /\ Len(Cap) = 4 /\ Cap[1] > 1 /\ \A i \in 1 .. 3 : Cap[i] < Cap[i + 1]
  BY ArtAssumption, Zenon
<1>2. \A k \in 1 .. 4 : Cap[k] \in Nat
  <2>1. \A k \in 1 .. Len(Cap) : Cap[k] \in Nat
    BY <1>1, NatAt, Zenon
  <2>. QED BY <1>1, <2>1, Zenon
<1>3. 1 \in 1 .. 3 /\ 2 \in 1 .. 3 /\ 3 \in 1 .. 3 /\ 1 + 1 = 2 /\ 2 + 1 = 3 /\ 3 + 1 = 4
  OBVIOUS
<1>4. Cap[1] < Cap[2] /\ Cap[2] < Cap[3] /\ Cap[3] < Cap[4]
  BY <1>1, <1>3
<1>5. Cap[1] \in Nat /\ Cap[2] \in Nat /\ Cap[3] \in Nat /\ Cap[4] \in Nat
  BY <1>2
<1>6. \A k \in 1 .. 4 : k = 1 \/ k = 2 \/ k = 3 \/ k = 4
  OBVIOUS
<1>7. \A k \in 1 .. 4 : Cap[k] > 1
  BY <1>1, <1>4, <1>5, <1>6
<1>. QED BY <1>1, <1>2, <1>7

\* The parts of a node.
LEMMA NodeParts ==
  ASSUME NEW L, NEW n, NodeOK(n, L)
  PROVE  /\ n.kind \in 1 .. 5 /\ n.prefix \in Seq(Byte) /\ n.kids \in KidSeq
         /\ n.val \in Values \union {None} /\ n.fwd \in Nat /\ n.fwd \in 0 .. L
         /\ Distinct(n.kids) /\ (n.kind = N16 => Sorted(n.kids))
         /\ n.kind # MOVED => n.kind \in 1 .. 4 /\ Len(n.kids) <= Cap[n.kind]
         /\ \A i \in DOMAIN n.kids : n.kids[i][2] \in 1 .. L
<1>1. n \in Node
  BY Zenon DEF NodeOK
<1>2. /\ n.kind \in 1 .. 5 /\ n.prefix \in Seq(Byte) /\ n.kids \in KidSeq
      /\ n.val \in Values \union {None} /\ n.fwd \in Nat
  BY <1>1 DEF Node
<1>3. n.kind # MOVED => n.kind \in 1 .. 4
  BY <1>2 DEF MOVED
<1>. QED BY <1>2, <1>3, Zenon DEF NodeOK

\* art_child gives the child of a byte.
LEMMA ChildIs ==
  ASSUME NEW ns, NodesOK(ns), NEW x \in 1 .. Len(ns), NEW b \in Byte
  PROVE  /\ art_child(ns, x, b) = IF ns[x].kind = MOVED THEN 0 ELSE KidOf(ns[x].kids, b)
         /\ art_child(ns, x, b) \in 0 .. Len(ns)
<1>. DEFINE kids == ns[x].kids
            L == Len(ns)
            j == BinarySearch(kids, b)
<1>1. NodeOK(ns[x], L) /\ L \in Nat
  BY DEF NodesOK
<1>2. /\ kids \in KidSeq /\ Distinct(kids) /\ (ns[x].kind = N16 => Sorted(kids))
      /\ \A i \in DOMAIN kids : kids[i][2] \in 1 .. L
  BY <1>1, NodeParts, Zenon
<1>3. KidOf(kids, b) \in 0 .. L
  <2>1. CASE \E i \in DOMAIN kids : kids[i][1] = b
    <3>1. PICK i \in DOMAIN kids : kids[i][1] = b
      BY <2>1
    <3>2. KidOf(kids, b) = kids[i][2]
      BY <1>2, <3>1, KidFacts
    <3>. QED BY <1>1, <1>2, <3>2
  <2>2. CASE \A i \in DOMAIN kids : kids[i][1] # b
    <3>1. KidOf(kids, b) = 0
      BY <1>2, <2>2, KidFacts
    <3>. QED BY <1>1, <3>1
  <2>. QED BY <2>1, <2>2
<1>4. CASE ns[x].kind = MOVED
  <2>1. art_child(ns, x, b) = 0
    BY <1>4 DEF art_child, MOVED, N16
  <2>. QED BY <1>1, <1>4, <2>1
<1>5. CASE ns[x].kind # MOVED /\ ns[x].kind = N16
  <2>1. art_child(ns, x, b) = IF j = 0 THEN 0 ELSE kids[j][2]
    <3>1. /\ ns[x].kind # MOVED /\ ns[x].kind = N16
      BY <1>5, Zenon
    <3>. QED BY <3>1, Zenon DEF art_child, j, kids
  <2>2. /\ j \in 0 .. Len(kids) /\ (j # 0 => kids[j][1] = b)
        /\ (j = 0 => \A i \in DOMAIN kids : kids[i][1] # b)
    BY <1>2, <1>5, SearchFacts
  <2>. HIDE DEF j
  <2>3. CASE j = 0
    <3>1. KidOf(kids, b) = 0
      BY <1>2, <2>2, <2>3, KidFacts
    <3>. QED BY <1>3, <1>5, <2>1, <2>3, <3>1
  <2>4. CASE j # 0
    <3>1. j \in DOMAIN kids
      BY <1>2, <2>2, <2>4, KidType
    <3>2. KidOf(kids, b) = kids[j][2]
      BY <1>2, <2>2, <2>4, <3>1, KidFacts
    <3>. QED BY <1>3, <1>5, <2>1, <2>4, <3>2
  <2>. QED BY <2>3, <2>4
<1>6. CASE ns[x].kind # MOVED /\ ns[x].kind # N16
  <2>1. art_child(ns, x, b) = KidOf(kids, b)
    BY <1>6, Zenon DEF art_child, KidOf
  <2>. QED BY <1>3, <1>6, <2>1
<1>. QED BY <1>4, <1>5, <1>6

\* new is ns with the record r for x.
Put(ns, x, r, new) == new = [ns EXCEPT ![x] = r]

\* A node is replaced by another record.
LEMMA PutNode ==
  ASSUME NEW ns, NodesOK(ns), NEW x \in 1 .. Len(ns), NEW r, NodeOK(r, Len(ns)),
         NEW new, Put(ns, x, r, new)
  PROVE  /\ NodesOK(new) /\ Len(new) = Len(ns)
         /\ \A z \in 1 .. Len(ns) : new[z] = IF z = x THEN r ELSE ns[z]
<1>1. ns \in Seq(Node) /\ r \in Node /\ \A z \in 1 .. Len(ns) : NodeOK(ns[z], Len(ns))
  BY DEF NodesOK, NodeOK
<1>2. /\ new \in Seq(Node) /\ Len(new) = Len(ns)
      /\ \A z \in 1 .. Len(ns) : new[z] = IF z = x THEN r ELSE ns[z]
  BY <1>1, ExceptSeq DEF Put
<1>3. \A z \in 1 .. Len(new) : NodeOK(new[z], Len(new))
  BY <1>1, <1>2
<1>. QED BY <1>2, <1>3 DEF NodesOK

\* More nodes.
LEMMA NodeMore ==
  ASSUME NEW n, NEW L \in Nat, NEW M \in Nat, L <= M, NodeOK(n, L)
  PROVE  NodeOK(n, M)
<1>1. \A i : i \in 1 .. L => i \in 1 .. M
  OBVIOUS
<1>2. \A i : i \in 0 .. L => i \in 0 .. M
  OBVIOUS
<1>. QED BY <1>1, <1>2, Zenon DEF NodeOK

\* Nodes are put behind the others; they may refer to each other.
LEMMA MoreNodes ==
  ASSUME NEW ns, NodesOK(ns), NEW s \in Seq(Node),
         \A i \in 1 .. Len(s) : NodeOK(s[i], Len(ns) + Len(s))
  PROVE  /\ NodesOK(ns \o s) /\ Len(ns \o s) = Len(ns) + Len(s)
         /\ \A z \in 1 .. Len(ns) : (ns \o s)[z] = ns[z]
         /\ \A i \in 1 .. Len(s) : (ns \o s)[Len(ns) + i] = s[i]
<1>1. ns \in Seq(Node) /\ \A z \in 1 .. Len(ns) : NodeOK(ns[z], Len(ns))
  BY DEF NodesOK
<1>2. PICK L \in Nat, M \in Nat : L = Len(ns) /\ M = Len(s)
  BY <1>1
<1>3. /\ ns \o s \in Seq(Node) /\ Len(ns \o s) = L + M
      /\ \A z \in 1 .. L + M : (ns \o s)[z] = IF z <= L THEN ns[z] ELSE s[z - L]
  BY <1>1, <1>2, ConcatProperties
<1>4. \A z \in 1 .. L : (ns \o s)[z] = ns[z]
  BY <1>2, <1>3
<1>5. \A i \in 1 .. M : (ns \o s)[L + i] = s[i]
  <2>1. SUFFICES ASSUME NEW i \in 1 .. M PROVE (ns \o s)[L + i] = s[i]
    OBVIOUS
  <2>2. L + i \in 1 .. L + M /\ ~(L + i <= L) /\ L + i - L = i
    BY <1>2
  <2>. QED BY <1>3, <2>2
<1>6. \A z \in 1 .. L + M : NodeOK((ns \o s)[z], L + M)
  <2>1. SUFFICES ASSUME NEW z \in 1 .. L + M PROVE NodeOK((ns \o s)[z], L + M)
    OBVIOUS
  <2>2. CASE z <= L
    <3>1. z \in 1 .. L /\ L + M \in Nat /\ L <= L + M
      BY <2>2
    <3>2. NodeOK(ns[z], L) /\ (ns \o s)[z] = ns[z]
      BY <1>1, <1>2, <1>4, <3>1
    <3>. QED BY <3>1, <3>2, NodeMore
  <2>3. CASE ~(z <= L)
    <3>1. PICK i \in 1 .. M : z = L + i
      <4>1. z - L \in 1 .. M /\ z = L + (z - L)
        BY <2>3
      <4>. QED BY <4>1
    <3>. QED BY <1>2, <1>5, <3>1
  <2>. QED BY <2>2, <2>3
<1>. QED BY <1>2, <1>3, <1>4, <1>5, <1>6 DEF NodesOK

\* k2 is k with c as the child of b.
WithChild(k, b, c, k2) ==
  /\ \A b2 \in Byte : KidOf(k2, b2) = IF b2 = b THEN c ELSE KidOf(k, b2)
  /\ \A j \in DOMAIN k2 : k2[j] = <<b, c>> \/ \E i \in DOMAIN k : k2[j] = k[i]

\* new is ns with c as the child of x by b.
ChildPut(ns, x, b, c, new) ==
  /\ NodesOK(new) /\ Len(new) = Len(ns)
  /\ \A z \in 1 .. Len(ns) : z # x => new[z] = ns[z]
  /\ new[x].kind = ns[x].kind /\ new[x].prefix = ns[x].prefix
  /\ new[x].val = ns[x].val /\ new[x].fwd = ns[x].fwd
  /\ WithChild(ns[x].kids, b, c, new[x].kids)

\* new is ns with k as the children of x.
KidsPut(ns, x, k, new) == new = [ns EXCEPT ![x].kids = k]

\* k can be the children of a node with kind kind.
Fit(k, kind, L) ==
  /\ k \in KidSeq /\ Distinct(k) /\ (kind = N16 => Sorted(k))
  /\ kind # MOVED => Len(k) <= Cap[kind]
  /\ \A i \in DOMAIN k : k[i][2] \in 1 .. L

\* new differs from ns in the children of x only.
HasKids(ns, x, k, new) ==
  /\ NodesOK(new) /\ Len(new) = Len(ns)
  /\ \A z \in 1 .. Len(ns) : z # x => new[z] = ns[z]
  /\ new[x].kind = ns[x].kind /\ new[x].prefix = ns[x].prefix
  /\ new[x].val = ns[x].val /\ new[x].fwd = ns[x].fwd /\ new[x].kids = k

\* Other children for a node.
LEMMA PutKids ==
  ASSUME NEW ns, NodesOK(ns), NEW x \in 1 .. Len(ns), NEW k, Fit(k, ns[x].kind, Len(ns)),
         NEW new, KidsPut(ns, x, k, new)
  PROVE  HasKids(ns, x, k, new)
<1>. DEFINE r == [ns[x] EXCEPT !.kids = k]
<1>1. NodeOK(ns[x], Len(ns)) /\ ns[x] \in Node
  BY DEF NodesOK, NodeOK
<1>2. /\ r \in Node /\ r.kind = ns[x].kind /\ r.prefix = ns[x].prefix
      /\ r.val = ns[x].val /\ r.fwd = ns[x].fwd /\ r.kids = k
  <2>1. k \in KidSeq
    BY Zenon DEF Fit
  <2>. QED BY <1>1, <2>1 DEF Node
<1>3. Put(ns, x, r, new)
  BY DEF Put, KidsPut
<1>. HIDE DEF r
<1>4. NodeOK(r, Len(ns))
  <2>1. ns[x].fwd \in 0 .. Len(ns)
    BY <1>1, Zenon DEF NodeOK
  <2>2. /\ Distinct(r.kids) /\ (r.kind = N16 => Sorted(r.kids))
        /\ r.kind # MOVED => Len(r.kids) <= Cap[r.kind]
        /\ \A i \in DOMAIN r.kids : r.kids[i][2] \in 1 .. Len(ns)
        /\ r.fwd \in 0 .. Len(ns)
    BY <1>2, <2>1 DEF Fit
  <2>. QED BY <1>2, <2>2, Zenon DEF NodeOK
<1>5. /\ NodesOK(new) /\ Len(new) = Len(ns)
      /\ \A z \in 1 .. Len(ns) : new[z] = IF z = x THEN r ELSE ns[z]
  BY <1>3, <1>4, PutNode
<1>. QED BY <1>2, <1>5 DEF HasKids

\* art_add on a node with room and without that byte.
LEMMA AddFacts ==
  ASSUME NEW ns, NodesOK(ns), NEW x \in 1 .. Len(ns), NEW b \in Byte, NEW c \in 1 .. Len(ns),
         ns[x].kind # MOVED, Len(ns[x].kids) < Cap[ns[x].kind], b \notin Bytes(ns[x].kids)
  PROVE  /\ ChildPut(ns, x, b, c, art_add(ns, x, b, c))
         /\ Len(art_add(ns, x, b, c)[x].kids) = Len(ns[x].kids) + 1
<1>. DEFINE kids == ns[x].kids
            p == AddPosition(ns[x], b)
            k == InsertAt(kids, p, <<b, c>>)
<1>1. NodeOK(ns[x], Len(ns)) /\ Len(ns) \in Nat /\ c \in Nat
  BY DEF NodesOK
<1>2. /\ kids \in KidSeq /\ Distinct(kids) /\ (ns[x].kind = N16 => Sorted(kids))
      /\ \A i \in DOMAIN kids : kids[i][2] \in 1 .. Len(ns)
      /\ ns[x].kind \in 1 .. 4
  BY <1>1, NodeParts
<1>3. Len(kids) \in Nat /\ DOMAIN kids = 1 .. Len(kids)
  BY <1>2, KidType
<1>4. KidsPut(ns, x, k, art_add(ns, x, b, c))
  BY Zenon DEF art_add, KidsPut
<1>7. p \in 1 .. Len(kids) + 1 /\ (ns[x].kind = N16 => Sorted(k))
  <2>1. CASE ns[x].kind = N16
    <3>1. p = 1 + Cardinality(UpTo(kids, b))
      BY <2>1, Zenon DEF AddPosition, UpTo
    <3>2. Sorted(kids) /\ b \notin Bytes(kids)
      BY <1>2, <2>1
    <3>. HIDE DEF kids, p
    <3>. QED BY <1>1, <1>2, <3>1, <3>2, SortedPlace
  <2>2. CASE ns[x].kind # N16
    <3>1. p = Len(kids) + 1
      BY <2>2, Zenon DEF AddPosition
    <3>2. p \in 1 .. Len(kids) + 1
      BY <1>3, <3>1
    <3>. QED BY <2>2, <3>2
  <2>. QED BY <2>1, <2>2
<1>8. b \notin Bytes(kids)
  OBVIOUS
<1>. HIDE DEF kids, p
<1>9. /\ k \in KidSeq /\ Len(k) = Len(kids) + 1 /\ Distinct(k)
      /\ \A b2 \in Byte : KidOf(k, b2) = IF b2 = b THEN c ELSE KidOf(kids, b2)
  BY <1>1, <1>2, <1>7, <1>8, InsertKid
<1>10. \A j \in 1 .. Len(kids) + 1 : k[j] = <<b, c>> \/ \E i \in DOMAIN kids : k[j] = kids[i]
  <2>1. \A j \in 1 .. Len(kids) + 1 :
          k[j] = IF j < p THEN kids[j] ELSE IF j = p THEN <<b, c>> ELSE kids[j - 1]
    BY <1>1, <1>2, <1>7, <1>8, InsertKid
  <2>2. SUFFICES ASSUME NEW j \in 1 .. Len(kids) + 1, j # p
                 PROVE  \E i \in DOMAIN kids : k[j] = kids[i]
    BY <2>1
  <2>. PICK q \in 1 .. Len(kids) + 1 : q = p
    BY <1>7
  <2>3. CASE j < q
    <3>1. j \in DOMAIN kids /\ k[j] = kids[j]
      BY <1>3, <2>1, <2>3
    <3>. QED BY <3>1
  <2>4. CASE q < j
    <3>1. j - 1 \in DOMAIN kids /\ ~(j < p)
      BY <1>3, <2>4
    <3>2. k[j] = kids[j - 1]
      BY <2>1, <2>2, <3>1
    <3>. QED BY <3>1, <3>2
  <2>. QED BY <1>3, <2>2, <2>3, <2>4, SMTT(40)
<1>11. DOMAIN k = 1 .. Len(kids) + 1
  BY <1>9, KidType
<1>. HIDE DEF k
<1>12. WithChild(kids, b, c, k)
  BY <1>9, <1>10, <1>11 DEF WithChild
<1>13. \A i \in DOMAIN k : k[i][2] \in 1 .. Len(ns)
  BY <1>2, <1>10, <1>11
<1>14. Len(k) <= Cap[ns[x].kind]
  <2>1. Len(kids) < Cap[ns[x].kind]
    BY DEF kids
  <2>2. Cap[ns[x].kind] \in Nat
    BY <1>2, CapFacts
  <2>. QED BY <1>3, <1>9, <2>1, <2>2
<1>15. /\ NodesOK(art_add(ns, x, b, c)) /\ Len(art_add(ns, x, b, c)) = Len(ns)
       /\ \A z \in 1 .. Len(ns) : z # x => art_add(ns, x, b, c)[z] = ns[z]
       /\ art_add(ns, x, b, c)[x].kind = ns[x].kind /\ art_add(ns, x, b, c)[x].prefix = ns[x].prefix
       /\ art_add(ns, x, b, c)[x].val = ns[x].val /\ art_add(ns, x, b, c)[x].fwd = ns[x].fwd
       /\ art_add(ns, x, b, c)[x].kids = k
  <2>1. ns[x].kind = N16 => Sorted(k)
    BY <1>7 DEF k
  <2>2. Fit(k, ns[x].kind, Len(ns))
    BY <1>9, <1>13, <1>14, <2>1, Zenon DEF Fit
  <2>3. HasKids(ns, x, k, art_add(ns, x, b, c))
    BY <1>4, <2>2, PutKids, Zenon
  <2>. QED BY <2>3, Zenon DEF HasKids
<1>16. WithChild(ns[x].kids, b, c, k) /\ Len(k) = Len(ns[x].kids) + 1
  BY <1>9, <1>12 DEF kids
<1>. QED BY <1>15, <1>16, Zenon DEF ChildPut

\* art_rm on a node that has a child for that byte.
LEMMA RmFacts ==
  ASSUME NEW ns, NodesOK(ns), NEW x \in 1 .. Len(ns), NEW b \in Byte, b \in Bytes(ns[x].kids)
  PROVE  LET new == art_rm(ns, x, b) IN
         /\ NodesOK(new) /\ Len(new) = Len(ns)
         /\ \A z \in 1 .. Len(ns) : z # x => new[z] = ns[z]
         /\ new[x].kind = ns[x].kind /\ new[x].prefix = ns[x].prefix
         /\ new[x].val = ns[x].val /\ new[x].fwd = ns[x].fwd
         /\ Len(new[x].kids) = Len(ns[x].kids) - 1 /\ b \notin Bytes(new[x].kids)
         /\ \A j \in DOMAIN new[x].kids : \E i \in DOMAIN ns[x].kids : new[x].kids[j] = ns[x].kids[i]
         /\ \A b2 \in Byte : KidOf(new[x].kids, b2) = IF b2 = b THEN 0 ELSE KidOf(ns[x].kids, b2)
<1>. DEFINE kids == ns[x].kids
            i == Position(kids, b)
            k == IF ns[x].kind = 3 THEN Front([kids EXCEPT ![i] = Last(kids)]) ELSE RemoveAt(kids, i)
<1>1. NodeOK(ns[x], Len(ns)) /\ Len(ns) \in Nat
  BY DEF NodesOK
<1>2. /\ kids \in KidSeq /\ Distinct(kids) /\ (ns[x].kind = N16 => Sorted(kids))
      /\ \A j \in DOMAIN kids : kids[j][2] \in 1 .. Len(ns)
      /\ ns[x].kind # MOVED => ns[x].kind \in 1 .. 4 /\ Len(kids) <= Cap[ns[x].kind]
  BY <1>1, NodeParts
<1>3. i \in DOMAIN kids /\ kids[i][1] = b
  BY <1>2, KidFacts DEF Bytes
<1>4. kids # <<>> /\ b \in Bytes(kids)
  BY <1>3
<1>5. KidsPut(ns, x, k, art_rm(ns, x, b))
  BY <1>4, Zenon DEF art_rm, KidsPut
<1>6. Without(kids, i, k)
  BY <1>2, <1>3, RemoveKid, SwapKid
<1>7. ns[x].kind = N16 => Sorted(k)
  BY <1>2, <1>3, RemoveKid DEF N16
<1>. HIDE DEF kids, i, k
<1>8. /\ k \in KidSeq /\ Len(k) = Len(kids) - 1 /\ Distinct(k) /\ b \notin Bytes(k)
      /\ \A j \in DOMAIN k : \E l \in DOMAIN kids : k[j] = kids[l]
      /\ \A b2 \in Byte : KidOf(k, b2) = IF b2 = b THEN 0 ELSE KidOf(kids, b2)
  BY <1>3, <1>6, Zenon DEF Without
<1>9. ns[x].kind # MOVED => Len(k) <= Cap[ns[x].kind]
  <2>1. \A q \in 1 .. 4 : Cap[q] \in Nat
    BY CapFacts
  <2>. QED BY <1>2, <1>8, <2>1, KidType, SMTT(40)
<1>10. \A j \in DOMAIN k : k[j][2] \in 1 .. Len(ns)
  BY <1>2, <1>8
<1>11. /\ NodesOK(art_rm(ns, x, b)) /\ Len(art_rm(ns, x, b)) = Len(ns)
       /\ \A z \in 1 .. Len(ns) : z # x => art_rm(ns, x, b)[z] = ns[z]
       /\ art_rm(ns, x, b)[x].kind = ns[x].kind /\ art_rm(ns, x, b)[x].prefix = ns[x].prefix
       /\ art_rm(ns, x, b)[x].val = ns[x].val /\ art_rm(ns, x, b)[x].fwd = ns[x].fwd
       /\ art_rm(ns, x, b)[x].kids = k
  <2>1. Fit(k, ns[x].kind, Len(ns))
    BY <1>7, <1>8, <1>9, <1>10, Zenon DEF Fit
  <2>2. HasKids(ns, x, k, art_rm(ns, x, b))
    BY <1>5, <2>1, PutKids, Zenon
  <2>. QED BY <2>2, Zenon DEF HasKids
<1>12. /\ Len(k) = Len(ns[x].kids) - 1 /\ b \notin Bytes(k)
       /\ \A j \in DOMAIN k : \E l \in DOMAIN ns[x].kids : k[j] = ns[x].kids[l]
       /\ \A b2 \in Byte : KidOf(k, b2) = IF b2 = b THEN 0 ELSE KidOf(ns[x].kids, b2)
  BY <1>8, Zenon DEF kids
<1>. QED BY <1>11, <1>12, Zenon

\* Relink replaces the child of a branch.
LEMMA RelinkFacts ==
  ASSUME NEW ns, NodesOK(ns), NEW x \in 1 .. Len(ns), NEW b \in Byte, NEW c \in 1 .. Len(ns),
         ns[x].kind # MOVED, NEW child, child = KidOf(ns[x].kids, b), child # 0
  PROVE  ChildPut(ns, x, b, c, Relink(ns, x, b, child, c))
<1>1. NodeOK(ns[x], Len(ns))
  BY DEF NodesOK
<1>2. CASE c = child
  <2>1. Relink(ns, x, b, child, c) = ns
    BY <1>2 DEF Relink
  <2>2. WithChild(ns[x].kids, b, c, ns[x].kids)
    BY <1>2 DEF WithChild
  <2>. QED BY <2>1, <2>2 DEF ChildPut
<1>3. CASE c # child
  <2>. DEFINE mid == art_rm(ns, x, b)
  <2>1. Relink(ns, x, b, child, c) = art_add(mid, x, b, c)
    BY <1>3 DEF Relink
  <2>2. b \in Bytes(ns[x].kids)
    BY DEF KidOf
  <2>3. /\ NodesOK(mid) /\ Len(mid) = Len(ns)
        /\ \A z \in 1 .. Len(ns) : z # x => mid[z] = ns[z]
        /\ mid[x].kind = ns[x].kind /\ mid[x].prefix = ns[x].prefix
        /\ mid[x].val = ns[x].val /\ mid[x].fwd = ns[x].fwd
        /\ Len(mid[x].kids) = Len(ns[x].kids) - 1 /\ b \notin Bytes(mid[x].kids)
        /\ \A j \in DOMAIN mid[x].kids : \E i \in DOMAIN ns[x].kids : mid[x].kids[j] = ns[x].kids[i]
        /\ \A b2 \in Byte : KidOf(mid[x].kids, b2) = IF b2 = b THEN 0 ELSE KidOf(ns[x].kids, b2)
    BY <2>2, RmFacts
  <2>. HIDE DEF mid
  <2>4. Len(mid[x].kids) < Cap[mid[x].kind]
    <3>1. /\ ns[x].kind \in 1 .. 4 /\ Len(ns[x].kids) <= Cap[ns[x].kind]
          /\ ns[x].kids \in KidSeq
      BY <1>1, NodeParts
    <3>2. Cap[ns[x].kind] \in Nat /\ Len(ns[x].kids) \in Nat
      BY <3>1, CapFacts, KidType
    <3>. QED BY <2>3, <3>1, <3>2
  <2>5. ChildPut(mid, x, b, c, art_add(mid, x, b, c))
    BY <2>3, <2>4, AddFacts
  <2>6. WithChild(mid[x].kids, b, c, art_add(mid, x, b, c)[x].kids)
    BY <2>5 DEF ChildPut
  <2>7. WithChild(ns[x].kids, b, c, art_add(mid, x, b, c)[x].kids)
    BY <2>3, <2>6 DEF WithChild
  <2>. QED BY <2>1, <2>3, <2>5, <2>7 DEF ChildPut
<1>. QED BY <1>2, <1>3

\* new is ns with one more node.
Appended(ns, n, new) ==
  /\ NodesOK(new) /\ Len(new) = Len(ns) + 1
  /\ \A z \in 1 .. Len(ns) : new[z] = ns[z]
  /\ new[Len(ns) + 1] = n

Fresh(prefix, val) == [kind |-> N4, prefix |-> prefix, kids |-> <<>>, val |-> val, fwd |-> 0]

\* No children.
LEMMA NoKids == <<>> \in KidSeq /\ Distinct(<<>>) /\ Sorted(<<>>) /\ Bytes(<<>>) = {} /\ Len(<<>>) = 0
               /\ \A b \in Byte : KidOf(<<>>, b) = 0
<1>1. <<>> \in KidSeq
  BY DEF KidSeq
<1>2. DOMAIN <<>> = {} /\ Len(<<>>) = 0
  OBVIOUS
<1>3. Bytes(<<>>) = {}
  BY <1>2, Zenon DEF Bytes
<1>4. Distinct(<<>>) /\ Sorted(<<>>)
  BY <1>2 DEF Distinct, Sorted
<1>. QED BY <1>1, <1>2, <1>3, <1>4, KidFacts

\* art_new_node when the allocation succeeds.
LEMMA NewNode ==
  ASSUME NEW ns, NodesOK(ns), NEW prefix \in Seq(Byte), NEW val \in Values \union {None},
         NEW lim \in Nat, Len(ns) < lim
  PROVE  /\ art_new_node(ns, lim, prefix, val).id = Len(ns) + 1
         /\ Appended(ns, Fresh(prefix, val), art_new_node(ns, lim, prefix, val).ns)
<1>. DEFINE n == Fresh(prefix, val)
            L == Len(ns)
<1>1. ns \in Seq(Node) /\ L \in Nat /\ \A z \in 1 .. L : NodeOK(ns[z], L)
  BY DEF NodesOK
<1>2. ~(L >= lim)
  BY <1>1
<1>3. art_new_node(ns, lim, prefix, val) = [ns |-> Append(ns, n), id |-> L + 1]
  BY <1>2, Zenon DEF art_new_node, Fresh
<1>4. /\ n \in Node /\ n.kids = <<>> /\ n.fwd = 0 /\ n.kind = N4
  BY NoKids DEF Node, Fresh, N4
<1>. HIDE DEF n
<1>5. NodeOK(n, L + 1)
  <2>1. Len(n.kids) <= Cap[n.kind]
    BY <1>4, NoKids, CapFacts DEF N4
  <2>2. 0 \in 0 .. L + 1 /\ \A i \in DOMAIN n.kids : n.kids[i][2] \in 1 .. L + 1
    BY <1>1, <1>4
  <2>. QED BY <1>4, <2>1, <2>2, NoKids DEF NodeOK
<1>6. /\ Append(ns, n) \in Seq(Node) /\ Len(Append(ns, n)) = L + 1
      /\ \A z \in 1 .. L : Append(ns, n)[z] = ns[z]
      /\ Append(ns, n)[L + 1] = n
  BY <1>1, <1>4
<1>7. \A z \in 1 .. L + 1 : NodeOK(Append(ns, n)[z], L + 1)
  <2>1. SUFFICES ASSUME NEW z \in 1 .. L + 1 PROVE NodeOK(Append(ns, n)[z], L + 1)
    OBVIOUS
  <2>2. CASE z \in 1 .. L
    <3>1. L + 1 \in Nat /\ L <= L + 1 /\ NodeOK(ns[z], L)
      BY <1>1, <2>2
    <3>. QED BY <1>1, <1>6, <2>2, <3>1, NodeMore
  <2>3. CASE z = L + 1
    BY <1>5, <1>6, <2>3
  <2>. QED BY <1>1, <2>2, <2>3
<1>8. Appended(ns, n, Append(ns, n))
  BY <1>6, <1>7 DEF Appended, NodesOK
<1>. QED BY <1>3, <1>8 DEF n

\* new is ns with the node x grown into a new node.
Grown(ns, x, new) ==
  /\ NodesOK(new) /\ Len(new) = Len(ns) + 1
  /\ \A z \in 1 .. Len(ns) : z # x => new[z] = ns[z]
  /\ new[x].kind = MOVED /\ new[x].fwd = Len(ns) + 1
  /\ new[Len(ns) + 1].kind = ns[x].kind + 1
  /\ new[Len(ns) + 1].prefix = ns[x].prefix /\ new[Len(ns) + 1].val = ns[x].val
  /\ Len(new[Len(ns) + 1].kids) = Len(ns[x].kids)
  /\ \A j \in DOMAIN new[Len(ns) + 1].kids :
       \E i \in DOMAIN ns[x].kids : new[Len(ns) + 1].kids[j] = ns[x].kids[i]
  /\ \A b \in Byte : KidOf(new[Len(ns) + 1].kids, b) = KidOf(ns[x].kids, b)

\* The children a node keeps when it grows.
LEMMA GrownKidsFacts ==
  ASSUME NEW n, NEW L, NodeOK(n, L), n.kind \in 1 .. 3
  PROVE  /\ GrownKids(n) \in KidSeq /\ Len(GrownKids(n)) = Len(n.kids) /\ Distinct(GrownKids(n))
         /\ n.kind + 1 = N16 => Sorted(GrownKids(n))
         /\ \A j \in DOMAIN GrownKids(n) : \E i \in DOMAIN n.kids : GrownKids(n)[j] = n.kids[i]
         /\ \A b \in Byte : KidOf(GrownKids(n), b) = KidOf(n.kids, b)
<1>1. n.kids \in KidSeq /\ Distinct(n.kids)
  BY NodeParts, Zenon
<1>2. CASE n.kind = N4
  <2>1. GrownKids(n) = ByByte(n.kids)
    BY <1>2 DEF GrownKids
  <2>. QED BY <1>1, <2>1, ByByteFacts
<1>3. CASE n.kind # N4
  <2>1. GrownKids(n) = n.kids /\ n.kind + 1 # N16
    BY <1>3 DEF GrownKids, N4, N16
  <2>. QED BY <1>1, <2>1
<1>. QED BY <1>2, <1>3

\* art_grow when the allocation succeeds.
LEMMA GrowFacts ==
  ASSUME NEW ns, NodesOK(ns), NEW x \in 1 .. Len(ns), ns[x].kind \in 1 .. 3,
         NEW lim \in Nat, Len(ns) < lim
  PROVE  art_grow(ns, lim, x).id = Len(ns) + 1 /\ Grown(ns, x, art_grow(ns, lim, x).ns)
<1>. DEFINE L == Len(ns)
            m == art_new_node(ns, lim, ns[x].prefix, GrownVal(ns[x])).ns
            k == GrownKids(ns[x])
            q == ns[x].kind + 1
            a == L + 1
            new == art_grow(ns, lim, x).ns
            r1 == [m[a] EXCEPT !.kind = q, !.kids = k]
            r2 == [m[x] EXCEPT !.kind = MOVED, !.val = None, !.fwd = a]
            mid == [m EXCEPT ![a] = r1]
<1>1. NodeOK(ns[x], L) /\ L \in Nat
  BY DEF NodesOK
<1>2. /\ ns[x].prefix \in Seq(Byte) /\ ns[x].val \in Values \union {None}
      /\ ns[x].kids \in KidSeq /\ Len(ns[x].kids) <= Cap[ns[x].kind]
      /\ \A i \in DOMAIN ns[x].kids : ns[x].kids[i][2] \in 1 .. L
  BY <1>1, NodeParts DEF MOVED
<1>3. GrownVal(ns[x]) = ns[x].val
  BY DEF GrownVal
<1>4. /\ art_new_node(ns, lim, ns[x].prefix, GrownVal(ns[x])).id = a
      /\ Appended(ns, Fresh(ns[x].prefix, ns[x].val), m)
  BY <1>1, <1>2, <1>3, NewNode
<1>5. /\ NodesOK(m) /\ Len(m) = a /\ m[a] = Fresh(ns[x].prefix, ns[x].val)
      /\ \A z \in 1 .. L : m[z] = ns[z]
  BY <1>4, Zenon DEF Appended
<1>6. /\ art_grow(ns, lim, x).id = a
      /\ new = [m EXCEPT ![a].kind = q, ![a].kids = k, ![x].kind = MOVED, ![x].val = None, ![x].fwd = a]
  <2>1. a # 0
    BY <1>1
  <2>. QED BY <1>4, <2>1, Zenon DEF art_grow
<1>. HIDE DEF m, k, q, a, new
<1>7. m \in Seq(Node) /\ a \in 1 .. Len(m) /\ x \in 1 .. Len(m) /\ a # x
  BY <1>1, <1>5 DEF NodesOK, a
<1>8. new = [mid EXCEPT ![x] = r2]
  <2>1. a \in DOMAIN m /\ x \in DOMAIN m
    BY <1>7
  <2>. QED BY <1>6, <1>7, <2>1
<1>9. m[a] \in Node /\ m[x] \in Node
  BY <1>7
<1>10. /\ k \in KidSeq /\ Len(k) = Len(ns[x].kids) /\ Distinct(k) /\ (q = N16 => Sorted(k))
       /\ \A j \in DOMAIN k : \E i \in DOMAIN ns[x].kids : k[j] = ns[x].kids[i]
       /\ \A b \in Byte : KidOf(k, b) = KidOf(ns[x].kids, b)
  BY <1>1, GrownKidsFacts DEF k, q
<1>11. q \in 1 .. 5 /\ q \in 2 .. 4
  BY DEF q
<1>12. /\ r1 \in Node /\ r1.kind = q /\ r1.kids = k /\ r1.prefix = m[a].prefix
       /\ r1.val = m[a].val /\ r1.fwd = m[a].fwd
  BY <1>9, <1>10, <1>11 DEF Node
<1>13. /\ r2 \in Node /\ r2.kind = MOVED /\ r2.kids = m[x].kids /\ r2.fwd = a
  <2>1. MOVED \in 1 .. 5 /\ a \in Nat
    BY <1>1 DEF MOVED, a
  <2>. QED BY <1>9, <2>1 DEF Node
<1>14. Put(m, a, r1, mid) /\ Put(mid, x, r2, new)
  BY <1>8, Zenon DEF Put
<1>15. m[a].prefix = ns[x].prefix /\ m[a].val = ns[x].val /\ m[a].fwd = 0
  BY <1>5 DEF Fresh
<1>. HIDE DEF r1, r2, mid
<1>16. NodeOK(r1, Len(m))
  <2>1. Len(k) <= Cap[q]
    <3>1. Cap[ns[x].kind] < Cap[q] /\ Cap[ns[x].kind] \in Nat /\ Cap[q] \in Nat /\ Len(k) \in Nat
      BY <1>10, <1>11, CapFacts, KidType, SMTT(40) DEF q
    <3>. QED BY <1>2, <1>10, <3>1
  <2>2. \A j \in DOMAIN k : k[j][2] \in 1 .. a
    BY <1>1, <1>2, <1>10, SMTT(40) DEF a
  <2>3. 0 \in 0 .. a
    BY <1>1 DEF a
  <2>. QED BY <1>5, <1>10, <1>12, <1>15, <2>1, <2>2, <2>3 DEF NodeOK
<1>17. NodeOK(r2, Len(m))
  <2>1. NodeOK(m[x], Len(m))
    BY <1>5, <1>7 DEF NodesOK
  <2>2. Distinct(m[x].kids) /\ \A i \in DOMAIN m[x].kids : m[x].kids[i][2] \in 1 .. Len(m)
    BY <2>1 DEF NodeOK
  <2>3. a \in 0 .. Len(m) /\ MOVED # N16
    BY <1>7 DEF MOVED, N16
  <2>. QED BY <1>13, <2>2, <2>3 DEF NodeOK
<1>18. /\ NodesOK(mid) /\ Len(mid) = Len(m)
       /\ \A z \in 1 .. Len(m) : mid[z] = IF z = a THEN r1 ELSE m[z]
  BY <1>5, <1>7, <1>14, <1>16, PutNode
<1>19. /\ NodesOK(new) /\ Len(new) = Len(mid)
       /\ \A z \in 1 .. Len(mid) : new[z] = IF z = x THEN r2 ELSE mid[z]
  BY <1>7, <1>14, <1>17, <1>18, PutNode
<1>20. new[a] = r1 /\ new[x] = r2 /\ \A z \in 1 .. L : z # x => new[z] = ns[z]
  <2>1. \A z \in 1 .. L : z \in 1 .. Len(m) /\ z # a
    BY <1>1, <1>5 DEF a
  <2>. QED BY <1>5, <1>7, <1>18, <1>19, <2>1
<1>21. Grown(ns, x, new)
  BY <1>5, <1>10, <1>12, <1>13, <1>15, <1>18, <1>19, <1>20 DEF Grown, a, q
<1>. QED BY <1>6, <1>21 DEF a, new

\* new is ns with the prefix of y split after s bytes; the new node has value v.
Split(ns, y, s, v, new) ==
  /\ NodesOK(new) /\ Len(new) = Len(ns) + 1
  /\ \A z \in 1 .. Len(ns) : z # y => new[z] = ns[z]
  /\ new[y].kind = ns[y].kind /\ new[y].kids = ns[y].kids
  /\ new[y].val = ns[y].val /\ new[y].fwd = ns[y].fwd
  /\ new[y].prefix = Rest(ns[y].prefix, s + 1)
  /\ new[Len(ns) + 1].kind = N4 /\ new[Len(ns) + 1].val = v
  /\ new[Len(ns) + 1].prefix = SubSeq(ns[y].prefix, 1, s)
  /\ Len(new[Len(ns) + 1].kids) = 1
  /\ \A j \in DOMAIN new[Len(ns) + 1].kids : new[Len(ns) + 1].kids[j] = <<ns[y].prefix[s + 1], y>>
  /\ \A b \in Byte : KidOf(new[Len(ns) + 1].kids, b) = IF b = ns[y].prefix[s + 1] THEN y ELSE 0

\* art_split when the allocation succeeds.
LEMMA SplitFacts ==
  ASSUME NEW ns, NodesOK(ns), NEW y \in 1 .. Len(ns), NEW s \in Nat, s < Len(ns[y].prefix),
         NEW v \in Values \union {None}, NEW lim \in Nat, Len(ns) < lim
  PROVE  /\ art_split(ns, lim, y, s, v).id = Len(ns) + 1
         /\ Split(ns, y, s, v, art_split(ns, lim, y, s, v).ns)
<1>. DEFINE L == Len(ns)
            a == L + 1
            old == ns[y].prefix
            m == art_new_node(ns, lim, SubSeq(old, 1, s), v).ns
            p == Rest(old, s + 1)
            cut == [m EXCEPT ![y].prefix = p]
            r == [m[y] EXCEPT !.prefix = p]
            b == old[s + 1]
            new == art_split(ns, lim, y, s, v).ns
<1>1. NodeOK(ns[y], L) /\ L \in Nat
  BY DEF NodesOK
<1>2. old \in Seq(Byte)
  BY <1>1, NodeParts
<1>3. SubSeq(old, 1, s) \in Seq(Byte) /\ p \in Seq(Byte) /\ b \in Byte
  <2>1. s + 1 \in 0 .. Len(old) /\ s + 1 \in 1 .. Len(old)
    BY <1>2
  <2>. QED BY <1>2, <2>1, RestFacts
<1>4. /\ art_new_node(ns, lim, SubSeq(old, 1, s), v).id = a
      /\ Appended(ns, Fresh(SubSeq(old, 1, s), v), m)
  <2>. HIDE DEF m
  <2>1. /\ art_new_node(ns, lim, SubSeq(old, 1, s), v).id = L + 1
        /\ Appended(ns, Fresh(SubSeq(old, 1, s), v), art_new_node(ns, lim, SubSeq(old, 1, s), v).ns)
    BY <1>3, NewNode
  <2>. QED BY <2>1 DEF m
<1>5. /\ NodesOK(m) /\ Len(m) = a /\ m[a] = Fresh(SubSeq(old, 1, s), v)
      /\ \A z \in 1 .. L : m[z] = ns[z]
  BY <1>4, Zenon DEF Appended
<1>6. art_split(ns, lim, y, s, v).id = a /\ new = art_add(cut, a, b, y)
  <2>1. a # 0
    BY <1>1
  <2>. QED BY <1>4, <2>1, Zenon DEF art_split, Shortened
<1>. HIDE DEF m, p, a, b, new
<1>7. m \in Seq(Node) /\ a \in 1 .. Len(m) /\ y \in 1 .. Len(m) /\ a # y
  BY <1>1, <1>5 DEF NodesOK, a
<1>8. Put(m, y, r, cut)
  <2>1. y \in DOMAIN m
    BY <1>7
  <2>. QED BY <2>1 DEF Put
<1>9. /\ r \in Node /\ r.kind = m[y].kind /\ r.kids = m[y].kids /\ r.val = m[y].val
      /\ r.fwd = m[y].fwd /\ r.prefix = p
  <2>1. m[y] \in Node
    BY <1>7
  <2>. QED BY <1>3, <2>1 DEF Node
<1>. HIDE DEF r, cut
<1>10. NodeOK(r, Len(m))
  <2>1. NodeOK(m[y], Len(m))
    BY <1>5, <1>7 DEF NodesOK
  <2>. QED BY <1>9, <2>1 DEF NodeOK
<1>11. /\ NodesOK(cut) /\ Len(cut) = Len(m)
       /\ \A z \in 1 .. Len(m) : cut[z] = IF z = y THEN r ELSE m[z]
  BY <1>5, <1>7, <1>8, <1>10, PutNode
<1>12. cut[a] = Fresh(SubSeq(old, 1, s), v) /\ cut[y] = r
       /\ \A z \in 1 .. L : z # y => cut[z] = ns[z]
  <2>1. \A z \in 1 .. L : z \in 1 .. Len(m)
    BY <1>1, <1>5 DEF a
  <2>. QED BY <1>5, <1>7, <1>11, <2>1
<1>13. cut[a].kind = N4 /\ cut[a].kids = <<>> /\ cut[a].val = v /\ cut[a].prefix = SubSeq(old, 1, s)
  BY <1>12 DEF Fresh
<1>14. ChildPut(cut, a, b, y, new) /\ Len(new[a].kids) = 1
  <2>1. cut[a].kind # MOVED /\ Len(cut[a].kids) < Cap[cut[a].kind] /\ b \notin Bytes(cut[a].kids)
    BY <1>13, NoKids, CapFacts DEF N4, MOVED
  <2>2. ChildPut(cut, a, b, y, art_add(cut, a, b, y)) /\ Len(art_add(cut, a, b, y)[a].kids) = Len(cut[a].kids) + 1
    BY <1>3, <1>7, <1>11, <2>1, AddFacts
  <2>. QED BY <1>6, <1>13, <2>2, NoKids
<1>15. /\ NodesOK(new) /\ Len(new) = a
       /\ \A z \in 1 .. a : z # a => new[z] = cut[z]
       /\ new[a].kind = N4 /\ new[a].prefix = SubSeq(old, 1, s) /\ new[a].val = v
       /\ WithChild(<<>>, b, y, new[a].kids)
  BY <1>5, <1>11, <1>13, <1>14 DEF ChildPut
<1>16. /\ \A j \in DOMAIN new[a].kids : new[a].kids[j] = <<b, y>>
       /\ \A b2 \in Byte : KidOf(new[a].kids, b2) = IF b2 = b THEN y ELSE 0
  BY <1>15, NoKids DEF WithChild
<1>17. \A z \in 1 .. L : new[z] = cut[z]
  <2>1. \A z \in 1 .. L : z \in 1 .. a /\ z # a
    BY <1>1 DEF a
  <2>. QED BY <1>15, <2>1
<1>18. /\ new[y].kind = ns[y].kind /\ new[y].kids = ns[y].kids
       /\ new[y].val = ns[y].val /\ new[y].fwd = ns[y].fwd /\ new[y].prefix = p
  BY <1>5, <1>9, <1>12, <1>17
<1>19. Split(ns, y, s, v, new)
  BY <1>12, <1>14, <1>15, <1>16, <1>17, <1>18 DEF Split, a, b, p
<1>. QED BY <1>6, <1>19 DEF new, a

\* A chain of m nodes for a key from its byte d + 1 on, put behind ns; en: the
\* ends of their prefixes.
From(en, d, i) == IF i = 1 THEN d ELSE en[i - 1] + 1
Ending(en, d, key, m) ==
  /\ m \in Nat /\ m >= 1 /\ en[m] = Len(key)
  /\ \A i \in 1 .. m : en[i] \in Nat /\ en[i] <= Len(key) /\ From(en, d, i) \in Nat /\ From(en, d, i) <= en[i]
  /\ \A i \in 1 .. m : \A j \in 1 .. m : i < j => en[i] < en[j]
  /\ m <= Len(key) - d + 1
Chained(ns, key, d, v, new, m, en) ==
  /\ NodesOK(new) /\ Len(new) = Len(ns) + m
  /\ \A z \in 1 .. Len(ns) : new[z] = ns[z]
  /\ \A i \in 1 .. m :
       /\ new[Len(ns) + i].kind = N4
       /\ new[Len(ns) + i].prefix = SubSeq(key, From(en, d, i) + 1, en[i])
       /\ new[Len(ns) + i].val = IF i = m THEN v ELSE None
       /\ new[Len(ns) + i].kids =
            IF i < m THEN << <<key[en[i] + 1], Len(ns) + i + 1>> >> ELSE <<>>

\* One child.
LEMMA OneKid ==
  ASSUME NEW b \in Byte, NEW c \in Nat, NEW k, k = << <<b, c>> >>
  PROVE  /\ k \in KidSeq /\ Distinct(k) /\ Len(k) = 1 /\ DOMAIN k = {1} /\ k[1] = <<b, c>>
         /\ \A b2 \in Byte : KidOf(k, b2) = IF b2 = b THEN c ELSE 0
<1>1. k \in KidSeq /\ Len(k) = 1 /\ DOMAIN k = {1} /\ k[1] = <<b, c>>
  BY DEF KidSeq
<1>2. Distinct(k)
  BY <1>1 DEF Distinct
<1>3. k[1][1] = b /\ k[1][2] = c
  BY <1>1
<1>. QED BY <1>1, <1>2, <1>3, KidFacts

\* Where the nodes of a chain end.
LEMMA ChainEnds ==
  ASSUME NEW len \in Nat, NEW d \in Nat, d <= len,
         NEW m, m = (len - d) \div (PrefixMax + 1) + 1
  PROVE  /\ m \in Nat /\ m >= 1 /\ m <= len - d + 1
         /\ \A i \in 1 .. m : i < m =>
              LET end == d + (i - 1) * (PrefixMax + 1) + PrefixMax IN
              end \in Nat /\ end < len /\ d + (i - 1) * (PrefixMax + 1) <= end
         /\ d + (m - 1) * (PrefixMax + 1) <= len
<1>. DEFINE x == len - d
            w == PrefixMax + 1
            q == x \div w
<1>1. PrefixMax \in Nat
  BY ArtAssumption, Zenon
<1>2. x \in Nat /\ w \in Nat /\ w > 0
  BY <1>1
<1>. HIDE DEF x, w
<1>3. q \in Nat /\ q * w <= x /\ q <= x
  BY <1>2
<1>4. m = q + 1
  BY DEF q, x, w
<1>. HIDE DEF q
<1>5. ASSUME NEW i \in 1 .. m, i < m
      PROVE  LET end == d + (i - 1) * w + PrefixMax IN
             end \in Nat /\ end < len /\ d + (i - 1) * w <= end
  <2>1. PICK a \in Nat : a = i - 1 /\ a < q
    BY <1>3, <1>4, <1>5
  <2>2. a * w \in Nat /\ q * w \in Nat /\ a * w + w <= q * w
    BY <1>2, <1>3, <2>1
  <2>. DEFINE aw == a * w
  <2>3. aw \in Nat /\ aw + w <= x
    BY <1>2, <1>3, <2>2
  <2>. HIDE DEF aw
  <2>4. LET end == d + aw + PrefixMax IN end \in Nat /\ end < len /\ d + aw <= end
    BY <1>1, <2>3 DEF x, w
  <2>. QED BY <2>1, <2>4 DEF aw
<1>6. d + (m - 1) * w <= len
  <2>1. m - 1 = q
    BY <1>3, <1>4
  <2>. DEFINE qw == q * w
  <2>2. qw \in Nat /\ qw <= x
    BY <1>2, <1>3
  <2>. HIDE DEF qw
  <2>3. d + qw <= len
    BY <2>2 DEF x
  <2>. QED BY <2>1, <2>3 DEF qw
<1>7. m \in Nat /\ m >= 1 /\ m <= len - d + 1
  BY <1>3, <1>4 DEF x
<1>. QED BY <1>5, <1>6, <1>7 DEF w

\* A product with a number.
LEMMA MulFacts ==
  ASSUME NEW a \in Nat, NEW b \in Nat, NEW w \in Nat
  PROVE  a * w \in Nat /\ (a + 1) * w = a * w + w /\ (a < b => a * w < b * w \/ w = 0)
OBVIOUS

\* The nodes of a chain of m nodes begin at g and end at en.
Begins(g, d, len, m, P) ==
  /\ P \in Nat /\ m \in Nat /\ m >= 1 /\ m <= len - d + 1
  /\ g[1] = d /\ g[m] <= len
  /\ \A i \in 1 .. m : g[i] \in Nat
  /\ \A i \in 1 .. m : i # 1 => g[i] = g[i - 1] + P + 1
  /\ \A i \in 1 .. m : \A j \in 1 .. m : i < j => g[i] < g[j]
  /\ \A i \in 1 .. m : i < m => g[i] + P < len
Stops(en, g, len, m, P) == \A i \in 1 .. m : en[i] = IF i < m THEN g[i] + P ELSE len

\* The ends of a chain from its beginnings.
LEMMA EndsFrom ==
  ASSUME NEW key \in Seq(Byte), NEW d \in 0 .. Len(key), NEW P,
         NEW m, NEW g, NEW en, Begins(g, d, Len(key), m, P), Stops(en, g, Len(key), m, P)
  PROVE  Ending(en, d, key, m) /\ \A i \in 1 .. m : From(en, d, i) = g[i]
<1>. USE DEF Begins, Stops
<1>1. ASSUME NEW i \in 1 .. m PROVE From(en, d, i) = g[i]
  <2>1. CASE i = 1
    BY <2>1 DEF From
  <2>2. CASE i # 1
    <3>1. i - 1 \in 1 .. m /\ i - 1 < m
      BY <2>2
    <3>2. en[i - 1] = g[i - 1] + P
      BY <3>1
    <3>. QED BY <2>2, <3>2 DEF From
  <2>. QED BY <2>1, <2>2
<1>2. ASSUME NEW i \in 1 .. m
      PROVE  en[i] \in Nat /\ en[i] <= Len(key) /\ From(en, d, i) \in Nat /\ From(en, d, i) <= en[i]
  <2>1. g[i] \in Nat /\ From(en, d, i) = g[i]
    BY <1>1
  <2>2. CASE i < m
    BY <2>1, <2>2
  <2>3. CASE i = m
    BY <2>1, <2>3
  <2>. QED BY <2>2, <2>3
<1>3. ASSUME NEW i \in 1 .. m, NEW j \in 1 .. m, i < j PROVE en[i] < en[j]
  <2>1. i < m /\ en[i] = g[i] + P /\ en[i] < Len(key) /\ g[i] < g[j] /\ g[i] \in Nat /\ g[j] \in Nat
    BY <1>3
  <2>2. en[j] = IF j < m THEN g[j] + P ELSE Len(key)
    OBVIOUS
  <2>. QED BY <2>1, <2>2
<1>4. en[m] = Len(key)
  OBVIOUS
<1>. QED BY <1>1, <1>2, <1>3, <1>4 DEF Ending

\* The number and the ends of the nodes that art_leaf_chain makes.
Pieces(key, d, m, en) ==
  /\ m = (Len(key) - d) \div (PrefixMax + 1) + 1
  /\ en = [i \in 1 .. m |-> IF i < m THEN d + (i - 1) * (PrefixMax + 1) + PrefixMax ELSE Len(key)]

\* The pieces art_leaf_chain cuts a key into follow one another and end with it.
LEMMA ChainEnding ==
  ASSUME NEW key \in Seq(Byte), NEW d \in 0 .. Len(key), NEW m, NEW en, Pieces(key, d, m, en)
  PROVE  /\ Ending(en, d, key, m)
         /\ \A i \in 1 .. m : From(en, d, i) = d + (i - 1) * (PrefixMax + 1)
<1>. DEFINE w == PrefixMax + 1
            len == Len(key)
            g == [i \in 1 .. m |-> d + (i - 1) * w]
<1>1. PrefixMax \in Nat /\ w \in Nat /\ w > 0 /\ len \in Nat /\ d \in Nat /\ d <= len
  BY ArtAssumption
<1>2. /\ m \in Nat /\ m >= 1 /\ m <= len - d + 1
      /\ \A i \in 1 .. m : i < m =>
           /\ d + (i - 1) * w + PrefixMax \in Nat /\ d + (i - 1) * w + PrefixMax < len
           /\ d + (i - 1) * w <= d + (i - 1) * w + PrefixMax
      /\ d + (m - 1) * w <= len
  <2>1. m = (len - d) \div w + 1
    BY DEF Pieces
  <2>. QED BY <1>1, <2>1, ChainEnds
<1>3. \A i \in 1 .. m : g[i] = d + (i - 1) * w
  OBVIOUS
<1>4. \A i \in 1 .. m : en[i] = IF i < m THEN g[i] + PrefixMax ELSE len
  BY DEF Pieces
<1>5. g[m] <= len /\ \A i \in 1 .. m : i < m => g[i] + PrefixMax < len
  BY <1>2, <1>3
<1>. HIDE DEF w, len, g
<1>6. \A i \in 1 .. m : g[i] \in Nat
  <2>1. SUFFICES ASSUME NEW i \in 1 .. m PROVE g[i] \in Nat
    OBVIOUS
  <2>2. PICK a \in Nat : a = i - 1
    BY <1>2
  <2>. DEFINE aw == a * w
  <2>3. aw \in Nat
    BY <1>1, MulFacts
  <2>4. g[i] = d + aw
    BY <1>3, <2>2, Zenon
  <2>. HIDE DEF aw
  <2>5. d + aw \in Nat
    BY <1>1, <2>3
  <2>. QED BY <2>4, <2>5, Zenon
<1>7. \A i \in 1 .. m : i # 1 => g[i] = g[i - 1] + PrefixMax + 1
  <2>1. SUFFICES ASSUME NEW i \in 1 .. m, i # 1 PROVE g[i] = g[i - 1] + PrefixMax + 1
    OBVIOUS
  <2>2. PICK a \in Nat : a = i - 2
    BY <1>2, <2>1
  <2>. DEFINE aw == a * w
              bw == (a + 1) * w
  <2>3. bw = aw + w /\ aw \in Nat
    BY <1>1, MulFacts
  <2>4. i - 1 = a + 1 /\ (i - 1) - 1 = a /\ i - 1 \in 1 .. m
    BY <1>2, <2>1, <2>2
  <2>5. g[i] = d + bw
    BY <1>3, <2>4, Zenon
  <2>6. g[i - 1] = d + aw
    BY <1>3, <2>4, Zenon
  <2>. HIDE DEF aw, bw
  <2>7. d + bw = d + aw + PrefixMax + 1
    BY <1>1, <2>3 DEF w
  <2>. QED BY <2>5, <2>6, <2>7, Zenon
<1>8. \A i \in 1 .. m : \A j \in 1 .. m : i < j => g[i] < g[j]
  <2>1. SUFFICES ASSUME NEW i \in 1 .. m, NEW j \in 1 .. m, i < j PROVE g[i] < g[j]
    OBVIOUS
  <2>2. PICK a \in Nat, b \in Nat : a = i - 1 /\ b = j - 1 /\ a < b
    BY <1>2, <2>1
  <2>. DEFINE aw == a * w
              bw == b * w
  <2>3. aw < bw /\ aw \in Nat /\ bw \in Nat
    BY <1>1, <2>2, MulFacts
  <2>4. g[i] = d + aw
    BY <1>3, <2>2, Zenon
  <2>5. g[j] = d + bw
    BY <1>3, <2>2, Zenon
  <2>. HIDE DEF aw, bw
  <2>6. d + aw < d + bw
    BY <1>1, <2>3
  <2>. QED BY <2>4, <2>5, <2>6, Zenon
<1>9. g[1] = d
  <2>1. 1 \in 1 .. m /\ 0 * w = 0 /\ 1 - 1 = 0
    BY <1>1, <1>2
  <2>2. g[1] = d + 0 * w
    BY <1>3, <2>1, Zenon
  <2>. QED BY <1>1, <2>1, <2>2
<1>10. Begins(g, d, len, m, PrefixMax)
  BY <1>1, <1>2, <1>5, <1>6, <1>7, <1>8, <1>9, Zenon DEF Begins
<1>11. Stops(en, g, len, m, PrefixMax)
  BY <1>4, Zenon DEF Stops
<1>12. Ending(en, d, key, m) /\ \A i \in 1 .. m : From(en, d, i) = g[i]
  <2>1. Begins(g, d, Len(key), m, PrefixMax) /\ Stops(en, g, Len(key), m, PrefixMax)
    BY <1>10, <1>11, Zenon DEF len
  <2>. QED BY <2>1, EndsFrom
<1>13. \A i \in 1 .. m : From(en, d, i) = d + (i - 1) * w
  BY <1>3, <1>12, Zenon
<1>. QED BY <1>12, <1>13, Zenon DEF w

\* A function on 1 .. n is a sequence.
LEMMA SeqFrom ==
  ASSUME NEW T, NEW n \in Nat, NEW s \in [1 .. n -> T]
  PROVE  s \in Seq(T) /\ Len(s) = n
OBVIOUS

\* art_leaf_chain when all allocations succeed.
LEMMA ChainFacts ==
  ASSUME NEW ns, NodesOK(ns), NEW key \in Seq(Byte), NEW d \in 0 .. Len(key),
         NEW v \in Values, NEW lim \in Nat, Len(ns) + Len(key) - d + 1 <= lim
  PROVE  /\ art_leaf_chain(ns, lim, key, d, v).id = Len(ns) + 1
         /\ \E m, en : /\ Ending(en, d, key, m)
                       /\ Chained(ns, key, d, v, art_leaf_chain(ns, lim, key, d, v).ns, m, en)
<1>. DEFINE L == Len(ns)
            n == (Len(key) - d) \div (PrefixMax + 1) + 1
            made == IF Len(ns) + n <= lim THEN n ELSE lim - Len(ns)
            end(i) == d + (i - 1) * (PrefixMax + 1) + PrefixMax
            Piece(i) ==
              [kind |-> N4, fwd |-> 0,
               prefix |-> SubSeq(key, end(i) - PrefixMax + 1, IF i < n THEN end(i) ELSE Len(key)),
               kids |-> IF i < n /\ made = n THEN <<<<key[end(i) + 1], Len(ns) + i + 1>>>> ELSE <<>>,
               val |-> IF i = n THEN v ELSE None]
            en == [i \in 1 .. n |-> IF i < n THEN end(i) ELSE Len(key)]
            s == [i \in 1 .. n |-> Piece(i)]
            new == art_leaf_chain(ns, lim, key, d, v).ns
<1>1. art_leaf_chain(ns, lim, key, d, v) =
        [ns |-> ns \o [i \in 1 .. made |-> Piece(i)], id |-> IF made = n THEN Len(ns) + 1 ELSE 0]
  BY Zenon DEF art_leaf_chain
<1>2. /\ Ending(en, d, key, n)
      /\ \A i \in 1 .. n : From(en, d, i) = d + (i - 1) * (PrefixMax + 1)
  <2>1. Pieces(key, d, n, en)
    BY Zenon DEF Pieces
  <2>. HIDE DEF n, en
  <2>. QED BY <2>1, ChainEnding
<1>3. /\ L \in Nat /\ Len(key) \in Nat /\ d \in Nat /\ d <= Len(key) /\ PrefixMax \in Nat
  BY ArtAssumption DEF NodesOK
<1>4. /\ n \in Nat /\ n >= 1 /\ n <= Len(key) - d + 1
      /\ en[n] = Len(key)
      /\ \A i \in 1 .. n : en[i] \in Nat /\ en[i] <= Len(key) /\ From(en, d, i) \in Nat /\ From(en, d, i) <= en[i]
      /\ \A i \in 1 .. n : \A j \in 1 .. n : i < j => en[i] < en[j]
  BY <1>2, Zenon DEF Ending
<1>5. made = n
  <2>. HIDE DEF n
  <2>1. Len(ns) + n <= lim
    BY <1>3, <1>4
  <2>. QED BY <2>1
<1>6. new = ns \o s /\ art_leaf_chain(ns, lim, key, d, v).id = L + 1
  <2>. HIDE DEF made, n, Piece
  <2>1. s = [i \in 1 .. made |-> Piece(i)]
    BY <1>5, Zenon
  <2>2. art_leaf_chain(ns, lim, key, d, v) = [ns |-> ns \o s, id |-> L + 1]
    BY <1>1, <1>5, <2>1, Zenon
  <2>. HIDE DEF s
  <2>. QED BY <2>2
<1>7. ASSUME NEW i \in 1 .. n
      PROVE  /\ s[i] \in Node /\ s[i].kind = N4 /\ s[i].fwd = 0
             /\ s[i].prefix = SubSeq(key, From(en, d, i) + 1, en[i])
             /\ s[i].val = IF i = n THEN v ELSE None
             /\ s[i].kids = IF i < n THEN << <<key[en[i] + 1], L + i + 1>> >> ELSE <<>>
             /\ NodeOK(s[i], L + n)
  <2>1. s[i] = Piece(i)
    BY Zenon
  <2>2. en[i] = IF i < n THEN end(i) ELSE Len(key)
    BY Zenon
  <2>3. From(en, d, i) = end(i) - PrefixMax
    <3>1. From(en, d, i) = d + (i - 1) * (PrefixMax + 1)
      BY <1>2
    <3>. DEFINE z == (i - 1) * (PrefixMax + 1)
    <3>2. z \in Int
      BY <1>3
    <3>3. From(en, d, i) = d + z /\ end(i) = d + z + PrefixMax
      BY <3>1
    <3>. HIDE DEF z, en, n
    <3>. QED BY <1>3, <3>2, <3>3
  <2>4. /\ Piece(i).kind = N4 /\ Piece(i).fwd = 0
        /\ Piece(i).prefix = SubSeq(key, end(i) - PrefixMax + 1, IF i < n THEN end(i) ELSE Len(key))
        /\ Piece(i).kids = IF i < n /\ made = n THEN <<<<key[end(i) + 1], Len(ns) + i + 1>>>> ELSE <<>>
        /\ Piece(i).val = IF i = n THEN v ELSE None
        /\ Piece(i) = [kind |-> Piece(i).kind, fwd |-> Piece(i).fwd, prefix |-> Piece(i).prefix,
                       kids |-> Piece(i).kids, val |-> Piece(i).val]
    BY Zenon
  <2>. DEFINE r == Piece(i)
  <2>. HIDE DEF s, Piece
  <2>5. /\ s[i].kind = N4 /\ s[i].fwd = 0
        /\ s[i].prefix = SubSeq(key, From(en, d, i) + 1, en[i])
        /\ s[i].val = IF i = n THEN v ELSE None
        /\ s[i].kids = IF i < n THEN << <<key[en[i] + 1], L + i + 1>> >> ELSE <<>>
    <3>. HIDE DEF n, made, en, end
    <3>1. i < n => s[i].kids = << <<key[en[i] + 1], L + i + 1>> >>
      BY <1>5, <2>1, <2>2, <2>4, Zenon
    <3>2. ~(i < n) => s[i].kids = <<>>
      BY <2>1, <2>4, Zenon
    <3>3. s[i].prefix = SubSeq(key, From(en, d, i) + 1, en[i])
      BY <2>1, <2>2, <2>3, <2>4, Zenon
    <3>. QED BY <2>1, <2>4, <3>1, <3>2, <3>3, Zenon
  <2>. HIDE DEF n, made, en, end
  <2>6. s[i].prefix \in Seq(Byte)
    <3>1. \A a \in 1 .. Len(key) : key[a] \in Byte
      OBVIOUS
    <3>. PICK a \in Nat, b \in Nat : a = From(en, d, i) /\ b = en[i] /\ a <= b /\ b <= Len(key)
      BY <1>4
    <3>2. SubSeq(key, a + 1, b) \in Seq(Byte)
      OBVIOUS
    <3>. QED BY <2>5, <3>2
  <2>7. /\ s[i].kids \in KidSeq /\ Distinct(s[i].kids) /\ Len(s[i].kids) <= 1
        /\ \A j \in DOMAIN s[i].kids : s[i].kids[j][2] \in 1 .. L + n
    <3>1. CASE i < n
      <4>1. en[i] + 1 \in 1 .. Len(key) /\ L + i + 1 \in 1 .. L + n
        BY <1>3, <1>4, <3>1, SMTT(40)
      <4>2. key[en[i] + 1] \in Byte /\ L + i + 1 \in Nat
        BY <1>3, <4>1
      <4>3. s[i].kids = << <<key[en[i] + 1], L + i + 1>> >>
        BY <2>5, <3>1, Zenon
      <4>4. /\ s[i].kids \in KidSeq /\ Distinct(s[i].kids) /\ Len(s[i].kids) = 1
            /\ DOMAIN s[i].kids = {1} /\ s[i].kids[1] = <<key[en[i] + 1], L + i + 1>>
        BY <4>2, <4>3, OneKid, ZenonT(40)
      <4>. QED BY <4>1, <4>4
    <3>2. CASE ~(i < n)
      BY <2>5, <3>2, NoKids
    <3>. QED BY <3>1, <3>2
  <2>8. s[i] \in Node
    <3>1. s[i] = [kind |-> s[i].kind, fwd |-> s[i].fwd, prefix |-> s[i].prefix,
                  kids |-> s[i].kids, val |-> s[i].val]
      BY <2>1, <2>4, Zenon
    <3>2. s[i].kind \in 1 .. 5 /\ s[i].fwd \in Nat /\ s[i].val \in Values \union {None}
      BY <2>5 DEF N4
    <3>. PICK k1, k2, k3, k4, k5 : /\ k1 = s[i].kind /\ k2 = s[i].fwd /\ k3 = s[i].prefix
                                  /\ k4 = s[i].kids /\ k5 = s[i].val
      OBVIOUS
    <3>3. s[i] = [kind |-> k1, fwd |-> k2, prefix |-> k3, kids |-> k4, val |-> k5]
      BY <3>1, Zenon
    <3>4. k1 \in 1 .. 5 /\ k2 \in Nat /\ k3 \in Seq(Byte) /\ k4 \in KidSeq /\ k5 \in Values \union {None}
      BY <2>6, <2>7, <3>2, Zenon
    <3>5. [kind |-> k1, fwd |-> k2, prefix |-> k3, kids |-> k4, val |-> k5] \in Node
      BY <3>4 DEF Node
    <3>. QED BY <3>3, <3>5, Zenon
  <2>9. NodeOK(s[i], L + n)
    <3>1. Len(s[i].kids) <= Cap[s[i].kind] /\ s[i].kind # N16
      <4>1. s[i].kind = N4 /\ Len(s[i].kids) <= 1 /\ Len(s[i].kids) \in Nat
        BY <2>5, <2>7, KidType
      <4>2. Cap[1] \in Nat /\ Cap[1] > 1
        BY CapFacts
      <4>. QED BY <4>1, <4>2 DEF N4, N16
    <3>2. s[i].fwd \in 0 .. L + n
      BY <1>3, <1>4, <2>5
    <3>. QED BY <2>7, <2>8, <3>1, <3>2, Zenon DEF NodeOK
  <2>. QED BY <2>5, <2>8, <2>9, Zenon
<1>8. s \in Seq(Node) /\ Len(s) = n
  <2>1. s = [i \in 1 .. n |-> s[i]]
    OBVIOUS
  <2>. HIDE DEF s, n
  <2>2. \A i \in 1 .. n : s[i] \in Node
    BY <1>7, Zenon
  <2>3. s \in [1 .. n -> Node]
    BY <2>1, <2>2
  <2>. QED BY <1>4, <2>3, SeqFrom
<1>. HIDE DEF s, n, en, new, made
<1>9. \A i \in 1 .. Len(s) : NodeOK(s[i], Len(ns) + Len(s))
  BY <1>7, <1>8
<1>10. /\ NodesOK(new) /\ Len(new) = L + n
       /\ \A z \in 1 .. L : new[z] = ns[z]
       /\ \A i \in 1 .. n : new[L + i] = s[i]
  BY <1>6, <1>8, <1>9, MoreNodes
<1>11. Chained(ns, key, d, v, new, n, en)
  BY <1>7, <1>10 DEF Chained
<1>. QED BY <1>2, <1>6, <1>11 DEF new

\* Without room nothing is made.
LEMMA NoChain ==
  ASSUME NEW ns, NodesOK(ns), NEW key \in Seq(Byte), NEW d \in 0 .. Len(key), NEW v
  PROVE  /\ art_leaf_chain(ns, Len(ns), key, d, v).id = 0
         /\ art_leaf_chain(ns, Len(ns), key, d, v).ns = ns
<1>. DEFINE n == (Len(key) - d) \div (PrefixMax + 1) + 1
            made == IF Len(ns) + n <= Len(ns) THEN n ELSE Len(ns) - Len(ns)
            end(i) == d + (i - 1) * (PrefixMax + 1) + PrefixMax
            Piece(i) ==
              [kind |-> N4, fwd |-> 0,
               prefix |-> SubSeq(key, end(i) - PrefixMax + 1, IF i < n THEN end(i) ELSE Len(key)),
               kids |-> IF i < n /\ made = n THEN <<<<key[end(i) + 1], Len(ns) + i + 1>>>> ELSE <<>>,
               val |-> IF i = n THEN v ELSE None]
            s == [i \in 1 .. made |-> Piece(i)]
<1>1. art_leaf_chain(ns, Len(ns), key, d, v) =
        [ns |-> ns \o s, id |-> IF made = n THEN Len(ns) + 1 ELSE 0]
  BY Zenon DEF art_leaf_chain
<1>2. n \in Nat /\ n >= 1
  <2>1. PrefixMax \in Nat /\ Len(key) \in Nat /\ Len(key) - d \in Nat
    BY ArtAssumption
  <2>. QED BY <2>1, ChainEnds
<1>3. ns \in Seq(Node) /\ Len(ns) \in Nat
  BY DEF NodesOK
<1>4. made = 0 /\ made # n
  <2>. HIDE DEF n
  <2>. QED BY <1>2, <1>3
<1>5. s = <<>>
  <2>. HIDE DEF Piece, made
  <2>1. 1 .. made = {}
    BY <1>4
  <2>2. s = [i \in {} |-> Piece(i)]
    BY <2>1, Zenon
  <2>. QED BY <2>2
<1>6. ns \o s = ns
  <2>. HIDE DEF s
  <2>. QED BY <1>3, <1>5, ConcatEmptySeq
<1>7. art_leaf_chain(ns, Len(ns), key, d, v) = [ns |-> ns, id |-> 0]
  <2>. HIDE DEF s, made, n
  <2>. QED BY <1>1, <1>4, <1>6, Zenon
<1>. QED BY <1>7

------------------------------------------------------------------------------
(* Walks *)

\* A prefix that matches the rest of a key ends within the key.
LEMMA PrefixFacts ==
  ASSUME NEW p \in Seq(Byte), NEW s \in Seq(Byte), NEW d \in 0 .. Len(s)
  PROVE  IsPrefix(p, Rest(s, d)) <=>
           d + Len(p) <= Len(s) /\ \A i \in 1 .. Len(p) : p[i] = s[d + i]
<1>. DEFINE r == Rest(s, d)
<1>1. r \in Seq(Byte) /\ Len(r) = Len(s) - d /\ \A i \in 1 .. Len(s) - d : r[i] = s[d + i]
  BY RestFacts
<1>2. Len(s) \in Nat /\ d \in Nat /\ Len(p) \in Nat
  OBVIOUS
<1>. HIDE DEF r
<1>3. Len(p) <= Len(r) <=> d + Len(p) <= Len(s)
  BY <1>1, <1>2
<1>4. ASSUME Len(p) <= Len(r)
      PROVE  SubSeq(p, 1, Len(p)) = SubSeq(r, 1, Len(p)) <=> \A i \in 1 .. Len(p) : p[i] = s[d + i]
  <2>1. /\ SubSeq(p, 1, Len(p)) = p /\ SubSeq(r, 1, Len(p)) \in Seq(Byte)
        /\ Len(SubSeq(r, 1, Len(p))) = Len(p)
        /\ \A i \in 1 .. Len(p) : SubSeq(r, 1, Len(p))[i] = r[i]
    BY <1>1, <1>2, <1>4
  <2>2. \A i \in 1 .. Len(p) : r[i] = s[d + i]
    BY <1>1, <1>2, <1>4
  <2>. DEFINE q == SubSeq(r, 1, Len(p))
  <2>. HIDE DEF q
  <2>3. p = q <=> \A i \in 1 .. Len(p) : p[i] = q[i]
    BY <2>1 DEF q
  <2>. QED BY <2>1, <2>2, <2>3 DEF q
<1>. QED BY <1>3, <1>4 DEF IsPrefix, r

\* One step of art_walk.
Lost(ns, key, id, d) ==
  id = 0 \/ ns[id].kind = MOVED \/ ~IsPrefix(ns[id].prefix, Rest(key, d))
WalkStep(ns, key, id, d, r) ==
  LET e == d + Len(ns[id].prefix) IN
  IF Lost(ns, key, id, d) THEN r = 0
  ELSE IF e = Len(key) THEN r = IF ns[id].val = None THEN 0 ELSE id
  ELSE r = art_walk(ns, art_child(ns, id, key[e + 1]), key, e + 1)

\* Where a step leads.
LEMMA NextPlace ==
  ASSUME NEW ns, NodesOK(ns), NEW key \in Seq(Byte), NEW id \in 1 .. Len(ns), NEW d \in 0 .. Len(key),
         NEW e, e = d + Len(ns[id].prefix), e < Len(key)
  PROVE  /\ e \in Nat /\ d <= e /\ e + 1 \in 0 .. Len(key) /\ e + 1 \in 1 .. Len(key)
         /\ key[e + 1] \in Byte /\ art_child(ns, id, key[e + 1]) \in 0 .. Len(ns)
<1>1. NodeOK(ns[id], Len(ns))
  BY DEF NodesOK
<1>2. ns[id].prefix \in Seq(Byte)
  BY <1>1, NodeParts
<1>3. e \in Nat /\ d <= e /\ e + 1 \in 0 .. Len(key) /\ e + 1 \in 1 .. Len(key)
  BY <1>2
<1>4. key[e + 1] \in Byte
  BY <1>3
<1>. QED BY <1>3, <1>4, ChildIs

\* art_walk goes step by step.
LEMMA WalkEq ==
  ASSUME NEW ns, NodesOK(ns), NEW key \in Seq(Byte)
  PROVE  \A id \in 0 .. Len(ns) : \A d \in 0 .. Len(key) :
           WalkStep(ns, key, id, d, art_walk(ns, id, key, d))
<1>. DEFINE L == Len(ns)
            K == Len(key)
            D == (0 .. L) \X (0 .. K)
            end(x) == x[2] + Len(ns[x[1]].prefix)
            lost(x) == Lost(ns, key, x[1], x[2])
            go(x) == <<art_child(ns, x[1], key[end(x) + 1]), end(x) + 1>>
            have(x) == IF ns[x[1]].val = None THEN 0 ELSE x[1]
            B(f, x) == IF lost(x) THEN 0 ELSE IF end(x) = K THEN have(x) ELSE f[go(x)]
            stop == {x \in D : lost(x) \/ end(x) = K}
            out == [x \in D |-> IF lost(x) THEN 0 ELSE have(x)]
            nxt == [x \in D |-> go(x)]
            rank == [x \in D |-> K - x[2]]
            h == CHOOSE f : f = [x \in D |-> B(f, x)]
<1>1. L \in Nat /\ K \in Nat
  BY DEF NodesOK
<1>2. ASSUME NEW x \in D
      PROVE  x[1] \in 0 .. L /\ x[2] \in 0 .. K /\ x = <<x[1], x[2]>>
  OBVIOUS
<1>3. ASSUME NEW x \in D PROVE rank[x] \in 0 .. K
  BY <1>1
<1>4. ASSUME NEW x \in D, x \notin stop
      PROVE  nxt[x] \in D /\ rank[nxt[x]] < rank[x]
  <2>1. ~lost(x) /\ end(x) # K
    BY <1>4, Zenon
  <2>2. x[1] \in 1 .. L /\ IsPrefix(ns[x[1]].prefix, Rest(key, x[2]))
    <3>1. x[1] # 0 /\ IsPrefix(ns[x[1]].prefix, Rest(key, x[2]))
      BY <2>1, Zenon DEF Lost
    <3>. QED BY <1>1, <1>2, <3>1
  <2>3. ns[x[1]].prefix \in Seq(Byte)
    <3>1. NodeOK(ns[x[1]], L)
      BY <2>2 DEF NodesOK
    <3>. QED BY <3>1, NodeParts
  <2>4. end(x) < K
    <3>1. end(x) <= K /\ end(x) \in Nat
      BY <1>2, <2>2, <2>3, PrefixFacts
    <3>. QED BY <1>1, <2>1, <3>1
  <2>5. /\ end(x) \in Nat /\ x[2] <= end(x) /\ end(x) + 1 \in 0 .. K
        /\ art_child(ns, x[1], key[end(x) + 1]) \in 0 .. L
    BY <1>2, <2>2, <2>4, NextPlace
  <2>6. nxt[x] = go(x) /\ go(x)[2] = end(x) + 1
    OBVIOUS
  <2>7. go(x) \in D
    BY <2>5
  <2>8. rank[go(x)] = K - (end(x) + 1) /\ rank[x] = K - x[2]
    BY <2>6, <2>7, Zenon
  <2>9. K - (end(x) + 1) < K - x[2]
    <3>. HIDE DEF end
    <3>. QED BY <1>1, <1>2, <2>5
  <2>. HIDE DEF go, end, D, rank, nxt
  <2>. QED BY <2>6, <2>7, <2>8, <2>9
<1>5. PICK g : \A x \in D : g[x] = IF x \in stop THEN out[x] ELSE g[nxt[x]]
  <2>1. \A x \in D : x \notin stop => nxt[x] \in D /\ rank[nxt[x]] < rank[x]
    BY <1>4
  <2>2. \A x \in D : rank[x] \in 0 .. K
    BY <1>3
  <2>3. K \in Nat
    BY <1>1
  <2>. HIDE DEF D, stop, out, nxt, B, h, rank, K
  <2>4. Descends(D, stop, nxt, rank, K)
    BY <2>1, <2>2, Zenon DEF Descends
  <2>5. Ends(D, stop, out, nxt)
    BY <2>3, <2>4, WalkEnds, Zenon
  <2>. QED BY <2>5, Zenon DEF Ends
<1>. DEFINE f == [x \in D |-> g[x]]
<1>6. ASSUME NEW x \in D PROVE g[x] = B(f, x)
  <2>1. x \notin stop => f[go(x)] = g[go(x)] /\ nxt[x] = go(x)
    <3>1. x \notin stop => go(x) \in D
      BY <1>4
    <3>. HIDE DEF D, stop, go
    <3>. QED BY <3>1
  <2>2. x \in stop <=> lost(x) \/ end(x) = K
    BY Zenon
  <2>3. out[x] = IF lost(x) THEN 0 ELSE have(x)
    BY Zenon
  <2>4. g[x] = IF x \in stop THEN out[x] ELSE g[nxt[x]]
    BY <1>5, Zenon
  <2>. HIDE DEF stop, out, nxt, f, go, lost, end, have, K
  <2>. QED BY <2>1, <2>2, <2>3, <2>4
<1>7. f = [x \in D |-> B(f, x)]
  <2>. HIDE DEF B, D, stop, out, nxt
  <2>. QED BY <1>6
<1>. HIDE DEF f
<1>8. h = [x \in D |-> B(h, x)]
  <2>. HIDE DEF B, D
  <2>. QED BY <1>7
<1>9. \A x \in D : h[x] = B(h, x)
  <2>. HIDE DEF B, D, h
  <2>. QED BY <1>8
<1>10. \A id, d : art_walk(ns, id, key, d) = h[<<id, d>>]
  BY Zenon DEF art_walk, Lost
<1>. HIDE DEF h
<1>11. SUFFICES ASSUME NEW id \in 0 .. L, NEW d \in 0 .. K
                PROVE  WalkStep(ns, key, id, d, art_walk(ns, id, key, d))
  BY Zenon
<1>12. <<id, d>> \in D /\ <<id, d>>[1] = id /\ <<id, d>>[2] = d
  OBVIOUS
<1>13. h[<<id, d>>] = B(h, <<id, d>>)
  <2>. HIDE DEF B, D
  <2>. QED BY <1>9, <1>12
<1>. DEFINE e == d + Len(ns[id].prefix)
<1>14. B(h, <<id, d>>) = IF Lost(ns, key, id, d) THEN 0 ELSE IF e = K THEN IF ns[id].val = None THEN 0 ELSE id
                         ELSE h[<<art_child(ns, id, key[e + 1]), e + 1>>]
  BY <1>12, Zenon
<1>. HIDE DEF B
<1>15. art_walk(ns, id, key, d) =
         IF Lost(ns, key, id, d) THEN 0 ELSE IF e = K THEN IF ns[id].val = None THEN 0 ELSE id
         ELSE art_walk(ns, art_child(ns, id, key[e + 1]), key, e + 1)
  BY <1>10, <1>13, <1>14, Zenon
<1>. QED BY <1>15, Zenon DEF WalkStep

------------------------------------------------------------------------------
(* The nodes have the shape *)

ChOf(ns) == [e \in (1 .. Len(ns)) \X Byte |-> art_child(ns, e[1], e[2])]

\* The nodes S are the tree below top; lab: the bytes up to the end of each; st:
\* how many of them come before its prefix.
Tree(ns, S, lab, st, top) ==
  /\ NodesOK(ns) /\ S \subseteq 1 .. Len(ns)
  /\ \A x \in S : ns[x].kind # MOVED /\ ns[x].prefix = Rest(lab[x], st[x])
  /\ Shape(S, lab, st, ChOf(ns), top)

\* The parts of the shape.
LEMMA TreeParts ==
  ASSUME NEW ns, NEW S, NEW lab, NEW st, NEW top, Tree(ns, S, lab, st, top)
  PROVE  /\ NodesOK(ns) /\ Len(ns) \in Nat /\ S \subseteq 1 .. Len(ns)
         /\ \A x \in S : x \in 1 .. Len(ns) /\ x \in Nat /\ x # 0
         /\ Labels(S, lab, st) /\ Top(S, st, top) /\ Branches(S, lab, st, ChOf(ns))
         /\ Complete(S, lab, ChOf(ns)) /\ Apart(S, lab, st) /\ OneNode(S, lab)
         /\ Shape(S, lab, st, ChOf(ns), top)
         /\ top \in 0 .. Len(ns)
<1>1. /\ NodesOK(ns) /\ S \subseteq 1 .. Len(ns) /\ Shape(S, lab, st, ChOf(ns), top)
  BY Zenon DEF Tree
<1>2. Len(ns) \in Nat
  BY <1>1 DEF NodesOK
<1>3. /\ Labels(S, lab, st) /\ Top(S, st, top) /\ Branches(S, lab, st, ChOf(ns))
      /\ Complete(S, lab, ChOf(ns)) /\ Apart(S, lab, st) /\ OneNode(S, lab)
  BY <1>1, Zenon DEF Shape
<1>4. top \in 0 .. Len(ns)
  <2>1. top = 0 \/ top \in S
    BY <1>3, Zenon DEF Top
  <2>2. top \in S => top \in 1 .. Len(ns)
    BY <1>1, Zenon
  <2>. QED BY <1>2, <2>1, <2>2
<1>5. \A x \in S : x \in 1 .. Len(ns) /\ x \in Nat /\ x # 0
  BY <1>1, <1>2
<1>. QED BY <1>1, <1>2, <1>3, <1>4, <1>5, Zenon

\* A node of the tree.
NodeIn(ns, lab, st, x) ==
         /\ lab[x] \in Seq(Byte) /\ Len(lab[x]) \in Nat /\ st[x] \in Nat /\ st[x] <= Len(lab[x])
         /\ ns[x].kind # MOVED /\ ns[x].prefix \in Seq(Byte)
         /\ st[x] + Len(ns[x].prefix) = Len(lab[x]) /\ Len(ns[x].prefix) \in Nat
         /\ \A i \in 1 .. Len(ns[x].prefix) : ns[x].prefix[i] = lab[x][st[x] + i]
         /\ \A b \in Byte : ChOf(ns)[<<x, b>>] = art_child(ns, x, b)
         /\ \A b \in Byte : ChOf(ns)[<<x, b>>] = KidOf(ns[x].kids, b)
         /\ NodeOK(ns[x], Len(ns))

\* What is known of a node of the tree.
LEMMA TreeNode ==
  ASSUME NEW ns, NEW S, NEW lab, NEW st, NEW top, Tree(ns, S, lab, st, top), NEW x \in S
  PROVE  NodeIn(ns, lab, st, x)
<1>1. NodesOK(ns) /\ x \in 1 .. Len(ns) /\ Labels(S, lab, st)
  BY TreeParts
<1>2. lab[x] \in Seq(Byte) /\ Len(lab[x]) \in Nat /\ st[x] \in Nat /\ st[x] <= Len(lab[x])
  BY <1>1 DEF Labels
<1>3. ns[x].kind # MOVED /\ ns[x].prefix = Rest(lab[x], st[x])
  BY DEF Tree
<1>4. st[x] \in 0 .. Len(lab[x])
  BY <1>2
<1>5. /\ Rest(lab[x], st[x]) \in Seq(Byte) /\ Len(Rest(lab[x], st[x])) = Len(lab[x]) - st[x]
      /\ \A i \in 1 .. Len(lab[x]) - st[x] : Rest(lab[x], st[x])[i] = lab[x][st[x] + i]
  BY <1>2, <1>4, RestFacts
<1>6. /\ ns[x].prefix \in Seq(Byte)
      /\ st[x] + Len(ns[x].prefix) = Len(lab[x]) /\ Len(ns[x].prefix) \in Nat
      /\ \A i \in 1 .. Len(ns[x].prefix) : ns[x].prefix[i] = lab[x][st[x] + i]
  BY <1>2, <1>3, <1>5
<1>7. ASSUME NEW b \in Byte
      PROVE  ChOf(ns)[<<x, b>>] = art_child(ns, x, b) /\ ChOf(ns)[<<x, b>>] = KidOf(ns[x].kids, b)
  <2>1. ChOf(ns)[<<x, b>>] = art_child(ns, x, b)
    BY <1>1 DEF ChOf
  <2>2. art_child(ns, x, b) = KidOf(ns[x].kids, b)
    BY <1>1, <1>3, ChildIs
  <2>. QED BY <2>1, <2>2
<1>8. NodeOK(ns[x], Len(ns))
  BY <1>1 DEF NodesOK
<1>. QED BY <1>2, <1>3, <1>6, <1>7, <1>8, Zenon DEF NodeIn

\* The walk for a key can be at node x: it shares the bytes before its prefix.
At(S, lab, st, key, x) == x \in S /\ st[x] <= Len(key) /\ Agree(lab[x], key, st[x])

\* The prefix matches when the label of the node is a prefix of the key.
LEMMA MatchIs ==
  ASSUME NEW ns, NEW S, NEW lab, NEW st, NEW top, Tree(ns, S, lab, st, top),
         NEW key \in Seq(Byte), NEW x, At(S, lab, st, key, x)
  PROVE  IsPrefix(ns[x].prefix, Rest(key, st[x])) <=> Within(lab[x], key)
<1>1. x \in S /\ st[x] <= Len(key) /\ Agree(lab[x], key, st[x])
  BY DEF At
<1>2. /\ lab[x] \in Seq(Byte) /\ Len(lab[x]) \in Nat /\ st[x] \in Nat /\ st[x] <= Len(lab[x])
      /\ ns[x].prefix \in Seq(Byte)
      /\ st[x] + Len(ns[x].prefix) = Len(lab[x]) /\ Len(ns[x].prefix) \in Nat
      /\ \A i \in 1 .. Len(ns[x].prefix) : ns[x].prefix[i] = lab[x][st[x] + i]
  <2>1. NodeIn(ns, lab, st, x)
    BY <1>1, TreeNode, Zenon
  <2>. QED BY <2>1, Zenon DEF NodeIn
<1>3. st[x] \in 0 .. Len(key)
  BY <1>1, <1>2
<1>4. IsPrefix(ns[x].prefix, Rest(key, st[x])) <=>
        /\ st[x] + Len(ns[x].prefix) <= Len(key)
        /\ \A i \in 1 .. Len(ns[x].prefix) : ns[x].prefix[i] = key[st[x] + i]
  BY <1>2, <1>3, PrefixFacts
<1>. DEFINE p == ns[x].prefix
<1>5. ASSUME \A i \in 1 .. Len(p) : p[i] = key[st[x] + i] PROVE Agree(lab[x], key, Len(lab[x]))
  <2>1. SUFFICES ASSUME NEW i \in 1 .. Len(lab[x]) PROVE lab[x][i] = key[i]
    BY DEF Agree
  <2>2. CASE i <= st[x]
    BY <1>1, <1>2, <2>2 DEF Agree
  <2>3. CASE ~(i <= st[x])
    <3>1. PICK j \in 1 .. Len(p) : i = st[x] + j
      <4>1. i - st[x] \in 1 .. Len(p) /\ i = st[x] + (i - st[x])
        BY <1>2, <2>3, SMTT(40)
      <4>. QED BY <4>1
    <3>. QED BY <1>2, <1>5, <3>1
  <2>. QED BY <2>2, <2>3
<1>6. ASSUME Agree(lab[x], key, Len(lab[x])) PROVE \A i \in 1 .. Len(p) : p[i] = key[st[x] + i]
  <2>1. SUFFICES ASSUME NEW i \in 1 .. Len(p) PROVE p[i] = key[st[x] + i]
    OBVIOUS
  <2>2. st[x] + i \in 1 .. Len(lab[x])
    BY <1>2
  <2>. QED BY <1>2, <1>6, <2>2 DEF Agree
<1>. QED BY <1>2, <1>4, <1>5, <1>6 DEF Within

\* The child to which a walk for key goes from x.
OnTo(ns, S, lab, st, key, x, c) ==
  /\ key[Len(lab[x]) + 1] \in Byte /\ c \in 0 .. Len(ns)
  /\ c = ChOf(ns)[<<x, key[Len(lab[x]) + 1]>>]
  /\ c # 0 => At(S, lab, st, key, c) /\ st[c] = Len(lab[x]) + 1 /\ Len(lab[x]) < Len(lab[c])
  /\ c = 0 => \A y \in S : ~(Len(lab[x]) < Len(lab[y]) /\ Agree(lab[y], key, Len(lab[x]) + 1))

\* From a node whose label the key goes on from, the walk goes to the child.
LEMMA GoesOn ==
  ASSUME NEW ns, NEW S, NEW lab, NEW st, NEW top, Tree(ns, S, lab, st, top),
         NEW key \in Seq(Byte), NEW x \in S, Within(lab[x], key), Len(lab[x]) < Len(key),
         NEW c, c = art_child(ns, x, key[Len(lab[x]) + 1])
  PROVE  OnTo(ns, S, lab, st, key, x, c)
<1>1. NodesOK(ns) /\ x \in 1 .. Len(ns) /\ Branches(S, lab, st, ChOf(ns)) /\ Complete(S, lab, ChOf(ns))
  BY TreeParts
<1>2. /\ lab[x] \in Seq(Byte) /\ Len(lab[x]) \in Nat
      /\ \A b \in Byte : ChOf(ns)[<<x, b>>] = art_child(ns, x, b)
  BY TreeNode DEF NodeIn
<1>3. PICK n \in Nat : n = Len(lab[x])
  BY <1>2
<1>4. n + 1 \in 1 .. Len(key) /\ key[n + 1] \in Byte /\ Agree(lab[x], key, n)
  <2>1. n + 1 \in 1 .. Len(key)
    BY <1>3
  <2>. QED BY <2>1, <1>3 DEF Within
<1>5. c = ChOf(ns)[<<x, key[n + 1]>>] /\ c \in 0 .. Len(ns)
  BY <1>1, <1>2, <1>3, <1>4, ChildIs
<1>6. ASSUME c # 0
      PROVE  At(S, lab, st, key, c) /\ st[c] = n + 1 /\ n < Len(lab[c])
  <2>1. c \in S /\ Branch(lab, st, x, key[n + 1], c)
    BY <1>1, <1>4, <1>5, <1>6 DEF Branches
  <2>2. st[c] = n + 1 /\ Agree(lab[x], lab[c], n) /\ lab[c][n + 1] = key[n + 1]
    BY <1>3, <2>1 DEF Branch
  <2>3. Agree(lab[c], key, n)
    BY <1>4, <2>2, AgreeFacts
  <2>4. Agree(lab[c], key, n + 1)
    BY <2>2, <2>3, AgreeFacts
  <2>5. st[c] <= Len(lab[c]) /\ Len(lab[c]) \in Nat
    BY <2>1, TreeNode DEF NodeIn
  <2>. QED BY <1>3, <2>1, <2>2, <2>4, <2>5 DEF At
<1>7. ASSUME c = 0, NEW y \in S, n < Len(lab[y]), Agree(lab[y], key, n + 1) PROVE FALSE
  <2>1. Agree(lab[y], key, n) /\ lab[y][n + 1] = key[n + 1]
    BY <1>7, AgreeFacts
  <2>2. Agree(lab[x], lab[y], n)
    BY <1>4, <2>1, AgreeFacts
  <2>3. ChOf(ns)[<<x, lab[y][n + 1]>>] # 0
    BY <1>1, <1>3, <1>7, <2>2 DEF Complete
  <2>. QED BY <1>5, <1>7, <2>1, <2>3
<1>. QED BY <1>3, <1>4, <1>5, <1>6, <1>7 DEF OnTo

\* r is what a lookup of key gives.
Finds(ns, S, lab, key, r) ==
  \/ r \in S /\ lab[r] = key /\ ns[r].val # None
  \/ r = 0 /\ \A y \in S : lab[y] = key => ns[y].val = None

\* A walk from a node with the bytes of the key finds the node of the key.
LEMMA WalkFinds ==
  ASSUME NEW ns, NEW S, NEW lab, NEW st, NEW top, Tree(ns, S, lab, st, top), NEW key \in Seq(Byte)
  PROVE  \A x \in S : At(S, lab, st, key, x) => Finds(ns, S, lab, key, art_walk(ns, x, key, st[x]))
<1>. DEFINE K == Len(key)
            Good(x) == Finds(ns, S, lab, key, art_walk(ns, x, key, st[x]))
            T == {K - st[x] : x \in {x \in S : At(S, lab, st, key, x) /\ ~Good(x)}}
<1>1. K \in Nat /\ NodesOK(ns) /\ \A x \in S : x \in 1 .. Len(ns)
  BY TreeParts
<1>2. \A x \in S : At(S, lab, st, key, x) => st[x] \in 0 .. K
  BY TreeNode DEF At, NodeIn
<1>3. T = {}
  <2>1. SUFFICES ASSUME T # {} PROVE FALSE
    OBVIOUS
  <2>2. T \subseteq Nat
    <3>. HIDE DEF Good
    <3>. QED BY <1>1, <1>2
  <2>3. PICK m \in T : \A j \in T : m <= j
    <3>. HIDE DEF T
    <3>. QED BY <2>1, <2>2, Least
  <2>4. PICK x \in S : At(S, lab, st, key, x) /\ ~Good(x) /\ m = K - st[x]
    <3>. HIDE DEF Good
    <3>. QED BY <2>3
  <2>5. ASSUME NEW y \in S, At(S, lab, st, key, y), st[x] < st[y] PROVE Good(y)
    <3>1. K - st[y] < m /\ K - st[y] \in Nat /\ m \in Nat
      BY <1>1, <1>2, <2>4, <2>5
    <3>2. K - st[y] \notin T
      <4>. HIDE DEF T
      <4>. QED BY <2>3, <3>1
    <3>. HIDE DEF Good
    <3>. QED BY <2>5, <3>2
  <2>6. /\ x \in 1 .. Len(ns) /\ x # 0 /\ st[x] \in 0 .. K /\ Agree(lab[x], key, st[x]) /\ st[x] <= K
        /\ x \in 0 .. Len(ns)
    BY <1>1, <1>2, <2>4 DEF At
  <2>7. /\ lab[x] \in Seq(Byte) /\ Len(lab[x]) \in Nat /\ st[x] \in Nat /\ st[x] <= Len(lab[x])
        /\ ns[x].kind # MOVED /\ st[x] + Len(ns[x].prefix) = Len(lab[x])
    BY TreeNode DEF NodeIn
  <2>8. IsPrefix(ns[x].prefix, Rest(key, st[x])) <=> Within(lab[x], key)
    BY <2>4, MatchIs
  <2>9. Lost(ns, key, x, st[x]) <=> ~Within(lab[x], key)
    BY <2>6, <2>7, <2>8, Zenon DEF Lost
  <2>10. WalkStep(ns, key, x, st[x], art_walk(ns, x, key, st[x]))
    BY <1>1, <2>6, WalkEq, Zenon
  <2>11. Apart(S, lab, st) /\ OneNode(S, lab)
    BY TreeParts
  <2>. DEFINE r == art_walk(ns, x, key, st[x])
  <2>12. IF Lost(ns, key, x, st[x]) THEN r = 0
         ELSE IF Len(lab[x]) = K THEN r = IF ns[x].val = None THEN 0 ELSE x
         ELSE r = art_walk(ns, art_child(ns, x, key[Len(lab[x]) + 1]), key, Len(lab[x]) + 1)
    BY <2>7, <2>10, Zenon DEF WalkStep
  <2>13. CASE ~Within(lab[x], key)
    <3>1. r = 0
      BY <2>9, <2>12, <2>13
    <3>2. \A y \in S : lab[y] # key
      BY <2>4, <2>6, <2>11, <2>13 DEF Apart
    <3>3. Finds(ns, S, lab, key, r)
      BY <3>1, <3>2 DEF Finds
    <3>. QED BY <2>4, <3>3
  <2>14. CASE Within(lab[x], key) /\ Len(lab[x]) = K
    <3>1. lab[x] = key
      BY <2>7, <2>14, SameString DEF Within
    <3>2. r = IF ns[x].val = None THEN 0 ELSE x
      BY <2>9, <2>12, <2>14
    <3>3. \A y \in S : lab[y] = key => y = x
      BY <2>11, <3>1 DEF OneNode
    <3>. HIDE DEF r
    <3>4. Finds(ns, S, lab, key, r)
      BY <3>1, <3>2, <3>3 DEF Finds
    <3>. QED BY <2>4, <3>4 DEF r
  <2>15. CASE Within(lab[x], key) /\ Len(lab[x]) # K
    <3>. DEFINE c == art_child(ns, x, key[Len(lab[x]) + 1])
    <3>1. Len(lab[x]) < K
      BY <1>1, <2>7, <2>15 DEF Within
    <3>2. r = art_walk(ns, c, key, Len(lab[x]) + 1)
      BY <2>9, <2>12, <2>15, Zenon
    <3>3. /\ c \in 0 .. Len(ns)
          /\ c # 0 => At(S, lab, st, key, c) /\ st[c] = Len(lab[x]) + 1
          /\ c = 0 => \A y \in S : ~(Len(lab[x]) < Len(lab[y]) /\ Agree(lab[y], key, Len(lab[x]) + 1))
      <4>. HIDE DEF c
      <4>1. Within(lab[x], key) /\ Len(lab[x]) < Len(key) /\ c = art_child(ns, x, key[Len(lab[x]) + 1])
        BY <2>15, <3>1, Zenon DEF c
      <4>2. OnTo(ns, S, lab, st, key, x, c)
        BY <4>1, GoesOn, Zenon
      <4>. QED BY <4>2, Zenon DEF OnTo
    <3>. HIDE DEF c, r
    <3>4. CASE c = 0
      <4>1. Len(lab[x]) + 1 \in 0 .. K /\ 0 \in 0 .. Len(ns)
        BY <1>1, <2>7, <3>1, <3>3
      <4>2. WalkStep(ns, key, 0, Len(lab[x]) + 1, art_walk(ns, 0, key, Len(lab[x]) + 1))
        BY <1>1, <4>1, WalkEq, Zenon
      <4>3. r = 0
        BY <3>2, <3>4, <4>2, Zenon DEF WalkStep, Lost
      <4>4. \A y \in S : lab[y] # key
        BY <3>1, <3>3, <3>4 DEF Agree
      <4>5. Finds(ns, S, lab, key, r)
        BY <4>3, <4>4 DEF Finds
      <4>. QED BY <2>4, <4>5 DEF r
    <3>5. CASE c # 0
      <4>1. c \in S /\ At(S, lab, st, key, c) /\ st[c] = Len(lab[x]) + 1 /\ st[x] < st[c]
        BY <2>7, <3>3, <3>5 DEF At
      <4>2. Good(c)
        BY <2>5, <4>1
      <4>3. Finds(ns, S, lab, key, r)
        BY <3>2, <4>1, <4>2
      <4>. QED BY <2>4, <4>3 DEF r
    <3>. QED BY <3>4, <3>5
  <2>. QED BY <2>13, <2>14, <2>15
<1>4. SUFFICES ASSUME NEW x \in S, At(S, lab, st, key, x), ~Good(x) PROVE FALSE
  OBVIOUS
<1>. HIDE DEF Good
<1>. QED BY <1>3, <1>4

\* A lookup from the root finds the node of the key.
THEOREM FindExact ==
  ASSUME NEW ns, NEW S, NEW lab, NEW st, NEW top, Tree(ns, S, lab, st, top), NEW key \in Seq(Byte)
  PROVE  Finds(ns, S, lab, key, art_walk(ns, top, key, 0))
<1>1. NodesOK(ns) /\ Len(ns) \in Nat /\ Top(S, st, top)
  BY TreeParts
<1>2. CASE top = 0
  <2>1. 0 \in 0 .. Len(ns) /\ 0 \in 0 .. Len(key)
    BY <1>1
  <2>2. WalkStep(ns, key, 0, 0, art_walk(ns, 0, key, 0))
    BY <1>1, <2>1, WalkEq, Zenon
  <2>3. art_walk(ns, top, key, 0) = 0
    BY <1>2, <2>2, Zenon DEF WalkStep, Lost
  <2>4. S = {}
    BY <1>1, <1>2 DEF Top
  <2>. QED BY <2>3, <2>4 DEF Finds
<1>3. CASE top # 0
  <2>1. top \in S /\ st[top] = 0
    BY <1>1, <1>3 DEF Top
  <2>2. At(S, lab, st, key, top)
    BY <2>1, AgreeFacts DEF At
  <2>. QED BY <2>1, <2>2, WalkFinds
<1>. QED BY <1>2, <1>3

------------------------------------------------------------------------------
(* The way of an insertion *)

\* One step of art_ins: where it stops, and what it does on the way back.
Shared(ns, key, id, d) == pfx_shared(ns[id].prefix, Rest(key, d))
EndOf(ns, id, d) == d + Len(ns[id].prefix)
ChildAt(ns, key, id, d) == art_child(ns, id, key[EndOf(ns, id, d) + 1])
Halts(ns, key, id, d) ==
  \/ id = 0 \/ Shared(ns, key, id, d) < Len(ns[id].prefix)
  \/ EndOf(ns, id, d) = Len(key) \/ ChildAt(ns, key, id, d) = 0
AtStop(ns, lim, key, v, id, d) ==
  IF id = 0 THEN art_leaf_chain(ns, lim, key, d, v)
  ELSE IF Shared(ns, key, id, d) < Len(ns[id].prefix)
    THEN InsertSplit(ns, lim, id, key, d, Shared(ns, key, id, d), v)
  ELSE IF EndOf(ns, id, d) = Len(key) THEN [ns |-> [ns EXCEPT ![id].val = v], id |-> id]
  ELSE InsertChild(ns, lim, id, key, EndOf(ns, id, d), v)
Back(ns, key, id, d, r) ==
  IF r.id = 0 THEN r
  ELSE [ns |-> Relink(r.ns, id, key[EndOf(ns, id, d) + 1], ChildAt(ns, key, id, d), r.id), id |-> id]
InsStep(ns, lim, key, v, h, id, d) ==
  h[<<id, d>>] =
    IF Halts(ns, key, id, d) THEN AtStop(ns, lim, key, v, id, d)
    ELSE Back(ns, key, id, d, h[<<ChildAt(ns, key, id, d), EndOf(ns, id, d) + 1>>])
Insertion(ns, lim, key, v, h) ==
  \A id \in 0 .. Len(ns) : \A d \in 0 .. Len(key) : InsStep(ns, lim, key, v, h, id, d)

\* A recursion that comes to places of smaller rank and changes what it gets.
Returns(D, stop, out, nxt, ns, key) ==
  \E f : \A x \in D : f[x] = IF x \in stop THEN out[x] ELSE Back(ns, key, x[1], x[2], f[nxt[x]])

\* Such a recursion has a solution: what art_ins returns is defined.
LEMMA ReturnEnds ==
  ASSUME NEW D, NEW stop, NEW out, NEW nxt, NEW rank, NEW R \in Nat, NEW ns, NEW key,
         Descends(D, stop, nxt, rank, R)
  PROVE  Returns(D, stop, out, nxt, ns, key)
<1>. USE DEF Descends, Returns
<1>. DEFINE G(x, r) == Back(ns, key, x[1], x[2], r)
            B(f, x) == IF x \in stop THEN out[x] ELSE G(x, f[nxt[x]])
            Ok(f, m) == \A x \in D : rank[x] < m => f[x] = B(f, x)
            IsF(f) == f = [x \in D |-> f[x]]
            T == {m \in Nat : ~\E f : IsF(f) /\ Ok(f, m)}
<1>1. ASSUME NEW m \in Nat, NEW f, IsF(f), Ok(f, m)
      PROVE  \E g : IsF(g) /\ Ok(g, m + 1)
  <2>. DEFINE g == [x \in D |-> IF rank[x] = m THEN B(f, x) ELSE f[x]]
  <2>1. IsF(g)
    OBVIOUS
  <2>2. ASSUME NEW x \in D, rank[x] < m + 1 PROVE g[x] = B(g, x)
    <3>1. rank[x] \in Nat /\ (rank[x] = m \/ rank[x] < m)
      BY <2>2
    <3>2. g[x] = B(f, x)
      <4>. HIDE DEF G
      <4>. QED BY <1>1, <3>1
    <3>3. ASSUME x \notin stop PROVE g[nxt[x]] = f[nxt[x]]
      <4>1. nxt[x] \in D /\ rank[nxt[x]] < rank[x]
        BY <3>3
      <4>2. rank[nxt[x]] # m
        BY <4>1, <3>1
      <4>. HIDE DEF G
      <4>. QED BY <4>1, <4>2
    <3>. HIDE DEF g, G
    <3>. QED BY <3>2, <3>3
  <2>. HIDE DEF g, B, IsF
  <2>3. Ok(g, m + 1)
    BY <2>2
  <2>. QED BY <2>1, <2>3
<1>2. \E f : IsF(f) /\ Ok(f, 0)
  <2>1. IsF([x \in D |-> 0]) /\ Ok([x \in D |-> 0], 0)
    OBVIOUS
  <2>. HIDE DEF IsF, Ok
  <2>. QED BY <2>1
<1>3. T = {}
  <2>1. SUFFICES ASSUME T # {} PROVE FALSE
    OBVIOUS
  <2>. HIDE DEF Ok, IsF
  <2>2. T \subseteq Nat
    OBVIOUS
  <2>. HIDE DEF T
  <2>3. PICK m \in T : \A j \in T : m <= j
    BY <2>1, <2>2, Least
  <2>4. m \in Nat /\ m # 0
    BY <2>2, <1>2 DEF T
  <2>5. m - 1 \in Nat /\ m - 1 \notin T /\ (m - 1) + 1 = m
    BY <2>3, <2>4
  <2>6. PICK f : IsF(f) /\ Ok(f, m - 1)
    BY <2>5 DEF T
  <2>7. \E g : IsF(g) /\ Ok(g, m)
    BY <2>5, <2>6, <1>1
  <2>. QED BY <2>7, <2>4 DEF T
<1>4. PICK f : IsF(f) /\ Ok(f, R + 1)
  <2>. HIDE DEF Ok, IsF
  <2>. QED BY <1>3
<1>5. \A x \in D : f[x] = B(f, x)
  <2>. HIDE DEF B
  <2>. QED BY <1>4
<1>. QED BY <1>5

\* The place where an insertion is shares the bytes before it; a step on goes to
\* a child that is nearer to the end of the key.
LEMMA StepOn ==
  ASSUME NEW ns, NodesOK(ns), NEW key \in Seq(Byte), NEW id \in 0 .. Len(ns), NEW d \in 0 .. Len(key),
         ~Halts(ns, key, id, d)
  PROVE  /\ ChildAt(ns, key, id, d) \in 0 .. Len(ns)
         /\ EndOf(ns, id, d) \in Nat /\ d <= EndOf(ns, id, d) /\ EndOf(ns, id, d) + 1 \in 0 .. Len(key)
<1>1. /\ id # 0 /\ ~(Shared(ns, key, id, d) < Len(ns[id].prefix))
      /\ EndOf(ns, id, d) # Len(key)
  BY Zenon DEF Halts
<1>2. id \in 1 .. Len(ns)
  BY <1>1 DEF NodesOK
<1>3. NodeOK(ns[id], Len(ns))
  BY <1>2 DEF NodesOK
<1>4. ns[id].prefix \in Seq(Byte)
  BY <1>3, NodeParts
<1>5. Rest(key, d) \in Seq(Byte) /\ Len(Rest(key, d)) = Len(key) - d
  BY RestFacts
<1>6. Shared(ns, key, id, d) \in Nat /\ Shared(ns, key, id, d) <= Len(Rest(key, d))
  BY <1>4, <1>5, SharedFacts DEF Shared
<1>7. EndOf(ns, id, d) < Len(key)
  <2>. DEFINE n == Len(ns[id].prefix)
              m == Shared(ns, key, id, d)
              k == Len(key)
  <2>1. n \in Nat /\ m \in Nat /\ k \in Nat /\ d \in 0 .. k /\ m <= k - d
    BY <1>4, <1>5, <1>6
  <2>2. EndOf(ns, id, d) = d + n /\ ~(m < n) /\ d + n # k
    BY <1>1, Zenon DEF EndOf
  <2>. HIDE DEF n, m, k
  <2>3. d + n < k
    BY <2>1, <2>2
  <2>. QED BY <2>2, <2>3, Zenon DEF k
<1>. DEFINE e == EndOf(ns, id, d)
<1>8. e = d + Len(ns[id].prefix) /\ e < Len(key)
  BY <1>7 DEF EndOf
<1>. HIDE DEF e
<1>9. /\ e \in Nat /\ d <= e /\ e + 1 \in 0 .. Len(key)
      /\ art_child(ns, id, key[e + 1]) \in 0 .. Len(ns)
  BY <1>2, <1>8, NextPlace
<1>. QED BY <1>9 DEF e, ChildAt

\* art_ins goes step by step.
LEMMA InsEq ==
  ASSUME NEW ns, NodesOK(ns), NEW key \in Seq(Byte), NEW lim, NEW top, NEW v
  PROVE  \E h : art_ins(ns, lim, top, key, v) = h[<<top, 0>>] /\ Insertion(ns, lim, key, v, h)
<1>. DEFINE L == Len(ns)
            K == Len(key)
            D == (0 .. L) \X (0 .. K)
            go(x) == <<ChildAt(ns, key, x[1], x[2]), EndOf(ns, x[1], x[2]) + 1>>
            hs(x) == Halts(ns, key, x[1], x[2])
            st(x) == AtStop(ns, lim, key, v, x[1], x[2])
            B(f, x) == IF hs(x) THEN st(x) ELSE Back(ns, key, x[1], x[2], f[go(x)])
            C(f, at) ==
              LET id == at[1]
                  d == at[2]
                  prefix == ns[id].prefix
                  shared == pfx_shared(prefix, Rest(key, d))
                  e == d + Len(prefix)
                  child == art_child(ns, id, key[e + 1])
                  r == f[<<child, e + 1>>]
              IN IF id = 0 THEN art_leaf_chain(ns, lim, key, d, v)
                 ELSE IF shared < Len(prefix) THEN InsertSplit(ns, lim, id, key, d, shared, v)
                 ELSE IF e = Len(key) THEN [ns |-> [ns EXCEPT ![id].val = v], id |-> id]
                 ELSE IF child = 0 THEN InsertChild(ns, lim, id, key, e, v)
                 ELSE IF r.id = 0 THEN r
                 ELSE [ns |-> Relink(r.ns, id, key[e + 1], child, r.id), id |-> id]
            stop == {x \in D : hs(x)}
            out == [x \in D |-> st(x)]
            nxt == [x \in D |-> go(x)]
            rank == [x \in D |-> K - x[2]]
            h == CHOOSE f : f = [x \in D |-> C(f, x)]
<1>1. L \in Nat /\ K \in Nat
  BY DEF NodesOK
<1>2. ASSUME NEW x \in D
      PROVE  x[1] \in 0 .. L /\ x[2] \in 0 .. K /\ x = <<x[1], x[2]>>
  OBVIOUS
<1>3. ASSUME NEW x \in D PROVE rank[x] \in 0 .. K
  BY <1>1
<1>4. ASSUME NEW x \in D, x \notin stop
      PROVE  nxt[x] = go(x) /\ go(x) \in D /\ rank[go(x)] < rank[x]
  <2>1. ~hs(x)
    BY <1>4, Zenon
  <2>2. /\ ChildAt(ns, key, x[1], x[2]) \in 0 .. L
        /\ EndOf(ns, x[1], x[2]) \in Nat /\ x[2] <= EndOf(ns, x[1], x[2])
        /\ EndOf(ns, x[1], x[2]) + 1 \in 0 .. K
    BY <1>2, <2>1, StepOn
  <2>3. nxt[x] = go(x) /\ go(x) \in D /\ go(x)[2] = EndOf(ns, x[1], x[2]) + 1
    BY <2>2
  <2>4. rank[go(x)] = K - (EndOf(ns, x[1], x[2]) + 1) /\ rank[x] = K - x[2]
    BY <2>3, Zenon
  <2>. HIDE DEF go, D, rank, nxt, K
  <2>. QED BY <1>1, <1>2, <2>2, <2>3, <2>4
<1>5. PICK g : \A x \in D : g[x] = IF x \in stop THEN out[x] ELSE Back(ns, key, x[1], x[2], g[nxt[x]])
  <2>1. \A x \in D : x \notin stop => nxt[x] \in D /\ rank[nxt[x]] < rank[x]
    BY <1>4, Zenon
  <2>2. \A x \in D : rank[x] \in 0 .. K
    BY <1>3
  <2>3. K \in Nat
    BY <1>1
  <2>. HIDE DEF D, stop, out, nxt, B, C, h, rank, K
  <2>4. Descends(D, stop, nxt, rank, K)
    BY <2>1, <2>2, Zenon DEF Descends
  <2>5. Returns(D, stop, out, nxt, ns, key)
    BY <2>3, <2>4, ReturnEnds, Zenon
  <2>. QED BY <2>5, Zenon DEF Returns
<1>6. \A f, x : B(f, x) = C(f, x)
  <2>1. SUFFICES ASSUME NEW f, NEW x PROVE B(f, x) = C(f, x)
    BY Zenon
  <2>2. CASE hs(x)
    <3>1. CASE x[1] = 0
      BY <2>2, <3>1, Zenon DEF AtStop
    <3>2. CASE x[1] # 0 /\ Shared(ns, key, x[1], x[2]) < Len(ns[x[1]].prefix)
      BY <2>2, <3>2, Zenon DEF AtStop, Shared
    <3>3. CASE x[1] # 0 /\ ~(Shared(ns, key, x[1], x[2]) < Len(ns[x[1]].prefix)) /\ EndOf(ns, x[1], x[2]) = Len(key)
      BY <2>2, <3>3, Zenon DEF AtStop, Shared, EndOf
    <3>4. CASE x[1] # 0 /\ ~(Shared(ns, key, x[1], x[2]) < Len(ns[x[1]].prefix)) /\ EndOf(ns, x[1], x[2]) # Len(key)
      <4>1. ChildAt(ns, key, x[1], x[2]) = 0
        BY <2>2, <3>4, Zenon DEF Halts
      <4>. QED BY <2>2, <3>4, <4>1, Zenon DEF AtStop, Shared, EndOf, ChildAt
    <3>. QED BY <3>1, <3>2, <3>3, <3>4, Zenon
  <2>3. CASE ~hs(x)
    <3>1. /\ x[1] # 0 /\ ~(Shared(ns, key, x[1], x[2]) < Len(ns[x[1]].prefix))
          /\ EndOf(ns, x[1], x[2]) # Len(key) /\ ChildAt(ns, key, x[1], x[2]) # 0
      BY <2>3, Zenon DEF Halts
    <3>2. B(f, x) = Back(ns, key, x[1], x[2], f[go(x)])
      BY <2>3, Zenon
    <3>3. C(f, x) = Back(ns, key, x[1], x[2], f[go(x)])
      BY <3>1, Zenon DEF Back, Shared, EndOf, ChildAt
    <3>. QED BY <3>2, <3>3, Zenon
  <2>. QED BY <2>2, <2>3, Zenon
<1>. DEFINE f == [x \in D |-> g[x]]
<1>7. ASSUME NEW x \in D PROVE g[x] = B(f, x)
  <2>1. x \notin stop => f[go(x)] = g[go(x)] /\ nxt[x] = go(x)
    <3>1. x \notin stop => go(x) \in D /\ nxt[x] = go(x)
      BY <1>4, Zenon
    <3>. HIDE DEF D, stop, go, nxt
    <3>. QED BY <3>1
  <2>2. x \in stop <=> hs(x)
    BY Zenon
  <2>3. out[x] = st(x)
    BY Zenon
  <2>4. g[x] = IF x \in stop THEN out[x] ELSE Back(ns, key, x[1], x[2], g[nxt[x]])
    BY <1>5, Zenon
  <2>. HIDE DEF stop, out, nxt, f, go, st, hs, K
  <2>. QED BY <2>1, <2>2, <2>3, <2>4
<1>8. f = [x \in D |-> C(f, x)]
  <2>1. \A x \in D : g[x] = C(f, x)
    <3>. HIDE DEF B, C, D, stop, out, nxt, f
    <3>. QED BY <1>6, <1>7
  <2>. HIDE DEF C, D, stop, out, nxt
  <2>. QED BY <2>1
<1>. HIDE DEF f
<1>9. h = [x \in D |-> C(h, x)]
  <2>. HIDE DEF C, D
  <2>. QED BY <1>8
<1>10. \A x \in D : h[x] = B(h, x)
  <2>1. \A x \in D : h[x] = C(h, x)
    <3>. HIDE DEF C, D, h
    <3>. QED BY <1>9
  <2>. HIDE DEF B, C, D, h
  <2>. QED BY <1>6, <2>1
<1>11. art_ins(ns, lim, top, key, v) = h[<<top, 0>>]
  BY Zenon DEF art_ins
<1>. HIDE DEF h
<1>12. Insertion(ns, lim, key, v, h)
  <2>1. SUFFICES ASSUME NEW id \in 0 .. L, NEW d \in 0 .. K
                 PROVE  InsStep(ns, lim, key, v, h, id, d)
    BY Zenon DEF Insertion
  <2>2. <<id, d>> \in D /\ <<id, d>>[1] = id /\ <<id, d>>[2] = d
    OBVIOUS
  <2>3. h[<<id, d>>] = B(h, <<id, d>>)
    <3>. HIDE DEF B, D
    <3>. QED BY <1>10, <2>2
  <2>. QED BY <2>2, <2>3, Zenon DEF InsStep
<1>. QED BY <1>11, <1>12, Zenon

\* What the prefix of a node on the way shares with the key.
SharesAt(ns, lab, st, key, x, s) ==
  /\ s \in Nat /\ s <= Len(ns[x].prefix) /\ st[x] + s <= Len(key)
  /\ Agree(lab[x], key, st[x] + s)
  /\ s < Len(ns[x].prefix) /\ st[x] + s < Len(key) => lab[x][st[x] + s + 1] # key[st[x] + s + 1]
  /\ s < Len(ns[x].prefix) <=> ~Within(lab[x], key)

\* pfx_shared compares the prefix with the bytes of the key that come next.
LEMMA SharedIs ==
  ASSUME NEW ns, NEW S, NEW lab, NEW st, NEW top, Tree(ns, S, lab, st, top),
         NEW key \in Seq(Byte), NEW x, At(S, lab, st, key, x)
  PROVE  SharesAt(ns, lab, st, key, x, Shared(ns, key, x, st[x]))
<1>. DEFINE p == ns[x].prefix
            r == Rest(key, st[x])
            s == pfx_shared(p, r)
            d == st[x]
            n == Len(p)
            k == Len(key)
<1>1. x \in S /\ st[x] <= Len(key) /\ Agree(lab[x], key, st[x])
  BY DEF At
<1>2. /\ lab[x] \in Seq(Byte) /\ Len(lab[x]) \in Nat /\ d \in Nat
      /\ p \in Seq(Byte) /\ d + n = Len(lab[x]) /\ n \in Nat
      /\ \A i \in 1 .. n : p[i] = lab[x][d + i]
  BY <1>1, TreeNode DEF NodeIn
<1>3. d \in 0 .. k /\ k \in Nat
  BY <1>1, <1>2
<1>4. r \in Seq(Byte) /\ Len(r) = k - d /\ \A i \in 1 .. k - d : r[i] = key[d + i]
  BY <1>3, RestFacts
<1>5. /\ s \in Nat /\ s <= n /\ s <= Len(r)
      /\ \A i \in 1 .. s : p[i] = r[i]
      /\ s < n /\ s < Len(r) => p[s + 1] # r[s + 1]
  BY <1>2, <1>4, SharedFacts
<1>6. Shared(ns, key, x, st[x]) = s
  BY DEF Shared
<1>. HIDE DEF s, d, n, k, r, p
<1>7. d + s <= k /\ s <= k - d
  BY <1>3, <1>4, <1>5
<1>8. Agree(lab[x], key, d + s)
  <2>1. SUFFICES ASSUME NEW i \in 1 .. d + s PROVE lab[x][i] = key[i]
    BY DEF Agree
  <2>2. CASE i <= d
    BY <1>1, <1>2, <1>5, <2>2 DEF Agree, d
  <2>3. CASE ~(i <= d)
    <3>1. PICK j \in 1 .. s : i = d + j
      <4>1. i - d \in 1 .. s /\ i = d + (i - d)
        BY <1>2, <1>5, <2>3
      <4>. QED BY <4>1
    <3>2. j \in 1 .. n /\ j \in 1 .. k - d
      BY <1>2, <1>3, <1>5, <1>7, <3>1
    <3>3. p[j] = lab[x][d + j]
      BY <1>2, <3>2
    <3>4. r[j] = key[d + j]
      BY <1>4, <3>2
    <3>. QED BY <1>5, <3>1, <3>3, <3>4
  <2>. QED BY <2>2, <2>3
<1>9. ASSUME s < n, d + s < k PROVE lab[x][d + s + 1] # key[d + s + 1]
  <2>1. s + 1 \in 1 .. n /\ s + 1 \in 1 .. k - d /\ s < Len(r)
    BY <1>2, <1>3, <1>4, <1>5, <1>9
  <2>2. p[s + 1] = lab[x][d + (s + 1)] /\ r[s + 1] = key[d + (s + 1)] /\ p[s + 1] # r[s + 1]
    BY <1>2, <1>4, <1>5, <1>9, <2>1
  <2>3. d + (s + 1) = d + s + 1
    BY <1>2, <1>5
  <2>. QED BY <2>2, <2>3
<1>10. s < n <=> ~Within(lab[x], key)
  <2>1. ASSUME s < n, Within(lab[x], key) PROVE FALSE
    <3>1. Len(lab[x]) <= k /\ Agree(lab[x], key, Len(lab[x]))
      BY <2>1 DEF Within, k
    <3>2. d + s < k /\ d + s \in Nat /\ d + s < Len(lab[x])
      BY <1>2, <1>3, <1>5, <2>1, <3>1
    <3>3. lab[x][d + s + 1] = key[d + s + 1]
      BY <1>2, <3>1, <3>2, AgreeFacts
    <3>. QED BY <1>9, <2>1, <3>2, <3>3
  <2>2. ASSUME ~(s < n) PROVE Within(lab[x], key)
    <3>1. s = n
      BY <1>2, <1>5, <2>2
    <3>. QED BY <1>2, <1>7, <1>8, <3>1 DEF Within, k
  <2>. QED BY <2>1, <2>2
<1>11. SharesAt(ns, lab, st, key, x, s)
  BY <1>5, <1>7, <1>8, <1>9, <1>10 DEF SharesAt, d, n, k, p
<1>. QED BY <1>6, <1>11

\* An insertion stops where the key leaves the label or ends, or nothing goes on.
Stopped(ns, lab, key, x) ==
  ~Within(lab[x], key) \/ Len(lab[x]) = Len(key) \/ art_child(ns, x, key[Len(lab[x]) + 1]) = 0

\* art_ins stops at a node just when no child of it leads on to the key.
LEMMA HaltsIs ==
  ASSUME NEW ns, NEW S, NEW lab, NEW st, NEW top, Tree(ns, S, lab, st, top),
         NEW key \in Seq(Byte), NEW x, At(S, lab, st, key, x)
  PROVE  /\ Halts(ns, key, x, st[x]) <=> Stopped(ns, lab, key, x)
         /\ EndOf(ns, x, st[x]) = Len(lab[x])
         /\ ChildAt(ns, key, x, st[x]) = art_child(ns, x, key[Len(lab[x]) + 1])
<1>1. x \in S /\ x # 0
  BY TreeParts DEF At
<1>2. EndOf(ns, x, st[x]) = Len(lab[x])
  BY <1>1, TreeNode DEF EndOf, NodeIn
<1>3. Shared(ns, key, x, st[x]) < Len(ns[x].prefix) <=> ~Within(lab[x], key)
  BY SharedIs, Zenon DEF SharesAt
<1>4. ChildAt(ns, key, x, st[x]) = art_child(ns, x, key[Len(lab[x]) + 1])
  BY <1>2, Zenon DEF ChildAt
<1>. QED BY <1>1, <1>2, <1>3, <1>4, Zenon DEF Halts, Stopped

\* r is what an insertion from x on gives: y is where it stops, p the node above.
Above(ns, S, lab, key, p, y) ==
  /\ p \in S /\ Within(lab[p], key) /\ Len(lab[p]) < Len(key)
  /\ ChOf(ns)[<<p, key[Len(lab[p]) + 1]>>] = y
InsResult(ns, S, lab, st, lim, key, v, x, r) ==
  \E y \in S :
    /\ At(S, lab, st, key, y) /\ Stopped(ns, lab, key, y)
    /\ \/ y = x /\ r = AtStop(ns, lim, key, v, y, st[y])
       \/ y # x /\ AtStop(ns, lim, key, v, y, st[y]).id = 0 /\ r = AtStop(ns, lim, key, v, y, st[y])
       \/ /\ y # x /\ AtStop(ns, lim, key, v, y, st[y]).id # 0
          /\ \E p : /\ Above(ns, S, lab, key, p, y)
                    /\ r = [ns |-> Relink(AtStop(ns, lim, key, v, y, st[y]).ns, p, key[Len(lab[p]) + 1], y,
                                          AtStop(ns, lim, key, v, y, st[y]).id),
                            id |-> x]

\* A node that is not on the way is left as it is on the way back.
LEMMA InsWay ==
  ASSUME NEW ns, NEW S, NEW lab, NEW st, NEW top, Tree(ns, S, lab, st, top),
         NEW key \in Seq(Byte), NEW lim, NEW v, NEW h, Insertion(ns, lim, key, v, h)
  PROVE  \A x \in S : At(S, lab, st, key, x) => InsResult(ns, S, lab, st, lim, key, v, x, h[<<x, st[x]>>])
<1>. DEFINE K == Len(key)
            Good(x) == InsResult(ns, S, lab, st, lim, key, v, x, h[<<x, st[x]>>])
            T == {K - st[x] : x \in {x \in S : At(S, lab, st, key, x) /\ ~Good(x)}}
<1>1. K \in Nat /\ NodesOK(ns) /\ \A x \in S : x \in 1 .. Len(ns) /\ x # 0 /\ x \in 0 .. Len(ns)
  BY TreeParts
<1>2. \A x \in S : At(S, lab, st, key, x) => st[x] \in 0 .. K
  BY TreeNode DEF At, NodeIn
<1>3. T = {}
  <2>1. SUFFICES ASSUME T # {} PROVE FALSE
    OBVIOUS
  <2>2. T \subseteq Nat
    <3>. HIDE DEF Good
    <3>. QED BY <1>1, <1>2
  <2>3. PICK m \in T : \A j \in T : m <= j
    <3>. HIDE DEF T
    <3>. QED BY <2>1, <2>2, Least
  <2>4. PICK x \in S : At(S, lab, st, key, x) /\ ~Good(x) /\ m = K - st[x]
    <3>. HIDE DEF Good
    <3>. QED BY <2>3
  <2>5. ASSUME NEW y \in S, At(S, lab, st, key, y), st[x] < st[y] PROVE Good(y)
    <3>1. K - st[y] < m /\ K - st[y] \in Nat /\ m \in Nat
      BY <1>1, <1>2, <2>4, <2>5
    <3>2. K - st[y] \notin T
      <4>. HIDE DEF T
      <4>. QED BY <2>3, <3>1
    <3>. HIDE DEF Good
    <3>. QED BY <2>5, <3>2
  <2>. DEFINE n == Len(lab[x])
              c == art_child(ns, x, key[n + 1])
              b == key[n + 1]
              r == h[<<x, st[x]>>]
              rc == h[<<c, n + 1>>]
  <2>6. /\ Halts(ns, key, x, st[x]) <=> Stopped(ns, lab, key, x)
        /\ EndOf(ns, x, st[x]) = n /\ ChildAt(ns, key, x, st[x]) = c
    BY <2>4, HaltsIs
  <2>7. InsStep(ns, lim, key, v, h, x, st[x])
    BY <1>1, <1>2, <2>4, Zenon DEF Insertion
  <2>8. CASE Stopped(ns, lab, key, x)
    <3>1. r = AtStop(ns, lim, key, v, x, st[x])
      BY <2>6, <2>7, <2>8, Zenon DEF InsStep
    <3>. QED BY <2>4, <2>8, <3>1, Zenon DEF InsResult
  <2>9. CASE ~Stopped(ns, lab, key, x)
    <3>1. r = Back(ns, key, x, st[x], rc)
      BY <2>6, <2>7, <2>9, Zenon DEF InsStep
    <3>2. Within(lab[x], key) /\ n # K /\ c # 0
      BY <2>9, Zenon DEF Stopped
    <3>3. n < K
      <4>1. n \in Nat
        BY TreeNode DEF NodeIn
      <4>. QED BY <1>1, <3>2, <4>1 DEF Within
    <3>4. OnTo(ns, S, lab, st, key, x, c)
      <4>. HIDE DEF c
      <4>1. Within(lab[x], key) /\ Len(lab[x]) < Len(key) /\ c = art_child(ns, x, key[Len(lab[x]) + 1])
        BY <3>2, <3>3, Zenon DEF c
      <4>. QED BY <4>1, GoesOn, Zenon
    <3>5. At(S, lab, st, key, c) /\ st[c] = n + 1 /\ c = ChOf(ns)[<<x, b>>]
      BY <3>2, <3>4, Zenon DEF OnTo
    <3>6. c \in S /\ st[x] < st[c]
      <4>1. st[x] <= n /\ n \in Nat /\ st[x] \in Nat
        BY TreeNode DEF NodeIn
      <4>. HIDE DEF n, c
      <4>. QED BY <3>5, <4>1 DEF At
    <3>7. c # x
      BY <3>6, <1>2, <2>4, <3>5
    <3>8. Good(c)
      <4>. HIDE DEF c, Good
      <4>. QED BY <2>5, <3>5, <3>6
    <3>9. rc = h[<<c, st[c]>>]
      BY <3>5, Zenon
    <3>10. r = IF rc.id = 0 THEN rc ELSE [ns |-> Relink(rc.ns, x, b, c, rc.id), id |-> x]
      BY <2>6, <3>1, Zenon DEF Back
    <3>11. Above(ns, S, lab, key, x, c)
      BY <3>2, <3>3, <3>5, Zenon DEF Above
    <3>. HIDE DEF c, b, n, r, rc
    <3>12. InsResult(ns, S, lab, st, lim, key, v, c, rc)
      BY <3>8, <3>9, Zenon
    <3>13. PICK y \in S :
             /\ At(S, lab, st, key, y) /\ Stopped(ns, lab, key, y)
             /\ \/ y = c /\ rc = AtStop(ns, lim, key, v, y, st[y])
                \/ y # c /\ AtStop(ns, lim, key, v, y, st[y]).id = 0 /\ rc = AtStop(ns, lim, key, v, y, st[y])
                \/ /\ y # c /\ AtStop(ns, lim, key, v, y, st[y]).id # 0
                   /\ \E p : /\ Above(ns, S, lab, key, p, y)
                             /\ rc = [ns |-> Relink(AtStop(ns, lim, key, v, y, st[y]).ns, p, key[Len(lab[p]) + 1], y,
                                                   AtStop(ns, lim, key, v, y, st[y]).id),
                                     id |-> c]
      BY <3>12, Zenon DEF InsResult
    <3>. DEFINE q == AtStop(ns, lim, key, v, y, st[y])
    <3>14. y # x
      BY <2>9, <3>13
    <3>. HIDE DEF q
    <3>15. CASE q.id = 0
      <4>1. rc = q
        BY <3>13, <3>15, Zenon DEF q
      <4>2. r = q
        BY <3>10, <3>15, <4>1, Zenon
      <4>3. Good(x)
        BY <3>13, <3>14, <3>15, <4>2, Zenon DEF InsResult, q, r
      <4>. QED BY <2>4, <4>3, Zenon
    <3>16. CASE q.id # 0 /\ y = c
      <4>1. rc = q
        BY <3>13, <3>16, Zenon DEF q
      <4>2. r = [ns |-> Relink(q.ns, x, key[Len(lab[x]) + 1], y, q.id), id |-> x]
        BY <3>10, <3>16, <4>1, Zenon DEF b, n
      <4>3. Above(ns, S, lab, key, x, y)
        BY <3>11, <3>16, Zenon
      <4>4. Good(x)
        BY <3>13, <3>14, <3>16, <4>2, <4>3, Zenon DEF InsResult, q, r
      <4>. QED BY <2>4, <4>4, Zenon
    <3>17. CASE q.id # 0 /\ y # c
      <4>1. PICK p : /\ Above(ns, S, lab, key, p, y)
                     /\ rc = [ns |-> Relink(q.ns, p, key[Len(lab[p]) + 1], y, q.id), id |-> c]
        BY <3>13, <3>17, Zenon DEF q
      <4>2. rc.id = c /\ rc.ns = Relink(q.ns, p, key[Len(lab[p]) + 1], y, q.id)
        BY <4>1
      <4>3. Relink(rc.ns, x, b, c, rc.id) = rc.ns
        BY <4>2, Zenon DEF Relink
      <4>4. r = [ns |-> rc.ns, id |-> x]
        BY <3>2, <3>10, <4>2, <4>3, Zenon DEF c
      <4>5. r = [ns |-> Relink(q.ns, p, key[Len(lab[p]) + 1], y, q.id), id |-> x]
        BY <4>2, <4>4, Zenon
      <4>6. Good(x)
        BY <3>13, <3>14, <3>17, <4>1, <4>5, Zenon DEF InsResult, q, r
      <4>. QED BY <2>4, <4>6, Zenon
    <3>. QED BY <3>15, <3>16, <3>17, Zenon
  <2>. QED BY <2>8, <2>9
<1>4. SUFFICES ASSUME NEW x \in S, At(S, lab, st, key, x), ~Good(x) PROVE FALSE
  OBVIOUS
<1>. HIDE DEF Good
<1>. QED BY <1>3, <1>4

------------------------------------------------------------------------------
(* The effect of an insertion *)

\* Parts of strings.
LEMMA RestRest ==
  ASSUME NEW s \in Seq(Byte), NEW a \in Nat, NEW b \in Nat, a + b <= Len(s)
  PROVE  Rest(Rest(s, a), b) = Rest(s, a + b)
<1>1. a \in 0 .. Len(s) /\ a + b \in 0 .. Len(s) /\ Len(s) \in Nat
  OBVIOUS
<1>2. /\ Rest(s, a) \in Seq(Byte) /\ Len(Rest(s, a)) = Len(s) - a
      /\ \A i \in 1 .. Len(s) - a : Rest(s, a)[i] = s[a + i]
  BY <1>1, RestFacts
<1>. DEFINE r == Rest(s, a)
<1>. HIDE DEF r
<1>3. b \in 0 .. Len(r) /\ r \in Seq(Byte)
  BY <1>1, <1>2 DEF r
<1>4. /\ Rest(r, b) \in Seq(Byte) /\ Len(Rest(r, b)) = Len(s) - (a + b)
      /\ \A i \in 1 .. Len(s) - (a + b) : Rest(r, b)[i] = s[a + b + i]
  <2>1. /\ Rest(r, b) \in Seq(Byte) /\ Len(Rest(r, b)) = Len(r) - b
        /\ \A i \in 1 .. Len(r) - b : Rest(r, b)[i] = r[b + i]
    BY <1>3, RestFacts
  <2>2. Len(r) = Len(s) - a /\ \A i \in 1 .. Len(s) - a : r[i] = s[a + i]
    BY <1>2 DEF r
  <2>3. ASSUME NEW i \in 1 .. Len(s) - (a + b) PROVE Rest(r, b)[i] = s[a + b + i]
    <3>1. i \in 1 .. Len(r) - b /\ b + i \in 1 .. Len(s) - a /\ a + (b + i) = a + b + i
      BY <1>1, <2>2
    <3>. QED BY <2>1, <2>2, <3>1
  <2>. QED BY <1>1, <2>1, <2>2, <2>3
<1>5. /\ Rest(s, a + b) \in Seq(Byte) /\ Len(Rest(s, a + b)) = Len(s) - (a + b)
      /\ \A i \in 1 .. Len(s) - (a + b) : Rest(s, a + b)[i] = s[a + b + i]
  BY <1>1, RestFacts
<1>. DEFINE u == Rest(r, b)
            t == Rest(s, a + b)
<1>6. u \in Seq(Byte) /\ t \in Seq(Byte) /\ Len(u) = Len(t) /\ Agree(u, t, Len(u))
  BY <1>4, <1>5 DEF Agree
<1>. HIDE DEF u, t
<1>7. u = t
  BY <1>6, SameString
<1>. QED BY <1>7 DEF u, t, r

\* The bytes of a string between two places.
LEMMA SubFrom ==
  ASSUME NEW s \in Seq(Byte), NEW a \in Nat, NEW b \in Nat, a <= b, b <= Len(s)
  PROVE  Rest(SubSeq(s, 1, b), a) = SubSeq(s, a + 1, b)
<1>1. Len(s) \in Nat /\ \A i \in 1 .. Len(s) : s[i] \in Byte
  OBVIOUS
<1>2. /\ SubSeq(s, 1, b) \in Seq(Byte) /\ Len(SubSeq(s, 1, b)) = b
      /\ \A i \in 1 .. b : SubSeq(s, 1, b)[i] = s[i]
  BY <1>1
<1>3. /\ SubSeq(s, a + 1, b) \in Seq(Byte) /\ Len(SubSeq(s, a + 1, b)) = b - a
      /\ \A i \in 1 .. b - a : SubSeq(s, a + 1, b)[i] = s[a + i]
  BY <1>1
<1>. DEFINE r == SubSeq(s, 1, b)
            t == SubSeq(s, a + 1, b)
            u == Rest(r, a)
<1>. HIDE DEF r, t, u
<1>4. r \in Seq(Byte) /\ a \in 0 .. Len(r) /\ Len(r) = b /\ \A i \in 1 .. b : r[i] = s[i]
  BY <1>2 DEF r
<1>5. u \in Seq(Byte) /\ Len(u) = Len(r) - a /\ \A i \in 1 .. Len(r) - a : u[i] = r[a + i]
  BY <1>4, RestFacts DEF u
<1>6. \A i \in 1 .. b - a : a + i \in 1 .. b
  OBVIOUS
<1>7. u \in Seq(Byte) /\ t \in Seq(Byte) /\ Len(u) = Len(t) /\ Agree(u, t, Len(u))
  BY <1>3, <1>4, <1>5, <1>6 DEF t, Agree
<1>8. u = t
  BY <1>7, SameString
<1>. QED BY <1>8 DEF r, t, u

\* The first bytes of what is left of a string.
LEMMA SubRest ==
  ASSUME NEW s \in Seq(Byte), NEW a \in Nat, NEW b \in Nat, a + b <= Len(s)
  PROVE  SubSeq(Rest(s, a), 1, b) = Rest(SubSeq(s, 1, a + b), a)
<1>1. a \in 0 .. Len(s) /\ Len(s) \in Nat /\ a + b \in Nat /\ a <= a + b
  OBVIOUS
<1>. DEFINE r == Rest(s, a)
            u == SubSeq(r, 1, b)
            t == SubSeq(s, a + 1, a + b)
<1>. HIDE DEF r, u, t
<1>2. r \in Seq(Byte) /\ Len(r) = Len(s) - a /\ \A i \in 1 .. Len(s) - a : r[i] = s[a + i]
  BY <1>1, RestFacts DEF r
<1>3. u \in Seq(Byte) /\ Len(u) = b /\ \A i \in 1 .. b : u[i] = r[i]
  <2>1. b <= Len(r)
    BY <1>1, <1>2
  <2>. QED BY <1>2, <2>1 DEF u
<1>4. t \in Seq(Byte) /\ Len(t) = b /\ \A i \in 1 .. b : t[i] = s[a + i]
  BY <1>1, SMTT(40) DEF t
<1>5. Agree(u, t, b)
  <2>1. SUFFICES ASSUME NEW i \in 1 .. b PROVE u[i] = t[i]
    BY DEF Agree
  <2>2. i \in 1 .. Len(s) - a
    BY <1>1
  <2>. QED BY <1>2, <1>3, <1>4, <2>2
<1>6. u = t
  BY <1>3, <1>4, <1>5, SameString
<1>7. Rest(SubSeq(s, 1, a + b), a) = t
  BY <1>1, SubFrom DEF t
<1>. QED BY <1>6, <1>7 DEF u, r

\* No branch leads to the root, and one to any other node.
OneParent(ns, S, lab, key, p, y) ==
  \A x \in S : \A b \in Byte :
    ChOf(ns)[<<x, b>>] = y <=> x = p /\ b = key[Len(lab[p]) + 1]

\* Only one node has a given node as a child.
LEMMA ParentIs ==
  ASSUME NEW ns, NEW S, NEW lab, NEW st, NEW top, Tree(ns, S, lab, st, top),
         NEW key \in Seq(Byte), NEW p, NEW y \in S, Above(ns, S, lab, key, p, y)
  PROVE  /\ OneParent(ns, S, lab, key, p, y) /\ p \in S /\ p # y
         /\ key[Len(lab[p]) + 1] \in Byte
<1>1. p \in S /\ Len(lab[p]) < Len(key) /\ ChOf(ns)[<<p, key[Len(lab[p]) + 1]>>] = y
  BY DEF Above
<1>2. /\ Branches(S, lab, st, ChOf(ns)) /\ OneNode(S, lab)
      /\ \A x \in S : lab[x] \in Seq(Byte) /\ Len(lab[x]) \in Nat /\ x # 0 /\ st[x] <= Len(lab[x]) /\ st[x] \in Nat
  BY TreeParts, TreeNode DEF NodeIn
<1>3. key[Len(lab[p]) + 1] \in Byte
  <2>1. Len(lab[p]) + 1 \in 1 .. Len(key)
    BY <1>1, <1>2
  <2>. QED BY <2>1
<1>. DEFINE bp == key[Len(lab[p]) + 1]
<1>. HIDE DEF bp
<1>4. \A x \in S : \A b \in Byte : ChOf(ns)[<<x, b>>] = y => Branch(lab, st, x, b, y)
  BY <1>2 DEF Branches
<1>5. Branch(lab, st, p, bp, y)
  BY <1>1, <1>3, <1>4 DEF bp
<1>6. p # y
  BY <1>1, <1>2, <1>5 DEF Branch
<1>7. ASSUME NEW x \in S, NEW b \in Byte, ChOf(ns)[<<x, b>>] = y
      PROVE  x = p /\ b = bp
  <2>1. Branch(lab, st, x, b, y)
    BY <1>4, <1>7
  <2>2. PICK n \in Nat : n = Len(lab[x]) /\ n = Len(lab[p])
    BY <1>1, <1>2, <1>5, <2>1 DEF Branch
  <2>3. Agree(lab[x], lab[y], n) /\ Agree(lab[p], lab[y], n) /\ b = bp
    BY <1>5, <2>1, <2>2 DEF Branch
  <2>4. Agree(lab[x], lab[p], Len(lab[x]))
    BY <2>2, <2>3, AgreeFacts
  <2>5. lab[x] = lab[p]
    BY <1>1, <1>2, <2>2, <2>4, SameString
  <2>. QED BY <1>1, <1>2, <2>3, <2>5 DEF OneNode
<1>8. OneParent(ns, S, lab, key, p, y)
  BY <1>1, <1>7 DEF OneParent, bp
<1>. QED BY <1>1, <1>3, <1>6, <1>8

Childless(ns, S, top) ==
  /\ \A x \in S : \A b \in Byte : ChOf(ns)[<<x, b>>] # x
  /\ top # 0 => \A x \in S : \A b \in Byte : ChOf(ns)[<<x, b>>] # top

\* The top of the tree is no child.
LEMMA NoParent ==
  ASSUME NEW ns, NEW S, NEW lab, NEW st, NEW top, Tree(ns, S, lab, st, top)
  PROVE  Childless(ns, S, top)
<1>1. /\ Branches(S, lab, st, ChOf(ns)) /\ Top(S, st, top)
      /\ \A x \in S : lab[x] \in Seq(Byte) /\ Len(lab[x]) \in Nat /\ x # 0 /\ st[x] <= Len(lab[x]) /\ st[x] \in Nat
  BY TreeParts, TreeNode DEF NodeIn
<1>2. \A x \in S : \A b \in Byte : ChOf(ns)[<<x, b>>] \in S => st[ChOf(ns)[<<x, b>>]] = Len(lab[x]) + 1
  BY <1>1 DEF Branches, Branch
<1>. QED BY <1>1, <1>2 DEF Top, Childless

\* f is what a change q of y becomes when its branch now leads to n.
Joined(ns, S, q, y, n, f) ==
  /\ NodesOK(f) /\ Len(f) = Len(q)
  /\ \A z \in 1 .. Len(q) : z \notin S \/ z = y => f[z] = q[z]
  /\ \A x \in S : x # y =>
       /\ f[x].kind = ns[x].kind /\ f[x].prefix = ns[x].prefix
       /\ f[x].val = ns[x].val /\ f[x].fwd = ns[x].fwd
       /\ \A b \in Byte : KidOf(f[x].kids, b) =
            IF KidOf(ns[x].kids, b) = y THEN n ELSE KidOf(ns[x].kids, b)
Rejoin(ns, S, lab, key, q, y, n, top, f, top2) ==
  \/ y = top /\ f = q /\ top2 = n
  \/ /\ y # top /\ top2 = top
     /\ \E p : Above(ns, S, lab, key, p, y) /\ f = Relink(q, p, key[Len(lab[p]) + 1], y, n)

Changed(ns, S, y, q, n) ==
  /\ NodesOK(q) /\ Len(ns) <= Len(q) /\ n \in 1 .. Len(q)
  /\ \A x \in S : x # y => q[x] = ns[x]
Rejoined(ns, S, q, y, n, top, f, top2) ==
  Joined(ns, S, q, y, n, f) /\ top2 = IF top = y THEN n ELSE top

\* When the child of a node was replaced and linked again, the rest of the tree is as it was.
LEMMA JoinFacts ==
  ASSUME NEW ns, NEW S, NEW lab, NEW st, NEW top, Tree(ns, S, lab, st, top),
         NEW key \in Seq(Byte), NEW y \in S, NEW q, NEW n, Changed(ns, S, y, q, n),
         NEW f, NEW top2, Rejoin(ns, S, lab, key, q, y, n, top, f, top2)
  PROVE  Rejoined(ns, S, q, y, n, top, f, top2)
<1>. SUFFICES ASSUME NodesOK(q), Len(ns) <= Len(q), n \in 1 .. Len(q), \A x \in S : x # y => q[x] = ns[x]
              PROVE  Joined(ns, S, q, y, n, f) /\ top2 = IF top = y THEN n ELSE top
  BY Zenon DEF Changed, Rejoined
<1>1. top2 = IF top = y THEN n ELSE top
  BY DEF Rejoin
<1>2. /\ S \subseteq 1 .. Len(ns) /\ Len(ns) \in Nat /\ Len(q) \in Nat
      /\ \A x \in S : x \in 1 .. Len(q) /\ x # 0
      /\ \A x \in S : ns[x].kind # MOVED /\ \A b \in Byte : ChOf(ns)[<<x, b>>] = KidOf(ns[x].kids, b)
  <2>1. S \subseteq 1 .. Len(ns) /\ Len(ns) \in Nat /\ Len(q) \in Nat /\ \A x \in S : x # 0
    BY TreeParts DEF NodesOK
  <2>2. \A x \in S : ns[x].kind # MOVED /\ \A b \in Byte : ChOf(ns)[<<x, b>>] = KidOf(ns[x].kids, b)
    BY TreeNode DEF NodeIn
  <2>. QED BY <2>1, <2>2
<1>3. CASE y = top
  <2>1. f = q
    BY <1>3 DEF Rejoin
  <2>2. \A x \in S : \A b \in Byte : KidOf(ns[x].kids, b) # y
    <3>1. top # 0
      BY <1>2, <1>3
    <3>2. \A x \in S : \A b \in Byte : ChOf(ns)[<<x, b>>] # top
      <4>1. Childless(ns, S, top)
        BY NoParent, Zenon
      <4>. QED BY <3>1, <4>1, Zenon DEF Childless
    <3>3. ASSUME NEW x \in S, NEW b \in Byte PROVE KidOf(ns[x].kids, b) # y
      <4>1. ChOf(ns)[<<x, b>>] = KidOf(ns[x].kids, b)
        BY <1>2
      <4>. QED BY <1>3, <3>2, <4>1
    <3>. QED BY <3>3
  <2>3. Joined(ns, S, q, y, n, f)
    BY <2>1, <2>2 DEF Joined
  <2>. QED BY <1>1, <2>3
<1>4. CASE y # top
  <2>1. PICK p : Above(ns, S, lab, key, p, y) /\ f = Relink(q, p, key[Len(lab[p]) + 1], y, n)
    BY <1>4 DEF Rejoin
  <2>. DEFINE bp == key[Len(lab[p]) + 1]
  <2>2. OneParent(ns, S, lab, key, p, y) /\ p \in S /\ p # y /\ bp \in Byte
    BY <2>1, ParentIs
  <2>3. \A x \in S : \A b \in Byte : KidOf(ns[x].kids, b) = y <=> x = p /\ b = bp
    <3>1. ASSUME NEW x \in S, NEW b \in Byte PROVE KidOf(ns[x].kids, b) = y <=> x = p /\ b = bp
      <4>1. ChOf(ns)[<<x, b>>] = KidOf(ns[x].kids, b)
        BY <1>2
      <4>2. ChOf(ns)[<<x, b>>] = y <=> x = p /\ b = bp
        BY <2>2, Zenon DEF OneParent
      <4>. QED BY <4>1, <4>2
    <3>. QED BY <3>1
  <2>. HIDE DEF bp
  <2>4. q[p] = ns[p] /\ p \in 1 .. Len(q) /\ y = KidOf(q[p].kids, bp) /\ q[p].kind # MOVED /\ y # 0
    BY <1>2, <2>2, <2>3
  <2>5. ChildPut(q, p, bp, n, f)
    <3>1. ChildPut(q, p, bp, n, Relink(q, p, bp, y, n))
      BY <2>2, <2>4, RelinkFacts
    <3>. QED BY <2>1, <3>1 DEF bp
  <2>6. /\ NodesOK(f) /\ Len(f) = Len(q)
        /\ \A z \in 1 .. Len(q) : z # p => f[z] = q[z]
        /\ f[p].kind = q[p].kind /\ f[p].prefix = q[p].prefix
        /\ f[p].val = q[p].val /\ f[p].fwd = q[p].fwd
        /\ \A b \in Byte : KidOf(f[p].kids, b) = IF b = bp THEN n ELSE KidOf(q[p].kids, b)
    BY <2>5, Zenon DEF ChildPut, WithChild
  <2>7. \A z \in 1 .. Len(q) : z \notin S \/ z = y => f[z] = q[z]
    BY <2>2, <2>6
  <2>8. ASSUME NEW x \in S, x # y
        PROVE  /\ f[x].kind = ns[x].kind /\ f[x].prefix = ns[x].prefix
               /\ f[x].val = ns[x].val /\ f[x].fwd = ns[x].fwd
               /\ \A b \in Byte : KidOf(f[x].kids, b) =
                    IF KidOf(ns[x].kids, b) = y THEN n ELSE KidOf(ns[x].kids, b)
    <3>1. CASE x = p
      BY <2>2, <2>3, <2>4, <2>6, <3>1
    <3>2. CASE x # p
      <4>1. f[x] = ns[x]
        BY <1>2, <2>6, <2>8, <3>2
      <4>. QED BY <2>3, <3>2, <4>1
    <3>. QED BY <3>1, <3>2
  <2>9. Joined(ns, S, q, y, n, f)
    BY <2>6, <2>7, <2>8, Zenon DEF Joined
  <2>. QED BY <1>1, <2>9
<1>. QED BY <1>3, <1>4

\* The nodes S of f have these labels and children.
Fits(f, S, lab, st, ch) ==
  /\ S \subseteq 1 .. Len(f)
  /\ \A x \in S : f[x].kind # MOVED /\ f[x].prefix = Rest(lab[x], st[x])
  /\ \A x \in S : \A b \in Byte : KidOf(f[x].kids, b) = ch[<<x, b>>]

\* Nodes that fit a shape are a tree.
LEMMA FitsTree ==
  ASSUME NEW f, NodesOK(f), NEW S, NEW lab, NEW st, NEW ch, NEW top,
         Fits(f, S, lab, st, ch), Shape(S, lab, st, ch, top)
  PROVE  Tree(f, S, lab, st, top)
<1>1. /\ Labels(S, lab, st) /\ Top(S, st, top) /\ Branches(S, lab, st, ch)
      /\ Complete(S, lab, ch) /\ Apart(S, lab, st) /\ OneNode(S, lab)
  BY Zenon DEF Shape
<1>2. /\ S \subseteq 1 .. Len(f)
      /\ \A x \in S : f[x].kind # MOVED /\ f[x].prefix = Rest(lab[x], st[x])
      /\ \A x \in S : \A b \in Byte : KidOf(f[x].kids, b) = ch[<<x, b>>]
  BY Zenon DEF Fits
<1>3. ASSUME NEW x \in S, NEW b \in Byte PROVE ChOf(f)[<<x, b>>] = ch[<<x, b>>]
  <2>1. x \in 1 .. Len(f) /\ f[x].kind # MOVED /\ KidOf(f[x].kids, b) = ch[<<x, b>>]
    BY <1>2
  <2>2. ChOf(f)[<<x, b>>] = art_child(f, x, b)
    BY <2>1 DEF ChOf
  <2>3. art_child(f, x, b) = KidOf(f[x].kids, b)
    BY <2>1, ChildIs
  <2>. QED BY <2>1, <2>2, <2>3
<1>4. Branches(S, lab, st, ChOf(f))
  <2>1. SUFFICES ASSUME NEW x \in S, NEW b \in Byte, ChOf(f)[<<x, b>>] # 0
                 PROVE  ChOf(f)[<<x, b>>] \in S /\ Branch(lab, st, x, b, ChOf(f)[<<x, b>>])
    BY Zenon DEF Branches
  <2>2. ChOf(f)[<<x, b>>] = ch[<<x, b>>]
    BY <1>3
  <2>3. ch[<<x, b>>] \in S /\ Branch(lab, st, x, b, ch[<<x, b>>])
    BY <1>1, <2>1, <2>2, Zenon DEF Branches
  <2>. QED BY <2>2, <2>3, Zenon
<1>5. Complete(S, lab, ChOf(f))
  <2>1. SUFFICES ASSUME NEW x \in S, NEW y \in S, Len(lab[x]) < Len(lab[y]),
                        Agree(lab[x], lab[y], Len(lab[x]))
                 PROVE  ChOf(f)[<<x, lab[y][Len(lab[x]) + 1]>>] # 0
    BY Zenon DEF Complete
  <2>2. lab[x] \in Seq(Byte) /\ lab[y] \in Seq(Byte)
    BY <1>1 DEF Labels
  <2>3. Len(lab[x]) + 1 \in 1 .. Len(lab[y])
    BY <2>1, <2>2
  <2>4. lab[y][Len(lab[x]) + 1] \in Byte
    BY <2>2, <2>3
  <2>5. ch[<<x, lab[y][Len(lab[x]) + 1]>>] # 0
    BY <1>1, <2>1, Zenon DEF Complete
  <2>. QED BY <1>3, <2>4, <2>5, Zenon
<1>6. Shape(S, lab, st, ChOf(f), top)
  BY <1>1, <1>4, <1>5, Zenon DEF Shape
<1>. QED BY <1>2, <1>6, Zenon DEF Tree

\* The chain of m nodes behind the first L nodes of f.
ChainIn(f, L, key, d, v, m, en) ==
  /\ Ending(en, d, key, m) /\ L \in Nat
  /\ \A i \in 1 .. m :
       /\ L + i \in 1 .. Len(f)
       /\ f[L + i].kind = N4
       /\ f[L + i].prefix = SubSeq(key, From(en, d, i) + 1, en[i])
       /\ f[L + i].val = IF i = m THEN v ELSE None
       /\ f[L + i].kids = IF i < m THEN << <<key[en[i] + 1], L + i + 1>> >> ELSE <<>>

\* The nodes S of f fit but for the child L + 1 of p, or there were none.
Hangs(f, S, lab, st, ch, p, key, e, L) ==
  /\ S \subseteq 1 .. Len(f)
  /\ \A x \in S : f[x].kind # MOVED /\ f[x].prefix = Rest(lab[x], st[x])
  /\ \A x \in S : \A b \in Byte :
       KidOf(f[x].kids, b) = IF x = p /\ b = key[e] THEN L + 1 ELSE ch[<<x, b>>]
  /\ \/ p \in S /\ e = Len(lab[p]) + 1 /\ Agree(lab[p], key, e - 1) /\ ch[<<p, key[e]>>] = 0
     \/ p = 0 /\ S = {} /\ e = 0

\* The tree S2 has the nodes S, a node for key with value v, and more without values.
Extended(f, S, lab, key, v, S2, lab2) ==
  /\ S \subseteq S2 /\ \A x \in S : lab2[x] = lab[x]
  /\ \E z \in S2 : lab2[z] = key /\ f[z].val = v
  /\ \A x \in S2 : x \in S \/ lab2[x] = key \/ f[x].val = None

\* A chain for the rest of a key, hung below a node, makes a tree in which the key has its value.
LEMMA HangTree ==
  ASSUME NEW f, NodesOK(f), NEW S, NEW lab, NEW st, NEW ch, NEW top, Shape(S, lab, st, ch, top),
         NEW key \in Seq(Byte), NEW v, NEW L, NEW m, NEW en, NEW e \in Nat, NEW p,
         Hangs(f, S, lab, st, ch, p, key, e, L), ChainIn(f, L, key, e, v, m, en),
         \A x \in S : \A i \in 1 .. m : x # L + i
  PROVE  \E S2, lab2, st2 : /\ Tree(f, S2, lab2, st2, IF S = {} THEN L + 1 ELSE top)
                            /\ Extended(f, S, lab, key, v, S2, lab2)
<1>. DEFINE cid == [i \in 1 .. m |-> L + i]
            K == {L + i : i \in 1 .. m}
            S2 == S \union K
            lab2 == [x \in S2 |-> IF x \in S THEN lab[x] ELSE SubSeq(key, 1, en[x - L])]
            st2 == [x \in S2 |-> IF x \in S THEN st[x] ELSE From(en, e, x - L)]
            ch2 == [a \in S2 \X Byte |-> KidOf(f[a[1]].kids, a[2])]
<1>1. /\ S \subseteq 1 .. Len(f)
      /\ \A x \in S : f[x].kind # MOVED /\ f[x].prefix = Rest(lab[x], st[x])
      /\ \A x \in S : \A b \in Byte :
           KidOf(f[x].kids, b) = IF x = p /\ b = key[e] THEN L + 1 ELSE ch[<<x, b>>]
      /\ \/ p \in S /\ e = Len(lab[p]) + 1 /\ Agree(lab[p], key, e - 1) /\ ch[<<p, key[e]>>] = 0
         \/ p = 0 /\ S = {} /\ e = 0
  BY Zenon DEF Hangs
<1>2. /\ Ending(en, e, key, m) /\ L \in Nat
      /\ \A i \in 1 .. m :
           /\ L + i \in 1 .. Len(f)
           /\ f[L + i].kind = N4
           /\ f[L + i].prefix = SubSeq(key, From(en, e, i) + 1, en[i])
           /\ f[L + i].val = IF i = m THEN v ELSE None
           /\ f[L + i].kids = IF i < m THEN << <<key[en[i] + 1], L + i + 1>> >> ELSE <<>>
  BY Zenon DEF ChainIn
<1>3. /\ m \in Nat /\ m >= 1 /\ en[m] = Len(key)
      /\ \A i \in 1 .. m : /\ en[i] \in Nat /\ en[i] <= Len(key)
                           /\ From(en, e, i) \in Nat /\ From(en, e, i) <= en[i]
      /\ \A i \in 1 .. m : \A j \in 1 .. m : i < j => en[i] < en[j]
  BY <1>2, Zenon DEF Ending
<1>4. ASSUME NEW i \in 1 .. m
      PROVE  /\ L + i \in S2 /\ L + i \notin S /\ (L + i) - L = i /\ L + i \in Nat /\ L + i # 0
             /\ lab2[L + i] = SubSeq(key, 1, en[i]) /\ st2[L + i] = From(en, e, i)
  <2>1. L + i \in S2 /\ L + i \notin S /\ (L + i) - L = i /\ L + i \in Nat /\ L + i # 0
    BY <1>2
  <2>. HIDE DEF S2
  <2>. QED BY <2>1
<1>5. \A x \in S : x \in S2 /\ lab2[x] = lab[x] /\ st2[x] = st[x]
  OBVIOUS
<1>6. \A x \in S2 : \A b \in Byte : ch2[<<x, b>>] = KidOf(f[x].kids, b)
  <2>. HIDE DEF S2
  <2>. QED OBVIOUS
<1>7. ASSUME NEW i \in 1 .. m, NEW b \in Byte
      PROVE  ch2[<<L + i, b>>] = IF i < m /\ b = key[en[i] + 1] THEN L + i + 1 ELSE 0
  <2>1. ch2[<<L + i, b>>] = KidOf(f[L + i].kids, b)
    BY <1>4, <1>6
  <2>2. CASE i < m
    <3>1. m \in 1 .. m /\ en[i] < en[m] /\ en[i] \in Nat
      BY <1>3, <2>2
    <3>2. en[i] + 1 \in 1 .. Len(key)
      BY <1>3, <3>1
    <3>3. key[en[i] + 1] \in Byte
      BY <3>2
    <3>4. f[L + i].kids = << <<key[en[i] + 1], L + i + 1>> >>
      BY <1>2, <2>2
    <3>5. L + i + 1 \in Nat
      BY <1>2
    <3>6. KidOf(f[L + i].kids, b) = IF b = key[en[i] + 1] THEN L + i + 1 ELSE 0
      BY <3>3, <3>4, <3>5, OneKid
    <3>. QED BY <2>1, <2>2, <3>6
  <2>3. CASE ~(i < m)
    <3>1. f[L + i].kids = <<>>
      BY <1>2, <2>3
    <3>2. KidOf(f[L + i].kids, b) = 0
      BY <3>1, NoKids, Zenon DEF KidOf
    <3>. QED BY <2>1, <2>3, <3>2
  <2>. QED BY <2>2, <2>3
<1>8. \A x \in S2 : x \in S \/ \E i \in 1 .. m : x = L + i
  OBVIOUS
<1>9. /\ \A i \in 1 .. m : cid[i] = L + i
      /\ K = {cid[i] : i \in 1 .. m}
  OBVIOUS
<1>10. \A x \in S : \A b \in Byte :
         ch2[<<x, b>>] = IF x = p /\ b = key[e] THEN L + 1 ELSE ch[<<x, b>>]
  <2>1. SUFFICES ASSUME NEW x \in S, NEW b \in Byte
                 PROVE  ch2[<<x, b>>] = IF x = p /\ b = key[e] THEN L + 1 ELSE ch[<<x, b>>]
    OBVIOUS
  <2>2. ch2[<<x, b>>] = KidOf(f[x].kids, b)
    BY <1>5, <1>6
  <2>3. KidOf(f[x].kids, b) = IF x = p /\ b = key[e] THEN L + 1 ELSE ch[<<x, b>>]
    BY <1>1
  <2>. QED BY <2>2, <2>3
<1>11. S2 = S \union {cid[i] : i \in 1 .. m}
  BY <1>9
<1>. HIDE DEF cid, K, S2, lab2, st2, ch2
<1>12. 1 \in 1 .. m /\ m \in 1 .. m
  BY <1>3
<1>13. e <= en[1]
  BY <1>3, <1>12, Zenon DEF From
<1>14. \A i \in 1 .. m :
         /\ lab2[cid[i]] = SubSeq(key, 1, en[i])
         /\ st2[cid[i]] = IF i = 1 THEN e ELSE en[i - 1] + 1
         /\ \A b \in Byte : ch2[<<cid[i], b>>] =
              IF i < m /\ b = key[en[i] + 1] THEN cid[i + 1] ELSE 0
  <2>1. SUFFICES ASSUME NEW i \in 1 .. m
                 PROVE  /\ lab2[cid[i]] = SubSeq(key, 1, en[i])
                        /\ st2[cid[i]] = IF i = 1 THEN e ELSE en[i - 1] + 1
                        /\ \A b \in Byte : ch2[<<cid[i], b>>] =
                             IF i < m /\ b = key[en[i] + 1] THEN cid[i + 1] ELSE 0
    OBVIOUS
  <2>2. cid[i] = L + i
    BY <1>9
  <2>3. lab2[cid[i]] = SubSeq(key, 1, en[i]) /\ st2[cid[i]] = From(en, e, i)
    BY <1>4, <2>2
  <2>4. i < m => cid[i + 1] = L + i + 1
    <3>1. SUFFICES ASSUME i < m PROVE cid[i + 1] = L + i + 1
      OBVIOUS
    <3>2. i + 1 \in 1 .. m /\ L + (i + 1) = L + i + 1
      BY <1>2, <1>3, <3>1
    <3>. QED BY <1>9, <3>2
  <2>5. \A b \in Byte : ch2[<<cid[i], b>>] = IF i < m /\ b = key[en[i] + 1] THEN cid[i + 1] ELSE 0
    BY <1>7, <2>2, <2>4
  <2>. QED BY <2>3, <2>5, Zenon DEF From
<1>15. ChainRel(S, lab, st, ch, key, e, m, cid, en, p, S2, lab2, st2, ch2)
  <2>1. \A i \in 1 .. m : en[i] \in Nat /\ cid[i] \in Nat /\ cid[i] # 0 /\ cid[i] \notin S
    BY <1>3, <1>4, <1>9
  <2>2. cid[1] = L + 1
    BY <1>9, <1>12
  <2>3. \A x \in S : \A b \in Byte :
          ch2[<<x, b>>] = IF x = p /\ b = key[e] THEN cid[1] ELSE ch[<<x, b>>]
    BY <1>10, <2>2
  <2>4. \A x \in S : lab2[x] = lab[x] /\ st2[x] = st[x]
    BY <1>5
  <2>. QED BY <1>1, <1>3, <1>11, <1>13, <1>14, <2>1, <2>3, <2>4, Zenon DEF ChainRel
<1>16. Shape(S2, lab2, st2, ch2, IF S = {} THEN L + 1 ELSE top)
  <2>1. Shape(S2, lab2, st2, ch2, IF S = {} THEN cid[1] ELSE top)
    BY <1>15, ChainShape, Zenon
  <2>2. cid[1] = L + 1
    BY <1>9, <1>12
  <2>. QED BY <2>1, <2>2, Zenon
<1>17. Fits(f, S2, lab2, st2, ch2)
  <2>1. \A x \in S2 : x \in 1 .. Len(f)
    BY <1>1, <1>2, <1>8
  <2>2. ASSUME NEW x \in S2 PROVE f[x].kind # MOVED /\ f[x].prefix = Rest(lab2[x], st2[x])
    <3>1. CASE x \in S
      BY <1>1, <1>5, <3>1
    <3>2. CASE x \notin S
      <4>1. PICK i \in 1 .. m : x = L + i
        BY <1>8, <3>2
      <4>2. f[x].kind # MOVED
        <5>1. f[x].kind = N4
          BY <1>2, <4>1
        <5>. QED BY <5>1 DEF N4, MOVED
      <4>3. lab2[x] = SubSeq(key, 1, en[i]) /\ st2[x] = From(en, e, i)
        BY <1>4, <4>1
      <4>4. f[x].prefix = SubSeq(key, From(en, e, i) + 1, en[i])
        BY <1>2, <4>1
      <4>5. /\ en[i] \in Nat /\ en[i] <= Len(key)
            /\ From(en, e, i) \in Nat /\ From(en, e, i) <= en[i]
        BY <1>3
      <4>6. Rest(SubSeq(key, 1, en[i]), From(en, e, i)) = SubSeq(key, From(en, e, i) + 1, en[i])
        BY <4>5, SubFrom
      <4>. QED BY <4>2, <4>3, <4>4, <4>6
    <3>. QED BY <3>1, <3>2
  <2>. QED BY <1>6, <2>1, <2>2 DEF Fits
<1>18. Tree(f, S2, lab2, st2, IF S = {} THEN L + 1 ELSE top)
  BY <1>16, <1>17, FitsTree, Zenon
<1>19. Extended(f, S, lab, key, v, S2, lab2)
  <2>1. L + m \in S2 /\ lab2[L + m] = key /\ f[L + m].val = v
    <3>1. SubSeq(key, 1, Len(key)) = key
      OBVIOUS
    <3>2. L + m \in S2 /\ lab2[L + m] = SubSeq(key, 1, en[m])
      BY <1>4, <1>12
    <3>3. f[L + m].val = v
      BY <1>2, <1>12
    <3>. QED BY <1>3, <3>1, <3>2, <3>3, Zenon
  <2>2. ASSUME NEW x \in S2, x \notin S, lab2[x] # key PROVE f[x].val = None
    <3>1. PICK i \in 1 .. m : x = L + i
      BY <1>8, <2>2
    <3>2. CASE i = m
      BY <2>1, <2>2, <3>1, <3>2
    <3>3. CASE i # m
      BY <1>2, <3>1, <3>3
    <3>. QED BY <3>2, <3>3
  <2>3. S \subseteq S2 /\ \A x \in S : lab2[x] = lab[x]
    BY <1>5
  <2>. QED BY <2>1, <2>2, <2>3, Zenon DEF Extended
<1>. QED BY <1>18, <1>19, Zenon

\* The node x0 is x, or was moved there.
Stays(f, x0, x) == x = x0 \/ (x0 \in 1 .. Len(f) /\ f[x0].kind = MOVED /\ f[x0].fwd = x)

\* What an insertion of v for key makes of the labels and the values.
Outcome(ns, S, lab, key, v, f, S2, lab2) ==
  /\ \E z \in S2 : lab2[z] = key /\ f[z].val = v
  /\ \A x \in S2 : \/ lab2[x] = key \/ f[x].val = None
                   \/ \E x0 \in S : lab[x0] = lab2[x] /\ ns[x0].val = f[x].val
  /\ \A x0 \in S : \E x \in S2 :
       /\ lab2[x] = lab[x0] /\ (lab[x0] = key \/ f[x].val = ns[x0].val)
       /\ Stays(f, x0, x)
Done(ns, S, lab, key, v, f, top2) ==
  \E S2, lab2, st2 : Tree(f, S2, lab2, st2, top2) /\ Outcome(ns, S, lab, key, v, f, S2, lab2)

\* The labels and values were kept, other nodes have no values.
Kept(ns, S, lab, f, S1, lab1) ==
  /\ \A x \in S1 : f[x].val = None \/ \E x0 \in S : lab[x0] = lab1[x] /\ ns[x0].val = f[x].val
  /\ \A x0 \in S : \E x \in S1 : /\ lab1[x] = lab[x0] /\ f[x].val = ns[x0].val
                                 /\ Stays(f, x0, x)

\* What was kept first and extended then is what an insertion promises.
LEMMA ExtendKept ==
  ASSUME NEW ns, NEW S, NEW lab, NEW key, NEW v, NEW f, NEW S1, NEW lab1, NEW S2, NEW lab2,
         Kept(ns, S, lab, f, S1, lab1), Extended(f, S1, lab1, key, v, S2, lab2)
  PROVE  Outcome(ns, S, lab, key, v, f, S2, lab2)
<1>1. /\ S1 \subseteq S2 /\ \A x \in S1 : lab2[x] = lab1[x]
      /\ \E z \in S2 : lab2[z] = key /\ f[z].val = v
      /\ \A x \in S2 : x \in S1 \/ lab2[x] = key \/ f[x].val = None
  BY Zenon DEF Extended
<1>2. ASSUME NEW x \in S2
      PROVE  \/ lab2[x] = key \/ f[x].val = None
             \/ \E x0 \in S : lab[x0] = lab2[x] /\ ns[x0].val = f[x].val
  <2>1. CASE x \in S1
    <3>1. lab2[x] = lab1[x]
      BY <1>1, <2>1
    <3>2. f[x].val = None \/ \E x0 \in S : lab[x0] = lab1[x] /\ ns[x0].val = f[x].val
      BY <2>1, Zenon DEF Kept
    <3>. QED BY <3>1, <3>2
  <2>2. CASE x \notin S1
    BY <1>1, <2>2
  <2>. QED BY <2>1, <2>2
<1>3. ASSUME NEW x0 \in S
      PROVE  \E x \in S2 : /\ lab2[x] = lab[x0] /\ (lab[x0] = key \/ f[x].val = ns[x0].val)
                           /\ Stays(f, x0, x)
  <2>1. PICK x \in S1 : /\ lab1[x] = lab[x0] /\ f[x].val = ns[x0].val
                        /\ Stays(f, x0, x)
    BY Zenon DEF Kept
  <2>2. x \in S2 /\ lab2[x] = lab1[x]
    BY <1>1, <2>1
  <2>. QED BY <2>1, <2>2, Zenon
<1>. QED BY <1>1, <1>2, <1>3, Zenon DEF Outcome

\* A chain put behind ns is there.
LEMMA ChainedIn ==
  ASSUME NEW ns, NodesOK(ns), NEW key, NEW d, NEW v, NEW new, NEW m, NEW en,
         Ending(en, d, key, m), Chained(ns, key, d, v, new, m, en)
  PROVE  ChainIn(new, Len(ns), key, d, v, m, en)
<1>1. Len(ns) \in Nat /\ m \in Nat /\ Len(new) = Len(ns) + m
  BY DEF NodesOK, Ending, Chained
<1>2. \A i \in 1 .. m : Len(ns) + i \in 1 .. Len(new)
  BY <1>1
<1>3. \A i \in 1 .. m :
        /\ new[Len(ns) + i].kind = N4
        /\ new[Len(ns) + i].prefix = SubSeq(key, From(en, d, i) + 1, en[i])
        /\ new[Len(ns) + i].val = IF i = m THEN v ELSE None
        /\ new[Len(ns) + i].kids =
             IF i < m THEN << <<key[en[i] + 1], Len(ns) + i + 1>> >> ELSE <<>>
  BY Zenon DEF Chained
<1>. QED BY <1>1, <1>2, <1>3, Zenon DEF ChainIn

\* It stays there when its nodes are not touched.
LEMMA ChainStays ==
  ASSUME NEW g, NEW L, NEW key, NEW d, NEW v, NEW m, NEW en, ChainIn(g, L, key, d, v, m, en),
         NEW f, Len(g) \in Nat, Len(f) \in Nat, Len(g) <= Len(f),
         \A i \in 1 .. m : f[L + i] = g[L + i]
  PROVE  ChainIn(f, L, key, d, v, m, en)
<1>1. \A i \in 1 .. m :
       /\ L + i \in 1 .. Len(g)
       /\ g[L + i].kind = N4
       /\ g[L + i].prefix = SubSeq(key, From(en, d, i) + 1, en[i])
       /\ g[L + i].val = IF i = m THEN v ELSE None
       /\ g[L + i].kids = IF i < m THEN << <<key[en[i] + 1], L + i + 1>> >> ELSE <<>>
  BY Zenon DEF ChainIn
<1>2. \A z \in 1 .. Len(g) : z \in 1 .. Len(f)
  OBVIOUS
<1>3. Ending(en, d, key, m) /\ L \in Nat
  BY Zenon DEF ChainIn
<1>. QED BY <1>1, <1>2, <1>3, Zenon DEF ChainIn

\* The first key.
LEMMA EmptyDone ==
  ASSUME NEW ns, NEW S, NEW lab, NEW st, Tree(ns, S, lab, st, 0),
         NEW key \in Seq(Byte), NEW v, NEW f, NEW m, NEW en,
         Ending(en, 0, key, m), Chained(ns, key, 0, v, f, m, en)
  PROVE  Done(ns, S, lab, key, v, f, Len(ns) + 1)
<1>1. NodesOK(ns) /\ Shape(S, lab, st, ChOf(ns), 0) /\ S = {}
  BY TreeParts DEF Top
<1>2. ChainIn(f, Len(ns), key, 0, v, m, en)
  BY <1>1, ChainedIn, Zenon
<1>3. NodesOK(f)
  BY Zenon DEF Chained
<1>4. Hangs(f, S, lab, st, ChOf(ns), 0, key, 0, Len(ns))
  BY <1>1, Zenon DEF Hangs
<1>5. 0 \in Nat /\ \A x \in S : \A i \in 1 .. m : x # Len(ns) + i
  BY <1>1
<1>6. PICK S2, lab2, st2 : /\ Tree(f, S2, lab2, st2, IF S = {} THEN Len(ns) + 1 ELSE 0)
                           /\ Extended(f, S, lab, key, v, S2, lab2)
  BY <1>1, <1>2, <1>3, <1>4, <1>5, HangTree, Zenon
<1>7. Kept(ns, S, lab, f, S, lab)
  BY <1>1, Zenon DEF Kept
<1>8. Outcome(ns, S, lab, key, v, f, S2, lab2)
  BY <1>6, <1>7, ExtendKept, Zenon
<1>9. Tree(f, S2, lab2, st2, Len(ns) + 1)
  BY <1>1, <1>6, Zenon
<1>. QED BY <1>8, <1>9, Zenon DEF Done

\* Nothing but values and other nodes changed.
LEMMA SameTree ==
  ASSUME NEW ns, NEW S, NEW lab, NEW st, NEW top, Tree(ns, S, lab, st, top),
         NEW f, NodesOK(f), Len(ns) <= Len(f),
         \A x \in S : /\ f[x].kind = ns[x].kind /\ f[x].prefix = ns[x].prefix
                      /\ \A b \in Byte : KidOf(f[x].kids, b) = KidOf(ns[x].kids, b)
  PROVE  Tree(f, S, lab, st, top)
<1>1. Shape(S, lab, st, ChOf(ns), top) /\ S \subseteq 1 .. Len(ns) /\ Len(ns) \in Nat
  BY TreeParts
<1>2. \A x \in S : x \in 1 .. Len(f)
  BY <1>1 DEF NodesOK
<1>3. ASSUME NEW x \in S
      PROVE  /\ f[x].kind # MOVED /\ f[x].prefix = Rest(lab[x], st[x])
             /\ \A b \in Byte : KidOf(f[x].kids, b) = ChOf(ns)[<<x, b>>]
  <2>1. ns[x].prefix = Rest(lab[x], st[x])
    BY Zenon DEF Tree
  <2>2. ns[x].kind # MOVED /\ \A b \in Byte : ChOf(ns)[<<x, b>>] = KidOf(ns[x].kids, b)
    <3>1. NodeIn(ns, lab, st, x)
      BY TreeNode, Zenon
    <3>. QED BY <3>1, Zenon DEF NodeIn
  <2>. QED BY <2>1, <2>2
<1>4. Fits(f, S, lab, st, ChOf(ns))
  BY <1>2, <1>3 DEF Fits
<1>. QED BY <1>1, <1>4, FitsTree, Zenon

\* A node that is there gets the value.
LEMMA ValueDone ==
  ASSUME NEW ns, NEW S, NEW lab, NEW st, NEW top, Tree(ns, S, lab, st, top),
         NEW key \in Seq(Byte), NEW y \in S, Within(lab[y], key), Len(lab[y]) = Len(key),
         NEW v, NEW f, NodesOK(f), Len(f) = Len(ns),
         \A x \in S : x # y => f[x] = ns[x],
         f[y].kind = ns[y].kind, f[y].prefix = ns[y].prefix, f[y].kids = ns[y].kids, f[y].val = v
  PROVE  Done(ns, S, lab, key, v, f, top)
<1>1. Tree(f, S, lab, st, top)
  <2>1. Len(ns) <= Len(f)
    BY TreeParts
  <2>2. \A x \in S : /\ f[x].kind = ns[x].kind /\ f[x].prefix = ns[x].prefix
                     /\ \A b \in Byte : KidOf(f[x].kids, b) = KidOf(ns[x].kids, b)
    OBVIOUS
  <2>. QED BY <2>1, <2>2, SameTree, Zenon
<1>2. lab[y] = key
  <2>1. lab[y] \in Seq(Byte)
    BY TreeParts DEF Labels
  <2>. QED BY <2>1, SameString DEF Within
<1>3. \A x \in S : lab[x] = key \/ f[x].val = ns[x].val
  BY <1>2
<1>4. Outcome(ns, S, lab, key, v, f, S, lab)
  <2>1. \E z \in S : lab[z] = key /\ f[z].val = v
    BY <1>2
  <2>2. \A x \in S : \/ lab[x] = key \/ f[x].val = None
                    \/ \E x0 \in S : lab[x0] = lab[x] /\ ns[x0].val = f[x].val
    BY <1>3
  <2>3. \A x0 \in S : \E x \in S :
          /\ lab[x] = lab[x0] /\ (lab[x0] = key \/ f[x].val = ns[x0].val)
          /\ Stays(f, x0, x)
    BY <1>3 DEF Stays
  <2>. QED BY <2>1, <2>2, <2>3, Zenon DEF Outcome
<1>. QED BY <1>1, <1>4, Zenon DEF Done

\* A node gets the chain as a child.
LEMMA ChildDone ==
  ASSUME NEW ns, NEW S, NEW lab, NEW st, NEW top, Tree(ns, S, lab, st, top),
         NEW key \in Seq(Byte), NEW y \in S, Within(lab[y], key), Len(lab[y]) < Len(key),
         ChOf(ns)[<<y, key[Len(lab[y]) + 1]>>] = 0,
         NEW v, NEW m, NEW en, NEW g, Ending(en, Len(lab[y]) + 1, key, m),
         Chained(ns, key, Len(lab[y]) + 1, v, g, m, en),
         NEW q, ChildPut(g, y, key[Len(lab[y]) + 1], Len(ns) + 1, q),
         NEW f, Joined(ns, S, q, y, y, f)
  PROVE  Done(ns, S, lab, key, v, f, top)
<1>. DEFINE e == Len(lab[y]) + 1
<1>0. /\ Ending(en, e, key, m) /\ Chained(ns, key, e, v, g, m, en)
      /\ ChildPut(g, y, key[e], Len(ns) + 1, q) /\ ChOf(ns)[<<y, key[e]>>] = 0
      /\ e = Len(lab[y]) + 1
  OBVIOUS
<1>. HIDE DEF e
<1>1. /\ NodesOK(ns) /\ Shape(S, lab, st, ChOf(ns), top) /\ S \subseteq 1 .. Len(ns)
      /\ Len(ns) \in Nat /\ S # {} /\ Labels(S, lab, st)
  BY TreeParts
<1>2. NodesOK(g) /\ Len(g) = Len(ns) + m /\ \A z \in 1 .. Len(ns) : g[z] = ns[z]
  BY <1>0, Zenon DEF Chained
<1>3. m \in Nat
  BY <1>0, Zenon DEF Ending
<1>4. /\ NodesOK(q) /\ Len(q) = Len(g) /\ \A z \in 1 .. Len(g) : z # y => q[z] = g[z]
      /\ q[y].kind = g[y].kind /\ q[y].prefix = g[y].prefix /\ q[y].val = g[y].val
      /\ \A b \in Byte : KidOf(q[y].kids, b) = IF b = key[e] THEN Len(ns) + 1 ELSE KidOf(g[y].kids, b)
  BY <1>0, Zenon DEF ChildPut, WithChild
<1>5. /\ NodesOK(f) /\ Len(f) = Len(q)
      /\ \A z \in 1 .. Len(q) : z \notin S \/ z = y => f[z] = q[z]
      /\ \A x \in S : x # y =>
           /\ f[x].kind = ns[x].kind /\ f[x].prefix = ns[x].prefix /\ f[x].val = ns[x].val
           /\ \A b \in Byte : KidOf(f[x].kids, b) =
                IF KidOf(ns[x].kids, b) = y THEN y ELSE KidOf(ns[x].kids, b)
  BY Zenon DEF Joined
<1>6. y \in 1 .. Len(ns) /\ y \in 1 .. Len(q) /\ f[y] = q[y] /\ g[y] = ns[y]
  BY <1>1, <1>2, <1>3, <1>4, <1>5
<1>7. ASSUME NEW x \in S
      PROVE  /\ f[x].kind # MOVED /\ f[x].prefix = Rest(lab[x], st[x]) /\ f[x].val = ns[x].val
             /\ \A b \in Byte : KidOf(f[x].kids, b) =
                  IF x = y /\ b = key[e] THEN Len(ns) + 1 ELSE ChOf(ns)[<<x, b>>]
  <2>1. ns[x].prefix = Rest(lab[x], st[x])
    BY Zenon DEF Tree
  <2>2. ns[x].kind # MOVED /\ \A b \in Byte : ChOf(ns)[<<x, b>>] = KidOf(ns[x].kids, b)
    <3>1. NodeIn(ns, lab, st, x)
      BY TreeNode, Zenon
    <3>. QED BY <3>1, Zenon DEF NodeIn
  <2>3. CASE x = y
    <3>1. /\ f[x].kind = ns[x].kind /\ f[x].prefix = ns[x].prefix /\ f[x].val = ns[x].val
          /\ \A b \in Byte : KidOf(f[x].kids, b) = IF b = key[e] THEN Len(ns) + 1 ELSE KidOf(ns[x].kids, b)
      BY <1>4, <1>6, <2>3
    <3>. QED BY <2>1, <2>2, <2>3, <3>1
  <2>4. CASE x # y
    <3>1. /\ f[x].kind = ns[x].kind /\ f[x].prefix = ns[x].prefix /\ f[x].val = ns[x].val
          /\ \A b \in Byte : KidOf(f[x].kids, b) = KidOf(ns[x].kids, b)
      BY <1>5, <2>4
    <3>. QED BY <2>1, <2>2, <2>4, <3>1
  <2>. QED BY <2>3, <2>4
<1>8. Hangs(f, S, lab, st, ChOf(ns), y, key, e, Len(ns))
  <2>1. \A x \in S : x \in 1 .. Len(f)
    BY <1>1, <1>2, <1>3, <1>4, <1>5
  <2>2. Len(lab[y]) \in Nat /\ e - 1 = Len(lab[y]) /\ Agree(lab[y], key, Len(lab[y]))
    BY <1>0, <1>1 DEF Labels, Within
  <2>. QED BY <1>0, <1>7, <2>1, <2>2 DEF Hangs
<1>9. ChainIn(f, Len(ns), key, e, v, m, en)
  <2>1. ChainIn(g, Len(ns), key, e, v, m, en)
    BY <1>0, <1>1, ChainedIn, Zenon
  <2>2. Len(g) \in Nat /\ Len(f) \in Nat /\ Len(g) <= Len(f)
    BY <1>1, <1>2, <1>3, <1>4, <1>5
  <2>3. ASSUME NEW i \in 1 .. m PROVE f[Len(ns) + i] = g[Len(ns) + i]
    <3>1. Len(ns) + i \in 1 .. Len(g) /\ Len(ns) + i \notin S /\ Len(ns) + i # y
      BY <1>1, <1>2, <1>3
    <3>. QED BY <1>4, <1>5, <3>1
  <2>. QED BY <2>1, <2>2, <2>3, ChainStays, Zenon
<1>10. \A x \in S : \A i \in 1 .. m : x # Len(ns) + i
  BY <1>1, <1>3
<1>11. e \in Nat
  BY <1>0, <1>1 DEF Labels
<1>12. PICK S2, lab2, st2 : /\ Tree(f, S2, lab2, st2, IF S = {} THEN Len(ns) + 1 ELSE top)
                            /\ Extended(f, S, lab, key, v, S2, lab2)
  BY <1>1, <1>5, <1>8, <1>9, <1>10, <1>11, HangTree, Zenon
<1>13. Kept(ns, S, lab, f, S, lab)
  BY <1>7, Zenon DEF Kept, Stays
<1>14. Outcome(ns, S, lab, key, v, f, S2, lab2)
  BY <1>12, <1>13, ExtendKept, Zenon
<1>15. Tree(f, S2, lab2, st2, top)
  BY <1>1, <1>12, Zenon
<1>. QED BY <1>14, <1>15, Zenon DEF Done

\* f has the nodes of a tree ns with y cut after s bytes below a node n.
CutNodes(ns, S, y, s, n, f) ==
  /\ NodesOK(f) /\ n \in 1 .. Len(f) /\ n \notin S /\ \A x \in S : x \in 1 .. Len(f)
  /\ f[y].kind = ns[y].kind /\ f[y].prefix = Rest(ns[y].prefix, s + 1) /\ f[y].val = ns[y].val
  /\ \A b \in Byte : KidOf(f[y].kids, b) = KidOf(ns[y].kids, b)
  /\ f[n].kind # MOVED /\ f[n].prefix = SubSeq(ns[y].prefix, 1, s)
  /\ \A x \in S : x # y =>
       /\ f[x].kind = ns[x].kind /\ f[x].prefix = ns[x].prefix /\ f[x].val = ns[x].val
       /\ \A b \in Byte : KidOf(f[x].kids, b) =
            IF KidOf(ns[x].kids, b) = y THEN n ELSE KidOf(ns[x].kids, b)

\* The shape they have.
CutShape(ns, S, lab, st, y, s, n, f, lab1, ch1) ==
  /\ \A x \in S : lab1[x] = lab[x] /\ f[x].val = ns[x].val
  /\ lab1[n] \in Seq(Byte) /\ Len(lab1[n]) = st[y] + s /\ Agree(lab1[n], lab[y], st[y] + s)
  /\ \A x \in S : \A b \in Byte : KidOf(f[x].kids, b) = ch1[<<x, b>>]
  /\ \A b \in Byte : ch1[<<n, b>>] = IF b = lab[y][st[y] + s + 1] THEN y ELSE 0
FitsNodes(f, S, lab, st) ==
  /\ S \subseteq 1 .. Len(f)
  /\ \A x \in S : f[x].kind # MOVED /\ f[x].prefix = Rest(lab[x], st[x])

\* The labels of the node that was split and of the new node above it.
LEMMA CutIs ==
  ASSUME NEW ns, NEW S, NEW lab, NEW st, NEW top, Tree(ns, S, lab, st, top),
         NEW y \in S, NEW s \in Nat, s < Len(ns[y].prefix), NEW n, NEW f, CutNodes(ns, S, y, s, n, f)
  PROVE  \E lab1, st1, ch1 :
           /\ Shape(S \union {n}, lab1, st1, ch1, IF top = y THEN n ELSE top)
           /\ CutShape(ns, S, lab, st, y, s, n, f, lab1, ch1)
           /\ FitsNodes(f, S \union {n}, lab1, st1)
<1>. DEFINE m == st[y] + s
            S1 == S \union {n}
            lab1 == [x \in S1 |-> IF x = n THEN SubSeq(lab[y], 1, m) ELSE lab[x]]
            st1 == [x \in S1 |-> IF x = n THEN st[y] ELSE IF x = y THEN m + 1 ELSE st[x]]
            ch1 == [a \in S1 \X Byte |-> IF a[1] = n THEN (IF a[2] = lab[y][m + 1] THEN y ELSE 0)
                                         ELSE KidOf(f[a[1]].kids, a[2])]
<1>1. /\ Shape(S, lab, st, ChOf(ns), top) /\ Childless(ns, S, top)
      /\ NodeIn(ns, lab, st, y) /\ Labels(S, lab, st)
  BY TreeParts, TreeNode, NoParent
<1>2. /\ NodesOK(f) /\ n \in 1 .. Len(f) /\ n \notin S /\ \A x \in S : x \in 1 .. Len(f)
      /\ f[y].kind = ns[y].kind /\ f[y].prefix = Rest(ns[y].prefix, s + 1) /\ f[y].val = ns[y].val
      /\ \A b \in Byte : KidOf(f[y].kids, b) = KidOf(ns[y].kids, b)
      /\ f[n].kind # MOVED /\ f[n].prefix = SubSeq(ns[y].prefix, 1, s)
      /\ \A x \in S : x # y =>
           /\ f[x].kind = ns[x].kind /\ f[x].prefix = ns[x].prefix /\ f[x].val = ns[x].val
           /\ \A b \in Byte : KidOf(f[x].kids, b) =
                IF KidOf(ns[x].kids, b) = y THEN n ELSE KidOf(ns[x].kids, b)
  BY Zenon DEF CutNodes
<1>3. /\ lab[y] \in Seq(Byte) /\ Len(lab[y]) \in Nat /\ st[y] \in Nat /\ st[y] <= Len(lab[y])
      /\ ns[y].prefix \in Seq(Byte)
      /\ st[y] + Len(ns[y].prefix) = Len(lab[y]) /\ Len(ns[y].prefix) \in Nat
  BY <1>1, Zenon DEF NodeIn
<1>4. m \in Nat /\ st[y] <= m /\ m < Len(lab[y]) /\ y # n /\ m + 1 = st[y] + (s + 1)
  <2>1. y # n
    BY <1>2
  <2>2. PICK a \in Nat, b \in Nat, c \in Nat :
          a = st[y] /\ b = Len(ns[y].prefix) /\ c = Len(lab[y]) /\ a + b = c /\ s < b
    BY <1>3
  <2>. QED BY <2>1, <2>2
<1>5. /\ \A x \in S : lab1[x] = lab[x]
      /\ lab1[n] = SubSeq(lab[y], 1, m)
      /\ \A x \in S : x # y => st1[x] = st[x]
      /\ st1[n] = st[y] /\ st1[y] = m + 1
  BY <1>2, <1>4
<1>6. /\ \A b \in Byte : ch1[<<n, b>>] = IF b = lab[y][m + 1] THEN y ELSE 0
      /\ \A x \in S : \A b \in Byte : ch1[<<x, b>>] = KidOf(f[x].kids, b)
  <2>1. \A x \in S1 : \A b \in Byte :
          ch1[<<x, b>>] = IF x = n THEN (IF b = lab[y][m + 1] THEN y ELSE 0) ELSE KidOf(f[x].kids, b)
    OBVIOUS
  <2>2. n \in S1 /\ \A x \in S : x \in S1 /\ x # n
    BY <1>2
  <2>. HIDE DEF ch1, S1
  <2>3. ASSUME NEW b \in Byte PROVE ch1[<<n, b>>] = IF b = lab[y][m + 1] THEN y ELSE 0
    BY <2>1, <2>2
  <2>4. ASSUME NEW x \in S, NEW b \in Byte PROVE ch1[<<x, b>>] = KidOf(f[x].kids, b)
    BY <2>1, <2>2
  <2>. QED BY <2>3, <2>4
<1>. HIDE DEF lab1, st1, ch1, m
<1>7. n \in Nat /\ n # 0
  BY <1>2 DEF NodesOK
<1>8. ASSUME NEW x \in S, NEW b \in Byte
      PROVE  ch1[<<x, b>>] = IF ChOf(ns)[<<x, b>>] = y THEN n ELSE ChOf(ns)[<<x, b>>]
  <2>1. ChOf(ns)[<<x, b>>] = KidOf(ns[x].kids, b)
    <3>1. NodeIn(ns, lab, st, x)
      BY TreeNode, Zenon
    <3>. QED BY <3>1, Zenon DEF NodeIn
  <2>2. CASE x = y
    <3>1. ChOf(ns)[<<x, b>>] # y
      BY <1>1, <2>2, Zenon DEF Childless
    <3>2. ch1[<<x, b>>] = KidOf(ns[x].kids, b)
      BY <1>2, <1>6, <2>2
    <3>. QED BY <2>1, <3>1, <3>2
  <2>3. CASE x # y
    BY <1>2, <1>6, <2>1, <2>3
  <2>. QED BY <2>2, <2>3
<1>9. SplitRel(S, lab, st, ChOf(ns), y, m, n, lab1, st1, ch1)
  BY <1>2, <1>4, <1>5, <1>6, <1>7, <1>8, Zenon DEF SplitRel
<1>10. Shape(S1, lab1, st1, ch1, IF top = y THEN n ELSE top)
  BY <1>1, <1>9, SplitShape, Zenon
<1>11. lab1[n] \in Seq(Byte) /\ Len(lab1[n]) = m /\ Agree(lab1[n], lab[y], m)
  BY <1>3, <1>4, <1>5 DEF Agree
<1>12. CutShape(ns, S, lab, st, y, s, n, f, lab1, ch1)
  <2>1. \A x \in S : lab1[x] = lab[x] /\ f[x].val = ns[x].val
    BY <1>2, <1>5
  <2>2. \A x \in S : \A b \in Byte : KidOf(f[x].kids, b) = ch1[<<x, b>>]
    BY <1>6
  <2>. QED BY <1>6, <1>11, <2>1, <2>2, Zenon DEF CutShape, m
<1>13. FitsNodes(f, S1, lab1, st1)
  <2>0. ns[y].prefix = Rest(lab[y], st[y])
    BY Zenon DEF Tree
  <2>1. S1 \subseteq 1 .. Len(f)
    BY <1>2
  <2>2. f[n].prefix = Rest(lab1[n], st1[n])
    <3>1. st[y] + s <= Len(lab[y])
      BY <1>4 DEF m
    <3>2. SubSeq(Rest(lab[y], st[y]), 1, s) = Rest(SubSeq(lab[y], 1, st[y] + s), st[y])
      BY <1>3, <3>1, SubRest
    <3>. QED BY <1>2, <1>5, <2>0, <3>2 DEF m
  <2>3. f[y].prefix = Rest(lab1[y], st1[y])
    <3>1. s + 1 \in Nat /\ st[y] + (s + 1) <= Len(lab[y])
      BY <1>3, <1>4 DEF m
    <3>2. Rest(Rest(lab[y], st[y]), s + 1) = Rest(lab[y], st[y] + (s + 1))
      BY <1>3, <3>1, RestRest
    <3>. QED BY <1>2, <1>4, <1>5, <2>0, <3>2
  <2>4. ASSUME NEW x \in S, x # y PROVE f[x].prefix = Rest(lab1[x], st1[x])
    <3>1. ns[x].prefix = Rest(lab[x], st[x])
      BY Zenon DEF Tree
    <3>. QED BY <1>2, <1>5, <2>4, <3>1
  <2>5. ASSUME NEW x \in S PROVE f[x].kind # MOVED
    <3>1. ns[x].kind # MOVED
      BY Zenon DEF Tree
    <3>. QED BY <1>2, <3>1
  <2>. QED BY <1>2, <2>1, <2>2, <2>3, <2>4, <2>5 DEF FitsNodes
<1>. QED BY <1>10, <1>12, <1>13, Zenon

\* The key ends where the node is split.
EndsHere(f, n, v, b2, y) ==
  f[n].val = v /\ \A b \in Byte : KidOf(f[n].kids, b) = IF b = b2 THEN y ELSE 0
GoesOnHere(f, n, b1, b2, y) ==
  /\ b1 # b2 /\ f[n].val = None
  /\ \A b \in Byte : KidOf(f[n].kids, b) = IF b = b1 THEN n + 1 ELSE IF b = b2 THEN y ELSE 0

\* The key ends within the prefix of a node: the split is the insertion.
LEMMA CutDone ==
  ASSUME NEW ns, NEW S, NEW lab, NEW st, NEW top, Tree(ns, S, lab, st, top),
         NEW key \in Seq(Byte), NEW y \in S, NEW s \in Nat, s < Len(ns[y].prefix),
         Agree(lab[y], key, st[y] + s), st[y] + s = Len(key),
         NEW v, NEW n, NEW f, CutNodes(ns, S, y, s, n, f), EndsHere(f, n, v, lab[y][st[y] + s + 1], y)
  PROVE  Done(ns, S, lab, key, v, f, IF top = y THEN n ELSE top)
<1>0. /\ f[n].val = v
      /\ \A b \in Byte : KidOf(f[n].kids, b) = IF b = lab[y][st[y] + s + 1] THEN y ELSE 0
  BY Zenon DEF EndsHere
<1>1. PICK lab1, st1, ch1 :
           /\ Shape(S \union {n}, lab1, st1, ch1, IF top = y THEN n ELSE top)
           /\ CutShape(ns, S, lab, st, y, s, n, f, lab1, ch1)
           /\ FitsNodes(f, S \union {n}, lab1, st1)
  BY CutIs, Zenon
<1>2. /\ \A x \in S : lab1[x] = lab[x] /\ f[x].val = ns[x].val
      /\ lab1[n] \in Seq(Byte) /\ Len(lab1[n]) = st[y] + s /\ Agree(lab1[n], lab[y], st[y] + s)
      /\ \A x \in S : \A b \in Byte : KidOf(f[x].kids, b) = ch1[<<x, b>>]
      /\ \A b \in Byte : ch1[<<n, b>>] = IF b = lab[y][st[y] + s + 1] THEN y ELSE 0
  BY <1>1, Zenon DEF CutShape
<1>3. Fits(f, S \union {n}, lab1, st1, ch1)
  <2>1. \A x \in S \union {n} : \A b \in Byte : KidOf(f[x].kids, b) = ch1[<<x, b>>]
    BY <1>0, <1>2, ZenonT(40)
  <2>. QED BY <1>1, <2>1, Zenon DEF FitsNodes, Fits
<1>4. NodesOK(f)
  BY Zenon DEF CutNodes
<1>5. Tree(f, S \union {n}, lab1, st1, IF top = y THEN n ELSE top)
  BY <1>1, <1>3, <1>4, FitsTree, Zenon
<1>6. lab1[n] = key
  <2>1. Agree(lab1[n], key, Len(key)) /\ Len(lab1[n]) = Len(key)
    BY <1>2, AgreeFacts
  <2>. QED BY <1>2, <2>1, SameString
<1>7. Outcome(ns, S, lab, key, v, f, S \union {n}, lab1)
  <2>1. \E z \in S \union {n} : lab1[z] = key /\ f[z].val = v
    BY <1>0, <1>6
  <2>2. \A x \in S \union {n} : \/ lab1[x] = key \/ f[x].val = None
                               \/ \E x0 \in S : lab[x0] = lab1[x] /\ ns[x0].val = f[x].val
    BY <1>2, <1>6
  <2>3. \A x0 \in S : \E x \in S \union {n} :
          /\ lab1[x] = lab[x0] /\ (lab[x0] = key \/ f[x].val = ns[x0].val)
          /\ Stays(f, x0, x)
    BY <1>2 DEF Stays
  <2>. QED BY <2>1, <2>2, <2>3, Zenon DEF Outcome
<1>. QED BY <1>5, <1>7, Zenon DEF Done

\* The key goes on where the node is split.
LEMMA CutOnDone ==
  ASSUME NEW ns, NEW S, NEW lab, NEW st, NEW top, Tree(ns, S, lab, st, top),
         NEW key \in Seq(Byte), NEW y \in S, NEW s \in Nat, s < Len(ns[y].prefix),
         Agree(lab[y], key, st[y] + s), st[y] + s < Len(key),
         NEW v, NEW n, NEW f, CutNodes(ns, S, y, s, n, f),
         GoesOnHere(f, n, key[st[y] + s + 1], lab[y][st[y] + s + 1], y),
         NEW m, NEW en, ChainIn(f, n, key, st[y] + s + 1, v, m, en),
         \A x \in S : x < n
  PROVE  Done(ns, S, lab, key, v, f, IF top = y THEN n ELSE top)
<1>. DEFINE e == st[y] + s + 1
            S1 == S \union {n}
            top1 == IF top = y THEN n ELSE top
<1>0. /\ lab[y][e] # key[e] /\ f[n].val = None
      /\ \A b \in Byte : KidOf(f[n].kids, b) =
           IF b = key[e] THEN n + 1 ELSE IF b = lab[y][e] THEN y ELSE 0
  BY Zenon DEF GoesOnHere
<1>1. PICK lab1, st1, ch1 :
           /\ Shape(S1, lab1, st1, ch1, top1)
           /\ CutShape(ns, S, lab, st, y, s, n, f, lab1, ch1)
           /\ FitsNodes(f, S1, lab1, st1)
  BY CutIs, Zenon
<1>2. /\ \A x \in S : lab1[x] = lab[x] /\ f[x].val = ns[x].val
      /\ lab1[n] \in Seq(Byte) /\ Len(lab1[n]) = st[y] + s /\ Agree(lab1[n], lab[y], st[y] + s)
      /\ \A x \in S : \A b \in Byte : KidOf(f[x].kids, b) = ch1[<<x, b>>]
      /\ \A b \in Byte : ch1[<<n, b>>] = IF b = lab[y][e] THEN y ELSE 0
  BY <1>1, Zenon DEF CutShape
<1>3. NodesOK(f) /\ n \notin S /\ n \in 1 .. Len(f) /\ Len(f) \in Nat
  BY DEF CutNodes, NodesOK
<1>4. e \in Nat /\ e = Len(lab1[n]) + 1 /\ e - 1 = Len(lab1[n]) /\ e \in 1 .. Len(key)
  <2>1. st[y] \in Nat
    BY TreeParts DEF Labels
  <2>. QED BY <1>2, <2>1
<1>5. key[e] \in Byte /\ lab[y][e] # key[e]
  BY <1>0, <1>4
<1>6. Agree(lab1[n], key, e - 1)
  <2>1. e - 1 = st[y] + s
    BY <1>2, <1>4
  <2>. QED BY <1>2, <2>1, AgreeFacts
<1>7. \A b \in Byte : KidOf(f[n].kids, b) =
           IF b = key[e] THEN n + 1 ELSE IF b = lab[y][e] THEN y ELSE 0
  BY <1>0, Zenon
<1>8. ChainIn(f, n, key, e, v, m, en)
  OBVIOUS
<1>. HIDE DEF e, S1, top1
<1>9. Hangs(f, S1, lab1, st1, ch1, n, key, e, n)
  <2>1. ASSUME NEW x \in S1, NEW b \in Byte
        PROVE  KidOf(f[x].kids, b) = IF x = n /\ b = key[e] THEN n + 1 ELSE ch1[<<x, b>>]
    <3>1. CASE x = n
      BY <1>2, <1>7, <3>1
    <3>2. CASE x # n
      BY <1>2, <3>2 DEF S1
    <3>. QED BY <3>1, <3>2
  <2>2. ch1[<<n, key[e]>>] = 0
    BY <1>2, <1>5
  <2>3. n \in S1
    BY DEF S1
  <2>. QED BY <1>1, <1>4, <1>6, <2>1, <2>2, <2>3, Zenon DEF Hangs, FitsNodes
<1>10. \A x \in S1 : \A i \in 1 .. m : x # n + i
  <2>1. m \in Nat
    BY <1>8 DEF ChainIn, Ending
  <2>2. S \subseteq 1 .. Len(ns) /\ Len(ns) \in Nat
    BY TreeParts
  <2>. QED BY <1>3, <2>1, <2>2 DEF S1
<1>11. PICK S2, lab2, st2 : /\ Tree(f, S2, lab2, st2, IF S1 = {} THEN n + 1 ELSE top1)
                            /\ Extended(f, S1, lab1, key, v, S2, lab2)
  BY <1>1, <1>3, <1>4, <1>8, <1>9, <1>10, HangTree, Zenon
<1>12. Kept(ns, S, lab, f, S1, lab1)
  <2>1. \A x \in S1 : f[x].val = None \/ \E x0 \in S : lab[x0] = lab1[x] /\ ns[x0].val = f[x].val
    BY <1>0, <1>2 DEF S1
  <2>2. \A x0 \in S : \E x \in S1 : /\ lab1[x] = lab[x0] /\ f[x].val = ns[x0].val
                                    /\ Stays(f, x0, x)
    BY <1>2 DEF S1, Stays
  <2>. QED BY <2>1, <2>2, Zenon DEF Kept
<1>13. Outcome(ns, S, lab, key, v, f, S2, lab2)
  BY <1>11, <1>12, ExtendKept, Zenon
<1>14. Tree(f, S2, lab2, st2, top1)
  <2>1. S1 # {}
    BY DEF S1
  <2>. QED BY <1>11, <2>1, Zenon
<1>. QED BY <1>13, <1>14, Zenon DEF Done, top1

\* A full node grows and gets the chain as a child.
GrowIn(ns, y, b, L, q) ==
  \E g : Grown(ns, y, g) /\ ChildPut(g, Len(ns) + 1, b, L + 1, q)

\* The full node grows, takes the chain as a child and is linked again.
LEMMA GrowDone ==
  ASSUME NEW ns, NEW S, NEW lab, NEW st, NEW top, Tree(ns, S, lab, st, top),
         NEW key \in Seq(Byte), NEW y \in S, Within(lab[y], key), Len(lab[y]) < Len(key),
         ChOf(ns)[<<y, key[Len(lab[y]) + 1]>>] = 0, ns[y].kind \in 1 .. 3,
         NEW v, NEW m, NEW en, NEW g0, Ending(en, Len(lab[y]) + 1, key, m),
         Chained(ns, key, Len(lab[y]) + 1, v, g0, m, en),
         NEW q, GrowIn(g0, y, key[Len(lab[y]) + 1], Len(ns), q),
         NEW f, Joined(ns, S, q, y, Len(g0) + 1, f)
  PROVE  Done(ns, S, lab, key, v, f, IF top = y THEN Len(g0) + 1 ELSE top)
<1>. DEFINE e == Len(lab[y]) + 1
            n == Len(g0) + 1
            S1 == (S \ {y}) \union {n}
            top1 == IF top = y THEN n ELSE top
            lab1 == [x \in S1 |-> IF x = n THEN lab[y] ELSE lab[x]]
            st1 == [x \in S1 |-> IF x = n THEN st[y] ELSE st[x]]
            ch1 == [a \in S1 \X Byte |-> IF a[1] = n THEN ChOf(ns)[<<y, a[2]>>]
                                         ELSE KidOf(f[a[1]].kids, a[2])]
<1>0. /\ Ending(en, e, key, m) /\ Chained(ns, key, e, v, g0, m, en)
      /\ GrowIn(g0, y, key[e], Len(ns), q) /\ ChOf(ns)[<<y, key[e]>>] = 0
      /\ Joined(ns, S, q, y, n, f) /\ e = Len(lab[y]) + 1 /\ n = Len(g0) + 1
  OBVIOUS
<1>1. PICK g1 : Grown(g0, y, g1) /\ ChildPut(g1, n, key[e], Len(ns) + 1, q)
  BY <1>0, Zenon DEF GrowIn
<1>2. /\ \A x \in S1 : \A b \in Byte :
           ch1[<<x, b>>] = IF x = n THEN ChOf(ns)[<<y, b>>] ELSE KidOf(f[x].kids, b)
      /\ \A x \in S1 : /\ lab1[x] = IF x = n THEN lab[y] ELSE lab[x]
                       /\ st1[x] = IF x = n THEN st[y] ELSE st[x]
      /\ n \in S1 /\ \A x \in S : x # y => x \in S1
      /\ \A x \in S1 : x = n \/ (x \in S /\ x # y)
  OBVIOUS
<1>. HIDE DEF e, n, S1, top1, lab1, st1, ch1
<1>3. /\ NodesOK(ns) /\ Shape(S, lab, st, ChOf(ns), top) /\ S \subseteq 1 .. Len(ns)
      /\ Len(ns) \in Nat /\ Labels(S, lab, st)
  BY TreeParts
<1>4. /\ NodesOK(g0) /\ Len(g0) = Len(ns) + m /\ \A z \in 1 .. Len(ns) : g0[z] = ns[z]
  BY <1>0, Zenon DEF Chained
<1>5. m \in Nat
  BY <1>0, Zenon DEF Ending
<1>6. /\ NodesOK(g1) /\ Len(g1) = n
      /\ \A z \in 1 .. Len(g0) : z # y => g1[z] = g0[z]
      /\ g1[y].kind = MOVED /\ g1[y].fwd = n
      /\ g1[n].kind = g0[y].kind + 1
      /\ g1[n].prefix = g0[y].prefix /\ g1[n].val = g0[y].val
      /\ \A b \in Byte : KidOf(g1[n].kids, b) = KidOf(g0[y].kids, b)
  BY <1>0, <1>1, Zenon DEF Grown
<1>7. /\ NodesOK(q) /\ Len(q) = Len(g1) /\ \A z \in 1 .. Len(g1) : z # n => q[z] = g1[z]
      /\ q[n].kind = g1[n].kind /\ q[n].prefix = g1[n].prefix /\ q[n].val = g1[n].val
      /\ \A b \in Byte : KidOf(q[n].kids, b) = IF b = key[e] THEN Len(ns) + 1 ELSE KidOf(g1[n].kids, b)
  BY <1>1, Zenon DEF ChildPut, WithChild
<1>8. /\ NodesOK(f) /\ Len(f) = Len(q)
      /\ \A z \in 1 .. Len(q) : z \notin S \/ z = y => f[z] = q[z]
      /\ \A x \in S : x # y =>
           /\ f[x].kind = ns[x].kind /\ f[x].prefix = ns[x].prefix /\ f[x].val = ns[x].val
           /\ \A b \in Byte : KidOf(f[x].kids, b) =
                IF KidOf(ns[x].kids, b) = y THEN n ELSE KidOf(ns[x].kids, b)
  BY <1>0, Zenon DEF Joined
<1>9. /\ n \in Nat /\ n # 0 /\ n \notin S /\ n # y /\ n \in 1 .. Len(q) /\ Len(q) = n
      /\ y \in 1 .. Len(ns) /\ y \in 1 .. Len(g0) /\ y \in 1 .. Len(q) /\ Len(g0) \in Nat /\ Len(g0) < n
  <2>1. PICK a \in Nat : a = Len(ns) /\ Len(g0) = a + m
    BY <1>3, <1>4
  <2>2. n = a + m + 1 /\ Len(q) = n
    BY <1>0, <1>6, <1>7, <2>1
  <2>3. y \in 1 .. a /\ \A x \in S : x \in 1 .. a
    BY <1>3, <2>1
  <2>4. n \in Nat /\ n # 0 /\ n \notin S /\ n # y /\ n \in 1 .. n
    BY <1>5, <2>2, <2>3
  <2>5. y \in 1 .. a /\ y \in 1 .. a + m /\ y \in 1 .. n /\ a + m \in Nat /\ a + m < n
    BY <1>5, <2>2, <2>3
  <2>. QED BY <2>1, <2>2, <2>4, <2>5, Zenon
<1>10. /\ f[n] = q[n] /\ f[y] = q[y] /\ q[y] = g1[y] /\ g0[y] = ns[y]
  BY <1>4, <1>6, <1>7, <1>8, <1>9
<1>11. NodeIn(ns, lab, st, y) /\ ns[y].prefix = Rest(lab[y], st[y])
  BY TreeNode, Zenon DEF Tree
<1>12. ASSUME NEW b \in Byte
       PROVE  KidOf(f[n].kids, b) = IF b = key[e] THEN Len(ns) + 1 ELSE ChOf(ns)[<<y, b>>]
  <2>1. ChOf(ns)[<<y, b>>] = KidOf(ns[y].kids, b)
    BY <1>11, Zenon DEF NodeIn
  <2>. QED BY <1>6, <1>7, <1>10, <2>1
<1>13. /\ f[n].kind # MOVED /\ f[n].prefix = ns[y].prefix /\ f[n].val = ns[y].val
       /\ f[y].kind = MOVED /\ f[y].fwd = n
  <2>1. f[n].kind = ns[y].kind + 1
    BY <1>6, <1>7, <1>10
  <2>2. ns[y].kind + 1 # MOVED
    BY DEF MOVED
  <2>. QED BY <1>6, <1>7, <1>10, <2>1, <2>2
<1>14. ReplaceRel(S, lab, st, ChOf(ns), y, n, lab1, st1, ch1)
  <2>1. ASSUME NEW x \in S, NEW b \in Byte, x # y
        PROVE  ch1[<<x, b>>] = IF ChOf(ns)[<<x, b>>] = y THEN n ELSE ChOf(ns)[<<x, b>>]
    <3>1. ChOf(ns)[<<x, b>>] = KidOf(ns[x].kids, b)
      <4>1. NodeIn(ns, lab, st, x)
        BY TreeNode, Zenon
      <4>. QED BY <4>1, Zenon DEF NodeIn
    <3>2. x \in S1 /\ x # n
      BY <1>2, <1>9, <2>1
    <3>3. ch1[<<x, b>>] = KidOf(f[x].kids, b)
      BY <1>2, <3>2
    <3>. QED BY <1>8, <2>1, <3>1, <3>3
  <2>2. \A b \in Byte : ch1[<<n, b>>] = ChOf(ns)[<<y, b>>]
    BY <1>2
  <2>3. \A x \in S : x # y => lab1[x] = lab[x] /\ st1[x] = st[x]
    BY <1>2, <1>9
  <2>4. lab1[n] = lab[y] /\ st1[n] = st[y]
    BY <1>2
  <2>. QED BY <1>9, <2>1, <2>2, <2>3, <2>4, Zenon DEF ReplaceRel
<1>15. Shape(S1, lab1, st1, ch1, top1)
  <2>1. Shape((S \ {y}) \union {n}, lab1, st1, ch1, IF top = y THEN n ELSE top)
    BY <1>3, <1>14, ReplaceShape, Zenon
  <2>. QED BY <2>1, Zenon DEF S1, top1
<1>16. Hangs(f, S1, lab1, st1, ch1, n, key, e, Len(ns))
  <2>1. S1 \subseteq 1 .. Len(f)
    <3>1. \A x \in S : x \in 1 .. Len(f)
      <4>1. Len(ns) <= Len(f) /\ Len(f) \in Nat
        BY <1>3, <1>4, <1>5, <1>8, <1>9
      <4>. QED BY <1>3, <4>1
    <3>. QED BY <1>2, <1>8, <1>9, <3>1
  <2>2. ASSUME NEW x \in S1 PROVE f[x].kind # MOVED /\ f[x].prefix = Rest(lab1[x], st1[x])
    <3>1. CASE x = n
      BY <1>2, <1>11, <1>13, <3>1
    <3>2. CASE x # n
      <4>1. x \in S /\ x # y
        BY <1>2, <3>2
      <4>2. ns[x].kind # MOVED /\ ns[x].prefix = Rest(lab[x], st[x])
        BY <4>1, Zenon DEF Tree
      <4>. QED BY <1>2, <1>8, <3>2, <4>1, <4>2
    <3>. QED BY <3>1, <3>2
  <2>3. ASSUME NEW x \in S1, NEW b \in Byte
        PROVE  KidOf(f[x].kids, b) = IF x = n /\ b = key[e] THEN Len(ns) + 1 ELSE ch1[<<x, b>>]
    BY <1>2, <1>12
  <2>4. Len(lab[y]) \in Nat /\ e - 1 = Len(lab[y]) /\ e \in 1 .. Len(key) /\ key[e] \in Byte
    <3>1. Len(lab[y]) \in Nat
      BY <1>3 DEF Labels
    <3>2. e - 1 = Len(lab[y]) /\ e \in 1 .. Len(key)
      BY <1>0, <3>1
    <3>. QED BY <3>1, <3>2
  <2>5. n \in S1 /\ e = Len(lab1[n]) + 1 /\ Agree(lab1[n], key, e - 1) /\ ch1[<<n, key[e]>>] = 0
    <3>1. lab1[n] = lab[y] /\ n \in S1
      BY <1>2
    <3>2. ch1[<<n, key[e]>>] = 0
      BY <1>0, <1>2, <2>4
    <3>3. Agree(lab[y], key, Len(lab[y]))
      BY Zenon DEF Within
    <3>. QED BY <1>0, <2>4, <3>1, <3>2, <3>3
  <2>. QED BY <2>1, <2>2, <2>3, <2>5, Zenon DEF Hangs
<1>17. ChainIn(f, Len(ns), key, e, v, m, en)
  <2>1. ChainIn(g0, Len(ns), key, e, v, m, en)
    BY <1>0, <1>3, ChainedIn, Zenon
  <2>2. Len(g0) \in Nat /\ Len(f) \in Nat /\ Len(g0) <= Len(f)
    BY <1>8, <1>9
  <2>3. ASSUME NEW i \in 1 .. m PROVE f[Len(ns) + i] = g0[Len(ns) + i]
    <3>. DEFINE z == Len(ns) + i
    <3>1. z \in 1 .. Len(g0) /\ z \notin S /\ z # y
      BY <1>3, <1>4, <1>5
    <3>. HIDE DEF z
    <3>2. z # n /\ z \in 1 .. Len(g1) /\ z \in 1 .. Len(q)
      BY <1>6, <1>9, <3>1
    <3>3. f[z] = g0[z]
      BY <1>6, <1>7, <1>8, <3>1, <3>2
    <3>. QED BY <3>3 DEF z
  <2>. QED BY <2>1, <2>2, <2>3, ChainStays, Zenon
<1>18. \A x \in S1 : \A i \in 1 .. m : x # Len(ns) + i
  <2>1. SUFFICES ASSUME NEW x \in S1, NEW i \in 1 .. m PROVE x # Len(ns) + i
    OBVIOUS
  <2>2. CASE x = n
    <3>1. n = Len(ns) + m + 1
      BY <1>0, <1>4
    <3>. QED BY <1>3, <1>5, <2>2, <3>1
  <2>3. CASE x # n
    BY <1>2, <1>3, <1>5, <2>3
  <2>. QED BY <2>2, <2>3
<1>19. e \in Nat
  BY <1>0, <1>3 DEF Labels
<1>20. PICK S2, lab2, st2 : /\ Tree(f, S2, lab2, st2, IF S1 = {} THEN Len(ns) + 1 ELSE top1)
                            /\ Extended(f, S1, lab1, key, v, S2, lab2)
  BY <1>8, <1>15, <1>16, <1>17, <1>18, <1>19, HangTree, Zenon
<1>21. Kept(ns, S, lab, f, S1, lab1)
  <2>1. ASSUME NEW x \in S1 PROVE \E x0 \in S : lab[x0] = lab1[x] /\ ns[x0].val = f[x].val
    <3>1. CASE x = n
      BY <1>2, <1>13, <3>1
    <3>2. CASE x # n
      BY <1>2, <1>8, <3>2
    <3>. QED BY <3>1, <3>2
  <2>2. ASSUME NEW x0 \in S
        PROVE  \E x \in S1 : lab1[x] = lab[x0] /\ f[x].val = ns[x0].val /\ Stays(f, x0, x)
    <3>1. CASE x0 = y
      <4>1. lab1[n] = lab[x0] /\ n \in S1 /\ f[n].val = ns[x0].val
        BY <1>2, <1>13, <3>1
      <4>2. x0 \in 1 .. Len(f)
        BY <1>8, <1>9, <3>1
      <4>3. Stays(f, x0, n)
        BY <1>13, <3>1, <4>2 DEF Stays
      <4>. QED BY <4>1, <4>2, <4>3
    <3>2. CASE x0 # y
      <4>1. x0 \in S1 /\ x0 # n
        BY <1>2, <1>9, <3>2
      <4>2. lab1[x0] = lab[x0] /\ f[x0].val = ns[x0].val /\ Stays(f, x0, x0)
        BY <1>2, <1>8, <3>2, <4>1 DEF Stays
      <4>. QED BY <4>1, <4>2
    <3>. QED BY <3>1, <3>2
  <2>. QED BY <2>1, <2>2, Zenon DEF Kept
<1>22. Outcome(ns, S, lab, key, v, f, S2, lab2)
  BY <1>20, <1>21, ExtendKept, Zenon
<1>23. Tree(f, S2, lab2, st2, top1)
  BY <1>2, <1>20, Zenon
<1>24. Done(ns, S, lab, key, v, f, top1)
  BY <1>22, <1>23, Zenon DEF Done
<1>. QED BY <1>24 DEF n, top1

\* An insertion changed the node y to q, with n in its place, and f is the result.
Stop(ns, S, lab, st, key, v, y, top, q, n) ==
  /\ n # 0
  /\ \A f, top2 : Rejoin(ns, S, lab, key, q, y, n, top, f, top2) => Done(ns, S, lab, key, v, f, top2)

\* The byte after the shared part of a prefix.
LEMMA NextByte ==
  ASSUME NEW ns, NEW S, NEW lab, NEW st, NEW top, Tree(ns, S, lab, st, top),
         NEW y \in S, NEW s \in Nat, s < Len(ns[y].prefix)
  PROVE  ns[y].prefix[s + 1] = lab[y][st[y] + s + 1] /\ ns[y].prefix[s + 1] \in Byte
<1>1. NodeIn(ns, lab, st, y)
  BY TreeNode, Zenon
<1>2. /\ ns[y].prefix \in Seq(Byte) /\ Len(ns[y].prefix) \in Nat /\ st[y] \in Nat
      /\ \A i \in 1 .. Len(ns[y].prefix) : ns[y].prefix[i] = lab[y][st[y] + i]
  BY <1>1, Zenon DEF NodeIn
<1>. DEFINE p == ns[y].prefix
            d == st[y]
<1>3. p \in Seq(Byte) /\ Len(p) \in Nat /\ d \in Nat /\ s < Len(p) /\ \A i \in 1 .. Len(p) : p[i] = lab[y][d + i]
  BY <1>2
<1>. HIDE DEF p, d
<1>4. s + 1 \in 1 .. Len(p) /\ d + (s + 1) = d + s + 1
  BY <1>3
<1>5. p[s + 1] = lab[y][d + (s + 1)] /\ p[s + 1] \in Byte
  BY <1>3, <1>4
<1>6. p[s + 1] = lab[y][d + s + 1]
  BY <1>4, <1>5
<1>. QED BY <1>5, <1>6 DEF p, d

\* What joins a node that was split is cut there.
HasCut(ns, y, c, n, q) ==
  /\ n = Len(ns) + 1 /\ NodesOK(q) /\ Len(c) <= Len(q) /\ q[y] = c[y]
  /\ q[n].kind = c[n].kind /\ q[n].prefix = c[n].prefix
CutJoined(ns, S, y, s, n, q, f) ==
  CutNodes(ns, S, y, s, n, f) /\ f[n] = q[n] /\ \A x \in S : x < n

\* After the parent was linked to the new node the split is still as it was made.
LEMMA JoinCut ==
  ASSUME NEW ns, NEW S, NEW lab, NEW st, NEW top, Tree(ns, S, lab, st, top),
         NEW y \in S, NEW s \in Nat, NEW v, NEW c, Split(ns, y, s, v, c),
         NEW n, NEW q, HasCut(ns, y, c, n, q), NEW f, Joined(ns, S, q, y, n, f)
  PROVE  CutJoined(ns, S, y, s, n, q, f)
<1>0. /\ n = Len(ns) + 1 /\ NodesOK(q) /\ Len(c) <= Len(q) /\ q[y] = c[y]
      /\ q[n].kind = c[n].kind /\ q[n].prefix = c[n].prefix
  BY Zenon DEF HasCut
<1>1. /\ NodesOK(ns) /\ S \subseteq 1 .. Len(ns) /\ Len(ns) \in Nat
  BY TreeParts
<1>2. /\ Len(c) = Len(ns) + 1
      /\ c[y].kind = ns[y].kind /\ c[y].kids = ns[y].kids /\ c[y].val = ns[y].val
      /\ c[y].prefix = Rest(ns[y].prefix, s + 1)
      /\ c[Len(ns) + 1].kind = N4
      /\ c[Len(ns) + 1].prefix = SubSeq(ns[y].prefix, 1, s)
  BY Zenon DEF Split
<1>3. /\ NodesOK(f) /\ Len(f) = Len(q)
      /\ \A z \in 1 .. Len(q) : z \notin S \/ z = y => f[z] = q[z]
      /\ \A x \in S : x # y =>
           /\ f[x].kind = ns[x].kind /\ f[x].prefix = ns[x].prefix /\ f[x].val = ns[x].val
           /\ \A b \in Byte : KidOf(f[x].kids, b) =
                IF KidOf(ns[x].kids, b) = y THEN n ELSE KidOf(ns[x].kids, b)
  BY Zenon DEF Joined
<1>4. Len(q) \in Nat
  BY <1>0 DEF NodesOK
<1>5. /\ n \notin S /\ n \in 1 .. Len(q) /\ y \in 1 .. Len(q)
      /\ \A x \in S : x \in 1 .. Len(q) /\ x < n
  BY <1>0, <1>1, <1>2, <1>4
<1>6. f[y] = q[y] /\ f[n] = q[n]
  BY <1>3, <1>5
<1>7. f[n].kind # MOVED /\ f[n].prefix = SubSeq(ns[y].prefix, 1, s)
  BY <1>0, <1>2, <1>6 DEF N4, MOVED
<1>8. CutNodes(ns, S, y, s, n, f)
  <2>1. /\ f[y].kind = ns[y].kind /\ f[y].prefix = Rest(ns[y].prefix, s + 1) /\ f[y].val = ns[y].val
        /\ \A b \in Byte : KidOf(f[y].kids, b) = KidOf(ns[y].kids, b)
    BY <1>0, <1>2, <1>6
  <2>2. n \in 1 .. Len(f) /\ n \notin S /\ \A x \in S : x \in 1 .. Len(f)
    BY <1>3, <1>5
  <2>. QED BY <1>3, <1>7, <2>1, <2>2, Zenon DEF CutNodes
<1>. QED BY <1>5, <1>6, <1>8, Zenon DEF CutJoined

\* The key ends within the prefix.
LEMMA StopCut ==
  ASSUME NEW ns, NEW S, NEW lab, NEW st, NEW top, Tree(ns, S, lab, st, top),
         NEW key \in Seq(Byte), NEW y \in S, NEW s \in Nat, s < Len(ns[y].prefix),
         Agree(lab[y], key, st[y] + s), st[y] + s = Len(key),
         NEW v, NEW q, Split(ns, y, s, v, q)
  PROVE  Stop(ns, S, lab, st, key, v, y, top, q, Len(ns) + 1)
<1>. DEFINE n == Len(ns) + 1
<1>1. /\ NodesOK(ns) /\ S \subseteq 1 .. Len(ns) /\ Len(ns) \in Nat
  BY TreeParts
<1>2. /\ NodesOK(q) /\ Len(q) = Len(ns) + 1
      /\ \A z \in 1 .. Len(ns) : z # y => q[z] = ns[z]
      /\ q[n].val = v
      /\ \A b \in Byte : KidOf(q[n].kids, b) = IF b = ns[y].prefix[s + 1] THEN y ELSE 0
  BY Zenon DEF Split
<1>3. n \in 1 .. Len(q) /\ Len(ns) <= Len(q) /\ n # 0 /\ Len(q) <= Len(q)
  BY <1>1, <1>2
<1>4. \A x \in S : x # y => q[x] = ns[x]
  BY <1>1, <1>2
<1>5. ns[y].prefix[s + 1] = lab[y][st[y] + s + 1]
  BY NextByte
<1>6. n = Len(ns) + 1
  OBVIOUS
<1>. HIDE DEF n
<1>7. ASSUME NEW f, NEW top2, Rejoin(ns, S, lab, key, q, y, n, top, f, top2)
      PROVE  Done(ns, S, lab, key, v, f, top2)
  <2>1. Joined(ns, S, q, y, n, f) /\ top2 = IF top = y THEN n ELSE top
    <3>1. Changed(ns, S, y, q, n)
      BY <1>2, <1>3, <1>4, Zenon DEF Changed
    <3>2. Rejoined(ns, S, q, y, n, top, f, top2)
      BY <1>7, <3>1, JoinFacts, Zenon
    <3>. QED BY <3>2, Zenon DEF Rejoined
  <2>2. CutNodes(ns, S, y, s, n, f) /\ f[n] = q[n]
    <3>1. HasCut(ns, y, q, n, q)
      BY <1>2, <1>3, <1>6, Zenon DEF HasCut
    <3>2. CutJoined(ns, S, y, s, n, q, f)
      BY <2>1, <3>1, JoinCut, Zenon
    <3>. QED BY <3>2, Zenon DEF CutJoined
  <2>3. EndsHere(f, n, v, lab[y][st[y] + s + 1], y)
    BY <1>2, <1>5, <2>2 DEF EndsHere
  <2>4. Done(ns, S, lab, key, v, f, IF top = y THEN n ELSE top)
    BY <2>2, <2>3, CutDone, Zenon
  <2>. QED BY <2>1, <2>4, Zenon
<1>8. Stop(ns, S, lab, st, key, v, y, top, q, n)
  BY <1>3, <1>7, Zenon DEF Stop
<1>. QED BY <1>8 DEF n

\* The key leaves the prefix.
LEMMA StopCutOn ==
  ASSUME NEW ns, NEW S, NEW lab, NEW st, NEW top, Tree(ns, S, lab, st, top),
         NEW key \in Seq(Byte), NEW y \in S, NEW s \in Nat, s < Len(ns[y].prefix),
         Agree(lab[y], key, st[y] + s), st[y] + s < Len(key),
         lab[y][st[y] + s + 1] # key[st[y] + s + 1],
         NEW v, NEW c, Split(ns, y, s, None, c),
         NEW g, NEW m, NEW en, Ending(en, st[y] + s + 1, key, m),
         Chained(c, key, st[y] + s + 1, v, g, m, en),
         NEW q, ChildPut(g, Len(ns) + 1, key[st[y] + s + 1], Len(c) + 1, q)
  PROVE  Stop(ns, S, lab, st, key, v, y, top, q, Len(ns) + 1)
<1>. DEFINE n == Len(ns) + 1
            e == st[y] + s + 1
<1>0. /\ n = Len(ns) + 1 /\ Ending(en, e, key, m) /\ Chained(c, key, e, v, g, m, en)
      /\ ChildPut(g, n, key[e], Len(c) + 1, q) /\ lab[y][e] # key[e]
  OBVIOUS
<1>1. /\ NodesOK(ns) /\ S \subseteq 1 .. Len(ns) /\ Len(ns) \in Nat
  BY TreeParts
<1>2. /\ NodesOK(c) /\ Len(c) = Len(ns) + 1
      /\ \A z \in 1 .. Len(ns) : z # y => c[z] = ns[z]
      /\ c[n].val = None
      /\ \A b \in Byte : KidOf(c[n].kids, b) = IF b = ns[y].prefix[s + 1] THEN y ELSE 0
  BY Zenon DEF Split
<1>3. ns[y].prefix[s + 1] = lab[y][e]
  BY NextByte
<1>. HIDE DEF n, e
<1>4. /\ NodesOK(g) /\ Len(g) = Len(c) + m /\ \A z \in 1 .. Len(c) : g[z] = c[z]
  BY <1>0, Zenon DEF Chained
<1>5. m \in Nat
  BY <1>0, Zenon DEF Ending
<1>6. /\ NodesOK(q) /\ Len(q) = Len(g) /\ \A z \in 1 .. Len(g) : z # n => q[z] = g[z]
      /\ q[n].kind = g[n].kind /\ q[n].prefix = g[n].prefix /\ q[n].val = g[n].val
      /\ \A b \in Byte : KidOf(q[n].kids, b) = IF b = key[e] THEN Len(c) + 1 ELSE KidOf(g[n].kids, b)
  BY <1>0, Zenon DEF ChildPut, WithChild
<1>7. /\ n \in 1 .. Len(q) /\ Len(ns) <= Len(q) /\ n # 0 /\ Len(c) <= Len(q) /\ Len(c) = n
      /\ n \in 1 .. Len(c) /\ y \in 1 .. Len(c) /\ y # n /\ Len(q) \in Nat /\ Len(g) \in Nat
      /\ y \in 1 .. Len(g)
  <2>1. Len(c) = n /\ Len(q) = n + m /\ n \in Nat /\ n # 0
    BY <1>0, <1>1, <1>2, <1>4, <1>6
  <2>2. y \in 1 .. Len(ns)
    BY <1>1
  <2>. QED BY <1>0, <1>1, <1>5, <1>6, <2>1, <2>2
<1>8. \A x \in S : x # y => q[x] = ns[x]
  <2>1. SUFFICES ASSUME NEW x \in S, x # y PROVE q[x] = ns[x]
    OBVIOUS
  <2>2. x \in 1 .. Len(ns) /\ x \in 1 .. Len(c) /\ x \in 1 .. Len(g) /\ x # n
    BY <1>0, <1>1, <1>2, <1>4, <1>5
  <2>. QED BY <1>2, <1>4, <1>6, <2>1, <2>2
<1>9. q[y] = c[y] /\ q[n].kind = c[n].kind /\ q[n].prefix = c[n].prefix /\ q[n].val = None
      /\ g[n] = c[n]
  BY <1>2, <1>4, <1>6, <1>7
<1>10. \A b \in Byte : KidOf(q[n].kids, b) =
         IF b = key[e] THEN n + 1 ELSE IF b = lab[y][e] THEN y ELSE 0
  BY <1>2, <1>3, <1>6, <1>7, <1>9, ZenonT(40)
<1>11. ChainIn(g, n, key, e, v, m, en)
  BY <1>0, <1>2, <1>7, ChainedIn
<1>12. ASSUME NEW f, NEW top2, Rejoin(ns, S, lab, key, q, y, n, top, f, top2)
       PROVE  Done(ns, S, lab, key, v, f, top2)
  <2>1. Joined(ns, S, q, y, n, f) /\ top2 = IF top = y THEN n ELSE top
    <3>1. Changed(ns, S, y, q, n)
      BY <1>6, <1>7, <1>8, Zenon DEF Changed
    <3>2. Rejoined(ns, S, q, y, n, top, f, top2)
      BY <1>12, <3>1, JoinFacts, Zenon
    <3>. QED BY <3>2, Zenon DEF Rejoined
  <2>2. CutNodes(ns, S, y, s, n, f) /\ f[n] = q[n] /\ \A x \in S : x < n
    <3>1. HasCut(ns, y, c, n, q)
      BY <1>0, <1>6, <1>7, <1>9, Zenon DEF HasCut
    <3>2. CutJoined(ns, S, y, s, n, q, f)
      BY <2>1, <3>1, JoinCut, Zenon
    <3>. QED BY <3>2, Zenon DEF CutJoined
  <2>3. GoesOnHere(f, n, key[e], lab[y][e], y)
    BY <1>0, <1>9, <1>10, <2>2 DEF GoesOnHere
  <2>4. ChainIn(f, n, key, e, v, m, en)
    <3>1. Len(f) = Len(q) /\ \A z \in 1 .. Len(q) : z \notin S => f[z] = q[z]
      BY <2>1, Zenon DEF Joined
    <3>2. Len(g) \in Nat /\ Len(f) \in Nat /\ Len(g) <= Len(f)
      BY <1>6, <1>7, <3>1
    <3>3. ASSUME NEW i \in 1 .. m PROVE f[n + i] = g[n + i]
      <4>. DEFINE z == n + i
      <4>1. z \in 1 .. Len(g) /\ z # n /\ z \notin S
        BY <1>4, <1>5, <1>7, <2>2, SMTT(40)
      <4>. HIDE DEF z
      <4>2. f[z] = g[z]
        BY <1>6, <3>1, <4>1
      <4>. QED BY <4>2 DEF z
    <3>. QED BY <1>11, <3>2, <3>3, ChainStays, Zenon
  <2>5. Done(ns, S, lab, key, v, f, IF top = y THEN n ELSE top)
    BY <2>2, <2>3, <2>4, CutOnDone, Zenon DEF e
  <2>. QED BY <2>1, <2>5, Zenon
<1>13. Stop(ns, S, lab, st, key, v, y, top, q, n)
  BY <1>7, <1>12, Zenon DEF Stop
<1>. QED BY <1>13 DEF n

\* The node of the key is there: it gets the value.
HasVal(ns, S, y, v, q) ==
  /\ NodesOK(q) /\ Len(q) = Len(ns) /\ \A x \in S : x # y => q[x] = ns[x]
  /\ q[y].kind = ns[y].kind /\ q[y].prefix = ns[y].prefix /\ q[y].kids = ns[y].kids
  /\ q[y].val = v

\* An insertion that only replaces the value of the node of its key.
LEMMA StopValue ==
  ASSUME NEW ns, NEW S, NEW lab, NEW st, NEW top, Tree(ns, S, lab, st, top),
         NEW key \in Seq(Byte), NEW y \in S, Within(lab[y], key), Len(lab[y]) = Len(key),
         NEW v, NEW q, HasVal(ns, S, y, v, q)
  PROVE  Stop(ns, S, lab, st, key, v, y, top, q, y)
<1>1. y # 0
  BY TreeParts
<1>2. Done(ns, S, lab, key, v, q, top)
  BY ValueDone, Zenon DEF HasVal
<1>3. ASSUME NEW f, NEW top2, Rejoin(ns, S, lab, key, q, y, y, top, f, top2)
      PROVE  Done(ns, S, lab, key, v, f, top2)
  <2>1. f = q /\ top2 = top
    BY <1>3, Zenon DEF Rejoin, Relink
  <2>. QED BY <1>2, <2>1, Zenon
<1>. QED BY <1>1, <1>3, Zenon DEF Stop

\* The key gets a new chain below the node.
ChainBelow(ns, lab, y, key, v, g) ==
  \E m, en : /\ Ending(en, Len(lab[y]) + 1, key, m)
             /\ Chained(ns, key, Len(lab[y]) + 1, v, g, m, en)

\* An insertion that gives a node a new child.
LEMMA StopChild ==
  ASSUME NEW ns, NEW S, NEW lab, NEW st, NEW top, Tree(ns, S, lab, st, top),
         NEW key \in Seq(Byte), NEW y \in S, Within(lab[y], key), Len(lab[y]) < Len(key),
         ChOf(ns)[<<y, key[Len(lab[y]) + 1]>>] = 0,
         NEW v, NEW g, ChainBelow(ns, lab, y, key, v, g),
         NEW q, ChildPut(g, y, key[Len(lab[y]) + 1], Len(ns) + 1, q)
  PROVE  Stop(ns, S, lab, st, key, v, y, top, q, y)
<1>1. PICK m, en : /\ Ending(en, Len(lab[y]) + 1, key, m)
                   /\ Chained(ns, key, Len(lab[y]) + 1, v, g, m, en)
  BY Zenon DEF ChainBelow
<1>2. /\ Len(ns) \in Nat /\ y # 0 /\ \A x \in S : x \in 1 .. Len(ns)
  BY TreeParts
<1>3. m \in Nat
  BY <1>1, Zenon DEF Ending
<1>4. Len(g) = Len(ns) + m /\ \A z \in 1 .. Len(ns) : g[z] = ns[z]
  BY <1>1, Zenon DEF Chained
<1>5. NodesOK(q) /\ Len(q) = Len(g) /\ \A z \in 1 .. Len(g) : z # y => q[z] = g[z]
  BY Zenon DEF ChildPut
<1>6. Changed(ns, S, y, q, y)
  <2>1. Len(ns) <= Len(q) /\ y \in 1 .. Len(q)
    BY <1>2, <1>3, <1>4, <1>5
  <2>2. \A x \in S : x # y => q[x] = ns[x]
    <3>1. SUFFICES ASSUME NEW x \in S, x # y PROVE q[x] = ns[x]
      OBVIOUS
    <3>2. x \in 1 .. Len(ns) /\ x \in 1 .. Len(g)
      BY <1>2, <1>3, <1>4
    <3>. QED BY <1>4, <1>5, <3>1, <3>2
  <2>. QED BY <1>5, <2>1, <2>2, Zenon DEF Changed
<1>7. ASSUME NEW f, NEW top2, Rejoin(ns, S, lab, key, q, y, y, top, f, top2)
      PROVE  Done(ns, S, lab, key, v, f, top2)
  <2>1. Rejoined(ns, S, q, y, y, top, f, top2)
    BY <1>6, <1>7, JoinFacts, Zenon
  <2>2. Joined(ns, S, q, y, y, f) /\ top2 = top
    BY <2>1 DEF Rejoined
  <2>3. Done(ns, S, lab, key, v, f, top)
    BY <1>1, <2>2, ChildDone, Zenon
  <2>. QED BY <2>2, <2>3, Zenon
<1>. QED BY <1>2, <1>7, Zenon DEF Stop

\* The node is full: it grows.
LEMMA StopGrow ==
  ASSUME NEW ns, NEW S, NEW lab, NEW st, NEW top, Tree(ns, S, lab, st, top),
         NEW key \in Seq(Byte), NEW y \in S, Within(lab[y], key), Len(lab[y]) < Len(key),
         ChOf(ns)[<<y, key[Len(lab[y]) + 1]>>] = 0, ns[y].kind \in 1 .. 3,
         NEW v, NEW g0, ChainBelow(ns, lab, y, key, v, g0),
         NEW q, GrowIn(g0, y, key[Len(lab[y]) + 1], Len(ns), q)
  PROVE  Stop(ns, S, lab, st, key, v, y, top, q, Len(g0) + 1)
<1>1. PICK m, en : /\ Ending(en, Len(lab[y]) + 1, key, m)
                   /\ Chained(ns, key, Len(lab[y]) + 1, v, g0, m, en)
  BY Zenon DEF ChainBelow
<1>2. /\ Len(ns) \in Nat /\ y # 0 /\ \A x \in S : x \in 1 .. Len(ns)
  BY TreeParts
<1>3. m \in Nat
  BY <1>1, Zenon DEF Ending
<1>4. Len(g0) = Len(ns) + m /\ \A z \in 1 .. Len(ns) : g0[z] = ns[z]
  BY <1>1, Zenon DEF Chained
<1>. DEFINE n == Len(g0) + 1
<1>5. n = Len(g0) + 1
  OBVIOUS
<1>. HIDE DEF n
<1>6. PICK g : Grown(g0, y, g) /\ ChildPut(g, n, key[Len(lab[y]) + 1], Len(ns) + 1, q)
  BY <1>5, Zenon DEF GrowIn
<1>7. Len(g) = n /\ \A z \in 1 .. Len(g0) : z # y => g[z] = g0[z]
  BY <1>5, <1>6, Zenon DEF Grown
<1>8. NodesOK(q) /\ Len(q) = Len(g) /\ \A z \in 1 .. Len(g) : z # n => q[z] = g[z]
  BY <1>6, Zenon DEF ChildPut
<1>9. Changed(ns, S, y, q, n) /\ n # 0
  <2>1. Len(ns) <= Len(q) /\ n \in 1 .. Len(q) /\ n # 0
    BY <1>2, <1>3, <1>4, <1>5, <1>7, <1>8
  <2>2. \A x \in S : x # y => q[x] = ns[x]
    <3>1. SUFFICES ASSUME NEW x \in S, x # y PROVE q[x] = ns[x]
      OBVIOUS
    <3>2. x \in 1 .. Len(ns) /\ x \in 1 .. Len(g0) /\ x \in 1 .. Len(g) /\ x # n
      BY <1>2, <1>3, <1>4, <1>5, <1>7
    <3>. QED BY <1>4, <1>7, <1>8, <3>1, <3>2
  <2>. QED BY <1>8, <2>1, <2>2, Zenon DEF Changed
<1>10. ASSUME NEW f, NEW top2, Rejoin(ns, S, lab, key, q, y, n, top, f, top2)
       PROVE  Done(ns, S, lab, key, v, f, top2)
  <2>1. Rejoined(ns, S, q, y, n, top, f, top2)
    BY <1>9, <1>10, JoinFacts, Zenon
  <2>2. Joined(ns, S, q, y, Len(g0) + 1, f) /\ top2 = IF top = y THEN Len(g0) + 1 ELSE top
    BY <1>5, <2>1 DEF Rejoined
  <2>3. Done(ns, S, lab, key, v, f, IF top = y THEN Len(g0) + 1 ELSE top)
    BY <1>1, <2>2, GrowDone, Zenon
  <2>. QED BY <2>2, <2>3, Zenon
<1>11. Stop(ns, S, lab, st, key, v, y, top, q, n)
  BY <1>9, <1>10, Zenon DEF Stop
<1>. QED BY <1>5, <1>11, Zenon

\* There are enough nodes left for the whole of a key.
Enough(ns, lim, key) == lim \in Nat /\ Len(ns) + Len(key) + 1 <= lim

Ends2(ns, S, lab, st, key, v, y, top, r) == Stop(ns, S, lab, st, key, v, y, top, r.ns, r.id)

\* A chain that can be made.
ChainMade(ns, key, d, v, r) ==
  /\ r.id = Len(ns) + 1
  /\ \E m, en : Ending(en, d, key, m) /\ Chained(ns, key, d, v, r.ns, m, en)

\* art_leaf_chain with nodes enough.
LEMMA MakeChain ==
  ASSUME NEW ns, NodesOK(ns), NEW key \in Seq(Byte), NEW d \in 0 .. Len(key),
         NEW v \in Values, NEW lim \in Nat, Len(ns) + Len(key) - d + 1 <= lim
  PROVE  ChainMade(ns, key, d, v, art_leaf_chain(ns, lim, key, d, v))
BY ChainFacts, Zenon DEF ChainMade

\* The only child of a node that was made by a split.
LEMMA SplitRoom ==
  ASSUME NEW ns, NEW y, NEW s, NEW v, NEW c, Split(ns, y, s, v, c), Len(ns) \in Nat,
         NEW b, b # ns[y].prefix[s + 1]
  PROVE  LET n == c[Len(ns) + 1] IN n.kind # MOVED /\ Len(n.kids) < Cap[n.kind] /\ b \notin Bytes(n.kids)
<1>. DEFINE n == c[Len(ns) + 1]
<1>1. /\ n.kind = N4 /\ Len(n.kids) = 1
      /\ \A j \in DOMAIN n.kids : n.kids[j] = <<ns[y].prefix[s + 1], y>>
  BY Zenon DEF Split
<1>. HIDE DEF n
<1>2. n.kind # MOVED /\ n.kind = 1
  BY <1>1 DEF N4, MOVED
<1>3. Cap[1] > 1 /\ Cap[1] \in Nat
  BY CapFacts
<1>4. Len(n.kids) < Cap[n.kind]
  BY <1>1, <1>2, <1>3
<1>5. b \notin Bytes(n.kids)
  BY <1>1 DEF Bytes
<1>. QED BY <1>2, <1>4, <1>5 DEF n

\* InsertSplit does what an insertion promises.
LEMMA InsertSplitStops ==
  ASSUME NEW ns, NEW S, NEW lab, NEW st, NEW top, Tree(ns, S, lab, st, top),
         NEW key \in Seq(Byte), NEW v \in Values, NEW lim, Enough(ns, lim, key),
         NEW y \in S, NEW s \in Nat, s < Len(ns[y].prefix), SharesAt(ns, lab, st, key, y, s)
  PROVE  Ends2(ns, S, lab, st, key, v, y, top, InsertSplit(ns, lim, y, key, st[y], s, v))
<1>1. /\ NodesOK(ns) /\ y \in 1 .. Len(ns) /\ Len(ns) \in Nat
  BY TreeParts
<1>2. /\ st[y] + s <= Len(key) /\ Agree(lab[y], key, st[y] + s)
      /\ (st[y] + s < Len(key) => lab[y][st[y] + s + 1] # key[st[y] + s + 1])
  BY DEF SharesAt
<1>3. st[y] \in Nat
  <2>1. NodeIn(ns, lab, st, y)
    BY TreeNode, Zenon
  <2>. QED BY <2>1, Zenon DEF NodeIn
<1>4. lim \in Nat /\ Len(ns) < lim /\ Len(ns) + Len(key) + 1 <= lim /\ Len(key) \in Nat
  BY <1>1 DEF Enough
<1>5. CASE st[y] + s = Len(key)
  <2>. DEFINE r == art_split(ns, lim, y, s, v)
  <2>1. InsertSplit(ns, lim, y, key, st[y], s, v) = r
    BY <1>5, Zenon DEF InsertSplit
  <2>2. v \in Values \union {None}
    OBVIOUS
  <2>3. r.id = Len(ns) + 1 /\ Split(ns, y, s, v, r.ns)
    BY <1>1, <1>4, <2>2, SplitFacts
  <2>. HIDE DEF r
  <2>4. Stop(ns, S, lab, st, key, v, y, top, r.ns, Len(ns) + 1)
    BY <1>2, <1>5, <2>3, StopCut, Zenon
  <2>5. Stop(ns, S, lab, st, key, v, y, top, r.ns, r.id)
    BY <2>3, <2>4, Zenon
  <2>. QED BY <2>1, <2>5, Zenon DEF Ends2
<1>6. CASE st[y] + s # Len(key)
  <2>. DEFINE e == st[y] + s + 1
              sp == art_split(ns, lim, y, s, None)
              leaf == art_leaf_chain(sp.ns, lim, key, e, v)
              q == art_add(leaf.ns, sp.id, key[e], leaf.id)
  <2>1. None \in Values \union {None}
    OBVIOUS
  <2>2. sp.id = Len(ns) + 1 /\ Split(ns, y, s, None, sp.ns)
    BY <1>1, <1>4, <2>1, SplitFacts
  <2>3. e \in 1 .. Len(key) /\ e \in 0 .. Len(key) /\ st[y] + s < Len(key)
    BY <1>2, <1>3, <1>4, <1>6
  <2>. HIDE DEF sp
  <2>4. NodesOK(sp.ns) /\ Len(sp.ns) = Len(ns) + 1
    BY <2>2, Zenon DEF Split
  <2>5. Len(sp.ns) + Len(key) - e + 1 <= lim
    BY <1>1, <1>4, <2>3, <2>4
  <2>6. ChainMade(sp.ns, key, e, v, leaf)
    BY <1>4, <2>3, <2>4, <2>5, MakeChain, Zenon
  <2>7. InsertSplit(ns, lim, y, key, st[y], s, v) =
          IF sp.id = 0 THEN sp ELSE IF leaf.id = 0 THEN leaf ELSE [ns |-> q, id |-> sp.id]
    BY <1>6, Zenon DEF InsertSplit, sp
  <2>. HIDE DEF leaf, q, e
  <2>8. leaf.id = Len(sp.ns) + 1
    BY <2>6, Zenon DEF ChainMade
  <2>9. PICK m, en : Ending(en, e, key, m) /\ Chained(sp.ns, key, e, v, leaf.ns, m, en)
    BY <2>6, Zenon DEF ChainMade
  <2>10. sp.id # 0 /\ leaf.id # 0
    BY <1>1, <2>2, <2>4, <2>8
  <2>11. InsertSplit(ns, lim, y, key, st[y], s, v) = [ns |-> q, id |-> sp.id]
    BY <2>7, <2>10, Zenon
  <2>12. key[e] # ns[y].prefix[s + 1] /\ key[e] \in Byte
    <3>1. ns[y].prefix[s + 1] = lab[y][st[y] + s + 1]
      BY NextByte
    <3>. QED BY <1>2, <2>3, <3>1 DEF e
  <2>13. ChildPut(leaf.ns, sp.id, key[e], leaf.id, q)
    <3>. DEFINE n == Len(ns) + 1
    <3>1. /\ sp.ns[n].kind # MOVED /\ Len(sp.ns[n].kids) < Cap[sp.ns[n].kind]
          /\ key[e] \notin Bytes(sp.ns[n].kids)
      BY <1>1, <2>2, <2>12, SplitRoom
    <3>2. NodesOK(leaf.ns) /\ Len(leaf.ns) = Len(sp.ns) + m /\ \A z \in 1 .. Len(sp.ns) : leaf.ns[z] = sp.ns[z]
      BY <2>9, Zenon DEF Chained
    <3>3. m \in Nat /\ m >= 1
      BY <2>9, Zenon DEF Ending
    <3>4. n \in 1 .. Len(sp.ns) /\ n \in 1 .. Len(leaf.ns) /\ leaf.id \in 1 .. Len(leaf.ns)
      BY <1>1, <2>4, <2>8, <3>2, <3>3
    <3>5. leaf.ns[n] = sp.ns[n]
      BY <3>2, <3>4
    <3>6. sp.id = n
      BY <2>2
    <3>. HIDE DEF n
    <3>7. ChildPut(leaf.ns, n, key[e], leaf.id, art_add(leaf.ns, n, key[e], leaf.id))
      BY <2>12, <3>1, <3>2, <3>4, <3>5, AddFacts
    <3>. QED BY <3>6, <3>7 DEF q
  <2>14. Stop(ns, S, lab, st, key, v, y, top, q, Len(ns) + 1)
    <3>1. Ending(en, st[y] + s + 1, key, m) /\ Chained(sp.ns, key, st[y] + s + 1, v, leaf.ns, m, en)
      BY <2>9 DEF e
    <3>2. ChildPut(leaf.ns, Len(ns) + 1, key[st[y] + s + 1], Len(sp.ns) + 1, q)
      BY <2>2, <2>8, <2>13 DEF e
    <3>3. st[y] + s < Len(key) /\ lab[y][st[y] + s + 1] # key[st[y] + s + 1]
      BY <1>2, <2>3
    <3>. QED BY <1>2, <2>2, <3>1, <3>2, <3>3, StopCutOn, Zenon
  <2>15. Stop(ns, S, lab, st, key, v, y, top, q, sp.id)
    BY <2>2, <2>14, Zenon
  <2>. QED BY <2>11, <2>15 DEF Ends2
<1>. QED BY <1>5, <1>6

\* The value of a node is replaced: NodesOK stays.
SetVal(ns, x, v, q) == q = [ns EXCEPT ![x].val = v]
NewVal(ns, x, v, q) ==
  /\ NodesOK(q) /\ Len(q) = Len(ns) /\ \A z \in 1 .. Len(ns) : z # x => q[z] = ns[z]
  /\ q[x].kind = ns[x].kind /\ q[x].prefix = ns[x].prefix /\ q[x].kids = ns[x].kids
  /\ q[x].val = v /\ q[x].fwd = ns[x].fwd

\* Only the value of the node changes.
LEMMA PutVal ==
  ASSUME NEW ns, NodesOK(ns), NEW x \in 1 .. Len(ns), NEW v \in Values \union {None},
         NEW q, SetVal(ns, x, v, q)
  PROVE  NewVal(ns, x, v, q)
<1>. DEFINE r == [ns[x] EXCEPT !.val = v]
<1>1. ns \in Seq(Node) /\ NodeOK(ns[x], Len(ns)) /\ ns[x] \in Node
  BY DEF NodesOK, NodeOK
<1>2. /\ r \in Node /\ r.kind = ns[x].kind /\ r.prefix = ns[x].prefix /\ r.kids = ns[x].kids
      /\ r.val = v /\ r.fwd = ns[x].fwd
  BY <1>1 DEF Node
<1>3. q = [ns EXCEPT ![x] = r]
  BY DEF SetVal
<1>. HIDE DEF r
<1>4. NodeOK(r, Len(ns))
  BY <1>1, <1>2 DEF NodeOK
<1>5. Put(ns, x, r, q)
  BY <1>3, Zenon DEF Put
<1>6. NodesOK(q) /\ Len(q) = Len(ns) /\ \A z \in 1 .. Len(ns) : q[z] = IF z = x THEN r ELSE ns[z]
  BY <1>4, <1>5, PutNode
<1>7. q[x] = r /\ \A z \in 1 .. Len(ns) : z # x => q[z] = ns[z]
  BY <1>6
<1>. QED BY <1>2, <1>6, <1>7, Zenon DEF NewVal

\* art_ins at the node of the key does what an insertion promises.
LEMMA InsertValueStops ==
  ASSUME NEW ns, NEW S, NEW lab, NEW st, NEW top, Tree(ns, S, lab, st, top),
         NEW key \in Seq(Byte), NEW v \in Values, NEW y \in S, Within(lab[y], key), Len(lab[y]) = Len(key)
  PROVE  Stop(ns, S, lab, st, key, v, y, top, [ns EXCEPT ![y].val = v], y)
<1>. DEFINE q == [ns EXCEPT ![y].val = v]
<1>1. NodesOK(ns) /\ y \in 1 .. Len(ns) /\ \A x \in S : x \in 1 .. Len(ns)
  BY TreeParts
<1>2. SetVal(ns, y, v, q) /\ v \in Values \union {None}
  BY DEF SetVal
<1>. HIDE DEF q
<1>3. NewVal(ns, y, v, q)
  BY <1>1, <1>2, PutVal, Zenon
<1>4. HasVal(ns, S, y, v, q)
  BY <1>1, <1>3, Zenon DEF HasVal, NewVal
<1>5. Stop(ns, S, lab, st, key, v, y, top, q, y)
  BY <1>4, StopValue, Zenon
<1>. QED BY <1>5 DEF q

\* InsertChild does what an insertion promises, with or without art_grow.
LEMMA InsertChildStops ==
  ASSUME NEW ns, NEW S, NEW lab, NEW st, NEW top, Tree(ns, S, lab, st, top),
         NEW key \in Seq(Byte), NEW v \in Values, NEW lim, Enough(ns, lim, key),
         NEW y \in S, Within(lab[y], key), Len(lab[y]) < Len(key),
         art_child(ns, y, key[Len(lab[y]) + 1]) = 0
  PROVE  Ends2(ns, S, lab, st, key, v, y, top, InsertChild(ns, lim, y, key, Len(lab[y]), v))
<1>. DEFINE e == Len(lab[y]) + 1
            new == art_leaf_chain(ns, lim, key, e, v)
            g == art_grow(new.ns, lim, y)
            q == art_add(new.ns, y, key[e], new.id)
            q2 == art_add(g.ns, g.id, key[e], new.id)
<1>1. /\ NodesOK(ns) /\ y \in 1 .. Len(ns) /\ Len(ns) \in Nat /\ y # 0
  BY TreeParts
<1>2. NodeIn(ns, lab, st, y)
  BY TreeNode, Zenon
<1>3. Len(lab[y]) \in Nat /\ ns[y].kind # MOVED /\ NodeOK(ns[y], Len(ns))
  BY <1>2, Zenon DEF NodeIn
<1>4. lim \in Nat /\ Len(ns) + Len(key) + 1 <= lim /\ Len(key) \in Nat
  BY <1>1 DEF Enough
<1>5. e \in 1 .. Len(key) /\ e \in 0 .. Len(key) /\ key[e] \in Byte
  <2>1. e \in 1 .. Len(key) /\ e \in 0 .. Len(key)
    BY <1>3, <1>4
  <2>. HIDE DEF e
  <2>. QED BY <2>1
<1>6. ChOf(ns)[<<y, key[e]>>] = 0 /\ KidOf(ns[y].kids, key[e]) = 0
  BY <1>2, <1>5, Zenon DEF NodeIn
<1>7. e = Len(lab[y]) + 1 /\ InsertChild(ns, lim, y, key, Len(lab[y]), v) =
        IF new.id = 0 THEN new
        ELSE IF ns[y].kind = N256 \/ Len(ns[y].kids) < Cap[ns[y].kind] THEN [ns |-> q, id |-> y]
        ELSE IF g.id = 0 THEN g ELSE [ns |-> q2, id |-> g.id]
  BY Zenon DEF InsertChild
<1>8. Len(ns) + Len(key) - e + 1 <= lim
  BY <1>4, <1>5
<1>. HIDE DEF e
<1>9. ChainMade(ns, key, e, v, new)
  BY <1>1, <1>4, <1>5, <1>8, MakeChain, Zenon
<1>. HIDE DEF new
<1>10. PICK m, en : Ending(en, e, key, m) /\ Chained(ns, key, e, v, new.ns, m, en)
  BY <1>9, Zenon DEF ChainMade
<1>11. new.id = Len(ns) + 1 /\ new.id # 0
  BY <1>1, <1>9 DEF ChainMade
<1>12. ChainBelow(ns, lab, y, key, v, new.ns)
  BY <1>7, <1>10, Zenon DEF ChainBelow
<1>13. NodesOK(new.ns) /\ Len(new.ns) = Len(ns) + m /\ \A z \in 1 .. Len(ns) : new.ns[z] = ns[z]
  BY <1>10, Zenon DEF Chained
<1>14. m \in Nat /\ m >= 1 /\ m <= Len(key) - e + 1
  BY <1>10, Zenon DEF Ending
<1>15. /\ y \in 1 .. Len(new.ns) /\ new.id \in 1 .. Len(new.ns) /\ Len(new.ns) \in Nat
       /\ Len(new.ns) < lim
  BY <1>1, <1>4, <1>5, <1>11, <1>13, <1>14
<1>16. new.ns[y] = ns[y]
  BY <1>1, <1>13
<1>17. key[e] \notin Bytes(ns[y].kids)
  <2>1. ns[y].kids \in KidSeq /\ \A i \in DOMAIN ns[y].kids : ns[y].kids[i][2] \in 1 .. Len(ns)
    BY <1>3, NodeParts
  <2>. DEFINE k == ns[y].kids
  <2>2. k \in KidSeq /\ (\A i \in DOMAIN k : k[i][2] \in 1 .. Len(ns)) /\ KidOf(k, key[e]) = 0
    BY <1>6, <2>1
  <2>. HIDE DEF k
  <2>3. ASSUME key[e] \in Bytes(k) PROVE FALSE
    <3>1. KidOf(k, key[e]) = k[Position(k, key[e])][2]
      BY <2>3, Zenon DEF KidOf
    <3>2. Position(k, key[e]) \in DOMAIN k
      BY <2>3, Zenon DEF Bytes, Position
    <3>. QED BY <2>2, <3>1, <3>2
  <2>. QED BY <2>3 DEF k
<1>18. ns[y].kind \in 1 .. 4 /\ ns[y].kids \in KidSeq /\ Distinct(ns[y].kids) /\ Len(ns[y].kids) <= Cap[ns[y].kind]
  BY <1>3, NodeParts
<1>19. CASE ns[y].kind = N256 \/ Len(ns[y].kids) < Cap[ns[y].kind]
  <2>1. Len(ns[y].kids) < Cap[ns[y].kind]
    <3>1. CASE ns[y].kind = N256
      <4>1. Len(ns[y].kids) < Cap[4]
        BY <1>5, <1>17, <1>18, Room
      <4>. QED BY <3>1, <4>1 DEF N256
    <3>. QED BY <1>19, <3>1
  <2>2. ChildPut(new.ns, y, key[e], new.id, q)
    BY <1>3, <1>5, <1>13, <1>15, <1>16, <1>17, <2>1, AddFacts
  <2>3. InsertChild(ns, lim, y, key, Len(lab[y]), v) = [ns |-> q, id |-> y]
    BY <1>7, <1>11, <1>19, Zenon
  <2>. HIDE DEF q
  <2>4. ChildPut(new.ns, y, key[Len(lab[y]) + 1], Len(ns) + 1, q) /\ ChOf(ns)[<<y, key[Len(lab[y]) + 1]>>] = 0
    BY <1>6, <1>7, <1>11, <2>2
  <2>5. Stop(ns, S, lab, st, key, v, y, top, q, y)
    BY <1>12, <2>4, StopChild, Zenon
  <2>. QED BY <2>3, <2>5 DEF Ends2
<1>20. CASE ~(ns[y].kind = N256 \/ Len(ns[y].kids) < Cap[ns[y].kind])
  <2>1. ns[y].kind \in 1 .. 3
    BY <1>18, <1>20 DEF N256
  <2>2. new.ns[y].kind \in 1 .. 3
    BY <1>16, <2>1
  <2>3. g.id = Len(new.ns) + 1 /\ Grown(new.ns, y, g.ns)
    BY <1>4, <1>13, <1>15, <2>2, GrowFacts
  <2>. HIDE DEF g
  <2>4. g.id # 0
    BY <1>15, <2>3
  <2>5. InsertChild(ns, lim, y, key, Len(lab[y]), v) = [ns |-> q2, id |-> g.id]
    BY <1>7, <1>11, <1>20, <2>4, Zenon
  <2>6. ChildPut(g.ns, g.id, key[e], new.id, q2)
    <3>. DEFINE n == Len(new.ns) + 1
    <3>1. /\ NodesOK(g.ns) /\ Len(g.ns) = n /\ g.ns[n].kind = new.ns[y].kind + 1
          /\ Len(g.ns[n].kids) = Len(new.ns[y].kids)
          /\ \A j \in DOMAIN g.ns[n].kids : \E i \in DOMAIN new.ns[y].kids : g.ns[n].kids[j] = new.ns[y].kids[i]
      BY <2>3, Zenon DEF Grown
    <3>2. n \in 1 .. Len(g.ns) /\ new.id \in 1 .. Len(g.ns)
      BY <1>15, <3>1
    <3>. HIDE DEF n
    <3>3. key[e] \notin Bytes(g.ns[n].kids)
      <4>1. SUFFICES ASSUME key[e] \in Bytes(g.ns[n].kids) PROVE FALSE
        OBVIOUS
      <4>2. PICK j \in DOMAIN g.ns[n].kids : g.ns[n].kids[j][1] = key[e]
        BY <4>1, Zenon DEF Bytes
      <4>3. PICK i \in DOMAIN ns[y].kids : g.ns[n].kids[j] = ns[y].kids[i]
        BY <1>16, <3>1, Zenon
      <4>4. ns[y].kids[i][1] = key[e]
        BY <4>2, <4>3, Zenon
      <4>. QED BY <1>17, <4>4, Zenon DEF Bytes
    <3>4. g.ns[n].kind \in 2 .. 4 /\ g.ns[n].kind # MOVED
      BY <1>16, <2>1, <3>1 DEF MOVED
    <3>5. Len(g.ns[n].kids) < Cap[g.ns[n].kind]
      <4>1. \A k \in 1 .. 3 : Cap[k] < Cap[k + 1] /\ Cap[k] \in Nat /\ Cap[k + 1] \in Nat
        BY CapFacts
      <4>2. Len(ns[y].kids) <= Cap[ns[y].kind]
        BY <1>18
      <4>3. Cap[ns[y].kind] < Cap[ns[y].kind + 1] /\ Cap[ns[y].kind] \in Nat /\ Cap[ns[y].kind + 1] \in Nat
        BY <2>1, <4>1
      <4>4. Len(g.ns[n].kids) = Len(ns[y].kids) /\ g.ns[n].kind = ns[y].kind + 1
        BY <1>16, <3>1
      <4>5. Len(ns[y].kids) \in Nat
        BY <1>18 DEF KidSeq
      <4>. QED BY <4>2, <4>3, <4>4, <4>5
    <3>6. ChildPut(g.ns, n, key[e], new.id, art_add(g.ns, n, key[e], new.id))
      BY <1>5, <3>1, <3>2, <3>3, <3>4, <3>5, AddFacts
    <3>7. g.id = n
      BY <2>3 DEF n
    <3>. QED BY <3>6, <3>7
  <2>. HIDE DEF q2
  <2>7. GrowIn(new.ns, y, key[Len(lab[y]) + 1], Len(ns), q2)
    <3>1. ChildPut(g.ns, Len(new.ns) + 1, key[Len(lab[y]) + 1], Len(ns) + 1, q2)
      BY <1>7, <1>11, <2>3, <2>6
    <3>. QED BY <2>3, <3>1, Zenon DEF GrowIn
  <2>8. ChOf(ns)[<<y, key[Len(lab[y]) + 1]>>] = 0
    BY <1>6, <1>7
  <2>9. Stop(ns, S, lab, st, key, v, y, top, q2, Len(new.ns) + 1)
    BY <1>12, <2>1, <2>7, <2>8, StopGrow, Zenon
  <2>10. Stop(ns, S, lab, st, key, v, y, top, q2, g.id)
    BY <2>3, <2>9, Zenon
  <2>. QED BY <2>5, <2>10 DEF Ends2
<1>. QED BY <1>19, <1>20

\* An allocation failed and nothing was changed.
Fails(ns, r) == r.id = 0 /\ r.ns = ns

\* Where the insertion stops at a node.
StopCase(ns, lim, key, v, lab, st, y, s, r) ==
  \/ s < Len(ns[y].prefix) /\ r = InsertSplit(ns, lim, y, key, st[y], s, v)
  \/ /\ Within(lab[y], key) /\ Len(lab[y]) = Len(key)
     /\ r = [ns |-> [ns EXCEPT ![y].val = v], id |-> y]
  \/ /\ Within(lab[y], key) /\ Len(lab[y]) < Len(key) /\ art_child(ns, y, key[Len(lab[y]) + 1]) = 0
     /\ r = InsertChild(ns, lim, y, key, Len(lab[y]), v)

\* The three places where art_ins stops.
LEMMA StopCases ==
  ASSUME NEW ns, NEW S, NEW lab, NEW st, NEW top, Tree(ns, S, lab, st, top),
         NEW key \in Seq(Byte), NEW v, NEW lim,
         NEW y, At(S, lab, st, key, y), Stopped(ns, lab, key, y)
  PROVE  /\ y \in S /\ SharesAt(ns, lab, st, key, y, Shared(ns, key, y, st[y]))
         /\ StopCase(ns, lim, key, v, lab, st, y, Shared(ns, key, y, st[y]),
                     AtStop(ns, lim, key, v, y, st[y]))
<1>1. y \in S /\ y # 0
  BY TreeParts DEF At
<1>. DEFINE s == Shared(ns, key, y, st[y])
<1>2. SharesAt(ns, lab, st, key, y, s)
  BY SharedIs, Zenon
<1>3. EndOf(ns, y, st[y]) = Len(lab[y])
  BY HaltsIs
<1>4. AtStop(ns, lim, key, v, y, st[y]) =
        IF s < Len(ns[y].prefix) THEN InsertSplit(ns, lim, y, key, st[y], s, v)
        ELSE IF Len(lab[y]) = Len(key) THEN [ns |-> [ns EXCEPT ![y].val = v], id |-> y]
        ELSE InsertChild(ns, lim, y, key, Len(lab[y]), v)
  BY <1>1, <1>3, Zenon DEF AtStop
<1>. HIDE DEF s
<1>5. CASE s < Len(ns[y].prefix)
  BY <1>1, <1>2, <1>4, <1>5, Zenon DEF StopCase, s
<1>6. CASE ~(s < Len(ns[y].prefix))
  <2>1. Within(lab[y], key)
    BY <1>2, <1>6, Zenon DEF SharesAt
  <2>2. CASE Len(lab[y]) = Len(key)
    BY <1>1, <1>2, <1>4, <1>6, <2>1, <2>2, Zenon DEF StopCase, s
  <2>3. CASE Len(lab[y]) # Len(key)
    <3>1. Len(lab[y]) < Len(key)
      <4>1. NodeIn(ns, lab, st, y)
        BY <1>1, TreeNode, Zenon
      <4>2. Len(lab[y]) \in Nat /\ Len(key) \in Nat
        BY <4>1 DEF NodeIn
      <4>3. Len(lab[y]) <= Len(key)
        BY <2>1 DEF Within
      <4>. QED BY <2>3, <4>2, <4>3
    <3>2. art_child(ns, y, key[Len(lab[y]) + 1]) = 0
      BY <2>1, <2>3, Zenon DEF Stopped
    <3>. QED BY <1>1, <1>2, <1>4, <1>6, <2>1, <2>3, <3>1, <3>2, Zenon DEF StopCase, s
  <2>. QED BY <2>2, <2>3
<1>. QED BY <1>5, <1>6

\* With nodes enough the key is inserted.
LEMMA AtStopStops ==
  ASSUME NEW ns, NEW S, NEW lab, NEW st, NEW top, Tree(ns, S, lab, st, top),
         NEW key \in Seq(Byte), NEW v \in Values, NEW lim, Enough(ns, lim, key),
         NEW y, At(S, lab, st, key, y), Stopped(ns, lab, key, y)
  PROVE  Ends2(ns, S, lab, st, key, v, y, top, AtStop(ns, lim, key, v, y, st[y]))
<1>. DEFINE s == Shared(ns, key, y, st[y])
            r == AtStop(ns, lim, key, v, y, st[y])
<1>1. y \in S /\ SharesAt(ns, lab, st, key, y, s) /\ StopCase(ns, lim, key, v, lab, st, y, s, r)
  BY StopCases, Zenon
<1>. HIDE DEF s, r
<1>2. s \in Nat
  BY <1>1, Zenon DEF SharesAt
<1>3. CASE s < Len(ns[y].prefix) /\ r = InsertSplit(ns, lim, y, key, st[y], s, v)
  <2>1. Ends2(ns, S, lab, st, key, v, y, top, InsertSplit(ns, lim, y, key, st[y], s, v))
    BY <1>1, <1>2, <1>3, InsertSplitStops, Zenon
  <2>. QED BY <1>3, <2>1, Zenon DEF r
<1>4. CASE /\ Within(lab[y], key) /\ Len(lab[y]) = Len(key)
           /\ r = [ns |-> [ns EXCEPT ![y].val = v], id |-> y]
  <2>. DEFINE q == [ns EXCEPT ![y].val = v]
  <2>1. Stop(ns, S, lab, st, key, v, y, top, q, y)
    BY <1>1, <1>4, InsertValueStops, Zenon
  <2>2. r = [ns |-> q, id |-> y]
    BY <1>4, Zenon
  <2>. HIDE DEF q
  <2>3. r.ns = q /\ r.id = y
    BY <2>2
  <2>. QED BY <2>1, <2>3, Zenon DEF Ends2, r
<1>5. CASE /\ Within(lab[y], key) /\ Len(lab[y]) < Len(key) /\ art_child(ns, y, key[Len(lab[y]) + 1]) = 0
           /\ r = InsertChild(ns, lim, y, key, Len(lab[y]), v)
  <2>1. Ends2(ns, S, lab, st, key, v, y, top, InsertChild(ns, lim, y, key, Len(lab[y]), v))
    BY <1>1, <1>5, InsertChildStops, Zenon
  <2>. QED BY <1>5, <2>1, Zenon DEF r
<1>. QED BY <1>1, <1>3, <1>4, <1>5, Zenon DEF StopCase

\* Without any node the insertion fails, or the node of the key is there.
LEMMA NoNode ==
  ASSUME NEW ns, NodesOK(ns), NEW prefix, NEW val
  PROVE  Fails(ns, art_new_node(ns, Len(ns), prefix, val))
<1>1. Len(ns) \in Nat /\ Len(ns) >= Len(ns)
  BY DEF NodesOK
<1>2. art_new_node(ns, Len(ns), prefix, val) = [ns |-> ns, id |-> 0]
  BY <1>1 DEF art_new_node
<1>. QED BY <1>2 DEF Fails

\* art_split without a node to allocate changes nothing.
LEMMA NoSplit ==
  ASSUME NEW ns, NodesOK(ns), NEW y, NEW s, NEW v
  PROVE  Fails(ns, art_split(ns, Len(ns), y, s, v))
<1>1. Fails(ns, art_new_node(ns, Len(ns), SubSeq(ns[y].prefix, 1, s), v))
  BY NoNode, Zenon
<1>2. art_split(ns, Len(ns), y, s, v) = art_new_node(ns, Len(ns), SubSeq(ns[y].prefix, 1, s), v)
  BY <1>1, Zenon DEF Fails, art_split
<1>. QED BY <1>1, <1>2, Zenon

\* art_ins without a node to allocate changes nothing, or replaces a value.
LEMMA AtStopFails ==
  ASSUME NEW ns, NEW S, NEW lab, NEW st, NEW top, Tree(ns, S, lab, st, top),
         NEW key \in Seq(Byte), NEW v \in Values,
         NEW y, At(S, lab, st, key, y), Stopped(ns, lab, key, y)
  PROVE  \/ Fails(ns, AtStop(ns, Len(ns), key, v, y, st[y]))
         \/ Ends2(ns, S, lab, st, key, v, y, top, AtStop(ns, Len(ns), key, v, y, st[y]))
<1>. DEFINE s == Shared(ns, key, y, st[y])
            r == AtStop(ns, Len(ns), key, v, y, st[y])
            lim == Len(ns)
<1>1. y \in S /\ SharesAt(ns, lab, st, key, y, s) /\ StopCase(ns, lim, key, v, lab, st, y, s, r)
  BY StopCases, Zenon
<1>2. NodesOK(ns)
  BY TreeParts
<1>3. CASE s < Len(ns[y].prefix) /\ r = InsertSplit(ns, lim, y, key, st[y], s, v)
  <2>. DEFINE d == st[y]
  <2>1. Fails(ns, art_split(ns, lim, y, s, None)) /\ Fails(ns, art_split(ns, lim, y, s, v))
    BY <1>2, NoSplit, Zenon
  <2>. HIDE DEF lim, s, d
  <2>2. CASE d + s = Len(key)
    <3>1. InsertSplit(ns, lim, y, key, d, s, v) = art_split(ns, lim, y, s, v)
      BY <2>2, Zenon DEF InsertSplit
    <3>2. Fails(ns, InsertSplit(ns, lim, y, key, d, s, v))
      BY <2>1, <3>1, Zenon
    <3>. QED BY <1>3, <3>2, Zenon DEF d
  <2>3. CASE d + s # Len(key)
    <3>1. InsertSplit(ns, lim, y, key, d, s, v) = art_split(ns, lim, y, s, None)
      BY <2>1, <2>3, Zenon DEF InsertSplit, Fails
    <3>2. Fails(ns, InsertSplit(ns, lim, y, key, d, s, v))
      BY <2>1, <3>1, Zenon
    <3>. QED BY <1>3, <3>2, Zenon DEF d
  <2>. QED BY <2>2, <2>3
<1>4. CASE /\ Within(lab[y], key) /\ Len(lab[y]) = Len(key)
           /\ r = [ns |-> [ns EXCEPT ![y].val = v], id |-> y]
  <2>. DEFINE q == [ns EXCEPT ![y].val = v]
  <2>1. Stop(ns, S, lab, st, key, v, y, top, q, y)
    BY <1>1, <1>4, InsertValueStops, Zenon
  <2>2. r = [ns |-> q, id |-> y]
    BY <1>4, Zenon
  <2>. HIDE DEF q, r
  <2>3. r.ns = q /\ r.id = y
    BY <2>2
  <2>4. Ends2(ns, S, lab, st, key, v, y, top, r)
    BY <2>1, <2>3, Zenon DEF Ends2
  <2>. QED BY <2>4, Zenon DEF r
<1>5. CASE /\ Within(lab[y], key) /\ Len(lab[y]) < Len(key) /\ art_child(ns, y, key[Len(lab[y]) + 1]) = 0
           /\ r = InsertChild(ns, lim, y, key, Len(lab[y]), v)
  <2>. DEFINE e == Len(lab[y])
              new == art_leaf_chain(ns, lim, key, e + 1, v)
  <2>0. e \in Nat
    <3>1. NodeIn(ns, lab, st, y)
      BY <1>1, TreeNode, Zenon
    <3>. QED BY <3>1, Zenon DEF NodeIn
  <2>1. e + 1 \in 0 .. Len(key)
    <3>1. e < Len(key) /\ Len(key) \in Nat
      BY <1>5
    <3>. HIDE DEF e
    <3>. QED BY <2>0, <3>1
  <2>2. new.id = 0 /\ new.ns = ns
    BY <1>2, <2>1, NoChain
  <2>3. InsertChild(ns, lim, y, key, e, v) = new
    BY <2>2, Zenon DEF InsertChild
  <2>. HIDE DEF new
  <2>4. Fails(ns, InsertChild(ns, lim, y, key, e, v))
    BY <2>2, <2>3 DEF Fails
  <2>. QED BY <1>5, <2>4, Zenon
<1>. QED BY <1>1, <1>3, <1>4, <1>5, Zenon DEF StopCase

\* The nodes that may be allocated: enough for the whole key, or none.
Limit(ns, lim, key) == Enough(ns, lim, key) \/ lim = Len(ns)

\* What an insertion may return.
Inserted(ns, S, lab, key, v, r) == (r.id # 0 /\ Done(ns, S, lab, key, v, r.ns, r.id)) \/ Fails(ns, r)

\* Where art_ins stops it fails without a change, or does what an insertion promises.
LEMMA StopOrFail ==
  ASSUME NEW ns, NEW S, NEW lab, NEW st, NEW top, Tree(ns, S, lab, st, top),
         NEW key \in Seq(Byte), NEW v \in Values, NEW lim, Limit(ns, lim, key),
         NEW y, At(S, lab, st, key, y), Stopped(ns, lab, key, y)
  PROVE  \/ Fails(ns, AtStop(ns, lim, key, v, y, st[y]))
         \/ Ends2(ns, S, lab, st, key, v, y, top, AtStop(ns, lim, key, v, y, st[y]))
<1>1. CASE Enough(ns, lim, key)
  BY <1>1, AtStopStops, Zenon
<1>2. CASE lim = Len(ns)
  <2>1. \/ Fails(ns, AtStop(ns, Len(ns), key, v, y, st[y]))
        \/ Ends2(ns, S, lab, st, key, v, y, top, AtStop(ns, Len(ns), key, v, y, st[y]))
    BY AtStopFails, Zenon
  <2>. QED BY <1>2, <2>1, Zenon
<1>. QED BY <1>1, <1>2, Zenon DEF Limit

\* Insertion into a tree that has nodes.
LEMMA InsertBelow ==
  ASSUME NEW ns, NEW S, NEW lab, NEW st, NEW top, Tree(ns, S, lab, st, top), top # 0,
         NEW key \in Seq(Byte), NEW v \in Values, NEW lim, Limit(ns, lim, key)
  PROVE  Inserted(ns, S, lab, key, v, art_ins(ns, lim, top, key, v))
<1>1. NodesOK(ns) /\ top \in S /\ st[top] = 0
  BY TreeParts DEF Top
<1>2. PICK h : art_ins(ns, lim, top, key, v) = h[<<top, 0>>] /\ Insertion(ns, lim, key, v, h)
  BY <1>1, InsEq, Zenon
<1>. DEFINE r == art_ins(ns, lim, top, key, v)
<1>3. At(S, lab, st, key, top)
  <2>1. Len(key) \in Nat
    OBVIOUS
  <2>. QED BY <1>1, <2>1 DEF At, Agree
<1>4. InsResult(ns, S, lab, st, lim, key, v, top, r)
  <2>1. InsResult(ns, S, lab, st, lim, key, v, top, h[<<top, st[top]>>])
    BY <1>1, <1>2, <1>3, InsWay, Zenon
  <2>. QED BY <1>1, <1>2, <2>1, Zenon
<1>. HIDE DEF r
<1>5. PICK y \in S :
        /\ At(S, lab, st, key, y) /\ Stopped(ns, lab, key, y)
        /\ \/ y = top /\ r = AtStop(ns, lim, key, v, y, st[y])
           \/ y # top /\ AtStop(ns, lim, key, v, y, st[y]).id = 0 /\ r = AtStop(ns, lim, key, v, y, st[y])
           \/ /\ y # top /\ AtStop(ns, lim, key, v, y, st[y]).id # 0
              /\ \E p : /\ Above(ns, S, lab, key, p, y)
                        /\ r = [ns |-> Relink(AtStop(ns, lim, key, v, y, st[y]).ns, p, key[Len(lab[p]) + 1], y,
                                              AtStop(ns, lim, key, v, y, st[y]).id),
                                id |-> top]
  BY <1>4, Zenon DEF InsResult
<1>. DEFINE a == AtStop(ns, lim, key, v, y, st[y])
<1>6. Fails(ns, a) \/ Ends2(ns, S, lab, st, key, v, y, top, a)
  BY <1>5, StopOrFail, Zenon
<1>7. CASE y = top /\ r = a
  <2>1. CASE Fails(ns, a)
    BY <1>7, <2>1, Zenon DEF Inserted, r
  <2>2. CASE Ends2(ns, S, lab, st, key, v, y, top, a)
    <3>. HIDE DEF a
    <3>1. /\ a.id # 0
          /\ \A f, top2 : Rejoin(ns, S, lab, key, a.ns, y, a.id, top, f, top2) => Done(ns, S, lab, key, v, f, top2)
      BY <2>2, Zenon DEF Ends2, Stop
    <3>2. Rejoin(ns, S, lab, key, a.ns, y, a.id, top, a.ns, a.id)
      BY <1>7, Zenon DEF Rejoin
    <3>3. Done(ns, S, lab, key, v, a.ns, a.id)
      BY <3>1, <3>2, Zenon
    <3>4. Inserted(ns, S, lab, key, v, r)
      BY <1>7, <3>1, <3>3, Zenon DEF Inserted
    <3>. QED BY <3>4 DEF r
  <2>. QED BY <1>6, <2>1, <2>2
<1>8. CASE y # top /\ a.id = 0 /\ r = a
  <2>1. Fails(ns, a)
    <3>. HIDE DEF a
    <3>. QED BY <1>6, <1>8, Zenon DEF Ends2, Stop
  <2>. QED BY <1>8, <2>1, Zenon DEF Inserted, r
<1>9. CASE /\ y # top /\ a.id # 0
           /\ \E p : /\ Above(ns, S, lab, key, p, y)
                     /\ r = [ns |-> Relink(a.ns, p, key[Len(lab[p]) + 1], y, a.id), id |-> top]
  <2>. HIDE DEF a
  <2>1. PICK p : /\ Above(ns, S, lab, key, p, y)
                 /\ r = [ns |-> Relink(a.ns, p, key[Len(lab[p]) + 1], y, a.id), id |-> top]
    BY <1>9, Zenon
  <2>. DEFINE f == Relink(a.ns, p, key[Len(lab[p]) + 1], y, a.id)
  <2>2. \A f0, top2 : Rejoin(ns, S, lab, key, a.ns, y, a.id, top, f0, top2) => Done(ns, S, lab, key, v, f0, top2)
    BY <1>6, <1>9, Zenon DEF Ends2, Stop, Fails
  <2>3. Rejoin(ns, S, lab, key, a.ns, y, a.id, top, f, top)
    BY <1>9, <2>1, Zenon DEF Rejoin
  <2>4. Done(ns, S, lab, key, v, f, top) /\ r = [ns |-> f, id |-> top]
    BY <2>1, <2>2, <2>3, Zenon
  <2>. HIDE DEF f
  <2>5. r.ns = f /\ r.id = top
    BY <2>4
  <2>6. Inserted(ns, S, lab, key, v, r)
    BY <2>4, <2>5, Zenon DEF Inserted
  <2>. QED BY <2>6 DEF r
<1>. QED BY <1>5, <1>7, <1>8, <1>9

\* Insertion into the empty tree.
LEMMA InsertFirst ==
  ASSUME NEW ns, NEW S, NEW lab, NEW st, Tree(ns, S, lab, st, 0),
         NEW key \in Seq(Byte), NEW v \in Values, NEW lim, Limit(ns, lim, key)
  PROVE  Inserted(ns, S, lab, key, v, art_ins(ns, lim, 0, key, v))
<1>1. NodesOK(ns) /\ Len(ns) \in Nat
  BY TreeParts
<1>2. PICK h : art_ins(ns, lim, 0, key, v) = h[<<0, 0>>] /\ Insertion(ns, lim, key, v, h)
  BY <1>1, InsEq, Zenon
<1>. DEFINE r == art_ins(ns, lim, 0, key, v)
            chain == art_leaf_chain(ns, lim, key, 0, v)
<1>3. r = chain
  <2>1. 0 \in 0 .. Len(ns) /\ 0 \in 0 .. Len(key) /\ Len(key) \in Nat
    BY <1>1
  <2>2. InsStep(ns, lim, key, v, h, 0, 0)
    BY <1>2, <2>1, Zenon DEF Insertion
  <2>3. h[<<0, 0>>] = AtStop(ns, lim, key, v, 0, 0)
    BY <2>2, Zenon DEF InsStep, Halts
  <2>4. AtStop(ns, lim, key, v, 0, 0) = chain
    BY Zenon DEF AtStop
  <2>. QED BY <1>2, <2>3, <2>4, Zenon
<1>. HIDE DEF r
<1>4. 0 \in 0 .. Len(key) /\ Len(key) \in Nat
  OBVIOUS
<1>5. CASE Enough(ns, lim, key)
  <2>1. lim \in Nat /\ Len(ns) + Len(key) - 0 + 1 <= lim
    BY <1>1, <1>4, <1>5 DEF Enough
  <2>2. ChainMade(ns, key, 0, v, chain)
    BY <1>1, <1>4, <2>1, MakeChain
  <2>. HIDE DEF chain
  <2>3. PICK m, en : Ending(en, 0, key, m) /\ Chained(ns, key, 0, v, chain.ns, m, en)
    BY <2>2, Zenon DEF ChainMade
  <2>4. Done(ns, S, lab, key, v, chain.ns, Len(ns) + 1)
    BY <2>3, EmptyDone, Zenon
  <2>5. chain.id = Len(ns) + 1 /\ chain.id # 0
    BY <1>1, <2>2 DEF ChainMade
  <2>6. Inserted(ns, S, lab, key, v, r)
    BY <1>3, <2>4, <2>5, Zenon DEF Inserted
  <2>. QED BY <2>6 DEF r
<1>6. CASE lim = Len(ns)
  <2>1. chain.id = 0 /\ chain.ns = ns
    BY <1>1, <1>4, <1>6, NoChain
  <2>. HIDE DEF chain
  <2>2. Inserted(ns, S, lab, key, v, r)
    BY <1>3, <2>1, Zenon DEF Inserted, Fails
  <2>. QED BY <2>2 DEF r
<1>. QED BY <1>5, <1>6, Zenon DEF Limit

\* art_ins gives the key its value and keeps everything else, or changes nothing.
THEOREM InsertExact ==
  ASSUME NEW ns, NEW S, NEW lab, NEW st, NEW top, Tree(ns, S, lab, st, top),
         NEW key \in Seq(Byte), NEW v \in Values, NEW lim, Limit(ns, lim, key)
  PROVE  Inserted(ns, S, lab, key, v, art_ins(ns, lim, top, key, v))
<1>1. CASE top = 0
  <2>1. Inserted(ns, S, lab, key, v, art_ins(ns, lim, 0, key, v))
    BY <1>1, InsertFirst, Zenon
  <2>. QED BY <1>1, <2>1, Zenon
<1>2. CASE top # 0
  BY <1>2, InsertBelow, Zenon
<1>. QED BY <1>1, <1>2

\* Every insertion may allocate enough nodes for its key, or none.
Roomy == \A b \in Budgets : b = 0 \/ \A F \in Families : \A k \in F : Len(k) < b

\* The nodes are a tree of labels.
IsTree(ns, top) == \E S, lab, st : Tree(ns, S, lab, st, top)

ArtInv == keys \in Families /\ IsTree(node, root)

\* The value a label stands for.
ValueOf(ns, S, lab, k, w) ==
  \/ \E x \in S : lab[x] = k /\ ns[x].val = w
  \/ w = None /\ \A x \in S : lab[x] # k

\* What Lookup shows of a key.
LookAt(ns, top, k) ==
  IF art_walk(ns, top, k, 0) = 0 THEN None ELSE ns[art_walk(ns, top, k, 0)].val

\* art_walk finds the value of the node with the label of the key.
LEMMA LookAtIs ==
  ASSUME NEW ns, NEW S, NEW lab, NEW st, NEW top, Tree(ns, S, lab, st, top), NEW key \in Seq(Byte)
  PROVE  ValueOf(ns, S, lab, key, LookAt(ns, top, key))
<1>. DEFINE r == art_walk(ns, top, key, 0)
<1>1. Finds(ns, S, lab, key, r) /\ LookAt(ns, top, key) = IF r = 0 THEN None ELSE ns[r].val
  BY FindExact, Zenon DEF LookAt
<1>2. 0 \notin S
  BY TreeParts
<1>. HIDE DEF r
<1>3. CASE r \in S /\ lab[r] = key
  <2>1. LookAt(ns, top, key) = ns[r].val
    BY <1>1, <1>2, <1>3, Zenon
  <2>. QED BY <1>3, <2>1, Zenon DEF ValueOf
<1>4. CASE r = 0 /\ \A y \in S : lab[y] = key => ns[y].val = None
  <2>1. LookAt(ns, top, key) = None
    BY <1>1, <1>4, Zenon
  <2>. QED BY <1>4, <2>1, Zenon DEF ValueOf
<1>. QED BY <1>1, <1>3, <1>4, Zenon DEF Finds

\* A label stands for one value.
LEMMA OneValue ==
  ASSUME NEW ns, NEW S, NEW lab, NEW st, NEW top, Tree(ns, S, lab, st, top), NEW key,
         NEW w1, NEW w2, ValueOf(ns, S, lab, key, w1), ValueOf(ns, S, lab, key, w2)
  PROVE  w1 = w2
<1>1. OneNode(S, lab)
  BY TreeParts
<1>2. ASSUME NEW x \in S, NEW y \in S, lab[x] = key, lab[y] = key PROVE x = y
  BY <1>1, <1>2, Zenon DEF OneNode
<1>3. CASE \E x \in S : lab[x] = key /\ ns[x].val = w1
  <2>1. PICK x \in S : lab[x] = key /\ ns[x].val = w1
    BY <1>3
  <2>2. PICK y \in S : lab[y] = key /\ ns[y].val = w2
    BY <2>1, Zenon DEF ValueOf
  <2>. QED BY <1>2, <2>1, <2>2, Zenon
<1>4. CASE w1 = None /\ \A x \in S : lab[x] # key
  BY <1>4, Zenon DEF ValueOf
<1>. QED BY <1>3, <1>4, Zenon DEF ValueOf

\* What an insertion of v for key makes of a value.
After(k, key, v, w) == IF k = key THEN v ELSE w

\* An insertion changes the value of its key and of no other.
LEMMA OutcomeValues ==
  ASSUME NEW ns, NEW S, NEW lab, NEW st, NEW top, Tree(ns, S, lab, st, top),
         NEW key, NEW v, NEW f, NEW S2, NEW lab2, Outcome(ns, S, lab, key, v, f, S2, lab2),
         NEW k, NEW w, ValueOf(ns, S, lab, k, w)
  PROVE  ValueOf(f, S2, lab2, k, After(k, key, v, w))
<1>1. OneNode(S, lab)
  BY TreeParts
<1>2. CASE k = key
  BY <1>2, Zenon DEF Outcome, ValueOf, After
<1>3. CASE k # key
  <2>1. ASSUME NEW x0 \in S, lab[x0] = k, ns[x0].val = w
        PROVE  \E x \in S2 : lab2[x] = k /\ f[x].val = w
    BY <1>3, <2>1, Zenon DEF Outcome
  <2>2. ASSUME w = None, \A x \in S : lab[x] # k, NEW x \in S2, lab2[x] = k
        PROVE  f[x].val = None
    BY <1>3, <2>2, Zenon DEF Outcome
  <2>3. ValueOf(f, S2, lab2, k, w)
    BY <2>1, <2>2, Zenon DEF ValueOf
  <2>. QED BY <1>3, <2>3, Zenon DEF After
<1>. QED BY <1>2, <1>3

\* The empty tree.
LEMMA EmptyTree == Tree(<<>>, {}, <<>>, <<>>, 0)
<1>. DEFINE ns == <<>>
            lab == <<>>
<1>1. NodesOK(ns)
  BY DEF NodesOK
<1>2. Shape({}, lab, lab, ChOf(ns), 0)
  BY DEF Shape, Labels, Top, Branches, Complete, Apart, OneNode
<1>. QED BY <1>1, <1>2, Zenon DEF Tree

\* The empty store is a tree.
LEMMA NoTree == IsTree(<<>>, 0)
BY EmptyTree, Zenon DEF IsTree

\* Set: the key gets its value and nothing else changes, or nothing at all changes.
SetTree(ns, top, key, v, ns2, top2) ==
  /\ IsTree(ns2, top2)
  /\ \/ \A k \in Seq(Byte) : LookAt(ns2, top2, k) = After(k, key, v, LookAt(ns, top, k))
     \/ ns2 = ns /\ top2 = top

\* kvspaceShmSet keeps the tree and changes what is found for its key only.
LEMMA SetKeeps ==
  ASSUME NEW ns, NEW top, IsTree(ns, top), NEW key \in Seq(Byte), NEW v \in Values,
         NEW lim, Limit(ns, lim, key),
         NEW r, r = art_ins(ns, lim, top, key, v), NEW top2, top2 = IF r.id = 0 THEN top ELSE r.id
  PROVE  SetTree(ns, top, key, v, r.ns, top2)
<1>1. PICK S, lab, st : Tree(ns, S, lab, st, top)
  BY Zenon DEF IsTree
<1>2. Inserted(ns, S, lab, key, v, r)
  BY <1>1, InsertExact, Zenon
<1>3. CASE r.id # 0 /\ Done(ns, S, lab, key, v, r.ns, r.id)
  <2>1. top2 = r.id
    BY <1>3, Zenon
  <2>2. PICK S2, lab2, st2 : /\ Tree(r.ns, S2, lab2, st2, top2)
                             /\ Outcome(ns, S, lab, key, v, r.ns, S2, lab2)
    BY <1>3, <2>1, Zenon DEF Done
  <2>3. ASSUME NEW k \in Seq(Byte)
        PROVE  LookAt(r.ns, top2, k) = After(k, key, v, LookAt(ns, top, k))
    <3>. DEFINE w == LookAt(ns, top, k)
                w2 == LookAt(r.ns, top2, k)
    <3>1. ValueOf(ns, S, lab, k, w)
      BY <1>1, LookAtIs, Zenon
    <3>2. ValueOf(r.ns, S2, lab2, k, w2)
      BY <2>2, LookAtIs, Zenon
    <3>. HIDE DEF w, w2
    <3>3. ValueOf(r.ns, S2, lab2, k, After(k, key, v, w))
      BY <1>1, <2>2, <3>1, OutcomeValues, Zenon
    <3>4. w2 = After(k, key, v, w)
      BY <2>2, <3>2, <3>3, OneValue, Zenon
    <3>. QED BY <3>4 DEF w, w2
  <2>. QED BY <2>2, <2>3, Zenon DEF SetTree, IsTree
<1>4. CASE Fails(ns, r)
  BY <1>4, Zenon DEF Fails, SetTree
<1>. QED BY <1>2, <1>3, <1>4, Zenon DEF Inserted

\* Del: the key has a value and loses it, nothing else changes.
DelTree(ns, top, key, ns2) ==
  /\ IsTree(ns2, top) /\ LookAt(ns, top, key) # None
  /\ \A k \in Seq(Byte) : LookAt(ns2, top, k) = After(k, key, None, LookAt(ns, top, k))

\* kvspaceShmDel keeps the tree and changes what is found for its key only.
LEMMA DelKeeps ==
  ASSUME NEW ns, NEW top, IsTree(ns, top), NEW key \in Seq(Byte),
         NEW id, id = art_walk(ns, top, key, 0), id # 0
  PROVE  DelTree(ns, top, key, art_del(ns, id))
<1>1. PICK S, lab, st : Tree(ns, S, lab, st, top)
  BY Zenon DEF IsTree
<1>2. Finds(ns, S, lab, key, id)
  BY <1>1, FindExact, Zenon
<1>3. id \in S /\ lab[id] = key /\ ns[id].val # None
  BY <1>2, Zenon DEF Finds
<1>. DEFINE q == art_del(ns, id)
<1>4. /\ NodesOK(ns) /\ S \subseteq 1 .. Len(ns) /\ Len(ns) \in Nat /\ OneNode(S, lab)
  BY <1>1, TreeParts
<1>5. SetVal(ns, id, None, q) /\ id \in 1 .. Len(ns) /\ None \in Values \union {None}
  BY <1>3, <1>4 DEF SetVal, art_del
<1>6. LookAt(ns, top, key) # None
  BY <1>3, Zenon DEF LookAt
<1>. HIDE DEF q
<1>7. NewVal(ns, id, None, q)
  BY <1>4, <1>5, PutVal, Zenon
<1>8. /\ NodesOK(q) /\ Len(q) = Len(ns) /\ \A x \in S : x # id => q[x] = ns[x]
      /\ q[id].kind = ns[id].kind /\ q[id].prefix = ns[id].prefix /\ q[id].kids = ns[id].kids
      /\ q[id].val = None
  BY <1>4, <1>7 DEF NewVal
<1>9. Tree(q, S, lab, st, top)
  <2>1. ASSUME NEW x \in S
        PROVE  /\ q[x].kind = ns[x].kind /\ q[x].prefix = ns[x].prefix
               /\ \A b \in Byte : KidOf(q[x].kids, b) = KidOf(ns[x].kids, b)
    <3>1. CASE x = id
      BY <1>8, <3>1
    <3>2. CASE x # id
      BY <1>8, <3>2
    <3>. QED BY <3>1, <3>2
  <2>2. Len(ns) <= Len(q)
    BY <1>4, <1>8
  <2>. QED BY <1>1, <1>8, <2>1, <2>2, SameTree
<1>10. ASSUME NEW k \in Seq(Byte)
       PROVE  LookAt(q, top, k) = After(k, key, None, LookAt(ns, top, k))
  <2>. DEFINE w == LookAt(ns, top, k)
              w2 == LookAt(q, top, k)
  <2>1. ValueOf(ns, S, lab, k, w) /\ ValueOf(q, S, lab, k, w2)
    BY <1>1, <1>9, LookAtIs, Zenon
  <2>. HIDE DEF w, w2
  <2>2. ValueOf(q, S, lab, k, After(k, key, None, w))
    <3>1. CASE k = key
      BY <1>3, <1>8, <3>1, Zenon DEF ValueOf, After
    <3>2. CASE k # key
      <4>1. ValueOf(q, S, lab, k, w)
        <5>1. ASSUME NEW x \in S, lab[x] = k, ns[x].val = w PROVE q[x].val = w
          BY <1>3, <1>8, <3>2, <5>1, Zenon
        <5>. QED BY <2>1, <5>1, Zenon DEF ValueOf
      <4>. QED BY <3>2, <4>1, Zenon DEF After
    <3>. QED BY <3>1, <3>2
  <2>3. w2 = After(k, key, None, w)
    BY <1>9, <2>1, <2>2, OneValue, Zenon
  <2>. QED BY <2>3 DEF w, w2
<1>11. DelTree(ns, top, key, q)
  BY <1>6, <1>9, <1>10, Zenon DEF DelTree, IsTree
<1>. QED BY <1>11 DEF q

------------------------------------------------------------------------------

\* The keys are strings of bytes.
LEMMA KeyType == ASSUME NEW F \in Families PROVE F \subseteq Seq(Byte) /\ F \subseteq AllKeys
BY ArtAssumption DEF AllKeys

\* Every budget is a limit.
LEMMA BudgetLimit ==
  ASSUME Roomy, NEW b \in Budgets, NEW F \in Families, NEW k \in F, NEW ns, NodesOK(ns)
  PROVE  Limit(ns, Len(ns) + b, k)
<1>1. b \in Nat /\ Len(ns) \in Nat /\ Len(k) \in Nat
  <2>1. b \in Nat /\ k \in Seq(Byte)
    BY ArtAssumption, KeyType
  <2>2. Len(ns) \in Nat
    BY DEF NodesOK
  <2>. QED BY <2>1, <2>2
<1>2. CASE b = 0
  <2>1. Len(ns) + b = Len(ns)
    BY <1>1, <1>2
  <2>. QED BY <2>1 DEF Limit
<1>3. CASE Len(k) < b
  <2>1. Enough(ns, Len(ns) + b, k)
    BY <1>1, <1>3 DEF Enough
  <2>. QED BY <2>1 DEF Limit
<1>. QED BY <1>2, <1>3 DEF Roomy

\* The invariant holds initially.
LEMMA ArtInit == Init => ArtInv
BY NoTree DEF Init, ArtInv

\* A set step.
SetStep(k, v) ==
  SetTree(node, root, k, v, node', root') /\ keys' = keys /\ k \in keys /\ v \in Values /\ k \in Seq(Byte)

\* A step of kvspaceShmSet.
LEMMA SetStepIs ==
  ASSUME Roomy, ArtInv, NEW k \in keys, NEW v \in Values, kvspaceShmSet(k, v)
  PROVE  SetStep(k, v)
<1>1. keys \in Families /\ IsTree(node, root)
  BY DEF ArtInv
<1>2. k \in Seq(Byte)
  BY <1>1, KeyType
<1>3. NodesOK(node)
  BY <1>1, Zenon DEF IsTree, Tree
<1>4. PICK b \in Budgets :
        LET r == art_ins(node, Len(node) + b, root, k, v) IN
        /\ node' = r.ns /\ root' = IF r.id = 0 THEN root ELSE r.id
        /\ UNCHANGED keys
  BY DEF kvspaceShmSet
<1>. DEFINE r == art_ins(node, Len(node) + b, root, k, v)
            lim == Len(node) + b
<1>5. Limit(node, lim, k)
  BY <1>1, <1>3, BudgetLimit
<1>6. r = art_ins(node, lim, root, k, v) /\ node' = r.ns /\ root' = (IF r.id = 0 THEN root ELSE r.id) /\ keys' = keys
  BY <1>4
<1>. HIDE DEF r, lim
<1>7. SetTree(node, root, k, v, r.ns, root')
  BY <1>1, <1>2, <1>5, <1>6, SetKeeps, Zenon
<1>. QED BY <1>2, <1>6, <1>7, Zenon DEF SetStep

DelStep(k) ==
  DelTree(node, root, k, node') /\ root' = root /\ keys' = keys /\ k \in keys /\ k \in Seq(Byte)

\* A step of kvspaceShmDel.
LEMMA DelStepIs ==
  ASSUME ArtInv, NEW k \in keys, kvspaceShmDel(k)
  PROVE  DelStep(k)
<1>1. keys \in Families /\ IsTree(node, root)
  BY DEF ArtInv
<1>2. k \in Seq(Byte)
  BY <1>1, KeyType
<1>. DEFINE id == art_walk(node, root, k, 0)
<1>3. id # 0 /\ node' = art_del(node, id) /\ root' = root /\ keys' = keys
  BY DEF kvspaceShmDel, art_find
<1>4. id = art_walk(node, root, k, 0)
  OBVIOUS
<1>. HIDE DEF id
<1>5. DelTree(node, root, k, art_del(node, id))
  BY <1>1, <1>2, <1>3, <1>4, DelKeeps, Zenon
<1>. QED BY <1>2, <1>3, <1>5, Zenon DEF DelStep

\* Every step keeps the tree.
LEMMA ArtNext == Roomy /\ ArtInv /\ [Next]_vars => ArtInv'
<1>1. SUFFICES ASSUME Roomy, ArtInv, [Next]_vars PROVE ArtInv'
  OBVIOUS
<1>2. keys \in Families /\ IsTree(node, root)
  BY <1>1 DEF ArtInv
<1>3. ASSUME NEW k \in keys, NEW v \in Values, kvspaceShmSet(k, v) PROVE ArtInv'
  <2>1. SetStep(k, v)
    BY <1>1, <1>3, SetStepIs, Zenon
  <2>2. IsTree(node', root') /\ keys' = keys
    BY <2>1, Zenon DEF SetStep, SetTree
  <2>3. IsTree(node, root)'
    BY <2>2 DEF IsTree
  <2>. QED BY <1>2, <2>2, <2>3, Zenon DEF ArtInv
<1>4. ASSUME NEW k \in keys, kvspaceShmDel(k) PROVE ArtInv'
  <2>1. DelStep(k)
    BY <1>1, <1>4, DelStepIs, Zenon
  <2>2. IsTree(node', root') /\ keys' = keys
    BY <2>1, Zenon DEF DelStep, DelTree
  <2>3. IsTree(node, root)'
    BY <2>2 DEF IsTree
  <2>. QED BY <1>2, <2>2, <2>3, Zenon DEF ArtInv
<1>5. CASE UNCHANGED vars
  BY <1>1, <1>5 DEF ArtInv, vars, IsTree
<1>. QED BY <1>1, <1>3, <1>4, <1>5, Zenon DEF Next

\* The nodes are always a tree of labels.
THEOREM ArtTree == ASSUME Roomy PROVE Spec => []ArtInv
<1>1. Init => ArtInv
  BY ArtInit
<1>2. ArtInv /\ [Next]_vars => ArtInv'
  BY ArtNext
<1>. QED BY <1>1, <1>2, PTL DEF Spec

\* The map that Lookup shows.
Shown(ks, ns, top) == [k \in AllKeys |-> IF k \in ks THEN LookAt(ns, top, k) ELSE None]

\* Lookup is the map of what art_walk finds.
LEMMA LookupIs == Lookup = Shown(keys, node, root)
<1>. DEFINE F == Shown(keys, node, root)
<1>1. ASSUME NEW k \in AllKeys PROVE Lookup[k] = F[k]
  <2>1. CASE k \in keys
    BY <2>1 DEF Lookup, LookAt, art_find, Shown
  <2>2. CASE k \notin keys
    BY <2>2 DEF Lookup, Shown
  <2>. QED BY <2>1, <2>2
<1>2. Lookup = [k \in AllKeys |-> Lookup[k]] /\ F = [k \in AllKeys |-> F[k]]
  BY DEF Lookup, Shown
<1>. HIDE DEF F
<1>3. Lookup = F
  BY <1>1, <1>2
<1>. QED BY <1>3 DEF F

\* Members of the map.
LEMMA ShownAt ==
  ASSUME NEW ks, NEW ns, NEW top, NEW k \in AllKeys
  PROVE  Shown(ks, ns, top)[k] = IF k \in ks THEN LookAt(ns, top, k) ELSE None
BY DEF Shown

\* A set step changes the value of its key only, or nothing.
LEMMA SetShown ==
  ASSUME NEW F \in Families, NEW key \in F, NEW v \in Values, NEW ns, NEW top, NEW ns2, NEW top2,
         SetTree(ns, top, key, v, ns2, top2)
  PROVE  LET map == Shown(F, ns, top)
             map2 == Shown(F, ns2, top2)
         IN \/ map2 = map
            \/ map2[key] \in Values \ {map[key]} /\ \A j \in AllKeys \ {key} : map2[j] = map[j]
<1>. DEFINE map == Shown(F, ns, top)
            map2 == Shown(F, ns2, top2)
<1>1. F \subseteq Seq(Byte) /\ F \subseteq AllKeys
  BY KeyType
<1>2. CASE ns2 = ns /\ top2 = top
  BY <1>2, Zenon
<1>3. CASE \A k \in Seq(Byte) : LookAt(ns2, top2, k) = After(k, key, v, LookAt(ns, top, k))
  <2>1. ASSUME NEW k \in AllKeys PROVE map2[k] = IF k = key THEN v ELSE map[k]
    <3>1. /\ map2[k] = IF k \in F THEN LookAt(ns2, top2, k) ELSE None
          /\ map[k] = IF k \in F THEN LookAt(ns, top, k) ELSE None
      BY ShownAt
    <3>. HIDE DEF map, map2
    <3>2. CASE k \in F
      <4>1. LookAt(ns2, top2, k) = After(k, key, v, LookAt(ns, top, k))
        BY <1>1, <1>3, <3>2
      <4>. QED BY <3>1, <3>2, <4>1 DEF After
    <3>3. CASE k \notin F
      BY <3>1, <3>3
    <3>. QED BY <3>2, <3>3
  <2>2. map = [k \in AllKeys |-> map[k]] /\ map2 = [k \in AllKeys |-> map2[k]]
    BY DEF Shown
  <2>. HIDE DEF map, map2
  <2>3. key \in AllKeys
    BY <1>1
  <2>4. CASE map[key] = v
    <3>1. \A k \in AllKeys : map2[k] = map[k]
      BY <2>1, <2>4
    <3>2. map2 = map
      BY <2>2, <3>1
    <3>. QED BY <3>2 DEF map, map2
  <2>5. CASE map[key] # v
    <3>1. map2[key] \in Values \ {map[key]} /\ \A j \in AllKeys \ {key} : map2[j] = map[j]
      BY <2>1, <2>3, <2>5
    <3>. QED BY <3>1 DEF map, map2
  <2>. QED BY <2>4, <2>5
<1>. QED BY <1>2, <1>3, Zenon DEF SetTree

\* A delete step takes the value of its key away.
LEMMA DelShown ==
  ASSUME NEW F \in Families, NEW key \in F, NEW ns, NEW top, NEW ns2, DelTree(ns, top, key, ns2)
  PROVE  LET map == Shown(F, ns, top)
             map2 == Shown(F, ns2, top)
         IN map[key] # None /\ map2[key] = None /\ \A j \in AllKeys \ {key} : map2[j] = map[j]
<1>. DEFINE map == Shown(F, ns, top)
            map2 == Shown(F, ns2, top)
<1>1. F \subseteq Seq(Byte) /\ F \subseteq AllKeys
  BY KeyType
<1>2. /\ LookAt(ns, top, key) # None
      /\ \A k \in Seq(Byte) : LookAt(ns2, top, k) = After(k, key, None, LookAt(ns, top, k))
  BY Zenon DEF DelTree
<1>3. ASSUME NEW k \in AllKeys
      PROVE  /\ map2[k] = IF k = key THEN None ELSE map[k]
             /\ k = key => map[k] # None
  <3>1. /\ map2[k] = IF k \in F THEN LookAt(ns2, top, k) ELSE None
        /\ map[k] = IF k \in F THEN LookAt(ns, top, k) ELSE None
    BY ShownAt
  <3>. HIDE DEF map, map2
  <3>2. CASE k \in F
    <4>1. LookAt(ns2, top, k) = After(k, key, None, LookAt(ns, top, k))
      BY <1>1, <1>2, <3>2
    <4>. QED BY <1>2, <3>1, <3>2, <4>1 DEF After
  <3>3. CASE k \notin F
    BY <3>1, <3>3
  <3>. QED BY <3>2, <3>3
<1>. HIDE DEF map, map2
<1>4. map[key] # None /\ map2[key] = None /\ \A j \in AllKeys \ {key} : map2[j] = map[j]
  BY <1>1, <1>3
<1>. QED BY <1>4 DEF map, map2

\* The empty tree shows the empty map.
LEMMA MapInit == Init => Abstract!Init
<1>1. SUFFICES ASSUME Init PROVE Lookup = [k \in AllKeys |-> None]
  BY DEF Abstract!Init
<1>2. node = <<>> /\ root = 0
  BY <1>1 DEF Init
<1>3. Tree(<<>>, {}, <<>>, <<>>, 0)
  BY EmptyTree, Zenon
<1>4. ASSUME NEW k \in AllKeys PROVE Shown(keys, node, root)[k] = None
  <2>1. k \in Seq(Byte)
    BY KeyType DEF AllKeys
  <2>2. ValueOf(<<>>, {}, <<>>, k, LookAt(<<>>, 0, k))
    BY <1>3, <2>1, LookAtIs, Zenon
  <2>3. LookAt(node, root, k) = None
    BY <1>2, <2>2 DEF ValueOf
  <2>. QED BY <2>3, ShownAt
<1>5. Shown(keys, node, root) = [k \in AllKeys |-> Shown(keys, node, root)[k]]
  BY DEF Shown
<1>. QED BY <1>4, <1>5, LookupIs

\* Every step is one of the map, or changes nothing that Lookup shows.
LEMMA MapNext == ASSUME Roomy PROVE ArtInv /\ [Next]_vars => [Abstract!Next]_Lookup
<1>1. SUFFICES ASSUME ArtInv, [Next]_vars PROVE Abstract!Next \/ Lookup' = Lookup
  BY DEF Abstract!Next
<1>. DEFINE map == Lookup
<1>2. Lookup = Shown(keys, node, root) /\ Lookup' = Shown(keys', node', root')
  <2>1. Lookup = Shown(keys, node, root)
    BY LookupIs
  <2>2. (Lookup = Shown(keys, node, root))'
    BY LookupIs, PTL
  <2>. QED BY <2>1, <2>2
<1>3. keys \in Families
  BY <1>1 DEF ArtInv
<1>4. ASSUME NEW k \in keys, NEW v \in Values, kvspaceShmSet(k, v) PROVE Abstract!Next \/ Lookup' = Lookup
  <2>1. SetTree(node, root, k, v, node', root') /\ keys' = keys
    BY <1>1, <1>4, SetStepIs, Zenon DEF SetStep
  <2>2. \/ Lookup' = Lookup
        \/ Lookup'[k] \in Values \ {Lookup[k]} /\ \A j \in AllKeys \ {k} : Lookup'[j] = Lookup[j]
    BY <1>2, <1>3, <2>1, SetShown
  <2>3. k \in AllKeys
    BY <1>3, KeyType
  <2>. QED BY <2>2, <2>3 DEF Abstract!Next, Abstract!kvspaceShmSet, Abstract!OthersUnchanged
<1>5. ASSUME NEW k \in keys, kvspaceShmDel(k) PROVE Abstract!Next \/ Lookup' = Lookup
  <2>1. DelTree(node, root, k, node') /\ root' = root /\ keys' = keys
    BY <1>1, <1>5, DelStepIs, Zenon DEF DelStep
  <2>2. Lookup[k] # None /\ Lookup'[k] = None /\ \A j \in AllKeys \ {k} : Lookup'[j] = Lookup[j]
    BY <1>2, <1>3, <2>1, DelShown
  <2>3. k \in AllKeys
    BY <1>3, KeyType
  <2>. QED BY <2>2, <2>3 DEF Abstract!Next, Abstract!kvspaceShmDel, Abstract!OthersUnchanged
<1>6. CASE UNCHANGED vars
  <2>1. keys' = keys /\ node' = node /\ root' = root
    BY <1>6 DEF vars
  <2>. QED BY <1>2, <2>1
<1>. QED BY <1>1, <1>4, <1>5, <1>6, Zenon DEF Next

\* The index is a map: Art implements KvMap.
THEOREM ArtIsMap == ASSUME Roomy PROVE Spec => IsMap
<1>1. Init => Abstract!Init
  BY MapInit
<1>2. ArtInv /\ [Next]_vars => [Abstract!Next]_Lookup
  BY MapNext
<1>3. Spec => []ArtInv
  BY ArtTree
<1>. QED BY <1>1, <1>2, <1>3, PTL DEF Spec, IsMap, Abstract!Spec

------------------------------------------------------------------------------
(* Traversals *)

\* What a traversal gathers at a place: what is there and what is gathered next.
Gathers(D, own, next, f) == \A x \in D : f[x] = own[x] \union UNION {f[y] : y \in next[x]}
GatherEnds(D, own, next) == \E f : Gathers(D, own, next, f)

\* A set of places that a traversal does not leave, and the least one with x.
Closed(D, next, C) == \A x \in D : x \in C => next[x] \subseteq C
Reach(D, next, x) == {y \in D : \A C \in SUBSET D : x \in C /\ Closed(D, next, C) => y \in C}

\* What can be reached: the place itself and what can be reached from the next ones.
LEMMA ReachStep ==
  ASSUME NEW D, NEW next, \A x \in D : next[x] \subseteq D, NEW x \in D
  PROVE  /\ x \in Reach(D, next, x)
         /\ \A y \in next[x] : Reach(D, next, y) \subseteq Reach(D, next, x)
         /\ \A z \in Reach(D, next, x) : z = x \/ \E y \in next[x] : z \in Reach(D, next, y)
<1>1. x \in Reach(D, next, x)
  BY Zenon DEF Reach
<1>2. ASSUME NEW y \in next[x], NEW z \in Reach(D, next, y) PROVE z \in Reach(D, next, x)
  <2>1. SUFFICES ASSUME NEW C \in SUBSET D, x \in C, Closed(D, next, C) PROVE z \in C
    BY <1>2, Zenon DEF Reach
  <2>2. y \in C
    BY <2>1, Zenon DEF Closed
  <2>. QED BY <1>2, <2>1, <2>2, Zenon DEF Reach
<1>3. ASSUME NEW z \in Reach(D, next, x) PROVE z = x \/ \E y \in next[x] : z \in Reach(D, next, y)
  <2>. DEFINE C == {w \in D : w = x \/ \E y \in next[x] : w \in Reach(D, next, y)}
  <2>1. ASSUME NEW y \in next[x] PROVE y \in Reach(D, next, y)
    BY Zenon DEF Reach
  <2>2. ASSUME NEW w \in D, w \in C, NEW u \in next[w] PROVE u \in C
    <3>1. u \in D
      BY <2>2, Zenon
    <3>2. CASE w = x
      BY <2>1, <2>2, <3>1, <3>2, Zenon
    <3>3. CASE w # x
      <4>1. PICK y \in next[x] : w \in Reach(D, next, y)
        BY <2>2, <3>3, Zenon
      <4>2. ASSUME NEW B \in SUBSET D, y \in B, Closed(D, next, B) PROVE u \in B
        <5>1. w \in B
          BY <4>1, <4>2, Zenon DEF Reach
        <5>. QED BY <2>2, <4>2, <5>1, Zenon DEF Closed
      <4>3. u \in Reach(D, next, y)
        BY <3>1, <4>2, Zenon DEF Reach
      <4>. QED BY <3>1, <4>3, Zenon
    <3>. QED BY <3>2, <3>3, Zenon
  <2>3. C \in SUBSET D /\ x \in C
    BY Zenon
  <2>4. \A w \in C : w = x \/ \E y \in next[x] : w \in Reach(D, next, y)
    BY Zenon
  <2>. HIDE DEF C
  <2>5. Closed(D, next, C)
    BY <2>2, Zenon DEF Closed
  <2>6. z \in C
    BY <1>3, <2>3, <2>5, Zenon DEF Reach
  <2>. QED BY <2>4, <2>6, Zenon
<1>. QED BY <1>1, <1>2, <1>3, Zenon

\* A traversal has a value, whatever the nodes are linked to.
LEMMA TraversalEnds ==
  ASSUME NEW D, NEW own, NEW next, \A x \in D : next[x] \subseteq D
  PROVE  GatherEnds(D, own, next)
<1>. DEFINE f == [x \in D |-> UNION {own[y] : y \in Reach(D, next, x)}]
<1>0. \A x \in D : f[x] = UNION {own[y] : y \in Reach(D, next, x)}
  BY Zenon
<1>1. \A x \in D : \A e : e \in f[x] <=> \E y \in Reach(D, next, x) : e \in own[y]
  BY Zenon
<1>. HIDE DEF f
<1>2. ASSUME NEW x \in D
      PROVE  f[x] = own[x] \union UNION {f[y] : y \in next[x]}
  <2>1. /\ x \in Reach(D, next, x)
        /\ \A y \in next[x] : Reach(D, next, y) \subseteq Reach(D, next, x)
        /\ \A z \in Reach(D, next, x) : z = x \/ \E y \in next[x] : z \in Reach(D, next, y)
    BY ReachStep, Zenon
  <2>2. ASSUME NEW e \in f[x] PROVE e \in own[x] \/ \E y \in next[x] : e \in f[y]
    <3>1. PICK z \in Reach(D, next, x) : e \in own[z]
      BY <1>1, <2>2, Zenon
    <3>2. ASSUME NEW y \in next[x], z \in Reach(D, next, y) PROVE e \in f[y]
      BY <1>1, <3>1, <3>2, Zenon
    <3>. QED BY <2>1, <3>1, <3>2, Zenon
  <2>3. ASSUME NEW e, e \in own[x] \/ \E y \in next[x] : e \in f[y] PROVE e \in f[x]
    <3>1. ASSUME NEW y \in next[x], e \in f[y] PROVE e \in f[x]
      BY <1>1, <2>1, <3>1, Zenon
    <3>. QED BY <1>1, <2>1, <2>3, <3>1, Zenon
  <2>4. \A e : e \in f[x] <=> e \in own[x] \/ \E y \in next[x] : e \in f[y]
    BY <2>2, <2>3, Zenon
  <2>5. \A e : e \in UNION {f[y] : y \in next[x]} <=> \E y \in next[x] : e \in f[y]
    BY Zenon
  <2>. DEFINE U == UNION {f[y] : y \in next[x]}
  <2>. HIDE DEF U
  <2>6. \A e : e \in U <=> \E y \in next[x] : e \in f[y]
    BY <2>5, Zenon DEF U
  <2>7. f[x] = own[x] \union U
    BY <2>4, <2>6
  <2>. QED BY <2>7 DEF U
<1>. QED BY <1>2, Zenon DEF GatherEnds, Gathers

\* The place of a node in a traversal, the bytes a place stands for, and the places
\* after it.
Place(lab, st, x) == <<x, SubSeq(lab[x], 1, st[x])>>
HereAt(ns, at) == at[2] \o ns[at[1]].prefix
Onward(ns, at) ==
  {<<ns[at[1]].kids[i][2], Append(HereAt(ns, at), ns[at[1]].kids[i][1])>> :
     i \in DOMAIN ns[at[1]].kids}
PlacesOf(ns) == (1 .. Len(ns)) \X Seq(Byte)

\* A traversal stays among the places.
LEMMA OnwardIn ==
  ASSUME NEW ns, NodesOK(ns), NEW at \in PlacesOf(ns)
  PROVE  /\ HereAt(ns, at) \in Seq(Byte) /\ Onward(ns, at) \subseteq PlacesOf(ns)
         /\ \A i \in DOMAIN ns[at[1]].kids :
              <<ns[at[1]].kids[i][2], Append(HereAt(ns, at), ns[at[1]].kids[i][1])>> \in PlacesOf(ns)
<1>1. at[1] \in 1 .. Len(ns) /\ at[2] \in Seq(Byte)
  BY DEF PlacesOf
<1>2. NodeOK(ns[at[1]], Len(ns))
  BY <1>1 DEF NodesOK
<1>3. ns[at[1]].prefix \in Seq(Byte) /\ ns[at[1]].kids \in KidSeq
  BY <1>2, NodeParts
<1>4. HereAt(ns, at) \in Seq(Byte)
  BY <1>1, <1>3 DEF HereAt
<1>5. ASSUME NEW i \in DOMAIN ns[at[1]].kids
      PROVE  <<ns[at[1]].kids[i][2], Append(HereAt(ns, at), ns[at[1]].kids[i][1])>> \in PlacesOf(ns)
  <2>1. ns[at[1]].kids[i][2] \in 1 .. Len(ns)
    BY <1>2 DEF NodeOK
  <2>2. ns[at[1]].kids[i][1] \in Byte
    BY <1>3, KidType
  <2>3. Append(HereAt(ns, at), ns[at[1]].kids[i][1]) \in Seq(Byte)
    BY <1>4, <2>2
  <2>. QED BY <2>1, <2>3 DEF PlacesOf
<1>. QED BY <1>4, <1>5, Zenon DEF Onward

\* What a node of the tree stands for.
LEMMA HereIs ==
  ASSUME NEW ns, NEW S, NEW lab, NEW st, NEW top, Tree(ns, S, lab, st, top), NEW x \in S
  PROVE  Place(lab, st, x) \in PlacesOf(ns) /\ HereAt(ns, Place(lab, st, x)) = lab[x]
<1>1. x \in 1 .. Len(ns) /\ NodeIn(ns, lab, st, x)
  BY TreeParts, TreeNode
<1>2. /\ lab[x] \in Seq(Byte) /\ Len(lab[x]) \in Nat /\ st[x] \in Nat /\ st[x] <= Len(lab[x])
      /\ ns[x].prefix \in Seq(Byte)
      /\ st[x] + Len(ns[x].prefix) = Len(lab[x]) /\ Len(ns[x].prefix) \in Nat
      /\ \A i \in 1 .. Len(ns[x].prefix) : ns[x].prefix[i] = lab[x][st[x] + i]
  BY <1>1, Zenon DEF NodeIn
<1>. DEFINE s == SubSeq(lab[x], 1, st[x])
            p == ns[x].prefix
            h == s \o p
<1>3. s \in Seq(Byte) /\ Len(s) = st[x] /\ \A i \in 1 .. st[x] : s[i] = lab[x][i]
  BY <1>2
<1>4. p \in Seq(Byte) /\ st[x] + Len(p) = Len(lab[x]) /\ Len(p) \in Nat
      /\ \A i \in 1 .. Len(p) : p[i] = lab[x][st[x] + i]
  BY <1>2
<1>. HIDE DEF s, p
<1>5. /\ h \in Seq(Byte) /\ Len(h) = Len(lab[x])
      /\ \A i \in 1 .. Len(h) : h[i] = IF i <= Len(s) THEN s[i] ELSE p[i - Len(s)]
  <2>1. h \in Seq(Byte) /\ Len(h) = Len(s) + Len(p)
    BY <1>3, <1>4
  <2>2. \A i \in 1 .. Len(s) + Len(p) : h[i] = IF i <= Len(s) THEN s[i] ELSE p[i - Len(s)]
    BY <1>3, <1>4
  <2>. HIDE DEF h
  <2>. QED BY <1>2, <1>3, <1>4, <2>1, <2>2
<1>6. ASSUME NEW i \in 1 .. Len(h) PROVE h[i] = lab[x][i]
  <2>1. CASE i <= st[x]
    BY <1>2, <1>3, <1>5, <2>1
  <2>2. CASE ~(i <= st[x])
    <3>1. i - st[x] \in 1 .. Len(p) /\ st[x] + (i - st[x]) = i
      BY <1>2, <1>4, <1>5, <2>2
    <3>2. h[i] = p[i - st[x]]
      BY <1>2, <1>3, <1>5, <2>2
    <3>. QED BY <1>4, <3>1, <3>2
  <2>. QED BY <2>1, <2>2
<1>7. h = lab[x]
  <2>. HIDE DEF h
  <2>1. Agree(h, lab[x], Len(h))
    BY <1>6 DEF Agree
  <2>. QED BY <1>2, <1>5, <2>1, SameString
<1>8. HereAt(ns, Place(lab, st, x)) = h
  BY DEF HereAt, Place, h, s, p
<1>9. Place(lab, st, x) \in PlacesOf(ns)
  BY <1>1, <1>3 DEF Place, PlacesOf, s
<1>. QED BY <1>7, <1>8, <1>9

\* c is a child of x.
IsKid(ns, x, c) == \E b \in Byte : ChOf(ns)[<<x, b>>] = c /\ c # 0

\* From a node a traversal goes to its children.
LEMMA OnwardIs ==
  ASSUME NEW ns, NEW S, NEW lab, NEW st, NEW top, Tree(ns, S, lab, st, top), NEW x \in S
  PROVE  /\ \A a \in Onward(ns, Place(lab, st, x)) : \E c \in S : IsKid(ns, x, c) /\ a = Place(lab, st, c)
         /\ \A c \in S : IsKid(ns, x, c) => Place(lab, st, c) \in Onward(ns, Place(lab, st, x))
<1>1. NodesOK(ns) /\ x \in 1 .. Len(ns) /\ NodeIn(ns, lab, st, x) /\ Branches(S, lab, st, ChOf(ns))
  BY TreeParts, TreeNode
<1>. DEFINE kids == ns[x].kids
<1>2. /\ lab[x] \in Seq(Byte) /\ Len(lab[x]) \in Nat /\ NodeOK(ns[x], Len(ns))
      /\ \A b \in Byte : ChOf(ns)[<<x, b>>] = KidOf(kids, b)
  BY <1>1, Zenon DEF NodeIn
<1>3. kids \in KidSeq /\ Distinct(kids) /\ \A i \in DOMAIN kids : kids[i][2] \in 1 .. Len(ns)
  BY <1>2 DEF NodeOK, Node
<1>4. Len(ns) \in Nat
  BY <1>1 DEF NodesOK
<1>5. Onward(ns, Place(lab, st, x)) = {<<kids[i][2], Append(lab[x], kids[i][1])>> : i \in DOMAIN kids}
  <2>1. HereAt(ns, Place(lab, st, x)) = lab[x] /\ Place(lab, st, x)[1] = x
    BY HereIs DEF Place
  <2>. QED BY <2>1, Zenon DEF Onward
<1>6. ASSUME NEW i \in DOMAIN kids
      PROVE  /\ kids[i][2] \in S /\ IsKid(ns, x, kids[i][2])
             /\ Place(lab, st, kids[i][2]) = <<kids[i][2], Append(lab[x], kids[i][1])>>
  <2>. DEFINE b == kids[i][1]
              c == kids[i][2]
  <2>1. b \in Byte /\ c \in 1 .. Len(ns) /\ KidOf(kids, b) = c
    <3>. HIDE DEF kids
    <3>. QED BY <1>3, KidType, KidFacts
  <2>. HIDE DEF b, c, kids
  <2>2. ChOf(ns)[<<x, b>>] = c /\ c # 0
    BY <1>2, <1>4, <2>1
  <2>3. c \in S /\ Branch(lab, st, x, b, c)
    BY <1>1, <2>1, <2>2 DEF Branches
  <2>4. IsKid(ns, x, c)
    BY <2>1, <2>2 DEF IsKid
  <2>5. lab[c] \in Seq(Byte) /\ Len(lab[c]) \in Nat /\ st[c] \in Nat /\ st[c] <= Len(lab[c])
    BY <2>3, TreeNode DEF NodeIn
  <2>6. PICK n \in Nat : n = Len(lab[x])
    BY <1>2
  <2>7. st[c] = n + 1 /\ Agree(lab[x], lab[c], n) /\ lab[c][n + 1] = b
    BY <2>3, <2>6 DEF Branch
  <2>8. SubSeq(lab[c], 1, st[c]) = Append(lab[x], b)
    <3>. DEFINE u == SubSeq(lab[c], 1, n + 1)
                w == Append(lab[x], b)
    <3>1. u \in Seq(Byte) /\ Len(u) = n + 1 /\ \A j \in 1 .. n + 1 : u[j] = lab[c][j]
      BY <2>5, <2>6, <2>7
    <3>2. w \in Seq(Byte) /\ Len(w) = n + 1 /\ w[n + 1] = b /\ \A j \in 1 .. n : w[j] = lab[x][j]
      BY <1>2, <2>1, <2>6
    <3>. HIDE DEF u, w
    <3>3. Agree(u, w, n + 1)
      <4>1. SUFFICES ASSUME NEW j \in 1 .. n + 1 PROVE u[j] = w[j]
        BY DEF Agree
      <4>2. CASE j = n + 1
        BY <2>6, <2>7, <3>1, <3>2, <4>2
      <4>3. CASE j # n + 1
        <5>1. j \in 1 .. n
          BY <2>6, <4>3
        <5>. QED BY <2>7, <3>1, <3>2, <5>1 DEF Agree
      <4>. QED BY <4>2, <4>3
    <3>4. u = w
      BY <3>1, <3>2, <3>3, SameString
    <3>. QED BY <2>7, <3>4 DEF u, w
  <2>9. Place(lab, st, c) = <<c, Append(lab[x], b)>>
    BY <2>8, Zenon DEF Place
  <2>. QED BY <2>3, <2>4, <2>9 DEF b, c
<1>7. ASSUME NEW c \in S, IsKid(ns, x, c)
      PROVE  \E i \in DOMAIN kids : c = kids[i][2]
  <2>1. PICK b \in Byte : ChOf(ns)[<<x, b>>] = c /\ c # 0
    BY <1>7 DEF IsKid
  <2>2. KidOf(kids, b) # 0
    BY <1>2, <2>1
  <2>. HIDE DEF kids
  <2>3. PICK i \in DOMAIN kids : kids[i][1] = b
    BY <1>3, <2>2, KidFacts
  <2>4. kids[i][2] = c
    BY <1>2, <1>3, <2>1, <2>3, KidFacts
  <2>. QED BY <2>4
<1>. HIDE DEF kids
<1>8. ASSUME NEW a \in Onward(ns, Place(lab, st, x))
      PROVE  \E c \in S : IsKid(ns, x, c) /\ a = Place(lab, st, c)
  <2>1. PICK i \in DOMAIN kids : a = <<kids[i][2], Append(lab[x], kids[i][1])>>
    BY <1>5, <1>8, Zenon
  <2>. QED BY <1>6, <2>1, Zenon
<1>9. ASSUME NEW c \in S, IsKid(ns, x, c)
      PROVE  Place(lab, st, c) \in Onward(ns, Place(lab, st, x))
  <2>1. PICK i \in DOMAIN kids : c = kids[i][2]
    BY <1>7, <1>9
  <2>2. Place(lab, st, c) = <<kids[i][2], Append(lab[x], kids[i][1])>>
    BY <1>6, <2>1, Zenon
  <2>. QED BY <1>5, <2>2, Zenon
<1>. QED BY <1>8, <1>9, Zenon

\* The nodes below x, with x.
Below(S, lab, x) == {y \in S : Within(lab[x], lab[y])}

\* Below a node is the node and what is below its children.
LEMMA BelowIs ==
  ASSUME NEW ns, NEW S, NEW lab, NEW st, NEW top, Tree(ns, S, lab, st, top), NEW x \in S
  PROVE  /\ x \in Below(S, lab, x)
         /\ \A c \in S : IsKid(ns, x, c) => Len(lab[x]) < Len(lab[c]) /\ Below(S, lab, c) \subseteq Below(S, lab, x)
         /\ \A y \in Below(S, lab, x) : y = x \/ \E c \in S : IsKid(ns, x, c) /\ y \in Below(S, lab, c)
<1>1. /\ Branches(S, lab, st, ChOf(ns)) /\ Complete(S, lab, ChOf(ns)) /\ Apart(S, lab, st) /\ OneNode(S, lab)
  BY TreeParts
<1>2. \A y \in S : lab[y] \in Seq(Byte) /\ Len(lab[y]) \in Nat /\ st[y] \in Nat /\ st[y] <= Len(lab[y])
  BY TreeNode, Zenon DEF NodeIn
<1>3. PICK n \in Nat : n = Len(lab[x])
  BY <1>2
<1>4. x \in Below(S, lab, x)
  BY <1>3 DEF Below, Within, Agree
<1>5. ASSUME NEW c \in S, IsKid(ns, x, c), NEW y \in Below(S, lab, c)
      PROVE  n < Len(lab[c]) /\ y \in Below(S, lab, x)
  <2>1. PICK b \in Byte : ChOf(ns)[<<x, b>>] = c /\ c # 0
    BY <1>5 DEF IsKid
  <2>2. Branch(lab, st, x, b, c)
    BY <1>1, <2>1 DEF Branches
  <2>3. st[c] = n + 1 /\ Agree(lab[x], lab[c], n)
    BY <1>3, <2>2 DEF Branch
  <2>4. y \in S /\ Len(lab[c]) <= Len(lab[y]) /\ Agree(lab[c], lab[y], Len(lab[c]))
    BY <1>5 DEF Below, Within
  <2>5. n < Len(lab[c]) /\ Len(lab[c]) \in Nat /\ Len(lab[y]) \in Nat
    BY <1>2, <2>3, <2>4
  <2>6. Agree(lab[c], lab[y], n)
    BY <2>4, <2>5, AgreeFacts
  <2>7. Agree(lab[x], lab[y], n)
    BY <2>3, <2>6, AgreeFacts
  <2>. QED BY <1>3, <2>4, <2>5, <2>7 DEF Below, Within
<1>6. ASSUME NEW c \in S, IsKid(ns, x, c) PROVE c \in Below(S, lab, c)
  <2>1. Len(lab[c]) \in Nat
    BY <1>2
  <2>. QED BY <2>1 DEF Below, Within, Agree
<1>7. ASSUME NEW y \in Below(S, lab, x), y # x
      PROVE  \E c \in S : IsKid(ns, x, c) /\ y \in Below(S, lab, c)
  <2>1. y \in S /\ n <= Len(lab[y]) /\ Agree(lab[x], lab[y], n) /\ Len(lab[y]) \in Nat
    BY <1>2, <1>3, <1>7 DEF Below, Within
  <2>2. n # Len(lab[y])
    <3>1. SUFFICES ASSUME n = Len(lab[y]) PROVE FALSE
      OBVIOUS
    <3>2. lab[x] = lab[y]
      BY <1>2, <1>3, <2>1, <3>1, SameString
    <3>. QED BY <1>1, <1>7, <2>1, <3>2 DEF OneNode
  <2>3. n < Len(lab[y]) /\ n + 1 \in 1 .. Len(lab[y])
    BY <2>1, <2>2
  <2>. DEFINE b == lab[y][n + 1]
              c == ChOf(ns)[<<x, b>>]
  <2>4. b \in Byte
    BY <1>2, <2>1, <2>3
  <2>5. c # 0
    BY <1>1, <1>3, <2>1, <2>3 DEF Complete
  <2>. HIDE DEF b
  <2>6. c \in S /\ Branch(lab, st, x, b, c)
    BY <1>1, <2>4, <2>5 DEF Branches
  <2>. HIDE DEF c
  <2>7. st[c] = n + 1 /\ Agree(lab[x], lab[c], n) /\ lab[c][n + 1] = lab[y][n + 1]
    BY <1>3, <2>6 DEF Branch, b
  <2>8. Agree(lab[c], lab[y], n)
    BY <2>1, <2>7, AgreeFacts
  <2>9. Agree(lab[c], lab[y], n + 1)
    BY <2>7, <2>8, AgreeFacts
  <2>10. st[c] <= Len(lab[y]) /\ Agree(lab[c], lab[y], st[c])
    BY <2>1, <2>3, <2>7, <2>9
  <2>11. Within(lab[c], lab[y])
    BY <1>1, <2>1, <2>6, <2>10 DEF Apart
  <2>12. IsKid(ns, x, c)
    BY <2>4, <2>5 DEF IsKid, c
  <2>. QED BY <2>1, <2>6, <2>11, <2>12 DEF Below
<1>. QED BY <1>3, <1>4, <1>5, <1>6, <1>7, Zenon

\* The nodes with longer labels.
Longer(S, lab, x) == {y \in S : Len(lab[x]) < Len(lab[y])}

\* Fewer labels are longer than a longer label.
LEMMA LongerLess ==
  ASSUME NEW S, IsFiniteSet(S), NEW lab, \A y \in S : Len(lab[y]) \in Nat,
         NEW x \in S, NEW c \in S, Len(lab[x]) < Len(lab[c])
  PROVE  /\ Cardinality(Longer(S, lab, c)) < Cardinality(Longer(S, lab, x))
         /\ Cardinality(Longer(S, lab, x)) \in Nat /\ Cardinality(Longer(S, lab, c)) \in Nat
<1>. DEFINE A == Longer(S, lab, x)
            B == Longer(S, lab, c)
<1>1. A \subseteq S /\ B \subseteq A /\ c \in A /\ c \notin B
  BY DEF Longer
<1>. HIDE DEF A, B
<1>2. IsFiniteSet(A) /\ IsFiniteSet(B)
  BY <1>1, FS_Subset
<1>3. Cardinality(B) <= Cardinality(A) /\ Cardinality(A) \in Nat /\ Cardinality(B) \in Nat
  BY <1>1, <1>2, FS_Subset, FS_CardinalityType
<1>4. Cardinality(B) # Cardinality(A)
  BY <1>1, <1>2, FS_Subset
<1>. QED BY <1>3, <1>4 DEF A, B

\* f at the place of x is what own says of the nodes below x.
Gathered(S, lab, st, own, f, x) ==
  f[Place(lab, st, x)] = UNION {own[Place(lab, st, y)] : y \in Below(S, lab, x)}

\* A traversal from a node of the tree visits the nodes below it.
LEMMA GatherTree ==
  ASSUME NEW ns, NEW S, NEW lab, NEW st, NEW top, Tree(ns, S, lab, st, top), NEW own, NEW f,
         NEW next, next = [at \in PlacesOf(ns) |-> Onward(ns, at)], Gathers(PlacesOf(ns), own, next, f)
  PROVE  \A x \in S : Gathered(S, lab, st, own, f, x)
<1>. DEFINE Good(x) == Gathered(S, lab, st, own, f, x)
            T == {Cardinality(Longer(S, lab, x)) : x \in {x \in S : ~Good(x)}}
<1>1. IsFiniteSet(S) /\ \A y \in S : Len(lab[y]) \in Nat
  <2>1. S \subseteq 1 .. Len(ns) /\ Len(ns) \in Nat
    BY TreeParts
  <2>2. IsFiniteSet(1 .. Len(ns))
    BY <2>1, FS_Interval
  <2>3. IsFiniteSet(S)
    BY <2>1, <2>2, FS_Subset
  <2>4. \A y \in S : Len(lab[y]) \in Nat
    BY TreeNode, Zenon DEF NodeIn
  <2>. QED BY <2>3, <2>4
<1>2. T \subseteq Nat
  <2>1. ASSUME NEW x \in S PROVE Cardinality(Longer(S, lab, x)) \in Nat
    <3>1. Longer(S, lab, x) \subseteq S
      BY DEF Longer
    <3>. QED BY <1>1, <3>1, FS_Subset, FS_CardinalityType
  <2>. HIDE DEF Good
  <2>. QED BY <2>1
<1>3. T = {}
  <2>1. SUFFICES ASSUME T # {} PROVE FALSE
    OBVIOUS
  <2>2. PICK m \in T : \A j \in T : m <= j
    <3>. HIDE DEF T
    <3>. QED BY <1>2, <2>1, Least
  <2>3. PICK x \in S : ~Good(x) /\ m = Cardinality(Longer(S, lab, x))
    <3>. HIDE DEF Good
    <3>. QED BY <2>2
  <2>4. ASSUME NEW c \in S, IsKid(ns, x, c) PROVE Good(c)
    <3>1. Len(lab[x]) < Len(lab[c])
      BY <2>4, BelowIs, Zenon
    <3>2. Cardinality(Longer(S, lab, c)) < m /\ Cardinality(Longer(S, lab, c)) \in Nat /\ m \in Nat
      BY <1>1, <2>3, <3>1, LongerLess, Zenon
    <3>3. Cardinality(Longer(S, lab, c)) \notin T
      <4>. HIDE DEF T
      <4>. QED BY <2>2, <3>2
    <3>. HIDE DEF Good
    <3>. QED BY <3>3
  <2>. DEFINE P == Place(lab, st, x)
              N == Onward(ns, P)
              U == UNION {own[Place(lab, st, y)] : y \in Below(S, lab, x)}
  <2>5. f[P] = own[P] \union UNION {f[a] : a \in N}
    <3>1. P \in PlacesOf(ns)
      BY HereIs
    <3>2. next[P] = N
      BY <3>1, Zenon
    <3>3. f[P] = own[P] \union UNION {f[a] : a \in next[P]}
      BY <3>1, Zenon DEF Gathers
    <3>. QED BY <3>2, <3>3, Zenon
  <2>6. /\ \A a \in N : \E c \in S : IsKid(ns, x, c) /\ a = Place(lab, st, c)
        /\ \A c \in S : IsKid(ns, x, c) => Place(lab, st, c) \in N
    BY OnwardIs, Zenon
  <2>7. \A e : e \in f[P] <=> e \in own[P] \/ \E a \in N : e \in f[a]
    BY <2>5, Zenon
  <2>8. ASSUME NEW c \in S, IsKid(ns, x, c)
        PROVE  \A e : e \in f[Place(lab, st, c)] <=> \E y \in Below(S, lab, c) : e \in own[Place(lab, st, y)]
    <3>. DEFINE V == UNION {own[Place(lab, st, y)] : y \in Below(S, lab, c)}
    <3>1. f[Place(lab, st, c)] = V
      BY <2>4, <2>8, Zenon DEF Gathered
    <3>2. \A e : e \in V <=> \E y \in Below(S, lab, c) : e \in own[Place(lab, st, y)]
      BY Zenon
    <3>. HIDE DEF V
    <3>. QED BY <3>1, <3>2, Zenon
  <2>9. /\ x \in Below(S, lab, x)
        /\ \A c \in S : IsKid(ns, x, c) => Below(S, lab, c) \subseteq Below(S, lab, x)
        /\ \A y \in Below(S, lab, x) : y = x \/ \E c \in S : IsKid(ns, x, c) /\ y \in Below(S, lab, c)
    BY BelowIs, Zenon
  <2>10. ASSUME NEW e, e \in f[P] PROVE \E y \in Below(S, lab, x) : e \in own[Place(lab, st, y)]
    <3>1. CASE e \in own[P]
      BY <2>9, <3>1, Zenon
    <3>2. CASE \E a \in N : e \in f[a]
      <4>1. PICK c \in S : IsKid(ns, x, c) /\ e \in f[Place(lab, st, c)]
        BY <2>6, <3>2, Zenon
      <4>2. PICK y \in Below(S, lab, c) : e \in own[Place(lab, st, y)]
        BY <2>8, <4>1, Zenon
      <4>. QED BY <2>9, <4>1, <4>2, Zenon
    <3>. QED BY <2>7, <2>10, <3>1, <3>2, Zenon
  <2>11. ASSUME NEW y \in Below(S, lab, x), NEW e \in own[Place(lab, st, y)] PROVE e \in f[P]
    <3>1. CASE y = x
      BY <2>7, <2>11, <3>1, Zenon
    <3>2. CASE y # x
      <4>1. PICK c \in S : IsKid(ns, x, c) /\ y \in Below(S, lab, c)
        BY <2>9, <3>2, Zenon
      <4>2. e \in f[Place(lab, st, c)] /\ Place(lab, st, c) \in N
        BY <2>6, <2>8, <2>11, <4>1, Zenon
      <4>. QED BY <2>7, <4>2, Zenon
    <3>. QED BY <3>1, <3>2
  <2>12. \A e : e \in U <=> \E y \in Below(S, lab, x) : e \in own[Place(lab, st, y)]
    BY Zenon
  <2>13. \A e : e \in f[P] <=> e \in U
    BY <2>10, <2>11, <2>12, Zenon
  <2>14. f[P] = U
    <3>. HIDE DEF U, P
    <3>. QED BY <2>13
  <2>. QED BY <2>3, <2>14, Zenon DEF Gathered
<1>4. SUFFICES ASSUME NEW x \in S, ~Good(x) PROVE FALSE
  BY Zenon
<1>. HIDE DEF Good
<1>. QED BY <1>3, <1>4

\* What f has at the places after a place.
AllOf(f, N) == UNION {f[y] : y \in N}
OnwardAll(ns, f, at) ==
  UNION {f[<<ns[at[1]].kids[i][2], Append(HereAt(ns, at), ns[at[1]].kids[i][1])>>] :
           i \in DOMAIN ns[at[1]].kids}

\* f is the traversal that has own[at] at each place.
Traverses(ns, own, f) == f = [at \in PlacesOf(ns) |-> own[at] \union OnwardAll(ns, f, at)]
Traversal(ns, own) == \E f : Traverses(ns, own, f)
OnwardOf(ns) == [at \in PlacesOf(ns) |-> Onward(ns, at)]

\* The union over the places onward.
LEMMA OnwardUnion ==
  ASSUME NEW ns, NEW at, NEW f
  PROVE  OnwardAll(ns, f, at) = AllOf(f, Onward(ns, at))
<1>. DEFINE I == DOMAIN ns[at[1]].kids
            g(i) == <<ns[at[1]].kids[i][2], Append(HereAt(ns, at), ns[at[1]].kids[i][1])>>
            A == UNION {f[g(i)] : i \in I}
            B == UNION {f[y] : y \in Onward(ns, at)}
<1>1. Onward(ns, at) = {g(i) : i \in I}
  BY Zenon DEF Onward
<1>2. \A y : y \in Onward(ns, at) <=> \E i \in I : y = g(i)
  BY <1>1, Zenon
<1>3. \A e : e \in A <=> \E i \in I : e \in f[g(i)]
  <2>. HIDE DEF g, I
  <2>. QED BY Zenon
<1>4. \A e : e \in B <=> \E y \in Onward(ns, at) : e \in f[y]
  BY Zenon
<1>. HIDE DEF A, B, g, I
<1>5. \A e : e \in A <=> e \in B
  BY <1>2, <1>3, <1>4, Zenon
<1>6. A = B
  BY <1>5
<1>7. OnwardAll(ns, f, at) = A
  BY Zenon DEF OnwardAll, A, g, I
<1>8. AllOf(f, Onward(ns, at)) = B
  BY Zenon DEF AllOf, B
<1>. QED BY <1>6, <1>7, <1>8, Zenon

\* A traversal of the nodes has a value.
LEMMA TraversalIs ==
  ASSUME NEW ns, NodesOK(ns), NEW own
  PROVE  Traversal(ns, own)
<1>. DEFINE D == PlacesOf(ns)
            next == OnwardOf(ns)
            S(f, at) == OnwardAll(ns, f, at)
<1>1. \A x \in D : next[x] = Onward(ns, x)
  BY Zenon DEF OnwardOf
<1>2. \A x \in D : Onward(ns, x) \subseteq D
  BY OnwardIn, Zenon
<1>3. \A x \in D : next[x] \subseteq D
  BY <1>1, <1>2, Zenon
<1>. HIDE DEF next
<1>4. GatherEnds(D, own, next)
  BY <1>3, TraversalEnds, Zenon
<1>5. PICK g : Gathers(D, own, next, g)
  BY <1>4, Zenon DEF GatherEnds
<1>. DEFINE f == [x \in D |-> g[x]]
<1>6. ASSUME NEW x \in D PROVE f[x] = own[x] \union S(f, x)
  <2>. DEFINE A == UNION {g[y] : y \in Onward(ns, x)}
              B == AllOf(f, Onward(ns, x))
  <2>1. g[x] = own[x] \union A
    BY <1>1, <1>5, Zenon DEF Gathers
  <2>2. f[x] = g[x] /\ \A y \in Onward(ns, x) : f[y] = g[y]
    BY <1>2, Zenon
  <2>. HIDE DEF f
  <2>3. A = B
    <3>1. \A e : e \in A <=> e \in B
      BY <2>2, Zenon DEF AllOf
    <3>. HIDE DEF A, B
    <3>. QED BY <3>1
  <2>4. S(f, x) = B
    BY OnwardUnion, Zenon
  <2>. HIDE DEF A, B, S
  <2>. QED BY <2>1, <2>2, <2>3, <2>4, Zenon
<1>7. f = [x \in D |-> f[x]]
  BY Zenon
<1>. HIDE DEF f
<1>8. f = [x \in D |-> own[x] \union S(f, x)]
  <2>. HIDE DEF S, D
  <2>. QED BY <1>6, <1>7
<1>9. Traverses(ns, own, f)
  BY <1>8, Zenon DEF Traverses
<1>. QED BY <1>9, Zenon DEF Traversal

\* A traversal gathers what lies onward.
LEMMA TraversesGathers ==
  ASSUME NEW ns, NEW own, NEW f, Traverses(ns, own, f)
  PROVE  Gathers(PlacesOf(ns), own, OnwardOf(ns), f)
<1>. DEFINE S(at) == OnwardAll(ns, f, at)
<1>1. f = [at \in PlacesOf(ns) |-> own[at] \union S(at)]
  BY Zenon DEF Traverses
<1>2. ASSUME NEW at \in PlacesOf(ns)
      PROVE  f[at] = own[at] \union UNION {f[y] : y \in OnwardOf(ns)[at]}
  <2>1. f[at] = own[at] \union S(at)
    <3>. HIDE DEF S
    <3>. QED BY <1>1
  <2>2. OnwardOf(ns)[at] = Onward(ns, at)
    BY Zenon DEF OnwardOf
  <2>. DEFINE U == AllOf(f, Onward(ns, at))
  <2>3. S(at) = U
    BY OnwardUnion, Zenon
  <2>4. UNION {f[y] : y \in OnwardOf(ns)[at]} = U
    BY <2>2, Zenon DEF AllOf
  <2>. HIDE DEF S, U
  <2>. QED BY <2>1, <2>3, <2>4, Zenon
<1>. QED BY <1>2, Zenon DEF Gathers

\* What a traversal collects from the nodes below x.
Visited(S, lab, st, own, x) == UNION {own[Place(lab, st, y)] : y \in Below(S, lab, x)}
Visits(S, lab, st, own, f, x) == f[Place(lab, st, x)] = Visited(S, lab, st, own, x)

\* A traversal from a node of the tree visits the nodes below it.
LEMMA TraversalVisits ==
  ASSUME NEW ns, NEW S, NEW lab, NEW st, NEW top, Tree(ns, S, lab, st, top), NEW own, NEW f,
         Traverses(ns, own, f), NEW x \in S
  PROVE  Visits(S, lab, st, own, f, x)
<1>. DEFINE next == OnwardOf(ns)
<1>1. next = [at \in PlacesOf(ns) |-> Onward(ns, at)] /\ Gathers(PlacesOf(ns), own, next, f)
  BY TraversesGathers, Zenon DEF OnwardOf
<1>. HIDE DEF next
<1>2. \A y \in S : Gathered(S, lab, st, own, f, y)
  BY <1>1, GatherTree, Zenon
<1>. QED BY <1>2, Zenon DEF Gathered, Visited, Visits

\* Paths of any nodes.
PathsOf(ns, top) ==
  LET from[at \in (1 .. Len(ns)) \X Seq(Byte)] ==
        LET here == at[2] \o ns[at[1]].prefix
            kids == ns[at[1]].kids
        IN {<<at[1], here>>}
           \union UNION {from[<<kids[i][2], Append(here, kids[i][1])>>] : i \in DOMAIN kids}
  IN IF top = 0 THEN {} ELSE from[<<top, <<>>>>]

\* Paths is about the nodes of the store.
LEMMA PathsIs == Paths = PathsOf(node, root)
BY DEF Paths, PathsOf

\* The nodes with their labels.
Labelled(S, lab) == {<<y, lab[y]>> : y \in S}

\* The labels that have values, below x.
LiveBelow(ns, S, lab, x) == {lab[y] : y \in {y \in Below(S, lab, x) : ns[y].val # None}}

\* What Paths has at a place, and art_collect_keys.
PathOwn(ns) == [at \in PlacesOf(ns) |-> {<<at[1], HereAt(ns, at)>>}]
KeyOwn(ns) == [at \in PlacesOf(ns) |-> IF ns[at[1]].val = None THEN {} ELSE {HereAt(ns, at)}]

PathFun(ns) ==
  CHOOSE f : f = [at \in PlacesOf(ns) |-> {<<at[1], HereAt(ns, at)>>} \union OnwardAll(ns, f, at)]
KeyFun(ns) ==
  CHOOSE f : f = [at \in PlacesOf(ns) |->
                    (IF ns[at[1]].val = None THEN {} ELSE {HereAt(ns, at)}) \union OnwardAll(ns, f, at)]

\* The function of Paths is a traversal.
LEMMA PathTraverses ==
  ASSUME NEW ns, NodesOK(ns)
  PROVE  Traverses(ns, PathOwn(ns), PathFun(ns))
<1>. DEFINE D == PlacesOf(ns)
            B(f, at) == {<<at[1], HereAt(ns, at)>>} \union OnwardAll(ns, f, at)
            own == PathOwn(ns)
            C(f, at) == own[at] \union OnwardAll(ns, f, at)
<1>1. PICK g : Traverses(ns, own, g)
  BY TraversalIs, Zenon DEF Traversal
<1>2. \A f : \A at \in D : B(f, at) = C(f, at)
  BY DEF PathOwn
<1>3. g = [at \in D |-> C(g, at)]
  BY <1>1, Zenon DEF Traverses
<1>. HIDE DEF B, C, D, own
<1>4. g = [at \in D |-> B(g, at)]
  BY <1>2, <1>3
<1>. DEFINE h == CHOOSE f : f = [at \in D |-> B(f, at)]
<1>5. h = [at \in D |-> B(h, at)]
  BY <1>4
<1>. HIDE DEF h
<1>6. h = [at \in D |-> C(h, at)]
  BY <1>2, <1>5
<1>7. Traverses(ns, own, h)
  BY <1>6, Zenon DEF Traverses, C, D
<1>8. h = PathFun(ns)
  BY Zenon DEF PathFun, h, B, D
<1>. QED BY <1>7, <1>8, Zenon DEF own

\* The function of art_collect_keys is a traversal.
LEMMA KeyTraverses ==
  ASSUME NEW ns, NodesOK(ns)
  PROVE  Traverses(ns, KeyOwn(ns), KeyFun(ns))
<1>. DEFINE D == PlacesOf(ns)
            B(f, at) == (IF ns[at[1]].val = None THEN {} ELSE {HereAt(ns, at)}) \union OnwardAll(ns, f, at)
            own == KeyOwn(ns)
            C(f, at) == own[at] \union OnwardAll(ns, f, at)
<1>1. PICK g : Traverses(ns, own, g)
  BY TraversalIs, Zenon DEF Traversal
<1>2. \A f : \A at \in D : B(f, at) = C(f, at)
  BY DEF KeyOwn
<1>3. g = [at \in D |-> C(g, at)]
  BY <1>1, Zenon DEF Traverses
<1>. HIDE DEF B, C, D, own
<1>4. g = [at \in D |-> B(g, at)]
  BY <1>2, <1>3
<1>. DEFINE h == CHOOSE f : f = [at \in D |-> B(f, at)]
<1>5. h = [at \in D |-> B(h, at)]
  BY <1>4
<1>. HIDE DEF h
<1>6. h = [at \in D |-> C(h, at)]
  BY <1>2, <1>5
<1>7. Traverses(ns, own, h)
  BY <1>6, Zenon DEF Traverses, C, D
<1>8. h = KeyFun(ns)
  BY Zenon DEF KeyFun, h, B, D
<1>. QED BY <1>7, <1>8, Zenon DEF own

\* PathsOf and art_collect_keys in these words.
LEMMA FunsAre ==
  /\ \A ns, top : top = 0 => PathsOf(ns, top) = {}
  /\ \A ns, top : top # 0 => PathsOf(ns, top) = PathFun(ns)[<<top, <<>>>>]
  /\ \A x, start : art_collect_keys(x, start) = KeyFun(node)[<<x, start>>]
<1>1. \A ns, top : PathsOf(ns, top) = IF top = 0 THEN {} ELSE PathFun(ns)[<<top, <<>>>>]
  BY Zenon DEF PathsOf, PathFun, PlacesOf, HereAt, OnwardAll
<1>2. \A x, start : art_collect_keys(x, start) = KeyFun(node)[<<x, start>>]
  BY Zenon DEF art_collect_keys, KeyFun, PlacesOf, HereAt, OnwardAll
<1>3. \A ns, top : (top = 0 => PathsOf(ns, top) = {}) /\ (top # 0 => PathsOf(ns, top) = PathFun(ns)[<<top, <<>>>>])
  BY <1>1
<1>. QED BY <1>2, <1>3, Zenon

\* The top of a tree is above everything.
TopPlace(S, lab, st, top) ==
  top \in S /\ Below(S, lab, top) = S /\ Place(lab, st, top) = <<top, <<>>>>

\* The top of a tree is above everything.
LEMMA BelowTop ==
  ASSUME NEW ns, NEW S, NEW lab, NEW st, NEW top, Tree(ns, S, lab, st, top), top # 0
  PROVE  TopPlace(S, lab, st, top)
<1>1. top \in S /\ st[top] = 0 /\ Apart(S, lab, st)
  BY TreeParts, ZenonT(40) DEF Top
<1>2. \A y \in S : lab[y] \in Seq(Byte) /\ Len(lab[y]) \in Nat
  BY TreeNode, Zenon DEF NodeIn
<1>3. ASSUME NEW y \in S PROVE Within(lab[top], lab[y])
  <2>1. st[top] <= Len(lab[y]) /\ Agree(lab[top], lab[y], st[top])
    BY <1>1, <1>2 DEF Agree
  <2>. QED BY <1>1, <2>1 DEF Apart
<1>4. Below(S, lab, top) = S
  BY <1>3 DEF Below
<1>5. SubSeq(lab[top], 1, 0) = <<>>
  BY <1>1, <1>2
<1>. QED BY <1>1, <1>4, <1>5, Zenon DEF Place, TopPlace

\* Paths are the nodes of the tree with their labels.
LEMMA PathsOfTree ==
  ASSUME NEW ns, NEW S, NEW lab, NEW st, NEW top, Tree(ns, S, lab, st, top)
  PROVE  PathsOf(ns, top) = Labelled(S, lab)
<1>1. NodesOK(ns) /\ Top(S, st, top)
  BY TreeParts
<1>2. CASE top = 0
  <2>1. S = {} /\ PathsOf(ns, top) = {}
    BY <1>1, <1>2, FunsAre, Zenon DEF Top
  <2>. QED BY <2>1 DEF Labelled
<1>3. CASE top # 0
  <2>. DEFINE own == PathOwn(ns)
              f == PathFun(ns)
  <2>1. top \in S /\ Below(S, lab, top) = S /\ Place(lab, st, top) = <<top, <<>>>>
    <3>1. TopPlace(S, lab, st, top)
      BY <1>3, BelowTop, Zenon
    <3>. HIDE DEF own, f
    <3>. QED BY <3>1, Zenon DEF TopPlace
  <2>2. Traverses(ns, own, f)
    BY <1>1, PathTraverses, Zenon
  <2>3. PathsOf(ns, top) = f[Place(lab, st, top)]
    BY <1>3, <2>1, FunsAre, Zenon
  <2>4. ASSUME NEW y \in S PROVE own[Place(lab, st, y)] = {<<y, lab[y]>>}
    <3>1. /\ Place(lab, st, y) \in PlacesOf(ns) /\ HereAt(ns, Place(lab, st, y)) = lab[y]
          /\ Place(lab, st, y)[1] = y
      BY HereIs DEF Place
    <3>. QED BY <3>1, Zenon DEF PathOwn
  <2>. HIDE DEF own, f
  <2>5. f[Place(lab, st, top)] = Visited(S, lab, st, own, top)
    <3>1. Visits(S, lab, st, own, f, top)
      BY <2>1, <2>2, TraversalVisits, Zenon
    <3>. QED BY <3>1, Zenon DEF Visits
  <2>6. Visited(S, lab, st, own, top) = UNION {own[Place(lab, st, y)] : y \in S}
    BY <2>1, Zenon DEF Visited
  <2>. DEFINE V == UNION {own[Place(lab, st, y)] : y \in S}
              W == Labelled(S, lab)
  <2>7. \A e : e \in V <=> \E y \in S : e \in own[Place(lab, st, y)]
    BY Zenon
  <2>8. \A e : e \in W <=> \E y \in S : e = <<y, lab[y]>>
    BY Zenon DEF Labelled
  <2>. HIDE DEF V, W
  <2>9. \A e : e \in V <=> e \in W
    BY <2>4, <2>7, <2>8
  <2>10. V = W
    BY <2>9
  <2>. QED BY <2>3, <2>5, <2>6, <2>10, Zenon DEF V, W
<1>. QED BY <1>2, <1>3

\* art_collect_keys finds the labels with values below a node.
LEMMA CollectIs ==
  ASSUME NEW S, NEW lab, NEW st, Tree(node, S, lab, st, root), NEW x \in S
  PROVE  art_collect_keys(x, SubSeq(lab[x], 1, st[x])) = LiveBelow(node, S, lab, x)
<1>. DEFINE own == KeyOwn(node)
            f == KeyFun(node)
<1>1. NodesOK(node)
  BY TreeParts
<1>2. Traverses(node, own, f)
  BY <1>1, KeyTraverses, Zenon
<1>3. art_collect_keys(x, SubSeq(lab[x], 1, st[x])) = f[Place(lab, st, x)]
  BY FunsAre, Zenon DEF Place
<1>4. ASSUME NEW y \in S PROVE own[Place(lab, st, y)] = IF node[y].val = None THEN {} ELSE {lab[y]}
  <2>1. /\ Place(lab, st, y) \in PlacesOf(node) /\ HereAt(node, Place(lab, st, y)) = lab[y]
        /\ Place(lab, st, y)[1] = y
    BY HereIs DEF Place
  <2>. QED BY <2>1, Zenon DEF KeyOwn
<1>. HIDE DEF own, f
<1>5. f[Place(lab, st, x)] = Visited(S, lab, st, own, x)
  <2>1. Visits(S, lab, st, own, f, x)
    BY <1>2, TraversalVisits, Zenon
  <2>. QED BY <2>1, Zenon DEF Visits
<1>. DEFINE V == Visited(S, lab, st, own, x)
            W == LiveBelow(node, S, lab, x)
<1>6. \A e : e \in V <=> \E y \in Below(S, lab, x) : e \in own[Place(lab, st, y)]
  BY Zenon DEF Visited
<1>7. \A e : e \in W <=> \E y \in Below(S, lab, x) : node[y].val # None /\ e = lab[y]
  BY Zenon DEF LiveBelow
<1>8. \A y \in Below(S, lab, x) : y \in S
  BY Zenon DEF Below
<1>. HIDE DEF V, W
<1>9. \A e : e \in V <=> e \in W
  <2>1. ASSUME NEW y \in Below(S, lab, x), NEW e
        PROVE  e \in own[Place(lab, st, y)] <=> node[y].val # None /\ e = lab[y]
    BY <1>4, <1>8
  <2>2. ASSUME NEW e PROVE e \in V <=> e \in W
    <3>1. e \in V <=> \E y \in Below(S, lab, x) : e \in own[Place(lab, st, y)]
      BY <1>6, Zenon
    <3>2. e \in W <=> \E y \in Below(S, lab, x) : node[y].val # None /\ e = lab[y]
      BY <1>7, Zenon
    <3>. QED BY <2>1, <3>1, <3>2
  <2>. QED BY <2>2, Zenon
<1>10. V = W
  BY <1>9
<1>11. f[Place(lab, st, x)] = W
  BY <1>5, <1>10 DEF V
<1>12. art_collect_keys(x, SubSeq(lab[x], 1, st[x])) = W
  BY <1>3, <1>11
<1>. QED BY <1>12 DEF W

------------------------------------------------------------------------------
(* The cover of a prefix *)

\* Where art_cover gives up, and where it has found the node.
CoverMiss(ns, pfx, id, d) ==
  id = 0 \/ (Shared(ns, pfx, id, d) < Len(ns[id].prefix) /\ d + Shared(ns, pfx, id, d) < Len(pfx))
CoverHit(ns, pfx, id, d) ==
  Shared(ns, pfx, id, d) < Len(ns[id].prefix) \/ EndOf(ns, id, d) = Len(pfx)
CoverNext(ns, pfx, id, d) == <<ChildAt(ns, pfx, id, d), EndOf(ns, id, d) + 1>>
CoverFun(ns, pfx) ==
  CHOOSE f : f = [at \in (0 .. Len(ns)) \X (0 .. Len(pfx)) |->
                    IF CoverMiss(ns, pfx, at[1], at[2]) THEN [id |-> 0, depth |-> 0]
                    ELSE IF CoverHit(ns, pfx, at[1], at[2]) THEN [id |-> at[1], depth |-> at[2]]
                    ELSE f[CoverNext(ns, pfx, at[1], at[2])]]

\* art_cover in these words.
LEMMA CoverIs == \A pfx : art_cover(pfx) = CoverFun(node, pfx)[<<root, 0>>]
BY Zenon DEF art_cover, CoverFun, CoverMiss, CoverHit, CoverNext, Shared, EndOf, ChildAt

\* One step of art_cover.
CoverStep(ns, pfx, h, id, d) ==
  IF CoverMiss(ns, pfx, id, d) THEN h[<<id, d>>] = [id |-> 0, depth |-> 0]
  ELSE IF CoverHit(ns, pfx, id, d) THEN h[<<id, d>>] = [id |-> id, depth |-> d]
  ELSE h[<<id, d>>] = h[<<ChildAt(ns, pfx, id, d), EndOf(ns, id, d) + 1>>]

\* A node all of whose prefix is shared.
LEMMA CoverDown ==
  ASSUME NEW ns, NodesOK(ns), NEW pfx \in Seq(Byte), NEW id \in 0 .. Len(ns), NEW d \in 0 .. Len(pfx),
         ~CoverMiss(ns, pfx, id, d), ~CoverHit(ns, pfx, id, d)
  PROVE  /\ CoverNext(ns, pfx, id, d) \in (0 .. Len(ns)) \X (0 .. Len(pfx))
         /\ CoverNext(ns, pfx, id, d)[2] \in Nat /\ d < CoverNext(ns, pfx, id, d)[2]
<1>. DEFINE s == Shared(ns, pfx, id, d)
            e == EndOf(ns, id, d)
<1>1. id # 0 /\ ~(s < Len(ns[id].prefix)) /\ e # Len(pfx)
  BY Zenon DEF CoverMiss, CoverHit
<1>2. Len(ns) \in Nat
  BY DEF NodesOK
<1>3. id \in 1 .. Len(ns)
  BY <1>1, <1>2
<1>4. ns[id].prefix \in Seq(Byte)
  <2>1. NodeOK(ns[id], Len(ns))
    BY <1>3 DEF NodesOK
  <2>. QED BY <2>1, NodeParts
<1>5. Rest(pfx, d) \in Seq(Byte) /\ Len(Rest(pfx, d)) = Len(pfx) - d
  BY RestFacts
<1>6. s \in Nat /\ s <= Len(ns[id].prefix) /\ s <= Len(pfx) - d
  BY <1>4, <1>5, SharedFacts DEF Shared
<1>7. e = d + Len(ns[id].prefix)
  BY DEF EndOf
<1>. HIDE DEF s, e
<1>8. e < Len(pfx)
  BY <1>1, <1>4, <1>6, <1>7
<1>9. /\ e \in Nat /\ d <= e /\ e + 1 \in 0 .. Len(pfx)
      /\ art_child(ns, id, pfx[e + 1]) \in 0 .. Len(ns)
  BY <1>3, <1>7, <1>8, NextPlace
<1>10. CoverNext(ns, pfx, id, d) = <<art_child(ns, id, pfx[e + 1]), e + 1>>
  BY DEF CoverNext, ChildAt, e
<1>. QED BY <1>9, <1>10

\* art_cover goes step by step.
LEMMA CoverEq ==
  ASSUME NEW ns, NodesOK(ns), NEW pfx \in Seq(Byte)
  PROVE  \A id \in 0 .. Len(ns) : \A d \in 0 .. Len(pfx) : CoverStep(ns, pfx, CoverFun(ns, pfx), id, d)
<1>. DEFINE L == Len(ns)
            K == Len(pfx)
            D == (0 .. L) \X (0 .. K)
            miss(x) == CoverMiss(ns, pfx, x[1], x[2])
            hit(x) == CoverHit(ns, pfx, x[1], x[2])
            go(x) == CoverNext(ns, pfx, x[1], x[2])
            res(x) == IF miss(x) THEN [id |-> 0, depth |-> 0] ELSE [id |-> x[1], depth |-> x[2]]
            B(f, x) == IF miss(x) THEN [id |-> 0, depth |-> 0]
                       ELSE IF hit(x) THEN [id |-> x[1], depth |-> x[2]] ELSE f[go(x)]
            stop == {x \in D : miss(x) \/ hit(x)}
            out == [x \in D |-> res(x)]
            nxt == [x \in D |-> go(x)]
            rank == [x \in D |-> K - x[2]]
            h == CHOOSE f : f = [x \in D |-> B(f, x)]
<1>1. L \in Nat /\ K \in Nat
  BY DEF NodesOK
<1>2. ASSUME NEW x \in D
      PROVE  x[1] \in 0 .. L /\ x[2] \in 0 .. K /\ x = <<x[1], x[2]>>
  OBVIOUS
<1>3. ASSUME NEW x \in D PROVE rank[x] \in 0 .. K
  BY <1>1
<1>4. ASSUME NEW x \in D, x \notin stop
      PROVE  nxt[x] \in D /\ rank[nxt[x]] < rank[x]
  <2>1. ~miss(x) /\ ~hit(x)
    BY <1>4, Zenon
  <2>2. go(x) \in D /\ go(x)[2] \in Nat /\ x[2] < go(x)[2]
    BY <1>2, <2>1, CoverDown
  <2>3. nxt[x] = go(x)
    BY Zenon
  <2>4. rank[go(x)] = K - go(x)[2] /\ rank[x] = K - x[2]
    BY <2>2, Zenon
  <2>5. go(x)[2] \in 0 .. K
    BY <1>2, <2>2
  <2>. HIDE DEF go, rank, nxt
  <2>6. K - go(x)[2] < K - x[2]
    BY <1>1, <1>2, <2>2, <2>5
  <2>. HIDE DEF D
  <2>. QED BY <2>2, <2>3, <2>4, <2>6
<1>5. PICK g : \A x \in D : g[x] = IF x \in stop THEN out[x] ELSE g[nxt[x]]
  <2>1. \A x \in D : x \notin stop => nxt[x] \in D /\ rank[nxt[x]] < rank[x]
    BY <1>4
  <2>2. \A x \in D : rank[x] \in 0 .. K
    BY <1>3
  <2>3. K \in Nat
    BY <1>1
  <2>. HIDE DEF D, stop, out, nxt, B, h, rank, K
  <2>4. Descends(D, stop, nxt, rank, K)
    BY <2>1, <2>2, Zenon DEF Descends
  <2>5. Ends(D, stop, out, nxt)
    BY <2>3, <2>4, WalkEnds, Zenon
  <2>. QED BY <2>5, Zenon DEF Ends
<1>. DEFINE f == [x \in D |-> g[x]]
<1>6. ASSUME NEW x \in D PROVE g[x] = B(f, x)
  <2>1. x \notin stop => f[go(x)] = g[go(x)] /\ nxt[x] = go(x)
    <3>1. x \notin stop => nxt[x] \in D
      BY <1>4
    <3>2. nxt[x] = go(x)
      BY Zenon
    <3>. HIDE DEF D, stop, go, nxt
    <3>. QED BY <3>1, <3>2
  <2>2. x \in stop <=> miss(x) \/ hit(x)
    BY Zenon
  <2>3. out[x] = res(x)
    BY Zenon
  <2>4. g[x] = IF x \in stop THEN out[x] ELSE g[nxt[x]]
    BY <1>5, Zenon
  <2>. HIDE DEF stop, out, nxt, f, go, miss, hit, K
  <2>. QED BY <2>1, <2>2, <2>3, <2>4
<1>7. f = [x \in D |-> B(f, x)]
  <2>. HIDE DEF B, D, stop, out, nxt
  <2>. QED BY <1>6
<1>. HIDE DEF f
<1>8. h = [x \in D |-> B(h, x)]
  <2>. HIDE DEF B, D
  <2>. QED BY <1>7
<1>9. \A x \in D : h[x] = B(h, x)
  <2>. HIDE DEF B, D, h
  <2>. QED BY <1>8
<1>10. CoverFun(ns, pfx) = h
  BY Zenon DEF CoverFun
<1>. HIDE DEF h
<1>11. SUFFICES ASSUME NEW id \in 0 .. L, NEW d \in 0 .. K PROVE CoverStep(ns, pfx, h, id, d)
  BY <1>10, Zenon
<1>12. <<id, d>> \in D /\ <<id, d>>[1] = id /\ <<id, d>>[2] = d
  OBVIOUS
<1>13. h[<<id, d>>] = B(h, <<id, d>>)
  <2>. HIDE DEF B, D
  <2>. QED BY <1>9, <1>12
<1>14. B(h, <<id, d>>) = IF CoverMiss(ns, pfx, id, d) THEN [id |-> 0, depth |-> 0]
                         ELSE IF CoverHit(ns, pfx, id, d) THEN [id |-> id, depth |-> d]
                         ELSE h[CoverNext(ns, pfx, id, d)]
  BY <1>12, Zenon
<1>. HIDE DEF B, D
<1>. QED BY <1>13, <1>14, Zenon DEF CoverStep, CoverNext

\* c is the place of a node that starts within the prefix and ends after it, and
\* there is none when no label has the prefix.
Covers(S, lab, st, pfx, c) ==
  \/ c.id = 0 /\ \A y \in S : ~Within(pfx, lab[y])
  \/ c.id \in S /\ c.depth = st[c.id] /\ At(S, lab, st, pfx, c.id) /\ Within(pfx, lab[c.id])

\* When the bytes of a node leave the prefix, no label has the prefix.
LEMMA LeftOut ==
  ASSUME NEW ns, NEW S, NEW lab, NEW st, NEW top, Tree(ns, S, lab, st, top),
         NEW pfx \in Seq(Byte), NEW x, At(S, lab, st, pfx, x), NEW s, SharesAt(ns, lab, st, pfx, x, s),
         s < Len(ns[x].prefix), st[x] + s < Len(pfx), NEW y \in S
  PROVE  ~Within(pfx, lab[y])
<1>1. SUFFICES ASSUME Within(pfx, lab[y]) PROVE FALSE
  OBVIOUS
<1>2. x \in S /\ st[x] <= Len(pfx) /\ Agree(lab[x], pfx, st[x])
  BY Zenon DEF At
<1>3. /\ Len(lab[x]) \in Nat /\ st[x] \in Nat /\ Len(lab[y]) \in Nat
      /\ st[x] + Len(ns[x].prefix) = Len(lab[x]) /\ Len(ns[x].prefix) \in Nat
  <2>1. NodeIn(ns, lab, st, x) /\ NodeIn(ns, lab, st, y)
    BY <1>2, TreeNode, Zenon
  <2>. QED BY <2>1, Zenon DEF NodeIn
<1>4a. PICK d \in Nat : d = st[x]
  BY <1>3
<1>4b. PICK n \in Nat : n = Len(lab[x])
  BY <1>3
<1>4c. PICK k \in Nat : k = Len(pfx)
  OBVIOUS
<1>4. d = st[x] /\ n = Len(lab[x]) /\ k = Len(pfx)
  BY <1>4a, <1>4b, <1>4c
<1>5. s \in Nat /\ d + s < n /\ d + s < k /\ lab[x][d + s + 1] # pfx[d + s + 1]
  BY <1>3, <1>4 DEF SharesAt
<1>6. Agree(pfx, lab[y], k) /\ k <= Len(lab[y])
  BY <1>1, <1>4 DEF Within
<1>7. Agree(pfx, lab[y], d) /\ pfx[d + s + 1] = lab[y][d + s + 1]
  BY <1>5, <1>6 DEF Agree
<1>8. Agree(lab[x], lab[y], st[x]) /\ st[x] <= Len(lab[y])
  BY <1>2, <1>3, <1>4, <1>5, <1>6, <1>7 DEF Agree
<1>9. Apart(S, lab, st)
  BY TreeParts
<1>10. Agree(lab[x], lab[y], n)
  BY <1>2, <1>4, <1>8, <1>9 DEF Apart, Within
<1>11. lab[x][d + s + 1] = lab[y][d + s + 1]
  BY <1>5, <1>10 DEF Agree
<1>. QED BY <1>5, <1>7, <1>11

\* art_cover finds the node that covers the prefix.
LEMMA CoverFinds ==
  ASSUME NEW ns, NEW S, NEW lab, NEW st, NEW top, Tree(ns, S, lab, st, top), NEW pfx \in Seq(Byte)
  PROVE  \A x \in S : At(S, lab, st, pfx, x) => Covers(S, lab, st, pfx, CoverFun(ns, pfx)[<<x, st[x]>>])
<1>. DEFINE K == Len(pfx)
            h == CoverFun(ns, pfx)
            Good(x) == Covers(S, lab, st, pfx, h[<<x, st[x]>>])
            T == {K - st[x] : x \in {x \in S : At(S, lab, st, pfx, x) /\ ~Good(x)}}
<1>1. K \in Nat /\ NodesOK(ns) /\ \A x \in S : x \in 1 .. Len(ns)
  BY TreeParts
<1>2. \A x \in S : At(S, lab, st, pfx, x) => st[x] \in 0 .. K
  BY TreeNode DEF At, NodeIn
<1>0. \A id \in 0 .. Len(ns) : \A d \in 0 .. Len(pfx) : CoverStep(ns, pfx, h, id, d)
  BY <1>1, CoverEq, Zenon
<1>. HIDE DEF h
<1>3. T = {}
  <2>1. SUFFICES ASSUME T # {} PROVE FALSE
    OBVIOUS
  <2>2. T \subseteq Nat
    <3>. HIDE DEF Good
    <3>. QED BY <1>1, <1>2
  <2>3. PICK m \in T : \A j \in T : m <= j
    <3>. HIDE DEF T
    <3>. QED BY <2>1, <2>2, Least
  <2>4. PICK x \in S : At(S, lab, st, pfx, x) /\ ~Good(x) /\ m = K - st[x]
    <3>. HIDE DEF Good
    <3>. QED BY <2>3
  <2>5. ASSUME NEW y \in S, At(S, lab, st, pfx, y), st[x] < st[y] PROVE Good(y)
    <3>1. K - st[y] < m /\ K - st[y] \in Nat /\ m \in Nat
      BY <1>1, <1>2, <2>4, <2>5
    <3>2. K - st[y] \notin T
      <4>. HIDE DEF T
      <4>. QED BY <2>3, <3>1
    <3>. HIDE DEF Good
    <3>. QED BY <2>5, <3>2
  <2>6. /\ x \in 1 .. Len(ns) /\ x # 0 /\ st[x] \in 0 .. K /\ Agree(lab[x], pfx, st[x]) /\ st[x] <= K
        /\ x \in 0 .. Len(ns)
    BY <1>1, <1>2, <2>4 DEF At
  <2>7. /\ lab[x] \in Seq(Byte) /\ Len(lab[x]) \in Nat /\ st[x] \in Nat /\ st[x] <= Len(lab[x])
        /\ st[x] + Len(ns[x].prefix) = Len(lab[x]) /\ Len(ns[x].prefix) \in Nat
    <3>1. NodeIn(ns, lab, st, x)
      BY TreeNode, Zenon
    <3>. QED BY <3>1, Zenon DEF NodeIn
  <2>. DEFINE s == Shared(ns, pfx, x, st[x])
              r == h[<<x, st[x]>>]
  <2>8. SharesAt(ns, lab, st, pfx, x, s)
    BY <2>4, SharedIs, Zenon
  <2>9. /\ s \in Nat /\ s <= Len(ns[x].prefix) /\ st[x] + s <= K /\ Agree(lab[x], pfx, st[x] + s)
        /\ s < Len(ns[x].prefix) <=> ~Within(lab[x], pfx)
    BY <2>8, Zenon DEF SharesAt
  <2>10. CoverStep(ns, pfx, h, x, st[x])
    BY <1>0, <2>6, Zenon
  <2>11. EndOf(ns, x, st[x]) = Len(lab[x]) /\ ChildAt(ns, pfx, x, st[x]) = art_child(ns, x, pfx[Len(lab[x]) + 1])
    BY <2>7 DEF EndOf, ChildAt
  <2>12. CoverMiss(ns, pfx, x, st[x]) <=> s < Len(ns[x].prefix) /\ st[x] + s < K
    BY <2>6, Zenon DEF CoverMiss
  <2>13. CoverHit(ns, pfx, x, st[x]) <=> s < Len(ns[x].prefix) \/ Len(lab[x]) = K
    BY <2>11 DEF CoverHit
  <2>. HIDE DEF s
  <2>14. CASE s < Len(ns[x].prefix) /\ st[x] + s < K
    <3>1. r = [id |-> 0, depth |-> 0]
      BY <2>10, <2>12, <2>14, Zenon DEF CoverStep
    <3>2. \A y \in S : ~Within(pfx, lab[y])
      BY <2>4, <2>8, <2>14, LeftOut
    <3>. HIDE DEF r
    <3>3. r.id = 0
      BY <3>1
    <3>4. Covers(S, lab, st, pfx, r)
      BY <3>2, <3>3, Zenon DEF Covers
    <3>. QED BY <2>4, <3>4 DEF r
  <2>15. CASE (s < Len(ns[x].prefix) /\ ~(st[x] + s < K)) \/ (~(s < Len(ns[x].prefix)) /\ Len(lab[x]) = K)
    <3>1. ~CoverMiss(ns, pfx, x, st[x]) /\ CoverHit(ns, pfx, x, st[x])
      BY <2>12, <2>13, <2>15, Zenon
    <3>2. r = [id |-> x, depth |-> st[x]]
      BY <2>10, <3>1, Zenon DEF CoverStep
    <3>3. K <= Len(lab[x]) /\ Agree(lab[x], pfx, K)
      BY <1>1, <2>6, <2>7, <2>9, <2>15 DEF Agree, Within
    <3>4. Within(pfx, lab[x])
      BY <3>3 DEF Within, Agree
    <3>. HIDE DEF r
    <3>5. r.id = x /\ r.depth = st[x]
      BY <3>2
    <3>6. Covers(S, lab, st, pfx, r)
      BY <2>4, <3>4, <3>5, Zenon DEF Covers
    <3>. QED BY <2>4, <3>6 DEF r
  <2>16. CASE ~(s < Len(ns[x].prefix)) /\ Len(lab[x]) # K
    <3>. DEFINE c == art_child(ns, x, pfx[Len(lab[x]) + 1])
    <3>0. Within(lab[x], pfx)
      BY <2>9, <2>16, Zenon
    <3>1. Len(lab[x]) < K
      BY <1>1, <2>7, <2>16, <3>0 DEF Within
    <3>2. ~CoverMiss(ns, pfx, x, st[x]) /\ ~CoverHit(ns, pfx, x, st[x])
      BY <2>12, <2>13, <2>16, Zenon
    <3>3. r = h[<<c, Len(lab[x]) + 1>>]
      BY <2>10, <2>11, <3>2, Zenon DEF CoverStep
    <3>4. /\ c \in 0 .. Len(ns)
          /\ c # 0 => At(S, lab, st, pfx, c) /\ st[c] = Len(lab[x]) + 1
          /\ c = 0 => \A y \in S : ~(Len(lab[x]) < Len(lab[y]) /\ Agree(lab[y], pfx, Len(lab[x]) + 1))
      <4>. HIDE DEF c
      <4>1. Within(lab[x], pfx) /\ Len(lab[x]) < Len(pfx) /\ c = art_child(ns, x, pfx[Len(lab[x]) + 1])
        BY <3>0, <3>1, Zenon DEF c
      <4>2. OnTo(ns, S, lab, st, pfx, x, c)
        BY <4>1, GoesOn, Zenon
      <4>. QED BY <4>2, Zenon DEF OnTo
    <3>. HIDE DEF c, r
    <3>5. CASE c = 0
      <4>1. Len(lab[x]) + 1 \in 0 .. K /\ 0 \in 0 .. Len(ns)
        BY <1>1, <2>7, <3>1, <3>4
      <4>2. CoverStep(ns, pfx, h, 0, Len(lab[x]) + 1)
        BY <1>0, <4>1, Zenon
      <4>3. r = [id |-> 0, depth |-> 0]
        BY <3>3, <3>5, <4>2, Zenon DEF CoverStep, CoverMiss
      <4>4. r.id = 0
        BY <4>3
      <4>5. ASSUME NEW y \in S, Within(pfx, lab[y]) PROVE FALSE
        <5>1. Agree(pfx, lab[y], K) /\ K <= Len(lab[y]) /\ Len(lab[y]) \in Nat
          <6>1. NodeIn(ns, lab, st, y)
            BY TreeNode, Zenon
          <6>. QED BY <4>5, <6>1, Zenon DEF Within, NodeIn
        <5>2. Len(lab[x]) < Len(lab[y])
          BY <1>1, <2>7, <3>1, <5>1
        <5>3. Agree(lab[y], pfx, Len(lab[x]) + 1)
          BY <1>1, <2>7, <3>1, <5>1 DEF Agree
        <5>. QED BY <3>4, <3>5, <5>2, <5>3, Zenon
      <4>6. Covers(S, lab, st, pfx, r)
        BY <4>4, <4>5, Zenon DEF Covers
      <4>. QED BY <2>4, <4>6 DEF r
    <3>6. CASE c # 0
      <4>1. c \in S /\ At(S, lab, st, pfx, c) /\ st[c] = Len(lab[x]) + 1 /\ st[x] < st[c]
        BY <2>7, <3>4, <3>6 DEF At
      <4>2. Good(c)
        BY <2>5, <4>1
      <4>3. Covers(S, lab, st, pfx, r)
        BY <3>3, <4>1, <4>2
      <4>. QED BY <2>4, <4>3 DEF r
    <3>. QED BY <3>5, <3>6
  <2>. QED BY <2>14, <2>15, <2>16, Zenon
<1>4. SUFFICES ASSUME NEW x \in S, At(S, lab, st, pfx, x), ~Good(x) PROVE FALSE
  BY Zenon DEF h
<1>. HIDE DEF Good
<1>. QED BY <1>3, <1>4

\* art_cover from the root.
LEMMA CoverOfTree ==
  ASSUME NEW S, NEW lab, NEW st, Tree(node, S, lab, st, root), NEW pfx \in Seq(Byte)
  PROVE  Covers(S, lab, st, pfx, art_cover(pfx))
<1>1. NodesOK(node) /\ Len(node) \in Nat /\ Top(S, st, root)
  BY TreeParts
<1>. DEFINE h == CoverFun(node, pfx)
            c == art_cover(pfx)
<1>2. c = h[<<root, 0>>]
  BY CoverIs, Zenon
<1>3. CASE root = 0
  <2>1. 0 \in 0 .. Len(node) /\ 0 \in 0 .. Len(pfx)
    BY <1>1
  <2>2. CoverStep(node, pfx, h, 0, 0)
    BY <1>1, <2>1, CoverEq, Zenon
  <2>. HIDE DEF h, c
  <2>3. c = [id |-> 0, depth |-> 0]
    BY <1>2, <1>3, <2>2, Zenon DEF CoverStep, CoverMiss
  <2>4. c.id = 0
    BY <2>3
  <2>5. S = {}
    BY <1>1, <1>3, Zenon DEF Top
  <2>. QED BY <2>4, <2>5, Zenon DEF Covers, c
<1>4. CASE root # 0
  <2>1. root \in S /\ st[root] = 0
    BY <1>1, <1>4, Zenon DEF Top
  <2>2. At(S, lab, st, pfx, root)
    BY <2>1, AgreeFacts DEF At
  <2>3. Covers(S, lab, st, pfx, h[<<root, st[root]>>])
    BY <2>1, <2>2, CoverFinds, Zenon
  <2>. QED BY <1>2, <2>1, <2>3
<1>. QED BY <1>3, <1>4

\* Only keys in use have values.
OnlyKeys(ks, ns, top) == \A k \in Seq(Byte) : LookAt(ns, top, k) # None => k \in ks

ScanInv == ArtInv /\ OnlyKeys(keys, node, root)

\* The empty tree has no values.
LEMMA ScanInit == Init => ScanInv
<1>1. SUFFICES ASSUME Init PROVE ScanInv
  OBVIOUS
<1>2. node = <<>> /\ root = 0 /\ ArtInv
  BY <1>1, ArtInit DEF Init
<1>3. Tree(<<>>, {}, <<>>, <<>>, 0)
  BY EmptyTree, Zenon
<1>4. ASSUME NEW k \in Seq(Byte) PROVE LookAt(node, root, k) = None
  <2>1. ValueOf(<<>>, {}, <<>>, k, LookAt(<<>>, 0, k))
    BY <1>3, LookAtIs, Zenon
  <2>. QED BY <1>2, <2>1 DEF ValueOf
<1>. QED BY <1>2, <1>4, Zenon DEF ScanInv, OnlyKeys

\* A step gives a value to a key in use only.
LEMMA ScanNext == Roomy /\ ScanInv /\ [Next]_vars => ScanInv'
<1>1. SUFFICES ASSUME Roomy, ScanInv, [Next]_vars PROVE ScanInv'
  OBVIOUS
<1>2. ArtInv /\ ArtInv' /\ \A k \in Seq(Byte) : LookAt(node, root, k) # None => k \in keys
  <2>1. ArtInv /\ OnlyKeys(keys, node, root)
    BY <1>1, Zenon DEF ScanInv
  <2>2. ArtInv'
    BY <1>1, <2>1, ArtNext, Zenon
  <2>. QED BY <2>1, <2>2, Zenon DEF OnlyKeys
<1>3. SUFFICES ASSUME NEW k \in Seq(Byte), LookAt(node', root', k) # None PROVE k \in keys'
  <2>1. OnlyKeys(keys', node', root')
    BY <1>3, Zenon DEF OnlyKeys
  <2>2. OnlyKeys(keys, node, root)'
    BY <2>1 DEF OnlyKeys, LookAt
  <2>. QED BY <1>2, <2>2, Zenon DEF ScanInv
<1>4. ASSUME NEW j \in keys, NEW v \in Values, kvspaceShmSet(j, v) PROVE k \in keys'
  <2>1. SetTree(node, root, j, v, node', root') /\ keys' = keys
    BY <1>1, <1>2, <1>4, SetStepIs, Zenon DEF SetStep
  <2>2. CASE \A i \in Seq(Byte) : LookAt(node', root', i) = After(i, j, v, LookAt(node, root, i))
    <3>1. LookAt(node', root', k) = IF k = j THEN v ELSE LookAt(node, root, k)
      BY <2>2, Zenon DEF After
    <3>. QED BY <1>2, <1>3, <1>4, <2>1, <3>1
  <2>3. CASE node' = node /\ root' = root
    BY <1>2, <1>3, <2>1, <2>3
  <2>. QED BY <2>1, <2>2, <2>3, Zenon DEF SetTree
<1>5. ASSUME NEW j \in keys, kvspaceShmDel(j) PROVE k \in keys'
  <2>1. DelTree(node, root, j, node') /\ root' = root /\ keys' = keys
    BY <1>1, <1>2, <1>5, DelStepIs, Zenon DEF DelStep
  <2>2. LookAt(node', root', k) = IF k = j THEN None ELSE LookAt(node, root, k)
    BY <2>1, Zenon DEF DelTree, After
  <2>. QED BY <1>2, <1>3, <2>1, <2>2
<1>6. CASE UNCHANGED vars
  BY <1>2, <1>3, <1>6 DEF vars
<1>. QED BY <1>1, <1>4, <1>5, <1>6, Zenon DEF Next

\* The keys with values are the labels with values.
LEMMA LiveIs ==
  ASSUME ScanInv, NEW S, NEW lab, NEW st, Tree(node, S, lab, st, root), NEW k
  PROVE  k \in keys /\ Live(k) <=> \E y \in S : lab[y] = k /\ node[y].val # None
<1>1. /\ keys \subseteq Seq(Byte)
      /\ \A j \in Seq(Byte) : LookAt(node, root, j) # None => j \in keys
  <2>1. keys \in Families /\ OnlyKeys(keys, node, root)
    BY Zenon DEF ScanInv, ArtInv
  <2>. QED BY <2>1, KeyType DEF OnlyKeys
<1>2. 0 \notin S /\ OneNode(S, lab)
  BY TreeParts
<1>3. \A y \in S : lab[y] \in Seq(Byte)
  <2>1. ASSUME NEW y \in S PROVE lab[y] \in Seq(Byte)
    <3>1. NodeIn(node, lab, st, y)
      BY TreeNode, Zenon
    <3>. QED BY <3>1, Zenon DEF NodeIn
  <2>. QED BY <2>1
<1>4. ASSUME k \in keys, Live(k) PROVE \E y \in S : lab[y] = k /\ node[y].val # None
  <2>1. k \in Seq(Byte) /\ art_walk(node, root, k, 0) # 0
    BY <1>1, <1>4 DEF Live, art_find
  <2>2. Finds(node, S, lab, k, art_walk(node, root, k, 0))
    BY <2>1, FindExact, Zenon
  <2>. QED BY <2>1, <2>2, Zenon DEF Finds
<1>5. ASSUME NEW y \in S, lab[y] = k, node[y].val # None PROVE k \in keys /\ Live(k)
  <2>1. k \in Seq(Byte)
    BY <1>3, <1>5
  <2>2. ValueOf(node, S, lab, k, LookAt(node, root, k))
    BY <2>1, LookAtIs, Zenon
  <2>3. LookAt(node, root, k) # None
    BY <1>2, <1>5, <2>2 DEF ValueOf, OneNode
  <2>4. art_walk(node, root, k, 0) # 0
    BY <2>3, Zenon DEF LookAt
  <2>. QED BY <1>1, <2>1, <2>3, <2>4 DEF Live, art_find
<1>. QED BY <1>4, <1>5

\* Prefixes as sequences and as bytes.
LEMMA PrefixIs ==
  ASSUME NEW s \in Seq(Byte), NEW t \in Seq(Byte)
  PROVE  IsPrefix(s, t) <=> Within(s, t)
<1>1. CASE Len(s) <= Len(t)
  <2>. DEFINE q == SubSeq(t, 1, Len(s))
  <2>1. SubSeq(s, 1, Len(s)) = s
    OBVIOUS
  <2>2. q \in Seq(Byte) /\ Len(q) = Len(s) /\ \A i \in 1 .. Len(s) : q[i] = t[i]
    BY <1>1
  <2>3. IsPrefix(s, t) <=> s = q
    BY <1>1, <2>1 DEF IsPrefix
  <2>. HIDE DEF q
  <2>4. s = q <=> \A i \in 1 .. Len(s) : s[i] = q[i]
    BY <2>2
  <2>. QED BY <1>1, <2>2, <2>3, <2>4 DEF Within, Agree
<1>2. CASE ~(Len(s) <= Len(t))
  BY <1>2 DEF IsPrefix, Within
<1>. QED BY <1>1, <1>2

\* Directories are strings.
LEMMA DirsType == ASSUME ArtInv, NEW p \in Dirs PROVE p \in Seq(Byte)
<1>1. PICK k \in keys : p \in Prefixes(k)
  BY DEF Dirs
<1>2. k \in Seq(Byte)
  <2>1. keys \in Families
    BY DEF ArtInv
  <2>. QED BY <2>1, KeyType
<1>3. PICK n \in 0 .. Len(k) : p = SubSeq(k, 1, n)
  BY <1>1 DEF Prefixes
<1>. QED BY <1>2, <1>3

\* A scan finds the labels with values that have the prefix.
LEMMA ScanLabels ==
  ASSUME NEW S, NEW lab, NEW st, Tree(node, S, lab, st, root), NEW p \in Seq(Byte), NEW e
  PROVE  e \in art_scan_keys(p) <=> \E y \in S : lab[y] = e /\ node[y].val # None /\ Within(p, lab[y])
<1>. DEFINE c == art_cover(p)
            x == c.id
<1>1. Covers(S, lab, st, p, c)
  BY CoverOfTree, Zenon
<1>2. art_scan_keys(p) = IF x = 0 THEN {} ELSE art_collect_keys(x, SubSeq(p, 1, c.depth))
  BY DEF art_scan_keys
<1>3. 0 \notin S /\ Apart(S, lab, st)
  BY TreeParts
<1>. HIDE DEF c
<1>4. CASE x = 0 /\ \A y \in S : ~Within(p, lab[y])
  BY <1>2, <1>4
<1>5. CASE x \in S /\ c.depth = st[x] /\ At(S, lab, st, p, x) /\ Within(p, lab[x])
  <2>. HIDE DEF x
  <2>1. /\ lab[x] \in Seq(Byte) /\ Len(lab[x]) \in Nat /\ st[x] \in Nat /\ st[x] <= Len(lab[x])
        /\ x # 0 /\ st[x] <= Len(p) /\ Agree(lab[x], p, st[x])
        /\ Len(p) <= Len(lab[x]) /\ Agree(p, lab[x], Len(p))
    <3>1. NodeIn(node, lab, st, x)
      BY <1>5, TreeNode, Zenon
    <3>. QED BY <1>3, <1>5, <3>1, Zenon DEF NodeIn, At, Within
  <2>2. SubSeq(p, 1, st[x]) = SubSeq(lab[x], 1, st[x])
    <3>. DEFINE a == SubSeq(p, 1, st[x])
                b == SubSeq(lab[x], 1, st[x])
    <3>1. /\ a \in Seq(Byte) /\ Len(a) = st[x] /\ \A i \in 1 .. st[x] : a[i] = p[i]
          /\ b \in Seq(Byte) /\ Len(b) = st[x] /\ \A i \in 1 .. st[x] : b[i] = lab[x][i]
      BY <2>1
    <3>. HIDE DEF a, b
    <3>2. \A i \in 1 .. st[x] : a[i] = b[i]
      BY <2>1, <3>1 DEF Agree
    <3>3. a = b
      BY <3>1, <3>2
    <3>. QED BY <3>3 DEF a, b
  <2>3. art_collect_keys(x, SubSeq(lab[x], 1, st[x])) = LiveBelow(node, S, lab, x)
    BY <1>5, CollectIs, Zenon
  <2>4. art_scan_keys(p) = LiveBelow(node, S, lab, x)
    BY <1>2, <1>5, <2>1, <2>2, <2>3
  <2>5. e \in LiveBelow(node, S, lab, x) <=>
          \E y \in S : Within(lab[x], lab[y]) /\ node[y].val # None /\ lab[y] = e
    BY DEF LiveBelow, Below
  <2>6. ASSUME NEW y \in S PROVE Within(lab[x], lab[y]) <=> Within(p, lab[y])
    <3>1. Len(lab[y]) \in Nat
      <4>1. NodeIn(node, lab, st, y)
        BY TreeNode, Zenon
      <4>. QED BY <4>1, Zenon DEF NodeIn
    <3>2. ASSUME Within(lab[x], lab[y]) PROVE Within(p, lab[y])
      BY <2>1, <3>1, <3>2 DEF Within, Agree
    <3>3. ASSUME Within(p, lab[y]) PROVE Within(lab[x], lab[y])
      <4>1. st[x] <= Len(lab[y])
        BY <2>1, <3>1, <3>3 DEF Within
      <4>2. Agree(lab[x], lab[y], st[x])
        BY <2>1, <3>3 DEF Within, Agree
      <4>. QED BY <1>3, <1>5, <4>1, <4>2 DEF Apart
    <3>. QED BY <3>2, <3>3
  <2>. QED BY <2>4, <2>5, <2>6
<1>. QED BY <1>1, <1>4, <1>5, Zenon DEF Covers, x

\* A scan finds the keys with values that have the prefix.
LEMMA ScanIs == ScanInv => ScanExact
<1>. DEFINE A(p) == art_scan_keys(p)
            B(p) == {k \in keys : Live(k) /\ IsPrefix(p, k)}
<1>1. SUFFICES ASSUME ScanInv, NEW p \in Dirs, NEW e
               PROVE  e \in A(p) <=> (e \in keys /\ Live(e)) /\ IsPrefix(p, e)
  <2>1. ASSUME NEW p \in Dirs, \A e : e \in A(p) <=> (e \in keys /\ Live(e)) /\ IsPrefix(p, e)
        PROVE  A(p) = B(p)
    <3>1. \A e : e \in B(p) <=> (e \in keys /\ Live(e)) /\ IsPrefix(p, e)
      BY Zenon
    <3>. HIDE DEF A, B
    <3>. QED BY <2>1, <3>1
  <2>2. ScanExact <=> \A p \in Dirs : A(p) = B(p)
    BY Zenon DEF ScanExact
  <2>. HIDE DEF A, B
  <2>. QED BY <2>1, <2>2, Zenon
<1>2. ArtInv /\ IsTree(node, root)
  BY <1>1, Zenon DEF ScanInv, ArtInv
<1>3. PICK S, lab, st : Tree(node, S, lab, st, root)
  BY <1>2, Zenon DEF IsTree
<1>4. p \in Seq(Byte)
  BY <1>2, DirsType, Zenon
<1>5. e \in art_scan_keys(p) <=> \E y \in S : lab[y] = e /\ node[y].val # None /\ Within(p, lab[y])
  BY <1>3, <1>4, ScanLabels, ZenonT(40)
<1>6. e \in keys /\ Live(e) <=> \E y \in S : lab[y] = e /\ node[y].val # None
  BY <1>1, <1>3, LiveIs, SMTT(40)
<1>7. e \in keys => (IsPrefix(p, e) <=> Within(p, e))
  <2>1. keys \in Families
    BY <1>2, Zenon DEF ArtInv
  <2>2. e \in keys => e \in Seq(Byte)
    BY <2>1, KeyType
  <2>. QED BY <1>4, <2>2, PrefixIs
<1>. QED BY <1>5, <1>6, <1>7

\* Deltree sees exactly the keys below a directory, however often nodes were
\* split, copied and emptied before.
THEOREM ArtScan == ASSUME Roomy PROVE Spec => []ScanExact
<1>1. Init => ScanInv
  BY ScanInit
<1>2. ScanInv /\ [Next]_vars => ScanInv'
  BY ScanNext
<1>3. ScanInv => ScanExact
  BY ScanIs
<1>. QED BY <1>1, <1>2, <1>3, PTL DEF Spec

------------------------------------------------------------------------------
(* Nodes stay *)

\* Where art_follow stops, what it gives there, and where it goes else.
HopStop(ns, at) == at[1] = 0 \/ at[2] = 0 \/ ns[at[2]].kind # MOVED
HopHere(ns, at) == IF at[1] = 0 \/ at[2] = 0 THEN 0 ELSE at[2]
HopNext(ns, at) == <<at[1] - 1, ns[at[2]].fwd>>
Hops(ns) == (0 .. 8) \X (0 .. Len(ns))
HopFun(ns) ==
  CHOOSE f : f = [at \in Hops(ns) |->
                    IF at[1] = 0 \/ at[2] = 0 THEN 0
                    ELSE IF ns[at[2]].kind # MOVED THEN at[2] ELSE f[<<at[1] - 1, ns[at[2]].fwd>>]]

\* art_follow in these words.
LEMMA FollowIs == \A ns, id : art_follow(ns, id) = HopFun(ns)[<<8, id>>]
BY Zenon DEF art_follow, HopFun, Hops

\* art_follow goes step by step.
LEMMA HopEq ==
  ASSUME NEW ns, NodesOK(ns)
  PROVE  \A at \in Hops(ns) :
           HopFun(ns)[at] = IF HopStop(ns, at) THEN HopHere(ns, at) ELSE HopFun(ns)[HopNext(ns, at)]
<1>. DEFINE D == Hops(ns)
            B(f, x) == IF x[1] = 0 \/ x[2] = 0 THEN 0
                       ELSE IF ns[x[2]].kind # MOVED THEN x[2] ELSE f[<<x[1] - 1, ns[x[2]].fwd>>]
            C(f, x) == IF HopStop(ns, x) THEN HopHere(ns, x) ELSE f[HopNext(ns, x)]
            stop == {x \in D : HopStop(ns, x)}
            out == [x \in D |-> HopHere(ns, x)]
            nxt == [x \in D |-> HopNext(ns, x)]
            rank == [x \in D |-> x[1]]
            h == CHOOSE f : f = [x \in D |-> B(f, x)]
<1>1. ASSUME NEW x \in D PROVE x[1] \in 0 .. 8 /\ x[2] \in 0 .. Len(ns) /\ Len(ns) \in Nat
  BY DEF Hops, NodesOK
<1>2. ASSUME NEW x \in D, ~HopStop(ns, x)
      PROVE  HopNext(ns, x) \in D /\ HopNext(ns, x)[1] = x[1] - 1 /\ x[1] - 1 < x[1]
  <2>1. x[1] # 0 /\ x[2] # 0
    BY <1>2, Zenon DEF HopStop
  <2>2. x[2] \in 1 .. Len(ns) /\ x[1] - 1 \in 0 .. 8 /\ x[1] - 1 < x[1]
    BY <1>1, <2>1
  <2>3. NodeOK(ns[x[2]], Len(ns))
    BY <2>2 DEF NodesOK
  <2>4. ns[x[2]].fwd \in 0 .. Len(ns)
    BY <2>3, Zenon DEF NodeOK
  <2>. QED BY <2>2, <2>4 DEF HopNext, Hops
<1>3. ASSUME NEW f, NEW x PROVE B(f, x) = C(f, x)
  BY DEF HopStop, HopHere, HopNext
<1>. HIDE DEF D
<1>4. PICK g : \A x \in D : g[x] = IF x \in stop THEN out[x] ELSE g[nxt[x]]
  <2>1. \A x \in D : x \notin stop => nxt[x] \in D /\ rank[nxt[x]] < rank[x]
    <3>1. SUFFICES ASSUME NEW x \in D, x \notin stop PROVE nxt[x] \in D /\ rank[nxt[x]] < rank[x]
      OBVIOUS
    <3>2. ~HopStop(ns, x) /\ nxt[x] = HopNext(ns, x)
      BY <3>1, Zenon
    <3>3. nxt[x] \in D /\ nxt[x][1] = x[1] - 1 /\ x[1] - 1 < x[1]
      BY <1>2, <3>2
    <3>4. rank[nxt[x]] = nxt[x][1] /\ rank[x] = x[1]
      BY <3>3, Zenon
    <3>. HIDE DEF rank, nxt
    <3>. QED BY <3>3, <3>4
  <2>2. \A x \in D : rank[x] \in 0 .. 8
    BY <1>1
  <2>3. 8 \in Nat
    OBVIOUS
  <2>. HIDE DEF stop, out, nxt, B, C, h, rank
  <2>4. Descends(D, stop, nxt, rank, 8)
    BY <2>1, <2>2, Zenon DEF Descends
  <2>5. Ends(D, stop, out, nxt)
    BY <2>3, <2>4, WalkEnds, Zenon
  <2>. QED BY <2>5, Zenon DEF Ends
<1>. DEFINE f == [x \in D |-> g[x]]
<1>5. ASSUME NEW x \in D PROVE g[x] = C(f, x)
  <2>1. ~HopStop(ns, x) => f[HopNext(ns, x)] = g[HopNext(ns, x)]
    <3>1. ~HopStop(ns, x) => HopNext(ns, x) \in D
      BY <1>2
    <3>. QED BY <3>1, Zenon
  <2>2. (x \in stop <=> HopStop(ns, x)) /\ out[x] = HopHere(ns, x) /\ nxt[x] = HopNext(ns, x)
    BY Zenon
  <2>3. g[x] = IF x \in stop THEN out[x] ELSE g[nxt[x]]
    BY <1>4, Zenon
  <2>. HIDE DEF stop, out, nxt, f
  <2>. QED BY <2>1, <2>2, <2>3
<1>6. f = [x \in D |-> B(f, x)]
  <2>. HIDE DEF B, C, stop, out, nxt
  <2>. QED BY <1>3, <1>5
<1>. HIDE DEF f
<1>7. h = [x \in D |-> B(h, x)]
  <2>. HIDE DEF B
  <2>. QED BY <1>6
<1>8. h = HopFun(ns)
  BY Zenon DEF HopFun, D
<1>. HIDE DEF h
<1>9. \A x \in D : h[x] = C(h, x)
  <2>1. \A x \in D : h[x] = B(h, x)
    <3>. HIDE DEF B, C
    <3>. QED BY <1>7
  <2>. HIDE DEF B, C
  <2>. QED BY <1>3, <2>1
<1>. QED BY <1>8, <1>9, Zenon DEF D

\* A node is followed to where it was moved.
LEMMA FollowStays ==
  ASSUME NEW ns, NodesOK(ns), NEW x \in 1 .. Len(ns), ns[x].kind # MOVED, NEW x0, Stays(ns, x0, x)
  PROVE  art_follow(ns, x0) = x
<1>1. Len(ns) \in Nat
  BY DEF NodesOK
<1>2. \A n \in 0 .. 8 : \A id \in 0 .. Len(ns) : <<n, id>> \in Hops(ns)
  BY DEF Hops
<1>3. x # 0 /\ x \in 0 .. Len(ns) /\ 8 \in 0 .. 8 /\ 7 \in 0 .. 8
  BY <1>1
<1>4. ASSUME NEW n \in 0 .. 8, n # 0 PROVE HopFun(ns)[<<n, x>>] = x
  <2>1. HopStop(ns, <<n, x>>) /\ HopHere(ns, <<n, x>>) = x
    BY <1>3, <1>4 DEF HopStop, HopHere
  <2>. QED BY <1>2, <1>3, <2>1, HopEq
<1>5. CASE x0 = x
  BY <1>3, <1>4, <1>5, FollowIs
<1>6. CASE x0 \in 1 .. Len(ns) /\ ns[x0].kind = MOVED /\ ns[x0].fwd = x
  <2>1. x0 \in 0 .. Len(ns) /\ x0 # 0
    BY <1>1, <1>6
  <2>2. ~HopStop(ns, <<8, x0>>) /\ HopNext(ns, <<8, x0>>) = <<7, x>>
    BY <1>6, <2>1 DEF HopStop, HopNext
  <2>3. HopFun(ns)[<<8, x0>>] = HopFun(ns)[<<7, x>>]
    BY <1>2, <1>3, <2>1, <2>2, HopEq
  <2>4. HopFun(ns)[<<7, x>>] = x
    BY <1>3, <1>4
  <2>. QED BY <2>3, <2>4, FollowIs
<1>. QED BY <1>5, <1>6, Zenon DEF Stays

\* Every label is still there, at its node or where that was moved.
Carried(S, lab, ns2, S2, lab2) == \A x0 \in S : \E x \in S2 : lab2[x] = lab[x0] /\ Stays(ns2, x0, x)
Carries(ns, S, lab, ns2, top2) ==
  \E S2, lab2, st2 : Tree(ns2, S2, lab2, st2, top2) /\ Carried(S, lab, ns2, S2, lab2)

\* kvspaceShmSet keeps the labels.
LEMMA SetCarries ==
  ASSUME NEW ns, NEW S, NEW lab, NEW st, NEW top, Tree(ns, S, lab, st, top),
         NEW key \in Seq(Byte), NEW v \in Values, NEW lim, Limit(ns, lim, key),
         NEW r, r = art_ins(ns, lim, top, key, v), NEW top2, top2 = IF r.id = 0 THEN top ELSE r.id
  PROVE  Carries(ns, S, lab, r.ns, top2)
<1>1. Inserted(ns, S, lab, key, v, r)
  BY InsertExact, Zenon
<1>2. CASE r.id # 0 /\ Done(ns, S, lab, key, v, r.ns, r.id)
  <2>1. top2 = r.id
    BY <1>2, Zenon
  <2>2. PICK S2, lab2, st2 : /\ Tree(r.ns, S2, lab2, st2, top2)
                             /\ Outcome(ns, S, lab, key, v, r.ns, S2, lab2)
    BY <1>2, <2>1, Zenon DEF Done
  <2>3. Carried(S, lab, r.ns, S2, lab2)
    BY <2>2, Zenon DEF Outcome, Carried
  <2>. QED BY <2>2, <2>3, Zenon DEF Carries
<1>3. CASE Fails(ns, r)
  <2>1. r.ns = ns /\ top2 = top
    BY <1>3, Zenon DEF Fails
  <2>2. Carried(S, lab, ns, S, lab)
    BY Zenon DEF Carried, Stays
  <2>. QED BY <2>1, <2>2, Zenon DEF Carries
<1>. QED BY <1>1, <1>2, <1>3, Zenon DEF Inserted

\* A deleted key leaves its node where it is.
LEMMA DelTreeSame ==
  ASSUME NEW ns, NEW S, NEW lab, NEW st, NEW top, Tree(ns, S, lab, st, top), NEW key \in Seq(Byte),
         NEW id, id = art_walk(ns, top, key, 0), id # 0
  PROVE  Tree(art_del(ns, id), S, lab, st, top)
<1>1. Finds(ns, S, lab, key, id)
  BY FindExact, Zenon
<1>2. id \in S
  BY <1>1, Zenon DEF Finds
<1>. DEFINE q == art_del(ns, id)
<1>3. /\ NodesOK(ns) /\ S \subseteq 1 .. Len(ns) /\ Len(ns) \in Nat
  BY TreeParts
<1>4. SetVal(ns, id, None, q) /\ id \in 1 .. Len(ns) /\ None \in Values \union {None}
  BY <1>2, <1>3 DEF SetVal, art_del
<1>. HIDE DEF q
<1>5. NewVal(ns, id, None, q)
  BY <1>3, <1>4, PutVal, Zenon
<1>6. /\ NodesOK(q) /\ Len(q) = Len(ns) /\ \A x \in S : x # id => q[x] = ns[x]
      /\ q[id].kind = ns[id].kind /\ q[id].prefix = ns[id].prefix /\ q[id].kids = ns[id].kids
  BY <1>3, <1>5 DEF NewVal
<1>7. ASSUME NEW x \in S
      PROVE  /\ q[x].kind = ns[x].kind /\ q[x].prefix = ns[x].prefix
             /\ \A b \in Byte : KidOf(q[x].kids, b) = KidOf(ns[x].kids, b)
  <2>1. CASE x = id
    BY <1>6, <2>1
  <2>2. CASE x # id
    BY <1>6, <2>2
  <2>. QED BY <2>1, <2>2
<1>8. Len(ns) <= Len(q)
  BY <1>3, <1>6
<1>9. Tree(q, S, lab, st, top)
  BY <1>3, <1>6, <1>7, <1>8, SameTree
<1>. QED BY <1>9 DEF q

\* Every step keeps the labels.
LEMMA StepCarries ==
  ASSUME Roomy, ArtInv, [Next]_vars, NEW S, NEW lab, NEW st, Tree(node, S, lab, st, root)
  PROVE  Carries(node, S, lab, node', root')
<1>1. keys \in Families /\ NodesOK(node)
  BY TreeParts, Zenon DEF ArtInv
<1>2. Carried(S, lab, node, S, lab)
  BY Zenon DEF Carried, Stays
<1>3. ASSUME NEW k \in keys, NEW v \in Values, kvspaceShmSet(k, v)
      PROVE  Carries(node, S, lab, node', root')
  <2>1. k \in Seq(Byte)
    BY <1>1, KeyType
  <2>2. PICK b \in Budgets :
          LET r == art_ins(node, Len(node) + b, root, k, v) IN
          /\ node' = r.ns /\ root' = IF r.id = 0 THEN root ELSE r.id
          /\ UNCHANGED keys
    BY <1>3 DEF kvspaceShmSet
  <2>. DEFINE r == art_ins(node, Len(node) + b, root, k, v)
              lim == Len(node) + b
  <2>3. Limit(node, lim, k)
    BY <1>1, BudgetLimit
  <2>4. r = art_ins(node, lim, root, k, v) /\ node' = r.ns /\ root' = (IF r.id = 0 THEN root ELSE r.id)
    BY <2>2
  <2>. HIDE DEF r, lim
  <2>5. Carries(node, S, lab, r.ns, root')
    BY <2>1, <2>3, <2>4, SetCarries, Zenon
  <2>. QED BY <2>4, <2>5, Zenon
<1>4. ASSUME NEW k \in keys, kvspaceShmDel(k) PROVE Carries(node, S, lab, node', root')
  <2>1. k \in Seq(Byte)
    BY <1>1, KeyType
  <2>. DEFINE id == art_walk(node, root, k, 0)
  <2>2. id # 0 /\ node' = art_del(node, id) /\ root' = root
    BY <1>4 DEF kvspaceShmDel, art_find
  <2>3. id = art_walk(node, root, k, 0)
    OBVIOUS
  <2>. HIDE DEF id
  <2>4. Tree(art_del(node, id), S, lab, st, root)
    BY <2>1, <2>2, <2>3, DelTreeSame, Zenon
  <2>5. Carried(S, lab, node', S, lab)
    BY Zenon DEF Carried, Stays
  <2>. QED BY <2>2, <2>4, <2>5, Zenon DEF Carries
<1>5. CASE UNCHANGED vars
  <2>1. node' = node /\ root' = root
    BY <1>5 DEF vars
  <2>. QED BY <1>2, <2>1, Zenon DEF Carries
<1>. QED BY <1>3, <1>4, <1>5, Zenon DEF Next

\* What the step of NodesStay says.
StaysNow == \A p \in Paths : <<art_follow(node', p[1]), p[2]>> \in Paths'

\* Nodes keep their bytes.
LEMMA StaysNext == Roomy /\ ArtInv /\ [Next]_vars => StaysNow
<1>1. SUFFICES ASSUME Roomy, ArtInv, [Next]_vars PROVE StaysNow
  OBVIOUS
<1>2. PICK S, lab, st : Tree(node, S, lab, st, root)
  BY <1>1, Zenon DEF ArtInv, IsTree
<1>3. Carries(node, S, lab, node', root')
  BY <1>1, <1>2, StepCarries, Zenon
<1>4. PICK S2, lab2, st2 : Tree(node', S2, lab2, st2, root') /\ Carried(S, lab, node', S2, lab2)
  BY <1>3, Zenon DEF Carries
<1>5. Paths = Labelled(S, lab)
  BY <1>2, PathsIs, PathsOfTree
<1>6. Paths' = Labelled(S2, lab2)
  <2>1. (Paths = PathsOf(node, root))'
    BY PathsIs, PTL
  <2>2. Paths' = PathsOf(node', root')
    BY <2>1 DEF PathsOf
  <2>3. PathsOf(node', root') = Labelled(S2, lab2)
    BY <1>4, PathsOfTree, Zenon
  <2>. QED BY <2>2, <2>3, Zenon
<1>7. ASSUME NEW x0 \in S PROVE <<art_follow(node', x0), lab[x0]>> \in Labelled(S2, lab2)
  <2>1. PICK x \in S2 : lab2[x] = lab[x0] /\ Stays(node', x0, x)
    BY <1>4, Zenon DEF Carried
  <2>2. NodesOK(node') /\ x \in 1 .. Len(node') /\ node'[x].kind # MOVED
    <3>1. NodesOK(node') /\ x \in 1 .. Len(node')
      BY <1>4, TreeParts, Zenon
    <3>2. node'[x].kind # MOVED
      BY <1>4, Zenon DEF Tree
    <3>. QED BY <3>1, <3>2
  <2>3. art_follow(node', x0) = x
    BY <2>1, <2>2, FollowStays, Zenon
  <2>. QED BY <2>1, <2>3 DEF Labelled
<1>8. \A p \in Labelled(S, lab) : \E x0 \in S : p = <<x0, lab[x0]>>
  BY DEF Labelled
<1>9. \A p \in Paths : <<art_follow(node', p[1]), p[2]>> \in Labelled(S2, lab2)
  BY <1>5, <1>7, <1>8
<1>. QED BY <1>6, <1>9, Zenon DEF StaysNow

\* A node handed out as a reference stands for the same bytes after any step, at
\* its place or where MOVED leads.
THEOREM ArtNodesStay == ASSUME Roomy PROVE Spec => NodesStay
<1>1. ArtInv /\ [Next]_vars => StaysNow
  BY StaysNext
<1>2. Spec => []ArtInv
  BY ArtTree
<1>3. NodesStay <=> [][StaysNow]_vars
  BY PTL DEF NodesStay, StaysNow
<1>. QED BY <1>1, <1>2, <1>3, PTL DEF Spec

------------------------------------------------------------------------------
(* Directory references *)

\* Whether the bytes of a node cover the separator.
SepCovered(ns, id, d, sep) ==
  sep.pos > 1 /\ \/ d < sep.pos /\ sep.pos <= EndOf(ns, id, d)
                 \/ EndOf(ns, id, d) = sep.pos - 1 + sep.len

\* The reference after a node was passed.
DirPassed(ns, id, d, sep, dir) ==
  IF dir.id = 0 /\ SepCovered(ns, id, d, sep) THEN [id |-> id, depth |-> EndOf(ns, id, d)] ELSE dir

DirType(ns, key) == [id : 0 .. Len(ns), depth : 0 .. Len(key)]
DirPlaces(ns, key) == (0 .. Len(ns)) \X (0 .. Len(key)) \X DirType(ns, key)

\* Where the search ends, what it gives there, and where it goes else.
DirStop(ns, key, at) == Lost(ns, key, at[1], at[2]) \/ EndOf(ns, at[1], at[2]) = Len(key)
DirHere(ns, key, sep, at) ==
  IF Lost(ns, key, at[1], at[2]) THEN [id |-> 0, dir |-> at[3]]
  ELSE [id |-> IF ns[at[1]].val = None THEN 0 ELSE at[1], dir |-> DirPassed(ns, at[1], at[2], sep, at[3])]
DirNext(ns, key, sep, at) ==
  <<ChildAt(ns, key, at[1], at[2]), EndOf(ns, at[1], at[2]) + 1, DirPassed(ns, at[1], at[2], sep, at[3])>>
DirBody(ns, key, sep, f, at) ==
  IF Lost(ns, key, at[1], at[2]) THEN [id |-> 0, dir |-> at[3]]
  ELSE IF EndOf(ns, at[1], at[2]) = Len(key)
    THEN [id |-> IF ns[at[1]].val = None THEN 0 ELSE at[1], dir |-> DirPassed(ns, at[1], at[2], sep, at[3])]
  ELSE f[DirNext(ns, key, sep, at)]
DirFun(ns, key, sep) ==
  CHOOSE f : f = [at \in DirPlaces(ns, key) |-> DirBody(ns, key, sep, f, at)]

\* art_find_dir in these words.
LEMMA FindDirIs ==
  \A key, sep : art_find_dir(key, sep) = DirFun(node, key, sep)[<<root, 0, [id |-> 0, depth |-> 0]>>]
BY Zenon DEF art_find_dir, DirFun, DirPlaces, DirType, DirBody, DirNext, DirPassed, SepCovered, Lost, EndOf, ChildAt

\* A node that is passed.
LEMMA DirDown ==
  ASSUME NEW ns, NodesOK(ns), NEW key \in Seq(Byte), NEW sep, NEW id \in 0 .. Len(ns),
         NEW d \in 0 .. Len(key), NEW dir \in DirType(ns, key), ~Lost(ns, key, id, d),
         EndOf(ns, id, d) # Len(key)
  PROVE  /\ ChildAt(ns, key, id, d) \in 0 .. Len(ns)
         /\ EndOf(ns, id, d) + 1 \in 0 .. Len(key) /\ d < EndOf(ns, id, d) + 1
         /\ DirPassed(ns, id, d, sep, dir) \in DirType(ns, key)
<1>1. Len(ns) \in Nat /\ Len(key) \in Nat
  BY DEF NodesOK
<1>2. id # 0 /\ IsPrefix(ns[id].prefix, Rest(key, d))
  BY Zenon DEF Lost
<1>3. id \in 1 .. Len(ns)
  BY <1>1, <1>2
<1>4. ns[id].prefix \in Seq(Byte)
  <2>1. NodeOK(ns[id], Len(ns))
    BY <1>3 DEF NodesOK
  <2>. QED BY <2>1, NodeParts
<1>. DEFINE e == EndOf(ns, id, d)
<1>5. e = d + Len(ns[id].prefix)
  BY DEF EndOf
<1>. HIDE DEF e
<1>6. e <= Len(key) /\ e \in Nat
  BY <1>2, <1>4, <1>5, PrefixFacts
<1>7. e < Len(key)
  BY <1>1, <1>6 DEF e
<1>8. /\ e \in Nat /\ d <= e /\ e + 1 \in 0 .. Len(key)
      /\ art_child(ns, id, key[e + 1]) \in 0 .. Len(ns)
  BY <1>3, <1>5, <1>7, NextPlace
<1>9. DirPassed(ns, id, d, sep, dir) \in DirType(ns, key)
  <2>1. e \in 0 .. Len(key)
    BY <1>1, <1>6
  <2>2. [id |-> id, depth |-> e] \in DirType(ns, key)
    BY <2>1 DEF DirType
  <2>. QED BY <2>2, Zenon DEF DirPassed, e
<1>10. ChildAt(ns, key, id, d) = art_child(ns, id, key[e + 1])
  BY DEF ChildAt, e
<1>11. d < e + 1
  BY <1>8
<1>. QED BY <1>8, <1>9, <1>10, <1>11 DEF e

\* art_find_dir goes step by step.
LEMMA DirEq ==
  ASSUME NEW ns, NodesOK(ns), NEW key \in Seq(Byte), NEW sep
  PROVE  \A at \in DirPlaces(ns, key) :
           DirFun(ns, key, sep)[at] = DirBody(ns, key, sep, DirFun(ns, key, sep), at)
<1>. DEFINE D == DirPlaces(ns, key)
            K == Len(key)
            B(f, x) == DirBody(ns, key, sep, f, x)
            C(f, x) == IF DirStop(ns, key, x) THEN DirHere(ns, key, sep, x) ELSE f[DirNext(ns, key, sep, x)]
            stop == {x \in D : DirStop(ns, key, x)}
            out == [x \in D |-> DirHere(ns, key, sep, x)]
            nxt == [x \in D |-> DirNext(ns, key, sep, x)]
            rank == [x \in D |-> K - x[2]]
            h == CHOOSE f : f = [x \in D |-> B(f, x)]
<1>0. K \in Nat
  OBVIOUS
<1>1. ASSUME NEW x \in D
      PROVE  x[1] \in 0 .. Len(ns) /\ x[2] \in 0 .. K /\ x[3] \in DirType(ns, key) /\ K - x[2] \in 0 .. K
  BY DEF DirPlaces
<1>2. ASSUME NEW x \in D, ~DirStop(ns, key, x)
      PROVE  /\ DirNext(ns, key, sep, x) \in D
             /\ K - DirNext(ns, key, sep, x)[2] < K - x[2]
  <2>1. ~Lost(ns, key, x[1], x[2]) /\ EndOf(ns, x[1], x[2]) # K
    BY <1>2, Zenon DEF DirStop
  <2>2. /\ ChildAt(ns, key, x[1], x[2]) \in 0 .. Len(ns)
        /\ EndOf(ns, x[1], x[2]) + 1 \in 0 .. K /\ x[2] < EndOf(ns, x[1], x[2]) + 1
        /\ DirPassed(ns, x[1], x[2], sep, x[3]) \in DirType(ns, key)
    BY <1>1, <2>1, DirDown
  <2>3. DirNext(ns, key, sep, x) \in D /\ DirNext(ns, key, sep, x)[2] = EndOf(ns, x[1], x[2]) + 1
    BY <2>2 DEF DirNext, DirPlaces
  <2>. QED BY <1>0, <1>1, <2>2, <2>3
<1>3. ASSUME NEW f, NEW x PROVE B(f, x) = C(f, x)
  BY DEF DirBody, DirStop, DirHere
<1>. HIDE DEF D
<1>4. PICK g : \A x \in D : g[x] = IF x \in stop THEN out[x] ELSE g[nxt[x]]
  <2>1. \A x \in D : x \notin stop => nxt[x] \in D /\ rank[nxt[x]] < rank[x]
    <3>1. SUFFICES ASSUME NEW x \in D, x \notin stop PROVE nxt[x] \in D /\ rank[nxt[x]] < rank[x]
      OBVIOUS
    <3>2. ~DirStop(ns, key, x) /\ nxt[x] = DirNext(ns, key, sep, x)
      BY <3>1, Zenon
    <3>3. nxt[x] \in D /\ K - nxt[x][2] < K - x[2]
      BY <1>2, <3>2
    <3>4. rank[nxt[x]] = K - nxt[x][2] /\ rank[x] = K - x[2]
      BY <3>3, Zenon
    <3>. HIDE DEF rank, nxt
    <3>. QED BY <3>3, <3>4
  <2>2. \A x \in D : rank[x] \in 0 .. K
    BY <1>1
  <2>. HIDE DEF stop, out, nxt, B, C, h, rank, K
  <2>4. Descends(D, stop, nxt, rank, K)
    BY <2>1, <2>2, Zenon DEF Descends
  <2>5. Ends(D, stop, out, nxt)
    BY <1>0, <2>4, WalkEnds, Zenon
  <2>. QED BY <2>5, Zenon DEF Ends
<1>. DEFINE f == [x \in D |-> g[x]]
<1>5. ASSUME NEW x \in D PROVE g[x] = C(f, x)
  <2>1. ~DirStop(ns, key, x) => f[DirNext(ns, key, sep, x)] = g[DirNext(ns, key, sep, x)]
    <3>1. ~DirStop(ns, key, x) => DirNext(ns, key, sep, x) \in D
      BY <1>2
    <3>. QED BY <3>1, Zenon
  <2>2. /\ x \in stop <=> DirStop(ns, key, x)
        /\ out[x] = DirHere(ns, key, sep, x) /\ nxt[x] = DirNext(ns, key, sep, x)
    BY Zenon
  <2>3. g[x] = IF x \in stop THEN out[x] ELSE g[nxt[x]]
    BY <1>4, Zenon
  <2>. HIDE DEF stop, out, nxt, f
  <2>. QED BY <2>1, <2>2, <2>3
<1>6. f = [x \in D |-> B(f, x)]
  <2>. HIDE DEF B, C, stop, out, nxt
  <2>. QED BY <1>3, <1>5
<1>. HIDE DEF f
<1>7. h = [x \in D |-> B(h, x)]
  <2>. HIDE DEF B
  <2>. QED BY <1>6
<1>8. h = DirFun(ns, key, sep)
  BY Zenon DEF DirFun, D
<1>. HIDE DEF h
<1>9. \A x \in D : h[x] = B(h, x)
  <2>. HIDE DEF B
  <2>. QED BY <1>7
<1>. QED BY <1>8, <1>9, Zenon DEF D

\* A reference is to a node whose label is a prefix of the key.
DirGood(S, lab, key, dir) ==
  dir.id = 0 \/ (dir.id \in S /\ dir.depth = Len(lab[dir.id]) /\ Within(lab[dir.id], key))

\* From node x on the search keeps a good reference or finds one.
DirAt(ns, S, lab, st, key, sep, x) ==
  \A dir \in DirType(ns, key) :
    DirGood(S, lab, key, dir) => DirGood(S, lab, key, DirFun(ns, key, sep)[<<x, st[x], dir>>].dir)

\* A node with all of its bytes in the key can become the reference.
LEMMA PassedGood ==
  ASSUME NEW ns, NEW S, NEW lab, NEW key, NEW sep, NEW x \in S, NEW d, EndOf(ns, x, d) = Len(lab[x]),
         Within(lab[x], key), NEW dir, DirGood(S, lab, key, dir)
  PROVE  DirGood(S, lab, key, DirPassed(ns, x, d, sep, dir))
<1>1. CASE dir.id = 0 /\ SepCovered(ns, x, d, sep)
  <2>1. DirPassed(ns, x, d, sep, dir) = [id |-> x, depth |-> Len(lab[x])]
    BY <1>1, Zenon DEF DirPassed
  <2>2. [id |-> x, depth |-> Len(lab[x])].id = x /\ [id |-> x, depth |-> Len(lab[x])].depth = Len(lab[x])
    OBVIOUS
  <2>. QED BY <2>1, <2>2, Zenon DEF DirGood
<1>2. CASE ~(dir.id = 0 /\ SepCovered(ns, x, d, sep))
  <2>1. DirPassed(ns, x, d, sep, dir) = dir
    BY <1>2, Zenon DEF DirPassed
  <2>. QED BY <2>1, Zenon
<1>. QED BY <1>1, <1>2, Zenon

\* The search finds a good reference.
LEMMA DirFinds ==
  ASSUME NEW ns, NEW S, NEW lab, NEW st, NEW top, Tree(ns, S, lab, st, top), NEW key \in Seq(Byte), NEW sep
  PROVE  \A x \in S : At(S, lab, st, key, x) => DirAt(ns, S, lab, st, key, sep, x)
<1>. DEFINE K == Len(key)
            h == DirFun(ns, key, sep)
            Good(x) == DirAt(ns, S, lab, st, key, sep, x)
            T == {K - st[x] : x \in {x \in S : At(S, lab, st, key, x) /\ ~Good(x)}}
<1>1. K \in Nat /\ NodesOK(ns) /\ \A x \in S : x \in 1 .. Len(ns)
  BY TreeParts
<1>2. \A x \in S : At(S, lab, st, key, x) => st[x] \in 0 .. K
  BY TreeNode DEF At, NodeIn
<1>0. \A at \in DirPlaces(ns, key) : h[at] = DirBody(ns, key, sep, h, at)
  BY <1>1, DirEq, Zenon
<1>. HIDE DEF h
<1>3. T = {}
  <2>1. SUFFICES ASSUME T # {} PROVE FALSE
    OBVIOUS
  <2>2. T \subseteq Nat
    <3>. HIDE DEF Good
    <3>. QED BY <1>1, <1>2
  <2>3. PICK m \in T : \A j \in T : m <= j
    <3>. HIDE DEF T
    <3>. QED BY <2>1, <2>2, Least
  <2>4. PICK x \in S : At(S, lab, st, key, x) /\ ~Good(x) /\ m = K - st[x]
    <3>. HIDE DEF Good
    <3>. QED BY <2>3
  <2>5. ASSUME NEW y \in S, At(S, lab, st, key, y), st[x] < st[y] PROVE Good(y)
    <3>1. K - st[y] < m /\ K - st[y] \in Nat /\ m \in Nat
      BY <1>1, <1>2, <2>4, <2>5, SMTT(40)
    <3>2. K - st[y] \notin T
      <4>. HIDE DEF T
      <4>. QED BY <2>3, <3>1
    <3>. HIDE DEF Good
    <3>. QED BY <2>5, <3>2
  <2>. HIDE DEF T
  <2>6. /\ x \in 1 .. Len(ns) /\ x # 0 /\ st[x] \in 0 .. K /\ x \in 0 .. Len(ns)
    BY <1>1, <1>2, <2>4
  <2>7. /\ Len(lab[x]) \in Nat /\ st[x] \in Nat /\ st[x] <= Len(lab[x])
        /\ ns[x].kind # MOVED /\ st[x] + Len(ns[x].prefix) = Len(lab[x])
    <3>1. NodeIn(ns, lab, st, x)
      BY TreeNode, Zenon
    <3>. QED BY <3>1, Zenon DEF NodeIn
  <2>8. Lost(ns, key, x, st[x]) <=> ~Within(lab[x], key)
    <3>1. IsPrefix(ns[x].prefix, Rest(key, st[x])) <=> Within(lab[x], key)
      BY <2>4, MatchIs
    <3>. QED BY <2>6, <2>7, <3>1, Zenon DEF Lost
  <2>9. EndOf(ns, x, st[x]) = Len(lab[x]) /\ ChildAt(ns, key, x, st[x]) = art_child(ns, x, key[Len(lab[x]) + 1])
    BY <2>7 DEF EndOf, ChildAt
  <2>10. PICK dir \in DirType(ns, key) :
           DirGood(S, lab, key, dir) /\ ~DirGood(S, lab, key, h[<<x, st[x], dir>>].dir)
    BY <2>4, Zenon DEF DirAt, h
  <2>. DEFINE at == <<x, st[x], dir>>
              r == h[at]
              pd == DirPassed(ns, x, st[x], sep, dir)
  <2>11. at \in DirPlaces(ns, key) /\ at[1] = x /\ at[2] = st[x] /\ at[3] = dir
    BY <2>6 DEF DirPlaces
  <2>12. r = DirBody(ns, key, sep, h, at)
    BY <1>0, <2>11, Zenon
  <2>. HIDE DEF at, r, pd
  <2>13. CASE ~Within(lab[x], key)
    <3>1. r = [id |-> 0, dir |-> dir]
      BY <2>8, <2>11, <2>12, <2>13, Zenon DEF DirBody
    <3>2. r.dir = dir
      BY <3>1
    <3>. QED BY <2>10, <3>2, Zenon DEF r, at
  <2>14. CASE Within(lab[x], key)
    <3>1. DirGood(S, lab, key, pd)
      BY <2>9, <2>10, <2>14, PassedGood, Zenon DEF pd
    <3>2. CASE Len(lab[x]) = K
      <4>1. r = [id |-> IF ns[x].val = None THEN 0 ELSE x, dir |-> pd]
        BY <2>8, <2>9, <2>11, <2>12, <2>14, <3>2, Zenon DEF DirBody, pd
      <4>2. r.dir = pd
        BY <4>1
      <4>. QED BY <2>10, <3>1, <4>2, Zenon DEF r, at
    <3>3. CASE Len(lab[x]) # K
      <4>. DEFINE c == art_child(ns, x, key[Len(lab[x]) + 1])
                  nx == <<c, Len(lab[x]) + 1, pd>>
      <4>1. Len(lab[x]) < K
        BY <1>1, <2>7, <2>14, <3>3 DEF Within
      <4>2. r = h[nx]
        BY <2>8, <2>9, <2>11, <2>12, <2>14, <3>3, Zenon DEF DirBody, DirNext, pd
      <4>3. ~Lost(ns, key, x, st[x]) /\ EndOf(ns, x, st[x]) # Len(key)
        BY <2>8, <2>9, <2>14, <3>3, Zenon
      <4>4. pd \in DirType(ns, key)
        BY <1>1, <2>6, <4>3, DirDown DEF pd
      <4>5. /\ c \in 0 .. Len(ns)
            /\ c # 0 => At(S, lab, st, key, c) /\ st[c] = Len(lab[x]) + 1
        <5>. HIDE DEF c
        <5>1. Within(lab[x], key) /\ Len(lab[x]) < Len(key) /\ c = art_child(ns, x, key[Len(lab[x]) + 1])
          BY <2>14, <4>1, Zenon DEF c
        <5>2. OnTo(ns, S, lab, st, key, x, c)
          BY <5>1, GoesOn, Zenon
        <5>. QED BY <5>2, Zenon DEF OnTo
      <4>. HIDE DEF c
      <4>6. CASE c = 0
        <5>1. nx \in DirPlaces(ns, key) /\ nx[1] = 0 /\ nx[2] = Len(lab[x]) + 1 /\ nx[3] = pd
          BY <1>1, <2>7, <4>1, <4>4, <4>5, <4>6 DEF DirPlaces
        <5>. HIDE DEF nx
        <5>2. h[nx] = [id |-> 0, dir |-> pd]
          BY <1>0, <5>1, Zenon DEF DirBody, Lost
        <5>3. r.dir = pd
          BY <4>2, <5>2
        <5>. QED BY <2>10, <3>1, <5>3, Zenon DEF r, at
      <4>7. CASE c # 0
        <5>1. c \in S /\ At(S, lab, st, key, c) /\ st[c] = Len(lab[x]) + 1 /\ st[x] < st[c]
          BY <2>7, <4>5, <4>7 DEF At
        <5>2. DirAt(ns, S, lab, st, key, sep, c)
          BY <2>5, <5>1
        <5>3. DirGood(S, lab, key, h[<<c, st[c], pd>>].dir)
          BY <3>1, <4>4, <5>2, Zenon DEF DirAt, h
        <5>4. r.dir = h[<<c, st[c], pd>>].dir
          BY <4>2, <5>1, Zenon
        <5>. QED BY <2>10, <5>3, <5>4, Zenon DEF r, at
      <4>. QED BY <4>6, <4>7
    <3>. QED BY <3>2, <3>3
  <2>. QED BY <2>13, <2>14
<1>4. SUFFICES ASSUME NEW x \in S, At(S, lab, st, key, x), ~Good(x) PROVE FALSE
  BY Zenon
<1>. HIDE DEF Good
<1>. QED BY <1>3, <1>4

\* Directory references are to nodes whose labels are prefixes of the key.
LEMMA RefGood ==
  ASSUME NEW S, NEW lab, NEW st, Tree(node, S, lab, st, root), NEW key \in Seq(Byte)
  PROVE  DirGood(S, lab, key, kvspaceShmResolveRef(key).dir)
<1>. DEFINE sep == last_key_sep(key)
            d0 == [id |-> 0, depth |-> 0]
            h == DirFun(node, key, sep)
            r == h[<<root, 0, d0>>]
<1>1. kvspaceShmResolveRef(key) = r
  BY FindDirIs, Zenon DEF kvspaceShmResolveRef
<1>2. NodesOK(node) /\ Len(node) \in Nat /\ Top(S, st, root) /\ root \in 0 .. Len(node)
  BY TreeParts
<1>3. d0 \in DirType(node, key) /\ d0.id = 0
  BY <1>2 DEF DirType
<1>4. DirGood(S, lab, key, d0)
  BY <1>3, Zenon DEF DirGood
<1>. HIDE DEF d0, sep
<1>5. CASE root = 0
  <2>. DEFINE at == <<root, 0, d0>>
  <2>1. at \in DirPlaces(node, key) /\ at[1] = 0 /\ at[3] = d0
    BY <1>2, <1>3, <1>5 DEF DirPlaces
  <2>2. h[at] = DirBody(node, key, sep, h, at)
    BY <1>2, <2>1, DirEq, Zenon
  <2>. HIDE DEF at, h
  <2>3. h[at] = [id |-> 0, dir |-> d0]
    BY <2>1, <2>2, Zenon DEF DirBody, Lost
  <2>4. r.dir = d0
    BY <2>3 DEF at
  <2>. QED BY <1>1, <1>4, <2>4, Zenon
<1>6. CASE root # 0
  <2>1. root \in S /\ st[root] = 0
    BY <1>2, <1>6, Zenon DEF Top
  <2>2. At(S, lab, st, key, root)
    BY <2>1, AgreeFacts DEF At
  <2>3. DirAt(node, S, lab, st, key, sep, root)
    BY <2>1, <2>2, DirFinds, Zenon
  <2>4. DirGood(S, lab, key, h[<<root, st[root], d0>>].dir)
    BY <1>3, <1>4, <2>3, Zenon DEF DirAt
  <2>. QED BY <1>1, <2>1, <2>4, Zenon
<1>. QED BY <1>5, <1>6

\* A lookup has one answer.
LEMMA OneAnswer ==
  ASSUME NEW ns, NEW S, NEW lab, NEW st, NEW top, Tree(ns, S, lab, st, top), NEW key,
         NEW a, NEW b, Finds(ns, S, lab, key, a), Finds(ns, S, lab, key, b)
  PROVE  a = b
<1>1. OneNode(S, lab)
  BY TreeParts
<1>. QED BY <1>1 DEF Finds, OneNode

\* From node x, whose label has n bytes, a key is found as it is from the root.
WalksOn(ns, top, key, x, n) ==
  art_walk(ns, art_child(ns, x, key[n + 1]), key, n + 1) = art_walk(ns, top, key, 0)

\* A key is found from any node on its way as it is from the root.
LEMMA WalkOn ==
  ASSUME NEW ns, NEW S, NEW lab, NEW st, NEW top, Tree(ns, S, lab, st, top),
         NEW key \in Seq(Byte), NEW x \in S, Within(lab[x], key), Len(lab[x]) < Len(key)
  PROVE  WalksOn(ns, top, key, x, Len(lab[x]))
<1>. DEFINE c == art_child(ns, x, key[Len(lab[x]) + 1])
            r == art_walk(ns, c, key, Len(lab[x]) + 1)
<1>1. c = art_child(ns, x, key[Len(lab[x]) + 1])
  OBVIOUS
<1>2. NodesOK(ns) /\ Len(ns) \in Nat /\ Len(lab[x]) \in Nat
  <2>1. NodeIn(ns, lab, st, x)
    BY TreeNode, Zenon
  <2>. QED BY <2>1, TreeParts, Zenon DEF NodeIn
<1>. HIDE DEF c
<1>3. OnTo(ns, S, lab, st, key, x, c)
  BY <1>1, GoesOn, Zenon
<1>4. /\ c # 0 => At(S, lab, st, key, c) /\ st[c] = Len(lab[x]) + 1
      /\ c = 0 => \A y \in S : ~(Len(lab[x]) < Len(lab[y]) /\ Agree(lab[y], key, Len(lab[x]) + 1))
  BY <1>3, Zenon DEF OnTo
<1>5. Finds(ns, S, lab, key, r)
  <2>1. CASE c = 0
    <3>1. Len(lab[x]) + 1 \in 0 .. Len(key) /\ 0 \in 0 .. Len(ns)
      BY <1>2
    <3>2. WalkStep(ns, key, 0, Len(lab[x]) + 1, art_walk(ns, 0, key, Len(lab[x]) + 1))
      BY <1>2, <3>1, WalkEq, Zenon
    <3>3. r = 0
      BY <2>1, <3>2, Zenon DEF WalkStep, Lost
    <3>4. \A y \in S : lab[y] # key
      BY <1>2, <1>4, <2>1 DEF Agree
    <3>. QED BY <3>3, <3>4 DEF Finds
  <2>2. CASE c # 0
    <3>1. c \in S /\ At(S, lab, st, key, c) /\ st[c] = Len(lab[x]) + 1
      BY <1>4, <2>2, Zenon DEF At
    <3>2. Finds(ns, S, lab, key, art_walk(ns, c, key, st[c]))
      BY <3>1, WalkFinds, Zenon
    <3>. QED BY <3>1, <3>2
  <2>. QED BY <2>1, <2>2
<1>6. Finds(ns, S, lab, key, art_walk(ns, top, key, 0))
  BY FindExact, Zenon
<1>. HIDE DEF r
<1>7. r = art_walk(ns, top, key, 0)
  BY <1>5, <1>6, OneAnswer, Zenon
<1>. QED BY <1>7, Zenon DEF r, c, WalksOn

\* A key looked up from a node that stood for the first bytes of it before.
LEMMA RefLeaf ==
  ASSUME NEW S, NEW lab, NEW st, NEW S2, NEW lab2, NEW st2,
         Tree(node, S, lab, st, root), Tree(node', S2, lab2, st2, root'), Carried(S, lab, node', S2, lab2),
         NEW j \in Seq(Byte), NEW dir, dir.id \in S, dir.depth = Len(lab[dir.id]),
         Within(lab[dir.id], j), lab[dir.id] # j
  PROVE  (ref_leaf(dir, j) = art_find(j))'
<1>1. PICK x \in S2 : lab2[x] = lab[dir.id] /\ Stays(node', dir.id, x)
  BY Zenon DEF Carried
<1>2. NodesOK(node') /\ x \in 1 .. Len(node') /\ node'[x].kind # MOVED /\ x # 0
  <2>1. NodesOK(node') /\ x \in 1 .. Len(node') /\ x # 0
    BY TreeParts, Zenon
  <2>2. node'[x].kind # MOVED
    BY Zenon DEF Tree
  <2>. QED BY <2>1, <2>2
<1>3. art_follow(node', dir.id) = x
  BY <1>1, <1>2, FollowStays, Zenon
<1>4. Len(lab2[x]) \in Nat /\ lab2[x] \in Seq(Byte)
  <2>1. NodeIn(node', lab2, st2, x)
    BY TreeNode, Zenon
  <2>. QED BY <2>1, Zenon DEF NodeIn
<1>5. Within(lab2[x], j) /\ lab2[x] # j /\ dir.depth = Len(lab2[x])
  BY <1>1
<1>6. Len(lab2[x]) < Len(j)
  <2>1. Len(lab2[x]) <= Len(j) /\ Agree(lab2[x], j, Len(lab2[x]))
    BY <1>5, Zenon DEF Within
  <2>2. Len(lab2[x]) # Len(j)
    BY <1>4, <1>5, <2>1, SameString
  <2>. QED BY <1>4, <2>1, <2>2
<1>7. ref_leaf(dir, j)' = art_walk(node', art_child(node', x, j[Len(lab2[x]) + 1]), j, Len(lab2[x]) + 1)
  <2>1. ~(x = 0 \/ dir.depth > Len(j)) /\ dir.depth # Len(j)
    BY <1>2, <1>4, <1>5, <1>6
  <2>2. ref_leaf(dir, j)' = IF x = 0 \/ dir.depth > Len(j) THEN 0
                            ELSE IF dir.depth = Len(j) THEN x
                            ELSE art_walk(node', art_child(node', x, j[dir.depth + 1]), j, dir.depth + 1)
    BY <1>3, Zenon DEF ref_leaf
  <2>. QED BY <1>5, <2>1, <2>2
<1>8. art_walk(node', art_child(node', x, j[Len(lab2[x]) + 1]), j, Len(lab2[x]) + 1) = art_walk(node', root', j, 0)
  <2>1. WalksOn(node', root', j, x, Len(lab2[x]))
    BY <1>5, <1>6, WalkOn, Zenon
  <2>. QED BY <2>1, Zenon DEF WalksOn
<1>9. art_find(j)' = art_walk(node', root', j, 0)
  BY DEF art_find
<1>. QED BY <1>7, <1>8, <1>9, Zenon

\* What the step of DirRefExact says.
RefsNow ==
  \A r \in {r \in DirRefs : r[1].id # 0} :
    \A j \in {j \in keys : IsStrictPrefix(r[2], j)} : (ref_leaf(r[1], j) = art_find(j))'

\* The references handed out are good before the step and their nodes stay.
LEMMA RefsNext == Roomy /\ ArtInv /\ [Next]_vars => RefsNow
<1>1. SUFFICES ASSUME Roomy, ArtInv, [Next]_vars,
                      NEW r \in DirRefs, r[1].id # 0, NEW j \in keys, IsStrictPrefix(r[2], j)
               PROVE  (ref_leaf(r[1], j) = art_find(j))'
  BY Zenon DEF RefsNow
<1>2. PICK S, lab, st : Tree(node, S, lab, st, root)
  BY <1>1, Zenon DEF ArtInv, IsTree
<1>3. Carries(node, S, lab, node', root')
  BY <1>1, <1>2, StepCarries, Zenon
<1>4. PICK S2, lab2, st2 : Tree(node', S2, lab2, st2, root') /\ Carried(S, lab, node', S2, lab2)
  BY <1>3, Zenon DEF Carries
<1>5. keys \subseteq Seq(Byte)
  <2>1. keys \in Families
    BY <1>1 DEF ArtInv
  <2>. QED BY <2>1, KeyType
<1>6. PICK k \in keys : r = <<kvspaceShmResolveRef(k).dir, SubSeq(k, 1, kvspaceShmResolveRef(k).dir.depth)>>
  BY <1>1 DEF DirRefs
<1>. PICK dir : dir = kvspaceShmResolveRef(k).dir
  OBVIOUS
<1>7. r[1] = dir /\ r[2] = SubSeq(k, 1, dir.depth)
  BY <1>6
<1>8. DirGood(S, lab, k, dir)
  BY <1>2, <1>5, RefGood
<1>9. dir.id \in S /\ dir.depth = Len(lab[dir.id]) /\ Within(lab[dir.id], k)
  BY <1>1, <1>7, <1>8, Zenon DEF DirGood
<1>. DEFINE l == lab[dir.id]
<1>10. l \in Seq(Byte) /\ Len(l) \in Nat
  <2>1. NodeIn(node, lab, st, dir.id)
    BY <1>2, <1>9, TreeNode, Zenon
  <2>. QED BY <2>1, Zenon DEF NodeIn
<1>11. r[2] = l
  <2>1. k \in Seq(Byte) /\ Len(l) <= Len(k) /\ Agree(l, k, Len(l)) /\ r[2] = SubSeq(k, 1, Len(l))
    BY <1>5, <1>7, <1>9 DEF Within
  <2>. DEFINE q == SubSeq(k, 1, Len(l))
  <2>. HIDE DEF l
  <2>2. q \in Seq(Byte) /\ Len(q) = Len(l) /\ \A i \in 1 .. Len(l) : q[i] = k[i]
    BY <1>10, <2>1
  <2>. HIDE DEF q
  <2>3. Agree(q, l, Len(q))
    BY <2>1, <2>2 DEF Agree
  <2>4. q = l
    BY <1>10, <2>2, <2>3, SameString
  <2>. QED BY <2>1, <2>4 DEF q
<1>12. Within(l, j) /\ l # j
  <2>. HIDE DEF l
  <2>1. IsPrefix(l, j) /\ l # j
    BY <1>1, <1>11, Zenon DEF IsStrictPrefix
  <2>. QED BY <1>5, <1>10, <2>1, PrefixIs
<1>13. j \in Seq(Byte)
  BY <1>5
<1>14. (ref_leaf(dir, j) = art_find(j))'
  BY <1>2, <1>4, <1>9, <1>12, <1>13, RefLeaf, Zenon
<1>. QED BY <1>7, <1>14

\* A directory reference finds every key below it, however the tree has changed
\* since it was handed out.
THEOREM ArtDirRefs == ASSUME Roomy PROVE Spec => DirRefExact
<1>1. ArtInv /\ [Next]_vars => RefsNow
  BY RefsNext
<1>2. Spec => []ArtInv
  BY ArtTree
<1>3. DirRefExact <=> [][RefsNow]_vars
  BY PTL DEF DirRefExact, RefsNow
<1>. QED BY <1>1, <1>2, <1>3, PTL DEF Spec

==============================================================================
