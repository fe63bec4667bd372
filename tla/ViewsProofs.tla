------------------------------ MODULE ViewsProofs ------------------------------
(***************************************************************************)
(* Safety of view tokens and writes of one key, for any calls, any number  *)
(* of nodes and boxes, deaths at any store and a reader at any load:       *)
(* TypeOK, EvenAtRest, CallTakesEffect and ReadAtomic hold in every        *)
(* behaviour of Views.                                                     *)
(*                                                                         *)
(* The argument for the calls.  The stores left are the end of one of nine *)
(* plans, and how many are left says what the key looks like.  A token     *)
(* with the struct_gen of its node is one of the node that the index leads *)
(* to, and a reference follows the forwards to that node: whatever a call  *)
(* comes with, it changes the key's own node, or nothing.                  *)
(*                                                                         *)
(* The argument for the reader.  Its second walk meets a node in use that  *)
(* the index leads to, which is no older than the node of its token, and   *)
(* forwards only lead to younger ones.  So if the two tokens agree, this   *)
(* node was the key's node then; no box comes back, so it had the box; and *)
(* value_gen was the same and even throughout, so nobody wrote to the box  *)
(* from the first token to the second.                                     *)
(***************************************************************************)
EXTENDS Views, WellFoundedInduction, TLAPS

V    == Values \union {Blank}
Pair == [1 .. 2 -> V]

AnyVal   == {NoVal} \union {Box(b) : b \in Nat} \union {To(m) : m \in Nat}
ValOf(n) == {NoVal} \union {Box(b) : b \in 1 .. Len(body)} \union {To(m) : m \in n + 1 .. epoch}
NodeType == [moved : BOOLEAN, val : AnyVal, sg : Nat, vg : Nat]
Stores   == {"add", "memcpy", "value", "struct", "store", "cas", "leaf", "clone", "type",
             "forward", "unlink", "link", "fill"}
Task     == [do : Stores, node : Nat, box : Nat, half : 0 .. 2, v : V]

\* A box is still to be taken.
Taking == IF At("leaf") \/ At("store") THEN 1 ELSE 0

Types ==
  /\ node \in [Node -> NodeType] /\ epoch \in 0 .. MaxNode /\ link \in 0 .. epoch
  /\ \A n \in Node : node[n].val \in ValOf(n)
  /\ body \in Seq(Pair) /\ calls \in 0 .. MaxCalls
  /\ Len(body) + calls + Taking <= MaxCalls + 1
  /\ rc \in {0, 1, 2} /\ dead \subseteq {"odd", "torn", "moving"}
  /\ now \in Pair \union {None} /\ was \in Pair \union {None}
  /\ todo \in Seq(Task)

------------------------------------------------------------------------------
(* The call under way *)

\* The index leads to a node in use.
Alive == link # 0 /\ ~node[link].moved

\* What the key has while nobody copies, and half of a copy is done.
Mid == At("memcpy") /\ Now.half = 2

\* One half is written, under an odd value_gen or not.
M(b, h, v) == [do |-> "memcpy", node |-> 0, box |-> b, half |-> h, v |-> v]
Puts(what, n, v) == [Do(what, n) EXCEPT !.v = v]

\* Of a plan, given from its end, s stores are left, and z = 1 fills in a body.
Run(P, z, w, s) ==
  /\ z \in {0, 1} /\ s \in Nat /\ Len(todo) = s + z
  /\ \A i \in 1 .. s : todo[i] = P[s + 1 - i]
  /\ z = 1 => todo[s + 1] = Puts("fill", 0, w) /\ call.op = "WriteNewPlace" /\ w = call.v

Goal(z) == IF z = 1 THEN Whole(Blank) ELSE Expected
Maybe   == {was, Expected} \union (IF call.op = "WriteNewPlace" THEN {Whole(Blank)} ELSE {})

InPlaceRun(z, s) == \E n \in Node, b \in Nat, v, w \in V :
  /\ s \in 1 .. 4 /\ Run(<<Do("add", n), M(b, 2, v), M(b, 1, v), Do("add", n)>>, z, w, s)
  /\ n = link /\ Alive /\ node[n].val = Box(b)
  /\ dead = {} => /\ Goal(z) = Whole(v)
                  /\ now = IF s >= 2 THEN was ELSE Goal(z)
                  /\ s = 2 => body[b][1] = v

PartRun(s) == \E n \in Node, b \in Nat, v \in V :
  /\ s \in 1 .. 3 /\ Run(<<Do("add", n), M(b, 1, v), Do("add", n)>>, 0, v, s)
  /\ n = link /\ Alive /\ node[n].val = Box(b)
  /\ dead = {} => /\ Expected = <<v, was[2]>>
                  /\ now = IF s >= 2 THEN was ELSE Expected

LeafRun(z, s) == \E e \in Node, v, w \in V :
  /\ s \in 1 .. 4
  /\ Run(<<Do("value", e), Do("struct", e), Do("link", e), Puts("leaf", e, v)>>, z, w, s)
  /\ e = IF s = 4 THEN epoch + 1 ELSE epoch
  /\ s >= 3 => link = 0
  /\ s = 3 => /\ ~node[e].moved /\ node[e].val = Box(Len(body))
              /\ Len(body) > 0 /\ body[Len(body)] = Whole(v)
  /\ s <= 2 => link = e /\ Alive
  /\ dead = {} => Goal(z) = Whole(v) /\ now = IF s >= 3 THEN was ELSE Goal(z)

StoreRun(z, s) == \E n \in Node, v, w \in V :
  /\ s \in 1 .. 3 /\ Run(<<Do("value", n), Do("struct", n), Puts("store", n, v)>>, z, w, s)
  /\ n = link /\ Alive
  /\ dead = {} => Goal(z) = Whole(v) /\ now = IF s = 3 THEN was ELSE Goal(z)

\* The index leads to a node that a dead writer has marked.
MovedRun(z) == \E n \in Node, v, w \in V :
  /\ Run(<<Puts("store", n, v)>>, z, w, 1)
  /\ n = link /\ node[n].moved /\ dead # {}

DelRun(s) == \E n \in Node :
  /\ s \in 1 .. 3 /\ Run(<<Do("struct", n), Do("value", n), Do("cas", n)>>, 0, Blank, s)
  /\ n = link
  /\ dead = {} => Expected = None /\ now = IF s = 3 THEN was ELSE None

ViewDelRun(s) == \E n \in Node :
  /\ s \in 1 .. 2 /\ Run(<<Do("value", n), Do("cas", n)>>, 0, Blank, s)
  /\ n = link
  /\ dead = {} => Expected = None /\ now = IF s = 2 THEN was ELSE None

CopyRun(s) == \E b \in Nat, v \in V :
  /\ \/ /\ s \in 1 .. 2 /\ Run(<<M(b, 2, v), M(b, 1, v)>>, 0, v, s)
        /\ dead = {} => Expected = Whole(v) /\ (s = 1 => body[b][1] = v)
     \/ /\ s = 1 /\ Run(<<M(b, 1, v)>>, 0, v, s)
        /\ dead = {} => Expected = <<v, was[2]>> /\ now = was
  /\ Alive /\ node[link].val = Box(b) /\ call.op \in {"SetPart", "WriteNewPlace"}
  /\ dead = {} => now \in Maybe

GrowRun(s) == \E n, e \in Node :
  /\ s \in 1 .. 7
  /\ Run(<<Do("link", e), Do("unlink", n), [Do("forward", n) EXCEPT !.box = e], Do("type", n),
           Do("struct", n), Do("struct", e), Do("clone", e)>>, 0, Blank, s)
  /\ e = IF s = 7 THEN epoch + 1 ELSE epoch
  /\ n < e /\ link = IF s = 1 THEN 0 ELSE n
  /\ node[n].moved <=> s <= 3
  /\ s < 7 => ~node[e].moved
  /\ s \in 3 .. 6 => node[e].val = node[n].val
  /\ s <= 2 => node[n].val = To(e)
  /\ s <= 3 /\ "torn" \notin dead =>
       now = IF HasBox(e) THEN body[BoxOf(e)] ELSE None
  /\ dead = {} => Expected = was /\ now = was

FillRun == \E w \in V :
  /\ Run(<<>>, 1, w, 0)
  /\ dead = {} => now = Whole(Blank)

Shape ==
  \/ todo = <<>> /\ (dead = {} /\ call.op # "none" => now \in Outcomes)
  \/ /\ rc = 0
     /\ \/ \E z \in {0, 1}, s \in 1 .. 4 :
             InPlaceRun(z, s) \/ LeafRun(z, s) \/ StoreRun(z, s) \/ MovedRun(z)
        \/ \E s \in 1 .. 7 :
             PartRun(s) \/ DelRun(s) \/ ViewDelRun(s) \/ CopyRun(s) \/ GrowRun(s)
        \/ FillRun

\* An in-place copy is between its two increments of value_gen.
Copying == \/ At("add") /\ (Len(todo) = 1 \/ todo[2].do # "memcpy")
           \/ At("memcpy") /\ \E i \in DOMAIN todo : todo[i].do = "add"

EvenInv ==
  "odd" \notin dead =>
    \A n \in Node : node[n].vg % 2 = IF n = link /\ Copying THEN 1 ELSE 0

\* The value of the key is what a walk finds, except in the middle of a copy and of a
\* move.
NowInv ==
  /\ Alive => (now = None <=> ~HasBox(link))
  /\ Alive /\ HasBox(link) /\ ~Mid /\ "torn" \notin dead => now = body[BoxOf(link)]
  /\ "moving" \notin dead /\ ~(At("forward") \/ At("unlink") \/ At("link")) => ~Moving

\* The node that the key has, or is about to have.
Home == IF At("forward") \/ At("unlink") \/ At("link") THEN epoch ELSE link
Dest == IF At("unlink") \/ At("link") THEN epoch ELSE link

\* The nodes from n on lead to the key's node; a token with the struct_gen of its
\* node is one of this node.
Leads(n) == \E S \in SUBSET Node :
  /\ n \in S
  /\ \A m \in S : m = Dest \/ (node[m].moved /\ \E x \in S : node[m].val = To(x))
TokInv ==
  tok # NoTok =>
    /\ tok.node \in 1 .. epoch /\ tok.box \in Nat /\ Leads(tok.node)
    /\ Alive \/ At("forward") \/ At("unlink") \/ (At("link") /\ Len(todo) = 1)
    /\ tok.sg \in Nat /\ tok.sg <= node[tok.node].sg
    /\ tok.node # link \/ node[link].moved \/ At("type") => tok.sg < node[tok.node].sg

\* No node in use other than the key's has the key's box, as far as tokens and
\* forwards tell.
Sole(n, b) ==
  Home # 0 /\ ~node[Home].moved /\ node[Home].val = Box(b) => n = Home \/ node[n].moved
Older(n) == Alive => n <= link
ForwardInv == \A m, x \in Node : node[m].val = To(x) =>
  /\ node[m].moved
  /\ \A b \in Nat : node[x].val = Box(b) => Sole(x, b)
  /\ Older(x)

WriterInv == Shape /\ EvenInv /\ NowInv /\ TokInv /\ ForwardInv

------------------------------------------------------------------------------
(* The reader *)

TokType  == [node : Nat, box : Nat, sg : Nat, vg : Nat]
ReadAt   == {"walk", "leaf", "follow", "val", "sg", "vg", "check", "checkval", "half1", "half2",
             "compare"}
ReadType == [at : ReadAt \union {"done", "lost"}, legal : SUBSET (Pair \union {None}),
             over : SUBSET {"odd", "torn", "moving", "move", "bare"}, node : Nat,
             t : TokType, first : TokType, copy : Pair, got : Pair \union {None}]
Active   == r.at \in ReadAt
Excused  == r.over \intersect {"bare", "odd", "torn"} # {}
Second   == r.first # NoTok

\* What happens meanwhile is noted.
OverInv ==
  Active => /\ now \in r.legal /\ dead \subseteq r.over
            /\ Moving => "move" \in r.over
            /\ Bare /\ Mid => "bare" \in r.over

\* A node on the way: if it has no value, or has moved, the reader may miss the key.
Met(n) ==
  /\ n \in 1 .. epoch /\ Older(n)
  /\ node[n].moved => "move" \in r.over
  /\ ~HasBox(n) => None \in r.legal \/ "move" \in r.over
  /\ \A b \in Nat : node[n].val = Box(b) => Sole(n, b)

\* A token that has been taken.
Held(t)   == /\ t.node \in 1 .. epoch /\ t.box \in 1 .. Len(body)
             /\ Older(t.node) /\ Sole(t.node, t.box)
Dated(t)  == t.vg <= node[t.node].vg
Steady(t) == ~node[t.node].moved /\ node[t.node].vg = t.vg /\ t.vg % 2 = 0 /\ ~Excused

\* The copy will do if nothing has changed since.
Legal(t) == node[t.node].vg = t.vg /\ t.vg % 2 = 0 /\ ~Excused => r.copy \in r.legal

ReadInv ==
  Active =>
    /\ r.at \in {"leaf", "follow", "val"} => Met(r.node)
    /\ r.at = "leaf" => r.node = link \/ node[r.node].moved
    /\ r.at \in ReadAt \ {"walk", "leaf", "follow", "val"} => Held(r.t) /\ r.t.node = r.node
    /\ r.at \in {"check", "checkval", "half1", "half2", "compare"} => Dated(r.t)
    /\ r.at \in {"check", "checkval", "half1", "half2"} => ~Second
    /\ r.at = "half2" /\ Steady(r.t) => r.copy[1] = body[r.t.box][1]

SecondInv ==
  Active /\ Second =>
    /\ Held(r.first) /\ Dated(r.first)
    /\ Steady(r.first) => r.copy = body[r.first.box]
    /\ r.at \in {"follow", "val", "sg", "vg", "compare"} => r.first.node <= r.node
    /\ r.at \in {"follow", "val"} /\ r.node = r.first.node
         /\ node[r.node].val = Box(r.first.box) => Legal(r.first)
    /\ r.at \in {"sg", "vg"} /\ r.t.node = r.first.node /\ r.t.box = r.first.box => Legal(r.first)
    /\ r.at = "compare" /\ r.t = r.first /\ r.t.vg % 2 = 0 /\ ~Excused => r.copy \in r.legal

ReaderInv == (r = Resting \/ r \in ReadType) /\ OverInv /\ ReadInv /\ SecondInv /\ ReadAtomic

IInv == Types /\ WriterInv /\ ReaderInv

------------------------------------------------------------------------------
(* Values, nodes and plans *)

\* Every nonempty set of naturals has a least element.
LEMMA Least ==
  ASSUME NEW T, T \subseteq Nat, T # {}
  PROVE  \E m \in T : \A j \in T : m <= j
<1>1. IsWellFoundedOn(OpToRel(<, Nat), Nat)
  BY NatLessThanWellFounded, Zenon
<1>2. PICK m \in T : \A j \in T : ~(<<j, m>> \in OpToRel(<, Nat))
  BY <1>1, WFMin, Zenon
<1>3. ASSUME NEW j \in T PROVE ~(j < m)
  <2>1. j \in Nat /\ m \in Nat
    OBVIOUS
  <2>. QED BY <2>1, <1>2, Zenon DEF OpToRel
<1>. QED BY <1>3

\* The three forms of a val word.
LEMMA ValForms ==
  /\ \A b : Box(b)[1] = "box" /\ Box(b)[2] = b /\ Box(b) # NoVal
  /\ \A m : To(m)[1] = "node" /\ To(m)[2] = m /\ To(m) # NoVal
  /\ NoVal[1] = "none"
  /\ \A b, c : Box(b) = Box(c) => b = c
  /\ \A b, m : Box(b) # To(m)
  /\ \A m, x : To(m) = To(x) => m = x
BY DEF Box, To, NoVal

\* A val word is what its tag says, and a forward leads to a younger node.
LEMMA ValFacts ==
  ASSUME Types, NEW n \in Node
  PROVE  /\ HasBox(n) => node[n].val = Box(BoxOf(n)) /\ BoxOf(n) \in 1 .. Len(body)
         /\ node[n].val[1] = "node" =>
              node[n].val = To(node[n].val[2]) /\ node[n].val[2] \in n + 1 .. epoch
         /\ \A b : node[n].val = Box(b) => HasBox(n) /\ BoxOf(n) = b /\ b \in 1 .. Len(body)
         /\ \A m : node[n].val = To(m) => m \in n + 1 .. epoch /\ ~HasBox(n)
         /\ node[n].val = NoVal => ~HasBox(n)
<1>1. node[n].val \in ValOf(n)
  BY DEF Types
<1>2. CASE node[n].val = NoVal
  BY <1>2, ValForms DEF HasBox
<1>3. CASE \E b \in 1 .. Len(body) : node[n].val = Box(b)
  BY <1>3, ValForms DEF HasBox, BoxOf
<1>4. CASE \E m \in n + 1 .. epoch : node[n].val = To(m)
  BY <1>4, ValForms DEF HasBox
<1>. QED BY <1>1, <1>2, <1>3, <1>4 DEF ValOf

\* A pair is not None.
LEMMA PairFacts ==
  /\ None \notin Pair
  /\ \A v \in V : Whole(v) \in Pair /\ Whole(v)[1] = v /\ Whole(v)[2] = v
  /\ \A v, w \in V : <<v, w>> \in Pair /\ <<v, w>>[1] = v /\ <<v, w>>[2] = w
  /\ \A p \in Pair : p[1] \in V /\ p[2] \in V /\ p = <<p[1], p[2]>>
<1>1. ASSUME NEW v \in V, NEW w \in V
      PROVE  <<v, w>> \in Pair /\ <<v, w>>[1] = v /\ <<v, w>>[2] = w
  BY DEF Pair
<1>2. None \notin Pair
  <2>1. ASSUME None \in Pair PROVE FALSE
    <3>1. DOMAIN None = 1 .. 2
      BY <2>1 DEF Pair
    <3>2. DOMAIN None = 1 .. 0
      BY DEF None
    <3>. QED BY <3>1, <3>2, 1 \in 1 .. 2, 1 \notin 1 .. 0
  <2>. QED BY <2>1
<1>3. ASSUME NEW p \in Pair PROVE p[1] \in V /\ p[2] \in V /\ p = <<p[1], p[2]>>
  BY DEF Pair
<1>. QED BY <1>1, <1>2, <1>3 DEF Whole

\* The tasks are what they are made of.
LEMMA TaskFacts ==
  /\ \A what, n : /\ Do(what, n).do = what /\ Do(what, n).node = n /\ Do(what, n).v = Blank
                  /\ Do(what, n).box = 0 /\ Do(what, n).half = 0
  /\ \A what, n, v : /\ Puts(what, n, v).do = what /\ Puts(what, n, v).node = n
                     /\ Puts(what, n, v).v = v /\ Puts(what, n, v).half = 0
  /\ \A b, h, v : /\ M(b, h, v).do = "memcpy" /\ M(b, h, v).box = b /\ M(b, h, v).half = h
                  /\ M(b, h, v).v = v /\ M(b, h, v).node = 0
  /\ \A n, e : LET f == [Do("forward", n) EXCEPT !.box = e]
               IN f.do = "forward" /\ f.node = n /\ f.box = e /\ f.half = 0
BY DEF Do, Puts, M

\* The stores of the plans are well-typed.
LEMMA TaskTypes ==
  /\ \A what \in Stores, n \in Nat : Do(what, n) \in Task
  /\ \A what \in Stores, n \in Nat, v \in V : Puts(what, n, v) \in Task
  /\ \A b \in Nat, h \in {1, 2}, v \in V : M(b, h, v) \in Task
  /\ \A n, e \in Nat : [Do("forward", n) EXCEPT !.box = e] \in Task
BY DEF Do, Puts, M, Task, V, Stores

\* What is left of a plan when one store is made.
LEMMA PopRun ==
  ASSUME todo \in Seq(Task), NEW P, NEW z, NEW w, NEW s \in Nat, s > 0,
         Run(P, z, w, s), Pops, call' = call
  PROVE  /\ todo # <<>> /\ Now = P[s] /\ Run(P, z, w, s - 1)'
         /\ s = 1 /\ z = 0 => todo' = <<>>
         /\ todo' \in Seq(Task)
<1>1. Len(todo) = s + z /\ z \in {0, 1} /\ todo # <<>>
  BY DEF Run
<1>2. /\ todo' \in Seq(Task) /\ Len(todo') = Len(todo) - 1
      /\ \A i \in 1 .. Len(todo) - 1 : todo'[i] = todo[i + 1]
  BY <1>1 DEF Pops
<1>3. \A i \in 1 .. s : todo[i] = P[s + 1 - i]
  BY DEF Run
<1>4. Now = P[s]
  BY <1>1, <1>3 DEF Now
<1>5. \A i \in 1 .. s - 1 : todo'[i] = P[(s - 1) + 1 - i]
  BY <1>1, <1>2, <1>3
<1>6. z = 1 => /\ todo'[(s - 1) + 1] = Puts("fill", 0, w)
               /\ call'.op = "WriteNewPlace" /\ w = call'.v
  BY <1>1, <1>2 DEF Run
<1>7. Run(P, z, w, s - 1)'
  BY <1>1, <1>2, <1>5, <1>6 DEF Run
<1>. QED BY <1>1, <1>2, <1>4, <1>7

\* The m stores of q are the plan P, given from its end.
IsPlan(q, P, m) == q \in Seq(Task) /\ Len(q) = m /\ \A i \in 1 .. m : q[i] = P[m + 1 - i]

\* A copy is one store per half.
LEMMA CopyForm ==
  ASSUME NEW b \in Nat, NEW v \in V
  PROVE  /\ Copy(b, v, <<1, 2>>) = <<M(b, 1, v), M(b, 2, v)>>
         /\ Copy(b, v, << 1 >>) = <<M(b, 1, v)>>
<1>1. Copy(b, v, <<1, 2>>) = <<M(b, 1, v), M(b, 2, v)>>
  <2>1. Copy(b, v, <<1, 2>>) = [i \in 1 .. 2 |-> M(b, <<1, 2>>[i], v)]
    BY DEF Copy, M
  <2>. QED BY <2>1
<1>2. Copy(b, v, << 1 >>) = <<M(b, 1, v)>>
  <2>1. Copy(b, v, << 1 >>) = [i \in 1 .. 1 |-> M(b, << 1 >>[i], v)]
    BY DEF Copy, M
  <2>. QED BY <2>1
<1>. QED BY <1>1, <1>2

\* An in-place write, and a copy without value_gen.
LEMMA PlanInPlace ==
  ASSUME NEW n \in Node, NEW b \in Nat, NEW v \in V
  PROVE  /\ IsPlan(InPlace(n, b, v, <<1, 2>>),
                   <<Do("add", n), M(b, 2, v), M(b, 1, v), Do("add", n)>>, 4)
         /\ IsPlan(InPlace(n, b, v, << 1 >>), <<Do("add", n), M(b, 1, v), Do("add", n)>>, 3)
         /\ IsPlan(Copy(b, v, <<1, 2>>), <<M(b, 2, v), M(b, 1, v)>>, 2)
         /\ IsPlan(Copy(b, v, << 1 >>), <<M(b, 1, v)>>, 1)
<1>1. Do("add", n) \in Task /\ M(b, 1, v) \in Task /\ M(b, 2, v) \in Task
  BY TaskTypes DEF Node, Stores
<1>. DEFINE a == Do("add", n)
            x == M(b, 1, v)
            y == M(b, 2, v)
<1>2. InPlace(n, b, v, <<1, 2>>) = <<a>> \o <<x, y>> \o <<a>>
  BY CopyForm DEF InPlace
<1>3. InPlace(n, b, v, << 1 >>) = <<a>> \o <<x>> \o <<a>>
  BY CopyForm DEF InPlace
<1>4. a \in Task /\ x \in Task /\ y \in Task
  BY <1>1
<1>5. Copy(b, v, <<1, 2>>) = <<x, y>> /\ Copy(b, v, << 1 >>) = <<x>>
  BY CopyForm
<1>. HIDE DEF a, x, y
<1>6. IsPlan(<<a>> \o <<x, y>> \o <<a>>, <<a, y, x, a>>, 4)
  BY <1>4 DEF IsPlan
<1>7. IsPlan(<<a>> \o <<x>> \o <<a>>, <<a, x, a>>, 3)
  BY <1>4 DEF IsPlan
<1>8. IsPlan(<<x, y>>, <<y, x>>, 2) /\ IsPlan(<<x>>, <<x>>, 1)
  BY <1>4 DEF IsPlan
<1>. QED BY <1>2, <1>3, <1>5, <1>6, <1>7, <1>8 DEF a, x, y

\* Deletion by key and by token.
LEMMA PlanDel ==
  ASSUME NEW n \in Node
  PROVE  /\ IsPlan(<<Do("cas", n), Do("value", n), Do("struct", n)>>,
                   <<Do("struct", n), Do("value", n), Do("cas", n)>>, 3)
         /\ IsPlan(<<Do("cas", n), Do("value", n)>>, <<Do("value", n), Do("cas", n)>>, 2)
<1>1. Do("cas", n) \in Task /\ Do("value", n) \in Task /\ Do("struct", n) \in Task
  BY TaskTypes DEF Node, Stores
<1>. QED BY <1>1 DEF IsPlan

\* A new box: for a key without a node, with one in use, and with a marked one.
LEMMA PlanSwap ==
  ASSUME Types, NEW v \in V, link = 0 => epoch < MaxNode
  PROVE  /\ link = 0 => LET e == epoch + 1
                        IN /\ e \in Node
                           /\ IsPlan(Swap(v), <<Do("value", e), Do("struct", e), Do("link", e),
                                                Puts("leaf", e, v)>>, 4)
         /\ Alive => link \in Node /\ IsPlan(Swap(v), <<Do("value", link), Do("struct", link),
                                                        Puts("store", link, v)>>, 3)
         /\ link # 0 /\ ~Alive => link \in Node /\ IsPlan(Swap(v), <<Puts("store", link, v)>>, 1)
<1>1. CASE link = 0
  <2>. DEFINE e == epoch + 1
  <2>1. e \in Node
    BY <1>1, ViewsAssumption DEF Types, Node
  <2>2. /\ Do("value", e) \in Task /\ Do("struct", e) \in Task /\ Do("link", e) \in Task
        /\ Puts("leaf", e, v) \in Task
    BY <2>1, TaskTypes DEF Node, Stores
  <2>3. Swap(v) = <<Puts("leaf", e, v), Do("link", e), Do("struct", e), Do("value", e)>>
    BY <1>1 DEF Swap, Puts
  <2>4. IsPlan(Swap(v), <<Do("value", e), Do("struct", e), Do("link", e), Puts("leaf", e, v)>>, 4)
    BY <2>2, <2>3 DEF IsPlan
  <2>. QED BY <1>1, <2>1, <2>4 DEF Alive
<1>2. CASE link # 0
  <2>1. link \in Node /\ epoch \in Nat
    BY <1>2, ViewsAssumption DEF Types, Node
  <2>2. Do("value", link) \in Task /\ Do("struct", link) \in Task /\ Puts("store", link, v) \in Task
    BY <2>1, TaskTypes DEF Node, Stores
  <2>3. CASE Alive
    <3>1. Swap(v) = <<Puts("store", link, v)>> \o <<Do("struct", link), Do("value", link)>>
      BY <1>2, <2>3 DEF Swap, Puts, Alive
    <3>2. IsPlan(Swap(v), <<Do("value", link), Do("struct", link), Puts("store", link, v)>>, 3)
      BY <2>2, <3>1 DEF IsPlan
    <3>. QED BY <1>2, <2>1, <2>3, <3>2
  <2>4. CASE ~Alive
    <3>1. Swap(v) = <<Puts("store", link, v)>> \o <<>>
      BY <1>2, <2>4 DEF Swap, Puts, Alive
    <3>2. IsPlan(Swap(v), <<Puts("store", link, v)>>, 1)
      BY <2>2, <3>1 DEF IsPlan
    <3>. QED BY <1>2, <2>1, <2>4, <3>2
  <2>. QED BY <2>3, <2>4
<1>. QED BY <1>1, <1>2

\* A node that moves.
LEMMA PlanGrow ==
  ASSUME Types, link # 0, epoch < MaxNode
  PROVE  LET e == epoch + 1
         IN /\ e \in Node /\ link \in Node /\ link < e
            /\ IsPlan(art_grow,
                 <<Do("link", e), Do("unlink", link), [Do("forward", link) EXCEPT !.box = e],
                   Do("type", link), Do("struct", link), Do("struct", e), Do("clone", e)>>, 7)
<1>. DEFINE e == epoch + 1
            f == [Do("forward", link) EXCEPT !.box = e]
<1>1. e \in Node /\ link \in Node /\ link < e
  BY ViewsAssumption DEF Types, Node
<1>2. /\ Do("link", e) \in Task /\ Do("unlink", link) \in Task /\ f \in Task
      /\ Do("type", link) \in Task /\ Do("struct", link) \in Task /\ Do("struct", e) \in Task
      /\ Do("clone", e) \in Task
  BY <1>1, TaskTypes DEF Node, Stores
<1>3. art_grow = <<Do("clone", e), Do("struct", e), Do("struct", link), Do("type", link), f,
                   Do("unlink", link), Do("link", e)>>
  BY DEF art_grow, Forward
<1>. HIDE DEF f
<1>4. IsPlan(art_grow, <<Do("link", e), Do("unlink", link), f, Do("type", link),
                         Do("struct", link), Do("struct", e), Do("clone", e)>>, 7)
  BY <1>2, <1>3 DEF IsPlan
<1>. QED BY <1>1, <1>4 DEF f

\* A call begins with all of its plan.
LEMMA NewRun ==
  ASSUME NEW q, NEW P, NEW m \in Nat, IsPlan(q, P, m), NEW w \in V
  PROVE  /\ todo' = q => Run(P, 0, w, m)' /\ todo' \in Seq(Task)
         /\ todo' = q \o <<Puts("fill", 0, w)>> /\ call'.op = "WriteNewPlace" /\ w = call'.v =>
              Run(P, 1, w, m)' /\ todo' \in Seq(Task)
<1>1. ASSUME todo' = q PROVE Run(P, 0, w, m)' /\ todo' \in Seq(Task)
  BY <1>1 DEF Run, IsPlan
<1>2. ASSUME todo' = q \o <<Puts("fill", 0, w)>>, call'.op = "WriteNewPlace", w = call'.v
      PROVE  Run(P, 1, w, m)' /\ todo' \in Seq(Task)
  <2>1. Puts("fill", 0, w) \in Task
    BY TaskTypes DEF Stores
  <2>2. /\ todo' \in Seq(Task) /\ Len(todo') = m + 1 /\ todo'[m + 1] = Puts("fill", 0, w)
        /\ \A i \in 1 .. m : todo'[i] = q[i]
    BY <1>2, <2>1 DEF IsPlan
  <2>. QED BY <1>2, <2>2 DEF Run, IsPlan
<1>. QED BY <1>1, <1>2

------------------------------------------------------------------------------
(* A call begins *)

Stands == UNCHANGED <<node, link, epoch, body, tok, dead, now, r>>

\* What the beginning of a call does: nothing but the plan, with its first store.
Opens ==
  /\ todo = <<>> /\ Stands /\ was' = now /\ calls' = calls - 1 /\ calls > 0
  /\ rc' \in {0, 1, 2} /\ todo' \in Seq(Task) /\ Shape'
  /\ todo' # <<>> =>
       /\ todo'[1].do \in {"add", "leaf", "store", "cas", "clone", "memcpy"}
       /\ todo'[1].do = "add" => Len(todo') >= 2 /\ todo'[2].do = "memcpy"
       /\ todo'[1].do = "memcpy" =>
            todo'[1].half = 1 /\ \A i \in DOMAIN todo' : todo'[i].do # "add"

\* A walk finds the node that the index leads to, if it is in use and has a box.
LEMMA ArtSearch ==
  ASSUME Types
  PROVE  /\ art_search = IF Alive /\ HasBox(link) THEN link ELSE 0
         /\ art_search # 0 => link \in Node /\ Alive /\ HasBox(link)
<1>1. link # 0 => link \in Node
  BY ViewsAssumption DEF Types, Node
<1>. QED BY <1>1 DEF art_search, Alive

\* What a call is for.
LEMMA Expects ==
  /\ call'.op \in {"Set", "ViewWrite", "WriteNewPlace"} => Expected' = Whole(call'.v)
  /\ call'.op \in {"Del", "ViewDel"} => Expected' = None
  /\ call'.op = "SetBelow" => Expected' = was'
  /\ call'.op \in {"SetPart", "SetPartByRef"} /\ call'.halves = <<1, 2>> =>
       Expected' = Whole(call'.v)
  /\ call'.op \in {"SetPart", "SetPartByRef"} /\ call'.halves = << 1 >> =>
       Expected' = <<call'.v, was'[2]>>
<1>1. /\ call'.op \in {"Set", "ViewWrite", "WriteNewPlace"} => Expected' = Whole(call'.v)
      /\ call'.op \in {"Del", "ViewDel"} => Expected' = None
      /\ call'.op = "SetBelow" => Expected' = was'
  BY DEF Expected
<1>2. ASSUME call'.op \in {"SetPart", "SetPartByRef"}
      PROVE  Expected' = [h \in {1, 2} |-> IF Contains(call'.halves, h) THEN call'.v ELSE was'[h]]
  BY <1>2 DEF Expected
<1>3. Contains(<<1, 2>>, 1) /\ Contains(<<1, 2>>, 2) /\ Contains(<< 1 >>, 1) /\ ~Contains(<< 1 >>, 2)
  BY DEF Contains
<1>4. \A x, y : <<x, y>> = [h \in {1, 2} |-> IF h = 1 THEN x ELSE y]
  <2>1. 1 .. 2 = {1, 2}
    OBVIOUS
  <2>. QED BY <2>1
<1>5. ASSUME call'.op \in {"SetPart", "SetPartByRef"}, call'.halves = <<1, 2>>
      PROVE  Expected' = Whole(call'.v)
  <2>1. Expected' = [h \in {1, 2} |-> call'.v]
    BY <1>2, <1>3, <1>5
  <2>. QED BY <2>1, <1>4 DEF Whole
<1>6. ASSUME call'.op \in {"SetPart", "SetPartByRef"}, call'.halves = << 1 >>
      PROVE  Expected' = <<call'.v, was'[2]>>
  <2>1. Expected' = [h \in {1, 2} |-> IF h = 1 THEN call'.v ELSE was'[2]]
    BY <1>2, <1>3, <1>6
  <2>. QED BY <2>1, <1>4
<1>. QED BY <1>1, <1>5, <1>6

\* A set: in place, into a new box, into a new leaf, or into a node left MOVED.
LEMMA SetOpens ==
  ASSUME Types, NowInv, todo = <<>>, Stands, was' = now, calls' = calls - 1, calls > 0, rc' = 0,
         link = 0 => epoch < MaxNode,
         NEW v \in V, NEW w \in V, NEW fits \in BOOLEAN, NEW z \in {0, 1}, NEW q,
         q = shm_set_local(art_search, v, fits),
         z = 0 => todo' = q,
         z = 1 => /\ todo' = q \o <<Puts("fill", 0, w)>>
                  /\ call'.op = "WriteNewPlace" /\ w = call'.v,
         Goal(z)' = Whole(v)
  PROVE  Opens
<1>1. /\ node' = node /\ link' = link /\ epoch' = epoch /\ body' = body /\ dead' = dead
      /\ now' = now /\ Alive' = Alive /\ was' = now
  BY DEF Stands, Alive
<1>2. ASSUME NEW P, NEW m \in Nat \ {0}, IsPlan(q, P, m)
      PROVE  /\ Run(P, z, w, m)' /\ todo' \in Seq(Task)
             /\ todo' # <<>> /\ todo'[1] = P[m]
             /\ m >= 2 => Len(todo') >= 2 /\ todo'[2] = P[m - 1]
  <2>1. Run(P, z, w, m)' /\ todo' \in Seq(Task)
    BY <1>2, NewRun
  <2>2. /\ Len(todo') = m + z /\ \A i \in 1 .. m : todo'[i] = P[m + 1 - i]
    BY <2>1 DEF Run
  <2>3. m + 1 - 1 = m /\ (m >= 2 => 2 \in 1 .. m /\ m + 1 - 2 = m - 1) /\ 1 \in 1 .. m
    OBVIOUS
  <2>. QED BY <2>1, <2>2, <2>3
<1>3. CASE art_search # 0 /\ fits
  <2>1. PICK n \in Node : n = link
    BY <1>3, ArtSearch
  <2>2. Alive /\ HasBox(link) /\ art_search = link
    BY <1>3, ArtSearch
  <2>3. PICK b \in Nat : b = BoxOf(n)
    BY <2>1, <2>2, ValFacts DEF Types
  <2>4. q = InPlace(n, b, v, <<1, 2>>)
    BY <1>3, <2>1, <2>2, <2>3 DEF shm_set_local
  <2>5. IsPlan(q, <<Do("add", n), M(b, 2, v), M(b, 1, v), Do("add", n)>>, 4)
    BY <2>4, PlanInPlace
  <2>6. /\ Run(<<Do("add", n), M(b, 2, v), M(b, 1, v), Do("add", n)>>, z, w, 4)'
        /\ todo' \in Seq(Task) /\ todo' # <<>>
        /\ todo'[1] = Do("add", n) /\ Len(todo') >= 2 /\ todo'[2] = M(b, 1, v)
    BY <2>5, <1>2
  <2>7. node'[n].val = Box(b)
    BY <1>1, <2>1, <2>2, <2>3, ValFacts
  <2>8. InPlaceRun(z, 4)'
    <3>1. n = link' /\ Alive' /\ now' = IF 4 >= 2 THEN was' ELSE Goal(z)'
      BY <1>1, <2>1, <2>2
    <3>2. 4 \in 1 .. 4 /\ 4 # 2
      OBVIOUS
    <3>. QED BY <3>1, <3>2, <2>6, <2>7 DEF InPlaceRun
  <2>9. Shape'
    BY <2>8 DEF Shape
  <2>. QED BY <2>6, <2>9, TaskFacts DEF Opens
<1>4. CASE ~(art_search # 0 /\ fits)
  <2>1. q = Swap(v)
    <3>1. art_search # 0 => HasBox(art_search)
      BY ArtSearch
    <3>. QED BY <1>4, <3>1 DEF shm_set_local
  <2>2. CASE link = 0
    <3>1. PICK e \in Node : e = epoch + 1
      BY <2>2, PlanSwap
    <3>2. IsPlan(q, <<Do("value", e), Do("struct", e), Do("link", e), Puts("leaf", e, v)>>, 4)
      BY <2>1, <2>2, <3>1, PlanSwap
    <3>3. /\ Run(<<Do("value", e), Do("struct", e), Do("link", e), Puts("leaf", e, v)>>, z, w, 4)'
          /\ todo' \in Seq(Task) /\ todo' # <<>> /\ todo'[1] = Puts("leaf", e, v)
      BY <3>2, <1>2
    <3>4. LeafRun(z, 4)'
      BY SMTT(30), <1>1, <2>2, <3>1, <3>3 DEF LeafRun
    <3>5. Shape'
      BY <3>4 DEF Shape
    <3>. QED BY <3>3, <3>5, TaskFacts DEF Opens
  <2>3. CASE Alive
    <3>1. PICK n \in Node : n = link
      BY <2>3, PlanSwap
    <3>2. IsPlan(q, <<Do("value", n), Do("struct", n), Puts("store", n, v)>>, 3)
      BY <2>1, <2>3, <3>1, PlanSwap
    <3>3. /\ Run(<<Do("value", n), Do("struct", n), Puts("store", n, v)>>, z, w, 3)'
          /\ todo' \in Seq(Task) /\ todo' # <<>> /\ todo'[1] = Puts("store", n, v)
      BY <3>2, <1>2
    <3>4. StoreRun(z, 3)'
      BY <1>1, <2>3, <3>1, <3>3 DEF StoreRun
    <3>5. Shape'
      BY <3>4 DEF Shape
    <3>. QED BY <3>3, <3>5, TaskFacts DEF Opens
  <2>4. CASE link # 0 /\ ~Alive
    <3>1. PICK n \in Node : n = link
      BY <2>4, PlanSwap
    <3>2. IsPlan(q, <<Puts("store", n, v)>>, 1)
      BY <2>1, <2>4, <3>1, PlanSwap
    <3>3. /\ Run(<<Puts("store", n, v)>>, z, w, 1)'
          /\ todo' \in Seq(Task) /\ todo' # <<>> /\ todo'[1] = Puts("store", n, v)
      BY <3>2, <1>2
    <3>4. node[n].moved /\ dead # {}
      BY <2>4, <3>1 DEF NowInv, Alive, Moving, At
    <3>5. MovedRun(z)'
      BY <1>1, <3>1, <3>3, <3>4 DEF MovedRun
    <3>6. Shape'
      BY <3>5 DEF Shape
    <3>. QED BY <3>3, <3>6, TaskFacts DEF Opens
  <2>. QED BY <2>2, <2>3, <2>4 DEF Alive
<1>. QED BY <1>3, <1>4

\* A call that is refused, with nothing done.
LEMMA RefusedOpens ==
  ASSUME NEW c, Begins(c, Refused)
  PROVE  Opens
<1>1. /\ todo' = <<>> /\ rc' = 1 /\ was' = now /\ now' = now
      /\ todo = <<>> /\ Stands /\ calls' = calls - 1 /\ calls > 0
  BY DEF Begins, Refused, Stands
<1>2. (now \in Outcomes)'
  BY <1>1 DEF Outcomes
<1>3. Shape'
  BY <1>1, <1>2 DEF Shape
<1>. QED BY <1>1, <1>3 DEF Opens

\* What the beginning of a call with a plan leaves behind.
Opened(c, P, m) ==
  /\ todo' \in Seq(Task) /\ todo' # <<>> /\ Run(P, 0, Blank, m)'
  /\ \A v \in V : Run(P, 0, v, m)'
  /\ \A i \in DOMAIN todo' : todo'[i] = P[m + 1 - i]
  /\ Len(todo') = m /\ todo'[1] = P[m] /\ (m >= 2 => todo'[2] = P[m - 1])
  /\ rc' = 0 /\ call' = c /\ was' = now /\ calls' = calls - 1 /\ calls > 0
  /\ todo = <<>> /\ Stands

\* Any other call, with all of its plan.
LEMMA RunOpens ==
  ASSUME NEW c, NEW q, Begins(c, Plan(q)), NEW P, NEW m \in Nat \ {0}, IsPlan(q, P, m)
  PROVE  Opened(c, P, m)
<1>1. /\ todo' = q /\ rc' = 0 /\ call' = c /\ was' = now /\ calls' = calls - 1 /\ calls > 0
      /\ todo = <<>> /\ Stands
  BY DEF Begins, Plan, Stands
<1>2. todo' \in Seq(Task) /\ \A v \in V : Run(P, 0, v, m)'
  <2>1. Blank \in V
    BY DEF V
  <2>. QED BY <1>1, <2>1, NewRun
<1>3. Len(todo') = m /\ DOMAIN todo' = 1 .. m /\ \A i \in 1 .. m : todo'[i] = P[m + 1 - i]
  BY <1>1 DEF IsPlan
<1>4. m + 1 - 1 = m /\ (m >= 2 => 2 \in 1 .. m /\ m + 1 - 2 = m - 1) /\ 1 \in 1 .. m
  OBVIOUS
<1>5. todo' # <<>>
  BY <1>3
<1>6. Blank \in V
  BY DEF V
<1>. QED BY <1>1, <1>2, <1>3, <1>4, <1>5, <1>6 DEF Opened

------------------------------------------------------------------------------
(* References and tokens *)

\* Forwards lead to younger nodes, so that following one after the other ends.
LEMMA FollowStep ==
  ASSUME Types, NEW id \in Node
  PROVE  art_follow(id) = IF ~node[id].moved THEN id
                          ELSE IF node[id].val[1] = "node" THEN art_follow(node[id].val[2]) ELSE 0
<1>. DEFINE D == 0 .. MaxNode
            B(f, n) == IF n = 0 THEN 0
                       ELSE IF ~node[n].moved THEN n
                       ELSE IF node[n].val[1] = "node" THEN f[node[n].val[2]] ELSE 0
            Ok(f, m) == \A n \in D : n + m > MaxNode => f[n] = B(f, n)
            T == {m \in Nat : ~\E f \in [D -> D] : Ok(f, m)}
            h == CHOOSE f : f = [n \in D |-> B(f, n)]
<1>1. /\ MaxNode \in Nat \ {0}
      /\ \A n \in Node : node[n].val[1] = "node" => node[n].val[2] \in n + 1 .. MaxNode
  BY ViewsAssumption, ValFacts DEF Types, Node
<1>2. ASSUME NEW m \in Nat, NEW f \in [D -> D], Ok(f, m)
      PROVE  \E g \in [D -> D] : Ok(g, m + 1)
  <2>1. CASE m > MaxNode
    <3>1. ASSUME NEW n \in D PROVE n + m > MaxNode
      BY <1>1, <2>1
    <3>. HIDE DEF B
    <3>2. Ok(f, m + 1)
      BY <1>2, <3>1
    <3>. HIDE DEF Ok
    <3>. QED BY <3>2
  <2>2. CASE m <= MaxNode
    <3>. DEFINE k == MaxNode - m
                g == [f EXCEPT ![k] = B(f, k)]
    <3>1. k \in D
      BY <1>1, <2>2
    <3>2. B(f, k) \in D
      <4>. HIDE DEF k, g
      <4>1. k # 0 => k \in Node /\ k \in Nat
        BY <1>1, <3>1 DEF Node
      <4>2. ASSUME k # 0, node[k].val[1] = "node" PROVE node[k].val[2] \in D
        <5>1. node[k].val[2] \in k + 1 .. MaxNode
          BY <1>1, <4>1, <4>2
        <5>2. PICK x : x = node[k].val[2]
          OBVIOUS
        <5>3. x \in k + 1 .. MaxNode /\ k \in Nat
          BY <4>1, <4>2, <5>1, <5>2
        <5>4. x \in 0 .. MaxNode
          BY <1>1, <5>3
        <5>. QED BY <5>2, <5>4
      <4>3. 0 \in D
        BY <1>1
      <4>4. k # 0 /\ node[k].val[1] = "node" => f[node[k].val[2]] \in D
        BY <4>2
      <4>. HIDE DEF D
      <4>. QED BY <3>1, <4>3, <4>4
    <3>3. g \in [D -> D] /\ g[k] = B(f, k) /\ \A n \in D : n # k => g[n] = f[n]
      BY <3>1, <3>2
    <3>4. ASSUME NEW n \in D, n >= k PROVE B(g, n) = B(f, n)
      <4>1. n # 0 /\ node[n].val[1] = "node" => node[n].val[2] \in D /\ node[n].val[2] # k
        BY <1>1, <3>1, <3>4 DEF Node
      <4>. QED BY <3>3, <4>1
    <3>5. ASSUME NEW n \in D, n + (m + 1) > MaxNode PROVE g[n] = B(g, n)
      <4>1. n >= k /\ (n # k => n + m > MaxNode)
        BY <1>1, <3>1, <3>5
      <4>2. CASE n = k
        BY <4>1, <4>2, <3>3, <3>4
      <4>3. CASE n # k
        BY <4>1, <4>3, <3>3, <3>4, <1>2
      <4>. QED BY <4>2, <4>3
    <3>. QED BY <3>3, <3>5
  <2>3. m > MaxNode \/ m <= MaxNode
    BY <1>1
  <2>. HIDE DEF Ok
  <2>. QED BY <2>1, <2>2, <2>3
<1>3. \E f \in [D -> D] : Ok(f, 0)
  <2>1. [n \in D |-> 0] \in [D -> D]
    BY <1>1
  <2>2. Ok([n \in D |-> 0], 0)
    BY <1>1
  <2>. QED BY <2>1, <2>2
<1>4. T = {}
  <2>1. SUFFICES ASSUME T # {} PROVE FALSE
    OBVIOUS
  <2>2. T \subseteq Nat
    OBVIOUS
  <2>. HIDE DEF T
  <2>3. PICK m \in T : \A j \in T : m <= j
    BY <2>1, <2>2, Least
  <2>4. m \in Nat /\ m # 0
    BY <2>2, <1>3 DEF T
  <2>5. m - 1 \in Nat /\ m - 1 \notin T /\ (m - 1) + 1 = m
    BY <2>3, <2>4
  <2>6. PICK f \in [D -> D] : Ok(f, m - 1)
    BY <2>5 DEF T
  <2>7. \E g \in [D -> D] : Ok(g, m)
    BY <2>5, <2>6, <1>2
  <2>. QED BY <2>7, <2>4 DEF T
<1>5. PICK f \in [D -> D] : Ok(f, MaxNode + 1)
  <2>1. MaxNode + 1 \in Nat
    BY <1>1
  <2>. HIDE DEF Ok
  <2>. QED BY <2>1, <1>4
<1>6. f = [n \in D |-> B(f, n)]
  BY <1>1, <1>5
<1>7. h = [n \in D |-> B(h, n)]
  BY <1>6
<1>8. ASSUME NEW n PROVE art_follow(n) = h[n]
  BY Zenon DEF art_follow
<1>9. \A n \in D : h[n] = B(h, n)
  <2>. HIDE DEF h, B
  <2>. QED BY <1>7
<1>. HIDE DEF h
<1>10. id \in D /\ id # 0
  BY <1>1 DEF Node
<1>11. h[id] = B(h, id)
  BY <1>9, <1>10
<1>. QED BY <1>8, <1>10, <1>11

\* Between calls the reference of a token leads to the node that the index leads to,
\* so that a write by reference is one by key.
LEMMA FollowsLink ==
  ASSUME Types, TokInv, todo = <<>>, tok # NoTok
  PROVE  Alive /\ link \in Node /\ art_follow(tok.node) = link
<1>1. /\ Alive /\ Dest = link /\ Leads(tok.node)
  BY DEF TokInv, Dest, At
<1>2. link \in Node /\ MaxNode \in Nat
  BY <1>1, ViewsAssumption DEF Types, Node, Alive
<1>3. PICK S \in SUBSET Node :
        /\ tok.node \in S
        /\ \A m \in S : m = link \/ (node[m].moved /\ \E x \in S : node[m].val = To(x))
  BY <1>1 DEF Leads
<1>. DEFINE T == {MaxNode - m : m \in {x \in S : art_follow(x) # link}}
<1>4. T = {}
  <2>1. SUFFICES ASSUME T # {} PROVE FALSE
    OBVIOUS
  <2>2. \A m \in S : m \in Nat /\ MaxNode - m \in Nat
    BY <1>2 DEF Node
  <2>3. T \subseteq Nat
    BY <2>2
  <2>4. PICK k \in T : \A j \in T : k <= j
    <3>. HIDE DEF T
    <3>. QED BY <2>1, <2>3, Least
  <2>5. PICK m \in S : art_follow(m) # link /\ k = MaxNode - m
    BY <2>4
  <2>6. m \in Node
    BY <1>3
  <2>7. m # link
    BY <1>1, <1>2, <2>5, FollowStep DEF Alive
  <2>8. PICK x \in S : node[m].moved /\ node[m].val = To(x)
    BY <1>3, <2>7
  <2>9. art_follow(m) = art_follow(x)
    BY <2>6, <2>8, FollowStep, ValForms
  <2>10. x \in m + 1 .. epoch /\ x \in Nat /\ epoch \in Nat
    BY <2>6, <2>8, <2>2, ValFacts DEF Types
  <2>11. MaxNode - x \in T
    BY <2>5, <2>8, <2>9
  <2>12. MaxNode - m <= MaxNode - x
    BY <2>4, <2>5, <2>11
  <2>. QED BY <2>10, <2>12, <2>2, <1>2
<1>5. tok.node \in S /\ art_follow(tok.node) = link
  BY <1>3, <1>4
<1>. QED BY <1>1, <1>2, <1>5

\* A token that ViewCheck accepts is one of that node, and has its box.
LEMMA CheckedToken ==
  ASSUME Types, TokInv, todo = <<>>, tok # NoTok, ViewCheck(tok)
  PROVE  tok.node = link /\ Alive /\ link \in Node /\ HasBox(link) /\ tok.box = BoxOf(link)
<1>1. tok.node = link /\ Alive /\ link \in Node
  <2>1. Alive /\ link \in Node
    BY FollowsLink
  <2>2. node[tok.node].sg = tok.sg /\ tok.sg \in Nat
    BY DEF ViewCheck, TokInv
  <2>3. tok.node # link => tok.sg < node[tok.node].sg
    BY DEF TokInv
  <2>. QED BY <2>1, <2>2, <2>3
<1>2. node[link].val = Box(tok.box)
  BY <1>1 DEF ViewCheck
<1>. QED BY <1>1, <1>2, ValFacts

\* The reference leads to the key's node, or to no value and the walk is taken.
LEMMA SetByRefOpens ==
  ASSUME Types, NowInv, TokInv, NEW v \in Values, NEW fits \in BOOLEAN,
         kvspaceShmSetValueByRef(v, fits)
  PROVE  Opens
<1>1. todo = <<>> /\ tok # NoTok
  BY DEF kvspaceShmSetValueByRef, Begins
<1>2. (IF art_follow(tok.node) # 0 /\ HasBox(art_follow(tok.node)) THEN art_follow(tok.node)
       ELSE art_search) = art_search
  BY <1>1, FollowsLink, ArtSearch
<1>3. Begins([op |-> "Set", v |-> v], Plan(shm_set_local(art_search, v, fits)))
  BY <1>2 DEF kvspaceShmSetValueByRef
<1>4. /\ Stands /\ was' = now /\ calls' = calls - 1 /\ calls > 0 /\ rc' = 0
      /\ todo' = shm_set_local(art_search, v, fits) /\ call' = [op |-> "Set", v |-> v]
      /\ link = 0 => epoch < MaxNode
  BY <1>3 DEF Begins, Plan, Stands, kvspaceShmSetValueByRef
<1>5. Goal(0)' = Whole(v)
  BY <1>4, Expects DEF Goal
<1>. QED BY <1>1, <1>4, <1>5, SetOpens DEF V

\* By key it is the walk that decides.
LEMMA SetByKeyOpens ==
  ASSUME Types, NowInv, NEW v \in Values, NEW fits \in BOOLEAN,
         kvspaceShmSet(v, fits) \/ kvspaceShmWriteNewPlace(v, fits)
  PROVE  Opens
<1>1. CASE kvspaceShmSet(v, fits)
  <2>1. /\ Stands /\ was' = now /\ calls' = calls - 1 /\ calls > 0 /\ rc' = 0 /\ todo = <<>>
        /\ todo' = shm_set_local(art_search, v, fits) /\ call' = [op |-> "Set", v |-> v]
        /\ link = 0 => epoch < MaxNode
    BY <1>1 DEF Begins, Plan, Stands, kvspaceShmSet
  <2>2. Goal(0)' = Whole(v)
    BY <2>1, Expects DEF Goal
  <2>. QED BY <2>1, <2>2, SetOpens DEF V
<1>2. CASE kvspaceShmWriteNewPlace(v, fits)
  <2>1. /\ Stands /\ was' = now /\ calls' = calls - 1 /\ calls > 0 /\ rc' = 0 /\ todo = <<>>
        /\ todo' = shm_set_local(art_search, Blank, fits) \o <<Puts("fill", 0, v)>>
        /\ call' = [op |-> "WriteNewPlace", v |-> v]
        /\ link = 0 => epoch < MaxNode
    BY <1>2 DEF Begins, Plan, Stands, kvspaceShmWriteNewPlace, Puts
  <2>2. Goal(1)' = Whole(Blank) /\ call'.op = "WriteNewPlace" /\ call'.v = v
    BY <2>1 DEF Goal
  <2>. QED BY <2>1, <2>2, SetOpens DEF V
<1>. QED BY <1>1, <1>2

\* Deletion by key goes to the linked node, by token to the same node if it is not stale.
LEMMA DelOpens ==
  ASSUME Types, NowInv, TokInv, kvspaceShmDel \/ kvspaceShmViewDel
  PROVE  Opens
<1>1. CASE kvspaceShmDel /\ link # 0 /\ HasBox(link)
  <2>1. PICK n \in Node : n = link
    BY <1>1, ViewsAssumption DEF Types, Node
  <2>. DEFINE P == <<Do("struct", n), Do("value", n), Do("cas", n)>>
  <2>2. /\ Begins([op |-> "Del"], Plan(<<Do("cas", n), Do("value", n), Do("struct", n)>>))
        /\ IsPlan(<<Do("cas", n), Do("value", n), Do("struct", n)>>, P, 3)
    BY <1>1, <2>1, PlanDel DEF kvspaceShmDel
  <2>3. /\ todo' \in Seq(Task) /\ todo' # <<>> /\ Run(P, 0, Blank, 3)' /\ todo'[1] = P[3]
        /\ rc' = 0 /\ call' = [op |-> "Del"] /\ was' = now /\ calls' = calls - 1 /\ calls > 0
        /\ todo = <<>> /\ Stands
    <3>. HIDE DEF P
    <3>1. 3 \in Nat \ {0}
      OBVIOUS
    <3>2. Opened([op |-> "Del"], P, 3)
      BY <2>2, <3>1, RunOpens
    <3>. QED BY <3>2 DEF Opened
  <2>4. n = link' /\ now' = now /\ Expected' = None
    BY <2>1, <2>3, Expects DEF Stands
  <2>5. DelRun(3)'
    BY <2>3, <2>4 DEF DelRun
  <2>6. Shape'
    BY <2>3, <2>5 DEF Shape
  <2>7. todo'[1].do = "cas"
    BY <2>3, TaskFacts
  <2>. QED BY <2>3, <2>6, <2>7 DEF Opens
<1>2. CASE kvspaceShmDel /\ ~(link # 0 /\ HasBox(link))
  BY <1>2, RefusedOpens DEF kvspaceShmDel
<1>3. CASE kvspaceShmViewDel /\ ViewCheck(tok) /\ HasBox(tok.node)
  <2>1. /\ tok # NoTok
        /\ Begins([op |-> "ViewDel"], Plan(<<Do("cas", tok.node), Do("value", tok.node)>>))
    BY <1>3 DEF kvspaceShmViewDel
  <2>2. todo = <<>>
    BY <2>1 DEF Begins
  <2>3. PICK n \in Node : n = link /\ n = tok.node
    BY <1>3, <2>1, <2>2, CheckedToken
  <2>. DEFINE P == <<Do("value", n), Do("cas", n)>>
  <2>4. /\ Begins([op |-> "ViewDel"], Plan(<<Do("cas", n), Do("value", n)>>))
        /\ IsPlan(<<Do("cas", n), Do("value", n)>>, P, 2)
    BY <2>1, <2>3, PlanDel
  <2>5. /\ todo' \in Seq(Task) /\ todo' # <<>> /\ Run(P, 0, Blank, 2)' /\ todo'[1] = P[2]
        /\ rc' = 0 /\ call' = [op |-> "ViewDel"] /\ was' = now /\ calls' = calls - 1 /\ calls > 0
        /\ todo = <<>> /\ Stands
    <3>. HIDE DEF P
    <3>1. 2 \in Nat \ {0}
      OBVIOUS
    <3>2. Opened([op |-> "ViewDel"], P, 2)
      BY <2>4, <3>1, RunOpens
    <3>. QED BY <3>2 DEF Opened
  <2>6. n = link' /\ now' = now /\ Expected' = None
    BY <2>3, <2>5, Expects DEF Stands
  <2>7. ViewDelRun(2)'
    BY <2>5, <2>6 DEF ViewDelRun
  <2>8. Shape'
    BY <2>5, <2>7 DEF Shape
  <2>9. todo'[1].do = "cas"
    BY <2>5, TaskFacts
  <2>. QED BY <2>5, <2>8, <2>9 DEF Opens
<1>4. CASE kvspaceShmViewDel /\ ~(ViewCheck(tok) /\ HasBox(tok.node))
  BY <1>4, RefusedOpens DEF kvspaceShmViewDel
<1>. QED BY <1>1, <1>2, <1>3, <1>4

\* An in-place write of the whole body, or of one half, to the key's own box.
LEMMA InPlaceOpens ==
  ASSUME Types, NEW c, NEW v \in V, Alive, HasBox(link), NEW halves,
         Begins(c, Plan(InPlace(link, BoxOf(link), v, halves))),
         \/ halves = <<1, 2>> /\ (call' = c => Expected' = Whole(v))
         \/ halves = << 1 >> /\ (call' = c => Expected' = <<v, was'[2]>>)
  PROVE  Opens
<1>1. PICK n \in Node : n = link
  BY ViewsAssumption DEF Types, Node, Alive
<1>2. PICK b \in Nat : b = BoxOf(n)
  <2>1. BoxOf(n) \in 1 .. Len(body)
    BY <1>1, ValFacts
  <2>2. \A x \in 1 .. Len(body) : x \in Nat
    OBVIOUS
  <2>. QED BY <2>1, <2>2
<1>3. Begins(c, Plan(InPlace(n, b, v, halves))) /\ node[n].val = Box(b)
  BY <1>1, <1>2, ValFacts
<1>4. CASE halves = <<1, 2>>
  <2>. DEFINE P == <<Do("add", n), M(b, 2, v), M(b, 1, v), Do("add", n)>>
  <2>1. IsPlan(InPlace(n, b, v, halves), P, 4)
    BY <1>4, PlanInPlace
  <2>2. /\ todo' \in Seq(Task) /\ todo' # <<>> /\ \A w \in V : Run(P, 0, w, 4)'
        /\ Len(todo') = 4 /\ todo'[1] = P[4] /\ (4 >= 2 => todo'[2] = P[4 - 1])
        /\ rc' = 0 /\ call' = c /\ was' = now /\ calls' = calls - 1 /\ calls > 0
        /\ todo = <<>> /\ Stands
    <3>. HIDE DEF P
    <3>1. 4 \in Nat \ {0}
      OBVIOUS
    <3>2. Opened(c, P, 4)
      BY <1>3, <2>1, <3>1, RunOpens
    <3>. QED BY <3>2 DEF Opened
  <2>3. /\ n = link' /\ Alive' /\ node'[n].val = Box(b) /\ now' = now
    BY <1>1, <1>3, <2>2 DEF Stands, Alive
  <2>4. Goal(0)' = Whole(v)
    BY <1>4, <2>2 DEF Goal
  <2>5. InPlaceRun(0, 4)'
    <3>1. 4 \in 1 .. 4 /\ 4 >= 2 /\ 4 # 2
      OBVIOUS
    <3>2. Run(P, 0, v, 4)'
      BY <2>2
    <3>. QED BY <2>2, <2>3, <2>4, <3>1, <3>2 DEF InPlaceRun
  <2>6. Shape'
    BY <2>2, <2>5 DEF Shape
  <2>7. todo'[1].do = "add" /\ todo'[2].do = "memcpy"
    BY <2>2, TaskFacts
  <2>. QED BY <2>2, <2>6, <2>7 DEF Opens
<1>5. CASE halves = << 1 >>
  <2>. DEFINE P == <<Do("add", n), M(b, 1, v), Do("add", n)>>
  <2>1. IsPlan(InPlace(n, b, v, halves), P, 3)
    BY <1>5, PlanInPlace
  <2>2. /\ todo' \in Seq(Task) /\ todo' # <<>> /\ \A w \in V : Run(P, 0, w, 3)'
        /\ Len(todo') = 3 /\ todo'[1] = P[3] /\ (3 >= 2 => todo'[2] = P[3 - 1])
        /\ rc' = 0 /\ call' = c /\ was' = now /\ calls' = calls - 1 /\ calls > 0
        /\ todo = <<>> /\ Stands
    <3>. HIDE DEF P
    <3>1. 3 \in Nat \ {0}
      OBVIOUS
    <3>2. Opened(c, P, 3)
      BY <1>3, <2>1, <3>1, RunOpens
    <3>. QED BY <3>2 DEF Opened
  <2>3. /\ n = link' /\ Alive' /\ node'[n].val = Box(b) /\ now' = now
    BY <1>1, <1>3, <2>2 DEF Stands, Alive
  <2>4. Expected' = <<v, was'[2]>>
    <3>1. << 1 >> # <<1, 2>>
      OBVIOUS
    <3>. QED BY <1>5, <2>2, <3>1
  <2>5. PartRun(3)'
    <3>1. 3 \in 1 .. 3 /\ 3 >= 2
      OBVIOUS
    <3>2. Run(P, 0, v, 3)'
      BY <2>2
    <3>. QED BY <2>2, <2>3, <2>4, <3>1, <3>2 DEF PartRun
  <2>6. Shape'
    BY <2>2, <2>5 DEF Shape
  <2>7. todo'[1].do = "add" /\ todo'[2].do = "memcpy"
    BY <2>2, TaskFacts
  <2>. QED BY <2>2, <2>6, <2>7 DEF Opens
<1>. QED BY <1>4, <1>5

\* A copy without value_gen.
LEMMA CopyOpens ==
  ASSUME Types, NEW c, c.op = "SetPart", NEW v \in V, Alive, HasBox(link), NEW halves,
         Begins(c, Plan(Copy(BoxOf(link), v, halves))),
         \/ halves = <<1, 2>> /\ (call' = c => Expected' = Whole(v))
         \/ halves = << 1 >> /\ (call' = c => Expected' = <<v, was'[2]>>)
  PROVE  Opens
<1>1. PICK n \in Node : n = link
  BY ViewsAssumption DEF Types, Node, Alive
<1>2. PICK b \in Nat : b = BoxOf(n)
  <2>1. BoxOf(n) \in 1 .. Len(body)
    BY <1>1, ValFacts
  <2>2. \A x \in 1 .. Len(body) : x \in Nat
    OBVIOUS
  <2>. QED BY <2>1, <2>2
<1>3. Begins(c, Plan(Copy(b, v, halves))) /\ node[n].val = Box(b)
  BY <1>1, <1>2, ValFacts
<1>4. CASE halves = <<1, 2>>
  <2>. DEFINE P == <<M(b, 2, v), M(b, 1, v)>>
  <2>1. IsPlan(Copy(b, v, halves), P, 2)
    BY <1>1, <1>4, PlanInPlace
  <2>2. /\ todo' \in Seq(Task) /\ todo' # <<>> /\ \A w \in V : Run(P, 0, w, 2)'
        /\ Len(todo') = 2 /\ todo'[1] = P[2] /\ (2 >= 2 => todo'[2] = P[2 - 1])
        /\ rc' = 0 /\ call' = c /\ was' = now /\ calls' = calls - 1 /\ calls > 0
        /\ todo = <<>> /\ Stands
    <3>. HIDE DEF P
    <3>1. 2 \in Nat \ {0}
      OBVIOUS
    <3>2. Opened(c, P, 2)
      BY <1>3, <2>1, <3>1, RunOpens
    <3>. QED BY <3>2 DEF Opened
  <2>3. Alive' /\ node'[link'].val = Box(b) /\ now' = now /\ (now \in Maybe)'
    BY <1>1, <1>3, <2>2 DEF Stands, Alive, Maybe
  <2>4. Expected' = Whole(v)
    <3>1. << 1 >> # <<1, 2>>
      OBVIOUS
    <3>. QED BY <1>4, <2>2, <3>1
  <2>5. CopyRun(2)'
    <3>1. 2 \in 1 .. 2 /\ 2 # 1
      OBVIOUS
    <3>2. Run(P, 0, v, 2)' /\ call'.op = "SetPart"
      BY <2>2
    <3>. QED BY <2>3, <2>4, <3>1, <3>2 DEF CopyRun
  <2>6. Shape'
    BY <2>2, <2>5 DEF Shape
  <2>7. /\ todo'[1].do = "memcpy" /\ todo'[1].half = 1 /\ todo'[2].do = "memcpy"
        /\ DOMAIN todo' = {1, 2}
    BY <2>2, TaskFacts
  <2>. QED BY <2>2, <2>6, <2>7 DEF Opens
<1>5. CASE halves = << 1 >>
  <2>. DEFINE P == <<M(b, 1, v)>>
  <2>1. IsPlan(Copy(b, v, halves), P, 1)
    BY <1>1, <1>5, PlanInPlace
  <2>2. /\ todo' \in Seq(Task) /\ todo' # <<>> /\ \A w \in V : Run(P, 0, w, 1)'
        /\ Len(todo') = 1 /\ todo'[1] = P[1]
        /\ rc' = 0 /\ call' = c /\ was' = now /\ calls' = calls - 1 /\ calls > 0
        /\ todo = <<>> /\ Stands
    <3>. HIDE DEF P
    <3>1. 1 \in Nat \ {0}
      OBVIOUS
    <3>2. Opened(c, P, 1)
      BY <1>3, <2>1, <3>1, RunOpens
    <3>. QED BY <3>2 DEF Opened
  <2>3. Alive' /\ node'[link'].val = Box(b) /\ now' = now /\ (now \in Maybe)'
    BY <1>1, <1>3, <2>2 DEF Stands, Alive, Maybe
  <2>4. Expected' = <<v, was'[2]>>
    <3>1. << 1 >> # <<1, 2>>
      OBVIOUS
    <3>. QED BY <1>5, <2>2, <3>1
  <2>5. CopyRun(1)'
    <3>2. Run(P, 0, v, 1)' /\ call'.op = "SetPart"
      BY <2>2
    <3>. QED BY <2>2, <2>3, <2>4, <3>2 DEF CopyRun
  <2>6. Shape'
    BY <2>2, <2>5 DEF Shape
  <2>7. todo'[1].do = "memcpy" /\ todo'[1].half = 1 /\ DOMAIN todo' = {1}
    BY <2>2, TaskFacts
  <2>. QED BY <2>2, <2>6, <2>7 DEF Opens
<1>. QED BY <1>4, <1>5

\* A token that passes ViewCheck is one of the key's node and box.
LEMMA WriteOpens ==
  ASSUME Types, TokInv, NEW v \in Values, kvspaceShmViewWrite(v)
  PROVE  Opens
<1>1. CASE ViewCheck(tok)
  <2>1. tok # NoTok /\ Begins([op |-> "ViewWrite", v |-> v],
                              Plan(InPlace(tok.node, tok.box, v, <<1, 2>>)))
    BY <1>1 DEF kvspaceShmViewWrite
  <2>2. todo = <<>>
    BY <2>1 DEF Begins
  <2>3. tok.node = link /\ tok.box = BoxOf(link) /\ Alive /\ HasBox(link)
    BY <1>1, <2>1, <2>2, CheckedToken
  <2>4. Begins([op |-> "ViewWrite", v |-> v], Plan(InPlace(link, BoxOf(link), v, <<1, 2>>)))
    BY <2>1, <2>3
  <2>5. call' = [op |-> "ViewWrite", v |-> v] => Expected' = Whole(v)
    BY Expects
  <2>. QED BY <2>3, <2>4, <2>5, InPlaceOpens DEF V
<1>2. CASE ~ViewCheck(tok)
  BY <1>2, RefusedOpens DEF kvspaceShmViewWrite
<1>. QED BY <1>1, <1>2

\* Part of a value, by key or by reference.
LEMMA PartOpens ==
  ASSUME Types, TokInv, NEW v \in Values, NEW halves \in Parts,
         kvspaceShmSetPart(v, halves) \/ kvspaceShmSetPartByRef(v, halves)
  PROVE  Opens
<1>1. halves = <<1, 2>> \/ halves = << 1 >>
  BY DEF Parts
<1>2. ASSUME NEW op \in {"SetPart", "SetPartByRef"},
             call' = [op |-> op, v |-> v, halves |-> halves]
      PROVE  /\ halves = <<1, 2>> => Expected' = Whole(v)
             /\ halves = << 1 >> => Expected' = <<v, was'[2]>>
  BY <1>2, Expects
<1>3. CASE kvspaceShmSetPart(v, halves)
  <2>. DEFINE c == [op |-> "SetPart", v |-> v, halves |-> halves]
  <2>1. CASE art_search # 0
    <3>1. Begins(c, Plan(Copy(BoxOf(link), v, halves))) /\ Alive /\ HasBox(link)
      BY <1>3, <2>1, ArtSearch DEF kvspaceShmSetPart
    <3>2. c.op = "SetPart"
      OBVIOUS
    <3>3. \/ halves = <<1, 2>> /\ (call' = c => Expected' = Whole(v))
          \/ halves = << 1 >> /\ (call' = c => Expected' = <<v, was'[2]>>)
      BY <1>1, <1>2
    <3>. HIDE DEF c
    <3>. QED BY <3>1, <3>2, <3>3, CopyOpens DEF V
  <2>2. CASE art_search = 0
    BY <1>3, <2>2, RefusedOpens DEF kvspaceShmSetPart
  <2>. QED BY <2>1, <2>2
<1>4. CASE kvspaceShmSetPartByRef(v, halves)
  <2>. DEFINE c == [op |-> "SetPartByRef", v |-> v, halves |-> halves]
  <2>1. tok # NoTok /\ todo = <<>>
    BY <1>4 DEF kvspaceShmSetPartByRef, Begins
  <2>2. (IF art_follow(tok.node) # 0 /\ HasBox(art_follow(tok.node)) THEN art_follow(tok.node)
         ELSE art_search) = art_search
    BY <2>1, FollowsLink, ArtSearch
  <2>3. Begins(c, IF art_search # 0 THEN Plan(InPlace(art_search, BoxOf(art_search), v, halves))
                  ELSE Refused)
    BY <1>4, <2>2 DEF kvspaceShmSetPartByRef
  <2>4. CASE art_search # 0
    <3>1. Begins(c, Plan(InPlace(link, BoxOf(link), v, halves))) /\ Alive /\ HasBox(link)
      BY <2>3, <2>4, ArtSearch
    <3>2. \/ halves = <<1, 2>> /\ (call' = c => Expected' = Whole(v))
          \/ halves = << 1 >> /\ (call' = c => Expected' = <<v, was'[2]>>)
      BY <1>1, <1>2
    <3>. HIDE DEF c
    <3>. QED BY <3>1, <3>2, InPlaceOpens DEF V
  <2>5. CASE art_search = 0
    BY <2>3, <2>5, RefusedOpens
  <2>. QED BY <2>4, <2>5
<1>. QED BY <1>3, <1>4

\* A child of the key needs a larger node.
LEMMA GrowOpens ==
  ASSUME Types, SetBelow
  PROVE  Opens
<1>1. link # 0 /\ ~node[link].moved /\ epoch < MaxNode /\ Begins([op |-> "SetBelow"], Plan(art_grow))
  BY DEF SetBelow
<1>2. PICK n \in Node : n = link
  BY <1>1, PlanGrow
<1>3. PICK e \in Node : e = epoch + 1
  BY <1>1, PlanGrow
<1>. DEFINE P == <<Do("link", e), Do("unlink", n), [Do("forward", n) EXCEPT !.box = e],
                   Do("type", n), Do("struct", n), Do("struct", e), Do("clone", e)>>
<1>4. IsPlan(art_grow, P, 7) /\ n < e
  BY <1>1, <1>2, <1>3, PlanGrow
<1>5. P[7] = Do("clone", e)
  OBVIOUS
<1>6. /\ todo' \in Seq(Task) /\ todo' # <<>> /\ Run(P, 0, Blank, 7)' /\ todo'[1] = P[7]
      /\ rc' = 0 /\ call' = [op |-> "SetBelow"] /\ was' = now /\ calls' = calls - 1 /\ calls > 0
      /\ todo = <<>> /\ Stands
  <2>. HIDE DEF P
  <2>1. 7 \in Nat \ {0}
    OBVIOUS
  <2>2. Opened([op |-> "SetBelow"], P, 7)
    BY <1>1, <1>4, <2>1, RunOpens
  <2>. QED BY <2>2 DEF Opened
<1>7. /\ link' = n /\ ~node'[n].moved /\ now' = was' /\ Expected' = was' /\ e = epoch' + 1
  BY <1>1, <1>2, <1>3, <1>6, Expects DEF Stands
<1>8. GrowRun(7)'
  <2>1. /\ 7 \in 1 .. 7 /\ 7 # 1 /\ ~(7 <= 3) /\ ~(7 < 7) /\ 7 \notin 3 .. 6 /\ ~(7 <= 2)
    OBVIOUS
  <2>. QED BY <1>4, <1>6, <1>7, <2>1 DEF GrowRun
<1>9. Shape'
  BY <1>6, <1>8 DEF Shape
<1>10. todo'[1].do = "clone"
  BY <1>5, <1>6, TaskFacts
<1>. QED BY <1>6, <1>9, <1>10 DEF Opens

\* The kinds of steps there are.
Begin ==
  \/ \E v \in Values, fits \in BOOLEAN :
       \/ kvspaceShmSet(v, fits) \/ kvspaceShmSetValueByRef(v, fits)
       \/ kvspaceShmWriteNewPlace(v, fits)
  \/ \E v \in Values, halves \in Parts :
       kvspaceShmSetPart(v, halves) \/ kvspaceShmSetPartByRef(v, halves)
  \/ \E v \in Values : kvspaceShmViewWrite(v)
  \/ kvspaceShmDel \/ kvspaceShmViewDel \/ SetBelow
Store ==
  \/ memcpy \/ value_gen_add \/ gen_bump_value \/ gen_bump_struct \/ art_val_store
  \/ art_val_cas \/ art_new_leaf \/ art_new_node \/ art_moved \/ art_forward
  \/ art_rm \/ art_add
Read ==
  \/ read_begin \/ walk_link \/ walk_leaf \/ ref_follow \/ from_val \/ from_struct_gen
  \/ from_value_gen \/ check_struct_gen \/ check_val \/ read_half1 \/ read_half2
  \/ read_compare \/ read_end

\* A step begins a call, resolves, stores, goes on with a fill, dies or reads.
LEMMA StepKinds ==
  ASSUME Next
  PROVE  Begin \/ kvspaceShmViewResolve \/ Store \/ fill \/ Crash \/ Read
BY Zenon DEF Next, Begin, Store, Read

\* Whatever the call comes with, it begins one of the nine plans.
LEMMA BeginOpens ==
  ASSUME Types, NowInv, TokInv, Begin
  PROVE  Opens
BY SetByRefOpens, SetByKeyOpens, DelOpens, WriteOpens, PartOpens, GrowOpens DEF Begin

\* Nothing else changes when a call begins.
LEMMA OpensHeads ==
  ASSUME Opens
  PROVE  /\ ~At("forward")' /\ ~At("unlink")' /\ ~At("link")' /\ ~At("type")'
         /\ ~Mid' /\ ~Copying' /\ ~Copying
         /\ Home' = link /\ Home = link /\ Dest' = link /\ Dest = link
         /\ Alive' = Alive /\ Taking = 0 /\ Taking' \in {0, 1}
<1>1. /\ todo = <<>> /\ link' = link /\ node' = node /\ todo' \in Seq(Task)
      /\ todo' # <<>> =>
           /\ todo'[1].do \in {"add", "leaf", "store", "cas", "clone", "memcpy"}
           /\ todo'[1].do = "add" => Len(todo') >= 2 /\ todo'[2].do = "memcpy"
           /\ todo'[1].do = "memcpy" =>
                todo'[1].half = 1 /\ \A i \in DOMAIN todo' : todo'[i].do # "add"
  BY DEF Opens, Stands
<1>2. todo' # <<>> => Head(todo') = todo'[1]
  BY <1>1
<1>3. /\ ~At("forward")' /\ ~At("unlink")' /\ ~At("link")' /\ ~At("type")' /\ ~Mid'
  BY <1>1, <1>2 DEF At, Now, Mid
<1>4. ~At("forward") /\ ~At("unlink") /\ ~At("link") /\ ~Copying /\ Taking = 0
  BY <1>1 DEF At, Copying, Taking
<1>5. ~Copying'
  BY <1>1, <1>2 DEF At, Now, Copying
<1>6. Taking' \in {0, 1}
  BY DEF Taking
<1>7. Alive' = Alive
  BY <1>1 DEF Alive
<1>. QED BY <1>1, <1>3, <1>4, <1>5, <1>6, <1>7 DEF Home, Dest

\* The types, when a call begins.
LEMMA OpensTypes ==
  ASSUME Types, Opens
  PROVE  Types'
<1>1. /\ Stands /\ was' = now /\ calls' = calls - 1 /\ calls > 0 /\ rc' \in {0, 1, 2}
      /\ todo' \in Seq(Task)
  BY DEF Opens
<1>2. Taking = 0 /\ Taking' \in {0, 1}
  BY OpensHeads
<1>3. Len(body') + calls' + Taking' <= MaxCalls + 1 /\ calls' \in 0 .. MaxCalls
  BY <1>1, <1>2, ViewsAssumption DEF Stands, Types
<1>. QED BY <1>1, <1>3 DEF Stands, Types, ValOf

\* The writer's part, when a call begins.
LEMMA OpensWriter ==
  ASSUME Types, WriterInv, Opens
  PROVE  WriterInv'
<1>1. /\ node' = node /\ link' = link /\ epoch' = epoch /\ body' = body /\ tok' = tok
      /\ dead' = dead /\ now' = now /\ Shape' /\ todo = <<>>
  BY DEF Opens, Stands
<1>2. EvenInv'
  BY <1>1, OpensHeads DEF WriterInv, EvenInv
<1>3. NowInv'
  <2>1. Moving' = Moving
    BY <1>1 DEF Moving
  <2>2. /\ ~At("forward") /\ ~At("unlink") /\ ~At("link") /\ ~Mid
    BY <1>1 DEF At, Mid
  <2>3. HasBox(link)' = HasBox(link) /\ BoxOf(link)' = BoxOf(link)
    BY <1>1 DEF HasBox, BoxOf
  <2>. QED BY <1>1, <2>1, <2>2, <2>3, OpensHeads DEF WriterInv, NowInv
<1>4. TokInv'
  <2>1. ASSUME tok # NoTok PROVE Leads(tok.node)'
    <3>1. Leads(tok.node)
      BY <2>1 DEF WriterInv, TokInv
    <3>. QED BY <1>1, <3>1, OpensHeads DEF Leads
  <2>2. ~At("forward") /\ ~At("unlink") /\ ~At("link") /\ ~At("type")
    BY <1>1 DEF At
  <2>3. Alive' = Alive
    BY OpensHeads
  <2>. QED BY <1>1, <2>1, <2>2, <2>3, OpensHeads DEF WriterInv, TokInv
<1>5. ForwardInv'
  <2>1. ASSUME NEW n, NEW b, Sole(n, b) PROVE Sole(n, b)'
    BY <1>1, <2>1, OpensHeads DEF Sole
  <2>2. ASSUME NEW n, Older(n) PROVE Older(n)'
    BY <1>1, <2>2, OpensHeads DEF Older
  <2>. QED BY <1>1, <2>1, <2>2 DEF WriterInv, ForwardInv
<1>. QED BY <1>1, <1>2, <1>3, <1>4, <1>5 DEF WriterInv

\* The reader's part of the state depends on these only.
LEMMA ReaderStands ==
  ASSUME ReaderInv, r' = r, node' = node, link' = link, epoch' = epoch, body' = body,
         now' = now, dead' = dead, Home' = Home, ~(Bare /\ Mid)'
  PROVE  ReaderInv'
<1>1. Alive' = Alive /\ Moving' = Moving /\ Active' = Active /\ Excused' = Excused
  BY DEF Alive, Moving, Active, Excused
<1>2. \A n, b : Sole(n, b)' = Sole(n, b)
  BY DEF Sole
<1>3. \A n : Older(n)' = Older(n)
  BY <1>1 DEF Older
<1>4. OverInv'
  BY <1>1 DEF ReaderInv, OverInv
<1>5. \A n : Met(n)' = Met(n)
  BY <1>2, <1>3 DEF Met, HasBox
<1>6. \A t : Held(t)' = Held(t) /\ Dated(t)' = Dated(t) /\ Steady(t)' = Steady(t)
             /\ Legal(t)' = Legal(t)
  BY <1>1, <1>2, <1>3 DEF Held, Dated, Steady, Legal
<1>7. ReadInv'
  BY <1>1, <1>5, <1>6 DEF ReaderInv, ReadInv, Second
<1>8. SecondInv'
  BY <1>1, <1>5, <1>6 DEF ReaderInv, SecondInv, Second
<1>9. ReadAtomic' /\ (r = Resting \/ r \in ReadType)'
  BY DEF ReaderInv, ReadAtomic
<1>. QED BY <1>4, <1>7, <1>8, <1>9 DEF ReaderInv

\* A call begins: the whole invariant.
LEMMA OpensInv ==
  ASSUME IInv, Opens
  PROVE  IInv'
<1>1. Types' /\ WriterInv'
  BY OpensTypes, OpensWriter DEF IInv
<1>2. ReaderInv'
  BY OpensHeads, ReaderStands DEF IInv, Opens, Stands
<1>. QED BY <1>1, <1>2 DEF IInv

------------------------------------------------------------------------------
(* The stores of a call: which one comes next *)

Does(s, d1, d2, d3, d4) ==
  todo # <<>> /\ Now.do = IF s = 1 THEN d1 ELSE IF s = 2 THEN d2 ELSE IF s = 3 THEN d3 ELSE d4

\* The next store is the one that the number of stores left says.
LEMMA RunNow ==
  ASSUME NEW P, NEW z, NEW w, NEW s \in Nat, Run(P, z, w, s), s > 0
  PROVE  todo # <<>> /\ Now = P[s] /\ Len(todo) = s + z /\ z \in {0, 1}
<1>1. Len(todo) = s + z /\ z \in {0, 1} /\ todo[1] = P[s + 1 - 1] /\ s + 1 - 1 = s
  BY DEF Run
<1>2. todo # <<>>
  BY <1>1
<1>. QED BY <1>1, <1>2 DEF Now

\* Which store that is, for each plan.
LEMMA Doing ==
  /\ \A z, s : InPlaceRun(z, s) => s \in 1 .. 4 /\ Does(s, "add", "memcpy", "memcpy", "add")
  /\ \A z, s : LeafRun(z, s) => s \in 1 .. 4 /\ Does(s, "value", "struct", "link", "leaf")
  /\ \A z, s : StoreRun(z, s) => s \in 1 .. 3 /\ Does(s, "value", "struct", "store", "none")
  /\ \A z : MovedRun(z) => Does(1, "store", "none", "none", "none")
  /\ \A s : PartRun(s) => s \in 1 .. 3 /\ Does(s, "add", "memcpy", "add", "none")
  /\ \A s : DelRun(s) => s \in 1 .. 3 /\ Does(s, "struct", "value", "cas", "none")
  /\ \A s : ViewDelRun(s) => s \in 1 .. 2 /\ Does(s, "value", "cas", "none", "none")
  /\ \A s : CopyRun(s) => s \in 1 .. 2 /\ Does(s, "memcpy", "memcpy", "none", "none")
  /\ \A s : GrowRun(s) => /\ s \in 1 .. 7
                          /\ s <= 4 => Does(s, "link", "unlink", "forward", "type")
                          /\ s > 4 => Does(s - 4, "struct", "struct", "clone", "none")
  /\ FillRun => todo # <<>> /\ Now.do = "fill"
<1>1. ASSUME NEW z, NEW s, InPlaceRun(z, s)
      PROVE  s \in 1 .. 4 /\ Does(s, "add", "memcpy", "memcpy", "add")
  BY <1>1, RunNow, TaskFacts DEF InPlaceRun, Does
<1>2. ASSUME NEW z, NEW s, LeafRun(z, s)
      PROVE  s \in 1 .. 4 /\ Does(s, "value", "struct", "link", "leaf")
  BY <1>2, RunNow, TaskFacts DEF LeafRun, Does
<1>3. ASSUME NEW z, NEW s, StoreRun(z, s)
      PROVE  s \in 1 .. 3 /\ Does(s, "value", "struct", "store", "none")
  BY <1>3, RunNow, TaskFacts DEF StoreRun, Does
<1>4. ASSUME NEW z, MovedRun(z) PROVE Does(1, "store", "none", "none", "none")
  BY <1>4, RunNow, TaskFacts DEF MovedRun, Does
<1>5. ASSUME NEW s, PartRun(s) PROVE s \in 1 .. 3 /\ Does(s, "add", "memcpy", "add", "none")
  BY <1>5, RunNow, TaskFacts DEF PartRun, Does
<1>6. ASSUME NEW s, DelRun(s) PROVE s \in 1 .. 3 /\ Does(s, "struct", "value", "cas", "none")
  BY <1>6, RunNow, TaskFacts DEF DelRun, Does
<1>7. ASSUME NEW s, ViewDelRun(s) PROVE s \in 1 .. 2 /\ Does(s, "value", "cas", "none", "none")
  BY <1>7, RunNow, TaskFacts DEF ViewDelRun, Does
<1>8. ASSUME NEW s, CopyRun(s) PROVE s \in 1 .. 2 /\ Does(s, "memcpy", "memcpy", "none", "none")
  BY <1>8, RunNow, TaskFacts DEF CopyRun, Does
<1>9. ASSUME NEW s, GrowRun(s)
      PROVE  /\ s \in 1 .. 7
             /\ s <= 4 => Does(s, "link", "unlink", "forward", "type")
             /\ s > 4 => Does(s - 4, "struct", "struct", "clone", "none")
  <2>1. PICK n, e \in Node :
          Run(<<Do("link", e), Do("unlink", n), [Do("forward", n) EXCEPT !.box = e], Do("type", n),
                Do("struct", n), Do("struct", e), Do("clone", e)>>, 0, Blank, s) /\ s \in 1 .. 7
    BY <1>9 DEF GrowRun
  <2>2. PICK f : f = [Do("forward", n) EXCEPT !.box = e]
    OBVIOUS
  <2>3. f.do = "forward"
    BY <2>2, TaskFacts
  <2>4. todo # <<>> /\ Now = <<Do("link", e), Do("unlink", n), f, Do("type", n), Do("struct", n),
                               Do("struct", e), Do("clone", e)>>[s]
    BY <2>1, <2>2, RunNow
  <2>. QED BY <2>1, <2>3, <2>4, TaskFacts DEF Does
<1>10. ASSUME FillRun PROVE todo # <<>> /\ Now.do = "fill"
  <2>1. PICK w \in V : Len(todo) = 1 /\ todo[1] = Puts("fill", 0, w)
    BY <1>10 DEF FillRun, Run
  <2>. QED BY <2>1, TaskFacts DEF Now
<1>. QED BY <1>1, <1>2, <1>3, <1>4, <1>5, <1>6, <1>7, <1>8, <1>9, <1>10

\* The writer resolves the key.
LEMMA ResolveInv ==
  ASSUME IInv, kvspaceShmViewResolve
  PROVE  IInv'
<1>1. /\ UNCHANGED <<node, link, epoch, body, todo, call, rc, calls, dead, was, now, r>>
      /\ todo = <<>> /\ art_search # 0
      /\ tok' = [node |-> link, box |-> BoxOf(link), sg |-> node[link].sg, vg |-> 0]
  BY DEF kvspaceShmViewResolve
<1>2. Types
  BY DEF IInv
<1>3. link \in Node /\ link \in 1 .. epoch /\ Alive /\ HasBox(link)
  BY <1>1, <1>2, ArtSearch DEF Types, Node
<1>4. /\ Home' = Home /\ Dest' = Dest /\ Dest = link /\ Alive' = Alive /\ Mid' = Mid
      /\ Copying' = Copying /\ Moving' = Moving /\ ~Mid /\ ~At("type") /\ Taking' = Taking
  BY <1>1 DEF Home, Dest, Alive, Mid, Copying, Moving, At, Now, Taking
<1>5. Types'
  BY <1>1, <1>2, <1>4 DEF Types, ValOf
<1>6. Shape'
  <2>1. Shape
    BY DEF IInv, WriterInv
  <2>2. todo' = <<>> /\ ((now \in Outcomes)' <=> now \in Outcomes)
    BY <1>1 DEF Outcomes, Expected
  <2>3. dead = {} /\ call.op # "none" => now \in Outcomes
    <3>1. ~(todo # <<>>)
      BY <1>1
    <3>2. \A s : ~GrowRun(s)
      BY <3>1, Doing DEF Does
    <3>3. Shape => todo = <<>> /\ (dead = {} /\ call.op # "none" => now \in Outcomes)
      BY <3>1, <3>2, Doing, Zenon DEF Shape, Does
    <3>. QED BY <2>1, <3>3
  <2>. QED BY <1>1, <2>2, <2>3 DEF Shape
<1>7. EvenInv' /\ NowInv'
  BY <1>1, <1>4 DEF IInv, WriterInv, EvenInv, NowInv, HasBox, BoxOf, At, Now
<1>8. TokInv'
  <2>1. Leads(tok.node)'
    <3>1. {link} \in SUBSET Node /\ tok'.node = link
      BY <1>1, <1>3
    <3>. QED BY <1>1, <1>4, <3>1 DEF Leads
  <2>2. node[link].sg \in Nat /\ BoxOf(link) \in Nat
    <3>1. BoxOf(link) \in 1 .. Len(body)
      BY <1>2, <1>3, ValFacts
    <3>2. node[link] \in NodeType
      BY <1>2, <1>3 DEF Types
    <3>. QED BY <3>1, <3>2 DEF NodeType
  <2>3. ~node[link].moved
    BY <1>3 DEF Alive
  <2>. QED BY <1>1, <1>3, <1>4, <2>1, <2>2, <2>3 DEF TokInv, At, Now
<1>9. ForwardInv'
  <2>1. \A n, b : Sole(n, b)' = Sole(n, b)
    BY <1>1, <1>4 DEF Sole
  <2>2. \A n : Older(n)' = Older(n)
    BY <1>1, <1>4 DEF Older
  <2>. QED BY <1>1, <2>1, <2>2 DEF IInv, WriterInv, ForwardInv
<1>10. ReaderInv'
  BY <1>1, <1>4, ReaderStands DEF IInv
<1>. QED BY <1>5, <1>6, <1>7, <1>8, <1>9, <1>10 DEF IInv, WriterInv

------------------------------------------------------------------------------
(* What the next store finds *)

Do2 == IF Len(todo) >= 2 THEN todo[2].do ELSE "end"
Do3 == IF Len(todo) >= 3 THEN todo[3].do ELSE "end"

Older2 == link \in Node /\ epoch \in Node /\ link < epoch /\ ~node[epoch].moved

ReadyAdd == At("add") =>
  /\ Now.node = link /\ Alive
  /\ Copying => Do2 \in {"fill", "end"}
  /\ ~Copying => Do2 = "memcpy" /\ todo[2].half = 1 /\ \E i \in 3 .. Len(todo) : todo[i].do = "add"
ReadyCopy == At("memcpy") =>
  /\ Alive /\ node[link].val = Box(Now.box) /\ Now.half \in {1, 2} /\ Now.v \in V
  /\ Copying \/ Bare
  /\ Do2 \in {"memcpy", "add", "end"} /\ (Do2 = "memcpy" => Now.half = 1 /\ todo[2].half = 2)
  /\ Do2 = "add" => Do3 \in {"fill", "end"}
  /\ Do2 = "memcpy" => (Copying => Do3 = "add") /\ (~Copying => Len(todo) = 2)
  /\ Do2 # "memcpy" => \A i \in 2 .. Len(todo) : todo[i].do # "memcpy"
ReadyGens ==
  /\ At("value") => Now.node \in 1 .. epoch /\ Do2 \in {"struct", "fill", "end"}
  /\ At("struct") => /\ Now.node \in 1 .. epoch /\ Do2 \in {"value", "struct", "type", "end"}
                     /\ Do2 = "type" => Now.node = link
ReadyVal ==
  /\ At("store") => Now.node = link /\ link # 0 /\ Now.v \in V /\ Do2 \in {"struct", "fill", "end"}
  /\ At("cas") => Now.node = link /\ link # 0 /\ Do2 = "value"
ReadyNew ==
  /\ At("leaf") => /\ link = 0 /\ epoch < MaxNode /\ Now.node = epoch + 1 /\ Now.v \in V
                   /\ Do2 = "link" /\ Len(todo) >= 3
  /\ At("clone") => Alive /\ epoch < MaxNode /\ Do2 = "struct"
ReadyMove ==
  /\ At("type") => /\ Now.node = link /\ Alive /\ Older2 /\ node[epoch].val = node[link].val
                   /\ Do2 = "forward"
  /\ At("forward") => /\ Now.node = link /\ node[link].moved /\ Older2 /\ Now.box = epoch
                      /\ node[epoch].val = node[link].val /\ Do2 = "unlink"
  /\ At("unlink") => /\ node[link].moved /\ Older2 /\ node[link].val = To(epoch)
                     /\ Do2 = "link" /\ Len(todo) = 2
  /\ At("link") => /\ link = 0 /\ Now.node = epoch /\ epoch \in Node /\ ~node[epoch].moved
                   /\ Do2 \in {"struct", "end"}
                   /\ "torn" \notin dead /\ Len(todo) = 1 =>
                        now = IF HasBox(epoch) THEN body[BoxOf(epoch)] ELSE None
Ready == /\ rc = 0 /\ ReadyAdd /\ ReadyCopy /\ ReadyGens /\ ReadyVal /\ ReadyNew /\ ReadyMove
ReadyFact == Types /\ Shape /\ todo # <<>> => Ready

\* The first stores of what is left.
Lays(P, z, s) ==
  /\ todo # <<>> /\ Now = P[s] /\ todo[1] = P[s] /\ Len(todo) = s + z /\ z \in {0, 1}
  /\ s >= 2 => todo[2] = P[s - 1] /\ Do2 = P[s - 1].do
  /\ s >= 3 => todo[3] = P[s - 2] /\ Do3 = P[s - 2].do
  /\ s = 1 => Do2 = IF z = 1 THEN "fill" ELSE "end"
  /\ s = 2 => Do3 = IF z = 1 THEN "fill" ELSE "end"
  /\ z = 1 => todo[s + 1].do = "fill"
  /\ \A i \in 1 .. s : todo[i] = P[s + 1 - i]

\* The next three stores.
LEMMA RunLays ==
  ASSUME NEW P, NEW z, NEW w, NEW s \in Nat, Run(P, z, w, s), s > 0
  PROVE  Lays(P, z, s)
<1>1. /\ Len(todo) = s + z /\ z \in {0, 1} /\ \A i \in 1 .. s : todo[i] = P[s + 1 - i]
      /\ z = 1 => todo[s + 1].do = "fill"
  BY TaskFacts DEF Run
<1>2. todo # <<>> /\ Now = P[s]
  BY RunNow
<1>3. /\ s + 1 - 1 = s /\ 1 \in 1 .. s
      /\ s >= 2 => 2 \in 1 .. s /\ s + 1 - 2 = s - 1
      /\ s >= 3 => 3 \in 1 .. s /\ s + 1 - 3 = s - 2
  OBVIOUS
<1>4. todo[1] = P[s] /\ (s >= 2 => todo[2] = P[s - 1]) /\ (s >= 3 => todo[3] = P[s - 2])
  BY <1>1, <1>3
<1>5. /\ s >= 2 => Do2 = P[s - 1].do
      /\ s >= 3 => Do3 = P[s - 2].do
      /\ s = 1 => Do2 = IF z = 1 THEN "fill" ELSE "end"
      /\ s = 2 => Do3 = IF z = 1 THEN "fill" ELSE "end"
  BY <1>1, <1>4 DEF Do2, Do3
<1>. QED BY <1>1, <1>2, <1>4, <1>5 DEF Lays

\* An in-place write of the whole body.
LEMMA ReadyInPlace ==
  ASSUME Types, rc = 0, NEW z, NEW s, InPlaceRun(z, s)
  PROVE  Ready
<1>1. PICK n \in Node, b \in Nat, v \in V, w \in V :
        /\ s \in 1 .. 4 /\ Run(<<Do("add", n), M(b, 2, v), M(b, 1, v), Do("add", n)>>, z, w, s)
        /\ n = link /\ Alive /\ node[n].val = Box(b)
  BY DEF InPlaceRun
<1>. DEFINE P == <<Do("add", n), M(b, 2, v), M(b, 1, v), Do("add", n)>>
<1>2. /\ P[1] = Do("add", n) /\ P[2] = M(b, 2, v) /\ P[3] = M(b, 1, v) /\ P[4] = Do("add", n)
      /\ P[1].do = "add" /\ P[1].node = n /\ P[4].do = "add" /\ P[4].node = n
      /\ P[2].do = "memcpy" /\ P[2].half = 2 /\ P[2].v = v /\ P[2].box = b
      /\ P[3].do = "memcpy" /\ P[3].half = 1 /\ P[3].v = v /\ P[3].box = b
  BY TaskFacts
<1>. HIDE DEF P
<1>3. Lays(P, z, s)
  <2>1. Run(P, z, w, s) /\ s \in Nat /\ s > 0
    BY <1>1 DEF P
  <2>. QED BY <2>1, RunLays
<1>. USE <1>3 DEF Lays
<1>4. DOMAIN todo = 1 .. Len(todo)
  BY DEF Types
<1>5. CASE s = 1
  BY <1>1, <1>2, <1>3, <1>4, <1>5 DEF Ready, ReadyAdd, ReadyCopy, ReadyGens, ReadyVal, ReadyNew,
     ReadyMove, At, Copying, Do2
<1>6. CASE s = 2
  <2>1. todo[2].do = "add" /\ 2 \in DOMAIN todo
    BY <1>2, <1>3, <1>4, <1>6
  <2>2. Copying
    BY <1>2, <1>3, <1>6, <2>1 DEF Copying, At
  <2>3. \A i \in 2 .. Len(todo) : todo[i].do # "memcpy"
    BY <1>2, <1>3, <1>6
  <2>. QED BY <1>1, <1>2, <1>3, <1>6, <2>1, <2>2, <2>3 DEF Ready, ReadyAdd, ReadyCopy, ReadyGens,
       ReadyVal, ReadyNew, ReadyMove, At
<1>7. CASE s = 3
  <2>1. todo[3].do = "add" /\ 3 \in DOMAIN todo
    BY <1>2, <1>3, <1>4, <1>7
  <2>2. Copying
    BY <1>2, <1>3, <1>7, <2>1 DEF Copying, At
  <2>. QED BY <1>1, <1>2, <1>3, <1>7, <2>1, <2>2 DEF Ready, ReadyAdd, ReadyCopy, ReadyGens,
       ReadyVal, ReadyNew, ReadyMove, At
<1>8. CASE s = 4
  <2>1. todo[4] = P[4 + 1 - 4] /\ 4 \in 3 .. Len(todo)
    BY <1>3, <1>8
  <2>2. todo[4].do = "add"
    BY <1>2, <2>1
  <2>3. ~Copying
    BY <1>2, <1>3, <1>8 DEF Copying, At
  <2>. QED BY <1>1, <1>2, <1>3, <1>8, <2>1, <2>2, <2>3 DEF Ready, ReadyAdd, ReadyCopy, ReadyGens,
       ReadyVal, ReadyNew, ReadyMove, At
<1>. QED BY <1>1, <1>5, <1>6, <1>7, <1>8

\* An in-place write of one half.
LEMMA ReadyPart ==
  ASSUME Types, rc = 0, NEW s, PartRun(s)
  PROVE  Ready
<1>1. PICK n \in Node, b \in Nat, v \in V :
        /\ s \in 1 .. 3 /\ Run(<<Do("add", n), M(b, 1, v), Do("add", n)>>, 0, v, s)
        /\ n = link /\ Alive /\ node[n].val = Box(b)
  BY DEF PartRun
<1>. DEFINE P == <<Do("add", n), M(b, 1, v), Do("add", n)>>
<1>2. /\ P[1] = Do("add", n) /\ P[2] = M(b, 1, v) /\ P[3] = Do("add", n)
      /\ P[1].do = "add" /\ P[1].node = n /\ P[3].do = "add" /\ P[3].node = n
      /\ P[2].do = "memcpy" /\ P[2].half = 1 /\ P[2].v = v /\ P[2].box = b
  BY TaskFacts
<1>. HIDE DEF P
<1>3. Lays(P, 0, s)
  <2>1. Run(P, 0, v, s) /\ s \in Nat /\ s > 0
    BY <1>1 DEF P
  <2>. QED BY <2>1, RunLays
<1>. USE <1>3 DEF Lays
<1>4. DOMAIN todo = 1 .. Len(todo)
  BY DEF Types
<1>5. CASE s = 1
  BY <1>1, <1>2, <1>4, <1>5 DEF Ready, ReadyAdd, ReadyCopy, ReadyGens, ReadyVal, ReadyNew,
     ReadyMove, At, Copying, Do2
<1>6. CASE s = 2
  <2>1. todo[2].do = "add" /\ 2 \in DOMAIN todo
    BY <1>2, <1>4, <1>6
  <2>2. Copying
    BY <1>2, <1>6, <2>1 DEF Copying, At
  <2>3. \A i \in 2 .. Len(todo) : todo[i].do # "memcpy"
    BY <1>2, <1>6
  <2>. QED BY <1>1, <1>2, <1>6, <2>1, <2>2, <2>3 DEF Ready, ReadyAdd, ReadyCopy, ReadyGens,
       ReadyVal, ReadyNew, ReadyMove, At
<1>7. CASE s = 3
  <2>1. todo[3] = P[3 + 1 - 3] /\ 3 \in 3 .. Len(todo)
    BY <1>7
  <2>2. todo[3].do = "add"
    BY <1>2, <2>1
  <2>3. ~Copying
    BY <1>2, <1>7 DEF Copying, At
  <2>. QED BY <1>1, <1>2, <1>7, <2>1, <2>2, <2>3 DEF Ready, ReadyAdd, ReadyCopy, ReadyGens,
       ReadyVal, ReadyNew, ReadyMove, At
<1>. QED BY <1>1, <1>5, <1>6, <1>7

\* A key gets its first node.
LEMMA ReadyLeaf ==
  ASSUME Types, rc = 0, NEW z, NEW s, LeafRun(z, s)
  PROVE  Ready
<1>1. PICK e \in Node, v \in V, w \in V :
        /\ s \in 1 .. 4
        /\ Run(<<Do("value", e), Do("struct", e), Do("link", e), Puts("leaf", e, v)>>, z, w, s)
        /\ e = IF s = 4 THEN epoch + 1 ELSE epoch
        /\ s >= 3 => link = 0
        /\ s = 3 => ~node[e].moved
        /\ s <= 2 => link = e /\ Alive
  BY DEF LeafRun
<1>. DEFINE P == <<Do("value", e), Do("struct", e), Do("link", e), Puts("leaf", e, v)>>
<1>2. /\ P[1].do = "value" /\ P[1].node = e /\ P[2].do = "struct" /\ P[2].node = e
      /\ P[3].do = "link" /\ P[3].node = e /\ P[4].do = "leaf" /\ P[4].node = e /\ P[4].v = v
  BY TaskFacts
<1>. HIDE DEF P
<1>3. Lays(P, z, s)
  <2>1. Run(P, z, w, s) /\ s \in Nat /\ s > 0
    BY <1>1 DEF P
  <2>. QED BY <2>1, RunLays
<1>4. e \in 1 .. MaxNode /\ epoch \in Nat /\ MaxNode \in Nat /\ epoch <= MaxNode
  BY ViewsAssumption DEF Types, Node
<1>5. CASE s = 1 \/ s = 2
  BY <1>1, <1>2, <1>3, <1>4, <1>5 DEF Lays, Ready, ReadyAdd, ReadyCopy, ReadyGens, ReadyVal,
     ReadyNew, ReadyMove, At
<1>6. CASE s = 3
  BY <1>1, <1>2, <1>3, <1>4, <1>6 DEF Lays, Ready, ReadyAdd, ReadyCopy, ReadyGens, ReadyVal,
     ReadyNew, ReadyMove, At
<1>7. CASE s = 4
  BY <1>1, <1>2, <1>3, <1>4, <1>7 DEF Lays, Ready, ReadyAdd, ReadyCopy, ReadyGens, ReadyVal,
     ReadyNew, ReadyMove, At
<1>. QED BY <1>1, <1>5, <1>6, <1>7

\* A new box for a node in use, or for a marked one.
LEMMA ReadyStore ==
  ASSUME Types, rc = 0, NEW z, NEW s, StoreRun(z, s) \/ (MovedRun(z) /\ s = 1)
  PROVE  Ready
<1>1. CASE StoreRun(z, s)
  <2>1. PICK n \in Node, v \in V, w \in V :
          /\ s \in 1 .. 3 /\ Run(<<Do("value", n), Do("struct", n), Puts("store", n, v)>>, z, w, s)
          /\ n = link /\ Alive
    BY <1>1 DEF StoreRun
  <2>. DEFINE P == <<Do("value", n), Do("struct", n), Puts("store", n, v)>>
  <2>2. /\ P[1].do = "value" /\ P[1].node = n /\ P[2].do = "struct" /\ P[2].node = n
        /\ P[3].do = "store" /\ P[3].node = n /\ P[3].v = v
    BY TaskFacts
  <2>. HIDE DEF P
  <2>3. Lays(P, z, s)
    <3>1. Run(P, z, w, s) /\ s \in Nat /\ s > 0
      BY <2>1 DEF P
    <3>. QED BY <3>1, RunLays
  <2>4. link \in 1 .. epoch
    BY <2>1 DEF Types, Node
  <2>5. s = 1 \/ s = 2 \/ s = 3
    BY <2>1
  <2>. QED BY <2>1, <2>2, <2>3, <2>4, <2>5 DEF Lays, Ready, ReadyAdd, ReadyCopy, ReadyGens,
       ReadyVal, ReadyNew, ReadyMove, At, Alive
<1>2. CASE MovedRun(z) /\ s = 1
  <2>1. PICK n \in Node, v \in V, w \in V :
          Run(<<Puts("store", n, v)>>, z, w, 1) /\ n = link
    BY <1>2 DEF MovedRun
  <2>. DEFINE P == <<Puts("store", n, v)>>
  <2>2. P[1].do = "store" /\ P[1].node = n /\ P[1].v = v
    BY TaskFacts
  <2>. HIDE DEF P
  <2>3. Lays(P, z, 1)
    <3>1. Run(P, z, w, 1) /\ 1 \in Nat /\ 1 > 0
      BY <2>1 DEF P
    <3>. QED BY <3>1, RunLays
  <2>4. link # 0
    BY <2>1 DEF Node
  <2>. QED BY <2>1, <2>2, <2>3, <2>4 DEF Lays, Ready, ReadyAdd, ReadyCopy, ReadyGens,
       ReadyVal, ReadyNew, ReadyMove, At
<1>. QED BY <1>1, <1>2

\* A deletion.
LEMMA ReadyDel ==
  ASSUME Types, rc = 0, NEW s, DelRun(s) \/ ViewDelRun(s)
  PROVE  Ready
<1>1. CASE DelRun(s)
  <2>1. PICK n \in Node :
          /\ s \in 1 .. 3 /\ Run(<<Do("struct", n), Do("value", n), Do("cas", n)>>, 0, Blank, s)
          /\ n = link
    BY <1>1 DEF DelRun
  <2>. DEFINE P == <<Do("struct", n), Do("value", n), Do("cas", n)>>
  <2>2. /\ P[1].do = "struct" /\ P[1].node = n /\ P[2].do = "value" /\ P[2].node = n
        /\ P[3].do = "cas" /\ P[3].node = n
    BY TaskFacts
  <2>. HIDE DEF P
  <2>3. Lays(P, 0, s)
    <3>1. Run(P, 0, Blank, s) /\ s \in Nat /\ s > 0
      BY <2>1 DEF P
    <3>. QED BY <3>1, RunLays
  <2>4. link \in 1 .. epoch
    BY <2>1 DEF Types, Node
  <2>5. s = 1 \/ s = 2 \/ s = 3
    BY <2>1
  <2>. QED BY <2>1, <2>2, <2>3, <2>4, <2>5 DEF Lays, Ready, ReadyAdd, ReadyCopy, ReadyGens,
       ReadyVal, ReadyNew, ReadyMove, At
<1>2. CASE ViewDelRun(s)
  <2>1. PICK n \in Node :
          /\ s \in 1 .. 2 /\ Run(<<Do("value", n), Do("cas", n)>>, 0, Blank, s)
          /\ n = link
    BY <1>2 DEF ViewDelRun
  <2>. DEFINE P == <<Do("value", n), Do("cas", n)>>
  <2>2. P[1].do = "value" /\ P[1].node = n /\ P[2].do = "cas" /\ P[2].node = n
    BY TaskFacts
  <2>. HIDE DEF P
  <2>3. Lays(P, 0, s)
    <3>1. Run(P, 0, Blank, s) /\ s \in Nat /\ s > 0
      BY <2>1 DEF P
    <3>. QED BY <3>1, RunLays
  <2>4. link \in 1 .. epoch
    BY <2>1 DEF Types, Node
  <2>5. s = 1 \/ s = 2
    BY <2>1
  <2>. QED BY <2>1, <2>2, <2>3, <2>4, <2>5 DEF Lays, Ready, ReadyAdd, ReadyCopy, ReadyGens,
       ReadyVal, ReadyNew, ReadyMove, At
<1>. QED BY <1>1, <1>2

\* A copy without value_gen.
LEMMA ReadyCopies ==
  ASSUME Types, rc = 0, NEW s, CopyRun(s)
  PROVE  Ready
<1>1. PICK b \in Nat, v \in V :
        /\ \/ s \in 1 .. 2 /\ Run(<<M(b, 2, v), M(b, 1, v)>>, 0, v, s)
           \/ s = 1 /\ Run(<<M(b, 1, v)>>, 0, v, s)
        /\ Alive /\ node[link].val = Box(b) /\ call.op \in {"SetPart", "WriteNewPlace"}
  BY DEF CopyRun
<1>2. ASSUME NEW P, Lays(P, 0, s),
             \/ s \in 1 .. 2 /\ P[1] = M(b, 2, v) /\ P[2] = M(b, 1, v)
             \/ s = 1 /\ P[1] = M(b, 1, v)
      PROVE  Ready
  <2>1. /\ P[1].do = "memcpy" /\ P[1].box = b /\ P[1].v = v /\ P[1].half \in {1, 2}
        /\ s = 2 => /\ P[1].half = 2 /\ P[2].do = "memcpy" /\ P[2].box = b /\ P[2].v = v
                    /\ P[2].half = 1
    BY <1>2, TaskFacts
  <2>2. (s = 1 \/ s = 2) /\ Len(todo) = s
    BY <1>2 DEF Lays
  <2>3. Bare
    BY <1>1, <1>2 DEF Bare, Lays
  <2>4. DOMAIN todo = 1 .. Len(todo)
    BY DEF Types
  <2>5. ~Copying
    BY <1>2, <2>1, <2>2, <2>4 DEF Copying, Lays, At
  <2>. QED BY <1>1, <1>2, <2>1, <2>2, <2>3, <2>5 DEF Lays, Ready, ReadyAdd, ReadyCopy, ReadyGens,
       ReadyVal, ReadyNew, ReadyMove, At
<1>3. CASE s \in 1 .. 2 /\ Run(<<M(b, 2, v), M(b, 1, v)>>, 0, v, s)
  <2>. DEFINE P == <<M(b, 2, v), M(b, 1, v)>>
  <2>1. P[1] = M(b, 2, v) /\ P[2] = M(b, 1, v) /\ Run(P, 0, v, s) /\ s \in Nat /\ s > 0
    BY <1>3
  <2>. HIDE DEF P
  <2>. QED BY <1>2, <1>3, <2>1, RunLays
<1>4. CASE s = 1 /\ Run(<<M(b, 1, v)>>, 0, v, s)
  <2>. DEFINE P == <<M(b, 1, v)>>
  <2>1. P[1] = M(b, 1, v) /\ Run(P, 0, v, s) /\ s \in Nat /\ s > 0
    BY <1>4
  <2>. HIDE DEF P
  <2>. QED BY <1>2, <1>4, <2>1, RunLays
<1>. QED BY <1>1, <1>3, <1>4

\* A move.
LEMMA ReadyGrow ==
  ASSUME Types, rc = 0, NEW s, GrowRun(s)
  PROVE  Ready
<1>1. PICK n \in Node, e \in Node :
        /\ s \in 1 .. 7
        /\ Run(<<Do("link", e), Do("unlink", n), [Do("forward", n) EXCEPT !.box = e], Do("type", n),
                 Do("struct", n), Do("struct", e), Do("clone", e)>>, 0, Blank, s)
        /\ e = IF s = 7 THEN epoch + 1 ELSE epoch
        /\ n < e /\ link = IF s = 1 THEN 0 ELSE n
        /\ node[n].moved <=> s <= 3
        /\ s < 7 => ~node[e].moved
        /\ s \in 3 .. 6 => node[e].val = node[n].val
        /\ s <= 2 => node[n].val = To(e)
        /\ s <= 3 /\ "torn" \notin dead =>
             now = IF HasBox(e) THEN body[BoxOf(e)] ELSE None
  BY DEF GrowRun
<1>. DEFINE P == <<Do("link", e), Do("unlink", n), [Do("forward", n) EXCEPT !.box = e],
                   Do("type", n), Do("struct", n), Do("struct", e), Do("clone", e)>>
<1>2. /\ P[1] = Do("link", e) /\ P[2] = Do("unlink", n) /\ P[3] = [Do("forward", n) EXCEPT !.box = e]
      /\ P[4] = Do("type", n) /\ P[5] = Do("struct", n) /\ P[6] = Do("struct", e)
      /\ P[7] = Do("clone", e)
  OBVIOUS
<1>. HIDE DEF P
<1>3. /\ P[1].do = "link" /\ P[1].node = e /\ P[2].do = "unlink" /\ P[2].node = n
      /\ P[3].do = "forward" /\ P[3].node = n /\ P[3].box = e
      /\ P[4].do = "type" /\ P[4].node = n /\ P[5].do = "struct" /\ P[5].node = n
      /\ P[6].do = "struct" /\ P[6].node = e /\ P[7].do = "clone" /\ P[7].node = e
  BY <1>2, TaskFacts
<1>4. Lays(P, 0, s)
  <2>1. Run(P, 0, Blank, s) /\ s \in Nat /\ s > 0
    BY <1>1 DEF P
  <2>. QED BY <2>1, RunLays
<1>5. /\ e \in 1 .. MaxNode /\ n \in 1 .. MaxNode /\ epoch \in Nat /\ MaxNode \in Nat
      /\ epoch <= MaxNode
  BY ViewsAssumption DEF Types, Node
<1>6. CASE s = 7
  BY <1>1, <1>3, <1>4, <1>5, <1>6 DEF Lays, Ready, ReadyAdd, ReadyCopy, ReadyGens, ReadyVal,
     ReadyNew, ReadyMove, At, Alive
<1>7. CASE s = 6 \/ s = 5
  BY <1>1, <1>3, <1>4, <1>5, <1>7 DEF Lays, Ready, ReadyAdd, ReadyCopy, ReadyGens, ReadyVal,
     ReadyNew, ReadyMove, At
<1>8. CASE s = 4 \/ s = 3
  BY <1>1, <1>3, <1>4, <1>5, <1>8 DEF Lays, Ready, ReadyAdd, ReadyCopy, ReadyGens, ReadyVal,
     ReadyNew, ReadyMove, At, Alive, Older2
<1>9. CASE s = 2
  BY <1>1, <1>3, <1>4, <1>5, <1>9 DEF Lays, Ready, ReadyAdd, ReadyCopy, ReadyGens, ReadyVal,
     ReadyNew, ReadyMove, At, Older2
<1>10. CASE s = 1
  BY <1>1, <1>3, <1>4, <1>5, <1>10 DEF Lays, Ready, ReadyAdd, ReadyCopy, ReadyGens, ReadyVal,
     ReadyNew, ReadyMove, At
<1>. QED BY <1>1, <1>6, <1>7, <1>8, <1>9, <1>10

\* Whichever plan it is, the next store finds what it needs.
LEMMA ReadyNow == ReadyFact
<1>. SUFFICES ASSUME Types, Shape, todo # <<>> PROVE Ready
  BY DEF ReadyFact
<1>1. rc = 0
  BY DEF Shape
<1>2. ASSUME FillRun PROVE Ready
  BY <1>1, <1>2, Doing DEF Ready, ReadyAdd, ReadyCopy, ReadyGens, ReadyVal, ReadyNew, ReadyMove, At
<1>3. \A z : MovedRun(z) => Ready
  BY <1>1, ReadyStore
<1>. QED BY <1>1, <1>2, <1>3, ReadyInPlace, ReadyPart, ReadyLeaf, ReadyStore, ReadyDel,
     ReadyCopies, ReadyGrow DEF Shape

------------------------------------------------------------------------------
(* The stores, one by one *)

\* The head of the plan says which store it is.
LEMMA StoreKind ==
  ASSUME Store
  PROVE  /\ Pops /\ todo # <<>> /\ Steps
         /\ Now.do = "memcpy"  => memcpy
         /\ Now.do = "add"     => value_gen_add
         /\ Now.do = "value"   => gen_bump_value
         /\ Now.do = "struct"  => gen_bump_struct
         /\ Now.do = "store"   => art_val_store
         /\ Now.do = "cas"     => art_val_cas
         /\ Now.do = "leaf"    => art_new_leaf
         /\ Now.do = "clone"   => art_new_node
         /\ Now.do = "type"    => art_moved
         /\ Now.do = "forward" => art_forward
         /\ Now.do = "unlink"  => art_rm
         /\ Now.do = "link"    => art_add
         /\ Now.do \in {"memcpy", "add", "value", "struct", "store", "cas", "leaf", "clone", "type",
                        "forward", "unlink", "link"}
<1>1. /\ memcpy => At("memcpy") /\ Pops /\ Steps
      /\ value_gen_add => At("add") /\ Pops /\ Steps
      /\ gen_bump_value => At("value") /\ Pops /\ Steps
      /\ gen_bump_struct => At("struct") /\ Pops /\ Steps
      /\ art_val_store => At("store") /\ Pops /\ Steps
      /\ art_val_cas => At("cas") /\ Pops /\ Steps
      /\ art_new_leaf => At("leaf") /\ Pops /\ Steps
      /\ art_new_node => At("clone") /\ Pops /\ Steps
      /\ art_moved => At("type") /\ Pops /\ Steps
      /\ art_forward => At("forward") /\ Pops /\ Steps
      /\ art_rm => At("unlink") /\ Pops /\ Steps
      /\ art_add => At("link") /\ Pops /\ Steps
  BY Zenon DEF memcpy, value_gen_add, gen_bump_value, gen_bump_struct, art_val_store, art_val_cas,
        art_new_leaf, art_new_node, art_moved, art_forward, art_rm, art_add
<1>. QED BY <1>1 DEF Store, At

\* A store leaves the call and its goal alone.
LEMMA StoreKeeps ==
  ASSUME Steps
  PROVE  /\ call' = call /\ rc' = rc /\ calls' = calls /\ tok' = tok /\ dead' = dead /\ was' = was
         /\ Expected' = Expected /\ Maybe' = Maybe /\ \A z : Goal(z)' = Goal(z)
<1>1. call' = call /\ rc' = rc /\ calls' = calls /\ tok' = tok /\ dead' = dead /\ was' = was
  BY DEF Steps
<1>2. Expected' = Expected
  BY <1>1 DEF Expected
<1>. QED BY <1>1, <1>2 DEF Maybe, Goal

\* One field of one node.
LEMMA NodeVg ==
  ASSUME node \in [Node -> NodeType], NEW k \in Node, NEW d \in Nat,
         node' = [node EXCEPT ![k].vg = @ + d]
  PROVE  /\ node' \in [Node -> NodeType]
         /\ \A m \in Node : /\ node'[m].moved = node[m].moved /\ node'[m].val = node[m].val
                            /\ node'[m].sg = node[m].sg
                            /\ node'[m].vg = IF m = k THEN node[m].vg + d ELSE node[m].vg
BY DEF NodeType

\* struct_gen of one node.
LEMMA NodeSg ==
  ASSUME node \in [Node -> NodeType], NEW k \in Node, node' = [node EXCEPT ![k].sg = @ + 1]
  PROVE  /\ node' \in [Node -> NodeType]
         /\ \A m \in Node : /\ node'[m].moved = node[m].moved /\ node'[m].val = node[m].val
                            /\ node'[m].vg = node[m].vg
                            /\ node'[m].sg = IF m = k THEN node[m].sg + 1 ELSE node[m].sg
BY DEF NodeType

\* The val word of one node.
LEMMA NodeVal ==
  ASSUME node \in [Node -> NodeType], NEW k \in Node, NEW x \in AnyVal,
         node' = [node EXCEPT ![k].val = x]
  PROVE  /\ node' \in [Node -> NodeType]
         /\ \A m \in Node : /\ node'[m].moved = node[m].moved /\ node'[m].sg = node[m].sg
                            /\ node'[m].vg = node[m].vg
                            /\ node'[m].val = IF m = k THEN x ELSE node[m].val
BY DEF NodeType

\* The mark of one node.
LEMMA NodeMoved ==
  ASSUME node \in [Node -> NodeType], NEW k \in Node, node' = [node EXCEPT ![k].moved = TRUE]
  PROVE  /\ node' \in [Node -> NodeType]
         /\ \A m \in Node : /\ node'[m].val = node[m].val /\ node'[m].sg = node[m].sg
                            /\ node'[m].vg = node[m].vg
                            /\ node'[m].moved <=> (m = k \/ node[m].moved)
<1>1. node' \in [Node -> NodeType]
  BY DEF NodeType
<1>2. ASSUME NEW m \in Node
      PROVE  /\ node'[m].val = node[m].val /\ node'[m].sg = node[m].sg /\ node'[m].vg = node[m].vg
             /\ m # k => node'[m] = node[m]
             /\ m = k => node'[m].moved = TRUE
  BY DEF NodeType
<1>. QED BY <1>1, <1>2

\* A new node.
LEMMA NodeNew ==
  ASSUME node \in [Node -> NodeType], NEW k \in Node, NEW x \in AnyVal, NEW g \in Nat,
         node' = [node EXCEPT ![k] = [Fresh EXCEPT !.val = x, !.sg = g]]
  PROVE  /\ node' \in [Node -> NodeType]
         /\ \A m \in Node : m # k => node'[m] = node[m]
         /\ node'[k].moved = FALSE /\ node'[k].val = x /\ node'[k].sg = g /\ node'[k].vg = 0
BY DEF NodeType, Fresh

\* Val words are well-typed.
LEMMA AnyVals ==
  /\ \A b \in Nat : Box(b) \in AnyVal
  /\ \A m \in Nat : To(m) \in AnyVal
  /\ NoVal \in AnyVal
BY DEF AnyVal

\* One half of one box.
LEMMA BodyHalf ==
  ASSUME body \in Seq(Pair), NEW b \in 1 .. Len(body), NEW h \in {1, 2}, NEW v \in V,
         body' = [body EXCEPT ![b][h] = v]
  PROVE  /\ body' \in Seq(Pair) /\ Len(body') = Len(body)
         /\ \A c \in 1 .. Len(body) : c # b => body'[c] = body[c]
         /\ body'[b] \in Pair
         /\ h = 1 => body'[b] = <<v, body[b][2]>>
         /\ h = 2 => body'[b] = <<body[b][1], v>>
<1>1. body[b] \in Pair
  OBVIOUS
<1>2. body' \in Seq(Pair) /\ Len(body') = Len(body)
      /\ body'[b] = [body[b] EXCEPT ![h] = v] /\ \A c \in 1 .. Len(body) : c # b => body'[c] = body[c]
  <2>1. [body[b] EXCEPT ![h] = v] \in Pair
    BY <1>1 DEF Pair
  <2>. HIDE DEF Pair
  <2>. QED BY <2>1
<1>3. body'[b] \in Pair
  BY <1>2
<1>4. h = 1 => body'[b] = <<v, body[b][2]>>
  BY <1>1, <1>2, <1>3, PairFacts DEF Pair
<1>5. h = 2 => body'[b] = <<body[b][1], v>>
  BY <1>1, <1>2, <1>3, PairFacts DEF Pair
<1>. QED BY <1>2, <1>3, <1>4, <1>5

\* The last store before the body is filled in, if it is, or before the end.
LEMMA EndRun ==
  ASSUME NEW P, NEW z \in {0, 1}, NEW w \in V, Run(P, z, w, 0)', rc' = 0, todo' \in Seq(Task),
         dead' = {} => now' = Goal(z)'
  PROVE  Shape'
<1>1. CASE z = 0
  <2>1. Len(todo') = 0
    BY <1>1 DEF Run
  <2>2. todo' = <<>>
    BY <2>1
  <2>3. dead' = {} => now' \in Outcomes'
    BY <1>1 DEF Goal, Outcomes
  <2>. QED BY <2>2, <2>3 DEF Shape
<1>2. CASE z = 1
  <2>1. Run(<<>>, 1, w, 0)'
    BY <1>2 DEF Run
  <2>2. dead' = {} => now' = Whole(Blank)
    BY <1>2 DEF Goal
  <2>3. FillRun'
    BY <2>1, <2>2 DEF FillRun
  <2>. QED BY <2>3 DEF Shape
<1>. QED BY <1>1, <1>2

------------------------------------------------------------------------------
(* A store leaves the rest of the plan *)

\* A change of value_gen and struct_gen.
Gens == /\ UNCHANGED <<link, epoch, body, now>> /\ node' \in [Node -> NodeType]
        /\ \A m \in Node : node'[m].moved = node[m].moved /\ node'[m].val = node[m].val

\* A generation changes, and nothing else.
LEMMA GenStep ==
  ASSUME Types, Now.node \in Node, value_gen_add \/ gen_bump_value \/ gen_bump_struct
  PROVE  Gens /\ (link \in Node => Alive' = Alive)
<1>1. node \in [Node -> NodeType]
  BY DEF Types
<1>2. Gens
  <2>1. CASE value_gen_add
    <3>1. node' = [node EXCEPT ![Now.node].vg = @ + 1] /\ UNCHANGED <<link, epoch, body, now>>
      BY <2>1 DEF value_gen_add
    <3>. QED BY <1>1, <3>1, NodeVg, 1 \in Nat DEF Gens
  <2>2. CASE gen_bump_value
    <3>1. node' = [node EXCEPT ![Now.node].vg = @ + 2] /\ UNCHANGED <<link, epoch, body, now>>
      BY <2>2 DEF gen_bump_value, BumpBy
    <3>. QED BY <1>1, <3>1, NodeVg, 2 \in Nat DEF Gens
  <2>3. CASE gen_bump_struct
    <3>1. node' = [node EXCEPT ![Now.node].sg = @ + 1] /\ UNCHANGED <<link, epoch, body, now>>
      BY <2>3 DEF gen_bump_struct
    <3>. QED BY <1>1, <3>1, NodeSg DEF Gens
  <2>. QED BY <2>1, <2>2, <2>3
<1>. QED BY <1>2 DEF Gens, Alive

\* A half of the key's own box is written.
LEMMA CopyStep ==
  ASSUME Types, memcpy, ReadyCopy
  PROVE  /\ UNCHANGED <<node, link, epoch>> /\ Alive' = Alive
         /\ link \in Node /\ Now.box \in 1 .. Len(body) /\ Now.half \in {1, 2} /\ Now.v \in V
         /\ body \in Seq(Pair) /\ body' = [body EXCEPT ![Now.box][Now.half] = Now.v]
         /\ body' \in Seq(Pair) /\ Len(body') = Len(body)
         /\ \A c \in 1 .. Len(body) : c # Now.box => body'[c] = body[c]
         /\ body'[Now.box] \in Pair
         /\ Now.half = 1 => body'[Now.box] = <<Now.v, body[Now.box][2]>>
         /\ Now.half = 2 => body'[Now.box] = <<body[Now.box][1], Now.v>>
         /\ Do2 = "memcpy" => now' = now
         /\ Do2 # "memcpy" => now' = body'[Now.box]
<1>1. /\ At("memcpy") /\ body' = [body EXCEPT ![Now.box][Now.half] = Now.v]
      /\ now' = IF (\E i \in DOMAIN Tail(todo) : Tail(todo)[i].do = "memcpy")
                     \/ art_search = 0 \/ BoxOf(art_search) # Now.box
                  THEN now ELSE body'[Now.box]
      /\ UNCHANGED <<node, link, epoch>>
  BY DEF memcpy
<1>2. /\ Alive /\ node[link].val = Box(Now.box) /\ Now.half \in {1, 2} /\ Now.v \in V
      /\ Do2 # "memcpy" => \A i \in 2 .. Len(todo) : todo[i].do # "memcpy"
  BY <1>1 DEF ReadyCopy
<1>3. link \in Node
  BY <1>2, ViewsAssumption DEF Alive, Types, Node
<1>4. Now.box \in 1 .. Len(body) /\ HasBox(link) /\ BoxOf(link) = Now.box
  BY <1>2, <1>3, ValFacts
<1>5. body \in Seq(Pair) /\ todo \in Seq(Task) /\ todo # <<>>
  BY <1>1 DEF Types, At
<1>6. /\ body' \in Seq(Pair) /\ Len(body') = Len(body)
      /\ \A c \in 1 .. Len(body) : c # Now.box => body'[c] = body[c]
      /\ body'[Now.box] \in Pair
      /\ Now.half = 1 => body'[Now.box] = <<Now.v, body[Now.box][2]>>
      /\ Now.half = 2 => body'[Now.box] = <<body[Now.box][1], Now.v>>
  BY <1>1, <1>2, <1>4, <1>5, BodyHalf
<1>7. art_search # 0 /\ BoxOf(art_search) = Now.box
  BY <1>2, <1>3, <1>4, ArtSearch DEF Alive
<1>8. /\ DOMAIN Tail(todo) = 1 .. Len(todo) - 1
      /\ \A i \in 1 .. Len(todo) - 1 : Tail(todo)[i] = todo[i + 1]
  BY <1>5
<1>9. ASSUME Do2 = "memcpy" PROVE now' = now
  <2>1. Len(todo) >= 2 /\ todo[2].do = "memcpy"
    BY <1>9 DEF Do2
  <2>2. 1 \in DOMAIN Tail(todo) /\ Tail(todo)[1] = todo[2]
    BY <1>5, <1>8, <2>1
  <2>. QED BY <1>1, <2>1, <2>2
<1>10. ASSUME Do2 # "memcpy" PROVE now' = body'[Now.box]
  <2>1. \A i \in DOMAIN Tail(todo) : Tail(todo)[i].do # "memcpy"
    <3>1. ASSUME NEW i \in DOMAIN Tail(todo) PROVE Tail(todo)[i].do # "memcpy"
      <4>1. i + 1 \in 2 .. Len(todo) /\ Tail(todo)[i] = todo[i + 1]
        BY <1>5, <1>8
      <4>. QED BY <1>2, <1>10, <4>1
    <3>. QED BY <3>1
  <2>. QED BY <1>1, <1>7, <2>1
<1>11. Alive' = Alive
  BY <1>1 DEF Alive
<1>. QED BY <1>1, <1>2, <1>3, <1>4, <1>5, <1>6, <1>9, <1>10, <1>11

\* The next store of an in-place write leaves the rest of that plan.
LEMMA InPlaceStep ==
  ASSUME Types, rc = 0, NEW z \in {0, 1}, NEW s, InPlaceRun(z, s), Store
  PROVE  Shape'
<1>1. PICK n \in Node, b \in Nat, v \in V, w \in V :
        /\ s \in 1 .. 4 /\ Run(<<Do("add", n), M(b, 2, v), M(b, 1, v), Do("add", n)>>, z, w, s)
        /\ n = link /\ Alive /\ node[n].val = Box(b)
        /\ dead = {} => /\ Goal(z) = Whole(v)
                        /\ now = IF s >= 2 THEN was ELSE Goal(z)
                        /\ s = 2 => body[b][1] = v
  BY DEF InPlaceRun
<1>. DEFINE P == <<Do("add", n), M(b, 2, v), M(b, 1, v), Do("add", n)>>
<1>2. /\ P[1].do = "add" /\ P[1].node = n /\ P[4].do = "add" /\ P[4].node = n
      /\ P[2].do = "memcpy" /\ P[2].half = 2 /\ P[2].v = v /\ P[2].box = b
      /\ P[3].do = "memcpy" /\ P[3].half = 1 /\ P[3].v = v /\ P[3].box = b
  BY TaskFacts
<1>3. \A j \in Nat : Run(P, z, w, j)' /\ j \in 1 .. 4 /\ n = link' /\ Alive' /\ node'[n].val = Box(b)
        /\ (dead' = {} => /\ Goal(z)' = Whole(v)
                          /\ now' = IF j >= 2 THEN was' ELSE Goal(z)'
                          /\ j = 2 => body'[b][1] = v)
        => InPlaceRun(z, j)'
  BY DEF InPlaceRun
<1>4. Run(P, z, w, s) /\ s \in Nat /\ s > 0
  BY <1>1
<1>. HIDE DEF P
<1>5. Pops /\ Steps
  BY StoreKind
<1>6. /\ call' = call /\ rc' = 0 /\ dead' = dead /\ was' = was /\ Goal(z)' = Goal(z)
  BY <1>5, StoreKeeps
<1>7. /\ todo # <<>> /\ Now = P[s] /\ Run(P, z, w, s - 1)' /\ todo' \in Seq(Task)
  BY <1>4, <1>5, <1>6, PopRun DEF Types
<1>8. Ready /\ Lays(P, z, s)
  BY <1>4, ReadyInPlace, RunLays
<1>9. CASE s = 4
  <2>1. value_gen_add
    BY <1>2, <1>7, <1>9, StoreKind
  <2>2. Gens /\ Alive' = Alive
    BY <1>1, <1>2, <1>7, <1>9, <2>1, GenStep
  <2>3. Run(P, z, w, 3)' /\ 3 \in Nat /\ 3 \in 1 .. 4 /\ 3 >= 2 /\ 3 # 2
    BY <1>7, <1>9
  <2>4. InPlaceRun(z, 3)'
    BY <1>1, <1>3, <1>6, <1>9, <2>2, <2>3 DEF Gens
  <2>. QED BY <1>6, <2>4, 3 \in 1 .. 4 DEF Shape
<1>10. CASE s = 3
  <2>1. memcpy
    BY <1>2, <1>7, <1>10, StoreKind
  <2>2. Do2 = "memcpy" /\ Now.box = b /\ Now.half = 1 /\ Now.v = v
    BY <1>2, <1>7, <1>8, <1>10 DEF Lays
  <2>3. /\ UNCHANGED <<node, link, epoch>> /\ Alive' = Alive /\ now' = now
        /\ body'[b] = <<v, body[b][2]>>
    BY <1>8, <2>1, <2>2, CopyStep DEF Ready
  <2>4. Run(P, z, w, 2)' /\ 2 \in Nat /\ 2 \in 1 .. 4 /\ 2 >= 2
    BY <1>7, <1>10
  <2>5. body'[b][1] = v
    BY <2>3
  <2>6. InPlaceRun(z, 2)'
    BY <1>1, <1>3, <1>6, <1>10, <2>3, <2>4, <2>5
  <2>. QED BY <1>6, <2>6, 2 \in 1 .. 4 DEF Shape
<1>11. CASE s = 2
  <2>1. memcpy
    BY <1>2, <1>7, <1>11, StoreKind
  <2>2. Do2 = "add" /\ Now.box = b /\ Now.half = 2 /\ Now.v = v
    BY <1>2, <1>7, <1>8, <1>11 DEF Lays
  <2>3. /\ UNCHANGED <<node, link, epoch>> /\ Alive' = Alive /\ now' = body'[b]
        /\ body'[b] = <<body[b][1], v>>
    BY <1>8, <2>1, <2>2, CopyStep DEF Ready
  <2>4. Run(P, z, w, 1)' /\ 1 \in Nat /\ 1 \in 1 .. 4 /\ ~(1 >= 2) /\ 1 # 2
    BY <1>7, <1>11
  <2>5. dead = {} => now' = Whole(v)
    BY <1>1, <1>11, <2>3 DEF Whole
  <2>6. InPlaceRun(z, 1)'
    BY <1>1, <1>3, <1>6, <1>11, <2>3, <2>4, <2>5
  <2>. QED BY <1>6, <2>6, 1 \in 1 .. 4 DEF Shape
<1>12. CASE s = 1
  <2>1. value_gen_add
    BY <1>2, <1>7, <1>12, StoreKind
  <2>2. now' = now
    BY <2>1 DEF value_gen_add
  <2>3. Run(P, z, w, 0)' /\ ~(s >= 2)
    BY <1>7, <1>12
  <2>4. dead' = {} => now' = Goal(z)'
    BY <1>1, <1>6, <2>2, <2>3
  <2>. QED BY <1>6, <1>7, <2>3, <2>4, EndRun
<1>. QED BY <1>1, <1>9, <1>10, <1>11, <1>12

\* The same for one half.
LEMMA PartStep ==
  ASSUME Types, NowInv, rc = 0, NEW s, PartRun(s), Store
  PROVE  Shape'
<1>1. PICK n \in Node, b \in Nat, v \in V :
        /\ s \in 1 .. 3 /\ Run(<<Do("add", n), M(b, 1, v), Do("add", n)>>, 0, v, s)
        /\ n = link /\ Alive /\ node[n].val = Box(b)
        /\ dead = {} => Expected = <<v, was[2]>> /\ now = IF s >= 2 THEN was ELSE Expected
  BY DEF PartRun
<1>. DEFINE P == <<Do("add", n), M(b, 1, v), Do("add", n)>>
<1>2. /\ P[1].do = "add" /\ P[1].node = n /\ P[3].do = "add" /\ P[3].node = n
      /\ P[2].do = "memcpy" /\ P[2].half = 1 /\ P[2].v = v /\ P[2].box = b
  BY TaskFacts
<1>3. \A j \in Nat : Run(P, 0, v, j)' /\ j \in 1 .. 3 /\ n = link' /\ Alive' /\ node'[n].val = Box(b)
        /\ (dead' = {} => Expected' = <<v, was'[2]>> /\ now' = IF j >= 2 THEN was' ELSE Expected')
        => PartRun(j)'
  BY DEF PartRun
<1>4. Run(P, 0, v, s) /\ s \in Nat /\ s > 0
  BY <1>1
<1>. HIDE DEF P
<1>5. Pops /\ Steps
  BY StoreKind
<1>6. /\ call' = call /\ rc' = 0 /\ dead' = dead /\ was' = was /\ Expected' = Expected
  BY <1>5, StoreKeeps
<1>7. /\ todo # <<>> /\ Now = P[s] /\ Run(P, 0, v, s - 1)' /\ todo' \in Seq(Task)
  BY <1>4, <1>5, <1>6, PopRun DEF Types
<1>8. Ready /\ Lays(P, 0, s)
  BY <1>4, ReadyPart, RunLays
<1>9. CASE s = 3
  <2>1. value_gen_add
    BY <1>2, <1>7, <1>9, StoreKind
  <2>2. Gens /\ Alive' = Alive
    BY <1>1, <1>2, <1>7, <1>9, <2>1, GenStep
  <2>3. Run(P, 0, v, 2)' /\ 2 \in Nat /\ 2 \in 1 .. 3 /\ 2 >= 2
    BY <1>7, <1>9
  <2>4. PartRun(2)'
    BY <1>1, <1>3, <1>6, <1>9, <2>2, <2>3 DEF Gens
  <2>. QED BY <1>6, <2>4, 2 \in 1 .. 7 DEF Shape
<1>10. CASE s = 2
  <2>1. memcpy
    BY <1>2, <1>7, <1>10, StoreKind
  <2>2. Do2 = "add" /\ Now.box = b /\ Now.half = 1 /\ Now.v = v
    BY <1>2, <1>7, <1>8, <1>10 DEF Lays
  <2>3. /\ UNCHANGED <<node, link, epoch>> /\ Alive' = Alive /\ now' = body'[b]
        /\ body'[b] = <<v, body[b][2]>>
    BY <1>8, <2>1, <2>2, CopyStep DEF Ready
  <2>4. Run(P, 0, v, 1)' /\ 1 \in Nat /\ 1 \in 1 .. 3 /\ ~(1 >= 2)
    BY <1>7, <1>10
  <2>5. ~Mid
    BY <2>2 DEF Mid
  <2>6. dead = {} => now = body[b]
    BY <1>1, <2>5, ValFacts DEF NowInv
  <2>7. PartRun(1)'
    BY <1>1, <1>3, <1>6, <1>10, <2>3, <2>4, <2>6
  <2>. QED BY <1>6, <2>7, 1 \in 1 .. 7 DEF Shape
<1>11. CASE s = 1
  <2>1. value_gen_add
    BY <1>2, <1>7, <1>11, StoreKind
  <2>2. now' = now
    BY <2>1 DEF value_gen_add
  <2>3. Run(P, 0, v, 0)' /\ ~(s >= 2) /\ 0 \in {0, 1}
    BY <1>7, <1>11
  <2>4. dead' = {} => now' = Goal(0)'
    BY <1>1, <1>6, <2>2, <2>3 DEF Goal
  <2>. QED BY <1>6, <1>7, <2>3, <2>4, EndRun
<1>. QED BY <1>1, <1>9, <1>10, <1>11

\* The same without value_gen.
LEMMA CopiesStep ==
  ASSUME Types, NowInv, rc = 0, NEW s, CopyRun(s), Store
  PROVE  Shape'
<1>1. PICK b \in Nat, v \in V :
        /\ \/ /\ s \in 1 .. 2 /\ Run(<<M(b, 2, v), M(b, 1, v)>>, 0, v, s)
              /\ dead = {} => Expected = Whole(v) /\ (s = 1 => body[b][1] = v)
           \/ /\ s = 1 /\ Run(<<M(b, 1, v)>>, 0, v, s)
              /\ dead = {} => Expected = <<v, was[2]>> /\ now = was
        /\ Alive /\ node[link].val = Box(b) /\ call.op \in {"SetPart", "WriteNewPlace"}
        /\ dead = {} => now \in Maybe
  BY DEF CopyRun
<1>5. Pops /\ Steps
  BY StoreKind
<1>6. /\ call' = call /\ rc' = 0 /\ dead' = dead /\ was' = was /\ Expected' = Expected
      /\ Maybe' = Maybe
  BY <1>5, StoreKeeps
<1>7. Ready
  BY ReadyCopies
<1>8. CASE /\ s \in 1 .. 2 /\ Run(<<M(b, 2, v), M(b, 1, v)>>, 0, v, s)
           /\ dead = {} => Expected = Whole(v) /\ (s = 1 => body[b][1] = v)
  <2>. DEFINE P == <<M(b, 2, v), M(b, 1, v)>>
  <2>1. /\ P[1].do = "memcpy" /\ P[1].half = 2 /\ P[1].v = v /\ P[1].box = b
        /\ P[2].do = "memcpy" /\ P[2].half = 1 /\ P[2].v = v /\ P[2].box = b
    BY TaskFacts
  <2>2. Run(P, 0, v, s) /\ s \in Nat /\ s > 0
    BY <1>8
  <2>3. Run(P, 0, v, 1)' /\ Alive' /\ node'[link'].val = Box(b)
          /\ call'.op \in {"SetPart", "WriteNewPlace"}
          /\ (dead' = {} => Expected' = Whole(v) /\ body'[b][1] = v /\ now' \in Maybe')
        => CopyRun(1)'
    BY 1 \in 1 .. 2 DEF CopyRun
  <2>. HIDE DEF P
  <2>4. /\ todo # <<>> /\ Now = P[s] /\ Run(P, 0, v, s - 1)' /\ todo' \in Seq(Task)
    BY <2>2, <1>5, <1>6, PopRun DEF Types
  <2>5. Lays(P, 0, s)
    BY <2>2, RunLays
  <2>6. memcpy /\ Now.box = b /\ Now.v = v
    BY <1>8, <2>1, <2>4, StoreKind
  <2>7. CASE s = 2
    <3>1. Do2 = "memcpy" /\ Now.half = 1
      BY <2>1, <2>4, <2>5, <2>7 DEF Lays
    <3>2. /\ UNCHANGED <<node, link, epoch>> /\ Alive' = Alive /\ now' = now
          /\ body'[b] = <<v, body[b][2]>>
      BY <1>7, <2>6, <3>1, CopyStep DEF Ready
    <3>3. Run(P, 0, v, 1)' /\ body'[b][1] = v
      BY <2>4, <2>7, <3>2
    <3>4. CopyRun(1)'
      BY <1>1, <1>6, <1>8, <2>3, <3>2, <3>3
    <3>. QED BY <1>6, <3>4, 1 \in 1 .. 7 DEF Shape
  <2>8. CASE s = 1
    <3>1. Do2 = "end" /\ Now.half = 2
      BY <2>1, <2>4, <2>5, <2>8 DEF Lays
    <3>2. now' = body'[b] /\ body'[b] = <<body[b][1], v>>
      BY <1>7, <2>6, <3>1, CopyStep DEF Ready
    <3>3. dead' = {} => now' = Goal(0)'
      BY <1>6, <1>8, <2>8, <3>2 DEF Goal, Whole
    <3>4. Run(P, 0, v, 0)' /\ 0 \in {0, 1}
      BY <2>4, <2>8
    <3>. QED BY <1>6, <2>4, <3>3, <3>4, EndRun
  <2>. QED BY <1>8, <2>7, <2>8
<1>9. CASE /\ s = 1 /\ Run(<<M(b, 1, v)>>, 0, v, s)
           /\ dead = {} => Expected = <<v, was[2]>> /\ now = was
  <2>. DEFINE P == <<M(b, 1, v)>>
  <2>1. P[1].do = "memcpy" /\ P[1].half = 1 /\ P[1].v = v /\ P[1].box = b
    BY TaskFacts
  <2>2. Run(P, 0, v, 1) /\ 1 \in Nat /\ 1 > 0
    BY <1>9
  <2>. HIDE DEF P
  <2>4. /\ todo # <<>> /\ Now = P[1] /\ Run(P, 0, v, 1 - 1)' /\ todo' \in Seq(Task)
    BY <2>2, <1>5, <1>6, PopRun DEF Types
  <2>5. Lays(P, 0, 1)
    BY <2>2, RunLays
  <2>6. memcpy /\ Now.box = b /\ Now.v = v /\ Now.half = 1 /\ Do2 = "end"
    BY <1>9, <2>1, <2>4, <2>5, StoreKind DEF Lays
  <2>7. now' = body'[b] /\ body'[b] = <<v, body[b][2]>> /\ link \in Node
    BY <1>7, <2>6, CopyStep DEF Ready
  <2>8. ~Mid
    BY <2>6 DEF Mid
  <2>9. dead = {} => now = body[b]
    BY <1>1, <2>7, <2>8, ValFacts DEF NowInv
  <2>10. dead' = {} => now' = Goal(0)'
    BY <1>6, <1>9, <2>7, <2>9 DEF Goal
  <2>11. Run(P, 0, v, 0)' /\ 0 \in {0, 1}
    BY <2>4, 1 - 1 = 0
  <2>. QED BY <1>6, <2>4, <2>10, <2>11, EndRun
<1>. QED BY <1>1, <1>8, <1>9

\* The same for a key's first node.
LEMMA LeafStep ==
  ASSUME Types, rc = 0, NEW z \in {0, 1}, NEW s, LeafRun(z, s), Store
  PROVE  Shape'
<1>1. PICK e \in Node, v \in V, w \in V :
        /\ s \in 1 .. 4
        /\ Run(<<Do("value", e), Do("struct", e), Do("link", e), Puts("leaf", e, v)>>, z, w, s)
        /\ e = IF s = 4 THEN epoch + 1 ELSE epoch
        /\ s >= 3 => link = 0
        /\ s = 3 => /\ ~node[e].moved /\ node[e].val = Box(Len(body))
                    /\ Len(body) > 0 /\ body[Len(body)] = Whole(v)
        /\ s <= 2 => link = e /\ Alive
        /\ dead = {} => Goal(z) = Whole(v) /\ now = IF s >= 3 THEN was ELSE Goal(z)
  BY DEF LeafRun
<1>. DEFINE P == <<Do("value", e), Do("struct", e), Do("link", e), Puts("leaf", e, v)>>
<1>2. /\ P[1].do = "value" /\ P[1].node = e /\ P[2].do = "struct" /\ P[2].node = e
      /\ P[3].do = "link" /\ P[3].node = e /\ P[4].do = "leaf" /\ P[4].node = e /\ P[4].v = v
  BY TaskFacts
<1>3. \A j \in Nat : Run(P, z, w, j)' /\ j \in 1 .. 3 /\ e = epoch'
        /\ (j = 3 => /\ link' = 0 /\ ~node'[e].moved /\ node'[e].val = Box(Len(body'))
                     /\ Len(body') > 0 /\ body'[Len(body')] = Whole(v))
        /\ (j <= 2 => link' = e /\ Alive')
        /\ (dead' = {} => Goal(z)' = Whole(v) /\ now' = IF j >= 3 THEN was' ELSE Goal(z)')
        => LeafRun(z, j)'
  <2>1. \A j \in 1 .. 3 : j # 4 /\ j \in 1 .. 4 /\ (j >= 3 <=> j = 3)
    OBVIOUS
  <2>. QED BY <2>1 DEF LeafRun
<1>4. Run(P, z, w, s) /\ s \in Nat /\ s > 0
  BY <1>1
<1>. HIDE DEF P
<1>5. Pops /\ Steps
  BY StoreKind
<1>6. /\ call' = call /\ rc' = 0 /\ dead' = dead /\ was' = was /\ Goal(z)' = Goal(z)
  BY <1>5, StoreKeeps
<1>7. /\ todo # <<>> /\ Now = P[s] /\ Run(P, z, w, s - 1)' /\ todo' \in Seq(Task)
  BY <1>4, <1>5, <1>6, PopRun DEF Types
<1>8. CASE s = 4
  <2>1. art_new_leaf /\ Now.v = v
    BY <1>2, <1>7, <1>8, StoreKind
  <2>2. /\ epoch' = epoch + 1 /\ body' = Append(body, Whole(v)) /\ link' = link /\ now' = now
        /\ node' = [node EXCEPT ![epoch'] = [Fresh EXCEPT !.val = Box(Len(body')), !.sg = epoch']]
    BY <2>1 DEF art_new_leaf
  <2>3. epoch' = e
    BY <1>1, <1>8, <2>2
  <2>4. body \in Seq(Pair) /\ Whole(v) \in Pair /\ node \in [Node -> NodeType]
    BY PairFacts DEF Types
  <2>5. Len(body') = Len(body) + 1 /\ Len(body') > 0 /\ body'[Len(body')] = Whole(v)
        /\ Len(body') \in Nat /\ e \in Nat
    BY <2>2, <2>4 DEF Node
  <2>6. Box(Len(body')) \in AnyVal
    BY <2>5, AnyVals
  <2>7. node'[e].moved = FALSE /\ node'[e].val = Box(Len(body'))
    <3>1. PICK x \in AnyVal : x = Box(Len(body'))
      BY <2>6
    <3>2. node' = [node EXCEPT ![e] = [Fresh EXCEPT !.val = x, !.sg = e]]
      BY <2>2, <2>3, <3>1
    <3>. QED BY <2>4, <2>5, <3>1, <3>2, NodeNew
  <2>8. Run(P, z, w, 3)' /\ 3 \in Nat /\ 3 \in 1 .. 3 /\ ~(3 <= 2) /\ 3 >= 3 /\ 4 >= 3
    BY <1>7, <1>8
  <2>9. LeafRun(z, 3)'
    BY <1>1, <1>3, <1>6, <1>8, <2>2, <2>3, <2>5, <2>7, <2>8
  <2>. QED BY <1>6, <2>9, 3 \in 1 .. 4 DEF Shape
<1>9. CASE s = 3
  <2>1. art_add /\ Now.node = e
    BY <1>2, <1>7, <1>9, StoreKind
  <2>2. /\ UNCHANGED <<node, epoch, body>> /\ link' = e
        /\ now' = IF HasBox(e) THEN body[BoxOf(e)] ELSE None
    BY <2>1 DEF art_add
  <2>3. now' = Whole(v)
    BY <1>1, <1>9, <2>2, ValForms DEF HasBox, BoxOf
  <2>4. Alive'
    BY <1>1, <1>9, <2>2 DEF Alive, Node
  <2>5. Run(P, z, w, 2)' /\ 2 \in Nat /\ 2 \in 1 .. 3 /\ 2 # 3 /\ ~(2 >= 3) /\ e = epoch'
    BY <1>1, <1>7, <1>9, <2>2
  <2>6. LeafRun(z, 2)'
    BY <1>1, <1>3, <1>6, <2>2, <2>3, <2>4, <2>5
  <2>. QED BY <1>6, <2>6, 2 \in 1 .. 4 DEF Shape
<1>10. CASE s = 2
  <2>1. gen_bump_struct /\ Now.node = e /\ link = e /\ Alive /\ epoch = e
    BY <1>1, <1>2, <1>7, <1>10, StoreKind
  <2>2. Gens /\ Alive'
    BY <2>1, GenStep
  <2>3. Run(P, z, w, 1)' /\ 1 \in Nat /\ 1 \in 1 .. 3 /\ 1 # 3 /\ ~(1 >= 3) /\ ~(2 >= 3)
    BY <1>7, <1>10
  <2>4. LeafRun(z, 1)'
    BY <1>1, <1>3, <1>6, <1>10, <2>1, <2>2, <2>3 DEF Gens
  <2>. QED BY <1>6, <2>4, 1 \in 1 .. 4 DEF Shape
<1>11. CASE s = 1
  <2>1. gen_bump_value
    BY <1>2, <1>7, <1>11, StoreKind
  <2>2. now' = now
    BY <2>1 DEF gen_bump_value
  <2>3. Run(P, z, w, 0)' /\ ~(s >= 3)
    BY <1>7, <1>11
  <2>4. dead' = {} => now' = Goal(z)'
    BY <1>1, <1>6, <2>2, <2>3
  <2>. QED BY <1>6, <1>7, <2>3, <2>4, EndRun
<1>. QED BY <1>1, <1>8, <1>9, <1>10, <1>11

\* The same for a new box.
LEMMA StoreStep ==
  ASSUME Types, rc = 0, NEW z \in {0, 1}, NEW s, StoreRun(z, s), Store
  PROVE  Shape'
<1>1. PICK n \in Node, v \in V, w \in V :
        /\ s \in 1 .. 3 /\ Run(<<Do("value", n), Do("struct", n), Puts("store", n, v)>>, z, w, s)
        /\ n = link /\ Alive
        /\ dead = {} => Goal(z) = Whole(v) /\ now = IF s = 3 THEN was ELSE Goal(z)
  BY DEF StoreRun
<1>. DEFINE P == <<Do("value", n), Do("struct", n), Puts("store", n, v)>>
<1>2. /\ P[1].do = "value" /\ P[1].node = n /\ P[2].do = "struct" /\ P[2].node = n
      /\ P[3].do = "store" /\ P[3].node = n /\ P[3].v = v
  BY TaskFacts
<1>3. \A j \in Nat : Run(P, z, w, j)' /\ j \in 1 .. 2 /\ n = link' /\ Alive'
        /\ (dead' = {} => Goal(z)' = Whole(v) /\ now' = Goal(z)')
        => StoreRun(z, j)'
  <2>1. \A j \in 1 .. 2 : j # 3 /\ j \in 1 .. 3
    OBVIOUS
  <2>. QED BY <2>1 DEF StoreRun
<1>4. Run(P, z, w, s) /\ s \in Nat /\ s > 0
  BY <1>1
<1>. HIDE DEF P
<1>5. Pops /\ Steps
  BY StoreKind
<1>6. /\ call' = call /\ rc' = 0 /\ dead' = dead /\ was' = was /\ Goal(z)' = Goal(z)
  BY <1>5, StoreKeeps
<1>7. /\ todo # <<>> /\ Now = P[s] /\ Run(P, z, w, s - 1)' /\ todo' \in Seq(Task)
  BY <1>4, <1>5, <1>6, PopRun DEF Types
<1>8. CASE s = 3
  <2>1. art_val_store /\ Now.v = v /\ Now.node = n
    BY <1>2, <1>7, <1>8, StoreKind
  <2>2. /\ body' = Append(body, Whole(v)) /\ node' = [node EXCEPT ![n].val = Box(Len(body'))]
        /\ now' = Whole(v) /\ UNCHANGED <<link, epoch>>
    BY <1>1, <2>1 DEF art_val_store, Alive
  <2>3. body \in Seq(Pair) /\ Whole(v) \in Pair /\ node \in [Node -> NodeType]
    BY PairFacts DEF Types
  <2>4. Len(body') \in Nat
    BY <2>2, <2>3
  <2>5. node'[n].moved = node[n].moved
    BY <2>2, <2>3, <2>4, AnyVals, NodeVal
  <2>6. Alive' /\ n = link'
    BY <1>1, <2>2, <2>5 DEF Alive
  <2>7. Run(P, z, w, 2)' /\ 2 \in Nat /\ 2 \in 1 .. 2
    BY <1>7, <1>8
  <2>8. StoreRun(z, 2)'
    BY <1>1, <1>3, <1>6, <2>2, <2>6, <2>7
  <2>. QED BY <1>6, <2>8, 2 \in 1 .. 4 DEF Shape
<1>9. CASE s = 2
  <2>1. gen_bump_struct /\ Now.node = n
    BY <1>2, <1>7, <1>9, StoreKind
  <2>2. Gens /\ Alive'
    BY <1>1, <2>1, GenStep
  <2>3. Run(P, z, w, 1)' /\ 1 \in Nat /\ 1 \in 1 .. 2 /\ 2 # 3
    BY <1>7, <1>9
  <2>4. StoreRun(z, 1)'
    BY <1>1, <1>3, <1>6, <1>9, <2>2, <2>3 DEF Gens
  <2>. QED BY <1>6, <2>4, 1 \in 1 .. 4 DEF Shape
<1>10. CASE s = 1
  <2>1. gen_bump_value
    BY <1>2, <1>7, <1>10, StoreKind
  <2>2. now' = now
    BY <2>1 DEF gen_bump_value
  <2>3. Run(P, z, w, 0)' /\ s # 3
    BY <1>7, <1>10
  <2>4. dead' = {} => now' = Goal(z)'
    BY <1>1, <1>6, <2>2, <2>3
  <2>. QED BY <1>6, <1>7, <2>3, <2>4, EndRun
<1>. QED BY <1>1, <1>8, <1>9, <1>10

\* The same for a new box in a marked node.
LEMMA MovedStep ==
  ASSUME Types, rc = 0, NEW z \in {0, 1}, MovedRun(z), Store
  PROVE  Shape'
<1>1. PICK n \in Node, v \in V, w \in V :
        Run(<<Puts("store", n, v)>>, z, w, 1) /\ dead # {}
  BY DEF MovedRun
<1>. DEFINE P == <<Puts("store", n, v)>>
<1>2. Run(P, z, w, 1) /\ 1 \in Nat /\ 1 > 0 /\ 1 - 1 = 0
  BY <1>1
<1>. HIDE DEF P
<1>3. Pops /\ Steps
  BY StoreKind
<1>4. call' = call /\ rc' = 0 /\ dead' = dead
  BY <1>3, StoreKeeps
<1>5. Run(P, z, w, 0)' /\ todo' \in Seq(Task)
  BY <1>2, <1>3, <1>4, PopRun DEF Types
<1>. QED BY <1>1, <1>4, <1>5, EndRun

\* The same for a deletion.
LEMMA DelStep ==
  ASSUME Types, NowInv, rc = 0, NEW s, DelRun(s) \/ ViewDelRun(s), Store
  PROVE  Shape'
<1>1. Pops /\ Steps
  BY StoreKind
<1>2. /\ call' = call /\ rc' = 0 /\ dead' = dead /\ was' = was /\ Expected' = Expected
  BY <1>1, StoreKeeps
<1>3. ASSUME art_val_cas, NEW n \in Node, n = link, Now.node = n, dead = {}
      PROVE  now' = None
  <2>1. ~Moving
    BY <1>3 DEF NowInv, art_val_cas, At
  <2>2. ~node[link].moved
    BY <1>3, <2>1 DEF Moving, Node
  <2>. QED BY <1>3, <2>2 DEF art_val_cas
<1>4. CASE DelRun(s)
  <2>1. PICK n \in Node :
          /\ s \in 1 .. 3 /\ Run(<<Do("struct", n), Do("value", n), Do("cas", n)>>, 0, Blank, s)
          /\ n = link
          /\ dead = {} => Expected = None /\ now = IF s = 3 THEN was ELSE None
    BY <1>4 DEF DelRun
  <2>. DEFINE P == <<Do("struct", n), Do("value", n), Do("cas", n)>>
  <2>2. /\ P[1].do = "struct" /\ P[1].node = n /\ P[2].do = "value" /\ P[2].node = n
        /\ P[3].do = "cas" /\ P[3].node = n
    BY TaskFacts
  <2>3. \A j \in Nat : Run(P, 0, Blank, j)' /\ j \in 1 .. 2 /\ n = link'
          /\ (dead' = {} => Expected' = None /\ now' = None) => DelRun(j)'
    <3>1. \A j \in 1 .. 2 : j # 3 /\ j \in 1 .. 3
      OBVIOUS
    <3>. QED BY <3>1 DEF DelRun
  <2>4. Run(P, 0, Blank, s) /\ s \in Nat /\ s > 0
    BY <2>1
  <2>. HIDE DEF P
  <2>5. /\ todo # <<>> /\ Now = P[s] /\ Run(P, 0, Blank, s - 1)' /\ todo' \in Seq(Task)
    BY <1>1, <1>2, <2>4, PopRun DEF Types
  <2>6. CASE s = 3
    <3>1. art_val_cas /\ Now.node = n
      BY <2>2, <2>5, <2>6, StoreKind
    <3>2. link' = link /\ (dead = {} => now' = None)
      BY <1>3, <2>1, <3>1 DEF art_val_cas
    <3>3. Run(P, 0, Blank, 2)' /\ 2 \in Nat /\ 2 \in 1 .. 2
      BY <2>5, <2>6
    <3>4. DelRun(2)'
      BY <1>2, <2>1, <2>3, <3>2, <3>3
    <3>. QED BY <1>2, <3>4, 2 \in 1 .. 7 DEF Shape
  <2>7. CASE s = 2
    <3>1. gen_bump_value
      BY <2>2, <2>5, <2>7, StoreKind
    <3>2. link' = link /\ now' = now
      BY <3>1 DEF gen_bump_value
    <3>3. Run(P, 0, Blank, 1)' /\ 1 \in Nat /\ 1 \in 1 .. 2 /\ 2 # 3
      BY <2>5, <2>7
    <3>4. DelRun(1)'
      BY <1>2, <2>1, <2>3, <2>7, <3>2, <3>3
    <3>. QED BY <1>2, <3>4, 1 \in 1 .. 7 DEF Shape
  <2>8. CASE s = 1
    <3>1. gen_bump_struct
      BY <2>2, <2>5, <2>8, StoreKind
    <3>2. now' = now
      BY <3>1 DEF gen_bump_struct
    <3>3. Run(P, 0, Blank, 0)' /\ s # 3 /\ 0 \in {0, 1} /\ Blank \in V
      BY <2>5, <2>8 DEF V
    <3>4. dead' = {} => now' = Goal(0)'
      BY <1>2, <2>1, <3>2, <3>3 DEF Goal
    <3>. QED BY <1>2, <2>5, <3>3, <3>4, EndRun
  <2>. QED BY <2>1, <2>6, <2>7, <2>8
<1>5. CASE ViewDelRun(s)
  <2>1. PICK n \in Node :
          /\ s \in 1 .. 2 /\ Run(<<Do("value", n), Do("cas", n)>>, 0, Blank, s)
          /\ n = link
          /\ dead = {} => Expected = None /\ now = IF s = 2 THEN was ELSE None
    BY <1>5 DEF ViewDelRun
  <2>. DEFINE P == <<Do("value", n), Do("cas", n)>>
  <2>2. P[1].do = "value" /\ P[1].node = n /\ P[2].do = "cas" /\ P[2].node = n
    BY TaskFacts
  <2>3. Run(P, 0, Blank, 1)' /\ n = link' /\ (dead' = {} => Expected' = None /\ now' = None)
          => ViewDelRun(1)'
    BY 1 \in 1 .. 2, 1 # 2 DEF ViewDelRun
  <2>4. Run(P, 0, Blank, s) /\ s \in Nat /\ s > 0
    BY <2>1
  <2>. HIDE DEF P
  <2>5. /\ todo # <<>> /\ Now = P[s] /\ Run(P, 0, Blank, s - 1)' /\ todo' \in Seq(Task)
    BY <1>1, <1>2, <2>4, PopRun DEF Types
  <2>6. CASE s = 2
    <3>1. art_val_cas /\ Now.node = n
      BY <2>2, <2>5, <2>6, StoreKind
    <3>2. link' = link /\ (dead = {} => now' = None)
      BY <1>3, <2>1, <3>1 DEF art_val_cas
    <3>3. Run(P, 0, Blank, 1)'
      BY <2>5, <2>6
    <3>4. ViewDelRun(1)'
      BY <1>2, <2>1, <2>3, <3>2, <3>3
    <3>. QED BY <1>2, <3>4, 1 \in 1 .. 7 DEF Shape
  <2>7. CASE s = 1
    <3>1. gen_bump_value
      BY <2>2, <2>5, <2>7, StoreKind
    <3>2. now' = now
      BY <3>1 DEF gen_bump_value
    <3>3. Run(P, 0, Blank, 0)' /\ s # 2 /\ 0 \in {0, 1} /\ Blank \in V
      BY <2>5, <2>7 DEF V
    <3>4. dead' = {} => now' = Goal(0)'
      BY <1>2, <2>1, <3>2, <3>3 DEF Goal
    <3>. QED BY <1>2, <2>5, <3>3, <3>4, EndRun
  <2>. QED BY <2>1, <2>6, <2>7
<1>. QED BY <1>4, <1>5

\* The same for a move: the copy has the value until the index leads to it.
LEMMA GrowStep ==
  ASSUME Types, NowInv, rc = 0, NEW s, GrowRun(s), Store
  PROVE  Shape'
<1>1. PICK n \in Node, e \in Node :
        /\ s \in 1 .. 7
        /\ Run(<<Do("link", e), Do("unlink", n), [Do("forward", n) EXCEPT !.box = e], Do("type", n),
                 Do("struct", n), Do("struct", e), Do("clone", e)>>, 0, Blank, s)
        /\ e = IF s = 7 THEN epoch + 1 ELSE epoch
        /\ n < e /\ link = IF s = 1 THEN 0 ELSE n
        /\ node[n].moved <=> s <= 3
        /\ s < 7 => ~node[e].moved
        /\ s \in 3 .. 6 => node[e].val = node[n].val
        /\ s <= 2 => node[n].val = To(e)
        /\ s <= 3 /\ "torn" \notin dead =>
             now = IF HasBox(e) THEN body[BoxOf(e)] ELSE None
        /\ dead = {} => Expected = was /\ now = was
  BY DEF GrowRun
<1>. DEFINE P == <<Do("link", e), Do("unlink", n), [Do("forward", n) EXCEPT !.box = e],
                   Do("type", n), Do("struct", n), Do("struct", e), Do("clone", e)>>
<1>2. /\ P[1] = Do("link", e) /\ P[2] = Do("unlink", n) /\ P[3] = [Do("forward", n) EXCEPT !.box = e]
      /\ P[4] = Do("type", n) /\ P[5] = Do("struct", n) /\ P[6] = Do("struct", e)
      /\ P[7] = Do("clone", e)
  OBVIOUS
<1>3. \A j \in 1 .. 6 : Run(P, 0, Blank, j)' /\ e = epoch' /\ link' = (IF j = 1 THEN 0 ELSE n)
        /\ (node'[n].moved <=> j <= 3) /\ ~node'[e].moved
        /\ (j \in 3 .. 6 => node'[e].val = node'[n].val)
        /\ (j <= 2 => node'[n].val = To(e))
        /\ (j <= 3 /\ "torn" \notin dead' => now' = IF HasBox(e)' THEN body'[BoxOf(e)'] ELSE None)
        /\ (dead' = {} => Expected' = was' /\ now' = was')
        => GrowRun(j)'
  <2>1. \A j \in 1 .. 6 : j # 7 /\ j \in 1 .. 7
    OBVIOUS
  <2>. QED BY <1>1, <2>1 DEF GrowRun, HasBox, BoxOf
<1>4. Run(P, 0, Blank, s) /\ s \in Nat /\ s > 0
  BY <1>1
<1>. HIDE DEF P
<1>5. /\ P[1].do = "link" /\ P[1].node = e /\ P[2].do = "unlink" /\ P[2].node = n
      /\ P[3].do = "forward" /\ P[3].node = n /\ P[3].box = e
      /\ P[4].do = "type" /\ P[4].node = n /\ P[5].do = "struct" /\ P[5].node = n
      /\ P[6].do = "struct" /\ P[6].node = e /\ P[7].do = "clone" /\ P[7].node = e
  BY <1>2, TaskFacts
<1>6. Pops /\ Steps
  BY StoreKind
<1>7. /\ call' = call /\ rc' = 0 /\ dead' = dead /\ was' = was /\ Expected' = Expected
  BY <1>6, StoreKeeps
<1>8. /\ todo # <<>> /\ Now = P[s] /\ Run(P, 0, Blank, s - 1)' /\ todo' \in Seq(Task)
  BY <1>4, <1>6, <1>7, PopRun DEF Types
<1>9. node \in [Node -> NodeType] /\ e # n /\ e \in Nat /\ n \in Nat /\ n # 0
  BY <1>1 DEF Types, Node
<1>10. CASE s = 7
  <2>1. art_new_node /\ link = n
    BY <1>1, <1>5, <1>8, <1>10, StoreKind
  <2>2. /\ epoch' = e /\ UNCHANGED <<link, body, now>>
        /\ node' = [node EXCEPT ![e] = [Fresh EXCEPT !.val = node[n].val, !.sg = e]]
    BY <1>1, <1>10, <2>1 DEF art_new_node
  <2>3. node[n].val \in AnyVal
    BY <1>9 DEF NodeType
  <2>4. node'[n] = node[n] /\ node'[e].moved = FALSE /\ node'[e].val = node[n].val
    BY <1>9, <2>2, <2>3, NodeNew
  <2>5. Run(P, 0, Blank, 6)' /\ 6 \in 1 .. 6 /\ 6 # 1 /\ ~(6 <= 3) /\ ~(6 <= 2) /\ ~(s <= 3)
    BY <1>8, <1>10
  <2>6. GrowRun(6)'
    BY <1>1, <1>3, <1>7, <2>1, <2>2, <2>4, <2>5
  <2>. QED BY <1>7, <2>6, 6 \in 1 .. 7 DEF Shape
<1>11. CASE s = 6 \/ s = 5
  <2>1. gen_bump_struct /\ Now.node \in Node /\ link = n /\ e = epoch /\ ~node[n].moved
        /\ ~node[e].moved /\ node[e].val = node[n].val
    BY <1>1, <1>5, <1>8, <1>11, StoreKind
  <2>2. Gens
    BY <2>1, GenStep
  <2>3. PICK j \in 4 .. 5 : j = s - 1
    BY <1>11
  <2>4. Run(P, 0, Blank, j)' /\ j \in 1 .. 6 /\ j # 1 /\ ~(j <= 3) /\ ~(j <= 2)
    BY <1>8, <2>3
  <2>5. GrowRun(j)'
    BY <1>1, <1>3, <1>7, <2>1, <2>2, <2>4 DEF Gens
  <2>6. j \in 1 .. 7
    OBVIOUS
  <2>. QED BY <1>7, <2>5, <2>6 DEF Shape
<1>12. CASE s = 4
  <2>1. art_moved /\ Now.node = n /\ link = n /\ e = epoch /\ ~node[n].moved
        /\ ~node[e].moved /\ node[e].val = node[n].val
    BY <1>1, <1>5, <1>8, <1>12, StoreKind
  <2>2. node' = [node EXCEPT ![n].moved = TRUE] /\ UNCHANGED <<link, epoch, body, now>>
    BY <2>1 DEF art_moved
  <2>3. /\ node'[n].moved /\ (node'[e].moved <=> (e = n \/ node[e].moved))
        /\ node'[n].val = node[n].val /\ node'[e].val = node[e].val
    BY <1>9, <2>2, NodeMoved
  <2>4. Run(P, 0, Blank, 3)' /\ 3 \in 1 .. 6 /\ 3 # 1 /\ 3 <= 3 /\ ~(3 <= 2)
    BY <1>8, <1>12
  <2>5. Alive /\ ~Mid
    BY <1>5, <1>8, <1>9, <1>12, <2>1 DEF Alive, Mid, At
  <2>6. "torn" \notin dead => now = IF HasBox(e) THEN body[BoxOf(e)] ELSE None
    BY <2>1, <2>5 DEF NowInv, HasBox, BoxOf
  <2>7. HasBox(e)' = HasBox(e) /\ BoxOf(e)' = BoxOf(e)
    BY <2>3 DEF HasBox, BoxOf
  <2>8. GrowRun(3)'
    <3>1. ~node'[e].moved
      BY <1>9, <2>1, <2>3
    <3>. QED BY <1>1, <1>3, <1>7, <2>1, <2>2, <2>3, <2>4, <2>6, <2>7, <3>1
  <2>. QED BY <1>7, <2>8, 3 \in 1 .. 7 DEF Shape
<1>13. CASE s = 3
  <2>1. art_forward /\ Now.node = n /\ Now.box = e /\ link = n /\ e = epoch /\ node[n].moved
        /\ ~node[e].moved
    BY <1>1, <1>5, <1>8, <1>13, StoreKind
  <2>2. node' = [node EXCEPT ![n].val = To(e)] /\ UNCHANGED <<link, epoch, body, now>>
    BY <2>1 DEF art_forward
  <2>3. /\ node'[n].moved = node[n].moved /\ node'[e].moved = node[e].moved
        /\ node'[n].val = To(e) /\ node'[e].val = node[e].val
    BY <1>9, <2>2, AnyVals, NodeVal
  <2>4. Run(P, 0, Blank, 2)' /\ 2 \in 1 .. 6 /\ 2 # 1 /\ 2 <= 3 /\ 2 <= 2 /\ 2 \notin 3 .. 6
    BY <1>8, <1>13
  <2>5. HasBox(e)' = HasBox(e) /\ BoxOf(e)' = BoxOf(e)
    BY <2>3 DEF HasBox, BoxOf
  <2>6. GrowRun(2)'
    BY <1>1, <1>3, <1>7, <1>13, <2>1, <2>2, <2>3, <2>4, <2>5
  <2>. QED BY <1>7, <2>6, 2 \in 1 .. 7 DEF Shape
<1>14. CASE s = 2
  <2>1. art_rm /\ e = epoch /\ node[n].moved /\ ~node[e].moved /\ node[n].val = To(e)
    BY <1>1, <1>5, <1>8, <1>14, StoreKind
  <2>2. link' = 0 /\ UNCHANGED <<node, epoch, body, now>>
    BY <2>1 DEF art_rm
  <2>3. Run(P, 0, Blank, 1)' /\ 1 \in 1 .. 6 /\ 1 <= 3 /\ 1 <= 2 /\ 1 \notin 3 .. 6
    BY <1>8, <1>14
  <2>4. HasBox(e)' = HasBox(e) /\ BoxOf(e)' = BoxOf(e)
    BY <2>2 DEF HasBox, BoxOf
  <2>5. GrowRun(1)'
    BY <1>1, <1>3, <1>7, <1>14, <2>1, <2>2, <2>3, <2>4
  <2>. QED BY <1>7, <2>5, 1 \in 1 .. 7 DEF Shape
<1>15. CASE s = 1
  <2>1. art_add /\ Now.node = e
    BY <1>5, <1>8, <1>15, StoreKind
  <2>2. now' = IF HasBox(e) THEN body[BoxOf(e)] ELSE None
    BY <2>1 DEF art_add
  <2>3. Run(P, 0, Blank, 0)' /\ 0 \in {0, 1} /\ Blank \in V
    BY <1>8, <1>15 DEF V
  <2>4. dead' = {} => now' = Goal(0)'
    <3>1. dead = {} => now' = now
      BY <1>1, <1>15, <2>2
    <3>. QED BY <1>1, <1>7, <3>1 DEF Goal
  <2>. QED BY <1>7, <1>8, <2>3, <2>4, EndRun
<1>. QED BY <1>1, <1>10, <1>11, <1>12, <1>13, <1>14, <1>15

\* Whichever plan it is, a store leaves the rest of the plan.
LEMMA StoreShape ==
  ASSUME Types, NowInv, Shape, Store
  PROVE  Shape'
<1>1. todo # <<>> /\ Now.do # "fill"
  BY StoreKind
<1>2. rc = 0 /\ ~FillRun
  BY <1>1, Doing DEF Shape
<1>. QED BY <1>1, <1>2, InPlaceStep, LeafStep, StoreStep, MovedStep, PartStep, DelStep, CopiesStep,
     GrowStep DEF Shape

------------------------------------------------------------------------------
(* A store and what comes after it *)

\* What is left after a store.
LEMMA Pop2 ==
  ASSUME Types, Pops, todo # <<>>
  PROVE  /\ todo' \in Seq(Task) /\ Len(todo') = Len(todo) - 1 /\ Len(todo) \in Nat \ {0}
         /\ \A i \in 1 .. Len(todo) - 1 : todo'[i] = todo[i + 1]
         /\ Now = todo[1]
         /\ Len(todo) >= 2 => todo' # <<>> /\ Now' = todo[2]
         /\ Len(todo) = 1 => todo' = <<>>
<1>1. /\ todo' \in Seq(Task) /\ Len(todo') = Len(todo) - 1 /\ Len(todo) \in Nat \ {0}
      /\ \A i \in 1 .. Len(todo) - 1 : todo'[i] = todo[i + 1]
  BY DEF Types, Pops
<1>2. Now = todo[1]
  BY DEF Now, Types
<1>3. ASSUME Len(todo) >= 2 PROVE todo' # <<>> /\ Now' = todo[2]
  <2>1. todo' # <<>> /\ Now' = todo'[1] /\ todo'[1] = todo[1 + 1]
    BY <1>1, <1>3 DEF Now
  <2>. QED BY <2>1
<1>4. Len(todo) = 1 => todo' = <<>>
  BY <1>1
<1>. QED BY <1>1, <1>2, <1>3, <1>4

\* What comes after a store.
LEMMA NextAt ==
  ASSUME Types, Pops, todo # <<>>
  PROVE  /\ \A d \in Stores : At(d)' <=> Do2 = d
         /\ Mid' <=> Do2 = "memcpy" /\ todo[2].half = 2
<1>1. /\ Len(todo) \in Nat \ {0} /\ (Len(todo) >= 2 => todo' # <<>> /\ Now' = todo[2])
      /\ (Len(todo) = 1 => todo' = <<>>)
  BY Pop2
<1>2. "end" \notin Stores
  BY DEF Stores
<1>3. CASE Len(todo) >= 2
  BY <1>1, <1>3 DEF At, Mid, Do2
<1>4. CASE Len(todo) = 1
  BY <1>1, <1>2, <1>4 DEF At, Mid, Do2
<1>5. Len(todo) >= 2 \/ Len(todo) = 1
  BY <1>1
<1>. QED BY <1>3, <1>4, <1>5, Zenon

\* The value_gen of the key's node is odd from one increment to the other.
LEMMA NextCopying ==
  ASSUME Types, Ready, Store
  PROVE  /\ Copying' <=> (Now.do = "add" /\ ~Copying) \/ (Now.do = "memcpy" /\ Copying)
         /\ Mid' <=> Now.do = "memcpy" /\ Do2 = "memcpy"
         /\ Copying => Now.do \in {"add", "memcpy"}
         /\ Mid => Now.do = "memcpy" /\ Do2 # "memcpy"
<1>1. Pops /\ todo # <<>>
  BY StoreKind
<1>2. /\ \A d \in Stores : At(d)' <=> Do2 = d
      /\ Mid' <=> Do2 = "memcpy" /\ todo[2].half = 2
  BY <1>1, NextAt
<1>3. /\ todo' \in Seq(Task) /\ Len(todo') = Len(todo) - 1 /\ Len(todo) \in Nat \ {0}
      /\ \A i \in 1 .. Len(todo) - 1 : todo'[i] = todo[i + 1]
      /\ Now = todo[1]
  BY <1>1, Pop2
<1>4. "add" \in Stores /\ "memcpy" \in Stores
  BY DEF Stores
<1>5. /\ DOMAIN todo' = 1 .. Len(todo) - 1 /\ DOMAIN todo = 1 .. Len(todo)
  BY <1>3 DEF Types
<1>6. Copying' <=> \/ Do2 = "add" /\ Do3 # "memcpy"
                   \/ Do2 = "memcpy" /\ \E i \in 2 .. Len(todo) : todo[i].do = "add"
  <2>1. Do2 = "add" => (Len(todo') = 1 \/ todo'[2].do # "memcpy" <=> Do3 # "memcpy")
    <3>1. ASSUME Do2 = "add" PROVE Len(todo) >= 2
      BY <3>1 DEF Do2
    <3>2. Len(todo) >= 3 => todo'[2] = todo[3]
      BY <1>3
    <3>. QED BY <1>3, <3>1, <3>2 DEF Do3
  <2>2. (\E i \in DOMAIN todo' : todo'[i].do = "add")
          <=> \E i \in 2 .. Len(todo) : todo[i].do = "add"
    <3>1. ASSUME NEW i \in DOMAIN todo', todo'[i].do = "add"
          PROVE  \E j \in 2 .. Len(todo) : todo[j].do = "add"
      <4>1. i + 1 \in 2 .. Len(todo) /\ todo[i + 1].do = "add"
        BY <1>3, <1>5, <3>1
      <4>. QED BY <4>1
    <3>2. ASSUME NEW i \in 2 .. Len(todo), todo[i].do = "add"
          PROVE  \E j \in DOMAIN todo' : todo'[j].do = "add"
      <4>1. i - 1 \in DOMAIN todo' /\ todo'[i - 1] = todo[(i - 1) + 1] /\ (i - 1) + 1 = i
        BY <1>3, <1>5
      <4>. QED BY <3>2, <4>1
    <3>. QED BY <3>1, <3>2
  <2>. QED BY <1>2, <1>4, <2>1, <2>2 DEF Copying
<1>7. CASE Now.do = "add"
  <2>1. /\ Copying => Do2 \in {"fill", "end"}
        /\ ~Copying => Do2 = "memcpy" /\ todo[2].half = 1
                       /\ \E i \in 3 .. Len(todo) : todo[i].do = "add"
    BY <1>1, <1>7 DEF Ready, ReadyAdd, At
  <2>2. \A i \in 3 .. Len(todo) : i \in 2 .. Len(todo)
    BY <1>3
  <2>3. ~Mid
    BY <1>7 DEF Mid, At
  <2>. QED BY <1>2, <1>6, <1>7, <2>1, <2>2, <2>3
<1>8. CASE Now.do = "memcpy"
  <2>1. /\ Do2 \in {"memcpy", "add", "end"} /\ (Do2 = "memcpy" => Now.half = 1 /\ todo[2].half = 2)
        /\ Do2 = "add" => Do3 \in {"fill", "end"}
        /\ Do2 = "memcpy" => (Copying => Do3 = "add") /\ (~Copying => Len(todo) = 2)
    BY <1>1, <1>8 DEF Ready, ReadyCopy, At
  <2>2. Copying <=> \E i \in DOMAIN todo : todo[i].do = "add"
    BY <1>1, <1>8 DEF Copying, At
  <2>3. CASE Do2 = "memcpy"
    <3>1. Len(todo) >= 2 /\ todo[2].do = "memcpy"
      BY <2>3 DEF Do2
    <3>2. CASE Copying
      <4>1. Len(todo) >= 3 /\ todo[3].do = "add"
        BY <2>1, <2>3, <3>2 DEF Do3
      <4>2. 3 \in 2 .. Len(todo)
        BY <1>3, <4>1
      <4>. QED BY <1>2, <1>6, <1>8, <2>1, <2>3, <3>2, <4>1, <4>2 DEF Mid
    <3>3. CASE ~Copying
      <4>1. \A i \in 2 .. Len(todo) : i \in DOMAIN todo
        BY <1>3, <1>5
      <4>. QED BY <1>2, <1>6, <1>8, <2>1, <2>2, <2>3, <3>3, <4>1 DEF Mid
    <3>. QED BY <3>2, <3>3
  <2>4. CASE Do2 = "add"
    <3>1. Len(todo) >= 2 /\ todo[2].do = "add"
      BY <2>4 DEF Do2
    <3>2. 2 \in DOMAIN todo
      BY <1>3, <1>5, <3>1
    <3>3. Copying
      BY <2>2, <3>1, <3>2
    <3>. QED BY <1>2, <1>6, <1>8, <2>1, <2>4, <3>3
  <2>5. CASE Do2 = "end"
    <3>1. Len(todo) = 1
      <4>1. ASSUME Len(todo) >= 2 PROVE FALSE
        <5>1. todo[2] \in Task
          BY <1>3, <4>1 DEF Types
        <5>2. todo[2].do \in Stores
          BY <5>1 DEF Task
        <5>. QED BY <2>5, <4>1, <5>2 DEF Do2, Stores
      <4>. QED BY <1>3, <4>1
    <3>2. ~Copying
      BY <1>3, <1>5, <1>8, <2>2, <3>1
    <3>. QED BY <1>2, <1>6, <1>8, <2>5, <3>2
  <2>. QED BY <2>1, <2>3, <2>4, <2>5
<1>9. CASE Now.do \notin {"add", "memcpy"}
  <2>1. Now.do \in {"value", "struct", "store", "cas", "leaf", "clone", "type", "forward", "unlink",
                    "link"}
    BY <1>9, StoreKind
  <2>2. Do2 # "add" /\ Do2 # "memcpy"
    BY <1>1, <2>1 DEF Ready, ReadyGens, ReadyVal, ReadyNew, ReadyMove, At
  <2>3. ~Copying /\ ~Mid
    BY <1>9 DEF Copying, Mid, At
  <2>. QED BY <1>2, <1>6, <1>9, <2>2, <2>3
<1>. QED BY <1>7, <1>8, <1>9

\* Where the key's node is, before and after a store.
Quiet == {"add", "memcpy", "value", "struct", "store", "cas", "clone"}

\* Where the key's node is, before and after each store.
LEMMA NextHome ==
  ASSUME Types, Ready, Store
  PROVE  /\ Now.do \in Quiet /\ link' = link =>
              /\ Home = link /\ Home' = link /\ Dest = link /\ Dest' = link
              /\ ~At("forward")' /\ ~At("unlink")' /\ ~At("link")'
         /\ At("type")' => Now.do = "struct" /\ Now.node = link
         /\ Now.do = "leaf" => Home = 0 /\ Home' = epoch' /\ At("link")'
         /\ Now.do = "type" => /\ Home = link /\ Home' = epoch' /\ Dest = link /\ Dest' = link'
                               /\ At("forward")'
         /\ Now.do = "forward" => /\ Home = epoch /\ Home' = epoch' /\ Dest = link /\ Dest' = epoch'
                                  /\ At("unlink")'
         /\ Now.do = "unlink" => /\ Home = epoch /\ Home' = epoch' /\ Dest = epoch /\ Dest' = epoch'
                                 /\ At("link")' /\ Len(todo') = 1
         /\ Now.do = "link" => /\ Home = epoch /\ Home' = link' /\ Dest = epoch /\ Dest' = link'
                               /\ ~At("forward")' /\ ~At("unlink")' /\ ~At("link")'
         /\ Taking' = 0
<1>1. Pops /\ todo # <<>>
  BY StoreKind
<1>2. /\ At("forward")' <=> Do2 = "forward"
      /\ At("unlink")' <=> Do2 = "unlink"
      /\ At("link")' <=> Do2 = "link"
      /\ At("type")' <=> Do2 = "type"
      /\ At("leaf")' <=> Do2 = "leaf"
      /\ At("store")' <=> Do2 = "store"
  BY <1>1, NextAt DEF Stores
<1>3. \A d : At(d) <=> Now.do = d
  BY <1>1 DEF At
<1>4. Now.do = "unlink" => Len(todo') = 1
  <2>1. Now.do = "unlink" => Len(todo) = 2
    BY <1>3, Zenon DEF Ready, ReadyMove
  <2>2. Len(todo') = Len(todo) - 1
    BY <1>1, Pop2
  <2>. QED BY <2>1, <2>2
<1>5. /\ Now.do = "add" => Do2 \in {"fill", "end", "memcpy"}
      /\ Now.do = "memcpy" => Do2 \in {"memcpy", "add", "end"}
      /\ Now.do = "value" => Do2 \in {"struct", "fill", "end"}
      /\ Now.do = "struct" => /\ Do2 \in {"value", "struct", "type", "end"}
                              /\ Do2 = "type" => Now.node = link
      /\ Now.do = "store" => Do2 \in {"struct", "fill", "end"}
      /\ Now.do = "cas" => Do2 = "value"
      /\ Now.do = "leaf" => Do2 = "link" /\ link = 0
      /\ Now.do = "clone" => Do2 = "struct"
      /\ Now.do = "type" => Do2 = "forward"
      /\ Now.do = "forward" => Do2 = "unlink"
      /\ Now.do = "unlink" => Do2 = "link"
      /\ Now.do = "link" => Do2 \in {"struct", "end"}
  BY <1>3 DEF Ready, ReadyAdd, ReadyCopy, ReadyGens, ReadyVal, ReadyNew, ReadyMove
<1>6. Now.do \in {"memcpy", "add", "value", "struct", "store", "cas", "leaf", "clone", "type",
                  "forward", "unlink", "link"}
  BY StoreKind
<1>7. At("type")' => Now.do = "struct" /\ Now.node = link
  BY <1>2, <1>5, <1>6
<1>8. Taking' = 0
  BY <1>2, <1>5, <1>6 DEF Taking
<1>9. Now.do \in Quiet => Do2 \notin {"forward", "unlink", "link"}
  BY <1>5 DEF Quiet
<1>. QED BY <1>2, <1>3, <1>4, <1>5, <1>7, <1>8, <1>9 DEF Home, Dest, Quiet

------------------------------------------------------------------------------
(* What a store does to the nodes and boxes there are *)

Grows ==
  /\ epoch <= epoch' /\ Len(body) <= Len(body')
  /\ \A n \in 1 .. epoch :
       /\ node[n].moved => node'[n].moved
       /\ node'[n].moved /\ ~node[n].moved => Moving'
       /\ node[n].vg <= node'[n].vg
       /\ \A b \in Nat : node'[n].val = Box(b) =>
            node[n].val = Box(b) \/ (b > Len(body) /\ n = Home')
       /\ HasBox(n) /\ ~HasBox(n)' => node'[n].moved \/ now' = None
       /\ n = link => n = link' \/ node'[n].moved
       /\ Older(n) => Older(n)'
       /\ \A b \in 1 .. Len(body) : Sole(n, b) => Sole(n, b)'
  /\ \A b \in 1 .. Len(body) : body'[b] # body[b] =>
       /\ Alive /\ node[link].val = Box(b) /\ Home = link
       /\ node[link].vg % 2 = 1 \/ Bare \/ "odd" \in dead

Kept == Types' /\ EvenInv' /\ NowInv' /\ TokInv' /\ ForwardInv' /\ Grows

\* The ranges of nodes and their fields.
LEMMA Ranges ==
  ASSUME Types
  PROVE  /\ epoch \in Nat /\ MaxNode \in Nat /\ epoch <= MaxNode /\ link \in Nat /\ link <= epoch
         /\ \A n \in 1 .. epoch : n \in Node
         /\ link # 0 => link \in Node /\ link \in 1 .. epoch
         /\ \A n \in Node : /\ node[n].moved \in BOOLEAN /\ node[n].sg \in Nat /\ node[n].vg \in Nat
                            /\ node[n].val \in AnyVal
<1>1. /\ epoch \in Nat /\ MaxNode \in Nat /\ epoch <= MaxNode /\ link \in Nat /\ link <= epoch
  BY ViewsAssumption DEF Types
<1>2. /\ \A n \in 1 .. epoch : n \in Node
      /\ link # 0 => link \in Node /\ link \in 1 .. epoch
  BY <1>1 DEF Node
<1>3. \A n \in Node : /\ node[n].moved \in BOOLEAN /\ node[n].sg \in Nat /\ node[n].vg \in Nat
                      /\ node[n].val \in AnyVal
  BY DEF Types, NodeType
<1>. QED BY <1>1, <1>2, <1>3

\* What a store must show for the types.
LEMMA TypesKeep ==
  ASSUME Types, Ready, Store, node' \in [Node -> NodeType], epoch' \in 0 .. MaxNode,
         link' \in 0 .. epoch', \A n \in Node : node'[n].val \in ValOf(n)',
         body' \in Seq(Pair), Len(body') <= Len(body) + Taking, now' \in Pair \union {None}
  PROVE  Types'
<1>1. Pops /\ Steps /\ todo # <<>>
  BY StoreKind
<1>2. /\ rc' = rc /\ calls' = calls /\ dead' = dead /\ was' = was
  BY <1>1, StoreKeeps
<1>3. todo' \in Seq(Task)
  BY <1>1, Pop2
<1>4. Taking' = 0 /\ Taking \in {0, 1}
  BY NextHome DEF Taking
<1>5. Len(body') + calls' + Taking' <= MaxCalls + 1
  <2>1. Len(body) \in Nat /\ Len(body') \in Nat /\ calls \in Nat /\ MaxCalls \in Nat
        /\ Len(body) + calls + Taking <= MaxCalls + 1
    BY ViewsAssumption DEF Types
  <2>. QED BY <1>2, <1>4, <2>1
<1>. QED BY <1>2, <1>3, <1>5 DEF Types

\* Boxes and forwards that were there are still of their type.
LEMMA ValKeep ==
  ASSUME Types, epoch' \in Nat, epoch <= epoch', Len(body') \in Nat, Len(body) <= Len(body'),
         NEW n \in Node, NEW x \in ValOf(n)
  PROVE  x \in ValOf(n)'
<1>1. epoch \in Nat /\ n \in Nat /\ Len(body) \in Nat
  BY Ranges DEF Types, Node
<1>2. \A b \in 1 .. Len(body) : b \in 1 .. Len(body')
  BY <1>1
<1>3. \A m \in n + 1 .. epoch : m \in n + 1 .. epoch'
  BY <1>1
<1>. QED BY <1>2, <1>3 DEF ValOf

\* A store makes no forward but one to the key's next node.
LEMMA ForwardKeep ==
  ASSUME Types, ForwardInv, Grows,
         \A m, x \in Node : node'[m].val = To(x) =>
           node[m].val = To(x) \/ (x = Home' /\ ~Alive' /\ node'[m].moved)
  PROVE  ForwardInv'
<1>. SUFFICES ASSUME NEW m \in Node, NEW x \in Node, node'[m].val = To(x)
              PROVE  /\ node'[m].moved
                     /\ \A b \in Nat : node'[x].val = Box(b) => Sole(x, b)'
                     /\ Older(x)'
  BY DEF ForwardInv
<1>1. CASE x = Home' /\ ~Alive' /\ node'[m].moved
  BY <1>1 DEF Sole, Older
<1>2. CASE node[m].val = To(x)
  <2>1. x \in 1 .. epoch /\ m \in 1 .. epoch
    <3>1. x \in m + 1 .. epoch
      BY <1>2, ValFacts
    <3>. QED BY <3>1, Ranges DEF Node
  <2>2. Older(x)'
    BY <1>2, <2>1 DEF ForwardInv, Grows
  <2>3. ASSUME NEW b \in Nat, node'[x].val = Box(b) PROVE Sole(x, b)'
    <3>1. node[x].val = Box(b) \/ x = Home'
      BY <2>1, <2>3 DEF Grows
    <3>2. CASE node[x].val = Box(b)
      <4>1. Sole(x, b) /\ b \in 1 .. Len(body)
        BY <1>2, <3>2, ValFacts DEF ForwardInv
      <4>. QED BY <2>1, <4>1 DEF Grows
    <3>3. CASE x = Home'
      BY <3>3 DEF Sole
    <3>. QED BY <3>1, <3>2, <3>3
  <2>4. node'[m].moved
    BY <1>2, <2>1 DEF ForwardInv, Grows
  <2>. QED BY <2>2, <2>3, <2>4
<1>. QED BY <1>1, <1>2

\* A walk from a token ends where it did.
LEMMA LeadsKeep ==
  ASSUME Types, NEW n \in 1 .. epoch, Leads(n), Dest' = Dest,
         \A m \in 1 .. epoch : m # Dest /\ node[m].moved =>
           node'[m].moved /\ node'[m].val = node[m].val
  PROVE  Leads(n)'
<1>1. PICK S \in SUBSET Node :
        /\ n \in S
        /\ \A m \in S : m = Dest \/ (node[m].moved /\ \E x \in S : node[m].val = To(x))
  BY DEF Leads
<1>2. PICK T \in SUBSET Node : T = S \intersect (1 .. epoch)
  OBVIOUS
<1>3. n \in T
  BY <1>1, <1>2
<1>4. ASSUME NEW m \in T, m # Dest'
      PROVE  node'[m].moved /\ \E x \in T : node'[m].val = To(x)
  <2>1. PICK x \in S : node[m].val = To(x) /\ node[m].moved
    BY <1>1, <1>2, <1>4
  <2>2. x \in m + 1 .. epoch
    BY <1>2, <2>1, ValFacts
  <2>3. x \in T
    BY <1>2, <2>2, Ranges DEF Node
  <2>. QED BY <1>2, <1>4, <2>1, <2>3
<1>. QED BY <1>3, <1>4 DEF Leads

\* A store that neither marks nor links keeps the writer's token.
LEMMA TokKeep ==
  ASSUME Types, TokInv, Ready, Store, Now.do \in Quiet, link' = link, epoch' \in Nat, epoch <= epoch',
         \A n \in 1 .. epoch : /\ node'[n].moved = node[n].moved
                               /\ node'[n].sg \in Nat /\ node[n].sg <= node'[n].sg
                               /\ n # link /\ node[n].moved => node'[n].val = node[n].val,
         At("type")' => node[link].sg < node'[link].sg
  PROVE  TokInv'
<1>1. tok' = tok
  BY StoreKind, StoreKeeps
<1>. SUFFICES ASSUME tok # NoTok PROVE TokInv'
  BY <1>1 DEF TokInv
<1>2. /\ tok.node \in 1 .. epoch /\ tok.box \in Nat /\ Leads(tok.node)
      /\ Alive \/ At("forward") \/ At("unlink") \/ At("link")
      /\ tok.sg \in Nat /\ tok.sg <= node[tok.node].sg
      /\ tok.node # link \/ node[link].moved \/ At("type") => tok.sg < node[tok.node].sg
  BY DEF TokInv
<1>3. Alive
  BY <1>2 DEF Quiet, At
<1>4. link \in 1 .. epoch /\ epoch \in Nat /\ link \in Nat
  BY <1>3, Ranges DEF Alive
<1>5. Alive'
  BY <1>3, <1>4 DEF Alive
<1>6. Leads(tok.node)'
  BY <1>1, <1>2, LeadsKeep, NextHome
<1>7. tok.node \in Nat /\ node[tok.node].sg \in Nat /\ tok.node \in 1 .. epoch'
  BY <1>2, <1>4, Ranges
<1>8. tok.sg <= node'[tok.node].sg
  BY <1>2, <1>7
<1>9. ASSUME tok.node # link' \/ node'[link'].moved \/ At("type")'
      PROVE  tok.sg < node'[tok.node].sg
  <2>1. CASE tok.node # link
    BY <1>2, <1>7, <2>1
  <2>2. CASE tok.node = link
    <3>1. ~node'[link'].moved
      BY <1>5 DEF Alive
    <3>2. node[link].sg < node'[link].sg
      BY <1>9, <2>2, <3>1
    <3>. QED BY <1>2, <1>7, <2>2, <3>2
  <2>. QED BY <2>1, <2>2
<1>10. TokInv'
  BY <1>1, <1>2, <1>5, <1>6, <1>7, <1>8, <1>9 DEF TokInv
<1>. QED BY <1>10

\* Where the index leads to the same node, the key's box is still its own.
LEMMA SoleKeep ==
  ASSUME Types, Home' = Home, Home \in 0 .. epoch, NEW n \in 1 .. epoch, NEW b \in 1 .. Len(body),
         \A m \in 1 .. epoch : /\ node[m].moved => node'[m].moved
                               /\ node'[m].val = Box(b) => node[m].val = Box(b),
         Sole(n, b)
  PROVE  Sole(n, b)'
<1>1. Home # 0 => Home \in 1 .. epoch
  BY Ranges
<1>. QED BY <1>1 DEF Sole

\* Only generations change.
LEMMA GensKept ==
  ASSUME Types, WriterInv, Ready, Store, Gens, Now.do \in {"add", "value", "struct"},
         \A n \in Node : node[n].sg <= node'[n].sg /\ node[n].vg <= node'[n].vg,
         EvenInv', At("type")' => node[link].sg < node'[link].sg
  PROVE  Kept
<1>1. /\ UNCHANGED <<link, epoch, body, now>> /\ node' \in [Node -> NodeType]
      /\ \A m \in Node : node'[m].moved = node[m].moved /\ node'[m].val = node[m].val
  BY DEF Gens
<1>2. /\ epoch \in Nat /\ MaxNode \in Nat /\ epoch <= MaxNode /\ link \in Nat /\ link <= epoch
      /\ \A n \in 1 .. epoch : n \in Node
      /\ link # 0 => link \in Node /\ link \in 1 .. epoch
  BY Ranges
<1>3. /\ Home = link /\ Home' = link /\ Dest = link /\ Dest' = link
      /\ ~At("forward")' /\ ~At("unlink")' /\ ~At("link")' /\ Now.do \in Quiet
  BY <1>1, NextHome DEF Quiet
<1>4. Alive' = Alive /\ Moving' = Moving
  BY <1>1, <1>2 DEF Alive, Moving
<1>5. Types'
  <2>1. \A n \in Node : node'[n].val \in ValOf(n)'
    BY <1>1 DEF Types, ValOf
  <2>2. Taking = 0 \/ Taking = 1
    BY DEF Taking
  <2>3. Len(body') <= Len(body) + Taking
    BY <1>1, <2>2 DEF Types
  <2>. QED BY <1>1, <2>1, <2>3, TypesKeep DEF Types
<1>6. NowInv'
  <2>1. link # 0 => HasBox(link)' = HasBox(link) /\ BoxOf(link)' = BoxOf(link)
    BY <1>1, <1>2 DEF HasBox, BoxOf
  <2>2. ~Mid /\ ~At("forward") /\ ~At("unlink") /\ ~At("link")
    BY DEF Mid, At
  <2>3. Alive => link # 0
    BY DEF Alive
  <2>4. dead' = dead
    BY StoreKind, StoreKeeps
  <2>. QED BY <1>1, <1>3, <1>4, <2>1, <2>2, <2>3, <2>4 DEF WriterInv, NowInv
<1>7. TokInv'
  <2>1. node' \in [Node -> NodeType] => \A n \in Node : node'[n].sg \in Nat
    BY DEF NodeType
  <2>. QED BY <1>1, <1>2, <1>3, <2>1, TokKeep DEF WriterInv
<1>8. Grows
  <2>1. \A n \in 1 .. epoch : HasBox(n)' = HasBox(n)
    BY <1>1, <1>2 DEF HasBox
  <2>2. \A n \in 1 .. epoch : Older(n)' = Older(n)
    BY <1>1, <1>4 DEF Older
  <2>3. ASSUME NEW n \in 1 .. epoch, NEW b \in 1 .. Len(body), Sole(n, b) PROVE Sole(n, b)'
    BY <1>1, <1>2, <1>3, <2>3, SoleKeep DEF Types
  <2>4. Len(body) \in Nat
    BY DEF Types
  <2>. QED BY <1>1, <1>2, <1>4, <2>1, <2>2, <2>3, <2>4 DEF Grows
<1>9. ForwardInv'
  BY <1>1, <1>8, ForwardKeep DEF WriterInv
<1>. QED BY <1>5, <1>6, <1>7, <1>8, <1>9 DEF Kept

\* value_gen + 1: odd exactly during the copy.
LEMMA AddKept ==
  ASSUME Types, WriterInv, Ready, value_gen_add
  PROVE  Kept
<1>1. Store /\ Now.do = "add" /\ At("add") /\ Steps
  BY DEF Store, value_gen_add, At
<1>2. Now.node = link /\ link \in Node
  BY <1>1, Ranges DEF Ready, ReadyAdd, Alive
<1>3. Gens
  BY <1>2, GenStep
<1>4. \A m \in Node : /\ node'[m].sg = node[m].sg
                      /\ node'[m].vg = IF m = link THEN node[m].vg + 1 ELSE node[m].vg
  BY <1>2, NodeVg, 1 \in Nat DEF value_gen_add, Types
<1>5. \A m \in Node : node[m].sg \in Nat /\ node[m].vg \in Nat
  BY Ranges
<1>6. EvenInv'
  <2>1. Copying' <=> ~Copying
    BY <1>1, NextCopying
  <2>2. dead' = dead /\ link' = link
    BY <1>1, StoreKeeps DEF value_gen_add
  <2>. SUFFICES ASSUME "odd" \notin dead, NEW n \in Node
                PROVE  node'[n].vg % 2 = IF n = link /\ Copying' THEN 1 ELSE 0
    BY <2>2 DEF EvenInv
  <2>3. node[n].vg % 2 = IF n = link /\ Copying THEN 1 ELSE 0
    BY DEF WriterInv, EvenInv
  <2>4. CASE n = link
    <3>1. node'[n].vg = node[n].vg + 1 /\ node[n].vg \in Nat
      BY <1>4, <1>5, <2>4
    <3>2. node'[n].vg % 2 = IF node[n].vg % 2 = 1 THEN 0 ELSE 1
      BY <3>1
    <3>. QED BY <2>1, <2>3, <2>4, <3>2
  <2>5. CASE n # link
    BY <1>4, <2>3, <2>5
  <2>. QED BY <2>4, <2>5
<1>7. ~At("type")'
  BY <1>1, NextHome
<1>. QED BY <1>1, <1>3, <1>4, <1>5, <1>6, <1>7, GensKept

\* The other generations: value_gen keeps its parity.
LEMMA BumpKept ==
  ASSUME Types, WriterInv, Ready, gen_bump_value \/ gen_bump_struct
  PROVE  Kept
<1>1. Store /\ Now.do \in {"value", "struct"} /\ At(Now.do) /\ Steps
  BY DEF Store, gen_bump_value, gen_bump_struct, At
<1>2. Now.node \in Node
  BY <1>1, Ranges DEF Ready, ReadyGens
<1>3. Gens
  BY <1>2, GenStep
<1>4. ASSUME gen_bump_value
      PROVE  \A m \in Node : /\ node'[m].sg = node[m].sg
                             /\ node'[m].vg = IF m = Now.node THEN node[m].vg + 2 ELSE node[m].vg
  BY <1>2, <1>4, NodeVg, 2 \in Nat DEF gen_bump_value, BumpBy, Types
<1>5. ASSUME gen_bump_struct
      PROVE  \A m \in Node : /\ node'[m].vg = node[m].vg
                             /\ node'[m].sg = IF m = Now.node THEN node[m].sg + 1 ELSE node[m].sg
  BY <1>2, <1>5, NodeSg DEF gen_bump_struct, Types
<1>6. \A m \in Node : node[m].sg \in Nat /\ node[m].vg \in Nat
  BY Ranges
<1>7. \A m \in Node : /\ node'[m].vg % 2 = node[m].vg % 2
                      /\ node[m].sg <= node'[m].sg /\ node[m].vg <= node'[m].vg
  BY <1>4, <1>5, <1>6
<1>8. EvenInv'
  <2>1. ~Copying' /\ ~Copying
    BY <1>1, NextCopying
  <2>2. dead' = dead
    BY <1>1, StoreKeeps
  <2>. QED BY <1>7, <2>1, <2>2 DEF WriterInv, EvenInv
<1>9. At("type")' => node[link].sg < node'[link].sg
  <2>1. ASSUME At("type")' PROVE Now.do = "struct" /\ Now.node = link
    BY <1>1, <2>1, NextHome
  <2>2. ASSUME At("type")' PROVE gen_bump_struct
    BY <1>1, <2>1, <2>2, StoreKind
  <2>. QED BY <1>2, <1>5, <1>6, <2>1, <2>2
<1>. QED BY <1>1, <1>3, <1>7, <1>8, <1>9, GensKept

\* A half is copied: the value is complete with the last one.
LEMMA CopyKept ==
  ASSUME Types, WriterInv, Ready, memcpy
  PROVE  Kept
<1>1. Store /\ Now.do = "memcpy" /\ At("memcpy") /\ Steps
  BY DEF Store, memcpy, At
<1>2. /\ Alive /\ node[link].val = Box(Now.box) /\ (Copying \/ Bare)
  BY <1>1 DEF Ready, ReadyCopy
<1>3. /\ UNCHANGED <<node, link, epoch>> /\ Alive' = Alive
      /\ link \in Node /\ Now.box \in 1 .. Len(body)
      /\ body' \in Seq(Pair) /\ Len(body') = Len(body)
      /\ \A c \in 1 .. Len(body) : c # Now.box => body'[c] = body[c]
      /\ body'[Now.box] \in Pair
      /\ Do2 = "memcpy" => now' = now
      /\ Do2 # "memcpy" => now' = body'[Now.box]
  BY CopyStep DEF Ready
<1>4. /\ epoch \in Nat /\ MaxNode \in Nat /\ epoch <= MaxNode /\ link \in Nat /\ link <= epoch
      /\ \A n \in 1 .. epoch : n \in Node
      /\ link \in 1 .. epoch
      /\ \A n \in Node : node[n].vg \in Nat /\ node[n].sg \in Nat
  BY <1>2, Ranges DEF Alive
<1>5. /\ Home = link /\ Home' = link /\ Dest = link /\ Dest' = link
      /\ ~At("forward")' /\ ~At("unlink")' /\ ~At("link")' /\ Now.do \in Quiet /\ ~At("type")'
  BY <1>1, <1>3, NextHome DEF Quiet
<1>6. dead' = dead
  BY <1>1, StoreKeeps
<1>7. ~Moving' /\ HasBox(link) /\ HasBox(link)' /\ BoxOf(link)' = Now.box /\ BoxOf(link) = Now.box
  BY <1>2, <1>3, ValFacts DEF Moving, Alive, HasBox, BoxOf
<1>8. Types'
  <2>1. \A n \in Node : node'[n].val \in ValOf(n)'
    BY <1>3 DEF Types, ValOf
  <2>2. Taking = 0 \/ Taking = 1
    BY DEF Taking
  <2>3. Len(body') <= Len(body) + Taking
    BY <1>3, <2>2 DEF Types
  <2>4. now' \in Pair \union {None}
    BY <1>3 DEF Types
  <2>. QED BY <1>1, <1>3, <2>1, <2>3, <2>4, TypesKeep DEF Types
<1>9. EvenInv'
  <2>1. Copying' <=> Copying
    BY <1>1, NextCopying
  <2>. QED BY <1>3, <1>6, <2>1 DEF WriterInv, EvenInv
<1>10. NowInv'
  <2>1. Mid' <=> Do2 = "memcpy"
    BY <1>1, NextCopying
  <2>2. now # None
    BY <1>2, <1>7 DEF WriterInv, NowInv
  <2>3. now' # None
    BY <1>3, <2>2, PairFacts
  <2>. QED BY <1>3, <1>7, <2>1, <2>3 DEF NowInv
<1>11. TokInv'
  BY <1>1, <1>3, <1>4, <1>5, TokKeep DEF WriterInv
<1>12. Grows
  <2>1. \A n \in 1 .. epoch : HasBox(n)' = HasBox(n)
    BY <1>3 DEF HasBox
  <2>2. \A n \in 1 .. epoch : Older(n)' = Older(n)
    BY <1>3 DEF Older
  <2>3. ASSUME NEW n \in 1 .. epoch, NEW b \in 1 .. Len(body), Sole(n, b) PROVE Sole(n, b)'
    BY <1>3, <1>4, <1>5, <2>3, SoleKeep
  <2>4. node[link].vg % 2 = 1 \/ Bare \/ "odd" \in dead
    BY <1>2, <1>3 DEF WriterInv, EvenInv
  <2>5. Len(body) \in Nat
    BY DEF Types
  <2>6. \A b \in 1 .. Len(body) : body'[b] # body[b] => node[link].val = Box(b)
    BY <1>2, <1>3
  <2>. QED BY <1>2, <1>3, <1>4, <1>5, <2>1, <2>2, <2>3, <2>4, <2>5, <2>6 DEF Grows
<1>13. ForwardInv'
  BY <1>3, <1>12, ForwardKeep DEF WriterInv
<1>. QED BY <1>8, <1>9, <1>10, <1>11, <1>12, <1>13 DEF Kept

\* The val word of the key's node changes.
LEMMA ValKept ==
  ASSUME Types, WriterInv, Ready, art_val_store \/ art_val_cas
  PROVE  Kept
<1>1. Store /\ Now.do \in {"store", "cas"} /\ At(Now.do) /\ Steps
  BY DEF Store, art_val_store, art_val_cas, At
<1>2. Now.node = link /\ link # 0
  BY <1>1 DEF Ready, ReadyVal
<1>3. /\ epoch \in Nat /\ MaxNode \in Nat /\ epoch <= MaxNode /\ link \in Nat /\ link <= epoch
      /\ \A n \in 1 .. epoch : n \in Node
      /\ link \in Node /\ link \in 1 .. epoch
      /\ \A n \in Node : node[n].vg \in Nat /\ node[n].sg \in Nat
  BY <1>2, Ranges
<1>4. link' = link /\ epoch' = epoch
  BY DEF art_val_store, art_val_cas
<1>5. /\ Home = link /\ Home' = link /\ Dest = link /\ Dest' = link
      /\ ~At("forward")' /\ ~At("unlink")' /\ ~At("link")' /\ Now.do \in Quiet /\ ~At("type")'
      /\ ~Mid /\ ~Mid' /\ ~At("forward") /\ ~At("unlink") /\ ~At("link")
  BY <1>1, <1>4, NextHome, NextCopying DEF Quiet, At
<1>6. body \in Seq(Pair) /\ Len(body) \in Nat
  BY DEF Types
<1>7. PICK x \in AnyVal :
        /\ node' = [node EXCEPT ![link].val = x]
        /\ \/ /\ Now.do = "store" /\ x = Box(Len(body) + 1) /\ body' \in Seq(Pair)
              /\ Len(body') = Len(body) + 1 /\ \A b \in 1 .. Len(body) : body'[b] = body[b]
              /\ body'[Len(body) + 1] \in Pair
              /\ now' = IF node[link].moved THEN now ELSE body'[Len(body) + 1]
           \/ /\ Now.do = "cas" /\ x = NoVal /\ body' = body
              /\ now' = IF node[link].moved THEN now ELSE None
  <2>1. CASE art_val_store
    <3>1. Now.v \in V /\ Now.do = "store"
      BY <1>1, <2>1 DEF Ready, ReadyVal, art_val_store, At
    <3>2. Whole(Now.v) \in Pair
      BY <3>1, PairFacts
    <3>3. /\ body' = Append(body, Whole(Now.v)) /\ node' = [node EXCEPT ![link].val = Box(Len(body'))]
          /\ now' = IF node[link].moved THEN now ELSE Whole(Now.v)
      BY <1>2, <2>1 DEF art_val_store
    <3>4. /\ body' \in Seq(Pair) /\ Len(body') = Len(body) + 1
          /\ \A b \in 1 .. Len(body) : body'[b] = body[b]
          /\ body'[Len(body) + 1] = Whole(Now.v)
      BY <1>6, <3>2, <3>3
    <3>5. Box(Len(body) + 1) \in AnyVal
      BY <1>6, AnyVals
    <3>. QED BY <3>1, <3>2, <3>3, <3>4, <3>5
  <2>2. CASE art_val_cas
    <3>1. Now.do = "cas"
      BY <2>2 DEF art_val_cas, At
    <3>. QED BY <1>2, <2>2, <3>1, AnyVals DEF art_val_cas
  <2>. QED BY <2>1, <2>2
<1>8. /\ node' \in [Node -> NodeType]
      /\ \A m \in Node : /\ node'[m].moved = node[m].moved /\ node'[m].sg = node[m].sg
                         /\ node'[m].vg = node[m].vg
                         /\ node'[m].val = IF m = link THEN x ELSE node[m].val
  <2>1. node \in [Node -> NodeType]
    BY DEF Types
  <2>2. node' = [node EXCEPT ![link].val = x]
    BY <1>7
  <2>3. link \in Node
    BY <1>3
  <2>. HIDE DEF NodeType
  <2>. QED BY <2>1, <2>2, <2>3, NodeVal
<1>9. Alive' = Alive /\ dead' = dead /\ Len(body) <= Len(body') /\ Len(body') \in Nat
  BY <1>1, <1>3, <1>4, <1>6, <1>7, <1>8, StoreKeeps DEF Alive
<1>10. Types'
  <2>1. ASSUME NEW n \in Node PROVE node'[n].val \in ValOf(n)'
    <3>1. node[n].val \in ValOf(n)'
      BY <1>3, <1>4, <1>9, ValKeep DEF Types
    <3>2. x \in ValOf(n)'
      <4>1. x = NoVal \/ (x = Box(Len(body')) /\ Len(body') \in 1 .. Len(body'))
        BY <1>6, <1>7
      <4>. QED BY <4>1 DEF ValOf
    <3>. QED BY <1>8, <3>1, <3>2
  <2>2. (Now.do = "store" => Taking = 1) /\ Taking \in {0, 1}
    BY <1>1 DEF Taking, At
  <2>3. Len(body') <= Len(body) + Taking
    BY <1>6, <1>7, <2>2
  <2>4. now' \in Pair \union {None} /\ body' \in Seq(Pair)
    BY <1>6, <1>7 DEF Types
  <2>5. epoch' \in 0 .. MaxNode /\ link' \in 0 .. epoch'
    BY <1>3, <1>4
  <2>. QED BY <1>1, <1>8, <2>1, <2>3, <2>4, <2>5, TypesKeep
<1>11. EvenInv'
  <2>1. ~Copying' /\ ~Copying
    BY <1>1, NextCopying
  <2>. QED BY <1>8, <1>9, <2>1 DEF WriterInv, EvenInv
<1>12. (x = NoVal => ~HasBox(link)') /\ (x # NoVal => HasBox(link)' /\ BoxOf(link)' = Len(body) + 1)
       /\ (x = NoVal <=> Now.do = "cas")
  BY <1>3, <1>4, <1>7, <1>8, ValForms DEF HasBox, BoxOf
<1>13. NowInv'
  <2>1. Moving' <=> node[link].moved
    BY <1>2, <1>3, <1>4, <1>8 DEF Moving
  <2>2. Moving <=> node[link].moved
    BY <1>2 DEF Moving
  <2>3. "moving" \notin dead' => ~Moving'
    BY <1>5, <1>9, <2>1, <2>2 DEF WriterInv, NowInv
  <2>4. ASSUME Alive' PROVE /\ now' = None <=> ~HasBox(link)'
                            /\ HasBox(link)' => now' = body'[BoxOf(link)']
    <3>1. ~node[link].moved
      BY <1>9, <2>4 DEF Alive
    <3>. QED BY <1>7, <1>12, <3>1, PairFacts
  <2>. QED BY <1>5, <2>3, <2>4 DEF NowInv
<1>14. TokInv'
  BY <1>1, <1>3, <1>4, <1>5, <1>8, TokKeep DEF WriterInv
<1>15. Grows
  <2>1. ASSUME NEW n \in 1 .. epoch, NEW b \in Nat, node'[n].val = Box(b)
        PROVE  node[n].val = Box(b) \/ (b > Len(body) /\ n = Home')
    <3>1. CASE n = link
      <4>1. x = Box(b)
        BY <1>3, <1>8, <2>1, <3>1
      <4>2. b = Len(body) + 1
        BY <1>7, <4>1, ValForms
      <4>. QED BY <1>5, <1>6, <3>1, <4>2
    <3>2. CASE n # link
      BY <1>3, <1>8, <2>1, <3>2
    <3>. QED BY <3>1, <3>2
  <2>2. ASSUME NEW n \in 1 .. epoch, HasBox(n), ~HasBox(n)' PROVE node'[n].moved \/ now' = None
    <3>1. n = link
      BY <1>3, <1>8, <2>2 DEF HasBox
    <3>2. Now.do = "cas"
      BY <1>4, <1>12, <2>2, <3>1 DEF HasBox
    <3>. QED BY <1>3, <1>7, <1>8, <3>1, <3>2
  <2>3. \A n \in 1 .. epoch : Older(n)' = Older(n)
    BY <1>4, <1>9 DEF Older
  <2>4. ASSUME NEW n \in 1 .. epoch, NEW b \in 1 .. Len(body), Sole(n, b) PROVE Sole(n, b)'
    <3>1. b \in Nat /\ ~(b > Len(body))
      BY <1>6
    <3>2. \A m \in 1 .. epoch : /\ node[m].moved => node'[m].moved
                                /\ node'[m].val = Box(b) => node[m].val = Box(b)
      BY <1>3, <1>8, <2>1, <3>1
    <3>3. Home \in 0 .. epoch /\ Home' = Home
      BY <1>3, <1>5
    <3>. QED BY <2>4, <3>2, <3>3, SoleKeep
  <2>5. \A b \in 1 .. Len(body) : body'[b] = body[b]
    BY <1>7
  <2>6. \A n \in 1 .. epoch : node'[n].moved = node[n].moved /\ node'[n].vg = node[n].vg
                              /\ node[n].vg <= node[n].vg
    BY <1>3, <1>8
  <2>. QED BY <1>3, <1>4, <1>9, <2>1, <2>2, <2>3, <2>4, <2>5, <2>6 DEF Grows
<1>16. ForwardInv'
  <2>1. \A m, y \in Node : node'[m].val = To(y) => node[m].val = To(y)
    <3>1. \A y \in Node : x # To(y)
      BY <1>7, ValForms
    <3>. QED BY <1>8, <3>1
  <2>. QED BY <1>15, <2>1, ForwardKeep DEF WriterInv
<1>. QED BY <1>10, <1>11, <1>13, <1>14, <1>15, <1>16 DEF Kept

\* A new node, which nothing leads to yet.
LEMMA NewKept ==
  ASSUME Types, WriterInv, Ready, art_new_leaf \/ art_new_node
  PROVE  Kept
<1>1. Store /\ Now.do \in {"leaf", "clone"} /\ At(Now.do) /\ Steps
  BY DEF Store, art_new_leaf, art_new_node, At
<1>2. /\ epoch \in Nat /\ MaxNode \in Nat /\ epoch <= MaxNode /\ link \in Nat /\ link <= epoch
      /\ \A n \in 1 .. epoch : n \in Node
      /\ link # 0 => link \in Node /\ link \in 1 .. epoch
      /\ \A n \in Node : node[n].vg \in Nat /\ node[n].sg \in Nat
  BY Ranges
<1>3. /\ epoch < MaxNode /\ (Now.do = "leaf" => link = 0) /\ (Now.do = "clone" => Alive)
  BY <1>1 DEF Ready, ReadyNew
<1>4. PICK e \in Node : e = epoch + 1
  BY <1>2, <1>3 DEF Node
<1>5. body \in Seq(Pair) /\ Len(body) \in Nat
  BY DEF Types
<1>6. PICK x \in AnyVal :
        /\ node' = [node EXCEPT ![e] = [Fresh EXCEPT !.val = x, !.sg = e]]
        /\ link' = link /\ now' = now /\ epoch' = e
        /\ \/ /\ Now.do = "leaf" /\ x = Box(Len(body) + 1) /\ body' \in Seq(Pair)
              /\ Len(body') = Len(body) + 1 /\ \A b \in 1 .. Len(body) : body'[b] = body[b]
           \/ Now.do = "clone" /\ body' = body /\ x = node[link].val
  <2>1. CASE art_new_leaf
    <3>1. Now.v \in V /\ Now.do = "leaf"
      BY <1>1, <2>1 DEF Ready, ReadyNew, art_new_leaf, At
    <3>2. Whole(Now.v) \in Pair
      BY <3>1, PairFacts
    <3>3. /\ body' = Append(body, Whole(Now.v)) /\ epoch' = e /\ link' = link /\ now' = now
          /\ node' = [node EXCEPT ![e] = [Fresh EXCEPT !.val = Box(Len(body')), !.sg = e]]
      BY <1>4, <2>1 DEF art_new_leaf
    <3>4. /\ body' \in Seq(Pair) /\ Len(body') = Len(body) + 1
          /\ \A b \in 1 .. Len(body) : body'[b] = body[b]
      BY <1>5, <3>2, <3>3
    <3>5. Box(Len(body) + 1) \in AnyVal
      BY <1>5, AnyVals
    <3>. QED BY <3>1, <3>3, <3>4, <3>5
  <2>2. CASE art_new_node
    <3>1. Now.do = "clone"
      BY <2>2 DEF art_new_node, At
    <3>2. node[link].val \in AnyVal
      BY <1>2, <1>3, <3>1, Ranges DEF Alive
    <3>3. node' = [node EXCEPT ![e] = [Fresh EXCEPT !.val = node[link].val, !.sg = e]]
          /\ link' = link /\ now' = now /\ epoch' = e /\ body' = body
      BY <1>4, <2>2 DEF art_new_node
    <3>. QED BY <3>1, <3>2, <3>3
  <2>. QED BY <2>1, <2>2
<1>7. e \in Nat /\ e = epoch + 1 /\ epoch' \in Nat /\ epoch <= epoch' /\ ~(e \in 1 .. epoch)
      /\ Len(body') \in Nat /\ Len(body) <= Len(body')
  BY <1>2, <1>4, <1>5, <1>6
<1>8. /\ node' \in [Node -> NodeType]
      /\ \A m \in Node : m # e => node'[m] = node[m]
      /\ node'[e].moved = FALSE /\ node'[e].val = x /\ node'[e].sg = e /\ node'[e].vg = 0
  <2>1. node \in [Node -> NodeType]
    BY DEF Types
  <2>2. node' = [node EXCEPT ![e] = [Fresh EXCEPT !.val = x, !.sg = e]]
    BY <1>6
  <2>3. e \in Nat
    BY <1>7
  <2>. QED BY ZenonT(30), <2>1, <2>2, <2>3, NodeNew
<1>9. \A n \in 1 .. epoch : n # e /\ n \in Node /\ node'[n] = node[n]
  BY <1>2, <1>7, <1>8
<1>10. Alive' = Alive /\ dead' = dead /\ Moving' = Moving
  BY <1>1, <1>2, <1>6, <1>9, StoreKeeps DEF Alive, Moving
<1>11. ~Mid /\ ~Mid' /\ ~Copying /\ ~Copying' /\ ~At("forward") /\ ~At("unlink") /\ ~At("link")
       /\ ~At("type")'
  BY <1>1, NextCopying, NextHome DEF At
<1>12. Types'
  <2>1. ASSUME NEW n \in Node PROVE node'[n].val \in ValOf(n)'
    <3>1. node[n].val \in ValOf(n)'
      BY <1>7, ValKeep DEF Types
    <3>2. CASE n = e
      <4>1. CASE Now.do = "leaf"
        <5>1. x = Box(Len(body')) /\ Len(body') \in 1 .. Len(body')
          BY <1>5, <1>6, <4>1
        <5>. QED BY <1>8, <3>2, <5>1 DEF ValOf
      <4>2. CASE Now.do = "clone"
        <5>1. x = node[link].val /\ link \in Node /\ Alive
          BY <1>2, <1>3, <1>6, <4>2 DEF Alive
        <5>2. x = NoVal \/ HasBox(link)
          <6>1. node[link].val \in ValOf(link)
            BY <5>1 DEF Types
          <6>2. \A m \in link + 1 .. epoch : m \in Node
            BY <1>2, <5>1 DEF Node
          <6>3. \A m \in Node : x # To(m)
            BY <5>1 DEF WriterInv, ForwardInv, Alive
          <6>. QED BY <5>1, <6>1, <6>2, <6>3, ValForms DEF ValOf, HasBox
        <5>3. HasBox(link) => x = Box(BoxOf(link)) /\ BoxOf(link) \in 1 .. Len(body')
          BY <1>5, <1>7, <5>1, ValFacts
        <5>. QED BY <1>8, <3>2, <5>2, <5>3 DEF ValOf
      <4>. QED BY <1>1, <4>1, <4>2
    <3>. QED BY <1>8, <3>1, <3>2
  <2>2. (Now.do = "leaf" => Taking = 1) /\ Taking \in {0, 1}
    BY <1>1 DEF Taking, At
  <2>3. Len(body') <= Len(body) + Taking
    BY <1>5, <1>6, <2>2
  <2>4. now' \in Pair \union {None} /\ body' \in Seq(Pair)
    BY <1>5, <1>6 DEF Types
  <2>5. epoch' \in 0 .. MaxNode /\ link' \in 0 .. epoch'
    BY <1>2, <1>3, <1>6, <1>7
  <2>. QED BY <1>1, <1>8, <2>1, <2>3, <2>4, <2>5, TypesKeep
<1>13. EvenInv'
  <2>1. node'[e].vg % 2 = 0
    BY <1>8
  <2>. QED BY <1>8, <1>10, <1>11, <2>1 DEF WriterInv, EvenInv
<1>14. NowInv'
  <2>1. Alive => HasBox(link)' = HasBox(link) /\ BoxOf(link)' = BoxOf(link)
                 /\ (HasBox(link) => BoxOf(link) \in 1 .. Len(body))
    <3>1. Alive => link \in 1 .. epoch
      BY <1>2 DEF Alive
    <3>. QED BY <1>6, <1>9, <3>1, ValFacts DEF HasBox, BoxOf
  <2>2. \A b \in 1 .. Len(body) : body'[b] = body[b]
    BY <1>6
  <2>. QED BY <1>6, <1>10, <1>11, <2>1, <2>2 DEF WriterInv, NowInv
<1>15. TokInv'
  <2>1. CASE Now.do = "clone"
    <3>1. \A n \in 1 .. epoch : /\ node'[n].moved = node[n].moved /\ node'[n].sg = node[n].sg
                                /\ node'[n].sg \in Nat /\ node'[n].val = node[n].val
                                /\ node[n].sg <= node[n].sg
      BY <1>2, <1>9
    <3>2. Now.do \in Quiet
      BY <2>1 DEF Quiet
    <3>. QED BY <1>1, <1>6, <1>7, <1>11, <3>1, <3>2, TokKeep DEF WriterInv
  <2>2. CASE Now.do = "leaf"
    <3>1. tok' = tok
      BY <1>1, StoreKeeps
    <3>2. ~Alive
      BY <1>3, <2>2 DEF Alive
    <3>3. tok = NoTok
      BY <1>11, <3>2 DEF WriterInv, TokInv
    <3>. QED BY <3>1, <3>3 DEF TokInv
  <2>. QED BY <1>1, <2>1, <2>2
<1>16. Grows
  <2>1. \A n \in 1 .. epoch : HasBox(n)' = HasBox(n)
    BY <1>9 DEF HasBox
  <2>2. \A n \in 1 .. epoch : Older(n)' = Older(n)
    BY <1>6, <1>10 DEF Older
  <2>3. ASSUME NEW n \in 1 .. epoch, NEW b \in 1 .. Len(body), Sole(n, b) PROVE Sole(n, b)'
    <3>1. CASE Now.do = "clone"
      <4>1. Home' = Home /\ Home \in 0 .. epoch
        BY <1>1, <1>2, <1>6, <3>1, NextHome DEF Quiet
      <4>. QED BY <1>9, <2>3, <4>1, SoleKeep
    <3>2. CASE Now.do = "leaf"
      <4>1. Home' = e
        BY <1>1, <1>6, <3>2, NextHome
      <4>2. node'[e].val # Box(b)
        <5>1. node'[e].val = Box(Len(body) + 1) /\ b # Len(body) + 1
          BY <1>5, <1>6, <1>8, <3>2
        <5>. QED BY <5>1, ValForms
      <4>. QED BY <4>1, <4>2 DEF Sole
    <3>. QED BY <1>1, <3>1, <3>2
  <2>4. \A b \in 1 .. Len(body) : body'[b] = body[b]
    BY <1>6
  <2>5. \A n \in 1 .. epoch : node[n].vg <= node[n].vg
    BY <1>2
  <2>. QED BY <1>6, <1>7, <1>9, <2>1, <2>2, <2>3, <2>4, <2>5 DEF Grows
<1>17. ForwardInv'
  <2>1. ASSUME NEW m \in Node, NEW y \in Node, node'[m].val = To(y) PROVE node[m].val = To(y)
    <3>1. CASE m = e
      <4>1. y \in e + 1 .. epoch'
        <5>1. Types' => y \in e + 1 .. epoch'
          <6>1. node'[e].val \in ValOf(e)' => y \in e + 1 .. epoch'
            BY <2>1, <3>1, ValForms DEF ValOf
          <6>. QED BY <6>1 DEF Types
        <5>. QED BY <1>12, <5>1
      <4>. QED BY <1>6, <1>7, <4>1
    <3>2. CASE m # e
      BY <1>8, <2>1, <3>2
    <3>. QED BY <3>1, <3>2
  <2>. QED BY <1>16, <2>1, ForwardKeep DEF WriterInv
<1>. QED BY <1>12, <1>13, <1>14, <1>15, <1>16, <1>17 DEF Kept

\* The old node is marked: its copy is the key's node from here on.
LEMMA MarkKept ==
  ASSUME Types, WriterInv, Ready, art_moved
  PROVE  Kept
<1>1. Store /\ Now.do = "type" /\ At("type") /\ Steps
  BY DEF Store, art_moved, At
<1>2. /\ Now.node = link /\ Alive /\ link \in Node /\ epoch \in Node /\ link < epoch
      /\ ~node[epoch].moved /\ node[epoch].val = node[link].val
  BY <1>1 DEF Ready, ReadyMove, Older2
<1>3. /\ epoch \in Nat /\ MaxNode \in Nat /\ epoch <= MaxNode /\ link \in Nat /\ link <= epoch
      /\ \A n \in 1 .. epoch : n \in Node
      /\ link \in 1 .. epoch /\ epoch \in 1 .. epoch
      /\ \A n \in Node : node[n].vg \in Nat /\ node[n].sg \in Nat
  BY <1>2, Ranges DEF Node
<1>4. UNCHANGED <<link, epoch, body, now>> /\ node' = [node EXCEPT ![link].moved = TRUE]
  BY <1>2 DEF art_moved
<1>5. /\ node' \in [Node -> NodeType]
      /\ \A m \in Node : /\ node'[m].val = node[m].val /\ node'[m].sg = node[m].sg
                         /\ node'[m].vg = node[m].vg
                         /\ node'[m].moved <=> (m = link \/ node[m].moved)
  <2>1. node \in [Node -> NodeType]
    BY DEF Types
  <2>. QED BY <1>2, <1>4, <2>1, NodeMoved
<1>6. /\ Home = link /\ Home' = epoch /\ Dest = link /\ Dest' = link /\ At("forward")'
      /\ ~Copying /\ ~Copying' /\ ~At("type")'
  BY <1>1, <1>4, NextHome, NextCopying
<1>7. ~Alive' /\ Moving' /\ dead' = dead /\ tok' = tok
  BY <1>1, <1>2, <1>4, <1>5, StoreKeeps DEF Alive, Moving
<1>8. Types'
  <2>1. \A n \in Node : node'[n].val \in ValOf(n)'
    BY <1>4, <1>5 DEF Types, ValOf
  <2>2. Taking = 0 \/ Taking = 1
    BY DEF Taking
  <2>3. Len(body') <= Len(body) + Taking
    BY <1>4, <2>2 DEF Types
  <2>. QED BY <1>1, <1>4, <1>5, <2>1, <2>3, TypesKeep DEF Types
<1>9. EvenInv'
  BY <1>4, <1>5, <1>6, <1>7 DEF WriterInv, EvenInv
<1>10. NowInv'
  BY <1>6, <1>7 DEF NowInv
<1>11. TokInv'
  <2>. SUFFICES ASSUME tok # NoTok PROVE TokInv'
    BY <1>7 DEF TokInv
  <2>1. /\ tok.node \in 1 .. epoch /\ tok.box \in Nat /\ Leads(tok.node)
        /\ tok.sg \in Nat /\ tok.sg < node[tok.node].sg
    BY <1>1 DEF WriterInv, TokInv
  <2>2. Leads(tok.node)'
    BY <1>3, <1>5, <1>6, <1>7, <2>1, LeadsKeep
  <2>3. tok.node \in Node /\ node'[tok.node].sg = node[tok.node].sg /\ node[tok.node].sg \in Nat
    BY <1>3, <1>5, <2>1
  <2>4. tok.sg <= node[tok.node].sg
    BY <2>1, <2>3
  <2>. QED BY <1>4, <1>6, <1>7, <2>1, <2>2, <2>3, <2>4 DEF TokInv
<1>12. Grows
  <2>1. \A n \in 1 .. epoch : HasBox(n)' = HasBox(n)
    BY <1>3, <1>5 DEF HasBox
  <2>2. \A n \in 1 .. epoch : Older(n)'
    BY <1>7 DEF Older
  <2>3. ASSUME NEW n \in 1 .. epoch, NEW b \in 1 .. Len(body), Sole(n, b) PROVE Sole(n, b)'
    <3>1. node'[epoch].val = Box(b) => node[link].val = Box(b)
      BY <1>2, <1>5
    <3>2. node[link].val = Box(b) => n = link \/ node[n].moved
      BY <1>2, <1>6, <2>3 DEF Sole, Alive
    <3>3. node[link].val = Box(b) => node'[n].moved
      BY <1>3, <1>5, <3>2
    <3>. QED BY <1>6, <3>1, <3>3 DEF Sole
  <2>4. Len(body) \in Nat
    BY DEF Types
  <2>. QED BY <1>3, <1>4, <1>5, <1>7, <2>1, <2>2, <2>3, <2>4 DEF Grows
<1>13. ForwardInv'
  BY <1>5, <1>12, ForwardKeep DEF WriterInv
<1>. QED BY <1>8, <1>9, <1>10, <1>11, <1>12, <1>13 DEF Kept

\* The old node says where it has gone.
LEMMA TurnKept ==
  ASSUME Types, WriterInv, Ready, art_forward
  PROVE  Kept
<1>1. Store /\ Now.do = "forward" /\ At("forward") /\ Steps
  BY DEF Store, art_forward, At
<1>2. /\ Now.node = link /\ Now.box = epoch /\ node[link].moved /\ link \in Node /\ epoch \in Node
      /\ link < epoch /\ ~node[epoch].moved
  BY <1>1 DEF Ready, ReadyMove, Older2
<1>3. /\ epoch \in Nat /\ MaxNode \in Nat /\ epoch <= MaxNode /\ link \in Nat /\ link <= epoch
      /\ \A n \in 1 .. epoch : n \in Node
      /\ link \in 1 .. epoch /\ epoch \in 1 .. epoch
      /\ \A n \in Node : node[n].vg \in Nat /\ node[n].sg \in Nat
  BY <1>2, Ranges DEF Node
<1>4. UNCHANGED <<link, epoch, body, now>> /\ node' = [node EXCEPT ![link].val = To(epoch)]
  BY <1>2 DEF art_forward
<1>5. /\ node' \in [Node -> NodeType]
      /\ \A m \in Node : /\ node'[m].moved = node[m].moved /\ node'[m].sg = node[m].sg
                         /\ node'[m].vg = node[m].vg
                         /\ node'[m].val = IF m = link THEN To(epoch) ELSE node[m].val
  <2>1. node \in [Node -> NodeType] /\ To(epoch) \in AnyVal
    BY <1>3, AnyVals DEF Types
  <2>2. PICK x \in AnyVal : x = To(epoch)
    BY <2>1
  <2>3. node' = [node EXCEPT ![link].val = x]
    BY <1>4, <2>2
  <2>4. /\ node' \in [Node -> NodeType]
        /\ \A m \in Node : /\ node'[m].moved = node[m].moved /\ node'[m].sg = node[m].sg
                           /\ node'[m].vg = node[m].vg
                           /\ node'[m].val = IF m = link THEN x ELSE node[m].val
    <3>1. link \in Node /\ node \in [Node -> NodeType]
      BY <1>2, <2>1
    <3>. QED BY <2>3, <3>1, NodeVal
  <2>. QED BY <2>2, <2>4
<1>6. /\ Home = epoch /\ Home' = epoch /\ Dest = link /\ Dest' = epoch /\ At("unlink")'
      /\ ~Copying /\ ~Copying' /\ ~At("type")'
  BY <1>1, <1>4, NextHome, NextCopying
<1>7. ~Alive' /\ dead' = dead /\ tok' = tok /\ ~Alive
  BY <1>1, <1>2, <1>4, <1>5, StoreKeeps DEF Alive
<1>8. Types'
  <2>1. ASSUME NEW n \in Node PROVE node'[n].val \in ValOf(n)'
    <3>1. CASE n = link
      <4>1. epoch \in n + 1 .. epoch'
        BY <1>2, <1>3, <1>4, <3>1
      <4>. QED BY <1>5, <3>1, <4>1 DEF ValOf
    <3>2. CASE n # link
      BY <1>4, <1>5, <3>2 DEF Types, ValOf
    <3>. QED BY <3>1, <3>2
  <2>2. Taking = 0 \/ Taking = 1
    BY DEF Taking
  <2>3. Len(body') <= Len(body) + Taking
    BY <1>4, <2>2 DEF Types
  <2>. QED BY <1>1, <1>4, <1>5, <2>1, <2>3, TypesKeep DEF Types
<1>9. EvenInv'
  BY <1>4, <1>5, <1>6, <1>7 DEF WriterInv, EvenInv
<1>10. NowInv'
  BY <1>6, <1>7 DEF NowInv
<1>11. TokInv'
  <2>. SUFFICES ASSUME tok # NoTok PROVE TokInv'
    BY <1>7 DEF TokInv
  <2>1. /\ tok.node \in 1 .. epoch /\ tok.box \in Nat /\ Leads(tok.node)
        /\ tok.sg \in Nat /\ tok.sg < node[tok.node].sg
    BY <1>2 DEF WriterInv, TokInv
  <2>2. Leads(tok.node)'
    <3>1. PICK S \in SUBSET Node :
            /\ tok.node \in S
            /\ \A m \in S : m = Dest \/ (node[m].moved /\ \E x \in S : node[m].val = To(x))
      BY <2>1 DEF Leads
    <3>2. PICK T \in SUBSET Node : T = S \union {epoch}
      BY <1>2
    <3>3. tok.node \in T
      BY <3>1, <3>2
    <3>4. ASSUME NEW m \in T, m # epoch
          PROVE  node'[m].moved /\ \E x \in T : node'[m].val = To(x)
      <4>1. CASE m = link
        BY <1>2, <1>5, <3>2, <4>1
      <4>2. CASE m # link
        BY <1>5, <1>6, <3>1, <3>2, <3>4, <4>2
      <4>. QED BY <4>1, <4>2
    <3>. QED BY <1>6, <1>7, <3>3, <3>4 DEF Leads
  <2>3. tok.node \in Node /\ node'[tok.node].sg = node[tok.node].sg /\ node[tok.node].sg \in Nat
    BY <1>3, <1>5, <2>1
  <2>4. tok.sg <= node[tok.node].sg
    BY <2>1, <2>3
  <2>. QED BY <1>4, <1>6, <1>7, <2>1, <2>2, <2>3, <2>4 DEF TokInv
<1>12. Grows
  <2>1. \A n \in 1 .. epoch : n # link => HasBox(n)' = HasBox(n)
    BY <1>3, <1>5 DEF HasBox
  <2>2. \A n \in 1 .. epoch : Older(n)'
    BY <1>7 DEF Older
  <2>3. ASSUME NEW n \in 1 .. epoch, NEW b \in Nat, node'[n].val = Box(b) PROVE node[n].val = Box(b)
    BY <1>3, <1>5, <2>3, ValForms
  <2>4. Len(body) \in Nat
    BY DEF Types
  <2>5. ASSUME NEW n \in 1 .. epoch, NEW b \in 1 .. Len(body), Sole(n, b) PROVE Sole(n, b)'
    <3>1. Home \in 0 .. epoch /\ b \in Nat
      BY <1>3, <1>6, <2>4
    <3>. QED BY <1>3, <1>5, <1>6, <2>3, <2>5, <3>1, SoleKeep
  <2>6. node'[link].moved
    BY <1>2, <1>5
  <2>. QED BY <1>3, <1>4, <1>5, <1>7, <2>1, <2>2, <2>3, <2>4, <2>5, <2>6 DEF Grows
<1>13. ForwardInv'
  <2>1. ASSUME NEW m \in Node, NEW x \in Node, node'[m].val = To(x)
        PROVE  node[m].val = To(x) \/ (x = Home' /\ ~Alive' /\ node'[m].moved)
    <3>1. CASE m = link
      <4>1. x = epoch
        BY <1>5, <2>1, <3>1, ValForms
      <4>. QED BY <1>2, <1>5, <1>6, <1>7, <3>1, <4>1
    <3>2. CASE m # link
      BY <1>5, <2>1, <3>2
    <3>. QED BY <3>1, <3>2
  <2>. QED BY <1>12, <2>1, ForwardKeep DEF WriterInv
<1>. QED BY <1>8, <1>9, <1>10, <1>11, <1>12, <1>13 DEF Kept

\* The parent drops the old node, and takes the new one.
LEMMA LinkKept ==
  ASSUME Types, WriterInv, Ready, art_rm \/ art_add
  PROVE  Kept
<1>1. Store /\ Now.do \in {"unlink", "link"} /\ At(Now.do) /\ Steps
      /\ (art_rm <=> Now.do = "unlink") /\ (art_add <=> Now.do = "link")
  BY DEF Store, art_rm, art_add, At
<1>2. /\ epoch \in Node /\ ~node[epoch].moved
      /\ Now.do = "unlink" => link \in Node /\ node[link].moved
      /\ Now.do = "link" => link = 0 /\ Now.node = epoch
  BY <1>1 DEF Ready, ReadyMove, Older2
<1>3. /\ epoch \in Nat /\ MaxNode \in Nat /\ epoch <= MaxNode /\ link \in Nat /\ link <= epoch
      /\ \A n \in 1 .. epoch : n \in Node
      /\ epoch \in 1 .. epoch
      /\ \A n \in Node : node[n].vg \in Nat /\ node[n].sg \in Nat
  BY <1>2, Ranges DEF Node
<1>4. /\ UNCHANGED <<node, epoch, body>>
      /\ Now.do = "unlink" => link' = 0 /\ now' = now
      /\ Now.do = "link" => link' = epoch /\ now' = IF HasBox(epoch) THEN body[BoxOf(epoch)] ELSE None
  BY <1>1, <1>2 DEF art_rm, art_add
<1>5. /\ Home = epoch /\ Home' = epoch /\ Dest = epoch /\ Dest' = epoch
      /\ ~Copying /\ ~Copying' /\ ~At("type")' /\ ~Mid'
      /\ Now.do = "unlink" => At("link")' /\ Len(todo') = 1
  BY <1>1, <1>4, NextHome, NextCopying
<1>6. /\ ~Alive /\ dead' = dead /\ tok' = tok
      /\ Now.do = "unlink" => ~Alive'
      /\ Now.do = "link" => Alive' /\ ~Moving'
  BY <1>1, <1>2, <1>3, <1>4, StoreKeeps DEF Alive, Moving
<1>7. HasBox(epoch) => BoxOf(epoch) \in 1 .. Len(body) /\ body[BoxOf(epoch)] \in Pair
  BY <1>2, ValFacts DEF Types
<1>8. Types'
  <2>1. \A n \in Node : node'[n].val \in ValOf(n)'
    BY <1>4 DEF Types, ValOf
  <2>2. Taking = 0 \/ Taking = 1
    BY DEF Taking
  <2>3. Len(body') <= Len(body) + Taking
    BY <1>4, <2>2 DEF Types
  <2>4. now' \in Pair \union {None}
    BY <1>1, <1>4, <1>7 DEF Types
  <2>5. link' \in 0 .. epoch'
    BY <1>1, <1>3, <1>4
  <2>. QED BY <1>1, <1>4, <2>1, <2>3, <2>4, <2>5, TypesKeep DEF Types
<1>9. EvenInv'
  BY <1>4, <1>5, <1>6 DEF WriterInv, EvenInv
<1>10. NowInv'
  <2>1. CASE Now.do = "unlink"
    BY <1>5, <1>6, <2>1 DEF NowInv
  <2>2. CASE Now.do = "link"
    <3>1. HasBox(link)' = HasBox(epoch) /\ BoxOf(link)' = BoxOf(epoch)
      BY <1>4, <2>2 DEF HasBox, BoxOf
    <3>. QED BY <1>4, <1>6, <1>7, <2>2, <3>1, PairFacts DEF NowInv
  <2>. QED BY <1>1, <2>1, <2>2
<1>11. TokInv'
  <2>. SUFFICES ASSUME tok # NoTok PROVE TokInv'
    BY <1>6 DEF TokInv
  <2>1. /\ tok.node \in 1 .. epoch /\ tok.box \in Nat /\ Leads(tok.node)
        /\ tok.sg \in Nat
        /\ tok.node # link \/ node[link].moved => tok.sg < node[tok.node].sg
    BY DEF WriterInv, TokInv
  <2>2. tok.sg < node[tok.node].sg
    <3>1. tok.node # 0
      BY <2>1, <1>3
    <3>. QED BY <1>1, <1>2, <2>1, <3>1
  <2>3. Leads(tok.node)'
    BY <1>4, <1>5, <1>6, <2>1, LeadsKeep
  <2>4. tok.node \in Node /\ node'[tok.node].sg = node[tok.node].sg /\ node[tok.node].sg \in Nat
    BY <1>3, <1>4, <2>1
  <2>5. tok.sg <= node[tok.node].sg
    BY <2>1, <2>2, <2>4
  <2>. QED BY <1>1, <1>4, <1>5, <1>6, <2>1, <2>2, <2>3, <2>4, <2>5 DEF TokInv
<1>12. Grows
  <2>1. \A n \in 1 .. epoch : HasBox(n)' = HasBox(n)
    BY <1>4 DEF HasBox
  <2>2. \A n \in 1 .. epoch : Older(n)'
    BY <1>1, <1>3, <1>4, <1>6 DEF Older
  <2>3. ASSUME NEW n \in 1 .. epoch, NEW b \in 1 .. Len(body), Sole(n, b) PROVE Sole(n, b)'
    BY <1>4, <1>5, <2>3 DEF Sole
  <2>4. Len(body) \in Nat
    BY DEF Types
  <2>5. \A n \in 1 .. epoch : n = link => node'[n].moved
    BY <1>1, <1>2, <1>4
  <2>. QED BY <1>3, <1>4, <2>1, <2>2, <2>3, <2>4, <2>5 DEF Grows
<1>13. ForwardInv'
  BY <1>4, <1>12, ForwardKeep DEF WriterInv
<1>. QED BY <1>8, <1>9, <1>10, <1>11, <1>12, <1>13 DEF Kept

\* Every store keeps the writer's part, and what the reader relies on.
LEMMA StoreKept ==
  ASSUME Types, WriterInv, Store
  PROVE  Types' /\ WriterInv' /\ Grows
<1>1. todo # <<>>
  BY StoreKind
<1>2. Ready
  BY <1>1, ReadyNow DEF ReadyFact, WriterInv
<1>3. Shape'
  BY StoreShape DEF WriterInv
<1>4. Kept
  BY <1>2, AddKept, BumpKept, CopyKept, ValKept, NewKept, MarkKept, TurnKept, LinkKept DEF Store
<1>. QED BY <1>3, <1>4 DEF Kept, WriterInv

------------------------------------------------------------------------------
(* What the reader holds, while somebody writes *)

\* What a store does to a token that a reader has.
LEMMA TokenGrows ==
  ASSUME Types, Types', Grows, NEW t \in TokType, Held(t), Dated(t)
  PROVE  /\ Held(t)' /\ Dated(t)'
         /\ node'[t.node].vg = t.vg => node[t.node].vg = t.vg
         /\ ~node'[t.node].moved => ~node[t.node].moved
         /\ \/ body'[t.box] = body[t.box] \/ node[t.node].moved
            \/ node[t.node].vg % 2 = 1 \/ Bare \/ "odd" \in dead
<1>1. /\ t.node \in 1 .. epoch /\ t.box \in 1 .. Len(body) /\ Older(t.node) /\ Sole(t.node, t.box)
  BY DEF Held
<1>2. epoch \in Nat /\ epoch' \in Nat /\ Len(body) \in Nat /\ Len(body') \in Nat
      /\ epoch <= epoch' /\ Len(body) <= Len(body')
  BY DEF Types, Grows
<1>3. t.node \in Node /\ node[t.node].vg \in Nat /\ node'[t.node].vg \in Nat /\ t.vg \in Nat
  <2>1. t.node \in Node /\ node[t.node].vg \in Nat
    BY <1>1, Ranges
  <2>2. node'[t.node] \in NodeType
    BY <2>1 DEF Types
  <2>. QED BY <2>1, <2>2 DEF NodeType, TokType
<1>4. /\ node[t.node].moved => node'[t.node].moved
      /\ node[t.node].vg <= node'[t.node].vg
      /\ Older(t.node) => Older(t.node)'
      /\ Sole(t.node, t.box) => Sole(t.node, t.box)'
  BY <1>1 DEF Grows
<1>5. t.node \in 1 .. epoch' /\ t.box \in 1 .. Len(body')
  BY <1>1, <1>2
<1>6. Held(t)'
  BY <1>1, <1>4, <1>5 DEF Held
<1>7. t.vg <= node[t.node].vg
  BY DEF Dated
<1>8. Dated(t)' /\ (node'[t.node].vg = t.vg => node[t.node].vg = t.vg)
  BY <1>3, <1>4, <1>7 DEF Dated
<1>9. ASSUME body'[t.box] # body[t.box], ~node[t.node].moved
      PROVE  node[t.node].vg % 2 = 1 \/ Bare \/ "odd" \in dead
  <2>1. /\ Alive /\ node[link].val = Box(t.box) /\ Home = link
        /\ node[link].vg % 2 = 1 \/ Bare \/ "odd" \in dead
    BY <1>1, <1>9 DEF Grows
  <2>2. t.node = link
    BY <1>1, <1>9, <2>1 DEF Sole, Alive
  <2>. QED BY <2>1, <2>2
<1>. QED BY <1>4, <1>6, <1>8, <1>9

\* What the reader knows survives whatever a writer does.
LEMMA ReaderGrows ==
  ASSUME Types, Types', ReaderInv, Grows, Observe
  PROVE  ReaderInv'
<1>1. CASE ~Active
  <2>1. r.at \in {"rest", "done", "lost"}
    BY <1>1 DEF ReaderInv, Active, ReadType, Resting
  <2>2. r' = r
    BY <2>1 DEF Observe
  <2>3. ~Active'
    BY <1>1, <2>2 DEF Active
  <2>. QED BY <2>2, <2>3 DEF ReaderInv, OverInv, ReadInv, SecondInv, ReadAtomic
<1>2. CASE Active
  <2>1. r \in ReadType
    BY <1>2 DEF ReaderInv, Active, Resting, ReadAt
  <2>2. r' = [r EXCEPT !.legal = @ \union {now'}, !.over = @ \union Upset \union Upset']
    BY <1>2 DEF Observe, Active, ReadAt
  <2>3. /\ r'.at = r.at /\ r'.node = r.node /\ r'.t = r.t /\ r'.first = r.first /\ r'.copy = r.copy
        /\ r'.got = r.got /\ r'.legal = r.legal \union {now'}
        /\ r'.over = r.over \union Upset \union Upset'
    BY <2>1, <2>2 DEF ReadType
  <2>4. Upset \subseteq {"odd", "torn", "moving", "move", "bare"}
        /\ Upset' \subseteq {"odd", "torn", "moving", "move", "bare"}
    BY DEF Upset, Types
  <2>5. r' \in ReadType
    <3>1. now' \in Pair \union {None}
      BY DEF Types
    <3>2. r'.legal \in SUBSET (Pair \union {None})
          /\ r'.over \in SUBSET {"odd", "torn", "moving", "move", "bare"}
      BY <2>1, <2>3, <2>4, <3>1 DEF ReadType
    <3>. QED BY <2>1, <2>2, <2>3, <3>2 DEF ReadType
  <2>6. /\ Active' /\ (Second' <=> Second)
    BY <1>2, <2>3 DEF Active, Second
  <2>7. /\ dead \subseteq r'.over /\ dead' \subseteq r'.over /\ (Moving' => "move" \in r'.over)
        /\ (Bare' => "bare" \in r'.over) /\ (Bare => "bare" \in r'.over)
        /\ now' \in r'.legal /\ r.legal \subseteq r'.legal /\ r.over \subseteq r'.over
    BY <2>3 DEF Upset
  <2>8. OverInv'
    BY <2>7 DEF OverInv
  <2>9. (Excused => Excused') /\ (Bare => Excused') /\ ("odd" \in dead => Excused')
    BY <2>7 DEF Excused
  <2>10. ASSUME NEW n, Met(n) PROVE Met(n)'
    <3>1. /\ n \in 1 .. epoch /\ Older(n)
          /\ node[n].moved => "move" \in r.over
          /\ ~HasBox(n) => None \in r.legal \/ "move" \in r.over
          /\ \A b \in Nat : node[n].val = Box(b) => Sole(n, b)
      BY <2>10 DEF Met
    <3>2. n \in 1 .. epoch' /\ n \in Node
      <4>1. epoch <= epoch' /\ epoch \in Nat /\ epoch' \in Nat
        BY DEF Grows, Types
      <4>. QED BY <3>1, <4>1, Ranges
    <3>3. node'[n].moved => "move" \in r'.over
      BY <2>7, <3>1 DEF Grows
    <3>4. ~HasBox(n)' => None \in r'.legal \/ "move" \in r'.over
      BY <2>7, <3>1, <3>3 DEF Grows
    <3>5. ASSUME NEW b \in Nat, node'[n].val = Box(b) PROVE Sole(n, b)'
      <4>1. node[n].val = Box(b) \/ n = Home'
        BY <3>1, <3>5 DEF Grows
      <4>2. CASE node[n].val = Box(b)
        <5>1. b \in 1 .. Len(body) /\ Sole(n, b)
          BY <3>1, <3>2, <4>2, ValFacts
        <5>. QED BY <3>1, <5>1 DEF Grows
      <4>3. CASE n = Home'
        BY <4>3 DEF Sole
      <4>. QED BY <4>1, <4>2, <4>3
    <3>6. Older(n)'
      BY <3>1 DEF Grows
    <3>. QED BY <3>2, <3>3, <3>4, <3>5, <3>6 DEF Met
  <2>11. ASSUME NEW t \in TokType, Held(t), Dated(t)
         PROVE  /\ Held(t)' /\ Dated(t)'
                /\ Steady(t)' => Steady(t) /\ body'[t.box] = body[t.box]
                /\ Legal(t) => Legal(t)'
    <3>1. /\ Held(t)' /\ Dated(t)'
          /\ node'[t.node].vg = t.vg => node[t.node].vg = t.vg
          /\ ~node'[t.node].moved => ~node[t.node].moved
          /\ \/ body'[t.box] = body[t.box] \/ node[t.node].moved
             \/ node[t.node].vg % 2 = 1 \/ Bare \/ "odd" \in dead
      BY <2>11, TokenGrows
    <3>2. ASSUME Steady(t)' PROVE Steady(t) /\ body'[t.box] = body[t.box]
      <4>1. Steady(t)
        BY <2>9, <3>1, <3>2 DEF Steady
      <4>2. t.vg % 2 = 0 /\ node[t.node].vg = t.vg /\ ~node[t.node].moved
        BY <4>1 DEF Steady
      <4>3. node[t.node].vg % 2 # 1
        BY <4>2
      <4>4. ~Bare /\ "odd" \notin dead
        BY <2>9, <3>2 DEF Steady
      <4>. QED BY <3>1, <4>1, <4>2, <4>3, <4>4
    <3>3. ASSUME Legal(t) PROVE Legal(t)'
      BY <2>3, <2>7, <2>9, <3>1, <3>3 DEF Legal
    <3>. QED BY <3>1, <3>2, <3>3
  <2>12. ASSUME NEW t \in TokType, Held(t) PROVE Held(t)'
    <3>1. /\ t.node \in 1 .. epoch /\ t.box \in 1 .. Len(body) /\ Older(t.node)
          /\ Sole(t.node, t.box)
      BY <2>12 DEF Held
    <3>2. t.node \in 1 .. epoch' /\ t.box \in 1 .. Len(body')
      <4>1. epoch \in Nat /\ epoch' \in Nat /\ Len(body) \in Nat /\ Len(body') \in Nat
            /\ epoch <= epoch' /\ Len(body) <= Len(body')
        BY DEF Types, Grows
      <4>. QED BY <3>1, <4>1
    <3>. QED BY <3>1, <3>2 DEF Held, Grows
  <2>13. PICK t \in TokType : t = r.t
    BY <2>1 DEF ReadType
  <2>14. PICK f \in TokType : f = r.first
    BY <2>1 DEF ReadType
  <2>15. PICK n : n = r.node
    OBVIOUS
  <2>16. t = r'.t /\ f = r'.first /\ n = r'.node
    BY <2>3, <2>13, <2>14, <2>15
  <2>17. ReadInv'
    <3>1. r'.at \in {"leaf", "follow", "val"} => Met(n)'
      BY <1>2, <2>3, <2>10, <2>15 DEF ReaderInv, ReadInv
    <3>2. ASSUME r'.at = "leaf" PROVE n = link' \/ node'[n].moved
      <4>1. Met(n) /\ (n = link \/ node[n].moved)
        BY <1>2, <2>3, <2>15, <3>2 DEF ReaderInv, ReadInv
      <4>2. n \in 1 .. epoch
        BY <4>1 DEF Met
      <4>. QED BY <4>1, <4>2 DEF Grows
    <3>3. r'.at \in ReadAt \ {"walk", "leaf", "follow", "val"} => Held(t)' /\ t.node = n
      BY <1>2, <2>3, <2>12, <2>13, <2>15 DEF ReaderInv, ReadInv
    <3>4. r'.at \in {"check", "checkval", "half1", "half2", "compare"} => Held(t) /\ Dated(t)
      BY <1>2, <2>3, <2>13 DEF ReaderInv, ReadInv, ReadAt
    <3>5. r'.at \in {"check", "checkval", "half1", "half2", "compare"} => Dated(t)'
      BY <2>11, <3>4
    <3>6. r'.at \in {"check", "checkval", "half1", "half2"} => ~Second'
      BY <1>2, <2>3, <2>6 DEF ReaderInv, ReadInv
    <3>7. ASSUME r'.at = "half2", Steady(t)' PROVE r'.copy[1] = body'[t.box][1]
      <4>1. Steady(t) /\ body'[t.box] = body[t.box]
        BY <2>11, <3>4, <3>7
      <4>2. r.copy[1] = body[t.box][1]
        BY <1>2, <2>3, <2>13, <3>7, <4>1 DEF ReaderInv, ReadInv
      <4>. QED BY <2>3, <4>1, <4>2
    <3>. QED BY <2>16, <3>1, <3>2, <3>3, <3>5, <3>6, <3>7 DEF ReadInv
  <2>18. SecondInv'
    <3>. SUFFICES ASSUME Second PROVE SecondInv'
      BY <2>6 DEF SecondInv
    <3>1. /\ Held(f) /\ Dated(f)
          /\ Steady(f) => r.copy = body[f.box]
          /\ r.at \in {"follow", "val", "sg", "vg", "compare"} => f.node <= n
          /\ r.at \in {"follow", "val"} /\ n = f.node /\ node[n].val = Box(f.box) => Legal(f)
          /\ r.at \in {"sg", "vg"} /\ t.node = f.node /\ t.box = f.box => Legal(f)
          /\ r.at = "compare" /\ t = f /\ t.vg % 2 = 0 /\ ~Excused => r.copy \in r.legal
      BY <1>2, <2>13, <2>14, <2>15 DEF ReaderInv, SecondInv
    <3>2. /\ Held(f)' /\ Dated(f)'
          /\ Steady(f)' => Steady(f) /\ body'[f.box] = body[f.box]
          /\ Legal(f) => Legal(f)'
      BY <2>11, <3>1
    <3>3. Steady(f)' => r'.copy = body'[f.box]
      BY <2>3, <3>1, <3>2
    <3>4. ASSUME r'.at \in {"follow", "val"}, n = f.node, node'[n].val = Box(f.box)
          PROVE  Legal(f)'
      <4>1. f.box \in 1 .. Len(body) /\ f.node \in 1 .. epoch
        BY <3>1 DEF Held
      <4>2. f.box \in Nat /\ ~(f.box > Len(body))
        BY <4>1 DEF Types
      <4>3. node[n].val = Box(f.box)
        BY <3>4, <4>1, <4>2 DEF Grows
      <4>. QED BY <2>3, <3>1, <3>2, <3>4, <4>3
    <3>5. r'.at \in {"sg", "vg"} /\ t.node = f.node /\ t.box = f.box => Legal(f)'
      BY <2>3, <3>1, <3>2
    <3>6. r'.at = "compare" /\ t = f /\ t.vg % 2 = 0 /\ ~Excused' => r'.copy \in r'.legal
      BY <2>3, <2>7, <2>9, <3>1
    <3>7. r'.at \in {"follow", "val", "sg", "vg", "compare"} => f.node <= n
      BY <2>3, <3>1
    <3>. QED BY <2>16, <3>2, <3>3, <3>4, <3>5, <3>6, <3>7 DEF SecondInv
  <2>19. ReadAtomic'
    BY <1>2, <2>3 DEF ReadAtomic, Active, ReadAt
  <2>. QED BY <2>5, <2>8, <2>17, <2>18, <2>19 DEF ReaderInv
<1>. QED BY <1>1, <1>2

------------------------------------------------------------------------------
(* WriteNewPlace goes on, and a writer dies *)

\* Neither touches a node or a box.
Rests == UNCHANGED <<node, link, epoch, body, call, calls, was, now>>

\* A writer that goes on or dies takes nothing from the reader.
LEMMA RestsGrows ==
  ASSUME Types, Ready, Rests, todo # <<>>,
         ~At("forward")' /\ ~At("unlink")' /\ ~At("link")'
  PROVE  Grows
<1>1. UNCHANGED <<node, link, epoch, body, now>>
  BY DEF Rests
<1>2. Home' = link
  BY <1>1 DEF Home
<1>3. Alive' = Alive /\ Moving' = Moving
  BY <1>1 DEF Alive, Moving
<1>4. CASE Home = link
  <2>1. \A n, b : Sole(n, b)' = Sole(n, b)
    BY <1>1, <1>2, <1>4 DEF Sole
  <2>2. \A n : Older(n)' = Older(n)
    BY <1>1, <1>3 DEF Older
  <2>3. \A n : HasBox(n)' = HasBox(n)
    BY <1>1 DEF HasBox
  <2>4. epoch <= epoch /\ Len(body) <= Len(body) /\ \A n \in 1 .. epoch : node[n].vg <= node[n].vg
    BY Ranges DEF Types
  <2>. QED BY <1>1, <2>1, <2>2, <2>3, <2>4 DEF Grows
<1>5. CASE Home # link
  <2>1. link = 0 \/ node[link].moved
    BY <1>5 DEF Home, Ready, ReadyMove
  <2>2. \A n, b : Sole(n, b)'
    BY <1>1, <1>2, <2>1 DEF Sole
  <2>3. \A n : Older(n)' = Older(n)
    BY <1>1, <1>3 DEF Older
  <2>4. \A n : HasBox(n)' = HasBox(n)
    BY <1>1 DEF HasBox
  <2>5. epoch <= epoch /\ Len(body) <= Len(body) /\ \A n \in 1 .. epoch : node[n].vg <= node[n].vg
    BY Ranges DEF Types
  <2>. QED BY <1>1, <2>2, <2>3, <2>4, <2>5 DEF Grows
<1>. QED BY <1>4, <1>5

\* WriteNewPlace walks again and copies.
LEMMA FillKept ==
  ASSUME Types, WriterInv, fill
  PROVE  Types' /\ WriterInv' /\ Grows
<1>1. /\ todo # <<>> /\ Now.do = "fill" /\ Rests /\ tok' = tok /\ dead' = dead
      /\ IF art_search # 0 THEN todo' = Copy(BoxOf(art_search), Now.v, <<1, 2>>) /\ rc' = rc
         ELSE todo' = <<>> /\ rc' = 1
  BY DEF fill, At, Rests
<1>2. rc = 0 /\ FillRun
  <2>1. \A s : ~GrowRun(s)
    BY <1>1, Doing DEF Does
  <2>2. \A z, s : ~InPlaceRun(z, s) /\ ~LeafRun(z, s) /\ ~StoreRun(z, s) /\ ~MovedRun(z)
    BY <1>1, Doing DEF Does
  <2>3. \A s : ~PartRun(s) /\ ~DelRun(s) /\ ~ViewDelRun(s) /\ ~CopyRun(s)
    BY <1>1, Doing DEF Does
  <2>. QED BY <1>1, <2>1, <2>2, <2>3 DEF WriterInv, Shape
<1>3. PICK w \in V : /\ Len(todo) = 1 /\ todo[1] = Puts("fill", 0, w)
                     /\ call.op = "WriteNewPlace" /\ w = call.v
                     /\ dead = {} => now = Whole(Blank)
  BY <1>2 DEF FillRun, Run
<1>4. Now.v = w
  BY <1>3, TaskFacts DEF Now
<1>5. Ready
  BY <1>1, ReadyNow DEF ReadyFact, WriterInv
<1>6. UNCHANGED <<node, link, epoch, body, call, calls, was, now>>
  BY <1>1 DEF Rests
<1>7. Shape' /\ todo' \in Seq(Task) /\ rc' \in {0, 1, 2}
      /\ (todo' # <<>> => Now'.do = "memcpy" /\ Now'.half = 1 /\ \A i \in DOMAIN todo' : todo'[i].do # "add")
  <2>1. CASE art_search # 0
    <3>1. link \in Node /\ Alive /\ HasBox(link) /\ art_search = link
      BY <2>1, ArtSearch
    <3>2. PICK b \in Nat : b = BoxOf(link) /\ node[link].val = Box(b)
      BY <3>1, ValFacts DEF Types
    <3>3. todo' = Copy(b, w, <<1, 2>>) /\ rc' = 0
      BY <1>1, <1>2, <1>4, <2>1, <3>1, <3>2
    <3>4. IsPlan(Copy(b, w, <<1, 2>>), <<M(b, 2, w), M(b, 1, w)>>, 2)
      BY <3>1, PlanInPlace
    <3>5. Run(<<M(b, 2, w), M(b, 1, w)>>, 0, w, 2)' /\ todo' \in Seq(Task)
      BY <3>3, <3>4, NewRun, 2 \in Nat
    <3>6. todo' = <<M(b, 1, w), M(b, 2, w)>>
      BY <3>3, CopyForm
    <3>7. todo' # <<>> /\ Now' = M(b, 1, w) /\ \A i \in DOMAIN todo' : todo'[i].do = "memcpy"
      <4>1. M(b, 1, w).do = "memcpy" /\ M(b, 2, w).do = "memcpy"
        BY TaskFacts
      <4>2. PICK x, y : x = M(b, 1, w) /\ y = M(b, 2, w)
        OBVIOUS
      <4>3. todo' = <<x, y>>
        BY <3>6, <4>2
      <4>. QED BY <4>1, <4>2, <4>3 DEF Now
    <3>8. Expected' = Whole(w) /\ (dead' = {} => now' \in Maybe')
      BY <1>1, <1>3, <1>6, Expects DEF Maybe
    <3>9. CopyRun(2)'
      <4>1. Alive' /\ node'[link'].val = Box(b) /\ call'.op = "WriteNewPlace"
        BY <1>3, <1>6, <3>1, <3>2 DEF Alive
      <4>2. 2 \in 1 .. 2 /\ 2 # 1
        OBVIOUS
      <4>. QED BY <3>5, <3>8, <4>1, <4>2 DEF CopyRun
    <3>10. Shape'
      BY <3>3, <3>9, 2 \in 1 .. 7 DEF Shape
    <3>. QED BY <3>3, <3>5, <3>7, <3>10, TaskFacts
  <2>2. CASE art_search = 0
    <3>1. todo' = <<>> /\ rc' = 1
      BY <1>1, <2>2
    <3>2. ASSUME dead = {} PROVE FALSE
      <4>1. now = Whole(Blank) /\ now # None
        BY <1>3, <3>2, PairFacts DEF V
      <4>2. ~Moving
        BY <1>1, <3>2 DEF WriterInv, NowInv, At
      <4>3. Alive
        BY <4>1, <4>2 DEF Moving, Alive
      <4>4. HasBox(link)
        BY <4>1, <4>3 DEF WriterInv, NowInv
      <4>. QED BY <2>2, <4>3, <4>4, ArtSearch DEF Alive
    <3>3. todo' \in Seq(Task)
      BY <3>1
    <3>. QED BY <1>1, <3>1, <3>2, <3>3 DEF Shape
  <2>. QED BY <2>1, <2>2
<1>8. /\ ~At("forward")' /\ ~At("unlink")' /\ ~At("link")' /\ ~At("type")' /\ ~Mid' /\ ~Copying'
      /\ Taking' = 0
  BY <1>7 DEF At, Mid, Copying, Taking
<1>9. /\ ~At("forward") /\ ~At("unlink") /\ ~At("link") /\ ~At("type") /\ ~Mid /\ ~Copying
      /\ Taking = 0
  BY <1>1 DEF At, Mid, Copying, Taking
<1>10. Alive' = Alive /\ Moving' = Moving /\ Dest' = Dest
  BY <1>6, <1>8, <1>9 DEF Alive, Moving, Dest
<1>11. Grows
  BY <1>1, <1>5, <1>8, RestsGrows
<1>12. Types'
  BY <1>1, <1>6, <1>7, <1>8, <1>9 DEF Types, ValOf
<1>13. EvenInv'
  BY <1>1, <1>6, <1>8, <1>9 DEF WriterInv, EvenInv
<1>14. NowInv'
  <2>1. HasBox(link)' = HasBox(link) /\ BoxOf(link)' = BoxOf(link)
    BY <1>6 DEF HasBox, BoxOf
  <2>. QED BY <1>1, <1>6, <1>8, <1>9, <1>10, <2>1 DEF WriterInv, NowInv
<1>15. TokInv'
  <2>1. ASSUME tok # NoTok PROVE Leads(tok.node)'
    <3>1. Leads(tok.node)
      BY <2>1 DEF WriterInv, TokInv
    <3>. QED BY <1>1, <1>6, <1>10, <3>1 DEF Leads
  <2>. QED BY <1>1, <1>6, <1>8, <1>9, <1>10, <2>1 DEF WriterInv, TokInv
<1>16. ForwardInv'
  BY <1>6, <1>11, ForwardKeep DEF WriterInv
<1>. QED BY <1>7, <1>11, <1>12, <1>13, <1>14, <1>15, <1>16 DEF WriterInv

\* In the middle of a call the key has the old value or the new one.
LEMMA MidCall ==
  ASSUME Shape, todo # <<>>, dead = {}
  PROVE  now \in Maybe
<1>1. ASSUME NEW P, NEW z \in {0, 1}, NEW w, NEW s, Run(P, z, w, s) PROVE Goal(z) \in Maybe
  BY <1>1 DEF Run, Goal, Maybe
<1>2. ASSUME NEW z \in {0, 1}, NEW s, InPlaceRun(z, s) PROVE now \in Maybe
  <2>1. now = was \/ now = Goal(z)
    BY <1>2 DEF InPlaceRun
  <2>2. Goal(z) \in Maybe
    BY <1>1, <1>2 DEF InPlaceRun
  <2>. QED BY <2>1, <2>2 DEF Maybe
<1>3. ASSUME NEW z \in {0, 1}, NEW s, LeafRun(z, s) PROVE now \in Maybe
  <2>1. now = was \/ now = Goal(z)
    BY <1>3 DEF LeafRun
  <2>2. Goal(z) \in Maybe
    BY <1>1, <1>3 DEF LeafRun
  <2>. QED BY <2>1, <2>2 DEF Maybe
<1>4. ASSUME NEW z \in {0, 1}, NEW s, StoreRun(z, s) PROVE now \in Maybe
  <2>1. now = was \/ now = Goal(z)
    BY <1>4 DEF StoreRun
  <2>2. Goal(z) \in Maybe
    BY <1>1, <1>4 DEF StoreRun
  <2>. QED BY <2>1, <2>2 DEF Maybe
<1>5. \A z : ~MovedRun(z)
  BY DEF MovedRun
<1>6. ASSUME NEW s, PartRun(s) PROVE now \in Maybe
  BY <1>6 DEF PartRun, Maybe
<1>7. ASSUME NEW s, DelRun(s) PROVE now \in Maybe
  BY <1>7 DEF DelRun, Maybe
<1>8. ASSUME NEW s, ViewDelRun(s) PROVE now \in Maybe
  BY <1>8 DEF ViewDelRun, Maybe
<1>9. ASSUME NEW s, CopyRun(s) PROVE now \in Maybe
  BY <1>9 DEF CopyRun
<1>10. ASSUME NEW s, GrowRun(s) PROVE now \in Maybe
  <2>1. now = was
    BY <1>10 DEF GrowRun
  <2>. QED BY <2>1 DEF Maybe
<1>11. ASSUME FillRun PROVE now \in Maybe
  <2>1. now = Whole(Blank) /\ call.op = "WriteNewPlace"
    BY <1>11 DEF FillRun, Run
  <2>. QED BY <2>1 DEF Maybe
<1>. QED BY <1>2, <1>3, <1>4, <1>5, <1>6, <1>7, <1>8, <1>9, <1>10, <1>11 DEF Shape

\* A death leaves odd generations, torn copies and unfinished moves, and says so.
LEMMA CrashKept ==
  ASSUME Types, WriterInv, Crash
  PROVE  Types' /\ WriterInv' /\ Grows
<1>1. /\ todo # <<>> /\ todo' = <<>> /\ rc' = 2 /\ tok' = NoTok /\ Rests
      /\ dead' = dead \union (IF \E n \in Node : node[n].vg % 2 = 1 THEN {"odd"} ELSE {})
                      \union (IF Now.do = "memcpy" THEN {"torn"} ELSE {})
                      \union (IF Moving THEN {"moving"} ELSE {})
  BY DEF Crash, Rests
<1>2. UNCHANGED <<node, link, epoch, body, call, calls, was, now>>
  BY <1>1 DEF Rests
<1>3. Ready
  BY <1>1, ReadyNow DEF ReadyFact, WriterInv
<1>4. /\ ~At("forward")' /\ ~At("unlink")' /\ ~At("link")' /\ ~At("type")' /\ ~Mid' /\ ~Copying'
      /\ Taking' = 0
  BY <1>1 DEF At, Mid, Copying, Taking
<1>5. Alive' = Alive /\ Moving' = Moving
  BY <1>2 DEF Alive, Moving
<1>6. Grows
  BY <1>1, <1>3, <1>4, RestsGrows
<1>7. /\ dead \subseteq dead' /\ dead' \subseteq {"odd", "torn", "moving"}
      /\ "odd" \notin dead' => \A n \in Node : node[n].vg % 2 # 1
      /\ "torn" \notin dead' => Now.do # "memcpy" /\ "torn" \notin dead
      /\ "moving" \notin dead' => ~Moving
  BY <1>1 DEF Types
<1>8. Types'
  <2>1. Taking \in {0, 1}
    BY DEF Taking
  <2>2. Len(body') + calls' + Taking' <= MaxCalls + 1
    BY <1>2, <1>4, <2>1, ViewsAssumption DEF Types
  <2>3. todo' \in Seq(Task)
    BY <1>1
  <2>. QED BY <1>1, <1>2, <1>7, <2>2, <2>3 DEF Types, ValOf
<1>9. Shape'
  <2>1. Maybe' = Maybe
    BY <1>2 DEF Maybe, Expected
  <2>2. Outcomes' = Maybe'
    BY <1>1 DEF Outcomes, Maybe
  <2>3. dead' = {} => now' \in Outcomes'
    <3>1. dead' = {} => dead = {}
      BY <1>7
    <3>. QED BY <1>1, <1>2, <2>1, <2>2, <3>1, MidCall DEF WriterInv
  <2>. QED BY <1>1, <2>3 DEF Shape
<1>10. EvenInv'
  <2>1. ASSUME "odd" \notin dead', NEW n \in Node PROVE node'[n].vg % 2 = 0
    <3>1. node[n].vg \in Nat /\ node[n].vg % 2 # 1
      BY <1>7, <2>1, Ranges
    <3>2. node[n].vg % 2 = 0
      BY <3>1
    <3>. QED BY <1>2, <3>2
  <2>. QED BY <1>4, <2>1 DEF EvenInv
<1>11. NowInv'
  <2>1. HasBox(link)' = HasBox(link) /\ BoxOf(link)' = BoxOf(link)
    BY <1>2 DEF HasBox, BoxOf
  <2>2. "torn" \notin dead' => ~Mid /\ "torn" \notin dead
    BY <1>7 DEF Mid, At
  <2>. QED BY <1>2, <1>5, <1>7, <2>1, <2>2 DEF WriterInv, NowInv
<1>12. TokInv'
  BY <1>1 DEF TokInv
<1>13. ForwardInv'
  BY <1>2, <1>6, ForwardKeep DEF WriterInv
<1>. QED BY <1>6, <1>8, <1>9, <1>10, <1>11, <1>12, <1>13 DEF WriterInv

\* A step of the writer inside a call: the whole invariant.
LEMMA WriterStep ==
  ASSUME IInv, Store \/ fill \/ Crash
  PROVE  IInv'
<1>1. Types' /\ WriterInv' /\ Grows
  BY StoreKept, FillKept, CrashKept DEF IInv
<1>2. Observe
  BY StoreKind DEF Steps, fill, Crash
<1>. QED BY <1>1, <1>2, ReaderGrows DEF IInv

------------------------------------------------------------------------------
(* The steps of the reader *)

\* What is known at the place a, of the node n, the tokens t and f and the copy c.
Reading(a, n, t, f, c) ==
  /\ a \in {"leaf", "follow", "val"} => Met(n)
  /\ a = "leaf" => n = link \/ node[n].moved
  /\ a \in ReadAt \ {"walk", "leaf", "follow", "val"} => Held(t) /\ t.node = n
  /\ a \in {"check", "checkval", "half1", "half2", "compare"} => Dated(t)
  /\ a \in {"check", "checkval", "half1", "half2"} => f = NoTok
  /\ a = "half2" /\ Steady(t) => c[1] = body[t.box][1]
Again2(a, n, t, f, c) ==
  f # NoTok =>
    /\ Held(f) /\ Dated(f)
    /\ Steady(f) => c = body[f.box]
    /\ a \in {"follow", "val", "sg", "vg", "compare"} => f.node <= n
    /\ a \in {"follow", "val"} /\ n = f.node /\ node[n].val = Box(f.box) =>
         (node[f.node].vg = f.vg /\ f.vg % 2 = 0 /\ ~Excused => c \in r.legal)
    /\ a \in {"sg", "vg"} /\ t.node = f.node /\ t.box = f.box =>
         (node[f.node].vg = f.vg /\ f.vg % 2 = 0 /\ ~Excused => c \in r.legal)
    /\ a = "compare" /\ t = f /\ t.vg % 2 = 0 /\ ~Excused => c \in r.legal

\* Where the reader goes: what it has is new, what happened meanwhile is as before.
Moves(a, n, t, f, c) ==
  /\ r' \in ReadType /\ r'.at = a /\ r'.node = n /\ r'.t = t /\ r'.first = f /\ r'.copy = c
  /\ r'.legal = r.legal /\ r'.over = r.over

\* The reader changes nothing that the writer sees.
LEMMA WriterSame ==
  ASSUME UNCHANGED writer
  PROVE  /\ UNCHANGED <<node, link, epoch, body, todo, call, rc, calls, tok, dead, was, now>>
         /\ Alive' = Alive /\ Moving' = Moving /\ Bare' = Bare /\ Mid' = Mid /\ Home' = Home
         /\ (Types => Types') /\ (WriterInv => WriterInv')
<1>1. UNCHANGED <<node, link, epoch, body, todo, call, rc, calls, tok, dead, was, now>>
  BY DEF writer
<1>2. Now' = Now /\ \A d : At(d)' = At(d)
  BY <1>1 DEF Now, At
<1>3. Alive' = Alive /\ Moving' = Moving /\ Bare' = Bare /\ Mid' = Mid /\ Home' = Home /\ Dest' = Dest
      /\ Copying' = Copying /\ Taking' = Taking
  BY <1>1, <1>2 DEF Alive, Moving, Bare, Mid, Home, Dest, Copying, Taking
<1>4. Types => Types'
  BY <1>1, <1>3 DEF Types, ValOf
<1>5. /\ \A n, b : Sole(n, b)' = Sole(n, b)
      /\ \A n : Older(n)' = Older(n)
      /\ \A n : Leads(n)' = Leads(n)
  BY <1>1, <1>3 DEF Sole, Older, Leads
<1>6. Expected' = Expected /\ Maybe' = Maybe /\ Outcomes' = Outcomes /\ \A z : Goal(z)' = Goal(z)
  <2>1. Expected' = Expected
    BY <1>1 DEF Expected
  <2>. QED BY <1>1, <2>1 DEF Maybe, Outcomes, Goal
<1>7. \A P, z, w, s : Run(P, z, w, s)' = Run(P, z, w, s)
  BY <1>1 DEF Run
<1>8. Shape => Shape'
  <2>1. ASSUME NEW z, NEW s, InPlaceRun(z, s) PROVE InPlaceRun(z, s)'
    <3>1. PICK n \in Node, b \in Nat, v \in V, w \in V :
            /\ s \in 1 .. 4
            /\ Run(<<Do("add", n), M(b, 2, v), M(b, 1, v), Do("add", n)>>, z, w, s)
            /\ n = link /\ Alive /\ node[n].val = Box(b)
            /\ dead = {} => /\ Goal(z) = Whole(v)
                            /\ now = IF s >= 2 THEN was ELSE Goal(z)
                            /\ s = 2 => body[b][1] = v
      BY <2>1 DEF InPlaceRun
    <3>2. Run(<<Do("add", n), M(b, 2, v), M(b, 1, v), Do("add", n)>>, z, w, s)'
      BY <1>7, <3>1
    <3>. QED BY <1>1, <1>3, <1>6, <3>1, <3>2 DEF InPlaceRun
  <2>2. \A z, s : LeafRun(z, s)' = LeafRun(z, s)
    BY <1>1, <1>3, <1>6, <1>7 DEF LeafRun
  <2>3. \A z, s : StoreRun(z, s)' = StoreRun(z, s)
    BY <1>1, <1>3, <1>6, <1>7 DEF StoreRun
  <2>4. \A z : MovedRun(z)' = MovedRun(z)
    BY <1>1, <1>3, <1>6, <1>7 DEF MovedRun
  <2>5. \A s : PartRun(s)' = PartRun(s)
    BY SMTT(30), <1>1, <1>3, <1>6, <1>7 DEF PartRun
  <2>6. \A s : DelRun(s)' = DelRun(s)
    BY <1>1, <1>3, <1>6, <1>7 DEF DelRun
  <2>7. \A s : ViewDelRun(s)' = ViewDelRun(s)
    BY <1>1, <1>3, <1>6, <1>7 DEF ViewDelRun
  <2>8. \A s : CopyRun(s)' = CopyRun(s)
    BY <1>1, <1>3, <1>6, <1>7 DEF CopyRun
  <2>9. \A s : GrowRun(s)' = GrowRun(s)
    BY <1>1, <1>3, <1>6, <1>7 DEF GrowRun, HasBox, BoxOf
  <2>10. FillRun' = FillRun
    BY <1>1, <1>7 DEF FillRun
  <2>. QED BY <1>1, <1>6, <2>1, <2>2, <2>3, <2>4, <2>5, <2>6, <2>7, <2>8, <2>9, <2>10 DEF Shape
<1>9. EvenInv => EvenInv'
  BY <1>1, <1>3 DEF EvenInv
<1>10. NowInv => NowInv'
  BY <1>1, <1>2, <1>3 DEF NowInv, HasBox, BoxOf
<1>11. TokInv => TokInv'
  BY <1>1, <1>2, <1>3, <1>5 DEF TokInv
<1>12. ForwardInv => ForwardInv'
  BY <1>1, <1>5 DEF ForwardInv
<1>. QED BY <1>1, <1>3, <1>4, <1>8, <1>9, <1>10, <1>11, <1>12 DEF WriterInv

\* What the invariant says at the place where the reader is.
LEMMA ReadFrom ==
  ASSUME ReaderInv, Active
  PROVE  /\ r \in ReadType /\ OverInv
         /\ Reading(r.at, r.node, r.t, r.first, r.copy) /\ Again2(r.at, r.node, r.t, r.first, r.copy)
<1>1. r \in ReadType /\ OverInv
  BY DEF ReaderInv, Active, Resting, ReadAt
<1>2. ReadInv /\ SecondInv
  BY DEF ReaderInv
<1>3. Reading(r.at, r.node, r.t, r.first, r.copy)
  BY <1>2 DEF ReadInv, Reading, Second
<1>4. Again2(r.at, r.node, r.t, r.first, r.copy)
  BY <1>2 DEF SecondInv, Again2, Second, Legal
<1>. QED BY <1>1, <1>3, <1>4

\* What the reader must know where it goes.
LEMMA ReadTo ==
  ASSUME ReaderInv, Active, UNCHANGED writer, NEW a \in ReadAt, NEW n, NEW t, NEW f, NEW c,
         Moves(a, n, t, f, c), Reading(a, n, t, f, c), Again2(a, n, t, f, c)
  PROVE  ReaderInv'
<1>1. /\ r' \in ReadType /\ r'.at = a /\ r'.node = n /\ r'.t = t /\ r'.first = f /\ r'.copy = c
      /\ r'.legal = r.legal /\ r'.over = r.over
  BY DEF Moves
<1>2. /\ UNCHANGED <<node, link, epoch, body, now, dead>>
      /\ Alive' = Alive /\ Moving' = Moving /\ Bare' = Bare /\ Mid' = Mid /\ Home' = Home
  BY WriterSame
<1>3. Excused' = Excused /\ Active'
  BY <1>1 DEF Excused, Active
<1>4. OverInv'
  BY <1>1, <1>2 DEF ReaderInv, OverInv
<1>5. /\ \A m, b : Sole(m, b)' = Sole(m, b)
      /\ \A m : Older(m)' = Older(m)
      /\ \A m : HasBox(m)' = HasBox(m)
  BY <1>2 DEF Sole, Older, HasBox
<1>6. \A m : Met(m)' = Met(m)
  BY <1>1, <1>2, <1>5 DEF Met
<1>7. \A x : Held(x)' = Held(x) /\ Dated(x)' = Dated(x) /\ Steady(x)' = Steady(x)
  BY <1>2, <1>3, <1>5 DEF Held, Dated, Steady
<1>8. ReadInv'
  BY <1>1, <1>2, <1>6, <1>7 DEF Reading, ReadInv, Second
<1>9. Legal(f)' <=> (node[f.node].vg = f.vg /\ f.vg % 2 = 0 /\ ~Excused => c \in r.legal)
  BY <1>1, <1>2, <1>3 DEF Legal
<1>10. SecondInv'
  BY <1>1, <1>2, <1>3, <1>7, <1>9 DEF Again2, SecondInv, Second
<1>11. ReadAtomic'
  BY <1>1 DEF ReadAtomic, ReadAt
<1>. QED BY <1>1, <1>4, <1>8, <1>10, <1>11 DEF ReaderInv

\* The read ends.
LEMMA ReadStop ==
  ASSUME ReaderInv, Active, NEW a \in {"done", "lost"}, NEW g \in Pair \union {None},
         r' = [r EXCEPT !.at = a, !.got = g],
         IF g = None THEN None \in r.legal \/ "move" \in r.over ELSE g \in r.legal \/ Excused
  PROVE  ReaderInv'
<1>1. r \in ReadType
  BY ReadFrom
<1>2. r' \in ReadType /\ r'.at = a /\ r'.got = g /\ r'.legal = r.legal /\ r'.over = r.over
  BY <1>1 DEF ReadType
<1>3. ~Active'
  BY <1>2 DEF Active, ReadAt
<1>4. ReadAtomic'
  BY <1>2 DEF ReadAtomic, Excused
<1>. QED BY <1>2, <1>3, <1>4 DEF ReaderInv, OverInv, ReadInv, SecondInv

\* A read that finds nothing.
LEMMA MissOk ==
  ASSUME ReaderInv, Active, r' = Miss, None \in r.legal \/ "move" \in r.over
  PROVE  ReaderInv'
BY ReadStop DEF Miss

\* The walk ends at the key's node.  If it is the one of the first token, and has the
\* same box, then nobody has written to the box since then.
LEMMA ArriveLegal ==
  ASSUME Types, WriterInv, OverInv, Active, Alive, NEW f \in TokType, NEW c,
         f.node = link, node[link].val = Box(f.box), Steady(f) => c = body[f.box],
         node[link].vg = f.vg, f.vg % 2 = 0, ~Excused
  PROVE  c \in r.legal
<1>1. Steady(f)
  BY DEF Steady, Alive
<1>2. now \in r.legal /\ dead \subseteq r.over /\ (Bare /\ Mid => "bare" \in r.over)
  BY DEF OverInv
<1>3. "torn" \notin dead /\ "odd" \notin dead /\ "bare" \notin r.over
  BY <1>2 DEF Excused
<1>4. link \in Node
  BY Ranges DEF Alive
<1>5. HasBox(link) /\ BoxOf(link) = f.box
  BY <1>4, ValFacts
<1>6. ~Mid
  <2>1. SUFFICES ASSUME Mid PROVE FALSE
    OBVIOUS
  <2>2. At("memcpy") /\ todo # <<>>
    BY <2>1 DEF Mid, At
  <2>3. Ready
    BY <2>2, ReadyNow DEF ReadyFact, WriterInv
  <2>4. Copying
    BY <1>2, <1>3, <2>1, <2>2, <2>3 DEF Ready, ReadyCopy
  <2>5. node[link].vg % 2 = 1
    BY <1>3, <1>4, <2>4 DEF WriterInv, EvenInv
  <2>. QED BY <2>5
<1>7. now = body[BoxOf(link)]
  BY <1>3, <1>5, <1>6 DEF WriterInv, NowInv
<1>. QED BY <1>1, <1>2, <1>5, <1>7

\* The node that the index leads to.
LEMMA MetLink ==
  ASSUME Types, WriterInv, OverInv, Active, link # 0
  PROVE  Met(link)
<1>1. link \in 1 .. epoch /\ link \in Node /\ link \in Nat
  BY Ranges
<1>2. now \in r.legal /\ (Moving => "move" \in r.over)
  BY DEF OverInv
<1>3. node[link].moved => "move" \in r.over
  BY <1>2 DEF Moving
<1>4. ~HasBox(link) => None \in r.legal \/ "move" \in r.over
  BY <1>2, <1>3 DEF WriterInv, NowInv, Alive
<1>5. Older(link)
  BY <1>1 DEF Older
<1>6. Home = link \/ node[link].moved
  <2>1. ASSUME Home # link PROVE node[link].moved
    <3>1. At("forward") \/ At("unlink") \/ At("link")
      BY <2>1 DEF Home
    <3>2. Ready
      BY <3>1, ReadyNow DEF ReadyFact, WriterInv, At
    <3>. QED BY <3>1, <3>2 DEF Ready, ReadyMove
  <2>. QED BY <2>1
<1>7. \A b : Sole(link, b)
  BY <1>6 DEF Sole
<1>. QED BY <1>1, <1>3, <1>4, <1>5, <1>7 DEF Met

\* A read begins with nothing.
LEMMA BeginRead ==
  ASSUME Types, WriterInv, read_begin
  PROVE  ReaderInv'
<1>1. r' = [at |-> "walk", legal |-> {now}, over |-> Upset, node |-> 0, t |-> NoTok,
            first |-> NoTok, copy |-> <<Blank, Blank>>, got |-> None] /\ UNCHANGED writer
  BY DEF read_begin, Reads
<1>2. Upset \subseteq {"odd", "torn", "moving", "move", "bare"} /\ now \in Pair \union {None}
  BY DEF Upset, Types
<1>3. NoTok \in TokType /\ <<Blank, Blank>> \in Pair
  BY PairFacts DEF NoTok, TokType, V
<1>4. r' \in ReadType
  BY <1>1, <1>2, <1>3 DEF ReadType, ReadAt
<1>5. r'.at = "walk" /\ r'.legal = {now} /\ r'.over = Upset /\ r'.first = NoTok
  BY <1>1
<1>6. OverInv'
  <2>1. Moving' = Moving /\ Bare' = Bare /\ Mid' = Mid /\ now' = now /\ dead' = dead
    BY <1>1, WriterSame
  <2>. QED BY <1>5, <2>1 DEF OverInv, Upset
<1>7. ReadInv' /\ SecondInv' /\ ReadAtomic'
  BY <1>5 DEF ReadInv, SecondInv, ReadAtomic, ReadAt, Second
<1>. QED BY <1>4, <1>6, <1>7 DEF ReaderInv

\* The result has been taken.
LEMMA EndRead ==
  ASSUME read_end
  PROVE  ReaderInv'
<1>1. r' = Resting
  BY DEF read_end
<1>2. r'.at = "rest"
  BY <1>1 DEF Resting
<1>. QED BY <1>1, <1>2 DEF ReaderInv, OverInv, ReadInv, SecondInv, ReadAtomic, Active, ReadAt

\* The walk loads the link.
LEMMA LinkRead ==
  ASSUME Types, WriterInv, ReaderInv, walk_link
  PROVE  ReaderInv'
<1>1. r.at = "walk" /\ UNCHANGED writer
      /\ r' = IF link = 0 THEN Miss ELSE [r EXCEPT !.at = "leaf", !.node = link]
  BY DEF walk_link, Reads
<1>2. Active
  BY <1>1 DEF Active, ReadAt
<1>3. r \in ReadType /\ OverInv /\ Reading(r.at, r.node, r.t, r.first, r.copy)
      /\ Again2(r.at, r.node, r.t, r.first, r.copy)
  BY <1>2, ReadFrom
<1>4. CASE link = 0
  <2>1. None \in r.legal \/ "move" \in r.over
    BY <1>2, <1>3, <1>4 DEF OverInv, Moving
  <2>. QED BY <1>1, <1>2, <1>4, <2>1, MissOk
<1>5. CASE link # 0
  <2>1. PICK n, t, f, c : n = link /\ t = r.t /\ f = r.first /\ c = r.copy
    OBVIOUS
  <2>2. Met(n)
    BY <1>2, <1>3, <1>5, <2>1, MetLink
  <2>3. Moves("leaf", n, t, f, c)
    <3>1. n \in Nat
      BY <2>1, Ranges
    <3>2. r' = [r EXCEPT !.at = "leaf", !.node = n]
      BY <1>1, <1>5, <2>1
    <3>. QED BY <1>3, <2>1, <3>1, <3>2 DEF Moves, ReadType, ReadAt
  <2>4. Reading("leaf", n, t, f, c)
    BY <2>1, <2>2 DEF Reading
  <2>5. Again2("leaf", n, t, f, c)
    BY <1>3, <2>1 DEF Again2
  <2>. QED BY <1>1, <1>2, <2>3, <2>4, <2>5, ReadTo, "leaf" \in ReadAt DEF ReadAt
<1>. QED BY <1>4, <1>5

\* The walk loads the node: on the second time this is where the copy is justified.
LEMMA LeafRead ==
  ASSUME Types, WriterInv, ReaderInv, walk_leaf
  PROVE  ReaderInv'
<1>1. r.at = "leaf" /\ UNCHANGED writer
      /\ r' = IF node[r.node].moved \/ ~HasBox(r.node) THEN Miss ELSE Goes("follow")
  BY DEF walk_leaf, Reads
<1>2. Active
  BY <1>1 DEF Active, ReadAt
<1>3. r \in ReadType /\ OverInv /\ Reading(r.at, r.node, r.t, r.first, r.copy)
      /\ Again2(r.at, r.node, r.t, r.first, r.copy)
  BY <1>2, ReadFrom
<1>4. Met(r.node) /\ (r.node = link \/ node[r.node].moved)
  BY <1>1, <1>3 DEF Reading
<1>5. CASE node[r.node].moved \/ ~HasBox(r.node)
  <2>1. None \in r.legal \/ "move" \in r.over
    BY <1>4, <1>5 DEF Met
  <2>. QED BY <1>1, <1>2, <1>5, <2>1, MissOk
<1>6. CASE ~node[r.node].moved /\ HasBox(r.node)
  <2>1. PICK n, t, f, c : n = r.node /\ t = r.t /\ f = r.first /\ c = r.copy /\ f \in TokType /\ t \in TokType
    BY <1>3 DEF ReadType
  <2>2. Met(n) /\ n = link /\ Alive
    <3>1. n \in 1 .. epoch
      BY <1>4, <2>1 DEF Met
    <3>2. n # 0
      BY <3>1
    <3>. QED BY <1>4, <1>6, <2>1, <3>2 DEF Alive
  <2>3. Moves("follow", n, t, f, c)
    BY <1>1, <1>3, <1>6, <2>1 DEF Goes, Moves, ReadType, ReadAt
  <2>4. Reading("follow", n, t, f, c)
    BY <2>2 DEF Reading
  <2>5. Again2("follow", n, t, f, c)
    <3>1. SUFFICES ASSUME f # NoTok PROVE Again2("follow", n, t, f, c)
      BY DEF Again2
    <3>2. Held(f) /\ Dated(f) /\ (Steady(f) => c = body[f.box])
      BY <1>3, <2>1, <3>1 DEF Again2
    <3>3. f.node <= n
      BY <2>2, <3>2 DEF Held, Older
    <3>4. ASSUME n = f.node, node[n].val = Box(f.box), node[f.node].vg = f.vg, f.vg % 2 = 0, ~Excused
          PROVE  c \in r.legal
      <4>1. f \in TokType /\ f.node = link /\ node[link].val = Box(f.box) /\ node[link].vg = f.vg
        BY <2>1, <2>2, <3>4
      <4>. QED BY <1>2, <1>3, <2>2, <3>2, <3>4, <4>1, ArriveLegal
    <3>. QED BY <3>2, <3>3, <3>4 DEF Again2
  <2>. QED BY <1>1, <1>2, <2>3, <2>4, <2>5, ReadTo, "follow" \in ReadAt DEF ReadAt
<1>. QED BY <1>5, <1>6

\* A forward leads to a younger node.
LEMMA FollowRead ==
  ASSUME Types, WriterInv, ReaderInv, ref_follow
  PROVE  ReaderInv'
<1>1. r.at = "follow" /\ UNCHANGED writer
  BY DEF ref_follow, Reads
<1>2. Active
  BY <1>1 DEF Active, ReadAt
<1>3. r \in ReadType /\ OverInv /\ Reading(r.at, r.node, r.t, r.first, r.copy)
      /\ Again2(r.at, r.node, r.t, r.first, r.copy)
  BY <1>2, ReadFrom
<1>4. PICK n, t, f, c : n = r.node /\ t = r.t /\ f = r.first /\ c = r.copy /\ f \in TokType /\ t \in TokType
  BY <1>3 DEF ReadType
<1>5. Met(n) /\ n \in 1 .. epoch /\ n \in Node
  <2>1. Met(n)
    BY <1>1, <1>3, <1>4 DEF Reading
  <2>2. n \in 1 .. epoch
    BY <2>1 DEF Met
  <2>. QED BY <2>1, <2>2, Ranges
<1>6. CASE ~node[n].moved
  <2>1. r' = Goes("val")
    BY <1>4, <1>6 DEF ref_follow, Reads
  <2>2. Moves("val", n, t, f, c)
    BY <1>3, <1>4, <2>1 DEF Goes, Moves, ReadType, ReadAt
  <2>3. Reading("val", n, t, f, c)
    BY <1>5 DEF Reading
  <2>4. Again2("val", n, t, f, c)
    BY <1>1, <1>3, <1>4 DEF Again2
  <2>. QED BY <1>1, <1>2, <2>2, <2>3, <2>4, ReadTo, "val" \in ReadAt DEF ReadAt
<1>7. CASE node[n].moved /\ node[n].val[1] = "node"
  <2>1. PICK x : x = node[n].val[2] /\ node[n].val = To(x) /\ x \in n + 1 .. epoch
    BY <1>5, <1>7, ValFacts
  <2>2. r' = [r EXCEPT !.node = x]
    BY <1>4, <1>7, <2>1 DEF ref_follow, Reads
  <2>3. x \in 1 .. epoch /\ x \in Node /\ x \in Nat /\ n \in Nat /\ n < x
    <3>1. epoch \in Nat
      BY Ranges
    <3>2. x \in 1 .. epoch /\ x \in Nat /\ n \in Nat /\ n < x
      BY <1>5, <2>1, <3>1
    <3>. QED BY <3>2, Ranges
  <2>4. "move" \in r.over
    BY <1>5, <1>7 DEF Met
  <2>5. Met(x)
    <3>1. Older(x) /\ \A b \in Nat : node[x].val = Box(b) => Sole(x, b)
      BY <1>5, <2>1, <2>3 DEF WriterInv, ForwardInv
    <3>. QED BY <2>3, <2>4, <3>1 DEF Met
  <2>6. Moves("follow", x, t, f, c)
    BY <1>1, <1>3, <1>4, <2>2, <2>3 DEF Moves, ReadType
  <2>7. Reading("follow", x, t, f, c)
    BY <2>5 DEF Reading
  <2>8. Again2("follow", x, t, f, c)
    <3>1. SUFFICES ASSUME f # NoTok PROVE Again2("follow", x, t, f, c)
      BY DEF Again2
    <3>2. Held(f) /\ Dated(f) /\ (Steady(f) => c = body[f.box]) /\ f.node <= n
      BY <1>1, <1>3, <1>4, <3>1 DEF Again2
    <3>3. f.node \in Nat
      BY <1>4 DEF TokType
    <3>4. f.node <= x /\ x # f.node
      BY <2>3, <3>2, <3>3
    <3>. QED BY <3>2, <3>4 DEF Again2
  <2>. QED BY <1>1, <1>2, <2>6, <2>7, <2>8, ReadTo, "follow" \in ReadAt DEF ReadAt
<1>8. CASE node[n].moved /\ node[n].val[1] # "node"
  <2>1. r' = Miss \/ r' = Goes("lost")
    BY <1>4, <1>8 DEF ref_follow, Reads
  <2>2. "move" \in r.over
    BY <1>5, <1>8 DEF Met
  <2>3. CASE r' = Miss
    BY <1>2, <2>2, <2>3, MissOk
  <2>4. CASE r' = Goes("lost")
    <3>1. r' \in ReadType /\ r'.at = "lost"
      BY <1>3, <2>4 DEF Goes, ReadType
    <3>. QED BY <3>1 DEF ReaderInv, OverInv, ReadInv, SecondInv, ReadAtomic, Active, ReadAt
  <2>. QED BY <2>1, <2>3, <2>4
<1>. QED BY <1>6, <1>7, <1>8

\* The token takes the box.
LEMMA ValRead ==
  ASSUME Types, ReaderInv, from_val
  PROVE  ReaderInv'
<1>1. r.at = "val" /\ UNCHANGED writer
      /\ r' = IF ~HasBox(r.node) THEN Miss
              ELSE [r EXCEPT !.at = "sg",
                             !.t = [NoTok EXCEPT !.node = r.node, !.box = BoxOf(r.node)]]
  BY DEF from_val, Reads
<1>2. Active
  BY <1>1 DEF Active, ReadAt
<1>3. r \in ReadType /\ OverInv /\ Reading(r.at, r.node, r.t, r.first, r.copy)
      /\ Again2(r.at, r.node, r.t, r.first, r.copy)
  BY <1>2, ReadFrom
<1>4. PICK n, f, c : n = r.node /\ f = r.first /\ c = r.copy
  OBVIOUS
<1>5. Met(n) /\ n \in 1 .. epoch /\ n \in Node
  <2>1. Met(n)
    BY <1>1, <1>3, <1>4 DEF Reading
  <2>2. n \in 1 .. epoch
    BY <2>1 DEF Met
  <2>. QED BY <2>1, <2>2, Ranges
<1>6. CASE ~HasBox(n)
  <2>1. None \in r.legal \/ "move" \in r.over
    BY <1>5, <1>6 DEF Met
  <2>. QED BY <1>1, <1>2, <1>4, <1>6, <2>1, MissOk
<1>7. CASE HasBox(n)
  <2>1. PICK b : b = BoxOf(n) /\ node[n].val = Box(b) /\ b \in 1 .. Len(body)
    BY <1>5, <1>7, ValFacts
  <2>2. PICK t : t = [NoTok EXCEPT !.node = n, !.box = b]
    OBVIOUS
  <2>3. b \in Nat /\ n \in Nat
    BY <1>5, <2>1
  <2>4. t \in TokType /\ t.node = n /\ t.box = b
    BY <2>2, <2>3 DEF TokType, NoTok
  <2>5. Moves("sg", n, t, f, c)
    <3>1. r' = [r EXCEPT !.at = "sg", !.t = t]
      BY <1>1, <1>4, <1>7, <2>1, <2>2
    <3>. QED BY <1>3, <1>4, <2>4, <3>1 DEF Moves, ReadType, ReadAt
  <2>6. Held(t)
    BY <1>5, <2>1, <2>3, <2>4 DEF Met, Held
  <2>7. Reading("sg", n, t, f, c)
    BY <2>4, <2>6 DEF Reading
  <2>8. Again2("sg", n, t, f, c)
    BY <1>1, <1>3, <1>4, <2>1, <2>4 DEF Again2
  <2>. QED BY <1>1, <1>2, <2>5, <2>7, <2>8, ReadTo, "sg" \in ReadAt DEF ReadAt
<1>. QED BY <1>6, <1>7

\* The token takes struct_gen.
LEMMA StructGenRead ==
  ASSUME Types, ReaderInv, from_struct_gen
  PROVE  ReaderInv'
<1>1. r.at = "sg" /\ UNCHANGED writer /\ r' = [r EXCEPT !.at = "vg", !.t.sg = node[r.node].sg]
  BY DEF from_struct_gen, Reads
<1>2. Active
  BY <1>1 DEF Active, ReadAt
<1>3. r \in ReadType /\ OverInv /\ Reading(r.at, r.node, r.t, r.first, r.copy)
      /\ Again2(r.at, r.node, r.t, r.first, r.copy)
  BY <1>2, ReadFrom
<1>4. PICK n, t, f, c : n = r.node /\ t = r.t /\ f = r.first /\ c = r.copy /\ t \in TokType
  BY <1>3 DEF ReadType
<1>5. Held(t) /\ t.node = n
  BY <1>1, <1>3, <1>4 DEF Reading, ReadAt
<1>6. PICK g : g = node[n].sg /\ g \in Nat
  <2>1. n \in 1 .. epoch
    BY <1>5 DEF Held
  <2>. QED BY <2>1, Ranges
<1>7. PICK u : u = [t EXCEPT !.sg = g]
  OBVIOUS
<1>8. u \in TokType /\ u.node = n /\ u.box = t.box
  BY <1>4, <1>5, <1>6, <1>7 DEF TokType
<1>9. Moves("vg", n, u, f, c)
  <2>1. r' = [r EXCEPT !.at = "vg", !.t = u]
    BY <1>1, <1>3, <1>4, <1>6, <1>7
  <2>. QED BY <1>3, <1>4, <1>8, <2>1 DEF Moves, ReadType, ReadAt
<1>10. Held(u)
  BY <1>5, <1>8 DEF Held
<1>11. Reading("vg", n, u, f, c)
  BY <1>8, <1>10 DEF Reading
<1>12. Again2("vg", n, u, f, c)
  BY <1>1, <1>3, <1>4, <1>5, <1>8 DEF Again2
<1>. QED BY <1>1, <1>2, <1>9, <1>11, <1>12, ReadTo, "vg" \in ReadAt DEF ReadAt

\* The token takes value_gen: equal to the first one's only if nobody wrote between.
LEMMA ValueGenRead ==
  ASSUME Types, ReaderInv, from_value_gen
  PROVE  ReaderInv'
<1>1. r.at = "vg" /\ UNCHANGED writer
      /\ r' = [r EXCEPT !.at = IF r.first = NoTok THEN "check" ELSE "compare",
                        !.t.vg = node[r.node].vg]
  BY DEF from_value_gen, Reads
<1>2. Active
  BY <1>1 DEF Active, ReadAt
<1>3. r \in ReadType /\ OverInv /\ Reading(r.at, r.node, r.t, r.first, r.copy)
      /\ Again2(r.at, r.node, r.t, r.first, r.copy)
  BY <1>2, ReadFrom
<1>4. PICK n, t, f, c : n = r.node /\ t = r.t /\ f = r.first /\ c = r.copy /\ t \in TokType
  BY <1>3 DEF ReadType
<1>5. Held(t) /\ t.node = n
  BY <1>1, <1>3, <1>4 DEF Reading, ReadAt
<1>6. PICK g : g = node[n].vg /\ g \in Nat
  <2>1. n \in 1 .. epoch
    BY <1>5 DEF Held
  <2>. QED BY <2>1, Ranges
<1>7. PICK u : u = [t EXCEPT !.vg = g]
  OBVIOUS
<1>8. u \in TokType /\ u.node = n /\ u.box = t.box /\ u.vg = g
  BY <1>4, <1>5, <1>6, <1>7 DEF TokType
<1>9. PICK a : a = (IF f = NoTok THEN "check" ELSE "compare")
  OBVIOUS
<1>10. a \in ReadAt
  BY <1>9 DEF ReadAt
<1>11. Moves(a, n, u, f, c)
  <2>1. r' = [r EXCEPT !.at = a, !.t = u]
    BY <1>1, <1>3, <1>4, <1>6, <1>7, <1>9
  <2>. QED BY <1>3, <1>4, <1>8, <1>10, <2>1 DEF Moves, ReadType
<1>12. Held(u)
  BY <1>5, <1>8 DEF Held
<1>13. Dated(u)
  BY <1>6, <1>8 DEF Dated
<1>14. Reading(a, n, u, f, c)
  BY <1>8, <1>9, <1>12, <1>13 DEF Reading
<1>15. Again2(a, n, u, f, c)
  BY <1>1, <1>3, <1>4, <1>5, <1>6, <1>8, <1>9 DEF Again2
<1>. QED BY <1>1, <1>2, <1>10, <1>11, <1>14, <1>15, ReadTo

\* A read that begins anew holds no token.
LEMMA AgainOk ==
  ASSUME ReaderInv, Active, UNCHANGED writer, r' = Again
  PROVE  ReaderInv'
<1>1. r \in ReadType
  BY ReadFrom
<1>2. PICK n, c : n = r.node /\ c = r.copy
  OBVIOUS
<1>3. PICK t : t = NoTok
  OBVIOUS
<1>4. t \in TokType
  BY <1>3 DEF NoTok, TokType
<1>5. Moves("walk", n, t, t, c)
  BY <1>1, <1>2, <1>3, <1>4 DEF Again, Moves, ReadType, ReadAt
<1>6. Reading("walk", n, t, t, c) /\ Again2("walk", n, t, t, c)
  BY <1>3 DEF Reading, Again2
<1>. QED BY <1>5, <1>6, ReadTo, "walk" \in ReadAt DEF ReadAt

\* kvspaceShmViewCheck lets the token pass, or not.
LEMMA CheckRead ==
  ASSUME ReaderInv, check_struct_gen \/ check_val
  PROVE  ReaderInv'
<1>1. /\ UNCHANGED writer
      /\ \/ r.at = "check" /\ (r' = Again \/ r' = Goes("checkval"))
         \/ r.at = "checkval" /\ (r' = Again \/ r' = Goes("half1"))
  BY DEF check_struct_gen, check_val, Reads
<1>2. Active
  BY <1>1 DEF Active, ReadAt
<1>3. r \in ReadType /\ Reading(r.at, r.node, r.t, r.first, r.copy)
  BY <1>2, ReadFrom
<1>4. PICK n, t, f, c : n = r.node /\ t = r.t /\ f = r.first /\ c = r.copy
  OBVIOUS
<1>5. CASE r' = Again
  BY <1>1, <1>2, <1>5, AgainOk
<1>6. CASE r' # Again
  <2>1. PICK a \in {"checkval", "half1"} : r' = Goes(a)
    BY <1>1, <1>6
  <2>2. a \in ReadAt
    BY DEF ReadAt
  <2>3. Held(t) /\ t.node = n /\ Dated(t) /\ f = NoTok
    BY <1>1, <1>3, <1>4 DEF Reading, ReadAt
  <2>4. Moves(a, n, t, f, c)
    BY <1>3, <1>4, <2>1, <2>2 DEF Goes, Moves, ReadType
  <2>5. Reading(a, n, t, f, c) /\ Again2(a, n, t, f, c)
    BY <2>3 DEF Reading, Again2
  <2>. QED BY <1>1, <1>2, <2>2, <2>4, <2>5, ReadTo
<1>. QED BY <1>5, <1>6

\* The two halves are copied, one by one.
LEMMA HalfRead ==
  ASSUME Types, ReaderInv, read_half1 \/ read_half2
  PROVE  ReaderInv'
<1>1. /\ UNCHANGED writer
      /\ \/ r.at = "half1" /\ r' = [r EXCEPT !.at = "half2", !.copy[1] = body[r.t.box][1]]
         \/ r.at = "half2" /\ r' = [r EXCEPT !.at = "walk", !.copy[2] = body[r.t.box][2], !.first = r.t]
  BY DEF read_half1, read_half2, Reads
<1>2. Active
  BY <1>1 DEF Active, ReadAt
<1>3. r \in ReadType /\ Reading(r.at, r.node, r.t, r.first, r.copy)
  BY <1>2, ReadFrom
<1>4. PICK n, t, f, c : /\ n = r.node /\ t = r.t /\ f = r.first /\ c = r.copy
                        /\ t \in TokType /\ c \in Pair
  BY <1>3 DEF ReadType
<1>5. Held(t) /\ t.node = n /\ Dated(t) /\ f = NoTok
  BY <1>1, <1>3, <1>4 DEF Reading, ReadAt
<1>6. PICK p : p = body[t.box] /\ p \in Pair
  <2>1. t.box \in 1 .. Len(body) /\ body \in Seq(Pair)
    BY <1>5 DEF Held, Types
  <2>. QED BY <2>1
<1>7. p[1] \in V /\ p[2] \in V /\ c[1] \in V /\ c[2] \in V
  BY <1>4, <1>6 DEF Pair
<1>8. CASE r.at = "half1"
  <2>1. PICK d : d = [c EXCEPT ![1] = p[1]]
    OBVIOUS
  <2>2. d \in Pair /\ d[1] = p[1]
    BY <1>4, <1>7, <2>1 DEF Pair
  <2>3. Moves("half2", n, t, f, d)
    <3>1. r' = [r EXCEPT !.at = "half2", !.copy = d]
      BY <1>1, <1>3, <1>4, <1>6, <1>8, <2>1
    <3>. QED BY <1>3, <1>4, <2>2, <3>1 DEF Moves, ReadType, ReadAt
  <2>4. Reading("half2", n, t, f, d) /\ Again2("half2", n, t, f, d)
    BY <1>5, <1>6, <2>2 DEF Reading, Again2
  <2>. QED BY <1>1, <1>2, <2>3, <2>4, ReadTo, "half2" \in ReadAt DEF ReadAt
<1>9. CASE r.at = "half2"
  <2>1. PICK d : d = [c EXCEPT ![2] = p[2]]
    OBVIOUS
  <2>2. d \in Pair /\ d[1] = c[1] /\ d[2] = p[2]
    BY <1>4, <1>7, <2>1 DEF Pair
  <2>3. Moves("walk", n, t, t, d)
    <3>1. r' = [r EXCEPT !.at = "walk", !.copy = d, !.first = t]
      BY <1>1, <1>3, <1>4, <1>6, <1>9, <2>1
    <3>. QED BY <1>3, <1>4, <2>2, <3>1 DEF Moves, ReadType, ReadAt
  <2>4. Steady(t) => d = body[t.box]
    <3>1. Steady(t) => c[1] = p[1]
      BY <1>3, <1>4, <1>6, <1>9 DEF Reading
    <3>2. c[1] = p[1] => d = p
      BY <1>6, <2>2 DEF Pair
    <3>. QED BY <1>6, <3>1, <3>2
  <2>5. Reading("walk", n, t, t, d) /\ Again2("walk", n, t, t, d)
    BY <1>5, <2>4 DEF Reading, Again2
  <2>. QED BY <1>1, <1>2, <2>3, <2>5, ReadTo, "walk" \in ReadAt DEF ReadAt
<1>. QED BY <1>1, <1>8, <1>9

\* The two tokens are compared.
LEMMA CompareRead ==
  ASSUME ReaderInv, read_compare
  PROVE  ReaderInv'
<1>1. /\ r.at = "compare" /\ UNCHANGED writer
      /\ r' = IF r.t = r.first /\ r.t.vg % 2 = 0 THEN [r EXCEPT !.at = "done", !.got = r.copy]
              ELSE Again
  BY DEF read_compare, Reads
<1>2. Active
  BY <1>1 DEF Active, ReadAt
<1>3. /\ r \in ReadType /\ Reading(r.at, r.node, r.t, r.first, r.copy)
      /\ Again2(r.at, r.node, r.t, r.first, r.copy)
  BY <1>2, ReadFrom
<1>4. CASE r.t = r.first /\ r.t.vg % 2 = 0
  <2>1. PICK g : g = r.copy /\ g \in Pair
    BY <1>3 DEF ReadType
  <2>2. r.t # NoTok
    <3>1. r.t.node # 0
      BY <1>1, <1>3 DEF Reading, ReadAt, Held
    <3>. QED BY <3>1 DEF NoTok
  <2>3. g \in r.legal \/ Excused
    BY <1>1, <1>3, <1>4, <2>1, <2>2 DEF Again2
  <2>4. g # None
    BY <2>1, PairFacts
  <2>5. r' = [r EXCEPT !.at = "done", !.got = g]
    BY <1>1, <1>4, <2>1
  <2>. QED BY <1>2, <2>1, <2>3, <2>4, <2>5, ReadStop
<1>5. CASE ~(r.t = r.first /\ r.t.vg % 2 = 0)
  BY <1>1, <1>2, <1>5, AgainOk
<1>. QED BY <1>4, <1>5

\* A step of the reader: the whole invariant.
LEMMA ReaderStep ==
  ASSUME IInv, Read
  PROVE  IInv'
<1>1. UNCHANGED writer
  BY DEF Read, read_begin, walk_link, walk_leaf, ref_follow, from_val, from_struct_gen,
     from_value_gen, check_struct_gen, check_val, read_half1, read_half2, read_compare, read_end, Reads
<1>2. Types' /\ WriterInv'
  BY <1>1, WriterSame DEF IInv
<1>3. ReaderInv'
  BY BeginRead, LinkRead, LeafRead, FollowRead, ValRead, StructGenRead, ValueGenRead, CheckRead,
     HalfRead, CompareRead, EndRead DEF IInv, Read
<1>. QED BY <1>2, <1>3 DEF IInv

------------------------------------------------------------------------------
(* The invariant, and what follows from it *)

\* The invariant holds at first,
LEMMA InitInv ==
  ASSUME Init
  PROVE  IInv
<1>1. PICK v \in Values \union {None} :
        IF v = None
          THEN /\ link = 0 /\ epoch = 0 /\ body = <<>> /\ now = None
               /\ node = [n \in Node |-> Fresh]
          ELSE /\ link = 1 /\ epoch = 1 /\ body = <<Whole(v)>> /\ now = Whole(v)
               /\ node = [n \in Node |-> IF n = 1 THEN [Fresh EXCEPT !.val = Box(1), !.sg = 1]
                                         ELSE Fresh]
  BY DEF Init
<1>2. /\ todo = <<>> /\ call = [op |-> "none"] /\ rc = 0 /\ calls = MaxCalls
      /\ tok = NoTok /\ dead = {} /\ was = None /\ r = Resting
  BY DEF Init
<1>3. /\ MaxNode \in Nat \ {0} /\ MaxCalls \in Nat
  BY ViewsAssumption
<1>4. \A d : ~At(d)
  BY <1>2 DEF At
<1>5. /\ Taking = 0 /\ ~Copying /\ ~Mid /\ ~Active
  BY <1>2, <1>4 DEF Taking, Copying, Mid, Active, Resting, ReadAt
<1>6. Fresh \in NodeType /\ [Fresh EXCEPT !.val = Box(1), !.sg = 1] \in NodeType
  BY DEF Fresh, NodeType, AnyVal
<1>7. PICK x : x = [Fresh EXCEPT !.val = Box(1), !.sg = 1]
  OBVIOUS
<1>8. /\ Fresh.moved = FALSE /\ Fresh.val = NoVal /\ Fresh.vg = 0
      /\ x.moved = FALSE /\ x.val = Box(1) /\ x.vg = 0
  BY <1>7 DEF Fresh
<1>9. /\ node \in [Node -> NodeType] /\ \A n \in Node : node[n] = Fresh \/ (node[n] = x /\ n = 1)
      /\ v # None => node[1] = x /\ 1 \in Node
      /\ v = None => \A n \in Node : node[n] = Fresh
  BY <1>1, <1>3, <1>6, <1>7 DEF Node
<1>10. \A n \in Node : ~node[n].moved /\ node[n].vg = 0 /\ (node[n].val = NoVal \/ (node[n].val = Box(1) /\ v # None))
  BY <1>8, <1>9
<1>11. Types
  <2>1. v # None => Whole(v) \in Pair
    BY PairFacts DEF V
  <2>2. body \in Seq(Pair) /\ Len(body) = epoch /\ epoch \in 0 .. 1 /\ (v # None => epoch = 1)
    <3>1. CASE v = None
      BY <1>1, <3>1
    <3>2. CASE v # None
      <4>1. PICK p : p = Whole(v) /\ p \in Pair
        BY <2>1, <3>2
      <4>2. body = <<p>> /\ epoch = 1
        BY <1>1, <3>2, <4>1
      <4>. QED BY <4>1, <4>2
    <3>. QED BY <3>1, <3>2
  <2>3. epoch \in 0 .. MaxNode /\ link \in 0 .. epoch /\ Len(body) + calls + Taking <= MaxCalls + 1
    BY <1>1, <1>2, <1>3, <1>5, <2>2
  <2>4. \A n \in Node : node[n].val \in ValOf(n)
    BY <1>10, <2>2 DEF ValOf
  <2>5. now \in Pair \union {None}
    BY <1>1, <2>1
  <2>6. todo \in Seq(Task) /\ calls \in 0 .. MaxCalls
    BY <1>2, <1>3
  <2>. QED BY <1>2, <1>9, <2>2, <2>3, <2>4, <2>5, <2>6 DEF Types
<1>12. Shape
  BY <1>2 DEF Shape
<1>13. EvenInv
  <2>1. 0 % 2 = 0
    OBVIOUS
  <2>. QED BY <1>5, <1>10, <2>1 DEF EvenInv
<1>14. NowInv
  <2>1. CASE v = None
    BY <1>1, <2>1 DEF NowInv, Alive, Moving
  <2>2. CASE v # None
    <3>1. link = 1 /\ node[link].val = Box(1) /\ body[1] = Whole(v) /\ now = Whole(v)
      BY <1>1, <1>8, <1>9, <2>2
    <3>2. HasBox(link) /\ BoxOf(link) = 1 /\ ~node[link].moved
      BY <1>8, <1>9, <2>2, <3>1, ValForms DEF HasBox, BoxOf
    <3>3. now # None
      BY <2>2, <3>1, PairFacts DEF V
    <3>. QED BY <3>1, <3>2, <3>3 DEF NowInv, Alive, Moving
  <2>. QED BY <2>1, <2>2
<1>15. TokInv
  BY <1>2 DEF TokInv
<1>16. ForwardInv
  <2>1. \A m, y \in Node : node[m].val # To(y)
    BY <1>10, ValForms
  <2>. QED BY <2>1 DEF ForwardInv
<1>17. ReaderInv
  BY <1>2, <1>5 DEF ReaderInv, OverInv, ReadInv, SecondInv, ReadAtomic, Resting
<1>. QED BY <1>11, <1>12, <1>13, <1>14, <1>15, <1>16, <1>17 DEF IInv, WriterInv

\* every step keeps it,
LEMMA StepInv ==
  ASSUME IInv, [Next]_vars
  PROVE  IInv'
<1>1. CASE Next
  <2>1. Begin \/ kvspaceShmViewResolve \/ Store \/ fill \/ Crash \/ Read
    BY <1>1, StepKinds
  <2>2. CASE Begin
    <3>1. Opens
      BY <2>2, BeginOpens DEF IInv, WriterInv
    <3>. QED BY <3>1, OpensInv
  <2>. QED BY <2>1, <2>2, ResolveInv, WriterStep, ReaderStep
<1>2. CASE UNCHANGED vars
  <2>1. UNCHANGED writer /\ r' = r
    BY <1>2 DEF vars
  <2>2. Types' /\ WriterInv'
    BY <2>1, WriterSame DEF IInv
  <2>3. ReaderInv'
    <3>1. /\ UNCHANGED <<node, link, epoch, body, now, dead>>
          /\ Home' = Home /\ Bare' = Bare /\ Mid' = Mid
      BY <2>1, WriterSame
    <3>2. CASE ~(Bare /\ Mid)
      BY <2>1, <3>1, <3>2, ReaderStands DEF IInv
    <3>3. CASE Bare /\ Mid /\ Active
      <4>1. PICK a, n, t, f, c : /\ a \in ReadAt /\ a = r.at /\ n = r.node
                                 /\ t = r.t /\ f = r.first /\ c = r.copy
        BY <3>3 DEF Active
      <4>2. r \in ReadType /\ Reading(a, n, t, f, c) /\ Again2(a, n, t, f, c)
        BY <3>3, <4>1, ReadFrom DEF IInv
      <4>3. Moves(a, n, t, f, c)
        BY <2>1, <4>1, <4>2 DEF Moves
      <4>. QED BY <2>1, <3>3, <4>1, <4>2, <4>3, ReadTo DEF IInv
    <3>4. CASE ~Active
      BY <2>1, <3>4 DEF IInv, ReaderInv, OverInv, ReadInv, SecondInv, ReadAtomic, Active
    <3>. QED BY <3>2, <3>3, <3>4
  <2>. QED BY <2>2, <2>3 DEF IInv
<1>. QED BY <1>1, <1>2

\* and so it always holds.
LEMMA Invariance == Spec => []IInv
<1>1. Init => IInv
  BY InitInv
<1>2. IInv /\ [Next]_vars => IInv'
  BY StepInv
<1>. QED BY <1>1, <1>2, PTL DEF Spec

\* Every variable has its type, no call runs out of boxes, and a node forwards to a
\* younger one, so that following a reference (art_follow) ends: whatever the calls,
\* the deaths of writers and the order of the stores.
THEOREM TypeCorrect == Spec => []TypeOK
<1>1. IInv => TypeOK
  <2>. SUFFICES ASSUME Types PROVE TypeOK
    BY DEF IInv
  <2>2. /\ link \in 0 .. epoch /\ epoch \in 0 .. MaxNode /\ rc \in {0, 1, 2} /\ calls \in 0 .. MaxCalls
        /\ dead \subseteq {"odd", "torn", "moving"}
    BY DEF Types
  <2>3. Len(body) <= MaxBox
    <3>1. Taking \in {0, 1} /\ Len(body) \in Nat /\ calls \in Nat
          /\ Len(body) + calls + Taking <= MaxCalls + 1
      BY ViewsAssumption DEF Types, Taking
    <3>. QED BY <3>1, ViewsAssumption
  <2>4. \A n \in Node : node[n].sg \in Nat /\ node[n].vg \in Nat /\ node[n].val \in ValOf(n)
    BY Ranges DEF Types
  <2>. QED BY <2>2, <2>3, <2>4 DEF TypeOK, ValOf
<1>. QED BY <1>1, Invariance, PTL

\* Whichever call ends, in-place write, box swap, deletion, move or refusal, and
\* wherever an earlier writer died: value_gen is even between calls, unless a death fell
\* between the two increments of an in-place write.
THEOREM EvenSafety == Spec => []EvenAtRest
<1>1. IInv => EvenAtRest
  <2>1. SUFFICES ASSUME IInv, todo = <<>>, "odd" \notin dead, NEW n \in Node PROVE node[n].vg % 2 = 0
    BY DEF EvenAtRest, Idle
  <2>2. ~Copying
    BY <2>1 DEF Copying, At
  <2>. QED BY <2>1, <2>2 DEF IInv, WriterInv, EvenInv
<1>. QED BY <1>1, Invariance, PTL

\* A call by key, by reference or by token that returns 0 has changed the value that a
\* walk finds, although the node or the box it came with may have been moved, swapped
\* or deleted since; one that returns an error has changed nothing, and one whose process
\* died has changed all or nothing.
THEOREM EffectSafety == Spec => []CallTakesEffect
<1>1. IInv => CallTakesEffect
  <2>1. SUFFICES ASSUME IInv, todo = <<>>, call.op # "none", dead = {} PROVE Found \in Outcomes
    BY DEF CallTakesEffect, Idle
  <2>2. \A d : ~At(d)
    BY <2>1 DEF At
  <2>3. now \in Outcomes
    <3>1. \A s : ~GrowRun(s)
      BY <2>1, Doing DEF Does
    <3>2. Shape => now \in Outcomes
      BY <2>1, <3>1, Doing, Zenon DEF Shape, Does
    <3>. QED BY <2>1, <3>2 DEF IInv, WriterInv
  <2>4. NowInv /\ Types
    BY <2>1 DEF IInv, WriterInv
  <2>5. ~Moving /\ ~Mid
    BY <2>1, <2>2, <2>4 DEF NowInv, Mid
  <2>6. Found = now
    <3>1. CASE link = 0
      BY <2>5, <3>1 DEF Moving, Found, art_search
    <3>2. CASE link # 0
      <4>1. Alive
        BY <2>5, <3>2 DEF Moving, Alive
      <4>2. (now = None <=> ~HasBox(link)) /\ (HasBox(link) => now = body[BoxOf(link)])
        BY <2>1, <2>4, <2>5, <4>1 DEF NowInv
      <4>. QED BY <3>2, <4>1, <4>2 DEF Found, art_search, Alive
    <3>. QED BY <3>1, <3>2
  <2>. QED BY <2>3, <2>6
<1>. QED BY <1>1, Invariance, PTL

\* A read that is accepted (two equal tokens with an even value_gen around the copy)
\* returns a value that the key had while it ran, never half of one and half of another,
\* and a key that is present is missed only while its node moves: for any number of
\* writes, swaps, deletions and moves between any two loads of the reader.
THEOREM ReadSafety == Spec => []ReadAtomic
<1>1. IInv => ReadAtomic
  BY DEF IInv, ReaderInv
<1>. QED BY <1>1, Invariance, PTL

=============================================================================
