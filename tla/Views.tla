---------------------------------- MODULE Views ----------------------------------
(***************************************************************************)
(* The value of one key under view tokens and in-place writes (kvspace.c). *)
(*                                                                         *)
(* The node of a key has a val word (none, a box, or the node it has moved *)
(* to) and, in a table beside the index, struct_gen and value_gen.  One    *)
(* process writes: a call is a sequence of single stores, kept in `todo'   *)
(* in the order of the code, and the writer may die between any two.       *)
(* Another process resolves the key to a token and copies the body, load   *)
(* by load, while that happens.                                            *)
(*                                                                         *)
(* A body is two halves, which is enough for a copy to be torn.  Boxes are *)
(* never reused here: Reclaim shows that none is while a token points into *)
(* it, and recovery_epoch is a matter of that module too.  Generations     *)
(* do not wrap within the bounds (32 bits in the code).                    *)
(***************************************************************************)
EXTENDS Naturals, Sequences, SequencesExt

CONSTANTS
  Values,     \* what is written to a half of the body
  Blank,      \* what WriteNewPlace puts there
  Ops,        \* calls of the writer that are tried
  MaxNode,    \* number of nodes the key may ever have
  MaxCalls,   \* number of calls
  MaxBox,     \* number of boxes; one call takes one at most
  Crashes     \* the writer may die inside a call

ASSUME ViewsAssumption ==
  /\ Blank \notin Values /\ MaxNode \in Nat \ {0} /\ MaxCalls \in Nat
  /\ MaxBox \in Nat /\ MaxBox > MaxCalls /\ Crashes \in BOOLEAN

VARIABLES
  node,       \* nodes of the key: moved (type is ART_MOVED), val, struct_gen, value_gen
  link,       \* the node the index leads to, 0 = none
  epoch,      \* gen_epoch: nodes allocated so far
  body,       \* content of the boxes handed out
  todo,       \* stores left of the call under way
  call,       \* that call, or the last one
  rc,         \* its result: 0, 1 = stale token or nothing there, 2 = died
  calls,      \* number of calls left
  tok,        \* the writer's token
  dead,       \* what the deaths of writers have left behind
  was,        \* value of the key when the call began
  now,        \* value of the key: changes with the store that completes a change
  r           \* the read under way in the other process

writer == <<node, link, epoch, body, todo, call, rc, calls, tok, dead, was, now>>
vars == <<writer, r>>

Node == 1 .. MaxNode
None == <<>>
NoVal    == <<"none", 0>>
Box(b)   == <<"box", b>>
To(n)    == <<"node", n>>
Fresh    == [moved |-> FALSE, val |-> NoVal, sg |-> 0, vg |-> 0]
NoTok    == [node |-> 0, box |-> 0, sg |-> 0, vg |-> 0]
Resting  == [at |-> "rest"]
Whole(v) == <<v, v>>

HasBox(n) == node[n].val[1] = "box"
BoxOf(n)  == node[n].val[2]

\* The key is absent, or has a value.
Init ==
  /\ \E v \in Values \union {None} :
       IF v = None
         THEN /\ link = 0 /\ epoch = 0 /\ body = <<>> /\ now = None
              /\ node = [n \in Node |-> Fresh]
         ELSE /\ link = 1 /\ epoch = 1 /\ body = <<Whole(v)>> /\ now = Whole(v)
              /\ node = [n \in Node |-> IF n = 1 THEN [Fresh EXCEPT !.val = Box(1), !.sg = 1]
                                        ELSE Fresh]
  /\ todo = <<>> /\ call = [op |-> "none"] /\ rc = 0 /\ calls = MaxCalls
  /\ tok = NoTok /\ dead = {} /\ was = None /\ r = Resting

------------------------------------------------------------------------------
(* Calls of the writer *)

Do(what, n) == [do |-> what, node |-> n, box |-> 0, half |-> 0, v |-> Blank]
Copy(b, v, halves) ==
  [i \in 1 .. Len(halves) |-> [do |-> "memcpy", node |-> 0, box |-> b, half |-> halves[i], v |-> v]]

\* Broken variant: the generation is bumped once, after the copy.
InPlace_late(n, b, v, halves) == Copy(b, v, halves) \o <<Do("value", n)>>

\* A copy into a live box between two increments of value_gen.
InPlace(n, b, v, halves) == <<Do("add", n)>> \o Copy(b, v, halves) \o <<Do("add", n)>>

\* Where a walk from the root finds a value, 0 = nowhere.
art_search == IF link # 0 /\ ~node[link].moved /\ HasBox(link) THEN link ELSE 0

\* A reference is followed from node to node.
art_follow(id) ==
  LET f[n \in 0 .. MaxNode] ==
        IF n = 0 THEN 0
        ELSE IF ~node[n].moved THEN n
        ELSE IF node[n].val[1] = "node" THEN f[node[n].val[2]] ELSE 0
  IN f[id]

\* A new box goes to the node the walk ends at, even a MOVED one, whose
\* generations are then left alone; a key without a node gets a leaf.
Swap(v) ==
  IF link = 0
    THEN <<[Do("leaf", epoch + 1) EXCEPT !.v = v], Do("link", epoch + 1),
           Do("struct", epoch + 1), Do("value", epoch + 1)>>
    ELSE <<[Do("store", link) EXCEPT !.v = v]>> \o
         (IF node[link].moved THEN <<>> ELSE <<Do("struct", link), Do("value", link)>>)

\* shm_set_local: the old box is kept if the value fits.
shm_set_local(old, v, fits) ==
  IF old # 0 /\ HasBox(old) /\ fits THEN InPlace(old, BoxOf(old), v, <<1, 2>>) ELSE Swap(v)

\* Broken variant: a token is never stale.
ViewCheck_never(t) == t # NoTok

\* ViewCheck, run by the writer itself: struct_gen, then the val word.
ViewCheck(t) == t # NoTok /\ node[t.node].sg = t.sg /\ node[t.node].val = Box(t.box)

\* Broken variant: the new node forwards to itself.
Forward_self(old, new) == old

\* The node that the old one forwards to.
Forward(old, new) == new

\* art_grow for the key of a new child, and its parent's link: the copy is
\* private until the old node is marked and given its forward, in this order;
\* the parent drops the old child and then takes the new one.
art_grow ==
  <<Do("clone", epoch + 1), Do("struct", epoch + 1), Do("struct", link), Do("type", link),
    [Do("forward", link) EXCEPT !.box = Forward(link, epoch + 1)],
    Do("unlink", link), Do("link", epoch + 1)>>

Refused == [rc |-> 1, todo |-> <<>>]
Plan(steps) == [rc |-> 0, todo |-> steps]

Begins(c, plan) ==
  /\ todo = <<>> /\ calls > 0 /\ c.op \in Ops
  /\ todo' = plan.todo /\ rc' = plan.rc /\ call' = c
  /\ was' = now /\ calls' = calls - 1
  /\ UNCHANGED <<node, link, epoch, body, tok, dead, now, r>>

\* kvspaceShmSet and kvspaceShmSetValue: by key.
kvspaceShmSet(v, fits) ==
  /\ link = 0 => epoch < MaxNode
  /\ Begins([op |-> "Set", v |-> v], Plan(shm_set_local(art_search, v, fits)))

\* By reference, or by key when the reference leads to no value.
kvspaceShmSetValueByRef(v, fits) ==
  /\ tok # NoTok /\ (link = 0 => epoch < MaxNode)
  /\ \E id \in {art_follow(tok.node)} :
       Begins([op |-> "Set", v |-> v],
              Plan(shm_set_local(IF id # 0 /\ HasBox(id) THEN id ELSE art_search, v, fits)))

\* A blank value is set and the caller fills its body in, without value_gen.
kvspaceShmWriteNewPlace(v, fits) ==
  /\ link = 0 => epoch < MaxNode
  /\ Begins([op |-> "WriteNewPlace", v |-> v],
            Plan(shm_set_local(art_search, Blank, fits) \o <<[Do("fill", 0) EXCEPT !.v = v]>>))

\* art_del does not look whether the node has moved.
kvspaceShmDel ==
  Begins([op |-> "Del"],
         IF link # 0 /\ HasBox(link)
           THEN Plan(<<Do("cas", link), Do("value", link), Do("struct", link)>>) ELSE Refused)

\* kvspaceShmSetPart, and the caller's writes after kvspaceShmWriteInPlace: a
\* copy without value_gen.
kvspaceShmSetPart(v, halves) ==
  Begins([op |-> "SetPart", v |-> v, halves |-> halves],
         IF art_search # 0 THEN Plan(Copy(BoxOf(art_search), v, halves)) ELSE Refused)

\* By reference, or by key when the reference leads to no value.
kvspaceShmSetPartByRef(v, halves) ==
  /\ tok # NoTok
  /\ \E id \in {art_follow(tok.node)} :
       LET n == IF id # 0 /\ HasBox(id) THEN id ELSE art_search
       IN Begins([op |-> "SetPartByRef", v |-> v, halves |-> halves],
                 IF n # 0 THEN Plan(InPlace(n, BoxOf(n), v, halves)) ELSE Refused)

kvspaceShmViewWrite(v) ==
  /\ tok # NoTok
  /\ Begins([op |-> "ViewWrite", v |-> v],
            IF ViewCheck(tok) THEN Plan(InPlace(tok.node, tok.box, v, <<1, 2>>)) ELSE Refused)

\* struct_gen is left alone.
kvspaceShmViewDel ==
  /\ tok # NoTok
  /\ Begins([op |-> "ViewDel"],
            IF ViewCheck(tok) /\ HasBox(tok.node)
              THEN Plan(<<Do("cas", tok.node), Do("value", tok.node)>>) ELSE Refused)

\* Set of another key, below this one, for which the node has no room.
SetBelow ==
  /\ link # 0 /\ ~node[link].moved /\ epoch < MaxNode
  /\ Begins([op |-> "SetBelow"], Plan(art_grow))

\* The writer resolves the key; nobody writes meanwhile.  Its calls do not look at
\* the token's value_gen.
kvspaceShmViewResolve ==
  /\ todo = <<>> /\ art_search # 0
  /\ tok' = [node |-> link, box |-> BoxOf(link), sg |-> node[link].sg, vg |-> 0]
  /\ tok' # tok
  /\ UNCHANGED <<node, link, epoch, body, todo, call, rc, calls, dead, was, now, r>>

------------------------------------------------------------------------------
(* The stores of a call *)

Now == Head(todo)
At(what) == todo # <<>> /\ Now.do = what
Pops == todo' = Tail(todo)

\* Between these two the index leads to no node with the value.
Moving == IF link = 0 THEN now # None ELSE node[link].moved
Bare   == todo # <<>> /\ call.op \in {"SetPart", "WriteNewPlace"}
Upset  == dead \union (IF Moving THEN {"move"} ELSE {}) \union (IF Bare THEN {"bare"} ELSE {})

\* What the reader may find, and what is going on around it.
Observe ==
  r' = IF r.at \in {"rest", "done", "lost"} THEN r
       ELSE [r EXCEPT !.legal = @ \union {now'}, !.over = @ \union Upset \union Upset']

Steps == UNCHANGED <<call, rc, calls, tok, dead, was>> /\ Observe

\* One half of a body.  The last one completes the change, if the box is the key's.
memcpy ==
  /\ At("memcpy") /\ Pops
  /\ body' = [body EXCEPT ![Now.box][Now.half] = Now.v]
  /\ now' = IF (\E i \in DOMAIN Tail(todo) : Tail(todo)[i].do = "memcpy")
                 \/ art_search = 0 \/ BoxOf(art_search) # Now.box
              THEN now ELSE body'[Now.box]
  /\ UNCHANGED <<node, link, epoch>> /\ Steps

\* value_gen + 1, before and after an in-place copy.
value_gen_add ==
  /\ At("add") /\ Pops
  /\ node' = [node EXCEPT ![Now.node].vg = @ + 1]
  /\ UNCHANGED <<link, epoch, body, now>> /\ Steps

\* Broken variant: one instead of two.
BumpBy_one == 1

\* A replacement or deletion leaves value_gen even.
BumpBy == 2

gen_bump_value ==
  /\ At("value") /\ Pops
  /\ node' = [node EXCEPT ![Now.node].vg = @ + BumpBy]
  /\ UNCHANGED <<link, epoch, body, now>> /\ Steps

gen_bump_struct ==
  /\ At("struct") /\ Pops
  /\ node' = [node EXCEPT ![Now.node].sg = @ + 1]
  /\ UNCHANGED <<link, epoch, body, now>> /\ Steps

\* art_ins: the new box is published.
art_val_store ==
  /\ At("store") /\ Pops
  /\ body' = Append(body, Whole(Now.v))
  /\ node' = [node EXCEPT ![Now.node].val = Box(Len(body'))]
  /\ now' = IF node[Now.node].moved THEN now ELSE Whole(Now.v)
  /\ UNCHANGED <<link, epoch>> /\ Steps

\* art_del and ViewDel: the value goes.
art_val_cas ==
  /\ At("cas") /\ Pops
  /\ node' = [node EXCEPT ![Now.node].val = NoVal]
  /\ now' = IF Now.node = link /\ ~node[link].moved THEN None ELSE now
  /\ UNCHANGED <<link, epoch, body>> /\ Steps

\* art_balloc: a node begins with struct_gen from gen_epoch and value_gen 0; it
\* is filled before it is linked.
art_new_leaf ==
  /\ At("leaf") /\ Pops
  /\ epoch' = epoch + 1 /\ body' = Append(body, Whole(Now.v))
  /\ node' = [node EXCEPT ![epoch'] = [Fresh EXCEPT !.val = Box(Len(body')), !.sg = epoch']]
  /\ UNCHANGED <<link, now>> /\ Steps

art_new_node ==
  /\ At("clone") /\ Pops
  /\ epoch' = epoch + 1
  /\ node' = [node EXCEPT ![epoch'] = [Fresh EXCEPT !.val = node[link].val, !.sg = epoch']]
  /\ UNCHANGED <<link, body, now>> /\ Steps

\* The old node is marked ...
art_moved ==
  /\ At("type") /\ Pops
  /\ node' = [node EXCEPT ![Now.node].moved = TRUE]
  /\ UNCHANGED <<link, epoch, body, now>> /\ Steps

\* ... and then told where it has gone.
art_forward ==
  /\ At("forward") /\ Pops
  /\ node' = [node EXCEPT ![Now.node].val = To(Now.box)]
  /\ UNCHANGED <<link, epoch, body, now>> /\ Steps

art_rm ==
  /\ At("unlink") /\ Pops
  /\ link' = 0
  /\ UNCHANGED <<node, epoch, body, now>> /\ Steps

art_add ==
  /\ At("link") /\ Pops
  /\ link' = Now.node
  /\ now' = IF HasBox(Now.node) THEN body[BoxOf(Now.node)] ELSE None
  /\ UNCHANGED <<node, epoch, body>> /\ Steps

\* WriteNewPlace returns the body of the box it finds by walking again.
fill ==
  /\ At("fill")
  /\ IF art_search # 0
       THEN todo' = Copy(BoxOf(art_search), Now.v, <<1, 2>>) /\ UNCHANGED rc
       ELSE todo' = <<>> /\ rc' = 1
  /\ UNCHANGED <<node, link, epoch, body, call, calls, tok, dead, was, now>> /\ Observe

\* The writer dies; another process writes from now on.
Crash ==
  /\ Crashes /\ todo # <<>>
  /\ todo' = <<>> /\ rc' = 2 /\ tok' = NoTok
  /\ dead' = dead \union (IF \E n \in Node : node[n].vg % 2 = 1 THEN {"odd"} ELSE {})
                  \union (IF Now.do = "memcpy" THEN {"torn"} ELSE {})
                  \union (IF Moving THEN {"moving"} ELSE {})
  /\ UNCHANGED <<node, link, epoch, body, call, calls, was, now>> /\ Observe

------------------------------------------------------------------------------
(* The reader: a token, a copy of the body, the token again *)

Reads(at, s) == r.at = at /\ r' = s /\ UNCHANGED writer
Goes(at) == [r EXCEPT !.at = at]
Miss == [r EXCEPT !.at = "done", !.got = None]

read_begin ==
  Reads("rest", [at |-> "walk", legal |-> {now}, over |-> Upset, node |-> 0, t |-> NoTok,
                 first |-> NoTok, copy |-> <<Blank, Blank>>, got |-> None])

\* kvspaceShmResolveRef: the walk loads the link, then the node's type and val.
walk_link == Reads("walk", IF link = 0 THEN Miss ELSE [r EXCEPT !.at = "leaf", !.node = link])
walk_leaf ==
  Reads("leaf", IF node[r.node].moved \/ ~HasBox(r.node) THEN Miss ELSE Goes("follow"))

\* kvspaceShmViewFromRef follows the reference first.  A node that is marked and
\* has no forward yet sends the reader to a block that is not the key's, or to none.
ref_follow ==
  \/ /\ r.at = "follow" /\ ~node[r.node].moved
     /\ Reads("follow", Goes("val"))
  \/ /\ r.at = "follow" /\ node[r.node].moved
     /\ IF node[r.node].val[1] = "node"
          THEN Reads("follow", [r EXCEPT !.node = node[r.node].val[2]])
          ELSE \E s \in {Miss, Goes("lost")} : Reads("follow", s)

from_val ==
  Reads("val", IF ~HasBox(r.node) THEN Miss
               ELSE [r EXCEPT !.at = "sg", !.t = [NoTok EXCEPT !.node = r.node, !.box = BoxOf(r.node)]])
from_struct_gen == Reads("sg", [r EXCEPT !.at = "vg", !.t.sg = node[r.node].sg])
from_value_gen ==
  Reads("vg", [r EXCEPT !.at = IF r.first = NoTok THEN "check" ELSE "compare",
                        !.t.vg = node[r.node].vg])

Again == [r EXCEPT !.at = "walk", !.t = NoTok, !.first = NoTok]

\* kvspaceShmViewCheck: struct_gen, then the val word; a stale token is resolved anew.
check_struct_gen ==
  Reads("check", IF node[r.t.node].sg # r.t.sg THEN Again ELSE Goes("checkval"))
check_val ==
  Reads("checkval", IF node[r.t.node].val # Box(r.t.box) THEN Again ELSE Goes("half1"))

read_half1 == Reads("half1", [r EXCEPT !.at = "half2", !.copy[1] = body[r.t.box][1]])
read_half2 ==
  Reads("half2", [r EXCEPT !.at = "walk", !.copy[2] = body[r.t.box][2], !.first = r.t])

\* kvspaceShmViewRefresh gives a second token; the copy counts if it is the
\* same as the first and value_gen is even.
read_compare ==
  Reads("compare", IF r.t = r.first /\ r.t.vg % 2 = 0
                     THEN [r EXCEPT !.at = "done", !.got = r.copy] ELSE Again)

read_end == r.at \in {"done", "lost"} /\ r' = Resting /\ UNCHANGED writer

------------------------------------------------------------------------------
Parts == {<<1>>, <<1, 2>>}

Next ==
  \/ \E v \in Values, fits \in BOOLEAN :
       \/ kvspaceShmSet(v, fits) \/ kvspaceShmSetValueByRef(v, fits)
       \/ kvspaceShmWriteNewPlace(v, fits)
  \/ \E v \in Values, halves \in Parts :
       kvspaceShmSetPart(v, halves) \/ kvspaceShmSetPartByRef(v, halves)
  \/ \E v \in Values : kvspaceShmViewWrite(v)
  \/ kvspaceShmDel \/ kvspaceShmViewDel \/ SetBelow \/ kvspaceShmViewResolve
  \/ memcpy \/ value_gen_add \/ gen_bump_value \/ gen_bump_struct \/ art_val_store
  \/ art_val_cas \/ art_new_leaf \/ art_new_node \/ art_moved \/ art_forward
  \/ art_rm \/ art_add \/ fill \/ Crash
  \/ read_begin \/ walk_link \/ walk_leaf \/ ref_follow \/ from_val \/ from_struct_gen
  \/ from_value_gen \/ check_struct_gen \/ check_val \/ read_half1 \/ read_half2
  \/ read_compare \/ read_end

Spec == Init /\ [][Next]_vars

------------------------------------------------------------------------------
(* Correctness *)

Idle == todo = <<>>

\* Every variable has its type, and a node forwards to a younger one: following a
\* reference ends.
TypeOK ==
  /\ link \in 0 .. epoch /\ epoch \in 0 .. MaxNode /\ Len(body) <= MaxBox
  /\ rc \in {0, 1, 2} /\ calls \in 0 .. MaxCalls
  /\ \A n \in Node :
       /\ node[n].sg \in Nat /\ node[n].vg \in Nat
       /\ node[n].val \in {NoVal} \union {Box(b) : b \in 1 .. Len(body)} \union {To(m) : m \in n + 1 .. epoch}
  /\ dead \subseteq {"odd", "torn", "moving"}

\* What an accepted read returns is a value the key had between its begin and its
\* end, never a mixture of two, although the loads of the token, of the check and
\* of the body interleave with in-place writes, box swaps, deletions and moves;
\* and a key that is there all the time is missed only while its node is moved.
\* Writes without value_gen, and what a death inside a copy leaves, are excepted.
ReadAtomic ==
  r.at = "done" =>
    IF r.got = None THEN None \in r.legal \/ "move" \in r.over
    ELSE r.got \in r.legal \/ r.over \intersect {"bare", "odd", "torn"} # {}

\* value_gen is even whenever no call is under way, unless a writer died between
\* the two increments of an in-place write.
EvenAtRest == Idle /\ "odd" \notin dead => \A n \in Node : node[n].vg % 2 = 0

\* What a reader that walks to the key finds.
Found == IF art_search = 0 THEN None ELSE body[BoxOf(art_search)]

Expected ==
  CASE call.op \in {"Set", "ViewWrite", "WriteNewPlace"} -> Whole(call.v)
    [] call.op \in {"Del", "ViewDel"} -> None
    [] call.op \in {"SetPart", "SetPartByRef"} ->
         [h \in {1, 2} |-> IF Contains(call.halves, h) THEN call.v ELSE was[h]]
    [] OTHER -> was

\* What may be found after the call; a death leaves all of the change or nothing
\* (of WriteNewPlace also the blank value).
Outcomes ==
  CASE rc = 0 -> {Expected}
    [] rc = 1 -> {was}
    [] rc = 2 -> {was, Expected} \union (IF call.op = "WriteNewPlace" THEN {Whole(Blank)} ELSE {})

\* A call that returns success has had its effect on the key, whatever happened to
\* the node or box of the token or reference it came with; a call that fails has
\* had none, and one whose process died all or none.  Deaths inside a copy and
\* while a node moves are excepted.
CallTakesEffect == Idle /\ call.op # "none" /\ dead = {} => Found \in Outcomes
==============================================================================
