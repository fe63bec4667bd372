---------------------------------- MODULE Keys ----------------------------------
(***************************************************************************)
(* The operations on keys and trees of keys, and the list cache of a       *)
(* handle (kvspace.c).                                                     *)
(*                                                                         *)
(* One process writes.  A call is a sequence of single-key changes that    *)
(* other processes see one by one; list_gen is bumped after a change of    *)
(* the key set.  `todo' holds what is left of the call under way, in the   *)
(* order of the code, as the stack of the recursion would; each entry is a *)
(* set of tasks, more than one where the code walks the result of a scan.  *)
(*                                                                         *)
(* A handle of another process lists directories through its cache         *)
(* (kvspaceShmListLen, kvspaceShmListAt, which take lc_mtx): the loads of  *)
(* list_cached are steps of their own, and the scan sees one group of      *)
(* children after the other.                                               *)
(***************************************************************************)
EXTENDS Paths

CONSTANTS
  Scenarios,  \* content of the store when the model begins, number of calls of the
              \* writer, listings of the reader
  Calls,      \* calls of the writer
  Letters,    \* sequence of sets of letters: the groups a scan visits in turn
  Failures,   \* {FALSE}, or {FALSE, TRUE}: one allocation or reservation of a call may fail
  Crashes     \* the writer may die inside a call

\* Keys are absolute paths; a scan visits every letter there is.
Token == {Slash, Dot, Run} \union UNION ToSet(Letters)
Key   == {k \in Seq(Token) : k # <<>> /\ k[1] = Slash}

IsValue(v) == v.ref \in {"inline", "ptr", "ext"}

Ops == {"Set", "WriteNewPlace", "Del", "DelKeys", "Deltree", "Cp", "Cptree", "Cplist", "Mkindex",
        "Extindex"}

ASSUME KeysAssumption ==
  /\ Failures \subseteq BOOLEAN /\ Crashes \in BOOLEAN
  /\ Len(Letters) \in Nat \ {0} /\ DOMAIN Letters = 1 .. Len(Letters)
  /\ \A c \in Scenarios :
       /\ DOMAIN c.store \subseteq Key /\ \A k \in DOMAIN c.store : IsValue(c.store[k])
       /\ c.calls \in Nat /\ \A q \in c.queries : q.ex \in BOOLEAN /\ q.resolve \in BOOLEAN
  /\ \A c \in Calls :
       /\ c.op \in Ops /\ c.a \in Key /\ c.b \in Key \union {<<>>}
       /\ c.op \in {"DelKeys", "Cp", "Cptree", "Cplist"} => c.b \in Key
       /\ IsValue(c.v) \/ (c.v = NoValue /\ c.op # "WriteNewPlace")

VARIABLES
  store,      \* live keys and their values
  listGen,    \* list_gen
  todo,       \* steps left of the call under way
  any,        \* Deltree has deleted a key
  rc,         \* result of the call
  call,       \* the call under way, or the last one
  was,        \* content of the store when it began
  owed,       \* the key set has changed since list_gen did
  calls,      \* number of calls left
  queries,    \* what the reader lists: prefix, ex, resolve
  lc,         \* the handle's list cache
  rd          \* the listing under way in that handle

writer == <<store, listGen, todo, any, rc, call, was, owed, calls>>
reader == <<queries, lc, rd>>
vars == <<writer, reader>>

NoCall  == [op |-> "none", a |-> <<>>, b |-> <<>>, v |-> NoValue]
NoCache == [prefix |-> <<>>]
Resting == [at |-> "rest"]

Init ==
  /\ \E c \in Scenarios : store = c.store /\ was = c.store /\ queries = c.queries /\ calls = c.calls
  /\ listGen = 0 /\ todo = <<>> /\ any = FALSE /\ rc = 0 /\ owed = FALSE
  /\ call = NoCall
  /\ lc = NoCache /\ rd = Resting

------------------------------------------------------------------------------
(* The steps of a call *)

Do(what, a, b) == [do |-> what, a |-> a, b |-> b, v |-> NoValue]
PutValue(k, v) == [Do("put", k, <<>>) EXCEPT !.v = v]
Put(src, dst)  == Do("cp", src, dst)
Bump           == Do("bump", <<>>, <<>>)

One(task)      == <<{task}>>

\* One task for each member of S; the order is the one of the scan, any will do.
Each(S, Task(_)) == IF S = {} THEN <<>> ELSE <<{Task(x) : x \in S}>>

\* Deltree: a link is deleted and not followed, with the entry of its directory;
\* else every key of the subtree, and one bump at the end.
DeltreeTodo(p) ==
  IF is_ptr_key(store, p) THEN One(Do("rm", p, <<>>))
  ELSE IF Base(p) \notin {<<>>, p} /\ is_ptr_key(store, Base(p))
    THEN One(Do("rm", Base(p), <<>>)) \o One(Do("rm2", p, <<>>))
  ELSE Each({k \in DOMAIN store : subtree_key(Base(p), k) /\ ~reserved_meta_path(k)},
            LAMBDA k : Do("del", k, <<>>))
       \o One(Do("bumpAny", <<>>, <<>>))

\* Cptree refuses to copy a tree into itself; a copy onto itself is done already.
Stem(p) == SubSeq(p, 1, Max({0} \union {i \in DOMAIN p : i = 1 \/ p[i] # Slash}))
CopyInto(src, dst) ==
  LET rest == After(dst, Len(Stem(src)))
  IN IF Stem(src) = Root /\ IsPrefix(Root, dst) THEN (IF dst = Root THEN "same" ELSE "refused")
     ELSE IF ~IsPrefix(Stem(src), dst) THEN "apart"
     ELSE IF rest \in {<<>>, Root} THEN "same"
     ELSE IF rest[1] \in {Slash, Dot} THEN "refused" ELSE "apart"

\* What a call has to do, or that it is refused.
Plan(tasks) == [rc |-> 0, todo |-> tasks]
Denied == [rc |-> 1, todo |-> <<>>]

kvspaceShmDeltree(p) ==
  IF reserved_meta_path(p) \/ reserved_meta_path(Base(p)) THEN Denied ELSE Plan(DeltreeTodo(p))

\* The copies delete their destination first.
kvspaceShmCptree(src, dst) ==
  IF reserved_meta_path(src) \/ reserved_meta_path(dst) \/ CopyInto(src, dst) = "refused"
    THEN Denied
  ELSE IF CopyInto(src, dst) = "same" THEN Plan(<<>>)
  ELSE Plan(DeltreeTodo(dst) \o One(Do("tree", src, dst)))

kvspaceShmCplist(src, dst) ==
  IF reserved_meta_path(src) \/ reserved_meta_path(dst) THEN Denied
  ELSE IF src = dst THEN Plan(<<>>)
  ELSE Plan(DeltreeTodo(dst) \o One(Do("list", src, dst)))

\* An index that is there, be it through a mount, stays.
kvspaceShmMkindex(path) ==
  IF kvspaceShmGet(store, edir(path), FALSE) # NoValue THEN Plan(<<>>)
  ELSE Plan(One(PutValue(edir(path), Inline(<<>>))))

\* Both must be directories, and ep must exist.
kvspaceShmExtindex(p, ep) ==
  IF bad_dir_prefix(p) \/ bad_dir_prefix(ep) \/ kvspaceShmGet(store, ep, FALSE) = NoValue
    THEN Denied
    ELSE Plan(One(PutValue(p, Ext(ep))))

\* Several keys at once: what kvspaceShmDel returns for each is ignored.
kvspaceDel(keys) == Plan([i \in 1 .. Len(keys) |-> {Do("rm2", keys[i], <<>>)}])

PlanOf(c) ==
  CASE c.op = "Set"           -> Plan(One(PutValue(c.a, c.v)))
    [] c.op = "WriteNewPlace" -> Plan(One([PutValue(c.a, c.v) EXCEPT !.do = "raw"]))
    [] c.op = "Del"           -> Plan(One(Do("rm", c.a, <<>>)))
    [] c.op = "DelKeys"       -> kvspaceDel(<<c.a, c.b>>)
    [] c.op = "Deltree"       -> kvspaceShmDeltree(c.a)
    [] c.op = "Cp"            -> Plan(One(Put(c.a, c.b)))
    [] c.op = "Cptree"        -> kvspaceShmCptree(c.a, c.b)
    [] c.op = "Cplist"        -> kvspaceShmCplist(c.a, c.b)
    [] c.op = "Mkindex"       -> kvspaceShmMkindex(c.a)
    [] c.op = "Extindex"      -> kvspaceShmExtindex(c.a, c.b)

\* A call through the ABI, which passes the arguments and the result on.
Begin(c) ==
  /\ todo = <<>> /\ calls > 0
  /\ \E plan \in {PlanOf(c)} : todo' = plan.todo /\ rc' = plan.rc
  /\ call' = c /\ calls' = calls - 1 /\ was' = store /\ any' = FALSE
  /\ UNCHANGED <<store, listGen, owed, reader>>

Now == CHOOSE task \in Head(todo) : TRUE
At(what) == todo # <<>> /\ Now.do = what
Left == IF Head(todo) = {Now} THEN Tail(todo) ELSE [todo EXCEPT ![1] = @ \ {Now}]
Then(next) == todo' = next \o Left
SameCall == UNCHANGED <<call, was, calls, reader>>

\* One failure in a call is enough.
MayFail == IF rc = 0 THEN Failures ELSE {FALSE}

\* The call fails and returns; keys already changed stay so.
Fail == todo' = <<>> /\ rc' = 1 /\ UNCHANGED <<store, listGen, any, owed>>

\* shm_set_local: a new key is linked into the index and then bumps list_gen; a
\* new value of a live key does not.
Insert(k, v) ==
  /\ store' = [j \in DOMAIN store \union {k} |-> IF j = k THEN v ELSE store[j]]
  /\ Then(IF k \in DOMAIN store THEN <<>> ELSE One(Bump))
  /\ owed' = (owed \/ k \notin DOMAIN store)
  /\ UNCHANGED listGen

\* Broken variant: nothing is checked.
Invalid_never(v) == FALSE

\* value_ok, and in kvspaceShmCp the test that src has a value.
Invalid(v) == v = NoValue

\* shm_set_validated: a key that is visible through its directory's external
\* index is not given a local value, except an operand that becomes a pointer.
Refused(k, v) ==
  \/ DoubleSlash(k) \/ reserved_meta_path(k)
  \/ /\ k \notin DOMAIN store
     /\ Value(store, ExtKey(store, k)) # NoValue
     /\ ~(k \in FrameSlot /\ v.ref = "ptr")

kvspaceShmSet(k, v) ==
  \E fails \in MayFail :
    IF fails \/ Invalid(v) \/ Refused(k, v) THEN Fail
    ELSE Insert(k, v) /\ UNCHANGED <<any, rc>>

set_value == At("put") /\ SameCall /\ kvspaceShmSet(Now.a, Now.v)

\* The value is read, copied and set.
kvspaceShmCp ==
  At("cp") /\ SameCall /\ kvspaceShmSet(Now.b, kvspaceShmGet(store, Now.a, FALSE))

\* kvspaceShmWriteNewPlace sets the key without looking at external indexes.
kvspaceShmWriteNewPlace ==
  /\ At("raw") /\ SameCall
  /\ \E fails \in MayFail :
       IF fails \/ DoubleSlash(Now.a) \/ reserved_meta_path(Now.a) THEN Fail
       ELSE Insert(Now.a, Now.v) /\ UNCHANGED <<any, rc>>

Without(k) == [j \in DOMAIN store \ {k} |-> store[j]]

\* One key of a Deltree; a failure is remembered and the others are deleted.
shm_del_key ==
  /\ At("del") /\ SameCall
  /\ Then(<<>>)
  /\ \E fails \in MayFail :
       IF fails
         THEN rc' = 1 /\ UNCHANGED <<store, any>>
         ELSE store' = Without(Now.a) /\ any' = (any \/ Now.a \in DOMAIN store) /\ UNCHANGED rc
  /\ owed' = (owed \/ DOMAIN store' # DOMAIN store)
  /\ UNCHANGED listGen

\* Of a link's two keys the result of the first is returned, of several keys none.
kvspaceShmDel ==
  /\ (At("rm") \/ At("rm2")) /\ SameCall
  /\ \E fails \in MayFail :
       IF fails \/ Now.a \notin DOMAIN store
         THEN /\ Then(<<>>)
              /\ rc' = IF Now.do = "rm" THEN 1 ELSE rc
              /\ UNCHANGED store
         ELSE Then(One(Bump)) /\ store' = Without(Now.a) /\ UNCHANGED rc
  /\ owed' = (owed \/ DOMAIN store' # DOMAIN store)
  /\ UNCHANGED <<listGen, any>>

list_gen_bump ==
  /\ (At("bump") \/ At("bumpAny")) /\ SameCall
  /\ Then(<<>>)
  /\ IF Now.do = "bump" \/ any
       THEN listGen' = listGen + 1 /\ owed' = FALSE
       ELSE UNCHANGED <<listGen, owed>>
  /\ UNCHANGED <<store, any, rc>>

\* cptree_rec lists the directory of src, through a link if it is one, and
\* copies every child of that name below src.
ChildTasks(src, dst) ==
  Each(kvspaceShmList(store, edir(src), FALSE, TRUE),
       LAMBDA n : Do("tree", pjoin(edir(src), n), pjoin(edir(dst), n)))

\* Broken variant: members are forgotten.
MemberTasks_none(src, dst) == <<>>

\* Then it does the same for the members.
MemberTasks(src, dst) ==
  Each(kvspaceShmList(store, memdir(src), FALSE, TRUE),
       LAMBDA n : Do("tree", memdir(src) \o n, memdir(dst) \o n))

\* Cplist copies the values of the members and goes no deeper.
MemberPuts(src, dst) ==
  Each(kvspaceShmList(store, memdir(src), FALSE, TRUE),
       LAMBDA n : Put(memdir(src) \o n, memdir(dst) \o n))

\* The value of src, if it has one, is copied first; what Deltree returned for
\* the destination is ignored.
PutIfValue(src, dst) ==
  IF kvspaceShmGet(store, src, FALSE) = NoValue THEN <<>> ELSE One(Put(src, dst))

cptree_rec ==
  /\ SameCall /\ UNCHANGED <<store, listGen, any, owed>>
  /\ \/ At("tree") /\ Then(PutIfValue(Now.a, Now.b) \o One(Do("kids", Now.a, Now.b))
                           \o One(Do("members", Now.a, Now.b))) /\ rc' = 0
     \/ At("kids") /\ Then(ChildTasks(Now.a, Now.b)) /\ UNCHANGED rc
     \/ At("members") /\ Then(MemberTasks(Now.a, Now.b)) /\ UNCHANGED rc

cplist_members ==
  /\ SameCall /\ UNCHANGED <<store, listGen, any, owed>>
  /\ \/ At("list") /\ Then(PutIfValue(Now.a, Now.b) \o One(Do("values", Now.a, Now.b))) /\ rc' = 0
     \/ At("values") /\ Then(MemberPuts(Now.a, Now.b)) /\ UNCHANGED rc

\* The writing process dies; another one writes from now on.
Crash ==
  /\ Crashes /\ todo # <<>>
  /\ todo' = <<>> /\ rc' = 1
  /\ UNCHANGED <<store, listGen, any, call, was, owed, calls, reader>>

------------------------------------------------------------------------------
(* The list cache *)

\* Broken variant: the generation is taken when the names are stored.
FillGen_late(r) == listGen

\* The generation the names are stored under: the one loaded at the start.
FillGen(r) == r.gen

\* list_cached: list_gen is loaded first.
lc_load(q) ==
  /\ rd = Resting
  /\ rd' = [at |-> "target", q |-> q, gen |-> listGen]
  /\ UNCHANGED <<writer, queries, lc>>

\* list_target: links are followed; a reserved path empties the cache.
lc_target ==
  /\ rd.at = "target"
  /\ \E t \in {Target(store, rd.q.prefix, rd.q.resolve)} :
       LET code == TargetRc(rd.q.prefix, t)
       IN /\ rd' = IF code = 0 THEN [at |-> "ext", q |-> rd.q, gen |-> rd.gen, target |-> t]
                   ELSE Resting
          /\ lc' = IF code = 1 THEN NoCache ELSE lc
  /\ UNCHANGED <<writer, queries>>

Hit(g, q, target, ext) ==
  /\ lc # NoCache
  /\ lc.gen = g /\ lc.ex = q.ex /\ lc.resolve = q.resolve
  /\ lc.prefix = q.prefix /\ lc.target = target /\ lc.ext = ext

\* The mount is looked up and the cache compared; a miss drops it.
lc_compare ==
  /\ rd.at = "ext"
  /\ \E e \in {TargetExt(store, rd.target, rd.q.ex)} :
       IF Hit(rd.gen, rd.q, rd.target, e)
         THEN rd' = Resting /\ UNCHANGED lc
         ELSE /\ rd' = [at |-> "scan", q |-> rd.q, gen |-> rd.gen, target |-> rd.target,
                        ext |-> e, names |-> {}, visit |-> 1]
              /\ lc' = NoCache
  /\ UNCHANGED <<writer, queries>>

\* list_scan: the children of the target, then those of the mount.
lc_scan ==
  /\ rd.at \in {"scan", "extscan"}
  /\ LET p == IF rd.at = "scan" THEN rd.target ELSE rd.ext
         more == rd.names \union art_scan_pfx(store, p, Letters[rd.visit])
     IN rd' = IF rd.visit < Len(Letters)
                THEN [rd EXCEPT !.names = more, !.visit = @ + 1]
              ELSE IF rd.at = "scan" /\ rd.ext # <<>>
                THEN [rd EXCEPT !.names = more, !.visit = 1, !.at = "extscan"]
                ELSE [rd EXCEPT !.names = more, !.at = "fill"]
  /\ UNCHANGED <<writer, queries, lc>>

lc_fill ==
  /\ rd.at = "fill"
  /\ lc' = [prefix |-> rd.q.prefix, ex |-> rd.q.ex, resolve |-> rd.q.resolve,
            target |-> rd.target, ext |-> rd.ext, gen |-> FillGen(rd),
            names |-> Present(rd.target, rd.names)]
  /\ rd' = Resting
  /\ UNCHANGED <<writer, queries>>

Next ==
  \/ \E c \in Calls : Begin(c)
  \/ set_value \/ kvspaceShmCp \/ kvspaceShmWriteNewPlace \/ shm_del_key \/ kvspaceShmDel \/ list_gen_bump
  \/ cptree_rec \/ cplist_members \/ Crash
  \/ \E q \in queries : lc_load(q)
  \/ lc_target \/ lc_compare \/ lc_scan \/ lc_fill

Spec == Init /\ [][Next]_vars

------------------------------------------------------------------------------
(* Correctness *)

Idle == todo = <<>>
Seps == {Slash, Dot, Run}

\* Keys of the tree of p, by the definition of kvspace_shm.h.
InTree(p, k) ==
  LET b == Base(p)
  IN IsPrefix(b, k) /\ (b = <<>> \/ k = b \/ k[Len(b) + 1] \in Seps)

\* Deltree deletes a link only.
LinkAt(s, p) == is_ptr_key(s, p) \/ is_ptr_key(s, Base(p))

\* The keys a call may change.
InScope(c, k) ==
  CASE c.op \in {"Set", "WriteNewPlace", "Del", "Extindex"} -> k = c.a
    [] c.op = "DelKeys" -> k \in {c.a, c.b}
    [] c.op = "Cp" -> k = c.b
    [] c.op = "Mkindex" -> k = edir(c.a)
    [] c.op = "Deltree" -> IF is_ptr_key(was, c.a) THEN k = c.a
                          ELSE IF LinkAt(was, c.a) THEN k \in {c.a, Base(c.a)}
                          ELSE InTree(c.a, k)
    [] c.op \in {"Cptree", "Cplist"} -> InTree(c.b, k)
    [] OTHER -> FALSE

\* Every variable has its type; no step, whichever call it is part of, stores a
\* value that value_ok refuses or under a key that is no absolute path.
TypeOK ==
  /\ listGen \in Nat /\ rc \in {0, 1} /\ any \in BOOLEAN /\ owed \in BOOLEAN /\ calls \in Nat
  /\ call \in Calls \union {NoCall}
  /\ DOMAIN store \subseteq Key /\ \A k \in DOMAIN store : IsValue(store[k])
  /\ \A i \in DOMAIN todo : \A task \in todo[i] :
       task.do \in {"put", "cp", "raw", "del", "rm", "rm2", "bump", "bumpAny",
                   "tree", "kids", "members", "list", "values"}
  /\ rd.at \in {"rest", "target", "ext", "scan", "extscan", "fill"}

\* The cache, if the next listing is answered from it, holds what a fresh scan
\* would find.
HitIsFresh ==
  lc # NoCache =>
    LET target == Target(store, lc.prefix, lc.resolve)
        ext == TargetExt(store, target, lc.ex)
    IN lc.gen = listGen /\ lc.target = target /\ lc.ext = ext =>
         lc.names = list_scan(store, target, ext)

\* Whatever the writer changes while the cache is filled (keys, links, mounts),
\* a hit is fresh unless a change of the key set still owes its bump of list_gen;
\* a death in between is made good by the next such change.
CacheCurrent == ~owed => HitIsFresh

\* A call changes no key outside of what it names, also when it fails half way:
\* Deltree spares siblings whose names begin alike and the targets of links.
OutsideKept ==
  \A k \in DOMAIN store \union DOMAIN was :
    Value(store, k) # Value(was, k) => InScope(call, k)

\* A Deltree that succeeds leaves no key of the tree, members and hidden runtime
\* keys included; of a link it leaves nothing but what is below.
TreeGone ==
  Idle /\ call.op = "Deltree" /\ rc = 0 =>
    \A k \in DOMAIN store :
      IF LinkAt(was, call.a)
        THEN k # (IF is_ptr_key(was, call.a) THEN call.a ELSE Base(call.a))
        ELSE ~InTree(call.a, k) \/ reserved_meta_path(k)

\* A copy that was made: not refused and not onto itself.
Copied(op) ==
  /\ Idle /\ call.op = op /\ rc = 0 /\ call.a # call.b
  /\ op = "Cptree" => CopyInto(call.a, call.b) = "apart"

\* The key of the source that a key of the destination is the copy of.
Source(k) ==
  IF IsPrefix(edir(call.b), k) THEN edir(call.a) \o After(k, Len(edir(call.b)))
  ELSE call.a \o After(k, Len(call.b))

\* What a copy puts below its destination are values that the source showed at
\* the same places before; old keys stay only below a link that was replaced,
\* or where a deletion failed.
CopySound ==
  \A op \in {"Cptree", "Cplist"} : Copied(op) =>
    \A k \in {k \in DOMAIN store : InTree(call.b, k)} :
      \/ store[k] = kvspaceShmGet(was, Source(k), FALSE)
      \/ /\ LinkAt(was, call.b) \/ TRUE \in Failures
         /\ store[k] = Value(was, k)

\* Keys that a listing can reach: no runtime keys, no separators side by side.
Plain(k) ==
  /\ Run \notin ToSet(k)
  /\ \A i \in 1 .. Len(k) - 1 : ~(k[i] \in Seps /\ k[i + 1] \in Seps)
Links(s, p) == \E k \in DOMAIN s : InTree(p, k) /\ is_ptr_key(s, k) /\ EndsIn(k, Slash)

\* The keys below src that have to be copied, its own directory entry apart.
ToCopy == {k \in DOMAIN was : InTree(call.a, k) /\ Plain(k) /\ k # edir(call.a)}

Copy(k) ==
  IF IsPrefix(edir(call.a), k) THEN edir(call.b) \o After(k, Len(edir(call.a)))
  ELSE call.b \o After(k, Len(call.a))

\* Cptree copies the values and the physical children of the source.
CopyExact ==
  Copied("Cptree") /\ ~Links(was, call.a) =>
    \A k \in ToCopy : Value(store, Copy(k)) = was[k]

\* A child with an entry of its own, `b/', and a value `b' or members as well.
TwoFaced(s, p) ==
  \E k \in DOMAIN s : InTree(p, k) /\ EndsIn(k, Slash) /\ k # edir(p)
     /\ \E j \in DOMAIN s : j = Front(k) \/ IsPrefix(Append(Front(k), Dot), j)

\* It does so if no child has two faces and the source is not below the
\* destination, which is deleted first.
CopyComplete == TwoFaced(was, call.a) \/ InTree(call.b, call.a) \/ CopyExact

\* A copy that returns success is the source, value by value and member by member,
\* and nothing else, whatever links, mounts and old keys it met on either side.
CopyFaithful == CopySound /\ CopyComplete

\* Directories and names that occur in the store.
DirsIn(s)  == {psplit(k).parent : k \in DOMAIN s} \union {k \in DOMAIN s : EndsIn(k, Slash)}
NamesIn(s) == {psplit(k).name : k \in DOMAIN s} \ {<<>>}
Below(s, k) == \E j \in DOMAIN s : IsStrictPrefix(k, j) /\ j[Len(k) + 1] \in {Slash, Dot}

\* Listing and reading agree, external indexes included: a listed name can be
\* read or has keys below it, and a name that can be read is listed.
ListAgreesWithGet ==
  Idle => \A dir \in DirsIn(store) :
    LET listed == kvspaceShmList(store, dir, TRUE, FALSE)
        ext == dir_ext_path(store, dir)
        Readable(n) == kvspaceShmGet(store, dir \o n, FALSE) # NoValue
    IN \A n \in listed \union {n \in NamesIn(store) : Dot \notin ToSet(n) /\ Run \notin ToSet(n)} :
         /\ n \in listed => \/ Readable(n) \/ Below(store, dir \o n)
                            \/ (ext # <<>> /\ (Below(store, ext \o n) \/ EndsIn(n, Slash)))
         /\ Readable(n) => n \in listed \/ Append(n, Slash) \in listed
==============================================================================
