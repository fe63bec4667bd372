------------------------------ MODULE KeysProofs ------------------------------
(***************************************************************************)
(* Safety of the calls on keys and of the list cache, for any content of   *)
(* the store, any calls, failures and deaths: TypeOK, CacheCurrent,        *)
(* OutsideKept and TreeGone hold in every behaviour of Keys.               *)
(*                                                                         *)
(* The argument for the cache.  A change of the key set raises `owed',     *)
(* which only a bump of list_gen lowers.  So as long as nothing is owed    *)
(* and list_gen is what the handle loaded first, the key set is still the  *)
(* one that every group of children was scanned in; and after a bump       *)
(* whatever the handle holds is older than list_gen.                       *)
(*                                                                         *)
(* The argument for the calls.  Every task left of a call is within the    *)
(* scope of the call, also the tasks of a recursion: what lies below a     *)
(* place within the destination does so too.  And a Deltree that has not   *)
(* failed still has a task for every key of the tree that is left.         *)
(***************************************************************************)
EXTENDS Keys, WellFoundedInduction, TLAPS

Dos == {"put", "cp", "raw", "del", "rm", "rm2", "bump", "bumpAny",
        "tree", "kids", "members", "list", "values"}

Path    == Key \union {<<>>}
TaskVal == {c.v : c \in Calls} \union {Ext(c.b) : c \in Calls} \union {NoValue, Inline(<<>>)}
Task    == [do : Dos, a : Path, b : Path, v : TaskVal]
Stage   == (SUBSET Task) \ {{}}

Tasks(q) == UNION {q[i] : i \in DOMAIN q}

Types ==
  /\ listGen \in Nat /\ rc \in {0, 1} /\ any \in BOOLEAN /\ owed \in BOOLEAN /\ calls \in Nat
  /\ call \in Calls \union {NoCall}
  /\ DOMAIN store \subseteq Key /\ DOMAIN was \subseteq Key
  /\ \A k \in DOMAIN store : IsValue(store[k])
  /\ todo \in Seq(Stage)

------------------------------------------------------------------------------
(* The list cache *)

\* The names that the first n groups of the scan of p find in the keys there are.
Upto(p, n) == UNION {art_scan_pfx(store, p, Letters[i]) : i \in 1 .. n}

Fresh(p, ext) ==
  Upto(p, Len(Letters)) \union (IF ext = <<>> THEN {} ELSE Upto(ext, Len(Letters)))

Current(gen) == ~owed /\ gen = listGen

\* What a filled cache holds.
LcInv ==
  lc # NoCache =>
    /\ lc.gen \in Nat /\ lc.gen <= listGen
    /\ Current(lc.gen) => lc.names = Present(lc.target, Fresh(lc.target, lc.ext))

Scanning == rd.at \in {"scan", "extscan", "fill"}

\* What a listing under way has found so far.
RdInv ==
  /\ rd.at \in {"rest", "target", "ext", "scan", "extscan", "fill"}
  /\ rd.at # "rest" => rd.gen \in Nat /\ rd.gen <= listGen
  /\ Scanning => rd = [at |-> rd.at, q |-> rd.q, gen |-> rd.gen, target |-> rd.target,
                       ext |-> rd.ext, names |-> rd.names, visit |-> rd.visit]
  /\ rd.at \in {"scan", "extscan"} => rd.visit \in 1 .. Len(Letters)
  /\ rd.at = "extscan" => rd.ext # <<>>
  /\ rd.at = "scan" /\ Current(rd.gen) => rd.names = Upto(rd.target, rd.visit - 1)
  /\ rd.at = "extscan" /\ Current(rd.gen) =>
       rd.names = Upto(rd.target, Len(Letters)) \union Upto(rd.ext, rd.visit - 1)
  /\ rd.at = "fill" /\ Current(rd.gen) => rd.names = Fresh(rd.target, rd.ext)

CacheInv == LcInv /\ RdInv

------------------------------------------------------------------------------
(* The calls *)

\* A place from which a copy goes on: p, or a place that a separator leads to.
Room(p, d) == InTree(p, d) /\ (d = Base(p) => d = p)

\* What a task may touch.
TaskOK(t) ==
  /\ t.do \in {"put", "raw"} => t.a \in Key /\ InScope(call, t.a)
  /\ t.do = "put" => t.v = NoValue \/ IsValue(t.v)
  /\ t.do = "raw" => IsValue(t.v)
  /\ t.do \in {"del", "rm", "rm2"} => InScope(call, t.a)
  /\ t.do = "cp" => t.b \in Key /\ InScope(call, t.b)
  /\ t.do \in {"tree", "kids", "members", "list", "values"} =>
       /\ t.a \in Key /\ t.b \in Key /\ Room(call.b, t.b)
       /\ call.op \in {"Cptree", "Cplist"}
  /\ call.op = "Deltree" => t.do \in {"del", "rm", "rm2", "bump", "bumpAny"}

ScopeInv == (\A t \in Tasks(todo) : TaskOK(t)) /\ OutsideKept

\* The key that a Deltree of a link deletes.
LinkKey == IF is_ptr_key(was, call.a) THEN call.a ELSE Base(call.a)

\* The keys that a Deltree has to delete.
Doomed(k) == InTree(call.a, k) /\ ~reserved_meta_path(k)

GoneInv ==
  call.op = "Deltree" /\ rc = 0 =>
    IF LinkAt(was, call.a)
      THEN LinkKey \in DOMAIN store => Do("rm", LinkKey, <<>>) \in Tasks(todo)
      ELSE \A k \in DOMAIN store : Doomed(k) => Do("del", k, <<>>) \in Tasks(todo)

IInv == Types /\ CacheInv /\ ScopeInv /\ GoneInv

------------------------------------------------------------------------------
(* Keys, names and scans *)

\* Every nonempty set of naturals has a least element: child_name_len stops at
\* the first separator.
LEMMA Least ==
  ASSUME NEW T, T \subseteq Nat, T # {}
  PROVE  \E m \in T : \A j \in T : m <= j
<1>1. IsWellFoundedOn(OpToRel(<, Nat), Nat)
  BY NatLessThanWellFounded, Zenon
<1>2. PICK m \in T : \A j \in T : ~(<<j, m>> \in OpToRel(<, Nat))
  BY <1>1, WFMin, Zenon
<1>3. ASSUME NEW j \in T PROVE ~(j < m)
  <2>1. j \in Nat /\ m \in Nat
    OBVIOUS
  <2> QED BY <2>1, <1>2, Zenon DEF OpToRel
<1> QED BY <1>3

\* There is a letter.
LEMMA LenLetters == Len(Letters) \in Nat \ {0}
BY KeysAssumption

\* A token is a slash, a dot, a run or a letter.
LEMMA Alphabet ==
  /\ Slash \in Token /\ Dot \in Token /\ Run \in Token
  /\ Slash # Dot /\ Slash # Run /\ Dot # Run
  /\ \A x \in Token : x \in {Slash, Dot, Run} \/ \E i \in 1 .. Len(Letters) : x \in Letters[i]
BY KeysAssumption DEF Token, Slash, Dot, Run, ToSet

\* A key is a sequence that begins with a slash.
LEMMA KeyIsSeq == \A k \in Key : k \in Seq(Token) /\ k # <<>> /\ k[1] = Slash /\ Len(k) > 0
BY DEF Key

\* What follows a proper prefix of a key.
LEMMA RestOf ==
  ASSUME NEW k \in Seq(Token), NEW p \in Prefixes(k) \ {k}
  PROVE  /\ Len(p) \in Nat /\ Len(p) < Len(k)
         /\ After(k, Len(p)) \in Seq(Token)
         /\ Len(After(k, Len(p))) = Len(k) - Len(p)
         /\ After(k, Len(p))[1] = k[Len(p) + 1]
<1>1. PICK l \in 0 .. Len(k) : p = SubSeq(k, 1, l)
  BY DEF Prefixes
<1>2. Len(p) = l
  BY <1>1
<1>3. l # Len(k)
  <2> SUFFICES ASSUME l = Len(k) PROVE FALSE
    OBVIOUS
  <2>1. SubSeq(k, 1, Len(k)) = k
    OBVIOUS
  <2> QED BY <1>1, <2>1
<1> QED BY <1>2, <1>3 DEF After

\* The name of a child begins where the directory ends, and with a letter.
LEMMA ChildNameType ==
  ASSUME NEW k \in Seq(Token), NEW p \in Prefixes(k) \ {k}
  PROVE  LET c == ChildName(p, k)
         IN /\ c \in Seq(Token)
            /\ c # <<>> => /\ c[1] = k[Len(p) + 1] /\ Len(p) + 1 \in DOMAIN k
                           /\ c[1] \notin {Slash, Dot}
<1> DEFINE rest == After(k, Len(p))
           sep == {i \in DOMAIN rest : rest[i] \in {Slash, Dot}}
           least == CHOOSE i \in sep : \A j \in sep : i <= j
           n == IF sep = {} THEN Len(rest) ELSE least - 1
<1>1. /\ Len(p) \in Nat /\ Len(p) < Len(k) /\ rest \in Seq(Token)
      /\ Len(rest) = Len(k) - Len(p) /\ rest[1] = k[Len(p) + 1]
  BY RestOf
<1>2. Len(p) + 1 \in DOMAIN k /\ Len(rest) \in Nat \ {0} /\ DOMAIN rest = 1 .. Len(rest)
  BY <1>1
<1> HIDE DEF rest
<1>3. sep # {} => least \in sep /\ \A j \in sep : least <= j
  <2>1. sep \subseteq Nat
    BY <1>2
  <2>2. sep # {} => \E i \in sep : \A j \in sep : i <= j
    BY <2>1, Least, Zenon
  <2> QED BY <2>2
<1>4. n \in 0 .. Len(rest) /\ (n > 0 => rest[1] \notin {Slash, Dot})
  <2>1. CASE sep = {}
    BY <2>1, <1>2
  <2>2. CASE sep # {}
    BY <2>2, <1>2, <1>3
  <2> QED BY <2>1, <2>2
<1>5. ChildName(p, k) = IF n > 0 /\ n + 1 = Len(rest) /\ rest[n + 1] = Slash THEN rest
                        ELSE SubSeq(rest, 1, n)
  BY DEF ChildName, rest
<1> HIDE DEF n
<1>6. CASE ChildName(p, k) = rest /\ n > 0
  BY <1>6, <1>1, <1>2, <1>4
<1>7. CASE ChildName(p, k) = SubSeq(rest, 1, n)
  <2>1. ChildName(p, k) \in Seq(Token)
    BY <1>7, <1>1, <1>2, <1>4
  <2>2. ChildName(p, k) # <<>> => n > 0
    BY <1>7, <1>1, <1>2, <1>4
  <2>3. n > 0 => ChildName(p, k)[1] = rest[1]
    BY <1>7, <1>1, <1>2, <1>4
  <2> QED BY <2>1, <2>2, <2>3, <1>1, <1>2, <1>4
<1> QED BY <1>5, <1>6, <1>7

\* What a scan finds in a store of keys: names that begin with a letter, which
\* is a letter of some key.
LEMMA ScanNames ==
  ASSUME NEW s, DOMAIN s \subseteq Key, NEW p, NEW L, NEW c \in art_scan_pfx(s, p, L)
  PROVE  /\ c \in Seq(Token) /\ c # <<>> /\ c[1] \in L
         /\ c[1] \in AnyLetter(s) /\ c[1] \notin {Slash, Dot} /\ c[1] \in Token
<1>1. PICK k \in DOMAIN s : p \in Prefixes(k) \ {k} /\ c = ChildName(p, k)
  BY DEF art_scan_pfx
<1>2. c # <<>> /\ c[1] \in L
  BY DEF art_scan_pfx
<1>3. k \in Seq(Token)
  BY KeyIsSeq
<1>4. c \in Seq(Token) /\ c[1] = k[Len(p) + 1] /\ Len(p) + 1 \in DOMAIN k /\ c[1] \notin {Slash, Dot}
  BY <1>1, <1>2, <1>3, ChildNameType
<1>5. k[Len(p) + 1] \in AnyLetter(s)
  BY <1>4 DEF AnyLetter, ToSet
<1>6. c[1] \in Token
  BY <1>3, <1>4
<1> QED BY <1>2, <1>4, <1>5, <1>6

\* Names that begin with U+2025 are hidden: a listing shows the same with them
\* and without.
LEMMA PresentSame ==
  ASSUME NEW p, NEW A, NEW B, A \subseteq B,
         \A c \in B : c \in Seq(Token) /\ c # <<>>,
         \A c \in B \ A : c[1] = Run
  PROVE  Present(p, A) = Present(p, B)
<1>1. \A c \in B : c[1] = Run => Hidden(p, c)
  BY DEF Hidden, ToSet
<1>2. \A n \in B : Append(n, Slash) \in B \ A => Hidden(p, Append(n, Slash))
  BY <1>1
<1>3. \A n \in B : n \notin A => Hidden(p, n)
  BY <1>1
<1> QED BY <1>2, <1>3 DEF Present

\* All groups of a scan find what a scan of all letters finds, hidden names apart.
LEMMA GroupsCover ==
  ASSUME NEW p, DOMAIN store \subseteq Key
  PROVE  /\ Upto(p, Len(Letters)) \subseteq art_scan_pfx(store, p, AnyLetter(store))
         /\ \A c \in art_scan_pfx(store, p, AnyLetter(store)) :
              /\ c \in Seq(Token) /\ c # <<>>
              /\ c \notin Upto(p, Len(Letters)) => c[1] = Run
<1>1. ASSUME NEW c \in Upto(p, Len(Letters))
      PROVE  c \in art_scan_pfx(store, p, AnyLetter(store))
  <2>1. PICK i \in 1 .. Len(Letters) : c \in art_scan_pfx(store, p, Letters[i])
    BY DEF Upto
  <2>2. c[1] \in AnyLetter(store)
    BY <2>1, ScanNames
  <2> QED BY <2>1, <2>2 DEF art_scan_pfx
<1>2. ASSUME NEW c \in art_scan_pfx(store, p, AnyLetter(store)), c[1] # Run
      PROVE  c \in Upto(p, Len(Letters))
  <2>1. c[1] \in Token /\ c[1] \notin {Slash, Dot}
    BY ScanNames
  <2>2. PICK i \in 1 .. Len(Letters) : c[1] \in Letters[i]
    BY <2>1, <1>2, Alphabet
  <2>3. c \in art_scan_pfx(store, p, Letters[i])
    BY <2>2 DEF art_scan_pfx
  <2> QED BY <2>3 DEF Upto
<1>3. \A c \in art_scan_pfx(store, p, AnyLetter(store)) : c \in Seq(Token) /\ c # <<>>
  BY ScanNames
<1> QED BY <1>1, <1>2, <1>3

\* list_scan shows what the groups found, whichever order they came in.
LEMMA FreshIsScan ==
  ASSUME NEW p, NEW ext, DOMAIN store \subseteq Key
  PROVE  Present(p, Fresh(p, ext)) = list_scan(store, p, ext)
<1> DEFINE all(x) == art_scan_pfx(store, x, AnyLetter(store))
           B == all(p) \union (IF ext = <<>> THEN {} ELSE all(ext))
<1>1. Fresh(p, ext) \subseteq B
  BY GroupsCover DEF Fresh
<1>2. \A c \in B : c \in Seq(Token) /\ c # <<>>
  BY GroupsCover
<1>3. \A c \in B \ Fresh(p, ext) : c[1] = Run
  BY GroupsCover DEF Fresh
<1>4. list_scan(store, p, ext) = Present(p, B)
  BY DEF list_scan
<1> HIDE DEF B
<1> QED BY <1>1, <1>2, <1>3, <1>4, PresentSame

\* A listed name is a name.
LEMMA ListNames ==
  ASSUME DOMAIN store \subseteq Key, NEW prefix, NEW ex, NEW resolve,
         NEW n \in kvspaceShmList(store, prefix, ex, resolve)
  PROVE  n \in Seq(Token) /\ n # <<>> /\ n[1] \notin {Slash, Dot}
<1>1. PICK p, ext : n \in list_scan(store, p, ext)
  BY DEF kvspaceShmList
<1>2. \E x : n \in art_scan_pfx(store, x, AnyLetter(store))
  BY <1>1, Zenon DEF list_scan, Present
<1> QED BY <1>2, ScanNames

------------------------------------------------------------------------------
(* The list cache beside a writer *)

\* What a scan finds depends on the key set only.
LEMMA SameScan ==
  ASSUME DOMAIN store' = DOMAIN store
  PROVE  /\ \A p, n : Upto(p, n)' = Upto(p, n)
         /\ \A p, e : Fresh(p, e)' = Fresh(p, e)
<1>1. \A p, L : art_scan_pfx(store', p, L) = art_scan_pfx(store, p, L)
  BY DEF art_scan_pfx
<1>2. \A p, n : Upto(p, n)' = Upto(p, n)
  BY <1>1 DEF Upto
<1> QED BY <1>2 DEF Fresh

\* The writer leaves list_gen alone and owes a bump if it changes the key set.
Quiet ==
  /\ listGen' = listGen /\ UNCHANGED <<lc, rd>>
  /\ owed' \/ (~owed /\ DOMAIN store' = DOMAIN store)

\* A step that adds or removes no key, or owes a bump of list_gen, keeps the cache right.
LEMMA QuietCache ==
  ASSUME Types, CacheInv, Quiet
  PROVE  CacheInv'
<1>1. \A gen : Current(gen)' => Current(gen) /\ DOMAIN store' = DOMAIN store
  BY DEF Current, Quiet
<1>2. CASE DOMAIN store' = DOMAIN store
  <2>1. /\ \A p, n : Upto(p, n)' = Upto(p, n)
        /\ \A p, e : Fresh(p, e)' = Fresh(p, e)
    BY <1>2, SameScan
  <2>2. LcInv'
    BY <1>1, <2>1 DEF CacheInv, LcInv, Quiet
  <2>3. RdInv'
    BY <1>1, <2>1 DEF CacheInv, RdInv, Quiet, Scanning
  <2> QED BY <2>2, <2>3 DEF CacheInv
<1>3. CASE DOMAIN store' # DOMAIN store
  <2>1. \A gen : ~Current(gen)'
    BY <1>1, <1>3
  <2>2. LcInv'
    BY <2>1 DEF CacheInv, LcInv, Quiet
  <2>3. RdInv'
    BY <2>1 DEF CacheInv, RdInv, Quiet, Scanning
  <2> QED BY <2>2, <2>3 DEF CacheInv
<1> QED BY <1>2, <1>3

\* After a bump everything that the handle has loaded is old.
LEMMA BumpCache ==
  ASSUME Types, CacheInv, listGen' = listGen + 1, UNCHANGED <<lc, rd>>
  PROVE  CacheInv'
<1>1. \A gen \in Nat : gen <= listGen => ~Current(gen)' /\ gen <= listGen'
  BY DEF Types, Current
<1>2. LcInv'
  BY <1>1 DEF CacheInv, LcInv
<1>3. RdInv'
  BY <1>1 DEF CacheInv, RdInv, Scanning
<1> QED BY <1>2, <1>3 DEF CacheInv

\* The steps of list_cached.
LEMMA ReaderStep ==
  ASSUME Types, CacheInv,
         (\E q \in queries : lc_load(q)) \/ lc_target \/ lc_compare \/ lc_scan \/ lc_fill
  PROVE  CacheInv'
<1>0. UNCHANGED <<store, listGen, owed>>
  BY DEF lc_load, lc_target, lc_compare, lc_scan, lc_fill, writer
<1>1. /\ \A p, n : Upto(p, n)' = Upto(p, n)
      /\ \A p, e : Fresh(p, e)' = Fresh(p, e)
      /\ \A gen : Current(gen)' = Current(gen)
  BY <1>0, SameScan DEF Current
<1>2. CASE \E q \in queries : lc_load(q)
  <2>1. LcInv'
    BY <1>0, <1>1, <1>2 DEF lc_load, CacheInv, LcInv
  <2>2. RdInv'
    BY <1>0, <1>1, <1>2 DEF lc_load, RdInv, Types, Scanning
  <2> QED BY <2>1, <2>2 DEF CacheInv
<1>3. CASE lc_target
  <2>1. LcInv'
    BY <1>0, <1>1, <1>3 DEF lc_target, CacheInv, LcInv
  <2>2. RdInv'
    BY <1>0, <1>1, <1>3 DEF lc_target, CacheInv, RdInv, Resting, Scanning
  <2> QED BY <2>1, <2>2 DEF CacheInv
<1>4. CASE lc_compare
  <2>1. LcInv'
    BY <1>0, <1>1, <1>4 DEF lc_compare, CacheInv, LcInv
  <2>2. \A p : Upto(p, 0) = {}
    BY DEF Upto
  <2>4. rd.gen \in Nat /\ rd.gen <= listGen
    BY <1>4 DEF lc_compare, CacheInv, RdInv
  <2>5. \/ rd' = Resting
        \/ rd' = [at |-> "scan", q |-> rd.q, gen |-> rd.gen, target |-> rd.target,
                  ext |-> TargetExt(store, rd.target, rd.q.ex), names |-> {}, visit |-> 1]
    BY <1>4 DEF lc_compare
  <2>6. CASE rd' = Resting
    <3>1. rd'.at = "rest"
      BY <2>6 DEF Resting
    <3> QED BY <2>1, <3>1 DEF CacheInv, RdInv, Scanning
  <2>7. CASE rd' = [at |-> "scan", q |-> rd.q, gen |-> rd.gen, target |-> rd.target,
                    ext |-> TargetExt(store, rd.target, rd.q.ex), names |-> {}, visit |-> 1]
    <3>1. 1 \in 1 .. Len(Letters) /\ {} = Upto(rd.target, 1 - 1)
      BY <2>2, LenLetters
    <3> QED BY <1>0, <1>1, <2>1, <2>4, <2>7, <3>1 DEF CacheInv, RdInv, Scanning
  <2> QED BY <2>5, <2>6, <2>7
<1>5. CASE lc_scan
  <2>1. LcInv'
    BY <1>0, <1>1, <1>5 DEF lc_scan, CacheInv, LcInv
  <2>2. \A p : \A n \in 1 .. Len(Letters) :
          Upto(p, n) = Upto(p, n - 1) \union art_scan_pfx(store, p, Letters[n])
    <3> SUFFICES ASSUME NEW p, NEW n \in 1 .. Len(Letters)
                 PROVE  Upto(p, n) = Upto(p, n - 1) \union art_scan_pfx(store, p, Letters[n])
      OBVIOUS
    <3>1. 1 .. n = (1 .. (n - 1)) \union {n}
      BY LenLetters
    <3> QED BY <3>1 DEF Upto
  <2>3. \A p : Upto(p, 0) = {}
    BY DEF Upto
  <2> DEFINE p == IF rd.at = "scan" THEN rd.target ELSE rd.ext
             more == rd.names \union art_scan_pfx(store, p, Letters[rd.visit])
  <2>4. /\ rd.at \in {"scan", "extscan"} /\ rd.gen \in Nat /\ rd.gen <= listGen
        /\ rd.visit \in 1 .. Len(Letters)
        /\ rd.at = "extscan" => rd.ext # <<>>
        /\ rd = [at |-> rd.at, q |-> rd.q, gen |-> rd.gen, target |-> rd.target,
                 ext |-> rd.ext, names |-> rd.names, visit |-> rd.visit]
    BY <1>5 DEF lc_scan, CacheInv, RdInv, Scanning
  <2>5. Current(rd.gen) =>
          more = IF rd.at = "scan" THEN Upto(rd.target, rd.visit)
                 ELSE Upto(rd.target, Len(Letters)) \union Upto(rd.ext, rd.visit)
    BY <2>2, <2>4 DEF CacheInv, RdInv
  <2>6. rd' = IF rd.visit < Len(Letters)
                THEN [rd EXCEPT !.names = more, !.visit = @ + 1]
              ELSE IF rd.at = "scan" /\ rd.ext # <<>>
                THEN [rd EXCEPT !.names = more, !.visit = 1, !.at = "extscan"]
                ELSE [rd EXCEPT !.names = more, !.at = "fill"]
    BY <1>5 DEF lc_scan
  <2> HIDE DEF p, more
  <2>7. CASE rd.visit < Len(Letters)
    <3>1. rd' = [at |-> rd.at, q |-> rd.q, gen |-> rd.gen, target |-> rd.target,
                 ext |-> rd.ext, names |-> more, visit |-> rd.visit + 1]
      BY <2>4, <2>6, <2>7
    <3> QED BY <1>0, <1>1, <2>1, <2>4, <2>5, <2>7, <3>1, LenLetters DEF CacheInv, RdInv, Scanning
  <2>8. CASE rd.visit = Len(Letters) /\ rd.at = "scan" /\ rd.ext # <<>>
    <3>1. rd' = [at |-> "extscan", q |-> rd.q, gen |-> rd.gen, target |-> rd.target,
                 ext |-> rd.ext, names |-> more, visit |-> 1]
      <4>1. rd' = [rd EXCEPT !.names = more, !.visit = 1, !.at = "extscan"]
        BY <2>6, <2>8, LenLetters
      <4> QED BY <2>4, <4>1
    <3>2. Current(rd.gen) => more = Upto(rd.target, Len(Letters)) \union Upto(rd.ext, 1 - 1)
      BY <2>3, <2>5, <2>8
    <3>3. 1 \in 1 .. Len(Letters)
      BY LenLetters
    <3> QED BY <1>0, <1>1, <2>1, <2>4, <2>8, <3>1, <3>2, <3>3 DEF CacheInv, RdInv, Scanning
  <2>9. CASE rd.visit = Len(Letters) /\ ~(rd.at = "scan" /\ rd.ext # <<>>)
    <3>1. rd' = [at |-> "fill", q |-> rd.q, gen |-> rd.gen, target |-> rd.target,
                 ext |-> rd.ext, names |-> more, visit |-> rd.visit]
      <4>1. rd' = [rd EXCEPT !.names = more, !.at = "fill"]
        BY <2>6, <2>9, LenLetters
      <4> QED BY <2>4, <4>1
    <3>2. Current(rd.gen) => more = Fresh(rd.target, rd.ext)
      <4>1. CASE rd.at = "scan"
        BY <4>1, <2>5, <2>9 DEF Fresh
      <4>2. CASE rd.at = "extscan"
        BY <4>2, <2>4, <2>5, <2>9 DEF Fresh
      <4> QED BY <2>4, <4>1, <4>2
    <3> QED BY <1>0, <1>1, <2>1, <2>4, <3>1, <3>2 DEF CacheInv, RdInv, Scanning
  <2> QED BY <2>4, <2>7, <2>8, <2>9, LenLetters
<1>6. CASE lc_fill
  <2>1. LcInv'
    BY <1>0, <1>1, <1>6 DEF lc_fill, FillGen, CacheInv, LcInv, RdInv
  <2>2. RdInv'
    BY <1>0, <1>1, <1>6 DEF lc_fill, RdInv, Resting, Scanning
  <2> QED BY <2>1, <2>2 DEF CacheInv
<1> QED BY <1>2, <1>3, <1>4, <1>5, <1>6

------------------------------------------------------------------------------
(* The tasks of a call *)

\* The tasks of two plans in a row.
LEMMA TasksJoin ==
  ASSUME NEW q \in Seq(Stage), NEW r \in Seq(Stage)
  PROVE  q \o r \in Seq(Stage) /\ Tasks(q \o r) = Tasks(q) \union Tasks(r)
<1>1. q \o r \in Seq(Stage) /\ Len(q \o r) = Len(q) + Len(r)
  OBVIOUS
<1>2. \A i \in DOMAIN q : i \in DOMAIN (q \o r) /\ (q \o r)[i] = q[i]
  OBVIOUS
<1>3. \A i \in DOMAIN r : Len(q) + i \in DOMAIN (q \o r) /\ (q \o r)[Len(q) + i] = r[i]
  OBVIOUS
<1>4. \A i \in DOMAIN (q \o r) : \/ i \in DOMAIN q /\ (q \o r)[i] = q[i]
                                 \/ i - Len(q) \in DOMAIN r /\ (q \o r)[i] = r[i - Len(q)]
  OBVIOUS
<1>5. Tasks(q) \subseteq Tasks(q \o r)
  BY <1>2 DEF Tasks
<1>6. Tasks(r) \subseteq Tasks(q \o r)
  BY <1>3 DEF Tasks
<1>7. Tasks(q \o r) \subseteq Tasks(q) \union Tasks(r)
  BY <1>4 DEF Tasks
<1> QED BY <1>1, <1>5, <1>6, <1>7

\* An empty plan has no tasks.
LEMMA TasksNone == <<>> \in Seq(Stage) /\ Tasks(<<>>) = {}
BY DEF Tasks

\* One entry of todo, if there is anything to do in it.
LEMMA TasksStage ==
  ASSUME NEW S \in SUBSET Task
  PROVE  LET q == IF S = {} THEN <<>> ELSE <<S>> IN q \in Seq(Stage) /\ Tasks(q) = S
<1>1. CASE S = {}
  BY <1>1, TasksNone
<1>2. CASE S # {}
  <2>1. <<S>> \in Seq(Stage)
    BY <1>2 DEF Stage
  <2>2. DOMAIN <<S>> = {1} /\ <<S>>[1] = S
    OBVIOUS
  <2>3. Tasks(<<S>>) = S
    BY <2>2 DEF Tasks
  <2> QED BY <1>2, <2>1, <2>3
<1> QED BY <1>1, <1>2

\* A plan of one task.
LEMMA TasksOne ==
  ASSUME NEW t \in Task
  PROVE  One(t) \in Seq(Stage) /\ Tasks(One(t)) = {t}
BY TasksStage DEF One

\* The task that is done next, and those that are left.
LEMMA TasksLeft ==
  ASSUME todo \in Seq(Stage), todo # <<>>
  PROVE  /\ Now \in Tasks(todo) /\ Now \in Task
         /\ Left \in Seq(Stage) /\ Tasks(Left) \subseteq Tasks(todo)
         /\ \A t \in Tasks(todo) : t # Now => t \in Tasks(Left)
<1>1. Head(todo) \in Stage /\ 1 \in DOMAIN todo /\ Head(todo) = todo[1]
  OBVIOUS
<1>2. Now \in Head(todo)
  BY <1>1 DEF Now, Stage
<1>3. Now \in Tasks(todo) /\ Now \in Task
  BY <1>1, <1>2 DEF Tasks, Stage
<1>4. CASE Head(todo) = {Now}
  <2>1. Left = Tail(todo)
    BY <1>4 DEF Left
  <2>2. Left \in Seq(Stage)
    BY <2>1
  <2>3. \A i \in DOMAIN Tail(todo) : i + 1 \in DOMAIN todo /\ Tail(todo)[i] = todo[i + 1]
    OBVIOUS
  <2>4. \A i \in DOMAIN todo : i # 1 => i - 1 \in DOMAIN Tail(todo) /\ Tail(todo)[i - 1] = todo[i]
    OBVIOUS
  <2>5. Tasks(Left) \subseteq Tasks(todo)
    BY <2>1, <2>3 DEF Tasks
  <2>6. ASSUME NEW t \in Tasks(todo), t # Now PROVE t \in Tasks(Left)
    <3>1. PICK i \in DOMAIN todo : t \in todo[i]
      BY DEF Tasks
    <3>2. i # 1
      BY <1>1, <1>4, <2>6, <3>1
    <3> QED BY <2>1, <2>4, <3>1, <3>2 DEF Tasks
  <2> QED BY <1>3, <2>2, <2>5, <2>6
<1>5. CASE Head(todo) # {Now}
  <2>1. Left = [todo EXCEPT ![1] = todo[1] \ {Now}]
    BY <1>5 DEF Left
  <2>2. todo[1] \ {Now} \in Stage
    BY <1>1, <1>2, <1>5 DEF Stage
  <2>3. Left \in Seq(Stage)
    BY <1>1, <2>1, <2>2
  <2>4. DOMAIN Left = DOMAIN todo /\ Left[1] = todo[1] \ {Now}
        /\ \A i \in DOMAIN todo : i # 1 => Left[i] = todo[i]
    BY <1>1, <2>1
  <2>5. Tasks(Left) \subseteq Tasks(todo)
    BY <1>1, <2>4 DEF Tasks
  <2>6. ASSUME NEW t \in Tasks(todo), t # Now PROVE t \in Tasks(Left)
    <3>1. PICK i \in DOMAIN todo : t \in todo[i]
      BY DEF Tasks
    <3>2. t \in Left[i]
      BY <1>1, <2>4, <2>6, <3>1
    <3> QED BY <2>4, <3>2 DEF Tasks
  <2> QED BY <1>3, <2>3, <2>5, <2>6
<1> QED BY <1>4, <1>5

\* After a task, todo holds what the task left and what was there before.
LEMMA TasksThen ==
  ASSUME todo \in Seq(Stage), todo # <<>>, NEW next \in Seq(Stage), Then(next)
  PROVE  /\ todo' \in Seq(Stage)
         /\ Tasks(todo') \subseteq Tasks(next) \union Tasks(todo)
         /\ \A t \in Tasks(todo) : t # Now => t \in Tasks(todo')
<1>1. todo' = next \o Left
  BY DEF Then
<1> QED BY <1>1, TasksLeft, TasksJoin

\* Tasks are well-typed.
LEMMA DoType ==
  ASSUME NEW what \in Dos, NEW x \in Path, NEW y \in Path
  PROVE  /\ Do(what, x, y) \in Task
         /\ Do(what, x, y).do = what /\ Do(what, x, y).a = x /\ Do(what, x, y).b = y
BY DEF Do, Task, TaskVal

\* No task depends on more than the call.
LEMMA SameTask ==
  ASSUME UNCHANGED <<call, was>>
  PROVE  /\ \A t : TaskOK(t)' = TaskOK(t)
         /\ \A k : InScope(call, k)' = InScope(call, k)
<1>1. \A k : InScope(call, k)' = InScope(call, k)
  BY DEF InScope
<1> QED BY <1>1 DEF TaskOK

------------------------------------------------------------------------------
(* What a step of a call does to the tasks and to the store *)

CallInv == Types /\ ScopeInv /\ GoneInv

\* Get yields a value or nothing.
LEMMA GetValue ==
  ASSUME Types, NEW k
  PROVE  kvspaceShmGet(store, k, FALSE) = NoValue \/ IsValue(kvspaceShmGet(store, k, FALSE))
<1>1. \A j : Value(store, j) = NoValue \/ IsValue(Value(store, j))
  BY DEF Types, Value
<1> QED BY <1>1 DEF kvspaceShmGet

\* A call that fails, or whose process dies.
LEMMA FailStep ==
  ASSUME CallInv, todo' = <<>>, rc' = 1, UNCHANGED <<store, listGen, any, owed, call, was, calls>>
  PROVE  CallInv'
<1>1. Types'
  BY TasksNone DEF CallInv, Types
<1>2. OutsideKept'
  BY SameTask DEF CallInv, ScopeInv, OutsideKept
<1>3. ScopeInv'
  BY <1>2, TasksNone DEF ScopeInv
<1>4. GoneInv'
  BY DEF GoneInv
<1> QED BY <1>1, <1>3, <1>4 DEF CallInv

\* The bump of list_gen is in every call's scope.
LEMMA BumpTask == Bump \in Task /\ (\A t : t = Bump /\ Types => TaskOK(t))
<1>1. Bump \in Task /\ Bump.do = "bump"
  BY DoType DEF Bump, Dos, Path
<1> QED BY <1>1 DEF TaskOK

\* A task of a copy or a set gives way to other tasks.
LEMMA ExpandStep ==
  ASSUME CallInv, todo # <<>>, NEW next \in Seq(Stage), Then(next),
         \A t \in Tasks(next) : TaskOK(t), call.op # "Deltree", rc' \in {0, 1},
         UNCHANGED <<store, listGen, any, owed, call, was, calls>>
  PROVE  CallInv'
<1>1. todo' \in Seq(Stage) /\ Tasks(todo') \subseteq Tasks(next) \union Tasks(todo)
  BY TasksThen DEF CallInv, Types
<1>2. Types'
  BY <1>1 DEF CallInv, Types
<1>3. OutsideKept'
  BY SameTask DEF CallInv, ScopeInv, OutsideKept
<1>4. \A t \in Tasks(todo') : TaskOK(t)
  BY <1>1 DEF CallInv, ScopeInv
<1>5. ScopeInv'
  BY <1>3, <1>4, SameTask DEF ScopeInv
<1>6. GoneInv'
  BY DEF GoneInv
<1> QED BY <1>2, <1>5, <1>6 DEF CallInv

\* A key is given a value.
LEMMA InsertStep ==
  ASSUME CallInv, todo # <<>>, NEW k \in Key, NEW v, IsValue(v), InScope(call, k),
         call.op # "Deltree", Insert(k, v), UNCHANGED <<any, rc, call, was, calls>>
  PROVE  CallInv'
<1>1. PICK next \in Seq(Stage) : Then(next) /\ \A t \in Tasks(next) : TaskOK(t)
  <2>1. CASE k \in DOMAIN store
    BY <2>1, TasksNone DEF Insert
  <2>2. CASE k \notin DOMAIN store
    <3>1. One(Bump) \in Seq(Stage) /\ \A t \in Tasks(One(Bump)) : TaskOK(t)
      BY BumpTask, TasksOne DEF CallInv
    <3> QED BY <2>2, <3>1 DEF Insert
  <2> QED BY <2>1, <2>2
<1>2. todo' \in Seq(Stage) /\ Tasks(todo') \subseteq Tasks(next) \union Tasks(todo)
  BY <1>1, TasksThen DEF CallInv, Types
<1>3. /\ DOMAIN store' = DOMAIN store \union {k} /\ store'[k] = v
      /\ \A j \in DOMAIN store : j # k => store'[j] = store[j]
  BY DEF Insert
<1>4. Types'
  BY <1>2, <1>3 DEF CallInv, Types, Insert
<1>5. OutsideKept'
  <2> SUFFICES ASSUME NEW j \in DOMAIN store' \union DOMAIN was', Value(store', j) # Value(was', j)
               PROVE  InScope(call, j)
    BY SameTask DEF OutsideKept
  <2>1. j # k => Value(store', j) = Value(store, j) /\ j \in DOMAIN store \union DOMAIN was
    BY <1>3 DEF Value
  <2> QED BY <2>1 DEF CallInv, ScopeInv, OutsideKept
<1>6. \A t \in Tasks(todo') : TaskOK(t)
  BY <1>1, <1>2 DEF CallInv, ScopeInv
<1>7. ScopeInv'
  BY <1>5, <1>6, SameTask DEF ScopeInv
<1>8. GoneInv'
  BY DEF GoneInv
<1> QED BY <1>4, <1>7, <1>8 DEF CallInv

\* A key is deleted, or is not there, or its deletion fails.
LEMMA RemoveStep ==
  ASSUME CallInv, todo # <<>>, Now.do \in {"del", "rm", "rm2"},
         NEW next \in {<<>>, One(Bump)}, Then(next),
         store' \in {store, Without(Now.a)}, rc' \in {0, 1}, any' \in BOOLEAN, owed' \in BOOLEAN,
         rc' = 0 => rc = 0 /\ (Now.do \in {"del", "rm"} => store' = Without(Now.a)),
         UNCHANGED <<listGen, call, was, calls>>
  PROVE  CallInv'
<1>1. next \in Seq(Stage) /\ \A t \in Tasks(next) : TaskOK(t)
  BY BumpTask, TasksOne, TasksNone DEF CallInv
<1>2. /\ todo' \in Seq(Stage) /\ Tasks(todo') \subseteq Tasks(next) \union Tasks(todo)
      /\ \A t \in Tasks(todo) : t # Now => t \in Tasks(todo')
  BY <1>1, TasksThen DEF CallInv, Types
<1>3. /\ DOMAIN store' \subseteq DOMAIN store
      /\ \A j \in DOMAIN store' : store'[j] = store[j]
      /\ \A j \in DOMAIN store : j # Now.a => j \in DOMAIN store'
      /\ store' = Without(Now.a) => Now.a \notin DOMAIN store'
  BY DEF Without
<1>4. Types'
  BY <1>2, <1>3 DEF CallInv, Types
<1>5. InScope(call, Now.a)
  BY TasksLeft DEF CallInv, Types, ScopeInv, TaskOK
<1>6. OutsideKept'
  <2> SUFFICES ASSUME NEW j \in DOMAIN store' \union DOMAIN was', Value(store', j) # Value(was', j)
               PROVE  InScope(call, j)
    BY SameTask DEF OutsideKept
  <2>1. j # Now.a => Value(store', j) = Value(store, j) /\ j \in DOMAIN store \union DOMAIN was
    BY <1>3 DEF Value
  <2> QED BY <1>5, <2>1 DEF CallInv, ScopeInv, OutsideKept
<1>7. \A t \in Tasks(todo') : TaskOK(t)
  BY <1>1, <1>2 DEF CallInv, ScopeInv
<1>8. ScopeInv'
  BY <1>6, <1>7, SameTask DEF ScopeInv
<1>9. GoneInv'
  <2> SUFFICES ASSUME call.op = "Deltree", rc' = 0
               PROVE  IF LinkAt(was, call.a)
                        THEN LinkKey \in DOMAIN store' => Do("rm", LinkKey, <<>>) \in Tasks(todo')
                        ELSE \A k \in DOMAIN store' : Doomed(k) => Do("del", k, <<>>) \in Tasks(todo')
    BY DEF GoneInv, LinkKey, Doomed
  <2>1. rc = 0 /\ (Now.do \in {"del", "rm"} => Now.a \notin DOMAIN store')
    BY <1>3
  <2>2. \A k \in DOMAIN store' : Do("del", k, <<>>) # Now /\ Do("rm", k, <<>>) # Now
    BY <2>1 DEF Do
  <2>3. CASE LinkAt(was, call.a)
    <3>1. LinkKey \in DOMAIN store => Do("rm", LinkKey, <<>>) \in Tasks(todo)
      BY <2>1, <2>3 DEF CallInv, GoneInv
    <3> QED BY <1>2, <1>3, <2>2, <2>3, <3>1
  <2>4. CASE ~LinkAt(was, call.a)
    <3>1. \A k \in DOMAIN store : Doomed(k) => Do("del", k, <<>>) \in Tasks(todo)
      BY <2>1, <2>4 DEF CallInv, GoneInv
    <3> QED BY <1>2, <1>3, <2>2, <2>4, <3>1
  <2> QED BY <2>3, <2>4
<1> QED BY <1>4, <1>8, <1>9 DEF CallInv

\* list_gen is bumped, or need not be.
LEMMA BumpStep ==
  ASSUME CallInv, list_gen_bump
  PROVE  CallInv'
<1>1. /\ todo # <<>> /\ Now.do \in {"bump", "bumpAny"} /\ Then(<<>>)
      /\ listGen' \in Nat /\ owed' \in BOOLEAN
      /\ UNCHANGED <<store, any, rc, call, was, calls>>
  <2>1. /\ todo # <<>> /\ Now.do \in {"bump", "bumpAny"} /\ Then(<<>>)
        /\ UNCHANGED <<store, any, rc, call, was, calls>>
    BY DEF list_gen_bump, At, SameCall
  <2>2. (listGen' = listGen + 1 /\ owed' = FALSE) \/ UNCHANGED <<listGen, owed>>
    BY DEF list_gen_bump
  <2>3. listGen \in Nat /\ owed \in BOOLEAN
    BY DEF CallInv, Types
  <2>4. listGen' \in Nat
    BY <2>2, <2>3
  <2>5. owed' \in BOOLEAN
    BY <2>2, <2>3, Zenon
  <2> QED BY <2>1, <2>4, <2>5
<1>2. /\ todo' \in Seq(Stage) /\ Tasks(todo') \subseteq Tasks(todo)
      /\ \A t \in Tasks(todo) : t # Now => t \in Tasks(todo')
  BY <1>1, TasksThen, TasksNone DEF CallInv, Types
<1>3. Types'
  BY <1>1, <1>2 DEF CallInv, Types
<1>4. OutsideKept'
  BY <1>1, SameTask DEF CallInv, ScopeInv, OutsideKept
<1>5. ScopeInv'
  BY <1>1, <1>2, <1>4, SameTask DEF CallInv, ScopeInv
<1>6. \A k : Do("del", k, <<>>) # Now /\ Do("rm", k, <<>>) # Now
  BY <1>1 DEF Do
<1>7. GoneInv'
  BY <1>1, <1>2, <1>6 DEF CallInv, GoneInv, LinkKey, Doomed
<1> QED BY <1>3, <1>5, <1>7 DEF CallInv

------------------------------------------------------------------------------
(* Places *)

\* A prefix of a key.
LEMMA Cut ==
  ASSUME NEW k \in Seq(Token), NEW l \in 0 .. Len(k)
  PROVE  /\ SubSeq(k, 1, l) \in Seq(Token) /\ Len(SubSeq(k, 1, l)) = l
         /\ \A i \in 1 .. l : SubSeq(k, 1, l)[i] = k[i]
OBVIOUS

\* Where a copy goes on from a place within its destination it stays within.
LEMMA RoomBelow ==
  ASSUME NEW p \in Key, NEW d \in Key, Room(p, d), NEW n \in Seq(Token), n # <<>>
  PROVE  /\ pjoin(edir(d), n) \in Key /\ Room(p, pjoin(edir(d), n))
         /\ memdir(d) \o n \in Key /\ Room(p, memdir(d) \o n)
<1> DEFINE b == Base(p)
           e == edir(d)
<1>1. d \in Seq(Token) /\ d # <<>> /\ d[1] = Slash /\ Len(d) \in Nat \ {0}
      /\ p \in Seq(Token) /\ p # <<>> /\ Len(p) \in Nat \ {0}
      /\ Len(n) \in Nat \ {0}
  BY KeyIsSeq
<1>2. b \in Seq(Token) /\ Len(b) \in Nat
  BY <1>1 DEF Base, Front
<1>3. b = p => ~EndsIn(p, Slash)
  <2>1. Len(Front(p)) = Len(p) - 1
    BY SMTT(30), <1>1 DEF Front
  <2> QED BY <1>1, <2>1 DEF Base, bad_dir_prefix
<1>4. e \in Seq(Token) /\ e # <<>> /\ e[1] = Slash /\ EndsIn(e, Slash) /\ Len(e) \in Nat
      /\ (e = d \/ e = Append(d, Slash))
  BY SMTT(30), <1>1, Alphabet DEF edir, EndsIn, Last
<1>5. pjoin(e, n) = e \o n
  BY <1>4 DEF pjoin
<1>6. e \o n \in Key /\ memdir(d) \o n \in Key
  <2>1. e \o n \in Seq(Token) /\ e \o n # <<>> /\ (e \o n)[1] = Slash
    BY <1>1, <1>4
  <2>2. memdir(d) \in Seq(Token) /\ Len(memdir(d)) = Len(d) + 1 /\ memdir(d)[1] = Slash
    BY <1>1, Alphabet DEF memdir
  <2>3. memdir(d) \o n \in Seq(Token) /\ memdir(d) \o n # <<>> /\ (memdir(d) \o n)[1] = Slash
    BY <1>1, <2>2
  <2> QED BY <2>1, <2>3 DEF Key
\* Everything longer than d that continues it at a separator, or anything
\* that continues d when d is longer than b already.
<1>7. ASSUME NEW x \in Seq(Token), Len(x) > Len(d), \A i \in 1 .. Len(d) : x[i] = d[i],
             d = b => x[Len(d) + 1] \in Seps
      PROVE  Room(p, x)
  <2>1. IsPrefix(b, d) /\ (b = <<>> \/ d = b \/ d[Len(b) + 1] \in Seps)
    BY DEF Room, InTree
  <2>2. Len(b) <= Len(d) /\ \A i \in 1 .. Len(b) : b[i] = d[i]
    <3>1. SubSeq(b, 1, Len(b)) = SubSeq(d, 1, Len(b)) /\ Len(b) <= Len(d)
      BY <2>1 DEF IsPrefix
    <3>2. \A i \in 1 .. Len(b) : SubSeq(b, 1, Len(b))[i] = b[i] /\ SubSeq(d, 1, Len(b))[i] = d[i]
      BY <1>1, <1>2, <3>1
    <3> QED BY <3>1, <3>2
  <2>3. IsPrefix(b, x)
    <3>1. SubSeq(b, 1, Len(b)) = SubSeq(x, 1, Len(b))
      BY <1>1, <1>2, <1>7, <2>2
    <3> QED BY <1>1, <1>2, <1>7, <2>2, <3>1 DEF IsPrefix
  <2>4. Len(b) < Len(d) \/ d = b
    BY <1>1, <1>2, <2>2
  <2>5. b = <<>> \/ x[Len(b) + 1] \in Seps
    BY SMTT(30), <1>1, <1>2, <1>7, <2>1, <2>4
  <2>6. x # b
    BY <1>1, <1>2, <1>7, <2>2
  <2> QED BY <2>3, <2>5, <2>6 DEF Room, InTree
<1>8. Room(p, e \o n)
  <2>1. CASE e = d
    <3>1. d # b
      BY <1>3, <1>4, <2>1 DEF Room
    <3>2. d \o n \in Seq(Token) /\ Len(d \o n) > Len(d) /\ \A i \in 1 .. Len(d) : (d \o n)[i] = d[i]
      BY <1>1
    <3> HIDE DEF e, b
    <3>3. Room(p, d \o n)
      BY <1>7, <3>1, <3>2
    <3> QED BY <2>1, <3>3
  <2>2. CASE e = Append(d, Slash)
    <3>1. (e \o n)[Len(d) + 1] = Slash
      BY <1>1, <2>2, Alphabet
    <3>2. e \o n \in Seq(Token) /\ Len(e \o n) > Len(d) /\ \A i \in 1 .. Len(d) : (e \o n)[i] = d[i]
      BY <1>1, <2>2, Alphabet
    <3> HIDE DEF e, b
    <3> QED BY <1>7, <3>1, <3>2 DEF Seps
  <2> QED BY <1>4, <2>1, <2>2
<1>9. Room(p, memdir(d) \o n)
  <2>1. (memdir(d) \o n)[Len(d) + 1] = Dot
    BY <1>1, Alphabet DEF memdir
  <2>2. memdir(d) \o n \in Seq(Token) /\ Len(memdir(d) \o n) > Len(d)
        /\ \A i \in 1 .. Len(d) : (memdir(d) \o n)[i] = d[i]
    BY <1>1, Alphabet DEF memdir
  <2> QED BY <1>7, <2>1, <2>2 DEF Seps
<1> QED BY <1>5, <1>6, <1>8, <1>9

\* A call may change the key it names, and the key without its last separator.
LEMMA RoomSelf ==
  ASSUME NEW p \in Key
  PROVE  Room(p, p) /\ InTree(p, p) /\ InTree(p, Base(p)) /\ Base(p) \in Path
<1>1. p \in Seq(Token) /\ p # <<>> /\ p[1] = Slash /\ Len(p) \in Nat \ {0}
  BY KeyIsSeq
<1>2. CASE Base(p) = p
  BY <1>1, <1>2 DEF Room, InTree, IsPrefix, Path
<1>3. CASE Base(p) # p
  <2>1. Base(p) = SubSeq(p, 1, Len(p) - 1) /\ p[Len(p)] \in {Slash, Dot}
    BY <1>3 DEF Base, Front, bad_dir_prefix, EndsIn, Last
  <2>2. Base(p) \in Seq(Token) /\ Len(Base(p)) = Len(p) - 1
        /\ \A i \in 1 .. Len(Base(p)) : Base(p)[i] = p[i]
    <3>1. Len(p) - 1 \in 0 .. Len(p)
      BY <1>1
    <3>2. /\ SubSeq(p, 1, Len(p) - 1) \in Seq(Token)
          /\ Len(SubSeq(p, 1, Len(p) - 1)) = Len(p) - 1
          /\ \A i \in 1 .. Len(p) - 1 : SubSeq(p, 1, Len(p) - 1)[i] = p[i]
      BY <1>1, <3>1, Cut
    <3> QED BY <2>1, <3>2
  <2>3. SubSeq(Base(p), 1, Len(Base(p))) = Base(p)
    BY <1>1, <2>2
  <2>4. IsPrefix(Base(p), p) /\ IsPrefix(Base(p), Base(p))
    BY <1>1, <2>1, <2>2, <2>3 DEF IsPrefix
  <2>5. p[Len(Base(p)) + 1] \in Seps
    BY <1>1, <2>1, <2>2 DEF Seps
  <2>6. Base(p) \in Path
    <3>1. Len(Base(p)) = 0 => Base(p) = <<>>
      BY <2>2
    <3>2. Len(Base(p)) > 0 => Base(p) # <<>> /\ Base(p)[1] = Slash
      BY <1>1, <2>2
    <3> QED BY <1>1, <2>2, <3>1, <3>2 DEF Path, Key
  <2> QED BY <1>3, <2>4, <2>5, <2>6 DEF Room, InTree
<1> QED BY <1>2, <1>3

\* The keys that Deltree walks are the keys of the tree.
LEMMA SubtreeIsTree ==
  ASSUME NEW p \in Key, NEW k \in Key
  PROVE  subtree_key(Base(p), k) = InTree(p, k)
<1>1. k # <<>> /\ k[1] = Slash /\ k \in Seq(Token)
  BY KeyIsSeq
<1>2. CASE Base(p) = <<>>
  <2>1. IsPrefix(<<>>, k)
    BY <1>1 DEF IsPrefix
  <2> QED BY <1>1, <1>2, <2>1 DEF subtree_key, InTree
<1>3. CASE Base(p) # <<>>
  BY <1>3 DEF subtree_key, InTree, Seps
<1> QED BY <1>2, <1>3

------------------------------------------------------------------------------
(* The steps of a call *)

\* The task that is done next is within the call's scope.
LEMMA NowOK ==
  ASSUME CallInv, todo # <<>>
  PROVE  /\ TaskOK(Now) /\ Now \in Task
         /\ call.op = "Deltree" => Now.do \in {"del", "rm", "rm2", "bump", "bumpAny"}
BY TasksLeft DEF CallInv, Types, ScopeInv, TaskOK

\* A tree copy writes below its destination only.
LEMMA CopyScope ==
  ASSUME call.op \in {"Cptree", "Cplist"}
  PROVE  \A k : InScope(call, k) = InTree(call.b, k)
BY DEF InScope

\* A value is set at a key in the scope of the call.
LEMMA SetStep ==
  ASSUME CallInv, todo # <<>>, NEW k \in Key, NEW v, v = NoValue \/ IsValue(v), InScope(call, k),
         call.op # "Deltree", SameCall, kvspaceShmSet(k, v)
  PROVE  CallInv' /\ Quiet
<1>1. \/ Fail
      \/ IsValue(v) /\ Insert(k, v) /\ UNCHANGED <<any, rc>>
  BY DEF kvspaceShmSet, Invalid
<1>2. UNCHANGED <<call, was, calls, lc, rd>>
  BY DEF SameCall, reader
<1>3. owed \in BOOLEAN
  BY DEF CallInv, Types
<1>4. CASE Fail
  BY <1>2, <1>3, <1>4, FailStep DEF Fail, Quiet
<1>5. CASE IsValue(v) /\ Insert(k, v) /\ UNCHANGED <<any, rc>>
  <2>1. CallInv'
    BY <1>2, <1>5, InsertStep
  <2>2. /\ DOMAIN store' = DOMAIN store \union {k} /\ listGen' = listGen
        /\ owed' = (owed \/ k \notin DOMAIN store)
    BY <1>5 DEF Insert
  <2>3. Quiet
    BY <1>2, <1>3, <2>2 DEF Quiet
  <2> QED BY <2>1, <2>3
<1> QED BY <1>1, <1>4, <1>5

\* A task that sets a value.
LEMMA SetValueStep ==
  ASSUME CallInv, set_value
  PROVE  CallInv' /\ Quiet
<1>1. todo # <<>> /\ Now.do = "put" /\ SameCall /\ kvspaceShmSet(Now.a, Now.v)
  BY DEF set_value, At
<1>2. /\ Now.a \in Key /\ InScope(call, Now.a) /\ (Now.v = NoValue \/ IsValue(Now.v))
      /\ call.op # "Deltree"
  BY <1>1, NowOK DEF TaskOK
<1> QED BY <1>1, <1>2, SetStep

\* A task that copies one value.
LEMMA CpStep ==
  ASSUME CallInv, kvspaceShmCp
  PROVE  CallInv' /\ Quiet
<1> DEFINE v == kvspaceShmGet(store, Now.a, FALSE)
<1>1. todo # <<>> /\ Now.do = "cp" /\ SameCall /\ kvspaceShmSet(Now.b, v)
  BY DEF kvspaceShmCp, At
<1>2. Now.b \in Key /\ InScope(call, Now.b) /\ call.op # "Deltree"
  BY <1>1, NowOK DEF TaskOK
<1>3. v = NoValue \/ IsValue(v)
  BY GetValue DEF CallInv
<1> HIDE DEF v
<1> QED BY <1>1, <1>2, <1>3, SetStep

\* A task that makes a value for the caller to fill.
LEMMA WriteNewPlaceStep ==
  ASSUME CallInv, kvspaceShmWriteNewPlace
  PROVE  CallInv' /\ Quiet
<1>1. todo # <<>> /\ Now.do = "raw" /\ SameCall
      /\ (Fail \/ (Insert(Now.a, Now.v) /\ UNCHANGED <<any, rc>>))
  BY DEF kvspaceShmWriteNewPlace, At
<1>2. Now.a \in Key /\ InScope(call, Now.a) /\ IsValue(Now.v) /\ call.op # "Deltree"
  BY <1>1, NowOK DEF TaskOK
<1>3. UNCHANGED <<call, was, calls, lc, rd>> /\ owed \in BOOLEAN
  BY <1>1 DEF SameCall, reader, CallInv, Types
<1>4. CASE Fail
  BY <1>3, <1>4, FailStep DEF Fail, Quiet
<1>5. CASE Insert(Now.a, Now.v) /\ UNCHANGED <<any, rc>>
  <2>1. CallInv'
    BY <1>1, <1>2, <1>3, <1>5, InsertStep
  <2>2. /\ DOMAIN store' = DOMAIN store \union {Now.a} /\ listGen' = listGen
        /\ owed' = (owed \/ Now.a \notin DOMAIN store)
    BY <1>5 DEF Insert
  <2>3. Quiet
    BY <1>3, <2>2 DEF Quiet
  <2> QED BY <2>1, <2>3
<1> QED BY <1>1, <1>4, <1>5

\* A task that deletes one key.
LEMMA DelKeyStep ==
  ASSUME CallInv, shm_del_key
  PROVE  CallInv' /\ Quiet
<1>1. /\ todo # <<>> /\ Now.do = "del" /\ SameCall /\ Then(<<>>) /\ listGen' = listGen
      /\ \/ rc' = 1 /\ UNCHANGED <<store, any>>
         \/ /\ store' = Without(Now.a) /\ rc' = rc
            /\ any' = (any \/ Now.a \in DOMAIN store)
      /\ owed' = (owed \/ DOMAIN store' # DOMAIN store)
  BY DEF shm_del_key, At
<1>2. UNCHANGED <<call, was, calls, lc, rd>> /\ owed \in BOOLEAN /\ any \in BOOLEAN /\ rc \in {0, 1}
  BY <1>1 DEF SameCall, reader, CallInv, Types
<1>3. any' \in BOOLEAN
  BY <1>1, <1>2
<1>4. owed' \in BOOLEAN
  BY <1>1, <1>2
<1>5. /\ store' \in {store, Without(Now.a)} /\ rc' \in {0, 1}
      /\ rc' = 0 => rc = 0 /\ store' = Without(Now.a)
  BY <1>1, <1>2
<1>6. CallInv'
  BY <1>1, <1>2, <1>3, <1>4, <1>5, RemoveStep
<1>7. Quiet
  BY <1>1, <1>2 DEF Quiet
<1> QED BY <1>6, <1>7

\* A task that deletes by the key given.
LEMMA DelStep ==
  ASSUME CallInv, kvspaceShmDel
  PROVE  CallInv' /\ Quiet
<1>1. /\ todo # <<>> /\ Now.do \in {"rm", "rm2"} /\ SameCall /\ UNCHANGED <<listGen, any>>
      /\ \/ Then(<<>>) /\ store' = store /\ rc' = IF Now.do = "rm" THEN 1 ELSE rc
         \/ Then(One(Bump)) /\ store' = Without(Now.a) /\ rc' = rc
      /\ owed' = (owed \/ DOMAIN store' # DOMAIN store)
  BY DEF kvspaceShmDel, At
<1>2. UNCHANGED <<call, was, calls, lc, rd>> /\ owed \in BOOLEAN /\ any \in BOOLEAN /\ rc \in {0, 1}
  BY <1>1 DEF SameCall, reader, CallInv, Types
<1>3. any' \in BOOLEAN
  BY <1>1, <1>2
<1>4. owed' \in BOOLEAN
  BY <1>1, <1>2
<1>5. /\ store' \in {store, Without(Now.a)} /\ rc' \in {0, 1}
      /\ rc' = 0 => rc = 0 /\ (Now.do \in {"del", "rm"} => store' = Without(Now.a))
      /\ \E next \in {<<>>, One(Bump)} : Then(next)
  BY <1>1, <1>2
<1>6. CallInv'
  BY <1>1, <1>2, <1>3, <1>4, <1>5, RemoveStep
<1>7. Quiet
  BY <1>1, <1>2 DEF Quiet
<1> QED BY <1>6, <1>7

\* What is left to do of a copy lies within its destination.
LEMMA PutOK ==
  ASSUME NEW x \in Key, NEW y \in Key, call.op \in {"Cptree", "Cplist"}, Room(call.b, y)
  PROVE  Put(x, y) \in Task /\ TaskOK(Put(x, y))
<1>1. x \in Path /\ y \in Path /\ InScope(call, y)
  BY CopyScope DEF Path, Room
<1>2. Put(x, y) \in Task /\ Put(x, y).do = "cp" /\ Put(x, y).b = y
  BY <1>1, DoType DEF Put, Dos
<1> QED BY <1>1, <1>2 DEF TaskOK

\* The tasks that a tree copy leaves for one pair of keys are in its scope.
LEMMA PutIfValueOK ==
  ASSUME NEW x \in Key, NEW y \in Key, call.op \in {"Cptree", "Cplist"}, Room(call.b, y)
  PROVE  /\ PutIfValue(x, y) \in Seq(Stage)
         /\ \A t \in Tasks(PutIfValue(x, y)) : TaskOK(t)
         /\ \A what \in {"tree", "kids", "members", "list", "values"} :
              /\ Do(what, x, y) \in Task /\ TaskOK(Do(what, x, y))
              /\ One(Do(what, x, y)) \in Seq(Stage)
              /\ \A t \in Tasks(One(Do(what, x, y))) : TaskOK(t)
<1>1. x \in Path /\ y \in Path
  BY DEF Path
<1>3. Put(x, y) \in Task /\ TaskOK(Put(x, y))
  BY PutOK
<1>4. PutIfValue(x, y) \in Seq(Stage) /\ \A t \in Tasks(PutIfValue(x, y)) : TaskOK(t)
  BY <1>3, TasksOne, TasksNone DEF PutIfValue
<1>5. ASSUME NEW what \in {"tree", "kids", "members", "list", "values"}
      PROVE  Do(what, x, y) \in Task /\ TaskOK(Do(what, x, y))
  <2>1. /\ Do(what, x, y) \in Task /\ Do(what, x, y).do = what
        /\ Do(what, x, y).a = x /\ Do(what, x, y).b = y
    BY <1>1, DoType DEF Dos
  <2> QED BY <2>1 DEF TaskOK
<1> QED BY <1>4, <1>5, TasksOne

\* The tasks for listed names.
LEMMA NamesOK ==
  ASSUME CallInv, NEW prefix, NEW x \in Key, NEW y \in Key, call.op \in {"Cptree", "Cplist"},
         call.b \in Key, Room(call.b, y), NEW n \in kvspaceShmList(store, prefix, FALSE, TRUE)
  PROVE  /\ pjoin(edir(x), n) \in Key /\ memdir(x) \o n \in Key
         /\ pjoin(edir(y), n) \in Key /\ memdir(y) \o n \in Key
         /\ Room(call.b, pjoin(edir(y), n)) /\ Room(call.b, memdir(y) \o n)
<1>1. n \in Seq(Token) /\ n # <<>>
  BY ListNames DEF CallInv, Types
<1>2. Room(x, x)
  BY RoomSelf
<1> QED BY <1>1, <1>2, RoomBelow

\* A stage of such tasks.
LEMMA EachOK ==
  ASSUME NEW S, \A t \in S : t \in Task /\ TaskOK(t)
  PROVE  LET q == IF S = {} THEN <<>> ELSE <<S>>
         IN q \in Seq(Stage) /\ \A t \in Tasks(q) : TaskOK(t)
BY TasksStage

\* A tree copy goes one level down.
LEMMA CptreeStep ==
  ASSUME CallInv, cptree_rec \/ cplist_members
  PROVE  CallInv' /\ Quiet
<1> DEFINE x == Now.a
           y == Now.b
<1>1. /\ todo # <<>> /\ UNCHANGED <<store, listGen, any, owed, call, was, calls, lc, rd>>
      /\ Now.do \in {"tree", "kids", "members", "list", "values"} /\ rc' \in {0, rc}
  BY DEF cptree_rec, cplist_members, SameCall, reader, At
<1>2. /\ x \in Key /\ y \in Key /\ Room(call.b, y) /\ call.op \in {"Cptree", "Cplist"}
  BY <1>1, NowOK DEF TaskOK
<1>3. call.b \in Key
  <2>1. call \in Calls
    BY <1>2 DEF CallInv, Types, NoCall
  <2> QED BY <1>2, <2>1, KeysAssumption
<1>4. rc' \in {0, 1} /\ owed \in BOOLEAN
  BY <1>1 DEF CallInv, Types
<1>5. Quiet
  BY <1>1, <1>4 DEF Quiet
<1>6. SUFFICES \E next \in Seq(Stage) : Then(next) /\ \A t \in Tasks(next) : TaskOK(t)
  BY <1>1, <1>2, <1>4, <1>5, ExpandStep
<1> DEFINE put == PutIfValue(x, y)
           one(what) == One(Do(what, x, y))
<1>7. /\ put \in Seq(Stage) /\ \A t \in Tasks(put) : TaskOK(t)
      /\ \A what \in {"tree", "kids", "members", "list", "values"} :
           one(what) \in Seq(Stage) /\ \A t \in Tasks(one(what)) : TaskOK(t)
  BY <1>2, PutIfValueOK
<1>8. \/ Then(put \o one("kids") \o one("members"))
      \/ Then(ChildTasks(x, y)) \/ Then(MemberTasks(x, y))
      \/ Then(put \o one("values")) \/ Then(MemberPuts(x, y))
  BY DEF cptree_rec, cplist_members
<1> HIDE DEF x, y, put, one
<1>9. CASE Then(put \o one("kids") \o one("members"))
  <2>1. put \o one("kids") \in Seq(Stage) /\ \A t \in Tasks(put \o one("kids")) : TaskOK(t)
    BY <1>7, TasksJoin
  <2>2. /\ (put \o one("kids")) \o one("members") \in Seq(Stage)
        /\ \A t \in Tasks((put \o one("kids")) \o one("members")) : TaskOK(t)
    BY <1>7, <2>1, TasksJoin
  <2> QED BY <1>9, <2>2
<1>10. CASE Then(put \o one("values"))
  <2>1. put \o one("values") \in Seq(Stage) /\ \A t \in Tasks(put \o one("values")) : TaskOK(t)
    BY <1>7, TasksJoin
  <2> QED BY <1>10, <2>1
<1>11. CASE Then(ChildTasks(x, y))
  <2> DEFINE N == kvspaceShmList(store, edir(x), FALSE, TRUE)
             S == {Do("tree", pjoin(edir(x), n), pjoin(edir(y), n)) : n \in N}
  <2>1. ASSUME NEW n \in N
        PROVE  /\ Do("tree", pjoin(edir(x), n), pjoin(edir(y), n)) \in Task
               /\ TaskOK(Do("tree", pjoin(edir(x), n), pjoin(edir(y), n)))
    <3>1. /\ pjoin(edir(x), n) \in Key /\ pjoin(edir(y), n) \in Key
          /\ Room(call.b, pjoin(edir(y), n))
      BY <1>2, <1>3, NamesOK
    <3> QED BY <1>2, <3>1, PutIfValueOK
  <2>2. ChildTasks(x, y) = IF S = {} THEN <<>> ELSE <<S>>
    BY DEF ChildTasks, Each
  <2>3. \A t \in S : t \in Task /\ TaskOK(t)
    BY <2>1
  <2> HIDE DEF S
  <2> QED BY <1>11, <2>2, <2>3, EachOK
<1>12. CASE Then(MemberTasks(x, y))
  <2> DEFINE N == kvspaceShmList(store, memdir(x), FALSE, TRUE)
             S == {Do("tree", memdir(x) \o n, memdir(y) \o n) : n \in N}
  <2>1. ASSUME NEW n \in N
        PROVE  /\ Do("tree", memdir(x) \o n, memdir(y) \o n) \in Task
               /\ TaskOK(Do("tree", memdir(x) \o n, memdir(y) \o n))
    <3>1. memdir(x) \o n \in Key /\ memdir(y) \o n \in Key /\ Room(call.b, memdir(y) \o n)
      BY <1>2, <1>3, NamesOK
    <3> QED BY <1>2, <3>1, PutIfValueOK
  <2>2. MemberTasks(x, y) = IF S = {} THEN <<>> ELSE <<S>>
    BY DEF MemberTasks, Each
  <2>3. \A t \in S : t \in Task /\ TaskOK(t)
    BY <2>1
  <2> HIDE DEF S
  <2> QED BY <1>12, <2>2, <2>3, EachOK
<1>13. CASE Then(MemberPuts(x, y))
  <2> DEFINE N == kvspaceShmList(store, memdir(x), FALSE, TRUE)
             S == {Put(memdir(x) \o n, memdir(y) \o n) : n \in N}
  <2>1. ASSUME NEW n \in N
        PROVE  /\ Put(memdir(x) \o n, memdir(y) \o n) \in Task
               /\ TaskOK(Put(memdir(x) \o n, memdir(y) \o n))
    <3>1. memdir(x) \o n \in Key /\ memdir(y) \o n \in Key /\ Room(call.b, memdir(y) \o n)
      BY <1>2, <1>3, NamesOK
    <3> QED BY <1>2, <3>1, PutOK
  <2>2. MemberPuts(x, y) = IF S = {} THEN <<>> ELSE <<S>>
    BY DEF MemberPuts, Each
  <2>3. \A t \in S : t \in Task /\ TaskOK(t)
    BY <2>1
  <2> HIDE DEF S
  <2> QED BY <1>13, <2>2, <2>3, EachOK
<1> QED BY <1>8, <1>9, <1>10, <1>11, <1>12, <1>13

------------------------------------------------------------------------------
(* The beginning of a call *)

\* What Deltree of p has to do: for a link the link, for a tree every key.
LEMMA DeltreeTasks ==
  ASSUME Types, NEW p \in Key
  PROVE  LET q == DeltreeTodo(p)
             link == IF is_ptr_key(store, p) THEN p ELSE Base(p)
         IN /\ q \in Seq(Stage)
            /\ \A t \in Tasks(q) :
                 /\ t.do \in {"del", "rm", "rm2", "bumpAny"}
                 /\ t.do # "bumpAny" =>
                      /\ InTree(p, t.a)
                      /\ is_ptr_key(store, p) => t.a = p
                      /\ LinkAt(store, p) => t.a \in {p, Base(p)}
            /\ LinkAt(store, p) => Do("rm", link, <<>>) \in Tasks(q)
            /\ ~LinkAt(store, p) =>
                 \A k \in DOMAIN store :
                   InTree(p, k) /\ ~reserved_meta_path(k) => Do("del", k, <<>>) \in Tasks(q)
<1> DEFINE b == Base(p)
           q == DeltreeTodo(p)
<1>1. /\ p \in Path /\ b \in Path /\ <<>> \in Path /\ InTree(p, p) /\ InTree(p, b)
  BY RoomSelf DEF Path
<1>2. is_ptr_key(store, b) => b # <<>>
  BY DEF is_ptr_key, Value, Types, Key, NoValue
<1>3. CASE is_ptr_key(store, p)
  <2>1. q = One(Do("rm", p, <<>>))
    BY <1>3 DEF DeltreeTodo
  <2>2. Do("rm", p, <<>>) \in Task /\ Do("rm", p, <<>>).do = "rm" /\ Do("rm", p, <<>>).a = p
    BY <1>1, DoType DEF Dos
  <2>3. q \in Seq(Stage) /\ Tasks(q) = {Do("rm", p, <<>>)}
    BY <2>1, <2>2, TasksOne
  <2>4. LinkAt(store, p)
    BY <1>3 DEF LinkAt
  <2> QED BY <1>1, <1>3, <2>2, <2>3, <2>4
<1>4. CASE ~is_ptr_key(store, p) /\ is_ptr_key(store, b)
  <2>1. q = One(Do("rm", b, <<>>)) \o One(Do("rm2", p, <<>>))
    BY <1>2, <1>4 DEF DeltreeTodo
  <2>2. /\ Do("rm", b, <<>>) \in Task /\ Do("rm", b, <<>>).do = "rm" /\ Do("rm", b, <<>>).a = b
        /\ Do("rm2", p, <<>>) \in Task /\ Do("rm2", p, <<>>).do = "rm2" /\ Do("rm2", p, <<>>).a = p
    BY <1>1, DoType DEF Dos
  <2>3. q \in Seq(Stage) /\ Tasks(q) = {Do("rm", b, <<>>)} \union {Do("rm2", p, <<>>)}
    BY <2>1, <2>2, TasksOne, TasksJoin
  <2>4. LinkAt(store, p)
    BY <1>4 DEF LinkAt
  <2> QED BY <1>1, <1>4, <2>2, <2>3, <2>4
<1>5. CASE ~is_ptr_key(store, p) /\ ~is_ptr_key(store, b)
  <2> DEFINE K == {k \in DOMAIN store : subtree_key(b, k) /\ ~reserved_meta_path(k)}
             S == {Do("del", k, <<>>) : k \in K}
             each == IF S = {} THEN <<>> ELSE <<S>>
             last == Do("bumpAny", <<>>, <<>>)
  <2>1. q = each \o One(last)
    BY <1>5 DEF DeltreeTodo, Each
  <2>2. \A k \in K : /\ k \in Path /\ InTree(p, k)
                     /\ Do("del", k, <<>>) \in Task /\ Do("del", k, <<>>).do = "del"
                     /\ Do("del", k, <<>>).a = k
    <3>1. \A k \in K : k \in Path /\ InTree(p, k)
      BY SubtreeIsTree DEF Types, Path
    <3> QED BY <1>1, <3>1, DoType DEF Dos
  <2>3. last \in Task /\ last.do = "bumpAny"
    BY <1>1, DoType DEF Dos
  <2>4. S \in SUBSET Task
    BY <2>2
  <2>5. each \in Seq(Stage) /\ Tasks(each) = S
    BY <2>4, TasksStage
  <2>6. q \in Seq(Stage) /\ Tasks(q) = S \union {last}
    <3>1. One(last) \in Seq(Stage) /\ Tasks(One(last)) = {last}
      BY <2>3, TasksOne
    <3> HIDE DEF each, last, S, q
    <3> QED BY <2>1, <2>5, <3>1, TasksJoin
  <2>7. \A t \in Tasks(q) : /\ t.do \in {"del", "rm", "rm2", "bumpAny"}
                            /\ t.do # "bumpAny" => InTree(p, t.a)
    BY <2>2, <2>3, <2>6
  <2>8. ~LinkAt(store, p)
    BY <1>5 DEF LinkAt
  <2>9. \A k \in DOMAIN store :
          InTree(p, k) /\ ~reserved_meta_path(k) => Do("del", k, <<>>) \in Tasks(q)
    <3>1. \A k \in DOMAIN store : InTree(p, k) /\ ~reserved_meta_path(k) => k \in K
      BY SubtreeIsTree DEF Types
    <3> HIDE DEF K
    <3> QED BY <2>6, <3>1
  <2> QED BY <1>5, <2>6, <2>7, <2>8, <2>9
<1> QED BY <1>3, <1>4, <1>5

\* What a call has to do is within its scope.
PlanOK(plan) ==
  plan.rc \in {0, 1} /\ plan.todo \in Seq(Stage) /\ \A t \in Tasks(plan.todo) : TaskOK(t)'

\* A task that puts a value is well-typed.
LEMMA PutValueType ==
  ASSUME NEW k \in Path, NEW v \in TaskVal
  PROVE  /\ PutValue(k, v) \in Task
         /\ PutValue(k, v).do = "put" /\ PutValue(k, v).a = k /\ PutValue(k, v).v = v
<1>1. PutValue(k, v) = [do |-> "put", a |-> k, b |-> <<>>, v |-> v]
  BY DEF PutValue, Do
<1>2. <<>> \in Path
  BY DEF Path
<1> QED BY <1>1, <1>2 DEF Task, Dos

\* The same, past the links.
LEMMA RawType ==
  ASSUME NEW k, NEW v
  PROVE  [PutValue(k, v) EXCEPT !.do = "raw"] = [do |-> "raw", a |-> k, b |-> <<>>, v |-> v]
<1>1. PutValue(k, v) = [do |-> "put", a |-> k, b |-> <<>>, v |-> v]
  BY DEF PutValue, Do
<1> QED BY <1>1

\* A plan of one task in scope.
LEMMA PlanOne ==
  ASSUME NEW t \in Task, TaskOK(t)'
  PROVE  PlanOK(Plan(One(t)))
BY TasksOne DEF PlanOK, Plan

\* An empty plan.
LEMMA PlanNone == PlanOK(Plan(<<>>)) /\ PlanOK(Denied)
BY TasksNone DEF PlanOK, Plan, Denied

\* Every call begins with tasks in its scope.
LEMMA BeginPlan ==
  ASSUME Types, NEW c \in Calls, call' = c, was' = store
  PROVE  PlanOK(PlanOf(c))
<1>1. /\ c.op \in Ops /\ c.a \in Key /\ c.b \in Path
      /\ c.op \in {"DelKeys", "Cp", "Cptree", "Cplist"} => c.b \in Key
      /\ c.v = NoValue \/ IsValue(c.v)
      /\ c.op = "WriteNewPlace" => IsValue(c.v)
  BY KeysAssumption DEF Path
<1>2. c.a \in Path /\ <<>> \in Path /\ c.v \in TaskVal /\ Ext(c.b) \in TaskVal /\ Inline(<<>>) \in TaskVal
  BY <1>1 DEF Path, TaskVal
<1>3. CASE c.op = "Set"
  <2> DEFINE t == PutValue(c.a, c.v)
  <2>1. PlanOf(c) = Plan(One(t))
    BY <1>3 DEF PlanOf
  <2>2. InScope(call, c.a)'
    BY <1>3 DEF InScope
  <2>3. t \in Task /\ t.do = "put" /\ t.a = c.a /\ t.v = c.v
    BY <1>2, PutValueType
  <2> HIDE DEF t
  <2>4. TaskOK(t)'
    BY <1>1, <1>3, <2>2, <2>3 DEF TaskOK
  <2> QED BY <2>1, <2>3, <2>4, PlanOne
<1>4. CASE c.op = "WriteNewPlace"
  <2> DEFINE t == [PutValue(c.a, c.v) EXCEPT !.do = "raw"]
  <2>1. PlanOf(c) = Plan(One(t))
    BY <1>4 DEF PlanOf
  <2>2. InScope(call, c.a)'
    BY <1>4 DEF InScope
  <2>3. t \in Task /\ t.do = "raw" /\ t.a = c.a /\ t.v = c.v
    <3>1. t = [do |-> "raw", a |-> c.a, b |-> <<>>, v |-> c.v]
      BY RawType
    <3> HIDE DEF t
    <3> QED BY <1>2, <3>1 DEF Task, Dos
  <2> HIDE DEF t
  <2>4. TaskOK(t)'
    BY <1>1, <1>4, <2>2, <2>3 DEF TaskOK
  <2> QED BY <2>1, <2>3, <2>4, PlanOne
<1>5. CASE c.op = "Del"
  <2>1. PlanOf(c) = Plan(One(Do("rm", c.a, <<>>)))
    BY <1>5 DEF PlanOf
  <2>2. InScope(call, c.a)'
    BY <1>5 DEF InScope
  <2>3. Do("rm", c.a, <<>>) \in Task /\ Do("rm", c.a, <<>>).do = "rm" /\ Do("rm", c.a, <<>>).a = c.a
    BY <1>2, DoType DEF Dos
  <2>4. TaskOK(Do("rm", c.a, <<>>))'
    BY <1>5, <2>2, <2>3 DEF TaskOK
  <2> QED BY <2>1, <2>3, <2>4, PlanOne
<1>6. CASE c.op = "DelKeys"
  <2> DEFINE q == [i \in 1 .. 2 |-> {Do("rm2", <<c.a, c.b>>[i], <<>>)}]
  <2>1. PlanOf(c) = Plan(q)
    BY <1>6 DEF PlanOf, kvspaceDel
  <2>2. InScope(call, c.a)' /\ InScope(call, c.b)'
    BY <1>6 DEF InScope
  <2>3. \A k \in {c.a, c.b} : /\ Do("rm2", k, <<>>) \in Task
                              /\ Do("rm2", k, <<>>).do = "rm2" /\ Do("rm2", k, <<>>).a = k
    BY <1>1, <1>2, DoType DEF Dos
  <2>4. TaskOK(Do("rm2", c.a, <<>>))' /\ TaskOK(Do("rm2", c.b, <<>>))'
    BY <1>6, <2>2, <2>3 DEF TaskOK
  <2>5. q \in Seq(Stage) /\ Tasks(q) = {Do("rm2", c.a, <<>>), Do("rm2", c.b, <<>>)}
    <3>1. q = <<{Do("rm2", c.a, <<>>)}, {Do("rm2", c.b, <<>>)}>>
      OBVIOUS
    <3>2. q \in Seq(Stage)
      BY <2>3, <3>1 DEF Stage
    <3>3. DOMAIN q = {1, 2} /\ q[1] = {Do("rm2", c.a, <<>>)} /\ q[2] = {Do("rm2", c.b, <<>>)}
      OBVIOUS
    <3> HIDE DEF q
    <3> QED BY <3>2, <3>3 DEF Tasks
  <2> HIDE DEF q
  <2> QED BY <2>1, <2>4, <2>5 DEF PlanOK, Plan
<1>7. CASE c.op = "Cp"
  <2>1. PlanOf(c) = Plan(One(Put(c.a, c.b)))
    BY <1>7 DEF PlanOf
  <2>2. InScope(call, c.b)'
    BY <1>7 DEF InScope
  <2>3. Put(c.a, c.b) \in Task /\ Put(c.a, c.b).do = "cp" /\ Put(c.a, c.b).b = c.b
    BY <1>1, <1>2, DoType DEF Dos, Put
  <2>4. TaskOK(Put(c.a, c.b))'
    BY <1>1, <1>7, <2>2, <2>3 DEF TaskOK
  <2> QED BY <2>1, <2>3, <2>4, PlanOne
<1>8. CASE c.op = "Mkindex"
  <2> DEFINE t == PutValue(edir(c.a), Inline(<<>>))
  <2>1. PlanOf(c) = Plan(<<>>) \/ PlanOf(c) = Plan(One(t))
    BY <1>8 DEF PlanOf, kvspaceShmMkindex
  <2>2. InScope(call, edir(c.a))'
    BY <1>8 DEF InScope
  <2>3. edir(c.a) \in Key
    <3>1. c.a \in Seq(Token) /\ c.a # <<>> /\ c.a[1] = Slash
      BY <1>1, KeyIsSeq
    <3>2. Append(c.a, Slash) \in Seq(Token) /\ Append(c.a, Slash) # <<>> /\ Append(c.a, Slash)[1] = Slash
      BY <3>1, Alphabet
    <3> QED BY <3>1, <3>2 DEF edir, Key
  <2>4. IsValue(Inline(<<>>))
    BY DEF IsValue, Inline
  <2>5. edir(c.a) \in Path
    BY <2>3 DEF Path
  <2>6. t \in Task /\ t.do = "put" /\ t.a = edir(c.a) /\ t.v = Inline(<<>>)
    BY <1>2, <2>5, PutValueType
  <2> HIDE DEF t
  <2>7. TaskOK(t)'
    BY <1>8, <2>2, <2>3, <2>4, <2>6 DEF TaskOK
  <2> QED BY <2>1, <2>6, <2>7, PlanOne, PlanNone
<1>9. CASE c.op = "Extindex"
  <2> DEFINE t == PutValue(c.a, Ext(c.b))
  <2>1. PlanOf(c) = Denied \/ PlanOf(c) = Plan(One(t))
    BY <1>9 DEF PlanOf, kvspaceShmExtindex
  <2>2. InScope(call, c.a)'
    BY <1>9 DEF InScope
  <2>3. IsValue(Ext(c.b))
    BY DEF IsValue, Ext
  <2>4. t \in Task /\ t.do = "put" /\ t.a = c.a /\ t.v = Ext(c.b)
    BY <1>2, PutValueType
  <2> HIDE DEF t
  <2>5. TaskOK(t)'
    BY <1>1, <1>9, <2>2, <2>3, <2>4 DEF TaskOK
  <2> QED BY <2>1, <2>4, <2>5, PlanOne, PlanNone
<1>10. CASE c.op = "Deltree"
  <2>1. PlanOf(c) = Denied \/ PlanOf(c) = Plan(DeltreeTodo(c.a))
    BY <1>10 DEF PlanOf, kvspaceShmDeltree
  <2>2. ASSUME NEW t \in Tasks(DeltreeTodo(c.a))
        PROVE  TaskOK(t)'
    <3>1. /\ t.do \in {"del", "rm", "rm2", "bumpAny"}
          /\ t.do # "bumpAny" => /\ InTree(c.a, t.a)
                                 /\ is_ptr_key(store, c.a) => t.a = c.a
                                 /\ LinkAt(store, c.a) => t.a \in {c.a, Base(c.a)}
      BY <1>1, DeltreeTasks
    <3>2. t.do # "bumpAny" => InScope(call, t.a)'
      BY <1>10, <3>1 DEF InScope
    <3> QED BY <1>10, <3>1, <3>2 DEF TaskOK
  <2>3. DeltreeTodo(c.a) \in Seq(Stage)
    BY <1>1, DeltreeTasks
  <2> QED BY <2>1, <2>2, <2>3, PlanNone DEF PlanOK, Plan
<1>11. CASE c.op \in {"Cptree", "Cplist"}
  <2> DEFINE what == IF c.op = "Cptree" THEN "tree" ELSE "list"
             t0 == Do(what, c.a, c.b)
             q == DeltreeTodo(c.b) \o One(t0)
  <2>1. PlanOf(c) = Denied \/ PlanOf(c) = Plan(<<>>) \/ PlanOf(c) = Plan(q)
    BY <1>11 DEF PlanOf, kvspaceShmCptree, kvspaceShmCplist
  <2>2. t0 \in Task /\ t0.do = what /\ t0.a = c.a /\ t0.b = c.b
    BY <1>1, <1>2, DoType DEF Dos
  <2>3. \A k : InTree(c.b, k) => InScope(call, k)'
    BY <1>11 DEF InScope
  <2>4. TaskOK(t0)'
    <3>1. Room(c.b, c.b)
      BY <1>1, <1>11, RoomSelf
    <3> HIDE DEF t0
    <3> QED BY <1>1, <1>11, <2>2, <3>1 DEF TaskOK
  <2>5. ASSUME NEW t \in Tasks(DeltreeTodo(c.b))
        PROVE  TaskOK(t)'
    <3>1. t.do \in {"del", "rm", "rm2", "bumpAny"} /\ (t.do # "bumpAny" => InTree(c.b, t.a))
      BY <1>1, <1>11, DeltreeTasks
    <3> QED BY <1>11, <2>3, <3>1 DEF TaskOK
  <2>6. DeltreeTodo(c.b) \in Seq(Stage)
    BY <1>1, <1>11, DeltreeTasks
  <2>7. One(t0) \in Seq(Stage) /\ Tasks(One(t0)) = {t0}
    BY <2>2, TasksOne
  <2>8. q \in Seq(Stage) /\ Tasks(q) = Tasks(DeltreeTodo(c.b)) \union {t0}
    BY <2>6, <2>7, TasksJoin
  <2> HIDE DEF q, t0
  <2>9. PlanOK(Plan(q))
    BY <2>4, <2>5, <2>8 DEF PlanOK, Plan
  <2> QED BY <2>1, <2>9, PlanNone
<1> QED BY <1>1, <1>3, <1>4, <1>5, <1>6, <1>7, <1>8, <1>9, <1>10, <1>11 DEF Ops

\* A call begins: nothing differs yet from what it found.
LEMMA BeginStep ==
  ASSUME CallInv, NEW c \in Calls, Begin(c)
  PROVE  CallInv' /\ Quiet
<1> DEFINE plan == PlanOf(c)
<1>1. /\ todo' = plan.todo /\ rc' = plan.rc /\ calls > 0 /\ calls' = calls - 1
      /\ call' = c /\ was' = store /\ any' = FALSE
      /\ UNCHANGED <<store, listGen, owed, lc, rd>>
  BY DEF Begin, reader
<1>2. PlanOK(plan)
  BY <1>1, BeginPlan DEF CallInv
<1>3. rc' \in {0, 1} /\ todo' \in Seq(Stage) /\ \A t \in Tasks(todo') : TaskOK(t)'
  BY <1>1, <1>2 DEF PlanOK
<1> HIDE DEF plan
<1>4. Types'
  <2>1. calls' \in Nat
    BY <1>1 DEF CallInv, Types
  <2> QED BY <1>1, <1>3, <2>1 DEF CallInv, Types
<1>5. OutsideKept'
  BY <1>1 DEF OutsideKept
<1>6. ScopeInv'
  BY <1>3, <1>5 DEF ScopeInv
<1>7. GoneInv'
  <2> SUFFICES ASSUME c.op = "Deltree", rc' = 0
               PROVE  IF LinkAt(store, c.a)
                        THEN Do("rm", IF is_ptr_key(store, c.a) THEN c.a ELSE Base(c.a), <<>>)
                               \in Tasks(todo')
                        ELSE \A k \in DOMAIN store :
                               InTree(c.a, k) /\ ~reserved_meta_path(k)
                                 => Do("del", k, <<>>) \in Tasks(todo')
    BY <1>1 DEF GoneInv, LinkKey, Doomed
  <2>1. todo' = DeltreeTodo(c.a)
    BY <1>1 DEF plan, PlanOf, kvspaceShmDeltree, Denied, Plan
  <2>2. c.a \in Key
    BY KeysAssumption
  <2> QED BY <2>1, <2>2, DeltreeTasks DEF CallInv
<1>8. Quiet
  BY <1>1 DEF Quiet, CallInv, Types
<1> QED BY <1>4, <1>6, <1>7, <1>8 DEF CallInv

\* A step of the reader leaves the call alone.
LEMMA Unchanged ==
  ASSUME CallInv, UNCHANGED writer
  PROVE  CallInv'
<1>1. UNCHANGED <<store, listGen, todo, any, rc, call, was, owed, calls>>
  BY DEF writer
<1>2. Types' /\ GoneInv'
  BY <1>1 DEF CallInv, Types, GoneInv, LinkKey, Doomed
<1>3. ScopeInv'
  BY <1>1, SameTask DEF CallInv, ScopeInv, OutsideKept
<1> QED BY <1>2, <1>3 DEF CallInv

\* A bump of list_gen makes every cached list stale.
LEMMA BumpKeeps ==
  ASSUME Types, CacheInv, list_gen_bump
  PROVE  CacheInv'
<1>1. /\ UNCHANGED <<lc, rd>>
      /\ listGen' = listGen + 1 \/ UNCHANGED <<store, listGen, owed>>
  BY DEF list_gen_bump, SameCall, reader
<1>2. CASE listGen' = listGen + 1
  BY <1>1, <1>2, BumpCache
<1>3. CASE UNCHANGED <<store, listGen, owed>>
  BY <1>1, <1>3, QuietCache DEF Quiet, Types
<1> QED BY <1>1, <1>2, <1>3

------------------------------------------------------------------------------
(* The invariant *)

\* The invariant holds at first,
LEMMA InitIInv == Init => IInv
<1> SUFFICES ASSUME Init PROVE IInv
  OBVIOUS
<1>1. PICK c \in Scenarios : store = c.store /\ was = c.store /\ queries = c.queries /\ calls = c.calls
  BY DEF Init
<1>2. DOMAIN c.store \subseteq Key /\ (\A k \in DOMAIN c.store : IsValue(c.store[k])) /\ c.calls \in Nat
  BY KeysAssumption
<1>3. /\ listGen = 0 /\ todo = <<>> /\ any = FALSE /\ rc = 0 /\ owed = FALSE
      /\ call = NoCall /\ lc = NoCache /\ rd = Resting
  BY DEF Init
<1>4. call.op = "none" /\ rd.at = "rest"
  BY <1>3 DEF NoCall, Resting
<1>5. Types
  BY <1>1, <1>2, <1>3, TasksNone DEF Types
<1>6. CacheInv
  BY <1>3, <1>4 DEF CacheInv, LcInv, RdInv, Scanning
<1>7. ScopeInv
  BY <1>1, <1>3, TasksNone DEF ScopeInv, OutsideKept
<1>8. GoneInv
  BY <1>4 DEF GoneInv
<1> QED BY <1>5, <1>6, <1>7, <1>8 DEF IInv

\* and every step keeps it.
LEMMA NextIInv == IInv /\ [Next]_vars => IInv'
<1> SUFFICES ASSUME IInv, [Next]_vars PROVE IInv'
  OBVIOUS
<1>1. Types /\ CacheInv /\ ScopeInv /\ GoneInv /\ CallInv
  BY DEF IInv, CallInv
<1>2. SUFFICES CallInv' /\ CacheInv'
  BY DEF IInv, CallInv
<1>3. CASE \E c \in Calls : Begin(c)
  BY <1>1, <1>3, BeginStep, QuietCache
<1>4. CASE set_value
  BY <1>1, <1>4, SetValueStep, QuietCache
<1>5. CASE kvspaceShmCp
  BY <1>1, <1>5, CpStep, QuietCache
<1>6. CASE kvspaceShmWriteNewPlace
  BY <1>1, <1>6, WriteNewPlaceStep, QuietCache
<1>7. CASE shm_del_key
  BY <1>1, <1>7, DelKeyStep, QuietCache
<1>8. CASE kvspaceShmDel
  BY <1>1, <1>8, DelStep, QuietCache
<1>9. CASE list_gen_bump
  BY <1>1, <1>9, BumpStep, BumpKeeps
<1>10. CASE cptree_rec \/ cplist_members
  BY <1>1, <1>10, CptreeStep, QuietCache
<1>11. CASE Crash
  <2>1. todo' = <<>> /\ rc' = 1
        /\ UNCHANGED <<store, listGen, any, owed, call, was, calls, lc, rd>>
    BY <1>11 DEF Crash, reader
  <2>2. Quiet
    BY <1>1, <2>1 DEF Quiet, Types
  <2> QED BY <1>1, <2>1, <2>2, FailStep, QuietCache
<1>12. CASE (\E q \in queries : lc_load(q)) \/ lc_target \/ lc_compare \/ lc_scan \/ lc_fill
  <2>1. CacheInv'
    BY <1>1, <1>12, ReaderStep
  <2>2. UNCHANGED writer
    BY <1>12 DEF lc_load, lc_target, lc_compare, lc_scan, lc_fill
  <2>3. CallInv'
    BY <1>1, <2>2, Unchanged
  <2> QED BY <2>1, <2>3
<1>13. CASE UNCHANGED vars
  <2>1. UNCHANGED <<writer, lc, rd>>
    BY <1>13 DEF vars, reader
  <2>2. CallInv'
    BY <1>1, <2>1, Unchanged
  <2>3. Quiet
    BY <1>1, <2>1 DEF Quiet, writer, Types
  <2> QED BY <1>1, <2>2, <2>3, QuietCache
<1> QED
  BY <1>3, <1>4, <1>5, <1>6, <1>7, <1>8, <1>9, <1>10, <1>11, <1>12, <1>13 DEF Next

\* IInv is an invariant of the calls on keys and of the list cache.
THEOREM Invariance == Spec => []IInv
BY InitIInv, NextIInv, PTL DEF Spec

\* Every variable keeps its type, and the store holds nothing but keys that are
\* absolute paths with values that value_ok accepts, whatever calls are made,
\* fail half way or die (kvspaceShmSet, Cp, Cptree, Cplist, Mkindex, Extindex).
THEOREM TypeCorrect == Spec => []TypeOK
<1>1. IInv => TypeOK
  <2> SUFFICES ASSUME IInv PROVE TypeOK
    OBVIOUS
  <2>1. \A i \in DOMAIN todo : \A t \in todo[i] : t \in Task
    BY DEF IInv, Types, Stage
  <2>2. \A i \in DOMAIN todo : \A t \in todo[i] : t.do \in Dos
    BY <2>1 DEF Task
  <2> QED BY <2>2 DEF IInv, Types, CacheInv, RdInv, TypeOK, Dos
<1> QED BY <1>1, Invariance, PTL

\* list_cached answers from the cache only what a fresh scan would find, for any
\* grouping of the children, any writer and any number of listings beside it:
\* list_gen is loaded before the scan and bumped after every change of the keys.
THEOREM CacheSafety == Spec => []CacheCurrent
<1>1. IInv => CacheCurrent
  <2> SUFFICES ASSUME IInv, ~owed, lc # NoCache, NEW target, NEW ext,
                      lc.gen = listGen, lc.target = target, lc.ext = ext
               PROVE  lc.names = list_scan(store, target, ext)
    BY DEF CacheCurrent, HitIsFresh
  <2>1. lc.names = Present(lc.target, Fresh(lc.target, lc.ext))
    BY DEF IInv, CacheInv, LcInv, Current
  <2>2. DOMAIN store \subseteq Key
    BY DEF IInv, Types
  <2> QED BY <2>1, <2>2, FreshIsScan
<1> QED BY <1>1, Invariance, PTL

\* No call changes a key outside of what it names, at any step and also when it
\* fails or dies half way: Deltree stays within its tree or its link, the copies
\* within their destination at every depth of the recursion (cptree_rec).
THEOREM ScopeSafety == Spec => []OutsideKept
<1>1. IInv => OutsideKept
  BY DEF IInv, ScopeInv
<1> QED BY <1>1, Invariance, PTL

\* A Deltree that returns success has deleted every key of the tree, or the link
\* (kvspaceShmDeltree, subtree_key), for every store and every prefix.
THEOREM DeltreeSafety == Spec => []TreeGone
<1>1. IInv => TreeGone
  <2> SUFFICES ASSUME IInv, todo = <<>>, call.op = "Deltree", rc = 0, NEW k \in DOMAIN store
               PROVE  IF LinkAt(was, call.a) THEN k # LinkKey
                      ELSE ~InTree(call.a, k) \/ reserved_meta_path(k)
    BY DEF TreeGone, Idle, LinkKey
  <2>1. Tasks(todo) = {}
    BY TasksNone
  <2> QED BY <2>1 DEF IInv, GoneInv, Doomed
<1> QED BY <1>1, Invariance, PTL

=============================================================================
