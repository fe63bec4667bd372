---------------------------- MODULE RegionsProofs ----------------------------
(***************************************************************************)
(* Safety of creation, opening and growth, for any number of processes and *)
(* any reserve, with and without deaths: TypeOK, FilesCover,               *)
(* AttachInitialised, SyncCovers and AllocMapped hold in every behaviour   *)
(* of Regions.                                                             *)
(*                                                                         *)
(* The argument.  Only the one writer changes sizes, and it changes the    *)
(* file, its own mapping, and what it tells the others in this order, so   *)
(* a file is as long as what was told last, or as the growth after that,   *)
(* which a death may have cut off.  A death that leaves the header and the *)
(* box allocator apart leaves its lock taken, and then nobody gets a box.  *)
(***************************************************************************)
EXTENDS Regions, TLAPS

OutPc   == {"new", "init", "magic", "refused", "dead"}
GensPc  == {"gens1", "gens2", "gens3", "gens4"}
GrowPc  == {"grow1", "grow2", "grow3", "grow4"}
SyncPc  == {"sync1", "sync2", "sync3"}
BoxPc   == {"pool", "box", "lock", "failed", "retry"}
AllPc   == OutPc \union GensPc \union GrowPc \union SyncPc \union BoxPc
             \union {"open", "use", "drain", "alloc", "fill"}
Size    == 0 .. MaxSize
LocType == [job : Job \union {"open"}, r : Region, want : Size, seenData : Size,
            back : {"open", "sync3", "alloc", "box", "retry"}]
Mapped  == Region \union {"gen", "genN", "seen"}
Writing(p) == loc[p].job \in {"node", "box"}

Types ==
  /\ file \in [Region \union {"gen"} -> Size]
  /\ hdr \in [Region -> Size] /\ limit \in [Region -> Size] /\ used \in [Region -> Size]
  /\ m \in [Proc -> [Mapped -> Size]]
  /\ base \in [Proc -> [Region -> Size]]
  /\ magic \in BOOLEAN /\ crossed \in BOOLEAN /\ split \in [Proc -> BOOLEAN]
  /\ plock \in Proc \union {NoOne} /\ writer \in Proc \union {NoOne}
  /\ pc \in [Proc -> AllPc] /\ loc \in [Proc -> LocType]

\* A step of a call belongs to the jobs that lead to it.
JobOf(p) ==
  /\ pc[p] \in OutPc \union {"open"} => loc[p].job = "open"
  /\ pc[p] \in OutPc => loc[p].back = "open"
  /\ pc[p] \in SyncPc => loc[p].job # "open"
  /\ pc[p] = "use" => loc[p].job = "read"
  /\ pc[p] = "drain" => loc[p].job = "round"
  /\ pc[p] = "alloc" => loc[p].job = "node"
  /\ pc[p] \in BoxPc => loc[p].job = "box"
  /\ pc[p] = "fill" => Writing(p)
  /\ pc[p] \in GensPc => \/ loc[p].job = "open" /\ loc[p].back = "open"
                         \/ loc[p].job # "open" /\ loc[p].back = "sync3"
                         \/ loc[p].job = "node" /\ loc[p].back = "alloc"
  /\ pc[p] \in GrowPc => \/ loc[p].job = "node" /\ loc[p].r = "art" /\ loc[p].back = "alloc"
                         \/ /\ loc[p].job = "box" /\ loc[p].r \in Sbo
                            /\ loc[p].back \in {"box", "retry"}

Jobs == \A p \in Proc : JobOf(p)

\* One process writes; the lock is its own, or a dead one's, while a box region grows.
OneWriter == \A p \in Proc : writer = p <=> Writing(p)
Locked    == /\ plock # NoOne => \/ pc[plock] = "dead"
                                 \/ pc[plock] \in GrowPc /\ loc[plock].r \in Sbo
             /\ \A p \in Proc : pc[p] \in GrowPc /\ loc[p].r \in Sbo => plock = p
             /\ \A p \in Proc : pc[p] = "fill" /\ loc[p].job = "box" => plock = NoOne

WriterInv == Jobs /\ OneWriter /\ Locked

\* There is no header before the only creator initialises it, and nobody is inside;
\* a creator that dies before that leaves a store that nobody opens.
Blank == /\ hdr = Nothing /\ limit = Nothing /\ used = Nothing /\ ~magic
         /\ file.art \in 0 .. 1 /\ file.head = 0 /\ file.data = 0
         /\ \A p \in Proc : pc[p] \in {"new", "init", "refused", "dead"}
         /\ \A p, q \in Proc : pc[p] = "init" /\ pc[q] = "init" => p = q
         /\ \A p \in Proc : pc[p] = "init" => file.art = 1
Ready == /\ \A r \in Region : hdr[r] >= 1 /\ limit[r] >= 1
         /\ \A p \in Proc : pc[p] # "init"

Phase == Blank \/ Ready

\* What was told of a region, and the length of its file: that, or what it grows to.
Told(r) == IF r = "art" THEN hdr.art ELSE limit[r]
FileIs(r) == file[r] = Told(r) \/ (Want(r) > 0 /\ file[r] = Want(r))

\* Used is less than what the header and the allocators say; these differ only in
\* the middle of a growth, or after one was cut off.
Sizes ==
  /\ hdr.art > 0 => \A r \in Region : FileIs(r)
  /\ \A r \in Region : used[r] <= hdr[r] /\ used[r] <= limit[r]
  /\ limit.art <= hdr.art
  /\ \A r \in Sbo : hdr[r] <= limit[r]
  /\ plock = NoOne => \A r \in Sbo : hdr[r] = limit[r]

\* A growth knows its size; file, mapping and what is told follow in this order.
GrowOf(p) ==
  LET r == loc[p].r
      w == loc[p].want
  IN /\ pc[p] \in {"grow1", "grow2", "grow3"} =>
          /\ w = Want(r) /\ w > 0
          /\ \A s \in Sbo : r \in Sbo => hdr[s] = limit[s]
          /\ r = "data" => used.head < limit.head
     /\ pc[p] = "grow4" =>
          /\ Told(r) = w
          /\ \A s \in Sbo \ {r} : r \in Sbo => hdr[s] = limit[s]
     /\ pc[p] \in {"grow2", "grow3", "grow4"} => file[r] = w
     /\ pc[p] \in {"grow3", "grow4"} => m[p][r] >= w
     /\ pc[p] = "fill" =>
          \A s \in IF loc[p].job = "node" THEN {"art"} ELSE Sbo : used[s] < limit[s]

Growth == \A p \in Proc : GrowOf(p)

\* Steps of a call behind the one that maps the slab, and behind the one that maps
\* heads and data.
PastArt(p) == loc[p].job # "open" /\ pc[p] # "sync1"
PastSbo(p) == /\ loc[p].job # "open" /\ pc[p] \notin SyncPc
              /\ ~(pc[p] \in GensPc /\ loc[p].back = "sync3")

\* What is mapped is in the file; it covers what was in use when the call began, and
\* for the writer all that the header tells.
MapOf(p) ==
  /\ \A r \in Region : m[p][r] <= file[r] /\ base[p][r] <= used[r]
  /\ pc[p] \notin {"new", "init", "refused", "dead"} => \A r \in Region : m[p][r] >= 1
  /\ PastArt(p) => m[p].art >= base[p].art
  /\ PastSbo(p) => \A r \in Sbo : m[p][r] >= base[p][r]
  /\ Writing(p) /\ PastArt(p) => m[p].art >= hdr.art
  /\ Writing(p) /\ PastSbo(p) => \A r \in Sbo : m[p][r] >= hdr[r]

Maps == \A p \in Proc : MapOf(p)

\* The table of generations is as long as the slab was at some time; it covers the
\* call, unless its two loads of total_size differed.
GensOf(p) ==
  /\ m[p].gen <= limit.art /\ m[p].genN <= limit.art /\ m[p].seen <= limit.art
  /\ pc[p] \in {"gens2", "gens3", "gens4"} => loc[p].want = m[p].genN /\ base[p].art <= m[p].genN
  /\ pc[p] \notin GensPc => m[p].genN <= m[p].gen
  /\ ~split[p] /\ pc[p] # "gens2" => m[p].genN = m[p].seen
  /\ pc[p] \notin GensPc \union {"sync1", "sync2"} => split[p] \/ base[p].art <= m[p].genN
  /\ ~crossed => /\ m[p].gen <= file.gen
                 /\ pc[p] = "gens4" => loc[p].want <= file.gen

Gens == \A p \in Proc : GensOf(p)

IInv == Types /\ WriterInv /\ Phase /\ Sizes /\ Growth /\ Maps /\ Gens

------------------------------------------------------------------------------

\* Sizes, and what a process starts from, have their types.
LEMMA Constants ==
  /\ 0 \in Size /\ 1 \in Size /\ Size \subseteq Nat
  /\ Nothing \in [Region -> Size] /\ Unmapped \in [Mapped -> Size]
  /\ NoJob \in LocType
  BY RegionsAssumption DEF Size, Nothing, Unmapped, Mapped, NoJob, LocType, Region, Sbo

\* A region grows to a size within its reserve.
LEMMA WantType == ASSUME Types, NEW r \in Region PROVE Want(r) \in Size
  BY RegionsAssumption DEF Types, Want, Size, Region, Sbo

\* The parts of the state that a step reads have their types.
LEMMA Fields ==
  ASSUME Types, NEW p \in Proc
  PROVE  /\ loc[p] \in LocType /\ m[p] \in [Mapped -> Size] /\ base[p] \in [Region -> Size]
         /\ loc[p].want \in Size /\ loc[p].r \in Region
         /\ loc[p].back \in {"open", "sync3", "alloc", "box", "retry"}
         /\ hdr.art \in Size /\ hdr.head \in Size /\ hdr.data \in Size
         /\ limit.art \in Size /\ limit.head \in Size /\ limit.data \in Size
  BY DEF Types, LocType, Region, Sbo

\* What the beginning of a growth leaves behind.
LEMMA StartGrowDoes ==
  ASSUME Types, NEW p \in Proc, NEW r \in Region, NEW back \in {"alloc", "box", "retry"},
         StartGrow(p, r, back)
  PROVE  /\ loc' \in [Proc -> LocType] /\ pc' = [pc EXCEPT ![p] = "grow1"]
         /\ Want(r) > 0 /\ loc'[p].r = r /\ loc'[p].want = Want(r) /\ loc'[p].back = back
         /\ loc'[p].job = loc[p].job /\ \A q \in Proc \ {p} : loc'[q] = loc[q]
<1>1. Want(r) \in Size
  BY WantType
<1>2. loc' = [loc EXCEPT ![p].r = r, ![p].want = Want(r), ![p].back = back]
  BY DEF StartGrow
<1>3. loc[p] \in LocType
  BY DEF Types
<1>4. /\ loc'[p].r = r /\ loc'[p].want = Want(r) /\ loc'[p].back = back
      /\ loc'[p].job = loc[p].job /\ \A q \in Proc \ {p} : loc'[q] = loc[q]
  BY <1>2, <1>3 DEF Types, LocType
<1>5. loc'[p] \in LocType
  BY <1>1, <1>2, <1>3 DEF Types, LocType
<1>6. loc' \in [Proc -> LocType]
  BY <1>2, <1>4, <1>5 DEF Types
<1>. QED BY <1>4, <1>6 DEF StartGrow, Goto

\* What the end of a write leaves behind.
LEMMA EndWriteDoes ==
  ASSUME Types, NEW p \in Proc, EndWrite(p)
  PROVE  /\ loc' \in [Proc -> LocType] /\ pc' = [pc EXCEPT ![p] = "open"] /\ writer' = NoOne
         /\ loc'[p] = NoJob /\ \A q \in Proc \ {p} : loc'[q] = loc[q]
  BY Constants DEF Types, EndWrite, Goto

\* What art_balloc does.
LEMMA BallocDoes ==
  ASSUME NEW p \in Proc, balloc(p)
  PROVE  /\ pc[p] = "alloc"
         /\ UNCHANGED <<file, magic, hdr, limit, used, plock, m, base, split, crossed>>
         /\ \/ ~Full("art") /\ pc' = [pc EXCEPT ![p] = "fill"] /\ UNCHANGED <<writer, loc>>
            \/ StartGrow(p, "art", "alloc") /\ UNCHANGED writer
            \/ EndWrite(p)
  BY DEF balloc, Ghosts, Goto

\* What kv_sbo_grow does before a region grows.
LEMMA SboGrowDoes ==
  ASSUME NEW p \in Proc, sbo_grow(p)
  PROVE  /\ pc[p] \in {"lock", "failed"} /\ plock = NoOne
         /\ UNCHANGED <<file, magic, hdr, limit, used, m, base, split, crossed>>
         /\ \/ \E r \in Sbo, back \in {"box", "retry"} :
                 /\ StartGrow(p, r, back) /\ plock' = p /\ UNCHANGED writer
                 /\ r = "data" => ~Full("head")
            \/ pc' = [pc EXCEPT ![p] = "box"] /\ UNCHANGED <<plock, writer, loc>>
            \/ /\ pc' = [pc EXCEPT ![p] = "retry"] /\ UNCHANGED <<plock, writer>>
               /\ loc' = [loc EXCEPT ![p].seenData = limit.data]
            \/ EndWrite(p) /\ UNCHANGED plock
<1>1. ASSUME NEW back \in {"box", "retry"}, StartGrow(p, "head", back), plock' = p,
             UNCHANGED writer
      PROVE  \E r \in Sbo, b \in {"box", "retry"} :
               /\ StartGrow(p, r, b) /\ plock' = p /\ UNCHANGED writer
               /\ r = "data" => ~Full("head")
  BY <1>1 DEF Sbo
<1>2. ASSUME StartGrow(p, "data", "retry"), plock' = p, UNCHANGED writer, ~Full("head")
      PROVE  \E r \in Sbo, b \in {"box", "retry"} :
               /\ StartGrow(p, r, b) /\ plock' = p /\ UNCHANGED writer
               /\ r = "data" => ~Full("head")
  BY <1>2 DEF Sbo
<1>. QED BY <1>1, <1>2 DEF sbo_grow, Ghosts, Goto

\* What the last step of kv_sync maps.
LEMMA SyncedDoes ==
  ASSUME Types, NEW p \in Proc
  PROVE  /\ Synced(p) \in [Mapped -> Size]
         /\ \A s \in Mapped \ Sbo : Synced(p)[s] = m[p][s]
         /\ \A s \in Sbo : /\ Synced(p)[s] >= hdr[s] /\ Synced(p)[s] >= m[p][s]
                           /\ Synced(p)[s] \in {hdr[s], m[p][s]}
<1>. DEFINE h == IF hdr.head > m[p].head THEN hdr.head ELSE m[p].head
            d == IF hdr.data > m[p].data THEN hdr.data ELSE m[p].data
<1>1. /\ h \in Size /\ h >= hdr.head /\ h >= m[p].head /\ h \in {hdr.head, m[p].head}
      /\ d \in Size /\ d >= hdr.data /\ d >= m[p].data /\ d \in {hdr.data, m[p].data}
  <2>1. /\ hdr.head \in Size /\ hdr.data \in Size /\ m[p].head \in Size /\ m[p].data \in Size
    BY Fields DEF Mapped, Region, Sbo
  <2>2. hdr.head \in Nat /\ hdr.data \in Nat /\ m[p].head \in Nat /\ m[p].data \in Nat
    BY <2>1, Constants
  <2>3. h \in {hdr.head, m[p].head} /\ d \in {hdr.data, m[p].data}
    OBVIOUS
  <2>4. h >= hdr.head /\ h >= m[p].head /\ d >= hdr.data /\ d >= m[p].data
    BY <2>2
  <2>. QED BY <2>1, <2>3, <2>4
<1>2. Synced(p) = [m[p] EXCEPT !.head = h, !.data = d]
  BY Fields DEF Synced, Mapped, Region, Sbo
<1>. HIDE DEF h, d
<1>3. /\ Synced(p) \in [Mapped -> Size] /\ Synced(p).head = h /\ Synced(p).data = d
      /\ \A s \in Mapped \ Sbo : Synced(p)[s] = m[p][s]
  <2>1. m[p] \in [Mapped -> Size]
    BY Fields
  <2>. QED BY <2>1, <1>1, <1>2 DEF Mapped, Region, Sbo
<1>. QED BY <1>1, <1>3 DEF Sbo

\* What filling a node or a box adds.
LEMMA FillDoes ==
  ASSUME Types, Growth, NEW p \in Proc, fill(p)
  PROVE  /\ used' \in [Region -> Size]
         /\ \A s \in Region : used'[s] \in {used[s], used[s] + 1}
         /\ loc[p].job = "node" => used'.head = used.head /\ used'.data = used.data
         /\ loc[p].job # "node" => used'.art = used.art
<1>1. pc[p] = "fill"
  BY DEF fill
<1>2. \A s \in Region : used[s] \in Nat /\ limit[s] \in Size
  BY Constants DEF Types
<1>3. CASE loc[p].job = "node"
  <2>1. used' = [used EXCEPT !.art = used.art + 1]
    BY <1>3 DEF fill
  <2>2. used.art + 1 \in Size
    BY <1>1, <1>2, <1>3, RegionsAssumption DEF Growth, GrowOf, Size, Region
  <2>. QED BY <1>3, <2>1, <2>2 DEF Types, Region, Sbo
<1>4. CASE loc[p].job # "node"
  <2>1. PICK h \in 0 .. 1 : used' = [used EXCEPT !.data = used.data + 1, !.head = used.head + h]
    BY <1>4 DEF fill
  <2>2. used.head + h \in Size /\ used.data + 1 \in Size
    BY <1>1, <1>2, <1>4, RegionsAssumption DEF Growth, GrowOf, Size, Region, Sbo
  <2>3. used.head + h \in {used.head, used.head + 1}
    BY <1>2 DEF Region, Sbo
  <2>. QED BY <1>4, <2>1, <2>2, <2>3 DEF Types, Region, Sbo
<1>. QED BY <1>3, <1>4

\* The sizes that a process knows are numbers.
LEMMA NatFields ==
  ASSUME Types
  PROVE  /\ limit.art \in Nat
         /\ \A q \in Proc : /\ m[q].gen \in Nat /\ m[q].genN \in Nat /\ m[q].seen \in Nat
                            /\ loc[q].want \in Nat
<1>1. limit.art \in Nat
  BY Constants DEF Types, Region
<1>2. ASSUME NEW q \in Proc
      PROVE  m[q].gen \in Nat /\ m[q].genN \in Nat /\ m[q].seen \in Nat /\ loc[q].want \in Nat
  <2>1. m[q].gen \in Size /\ m[q].genN \in Size /\ m[q].seen \in Size /\ loc[q].want \in Size
    BY Fields DEF Mapped
  <2>. QED BY <2>1, Constants
<1>. QED BY <1>1, <1>2

\* Types are preserved.
LEMMA TypesStep == ASSUME IInv, Next PROVE Types'
<1>. USE Constants DEF IInv
<1>1. ASSUME NEW p \in Proc, open_create(p) PROVE Types'
  <2>1. pc' \in [Proc -> AllPc]
    BY <1>1, Fields DEF open_create, Types, Goto, AllPc, OutPc, GensPc, GrowPc, SyncPc,
       BoxPc
  <2>2. file' \in [Region \union {"gen"} -> Size]
    BY <1>1, Fields DEF open_create, Types, Region, Sbo
  <2>. QED BY <1>1, <2>1, <2>2 DEF open_create, Types, shared, Ghosts
<1>2. ASSUME NEW p \in Proc, open_init(p) PROVE Types'
  <2>1. pc' \in [Proc -> AllPc]
    BY <1>2, Fields DEF open_init, Types, Goto, AllPc, OutPc, GensPc, GrowPc, SyncPc,
       BoxPc
  <2>2. file' \in [Region \union {"gen"} -> Size]
    BY <1>2, Fields DEF open_init, Types, Region, Sbo
  <2>3. m' \in [Proc -> [Mapped -> Size]]
    BY <1>2, Fields DEF open_init, Types, Mapped, Region, Sbo
  <2>4. hdr' \in [Region -> Size]
    BY <1>2, Fields DEF open_init, Types, HeaderFirst
  <2>5. limit' \in [Region -> Size]
    BY <1>2, Fields DEF open_init, Types, HeaderFirst
  <2>. QED BY <1>2, <2>1, <2>2, <2>3, <2>4, <2>5 DEF open_init, Types, shared, Ghosts
<1>3. ASSUME NEW p \in Proc, open_magic(p) PROVE Types'
  <2>1. pc' \in [Proc -> AllPc]
    BY <1>3, Fields DEF open_magic, Types, Goto, AllPc, OutPc, GensPc, GrowPc, SyncPc,
       BoxPc
  <2>. QED BY <1>3, <2>1 DEF open_magic, Types, shared, Ghosts
<1>4. ASSUME NEW p \in Proc, open_attach(p) PROVE Types'
  <2>1. pc' \in [Proc -> AllPc]
    BY <1>4, Fields DEF open_attach, Types, Goto, AllPc, OutPc, GensPc, GrowPc, SyncPc,
       BoxPc
  <2>2. m' \in [Proc -> [Mapped -> Size]]
    <3>1. [m[p] EXCEPT !.art = hdr.art, !.head = hdr.head, !.data = hdr.data]
            \in [Mapped -> Size]
      BY Fields DEF Mapped, Region, Sbo
    <3>2. \/ m' = m
          \/ m' = [m EXCEPT ![p] = [m[p] EXCEPT !.art = hdr.art, !.head = hdr.head,
                                              !.data = hdr.data]]
      BY <1>4 DEF open_attach
    <3>. QED BY <3>1, <3>2 DEF Types
  <2>. QED BY <1>4, <2>1, <2>2 DEF open_attach, Types, shared, Ghosts
<1>5. ASSUME NEW p \in Proc, gens_want(p) PROVE Types'
  <2>1. pc' \in [Proc -> AllPc]
    BY <1>5, Fields DEF gens_want, Types, Goto, AllPc, OutPc, GensPc, GrowPc, SyncPc,
       BoxPc
  <2>2. m' \in [Proc -> [Mapped -> Size]]
    BY <1>5, Fields DEF gens_want, Types, Mapped, Region, Sbo
  <2>3. loc' \in [Proc -> LocType]
    BY ZenonT(30), <1>5, Fields DEF gens_want, Types, LocType
  <2>. QED BY <1>5, <2>1, <2>2, <2>3 DEF gens_want, Types, shared, Ghosts
<1>6. ASSUME NEW p \in Proc, gens_seen(p) PROVE Types'
  <2>1. pc' \in [Proc -> AllPc]
    BY <1>6, Fields DEF gens_seen, Types, Goto, AllPc, OutPc, GensPc, GrowPc, SyncPc,
       BoxPc, LocType
  <2>2. m' \in [Proc -> [Mapped -> Size]]
    BY <1>6, Fields DEF gens_seen, Types, Mapped, Region, Sbo
  <2>3. split' \in [Proc -> BOOLEAN]
    BY <1>6, Fields DEF gens_seen, Types
  <2>. QED BY <1>6, <2>1, <2>2, <2>3 DEF gens_seen, Types, shared, Ghosts
<1>7. ASSUME NEW p \in Proc, gens_ftruncate(p) PROVE Types'
  <2>1. pc' \in [Proc -> AllPc]
    BY <1>7, Fields DEF gens_ftruncate, Types, Goto, AllPc, OutPc, GensPc, GrowPc,
       SyncPc, BoxPc
  <2>2. file' \in [Region \union {"gen"} -> Size]
    BY <1>7, Fields DEF gens_ftruncate, Types, Region, Sbo
  <2>. QED BY <1>7, <2>1, <2>2 DEF gens_ftruncate, Types, shared, Ghosts
<1>8. ASSUME NEW p \in Proc, gens_map(p) PROVE Types'
  <2>1. pc' \in [Proc -> AllPc]
    BY <1>8, Fields DEF gens_map, Types, Map, Goto, AllPc, OutPc, GensPc, GrowPc,
       SyncPc, BoxPc, LocType
  <2>2. m' \in [Proc -> [Mapped -> Size]]
    BY <1>8, Fields DEF gens_map, Types, Map, Mapped, Region, Sbo
  <2>. QED BY <1>8, <2>1, <2>2 DEF gens_map, Types, shared, Ghosts
<1>9. ASSUME NEW p \in Proc, NEW job \in Job, Call(p, job) PROVE Types'
  <2>1. pc' \in [Proc -> AllPc]
    BY <1>9, Fields DEF Call, Types, Goto, AllPc, OutPc, GensPc, GrowPc, SyncPc, BoxPc
  <2>2. loc' \in [Proc -> LocType]
    BY <1>9, Fields DEF Call, Types, LocType
  <2>3. base' \in [Proc -> [Region -> Size]]
    BY <1>9, Fields DEF Call, Types
  <2>4. plock' \in Proc \union {NoOne} /\ writer' \in Proc \union {NoOne}
    BY <1>9, Fields DEF Call, Types
  <2>. QED BY <1>9, <2>1, <2>2, <2>3, <2>4 DEF Call, Types, shared, Ghosts
<1>10. ASSUME NEW p \in Proc, sync_art(p) PROVE Types'
  <2>1. pc' \in [Proc -> AllPc]
    BY <1>10, Fields DEF sync_art, Types, Map, Goto, AllPc, OutPc, GensPc, GrowPc,
       SyncPc, BoxPc
  <2>2. m' \in [Proc -> [Mapped -> Size]]
    BY <1>10, Fields DEF sync_art, Types, Map, Mapped, Region, Sbo
  <2>. QED BY <1>10, <2>1, <2>2 DEF sync_art, Types, shared, Ghosts
<1>11. ASSUME NEW p \in Proc, sync_gens(p) PROVE Types'
  <2>1. pc' \in [Proc -> AllPc]
    BY <1>11, Fields DEF sync_gens, Types, SlabGrown, Goto, AllPc, OutPc, GensPc,
       GrowPc, SyncPc, BoxPc
  <2>2. loc' \in [Proc -> LocType]
    BY ZenonT(30), <1>11, Fields DEF sync_gens, Types, SlabGrown, LocType
  <2>. QED BY <1>11, <2>1, <2>2 DEF sync_gens, Types, shared, Ghosts
<1>12. ASSUME NEW p \in Proc, sync_sbo(p) PROVE Types'
  <2>1. pc' \in [Proc -> AllPc]
    BY <1>12, Fields DEF sync_sbo, Types, Synced, Goto, AllPc, OutPc, GensPc, GrowPc,
       SyncPc, BoxPc
  <2>2. m' \in [Proc -> [Mapped -> Size]]
    BY <1>12, SyncedDoes DEF sync_sbo, Types
  <2>. QED BY <1>12, <2>1, <2>2 DEF sync_sbo, Types, shared, Ghosts
<1>13. ASSUME NEW p \in Proc, Done(p) PROVE Types'
  <2>1. pc' \in [Proc -> AllPc]
    BY <1>13, Fields DEF Done, Types, Goto, AllPc, OutPc, GensPc, GrowPc, SyncPc, BoxPc
  <2>2. loc' \in [Proc -> LocType]
    BY <1>13, Fields DEF Done, Types, LocType
  <2>3. base' \in [Proc -> [Region -> Size]]
    BY <1>13, Fields DEF Done, Types
  <2>. QED BY <1>13, <2>1, <2>2, <2>3 DEF Done, Types, shared, Ghosts
<1>14. ASSUME NEW p \in Proc, balloc(p) PROVE Types'
  <2>1. pc' \in [Proc -> AllPc]
    BY <1>14, Fields DEF balloc, Types, StartGrow, EndWrite, Goto, AllPc, OutPc, GensPc,
       GrowPc, SyncPc, BoxPc
  <2>2. loc' \in [Proc -> LocType]
    <3>1. StartGrow(p, "art", "alloc") \/ EndWrite(p) => loc' \in [Proc -> LocType]
      BY StartGrowDoes, EndWriteDoes DEF Region
    <3>2. loc \in [Proc -> LocType]
      BY DEF Types
    <3>. QED BY <1>14, <3>1, <3>2, BallocDoes
  <2>3. plock' \in Proc \union {NoOne} /\ writer' \in Proc \union {NoOne}
    BY <1>14, Fields DEF balloc, Types, StartGrow, EndWrite
  <2>. QED BY <1>14, <2>1, <2>2, <2>3 DEF balloc, Types, shared, Ghosts
<1>15. ASSUME NEW p \in Proc, pool_check(p) PROVE Types'
  <2>1. pc' \in [Proc -> AllPc]
    BY <1>15, Fields DEF pool_check, Types, Goto, AllPc, OutPc, GensPc, GrowPc, SyncPc,
       BoxPc
  <2>. QED BY <1>15, <2>1 DEF pool_check, Types, shared, Ghosts
<1>16. ASSUME NEW p \in Proc, sbo_alloc(p) PROVE Types'
  <2>1. pc' \in [Proc -> AllPc]
    BY <1>16, Fields DEF sbo_alloc, Types, Goto, AllPc, OutPc, GensPc, GrowPc, SyncPc,
       BoxPc
  <2>. QED BY <1>16, <2>1 DEF sbo_alloc, Types, shared, Ghosts
<1>17. ASSUME NEW p \in Proc, sbo_grow(p) PROVE Types'
  <2>1. pc' \in [Proc -> AllPc]
    BY <1>17, Fields DEF sbo_grow, Types, StartGrow, EndWrite, Goto, AllPc, OutPc,
       GensPc, GrowPc, SyncPc, BoxPc
  <2>2. loc' \in [Proc -> LocType]
    <3>1. [loc EXCEPT ![p].seenData = limit.data] \in [Proc -> LocType]
      BY Fields DEF LocType, Types
    <3>2. ASSUME NEW r \in Sbo, NEW back \in {"box", "retry"}, StartGrow(p, r, back)
          PROVE  loc' \in [Proc -> LocType]
      BY <3>2, StartGrowDoes DEF Region, Sbo
    <3>3. EndWrite(p) => loc' \in [Proc -> LocType]
      BY EndWriteDoes
    <3>4. loc \in [Proc -> LocType]
      BY DEF Types
    <3>. QED BY <1>17, <3>1, <3>2, <3>3, <3>4, SboGrowDoes
  <2>3. plock' \in Proc \union {NoOne} /\ writer' \in Proc \union {NoOne}
    BY <1>17, Fields DEF sbo_grow, Types, StartGrow, EndWrite
  <2>. QED BY <1>17, <2>1, <2>2, <2>3 DEF sbo_grow, Types, shared, Ghosts
<1>18. ASSUME NEW p \in Proc, sbo_retry(p) PROVE Types'
  <2>1. pc' \in [Proc -> AllPc]
    BY <1>18, Fields DEF sbo_retry, Types, EndWrite, Goto, AllPc, OutPc, GensPc, GrowPc,
       SyncPc, BoxPc
  <2>2. loc' \in [Proc -> LocType]
    BY <1>18, Fields DEF sbo_retry, Types, EndWrite, LocType
  <2>3. plock' \in Proc \union {NoOne} /\ writer' \in Proc \union {NoOne}
    BY <1>18, Fields DEF sbo_retry, Types, EndWrite
  <2>. QED BY <1>18, <2>1, <2>2, <2>3 DEF sbo_retry, Types, shared, Ghosts
<1>19. ASSUME NEW p \in Proc, grow_ftruncate(p) PROVE Types'
  <2>1. pc' \in [Proc -> AllPc]
    BY <1>19, Fields DEF grow_ftruncate, Types, Goto, AllPc, OutPc, GensPc, GrowPc,
       SyncPc, BoxPc
  <2>2. file' \in [Region \union {"gen"} -> Size]
    BY <1>19, Fields DEF grow_ftruncate, Types, Region, Sbo
  <2>. QED BY <1>19, <2>1, <2>2 DEF grow_ftruncate, Types, shared, Ghosts
<1>20. ASSUME NEW p \in Proc, grow_map(p) PROVE Types'
  <2>1. pc' \in [Proc -> AllPc]
    BY <1>20, Fields DEF grow_map, Types, Map, Goto, AllPc, OutPc, GensPc, GrowPc,
       SyncPc, BoxPc
  <2>2. m' \in [Proc -> [Mapped -> Size]]
    BY <1>20, Fields DEF grow_map, Types, Map, Mapped, Region, Sbo
  <2>. QED BY <1>20, <2>1, <2>2 DEF grow_map, Types, shared, Ghosts
<1>21. ASSUME NEW p \in Proc, grow_store(p) PROVE Types'
  <2>1. pc' \in [Proc -> AllPc]
    BY <1>21, Fields DEF grow_store, Types, Goto, AllPc, OutPc, GensPc, GrowPc, SyncPc,
       BoxPc
  <2>2. hdr' \in [Region -> Size]
    BY ZenonT(30), <1>21, Fields DEF grow_store, Types, HeaderFirst
  <2>3. limit' \in [Region -> Size]
    BY <1>21, Fields DEF grow_store, Types, HeaderFirst
  <2>4. used' \in [Region -> Size]
    <3>1. loc[p].r = "data" => used.head + 1 \in Size
      BY <1>21, RegionsAssumption DEF grow_store, Types, Growth, GrowOf, Size, Region, Sbo
    <3>. QED BY <1>21, <3>1 DEF grow_store, Rooted, Types, Region, Sbo
  <2>. QED BY <1>21, <2>1, <2>2, <2>3, <2>4 DEF grow_store, Types, shared, Ghosts
<1>22. ASSUME NEW p \in Proc, grow_publish(p) PROVE Types'
  <2>1. pc' \in [Proc -> AllPc]
    BY <1>22, Fields DEF grow_publish, Types, Goto, AllPc, OutPc, GensPc, GrowPc,
       SyncPc, BoxPc, LocType
  <2>2. hdr' \in [Region -> Size]
    BY <1>22, Fields DEF grow_publish, Types, HeaderFirst
  <2>3. limit' \in [Region -> Size]
    BY ZenonT(30), <1>22, Fields DEF grow_publish, Types, HeaderFirst
  <2>4. plock' \in Proc \union {NoOne} /\ writer' \in Proc \union {NoOne}
    BY <1>22, Fields DEF grow_publish, Types
  <2>. QED BY <1>22, <2>1, <2>2, <2>3, <2>4 DEF grow_publish, Types, shared, Ghosts
<1>23. ASSUME NEW p \in Proc, fill(p) PROVE Types'
  <2>1. pc' \in [Proc -> AllPc]
    BY <1>23, Fields DEF fill, Types, EndWrite, Goto, AllPc, OutPc, GensPc, GrowPc,
       SyncPc, BoxPc
  <2>2. used' \in [Region -> Size]
    BY <1>23, FillDoes
  <2>3. loc' \in [Proc -> LocType]
    BY <1>23, Fields DEF fill, Types, EndWrite, LocType
  <2>4. plock' \in Proc \union {NoOne} /\ writer' \in Proc \union {NoOne}
    BY <1>23, Fields DEF fill, Types, EndWrite
  <2>. QED BY <1>23, <2>1, <2>2, <2>3, <2>4 DEF fill, Types, shared, Ghosts
<1>24. ASSUME NEW p \in Proc, Die(p) PROVE Types'
  <2>1. pc' \in [Proc -> AllPc]
    BY <1>24, Fields DEF Die, Types, Goto, AllPc, OutPc, GensPc, GrowPc, SyncPc, BoxPc
  <2>2. m' \in [Proc -> [Mapped -> Size]]
    BY <1>24, Fields DEF Die, Types, Mapped, Region, Sbo
  <2>3. loc' \in [Proc -> LocType]
    BY <1>24, Fields DEF Die, Types, LocType
  <2>4. base' \in [Proc -> [Region -> Size]]
    BY <1>24, Fields DEF Die, Types
  <2>5. split' \in [Proc -> BOOLEAN]
    BY <1>24, Fields DEF Die, Types
  <2>6. plock' \in Proc \union {NoOne} /\ writer' \in Proc \union {NoOne}
    BY <1>24, Fields DEF Die, Types
  <2>. QED BY <1>24, <2>1, <2>2, <2>3, <2>4, <2>5, <2>6 DEF Die, Types, shared, Ghosts
<1>. HIDE Constants DEF IInv
<1>. QED BY <1>1, <1>2, <1>3, <1>4, <1>5, <1>6, <1>7, <1>8, <1>9, <1>10, <1>11, <1>12,
     <1>13, <1>14, <1>15, <1>16, <1>17, <1>18, <1>19, <1>20, <1>21, <1>22, <1>23,
     <1>24 DEF Next

\* One process writes.
LEMMA WriterStep == ASSUME IInv, Next PROVE WriterInv'
<1>1. ASSUME NEW p \in Proc, balloc(p) PROVE WriterInv'
  <2>0. /\ pc[p] = "alloc"
        /\ UNCHANGED <<file, magic, hdr, limit, used, plock, m, base, split, crossed>>
    BY <1>1, BallocDoes
  <2>1. CASE pc' = [pc EXCEPT ![p] = "fill"] /\ ~Full("art") /\ UNCHANGED <<writer, loc>>
    BY <2>1, <2>0 DEF Full, IInv, WriterInv, Jobs, JobOf, OneWriter, Locked, Writing,
       Types, AllPc, OutPc, GensPc, GrowPc, SyncPc, BoxPc, LocType, Region, Sbo,
       NoJob, Job
  <2>2. CASE StartGrow(p, "art", "alloc") /\ UNCHANGED writer
    <3>1. /\ pc' = [pc EXCEPT ![p] = "grow1"] /\ Want("art") > 0
          /\ loc'[p].r = "art" /\ loc'[p].want = Want("art") /\ loc'[p].back = "alloc"
          /\ loc'[p].job = loc[p].job /\ \A q \in Proc \ {p} : loc'[q] = loc[q]
      BY <2>2, StartGrowDoes DEF IInv, Region
    <3>. QED BY <2>2, <3>1, <2>0 DEF IInv, WriterInv, Jobs, JobOf, OneWriter, Locked,
       Writing, Types, AllPc, OutPc, GensPc, GrowPc, SyncPc, BoxPc, LocType, Region,
       Sbo, NoJob, Job
  <2>3. CASE EndWrite(p)
    <3>1. /\ pc' = [pc EXCEPT ![p] = "open"] /\ writer' = NoOne /\ loc'[p] = NoJob
          /\ \A q \in Proc \ {p} : loc'[q] = loc[q]
      BY <2>3, EndWriteDoes DEF IInv
    <3>2. \A q \in Proc \ {p} : pc'[q] = pc[q] /\ loc'[q] = loc[q] /\ ~Writing(q)
      BY <3>1, <2>0, RegionsAssumption DEF IInv, Types, WriterInv, Jobs, JobOf,
         OneWriter, Writing, BoxPc
    <3>3. pc'[p] = "open" /\ loc'[p].job = "open"
      BY <3>1 DEF IInv, Types, NoJob
    <3>4. Jobs'
      BY <3>2, <3>3 DEF IInv, WriterInv, Jobs, JobOf, Writing, OutPc, SyncPc, BoxPc,
         GensPc, GrowPc
    <3>5. OneWriter'
      BY <3>1, <2>0, RegionsAssumption, <3>2, <3>3 DEF OneWriter, Writing
    <3>6. Locked'
      BY <3>1, <2>0, RegionsAssumption, <3>2, <3>3 DEF IInv, WriterInv, Locked,
         Types, GrowPc
    <3>. QED BY <3>4, <3>5, <3>6 DEF WriterInv
  <2>. QED BY <2>1, <2>2, <2>3, <1>1, BallocDoes
<1>2. ASSUME NEW p \in Proc, sbo_grow(p) PROVE WriterInv'
  <2>0. /\ pc[p] \in {"lock", "failed"} /\ plock = NoOne
        /\ UNCHANGED <<file, magic, hdr, limit, used, m, base, split, crossed>>
    BY <1>2, SboGrowDoes
  <2>1. ASSUME NEW r \in Sbo, NEW back \in {"box", "retry"}, StartGrow(p, r, back),
               plock' = p, UNCHANGED writer, r = "data" => ~Full("head")
        PROVE  WriterInv'
    <3>1. /\ pc' = [pc EXCEPT ![p] = "grow1"] /\ Want(r) > 0
          /\ loc'[p].r = r /\ loc'[p].want = Want(r) /\ loc'[p].back = back
          /\ loc'[p].job = loc[p].job /\ \A q \in Proc \ {p} : loc'[q] = loc[q]
      BY <2>1, StartGrowDoes DEF IInv, Region
    <3>. QED BY <2>1, <3>1, <2>0 DEF IInv, WriterInv, Jobs, JobOf, OneWriter, Locked,
       Writing, Types, AllPc, OutPc, GensPc, GrowPc, SyncPc, BoxPc, LocType, Region,
       Sbo, NoJob, Job
  <2>2. CASE pc' = [pc EXCEPT ![p] = "box"] /\ UNCHANGED <<plock, writer, loc>>
    BY <2>2, <2>0 DEF IInv, WriterInv, Jobs, JobOf, OneWriter, Locked, Writing, Types,
       AllPc, OutPc, GensPc, GrowPc, SyncPc, BoxPc, LocType, Region, Sbo, NoJob, Job
  <2>3. CASE /\ pc' = [pc EXCEPT ![p] = "retry"] /\ UNCHANGED <<plock, writer>>
             /\ loc' = [loc EXCEPT ![p].seenData = limit.data]
    BY <2>3, <2>0 DEF IInv, WriterInv, Jobs, JobOf, OneWriter, Locked, Writing, Types,
       AllPc, OutPc, GensPc, GrowPc, SyncPc, BoxPc, LocType, Region, Sbo, NoJob, Job
  <2>4. CASE EndWrite(p) /\ UNCHANGED plock
    <3>1. /\ pc' = [pc EXCEPT ![p] = "open"] /\ writer' = NoOne /\ loc'[p] = NoJob
          /\ \A q \in Proc \ {p} : loc'[q] = loc[q]
      BY <2>4, EndWriteDoes DEF IInv
    <3>2. \A q \in Proc \ {p} : pc'[q] = pc[q] /\ loc'[q] = loc[q] /\ ~Writing(q)
      BY <2>4, <3>1, <2>0, RegionsAssumption DEF IInv, Types, WriterInv, Jobs,
         JobOf, OneWriter, Writing, BoxPc
    <3>3. pc'[p] = "open" /\ loc'[p].job = "open"
      BY <3>1 DEF IInv, Types, NoJob
    <3>4. Jobs'
      BY <3>2, <3>3 DEF IInv, WriterInv, Jobs, JobOf, Writing, OutPc, SyncPc, BoxPc,
         GensPc, GrowPc
    <3>5. OneWriter'
      BY <2>4, <3>1, <2>0, RegionsAssumption, <3>2, <3>3 DEF OneWriter, Writing
    <3>6. Locked'
      BY <2>4, <3>1, <2>0, RegionsAssumption, <3>2, <3>3 DEF IInv, WriterInv,
         Locked, Types, GrowPc
    <3>. QED BY <3>4, <3>5, <3>6 DEF WriterInv
  <2>. QED BY <2>1, <2>2, <2>3, <2>4, <1>2, SboGrowDoes
<1>3. ASSUME NEW p \in Proc, sbo_retry(p) PROVE WriterInv'
  <2>0. /\ pc[p] = "retry"
        /\ UNCHANGED <<file, magic, hdr, limit, used, plock, m, base, split, crossed>>
    BY <1>3 DEF sbo_retry, Ghosts
  <2>1. CASE pc' = [pc EXCEPT ![p] = "sync1"] /\ UNCHANGED <<writer, loc>>
    BY <2>1, <2>0 DEF IInv, WriterInv, Jobs, JobOf, OneWriter, Locked, Writing, Types,
       AllPc, OutPc, GensPc, GrowPc, SyncPc, BoxPc, LocType, Region, Sbo, NoJob, Job
  <2>2. CASE EndWrite(p)
    <3>1. /\ pc' = [pc EXCEPT ![p] = "open"] /\ writer' = NoOne /\ loc'[p] = NoJob
          /\ \A q \in Proc \ {p} : loc'[q] = loc[q]
      BY <2>2, EndWriteDoes DEF IInv
    <3>2. \A q \in Proc \ {p} : pc'[q] = pc[q] /\ loc'[q] = loc[q] /\ ~Writing(q)
      BY <3>1, <2>0, RegionsAssumption DEF IInv, Types, WriterInv, Jobs, JobOf,
         OneWriter, Writing, BoxPc
    <3>3. pc'[p] = "open" /\ loc'[p].job = "open"
      BY <3>1 DEF IInv, Types, NoJob
    <3>4. Jobs'
      BY <3>2, <3>3 DEF IInv, WriterInv, Jobs, JobOf, Writing, OutPc, SyncPc, BoxPc,
         GensPc, GrowPc
    <3>5. OneWriter'
      BY <3>1, <2>0, RegionsAssumption, <3>2, <3>3 DEF OneWriter, Writing
    <3>6. Locked'
      BY <3>1, <2>0, RegionsAssumption, <3>2, <3>3 DEF IInv, WriterInv, Locked,
         Types, GrowPc
    <3>. QED BY <3>4, <3>5, <3>6 DEF WriterInv
  <2>. QED BY <2>1, <2>2, <1>3 DEF sbo_retry, Goto
<1>. USE RegionsAssumption DEF IInv, Goto, shared, Ghosts, WriterInv, Jobs, JobOf,
   OneWriter, Locked, Writing, Types, AllPc, OutPc, GensPc, GrowPc, SyncPc, BoxPc,
   LocType, Region, Sbo, NoJob, Job
<1>4. ASSUME NEW p \in Proc, open_create(p) PROVE WriterInv'
  BY <1>4 DEF open_create
<1>5. ASSUME NEW p \in Proc, open_init(p) PROVE WriterInv'
  BY <1>5 DEF open_init
<1>6. ASSUME NEW p \in Proc, open_magic(p) PROVE WriterInv'
  BY <1>6 DEF open_magic
<1>7. ASSUME NEW p \in Proc, open_attach(p) PROVE WriterInv'
  BY <1>7 DEF open_attach
<1>8. ASSUME NEW p \in Proc, gens_want(p) PROVE WriterInv'
  BY <1>8 DEF gens_want
<1>9. ASSUME NEW p \in Proc, gens_seen(p) PROVE WriterInv'
  BY <1>9 DEF gens_seen
<1>10. ASSUME NEW p \in Proc, gens_ftruncate(p) PROVE WriterInv'
  BY <1>10 DEF gens_ftruncate
<1>11. ASSUME NEW p \in Proc, gens_map(p) PROVE WriterInv'
  BY <1>11 DEF gens_map, Map
<1>12. ASSUME NEW p \in Proc, NEW job \in Job, Call(p, job) PROVE WriterInv'
  BY <1>12 DEF Call
<1>13. ASSUME NEW p \in Proc, sync_art(p) PROVE WriterInv'
  BY <1>13 DEF sync_art, Map
<1>14. ASSUME NEW p \in Proc, sync_gens(p) PROVE WriterInv'
  BY <1>14 DEF sync_gens, SlabGrown
<1>15. ASSUME NEW p \in Proc, sync_sbo(p) PROVE WriterInv'
  BY <1>15 DEF sync_sbo, Synced
<1>16. ASSUME NEW p \in Proc, Done(p) PROVE WriterInv'
  BY <1>16 DEF Done
<1>17. ASSUME NEW p \in Proc, pool_check(p) PROVE WriterInv'
  BY <1>17 DEF pool_check, Full
<1>18. ASSUME NEW p \in Proc, sbo_alloc(p) PROVE WriterInv'
  BY <1>18 DEF sbo_alloc, Full
<1>19. ASSUME NEW p \in Proc, grow_ftruncate(p) PROVE WriterInv'
  BY <1>19 DEF grow_ftruncate
<1>20. ASSUME NEW p \in Proc, grow_map(p) PROVE WriterInv'
  BY <1>20 DEF grow_map, Map
<1>21. ASSUME NEW p \in Proc, grow_store(p) PROVE WriterInv'
  BY <1>21 DEF grow_store, HeaderFirst, Rooted
<1>22. ASSUME NEW p \in Proc, grow_publish(p) PROVE WriterInv'
  BY <1>22 DEF grow_publish, HeaderFirst
<1>23. ASSUME NEW p \in Proc, fill(p) PROVE WriterInv'
  BY <1>23 DEF fill, EndWrite
<1>24. ASSUME NEW p \in Proc, Die(p) PROVE WriterInv'
  BY <1>24 DEF Die
<1>. HIDE RegionsAssumption DEF IInv, Goto, shared, Ghosts, WriterInv, Jobs, JobOf,
   OneWriter, Locked, Writing, Types, AllPc, OutPc, GensPc, GrowPc, SyncPc, BoxPc,
   LocType, Region, Sbo, NoJob, Job
<1>. QED BY <1>1, <1>2, <1>3, <1>4, <1>5, <1>6, <1>7, <1>8, <1>9, <1>10, <1>11, <1>12,
     <1>13, <1>14, <1>15, <1>16, <1>17, <1>18, <1>19, <1>20, <1>21, <1>22, <1>23,
     <1>24 DEF Next

\* Most steps leave the files, the header and the allocators alone, and initialise nothing.
LEMMA Quiet ==
  ASSUME Types, NEW p \in Proc,
         \/ open_attach(p) \/ gens_want(p) \/ gens_seen(p) \/ gens_map(p)
         \/ \E job \in Job : Call(p, job)
         \/ sync_art(p) \/ sync_gens(p) \/ sync_sbo(p) \/ Done(p)
         \/ balloc(p) \/ pool_check(p) \/ sbo_alloc(p) \/ sbo_retry(p) \/ grow_map(p) \/ Die(p)
  PROVE  /\ UNCHANGED <<file, magic, hdr, limit, used, plock>>
         /\ \/ pc[p] = "new" /\ (magic \/ pc' = [pc EXCEPT ![p] = "refused"])
            \/ pc[p] \notin {"new", "init", "refused", "dead"}
            \/ pc[p] = "init" /\ pc' = [pc EXCEPT ![p] = "dead"]
         /\ pc'[p] \notin {"new", "init"} /\ \A q \in Proc \ {p} : pc'[q] = pc[q]
<1>. USE DEF Goto, shared, Ghosts, Types
<1>1. CASE open_attach(p)
  BY <1>1 DEF open_attach
<1>2. CASE gens_want(p) \/ gens_map(p)
  BY <1>2 DEF gens_want, gens_map, LocType
<1>3. CASE gens_seen(p)
  BY <1>3 DEF gens_seen, LocType
<1>4. CASE (\E job \in Job : Call(p, job)) \/ Done(p)
  BY <1>4 DEF Call, Done
<1>5. CASE sync_art(p) \/ sync_gens(p)
  BY <1>5 DEF sync_art, sync_gens
<1>6. CASE sync_sbo(p)
  BY <1>6 DEF sync_sbo
<1>7. CASE balloc(p)
  BY <1>7 DEF balloc, StartGrow, EndWrite
<1>8. CASE pool_check(p) \/ sbo_alloc(p) \/ grow_map(p)
  BY <1>8 DEF pool_check, sbo_alloc, grow_map
<1>9. CASE sbo_retry(p)
  BY <1>9 DEF sbo_retry, EndWrite
<1>10. CASE Die(p)
  BY <1>10 DEF Die
<1>. QED BY <1>1, <1>2, <1>3, <1>4, <1>5, <1>6, <1>7, <1>8, <1>9, <1>10

\* The store is blank until its creator has initialised it.
LEMMA PhaseStep == ASSUME IInv, Next PROVE Phase'
<1>1. ASSUME NEW p \in Proc, UNCHANGED <<file, magic, hdr, limit, used, plock>>,
             \/ pc[p] = "new" /\ (magic \/ pc' = [pc EXCEPT ![p] = "refused"])
             \/ pc[p] \notin {"new", "init", "refused", "dead"}
             \/ pc[p] = "init" /\ pc' = [pc EXCEPT ![p] = "dead"],
             pc'[p] \notin {"new", "init"}, \A q \in Proc \ {p} : pc'[q] = pc[q]
      PROVE  Phase'
  BY <1>1 DEF IInv, Phase, Blank, Ready, Types
<1>2. ASSUME NEW p \in Proc,
             \/ open_attach(p) \/ gens_want(p) \/ gens_seen(p) \/ gens_map(p)
             \/ \E job \in Job : Call(p, job)
             \/ sync_art(p) \/ sync_gens(p) \/ sync_sbo(p) \/ Done(p)
             \/ balloc(p) \/ pool_check(p) \/ sbo_alloc(p) \/ sbo_retry(p)
             \/ grow_map(p) \/ Die(p)
      PROVE  Phase'
  <2>1. Types
    BY DEF IInv
  <2>. QED BY <1>1, <1>2, <2>1, Quiet
<1>3. ASSUME NEW p \in Proc, sbo_grow(p) PROVE Phase'
  <2>0. /\ pc[p] \in {"lock", "failed"} /\ plock = NoOne
        /\ UNCHANGED <<file, magic, hdr, limit, used, m, base, split, crossed>>
    BY <1>3, SboGrowDoes
  <2>1. ASSUME NEW r \in Sbo, NEW back \in {"box", "retry"}, StartGrow(p, r, back),
               plock' = p, UNCHANGED writer, r = "data" => ~Full("head")
        PROVE  Phase'
    <3>1. /\ pc' = [pc EXCEPT ![p] = "grow1"] /\ Want(r) > 0
          /\ loc'[p].r = r /\ loc'[p].want = Want(r) /\ loc'[p].back = back
          /\ loc'[p].job = loc[p].job /\ \A q \in Proc \ {p} : loc'[q] = loc[q]
      BY <2>1, StartGrowDoes DEF IInv, Region
    <3>. QED BY <2>1, <3>1, <2>0 DEF IInv, Phase, Blank, Ready, Types, Region, Sbo,
       Nothing, Sizes, Told, FileIs, Want, Growth, GrowOf, WriterInv, Jobs, JobOf,
       Size, LocType
  <2>2. CASE pc' = [pc EXCEPT ![p] = "box"] /\ UNCHANGED <<plock, writer, loc>>
    BY <2>2, <2>0 DEF IInv, Phase, Blank, Ready, Types, Region, Sbo, Nothing, Sizes,
       Told, FileIs, Want, Growth, GrowOf, WriterInv, Jobs, JobOf, Size, LocType
  <2>3. CASE /\ pc' = [pc EXCEPT ![p] = "retry"] /\ UNCHANGED <<plock, writer>>
             /\ loc' = [loc EXCEPT ![p].seenData = limit.data]
    BY <2>3, <2>0 DEF IInv, Phase, Blank, Ready, Types, Region, Sbo, Nothing, Sizes,
       Told, FileIs, Want, Growth, GrowOf, WriterInv, Jobs, JobOf, Size, LocType
  <2>4. CASE EndWrite(p) /\ UNCHANGED plock
    <3>1. /\ pc' = [pc EXCEPT ![p] = "open"] /\ writer' = NoOne /\ loc'[p] = NoJob
          /\ \A q \in Proc \ {p} : loc'[q] = loc[q]
      BY <2>4, EndWriteDoes DEF IInv
    <3>. QED BY <2>4, <3>1, <2>0, RegionsAssumption DEF IInv, Phase, Blank, Ready,
       Types, Region, Sbo, Nothing, Sizes, Told, FileIs, Want, Growth, GrowOf,
       WriterInv, Jobs, JobOf, Size, LocType
  <2>. QED BY <2>1, <2>2, <2>3, <2>4, <1>3, SboGrowDoes
<1>4. ASSUME NEW p \in Proc, grow_publish(p) PROVE Phase'
  <2>1. Ready /\ Told(loc[p].r) = loc[p].want /\ loc[p].r \in Region
    BY <1>4, Fields DEF grow_publish, IInv, Phase, Blank, Growth, GrowOf
  <2>2. loc[p].want >= 1
    BY <2>1 DEF Told, Ready, Region
  <2>3. \A r \in Region : hdr'[r] >= 1 /\ limit'[r] >= 1
    BY <1>4, <2>1, <2>2 DEF grow_publish, HeaderFirst, Ready, IInv, Types
  <2>4. \A q \in Proc : pc'[q] # "init"
    BY <1>4, <2>1, Fields DEF grow_publish, Goto, Ready, IInv, Types
  <2>. QED BY <2>3, <2>4 DEF Phase, Ready
<1>. USE RegionsAssumption DEF IInv, Goto, shared, Ghosts, Phase, Blank, Ready, Types,
   Region, Sbo, Nothing, Sizes, Told, FileIs, Want, Growth, GrowOf, WriterInv, Jobs,
   JobOf, Size, LocType
<1>5. ASSUME NEW p \in Proc, open_create(p) PROVE Phase'
  BY <1>5 DEF open_create
<1>6. ASSUME NEW p \in Proc, open_init(p) PROVE Phase'
  BY <1>6 DEF open_init
<1>7. ASSUME NEW p \in Proc, open_magic(p) PROVE Phase'
  BY <1>7 DEF open_magic
<1>8. ASSUME NEW p \in Proc, gens_ftruncate(p) PROVE Phase'
  BY <1>8 DEF gens_ftruncate
<1>9. ASSUME NEW p \in Proc, grow_ftruncate(p) PROVE Phase'
  BY <1>9 DEF grow_ftruncate
<1>10. ASSUME NEW p \in Proc, grow_store(p) PROVE Phase'
  BY <1>10 DEF grow_store, HeaderFirst, Rooted
<1>11. ASSUME NEW p \in Proc, fill(p) PROVE Phase'
  BY <1>11 DEF fill, EndWrite
<1>. HIDE RegionsAssumption DEF IInv, Goto, shared, Ghosts, Phase, Blank, Ready, Types,
   Region, Sbo, Nothing, Sizes, Told, FileIs, Want, Growth, GrowOf, WriterInv, Jobs,
   JobOf, Size, LocType
<1>. QED BY <1>1, <1>2, <1>3, <1>4, <1>5, <1>6, <1>7, <1>8, <1>9, <1>10, <1>11 DEF
     Next

\* Header, allocators and files agree.
LEMMA SizesStep == ASSUME IInv, Next PROVE Sizes'
<1>1. ASSUME NEW p \in Proc, UNCHANGED <<file, magic, hdr, limit, used, plock>>,
             \/ pc[p] = "new" /\ (magic \/ pc' = [pc EXCEPT ![p] = "refused"])
             \/ pc[p] \notin {"new", "init", "refused", "dead"}
             \/ pc[p] = "init" /\ pc' = [pc EXCEPT ![p] = "dead"],
             pc'[p] \notin {"new", "init"}, \A q \in Proc \ {p} : pc'[q] = pc[q]
      PROVE  Sizes'
  BY <1>1 DEF IInv, Sizes, FileIs, Told, Want, Phase, Ready, Blank, Types, Region, Nothing
<1>2. ASSUME NEW p \in Proc,
             \/ open_attach(p) \/ gens_want(p) \/ gens_seen(p) \/ gens_map(p)
             \/ \E job \in Job : Call(p, job)
             \/ sync_art(p) \/ sync_gens(p) \/ sync_sbo(p) \/ Done(p)
             \/ balloc(p) \/ pool_check(p) \/ sbo_alloc(p) \/ sbo_retry(p)
             \/ grow_map(p) \/ Die(p)
      PROVE  Sizes'
  <2>1. Types
    BY DEF IInv
  <2>. QED BY <1>1, <1>2, <2>1, Quiet
<1>3. ASSUME NEW p \in Proc, sbo_grow(p) PROVE Sizes'
  <2>0. /\ pc[p] \in {"lock", "failed"} /\ plock = NoOne
        /\ UNCHANGED <<file, magic, hdr, limit, used, m, base, split, crossed>>
    BY <1>3, SboGrowDoes
  <2>1. ASSUME NEW r \in Sbo, NEW back \in {"box", "retry"}, StartGrow(p, r, back),
               plock' = p, UNCHANGED writer, r = "data" => ~Full("head")
        PROVE  Sizes'
    <3>1. /\ pc' = [pc EXCEPT ![p] = "grow1"] /\ Want(r) > 0
          /\ loc'[p].r = r /\ loc'[p].want = Want(r) /\ loc'[p].back = back
          /\ loc'[p].job = loc[p].job /\ \A q \in Proc \ {p} : loc'[q] = loc[q]
      BY <2>1, StartGrowDoes DEF IInv, Region
    <3>. QED BY <2>1, <3>1, <2>0 DEF IInv, Sizes, FileIs, Told, Want, Full, Phase,
       Blank, Ready, Growth, GrowOf, WriterInv, Jobs, JobOf, OneWriter, Locked,
       Writing, Types, LocType, Size, Region, Sbo, Nothing, GrowPc, GensPc, OutPc,
       BoxPc, SyncPc
  <2>2. CASE pc' = [pc EXCEPT ![p] = "box"] /\ UNCHANGED <<plock, writer, loc>>
    BY <2>2, <2>0 DEF IInv, Sizes, FileIs, Told, Want, Full, Phase, Blank, Ready,
       Growth, GrowOf, WriterInv, Jobs, JobOf, OneWriter, Locked, Writing, Types,
       LocType, Size, Region, Sbo, Nothing, GrowPc, GensPc, OutPc, BoxPc, SyncPc
  <2>3. CASE /\ pc' = [pc EXCEPT ![p] = "retry"] /\ UNCHANGED <<plock, writer>>
             /\ loc' = [loc EXCEPT ![p].seenData = limit.data]
    BY <2>3, <2>0 DEF IInv, Sizes, FileIs, Told, Want, Full, Phase, Blank, Ready,
       Growth, GrowOf, WriterInv, Jobs, JobOf, OneWriter, Locked, Writing, Types,
       LocType, Size, Region, Sbo, Nothing, GrowPc, GensPc, OutPc, BoxPc, SyncPc
  <2>4. CASE EndWrite(p) /\ UNCHANGED plock
    <3>1. /\ pc' = [pc EXCEPT ![p] = "open"] /\ writer' = NoOne /\ loc'[p] = NoJob
          /\ \A q \in Proc \ {p} : loc'[q] = loc[q]
      BY <2>4, EndWriteDoes DEF IInv
    <3>. QED BY <2>4, <3>1, <2>0, RegionsAssumption DEF IInv, Sizes, FileIs, Told,
       Want, Full, Phase, Blank, Ready, Growth, GrowOf, WriterInv, Jobs, JobOf,
       OneWriter, Locked, Writing, Types, LocType, Size, Region, Sbo, Nothing, GrowPc,
       GensPc, OutPc, BoxPc, SyncPc
  <2>. QED BY <2>1, <2>2, <2>3, <2>4, <1>3, SboGrowDoes
<1>4. ASSUME NEW p \in Proc, fill(p) PROVE Sizes'
  <2>1. /\ UNCHANGED <<file, hdr, limit, plock>> /\ used' \in [Region -> Size]
        /\ \A s \in Region : used'[s] \in {used[s], used[s] + 1}
        /\ loc[p].job = "node" => used'.head = used.head /\ used'.data = used.data
        /\ loc[p].job # "node" => used'.art = used.art
    BY <1>4, FillDoes DEF fill, IInv
  <2>2. \A s \in Region : used'[s] <= limit[s] /\ used'[s] <= hdr[s]
    <3>1. /\ loc[p].job = "node" => used.art < limit.art /\ used.art < hdr.art
          /\ loc[p].job # "node" => \A s \in Sbo : used[s] < limit[s] /\ used[s] < hdr[s]
      BY <1>4, RegionsAssumption DEF fill, IInv, Growth, GrowOf, Sizes, WriterInv,
         Locked, Jobs, JobOf, Writing, Types, Size, Region, Sbo
    <3>. QED BY <2>1, <3>1, RegionsAssumption DEF IInv, Types, Sizes, Size, Region, Sbo
  <2>. QED BY <2>1, <2>2 DEF IInv, Sizes, FileIs, Told, Want
<1>. USE RegionsAssumption DEF IInv, Goto, shared, Ghosts, Sizes, FileIs, Told, Want,
   Full, Phase, Blank, Ready, Growth, GrowOf, WriterInv, Jobs, JobOf, OneWriter, Locked,
   Writing, Types, LocType, Size, Region, Sbo, Nothing, GrowPc, GensPc, OutPc, BoxPc,
   SyncPc
<1>5. ASSUME NEW p \in Proc, open_create(p) PROVE Sizes'
  BY <1>5 DEF open_create
<1>6. ASSUME NEW p \in Proc, open_init(p) PROVE Sizes'
  BY <1>6 DEF open_init
<1>7. ASSUME NEW p \in Proc, open_magic(p) PROVE Sizes'
  BY <1>7 DEF open_magic
<1>8. ASSUME NEW p \in Proc, gens_ftruncate(p) PROVE Sizes'
  BY <1>8 DEF gens_ftruncate
<1>9. ASSUME NEW p \in Proc, grow_ftruncate(p) PROVE Sizes'
  BY <1>9 DEF grow_ftruncate
<1>10. ASSUME NEW p \in Proc, grow_store(p) PROVE Sizes'
  BY <1>10 DEF grow_store, HeaderFirst, Rooted
<1>11. ASSUME NEW p \in Proc, grow_publish(p) PROVE Sizes'
  BY <1>11 DEF grow_publish, HeaderFirst
<1>. HIDE RegionsAssumption DEF IInv, Goto, shared, Ghosts, Sizes, FileIs, Told, Want,
   Full, Phase, Blank, Ready, Growth, GrowOf, WriterInv, Jobs, JobOf, OneWriter, Locked,
   Writing, Types, LocType, Size, Region, Sbo, Nothing, GrowPc, GensPc, OutPc, BoxPc,
   SyncPc
<1>. QED BY <1>1, <1>2, <1>3, <1>4, <1>5, <1>6, <1>7, <1>8, <1>9, <1>10, <1>11 DEF
     Next

\* A growth goes from the file over the mapping to what is told.
LEMMA GrowthStep == ASSUME IInv, Next PROVE Growth'
<1>1. ASSUME NEW p \in Proc, open_create(p) PROVE Growth'
  <2>1. Blank
    BY <1>1, RegionsAssumption
       DEF open_create, IInv, Types, Size, Phase, Ready, Sizes, FileIs, Told, Region
  <2>. QED
    <3>1. \A q \in Proc : pc'[q] \notin GrowPc \union {"fill"}
      BY <1>1, <2>1 DEF open_create, Goto, IInv, Types, Blank, GrowPc
    <3>. QED BY <3>1 DEF Growth, GrowOf, GrowPc
<1>2. ASSUME NEW p \in Proc, open_init(p) PROVE Growth'
  <2>1. Blank
    BY <1>2 DEF open_init, IInv, Phase, Ready
  <2>. QED
    <3>1. \A q \in Proc : pc'[q] \notin GrowPc \union {"fill"}
      BY <1>2, <2>1 DEF open_init, Goto, IInv, Types, Blank, GrowPc
    <3>. QED BY <3>1 DEF Growth, GrowOf, GrowPc
<1>3. ASSUME NEW p \in Proc, gens_seen(p) PROVE Growth'
  <2>1. pc'[p] \in {"open", "sync3", "alloc", "box", "retry", "gens1", "gens3"}
    BY <1>3, Fields DEF gens_seen, Goto, IInv, Types
  <2>2. /\ UNCHANGED <<file, hdr, limit, used, loc>>
        /\ \A q \in Proc \ {p} : pc'[q] = pc[q] /\ m'[q] = m[q]
    BY <1>3 DEF gens_seen, Goto, shared, Ghosts, Map, IInv, Types
  <2>. QED BY ZenonT(30), <2>1, <2>2 DEF IInv, Growth, GrowOf, Told, Want
<1>4. ASSUME NEW p \in Proc, gens_map(p) PROVE Growth'
  <2>1. pc'[p] \in {"open", "sync3", "alloc", "box", "retry", "gens1", "gens3"}
    BY <1>4, Fields DEF gens_map, Goto, IInv, Types
  <2>2. /\ UNCHANGED <<file, hdr, limit, used, loc>>
        /\ \A q \in Proc \ {p} : pc'[q] = pc[q] /\ m'[q] = m[q]
    BY <1>4 DEF gens_map, Goto, shared, Ghosts, Map, IInv, Types
  <2>. QED BY ZenonT(30), <2>1, <2>2 DEF IInv, Growth, GrowOf, Told, Want
<1>5. ASSUME NEW p \in Proc, balloc(p) PROVE Growth'
  <2>0. /\ pc[p] = "alloc"
        /\ UNCHANGED <<file, magic, hdr, limit, used, plock, m, base, split, crossed>>
    BY <1>5, BallocDoes
  <2>1. CASE pc' = [pc EXCEPT ![p] = "fill"] /\ ~Full("art") /\ UNCHANGED <<writer, loc>>
    BY <2>1, <2>0 DEF Full, IInv, Growth, GrowOf, Told, Want, Full, Sizes, WriterInv,
       Jobs, JobOf, OneWriter, Locked, Writing, Types, Mapped, LocType, Size, Region,
       Sbo, GrowPc, BoxPc, Job, NoJob
  <2>2. CASE StartGrow(p, "art", "alloc") /\ UNCHANGED writer
    <3>1. /\ pc' = [pc EXCEPT ![p] = "grow1"] /\ Want("art") > 0
          /\ loc'[p].r = "art" /\ loc'[p].want = Want("art") /\ loc'[p].back = "alloc"
          /\ loc'[p].job = loc[p].job /\ \A q \in Proc \ {p} : loc'[q] = loc[q]
      BY <2>2, StartGrowDoes DEF IInv, Region
    <3>. QED BY <2>2, <3>1, <2>0 DEF IInv, Growth, GrowOf, Told, Want, Full, Sizes,
       WriterInv, Jobs, JobOf, OneWriter, Locked, Writing, Types, Mapped, LocType,
       Size, Region, Sbo, GrowPc, BoxPc, Job, NoJob
  <2>3. CASE EndWrite(p)
    <3>1. /\ pc' = [pc EXCEPT ![p] = "open"] /\ writer' = NoOne /\ loc'[p] = NoJob
          /\ \A q \in Proc \ {p} : loc'[q] = loc[q]
      BY <2>3, EndWriteDoes DEF IInv
    <3>. QED BY <3>1, <2>0, RegionsAssumption DEF IInv, Growth, GrowOf, Told, Want,
       Full, Sizes, WriterInv, Jobs, JobOf, OneWriter, Locked, Writing, Types, Mapped,
       LocType, Size, Region, Sbo, GrowPc, BoxPc, Job, NoJob
  <2>. QED BY <2>1, <2>2, <2>3, <1>5, BallocDoes
<1>6. ASSUME NEW p \in Proc, sbo_grow(p) PROVE Growth'
  <2>0. /\ pc[p] \in {"lock", "failed"} /\ plock = NoOne
        /\ UNCHANGED <<file, magic, hdr, limit, used, m, base, split, crossed>>
    BY <1>6, SboGrowDoes
  <2>1. ASSUME NEW r \in Sbo, NEW back \in {"box", "retry"}, StartGrow(p, r, back),
               plock' = p, UNCHANGED writer, r = "data" => ~Full("head")
        PROVE  Growth'
    <3>1. /\ pc' = [pc EXCEPT ![p] = "grow1"] /\ Want(r) > 0
          /\ loc'[p].r = r /\ loc'[p].want = Want(r) /\ loc'[p].back = back
          /\ loc'[p].job = loc[p].job /\ \A q \in Proc \ {p} : loc'[q] = loc[q]
      BY <2>1, StartGrowDoes DEF IInv, Region
    <3>. QED BY <2>1, <3>1, <2>0 DEF IInv, Growth, GrowOf, Told, Want, Full, Sizes,
       WriterInv, Jobs, JobOf, OneWriter, Locked, Writing, Types, Mapped, LocType,
       Size, Region, Sbo, GrowPc, BoxPc, Job, NoJob
  <2>2. CASE pc' = [pc EXCEPT ![p] = "box"] /\ UNCHANGED <<plock, writer, loc>>
    BY <2>2, <2>0 DEF IInv, Growth, GrowOf, Told, Want, Full, Sizes, WriterInv, Jobs,
       JobOf, OneWriter, Locked, Writing, Types, Mapped, LocType, Size, Region, Sbo,
       GrowPc, BoxPc, Job, NoJob
  <2>3. CASE /\ pc' = [pc EXCEPT ![p] = "retry"] /\ UNCHANGED <<plock, writer>>
             /\ loc' = [loc EXCEPT ![p].seenData = limit.data]
    BY <2>3, <2>0 DEF IInv, Growth, GrowOf, Told, Want, Full, Sizes, WriterInv, Jobs,
       JobOf, OneWriter, Locked, Writing, Types, Mapped, LocType, Size, Region, Sbo,
       GrowPc, BoxPc, Job, NoJob
  <2>4. CASE EndWrite(p) /\ UNCHANGED plock
    <3>1. /\ pc' = [pc EXCEPT ![p] = "open"] /\ writer' = NoOne /\ loc'[p] = NoJob
          /\ \A q \in Proc \ {p} : loc'[q] = loc[q]
      BY <2>4, EndWriteDoes DEF IInv
    <3>. QED BY <2>4, <3>1, <2>0, RegionsAssumption DEF IInv, Growth, GrowOf, Told,
       Want, Full, Sizes, WriterInv, Jobs, JobOf, OneWriter, Locked, Writing, Types,
       Mapped, LocType, Size, Region, Sbo, GrowPc, BoxPc, Job, NoJob
  <2>. QED BY <2>1, <2>2, <2>3, <2>4, <1>6, SboGrowDoes
<1>7. ASSUME NEW p \in Proc, sbo_retry(p) PROVE Growth'
  <2>0. /\ pc[p] = "retry"
        /\ UNCHANGED <<file, magic, hdr, limit, used, plock, m, base, split, crossed>>
    BY <1>7 DEF sbo_retry, Ghosts
  <2>1. CASE pc' = [pc EXCEPT ![p] = "sync1"] /\ UNCHANGED <<writer, loc>>
    BY <2>1, <2>0 DEF IInv, Growth, GrowOf, Told, Want, Full, Sizes, WriterInv, Jobs,
       JobOf, OneWriter, Locked, Writing, Types, Mapped, LocType, Size, Region, Sbo,
       GrowPc, BoxPc, Job, NoJob
  <2>2. CASE EndWrite(p)
    <3>1. /\ pc' = [pc EXCEPT ![p] = "open"] /\ writer' = NoOne /\ loc'[p] = NoJob
          /\ \A q \in Proc \ {p} : loc'[q] = loc[q]
      BY <2>2, EndWriteDoes DEF IInv
    <3>. QED BY <3>1, <2>0, RegionsAssumption DEF IInv, Growth, GrowOf, Told, Want,
       Full, Sizes, WriterInv, Jobs, JobOf, OneWriter, Locked, Writing, Types, Mapped,
       LocType, Size, Region, Sbo, GrowPc, BoxPc, Job, NoJob
  <2>. QED BY <2>1, <2>2, <1>7 DEF sbo_retry, Goto
<1>8. ASSUME NEW p \in Proc, grow_publish(p) PROVE Growth'
  <2>1. pc'[p] \in {"open", "sync3", "alloc", "box", "retry", "gens1", "gens3"}
    BY <1>8, Fields DEF grow_publish, Goto, IInv, Types
  <2>2. \A q \in Proc \ {p} : pc'[q] = pc[q] /\ ~Writing(q)
    BY <1>8 DEF grow_publish, Goto, IInv, Types, WriterInv, Jobs, JobOf, OneWriter,
       Writing, GrowPc
  <2>3. \A q \in Proc : pc'[q] \notin GrowPc \union {"fill"}
    BY <2>1, <2>2 DEF IInv, WriterInv, Jobs, JobOf, Writing, GrowPc
  <2>. QED BY <2>3 DEF Growth, GrowOf, GrowPc
<1>. USE RegionsAssumption DEF IInv, Goto, shared, Ghosts, Growth, GrowOf, Told, Want,
   Full, Sizes, WriterInv, Jobs, JobOf, OneWriter, Locked, Writing, Types, Mapped,
   LocType, Size, Region, Sbo, GrowPc, BoxPc, Job, NoJob
<1>9. ASSUME NEW p \in Proc, open_magic(p) PROVE Growth'
  BY <1>9 DEF open_magic
<1>10. ASSUME NEW p \in Proc, open_attach(p) PROVE Growth'
  BY <1>10 DEF open_attach
<1>11. ASSUME NEW p \in Proc, gens_want(p) PROVE Growth'
  BY <1>11 DEF gens_want
<1>12. ASSUME NEW p \in Proc, gens_ftruncate(p) PROVE Growth'
  BY <1>12 DEF gens_ftruncate
<1>13. ASSUME NEW p \in Proc, NEW job \in Job, Call(p, job) PROVE Growth'
  BY <1>13 DEF Call
<1>14. ASSUME NEW p \in Proc, sync_art(p) PROVE Growth'
  BY <1>14 DEF sync_art, Map
<1>15. ASSUME NEW p \in Proc, sync_gens(p) PROVE Growth'
  BY <1>15 DEF sync_gens, SlabGrown
<1>16. ASSUME NEW p \in Proc, sync_sbo(p) PROVE Growth'
  BY <1>16 DEF sync_sbo, Synced
<1>17. ASSUME NEW p \in Proc, Done(p) PROVE Growth'
  BY <1>17 DEF Done
<1>18. ASSUME NEW p \in Proc, pool_check(p) PROVE Growth'
  BY <1>18 DEF pool_check, Full
<1>19. ASSUME NEW p \in Proc, sbo_alloc(p) PROVE Growth'
  BY <1>19 DEF sbo_alloc, Full
<1>20. ASSUME NEW p \in Proc, grow_ftruncate(p) PROVE Growth'
  BY <1>20 DEF grow_ftruncate
<1>21. ASSUME NEW p \in Proc, grow_map(p) PROVE Growth'
  BY <1>21 DEF grow_map, Map
<1>22. ASSUME NEW p \in Proc, grow_store(p) PROVE Growth'
  BY <1>22 DEF grow_store, HeaderFirst, Rooted
<1>23. ASSUME NEW p \in Proc, fill(p) PROVE Growth'
  BY <1>23 DEF fill, EndWrite
<1>24. ASSUME NEW p \in Proc, Die(p) PROVE Growth'
  BY <1>24 DEF Die
<1>. HIDE RegionsAssumption DEF IInv, Goto, shared, Ghosts, Growth, GrowOf, Told, Want,
   Full, Sizes, WriterInv, Jobs, JobOf, OneWriter, Locked, Writing, Types, Mapped,
   LocType, Size, Region, Sbo, GrowPc, BoxPc, Job, NoJob
<1>. QED BY <1>1, <1>2, <1>3, <1>4, <1>5, <1>6, <1>7, <1>8, <1>9, <1>10, <1>11, <1>12,
     <1>13, <1>14, <1>15, <1>16, <1>17, <1>18, <1>19, <1>20, <1>21, <1>22, <1>23,
     <1>24 DEF Next

\* What is mapped covers what is needed.
LEMMA MapsStep == ASSUME IInv, Next PROVE Maps'
<1>1. ASSUME NEW p \in Proc, balloc(p) PROVE Maps'
  <2>0. /\ pc[p] = "alloc"
        /\ UNCHANGED <<file, magic, hdr, limit, used, plock, m, base, split, crossed>>
    BY <1>1, BallocDoes
  <2>1. CASE pc' = [pc EXCEPT ![p] = "fill"] /\ ~Full("art") /\ UNCHANGED <<writer, loc>>
    BY <2>1, <2>0 DEF Full, IInv, Maps, MapOf, PastArt, PastSbo, Writing, GensPc,
       SyncPc, Growth, GrowOf, Told, Want, Sizes, FileIs, Phase, Blank, Ready,
       WriterInv, Jobs, JobOf, OneWriter, Types, Mapped, LocType, Size, Region, Sbo,
       GrowPc, BoxPc, OutPc, Job, NoJob, Nothing, Unmapped
  <2>2. CASE StartGrow(p, "art", "alloc") /\ UNCHANGED writer
    <3>1. /\ pc' = [pc EXCEPT ![p] = "grow1"] /\ Want("art") > 0
          /\ loc'[p].r = "art" /\ loc'[p].want = Want("art") /\ loc'[p].back = "alloc"
          /\ loc'[p].job = loc[p].job /\ \A q \in Proc \ {p} : loc'[q] = loc[q]
      BY <2>2, StartGrowDoes DEF IInv, Region
    <3>. QED BY <2>2, <3>1, <2>0 DEF IInv, Maps, MapOf, PastArt, PastSbo, Writing,
       GensPc, SyncPc, Growth, GrowOf, Told, Want, Sizes, FileIs, Phase, Blank, Ready,
       WriterInv, Jobs, JobOf, OneWriter, Types, Mapped, LocType, Size, Region, Sbo,
       GrowPc, BoxPc, OutPc, Job, NoJob, Nothing, Unmapped
  <2>3. CASE EndWrite(p)
    <3>1. /\ pc' = [pc EXCEPT ![p] = "open"] /\ writer' = NoOne /\ loc'[p] = NoJob
          /\ \A q \in Proc \ {p} : loc'[q] = loc[q]
      BY <2>3, EndWriteDoes DEF IInv
    <3>. QED BY <3>1, <2>0, RegionsAssumption DEF IInv, Maps, MapOf, PastArt, PastSbo,
       Writing, GensPc, SyncPc, Growth, GrowOf, Told, Want, Sizes, FileIs, Phase,
       Blank, Ready, WriterInv, Jobs, JobOf, OneWriter, Types, Mapped, LocType, Size,
       Region, Sbo, GrowPc, BoxPc, OutPc, Job, NoJob, Nothing, Unmapped
  <2>. QED BY <2>1, <2>2, <2>3, <1>1, BallocDoes
<1>2. ASSUME NEW p \in Proc, sbo_grow(p) PROVE Maps'
  <2>0. /\ pc[p] \in {"lock", "failed"} /\ plock = NoOne
        /\ UNCHANGED <<file, magic, hdr, limit, used, m, base, split, crossed>>
    BY <1>2, SboGrowDoes
  <2>1. ASSUME NEW r \in Sbo, NEW back \in {"box", "retry"}, StartGrow(p, r, back),
               plock' = p, UNCHANGED writer, r = "data" => ~Full("head")
        PROVE  Maps'
    <3>1. /\ pc' = [pc EXCEPT ![p] = "grow1"] /\ Want(r) > 0
          /\ loc'[p].r = r /\ loc'[p].want = Want(r) /\ loc'[p].back = back
          /\ loc'[p].job = loc[p].job /\ \A q \in Proc \ {p} : loc'[q] = loc[q]
      BY <2>1, StartGrowDoes DEF IInv, Region
    <3>. QED BY <2>1, <3>1, <2>0 DEF IInv, Maps, MapOf, PastArt, PastSbo, Writing,
       GensPc, SyncPc, Growth, GrowOf, Told, Want, Sizes, FileIs, Phase, Blank, Ready,
       WriterInv, Jobs, JobOf, OneWriter, Types, Mapped, LocType, Size, Region, Sbo,
       GrowPc, BoxPc, OutPc, Job, NoJob, Nothing, Unmapped
  <2>2. CASE pc' = [pc EXCEPT ![p] = "box"] /\ UNCHANGED <<plock, writer, loc>>
    BY <2>2, <2>0 DEF IInv, Maps, MapOf, PastArt, PastSbo, Writing, GensPc, SyncPc,
       Growth, GrowOf, Told, Want, Sizes, FileIs, Phase, Blank, Ready, WriterInv,
       Jobs, JobOf, OneWriter, Types, Mapped, LocType, Size, Region, Sbo, GrowPc,
       BoxPc, OutPc, Job, NoJob, Nothing, Unmapped
  <2>3. CASE /\ pc' = [pc EXCEPT ![p] = "retry"] /\ UNCHANGED <<plock, writer>>
             /\ loc' = [loc EXCEPT ![p].seenData = limit.data]
    BY <2>3, <2>0 DEF IInv, Maps, MapOf, PastArt, PastSbo, Writing, GensPc, SyncPc,
       Growth, GrowOf, Told, Want, Sizes, FileIs, Phase, Blank, Ready, WriterInv,
       Jobs, JobOf, OneWriter, Types, Mapped, LocType, Size, Region, Sbo, GrowPc,
       BoxPc, OutPc, Job, NoJob, Nothing, Unmapped
  <2>4. CASE EndWrite(p) /\ UNCHANGED plock
    <3>1. /\ pc' = [pc EXCEPT ![p] = "open"] /\ writer' = NoOne /\ loc'[p] = NoJob
          /\ \A q \in Proc \ {p} : loc'[q] = loc[q]
      BY <2>4, EndWriteDoes DEF IInv
    <3>. QED BY <2>4, <3>1, <2>0, RegionsAssumption DEF IInv, Maps, MapOf, PastArt,
       PastSbo, Writing, GensPc, SyncPc, Growth, GrowOf, Told, Want, Sizes, FileIs,
       Phase, Blank, Ready, WriterInv, Jobs, JobOf, OneWriter, Types, Mapped, LocType,
       Size, Region, Sbo, GrowPc, BoxPc, OutPc, Job, NoJob, Nothing, Unmapped
  <2>. QED BY <2>1, <2>2, <2>3, <2>4, <1>2, SboGrowDoes
<1>3. ASSUME NEW p \in Proc, sbo_retry(p) PROVE Maps'
  <2>0. /\ pc[p] = "retry"
        /\ UNCHANGED <<file, magic, hdr, limit, used, plock, m, base, split, crossed>>
    BY <1>3 DEF sbo_retry, Ghosts
  <2>1. CASE pc' = [pc EXCEPT ![p] = "sync1"] /\ UNCHANGED <<writer, loc>>
    BY <2>1, <2>0 DEF IInv, Maps, MapOf, PastArt, PastSbo, Writing, GensPc, SyncPc,
       Growth, GrowOf, Told, Want, Sizes, FileIs, Phase, Blank, Ready, WriterInv,
       Jobs, JobOf, OneWriter, Types, Mapped, LocType, Size, Region, Sbo, GrowPc,
       BoxPc, OutPc, Job, NoJob, Nothing, Unmapped
  <2>2. CASE EndWrite(p)
    <3>1. /\ pc' = [pc EXCEPT ![p] = "open"] /\ writer' = NoOne /\ loc'[p] = NoJob
          /\ \A q \in Proc \ {p} : loc'[q] = loc[q]
      BY <2>2, EndWriteDoes DEF IInv
    <3>. QED BY <3>1, <2>0, RegionsAssumption DEF IInv, Maps, MapOf, PastArt, PastSbo,
       Writing, GensPc, SyncPc, Growth, GrowOf, Told, Want, Sizes, FileIs, Phase,
       Blank, Ready, WriterInv, Jobs, JobOf, OneWriter, Types, Mapped, LocType, Size,
       Region, Sbo, GrowPc, BoxPc, OutPc, Job, NoJob, Nothing, Unmapped
  <2>. QED BY <2>1, <2>2, <1>3 DEF sbo_retry, Goto
<1>4. ASSUME NEW p \in Proc, fill(p) PROVE Maps'
  <2>1. \A s \in Region : used'[s] >= used[s]
    <3>1. Types /\ Growth
      BY DEF IInv
    <3>2. \A s \in Region : used[s] \in Nat /\ used'[s] \in {used[s], used[s] + 1}
      BY <1>4, <3>1, FillDoes, Constants DEF Types
    <3>. QED BY <3>2
  <2>2. /\ UNCHANGED <<file, hdr, limit, m, base>> /\ pc' = [pc EXCEPT ![p] = "open"]
        /\ loc'[p].job = "open" /\ \A q \in Proc \ {p} : loc'[q] = loc[q]
    BY <1>4 DEF fill, EndWrite, Ghosts, Goto, NoJob, IInv, Types
  <2>3. ASSUME NEW q \in Proc PROVE \A r \in Region : base[q][r] <= used'[r]
    BY <2>1, <2>2, FillDoes, <1>4, RegionsAssumption DEF IInv, Maps, MapOf, Types, Size
  <2>4. pc[p] = "fill"
    BY <1>4 DEF fill
  <2>. QED BY <2>2, <2>3, <2>4 DEF IInv, Maps, MapOf, PastArt, PastSbo, Writing, Types
<1>. USE RegionsAssumption DEF IInv, Goto, shared, Ghosts, Maps, MapOf, PastArt,
   PastSbo, Writing, GensPc, SyncPc, Growth, GrowOf, Told, Want, Sizes, FileIs, Phase,
   Blank, Ready, WriterInv, Jobs, JobOf, OneWriter, Types, Mapped, LocType, Size,
   Region, Sbo, GrowPc, BoxPc, OutPc, Job, NoJob, Nothing, Unmapped
<1>5. ASSUME NEW p \in Proc, open_create(p) PROVE Maps'
  BY <1>5 DEF open_create
<1>6. ASSUME NEW p \in Proc, open_init(p) PROVE Maps'
  BY <1>6 DEF open_init
<1>7. ASSUME NEW p \in Proc, open_magic(p) PROVE Maps'
  BY <1>7 DEF open_magic
<1>8. ASSUME NEW p \in Proc, open_attach(p) PROVE Maps'
  BY <1>8 DEF open_attach
<1>9. ASSUME NEW p \in Proc, gens_want(p) PROVE Maps'
  BY <1>9 DEF gens_want
<1>10. ASSUME NEW p \in Proc, gens_seen(p) PROVE Maps'
  BY <1>10 DEF gens_seen
<1>11. ASSUME NEW p \in Proc, gens_ftruncate(p) PROVE Maps'
  BY <1>11 DEF gens_ftruncate
<1>12. ASSUME NEW p \in Proc, gens_map(p) PROVE Maps'
  BY <1>12 DEF gens_map, Map
<1>13. ASSUME NEW p \in Proc, NEW job \in Job, Call(p, job) PROVE Maps'
  BY <1>13 DEF Call
<1>14. ASSUME NEW p \in Proc, sync_art(p) PROVE Maps'
  BY <1>14 DEF sync_art, Map
<1>15. ASSUME NEW p \in Proc, sync_gens(p) PROVE Maps'
  BY <1>15 DEF sync_gens, SlabGrown
<1>16. ASSUME NEW p \in Proc, sync_sbo(p) PROVE Maps'
  BY <1>16 DEF sync_sbo, Synced
<1>17. ASSUME NEW p \in Proc, Done(p) PROVE Maps'
  BY <1>17 DEF Done
<1>18. ASSUME NEW p \in Proc, pool_check(p) PROVE Maps'
  BY <1>18 DEF pool_check, Full
<1>19. ASSUME NEW p \in Proc, sbo_alloc(p) PROVE Maps'
  BY <1>19 DEF sbo_alloc, Full
<1>20. ASSUME NEW p \in Proc, grow_ftruncate(p) PROVE Maps'
  BY <1>20 DEF grow_ftruncate
<1>21. ASSUME NEW p \in Proc, grow_map(p) PROVE Maps'
  BY SMTT(30), <1>21 DEF grow_map, Map
<1>22. ASSUME NEW p \in Proc, grow_store(p) PROVE Maps'
  BY <1>22 DEF grow_store, HeaderFirst, Rooted
<1>23. ASSUME NEW p \in Proc, grow_publish(p) PROVE Maps'
  BY <1>23 DEF grow_publish, HeaderFirst
<1>24. ASSUME NEW p \in Proc, Die(p) PROVE Maps'
  BY <1>24 DEF Die
<1>. HIDE RegionsAssumption DEF IInv, Goto, shared, Ghosts, Maps, MapOf, PastArt,
   PastSbo, Writing, GensPc, SyncPc, Growth, GrowOf, Told, Want, Sizes, FileIs, Phase,
   Blank, Ready, WriterInv, Jobs, JobOf, OneWriter, Types, Mapped, LocType, Size,
   Region, Sbo, GrowPc, BoxPc, OutPc, Job, NoJob, Nothing, Unmapped
<1>. QED BY <1>1, <1>2, <1>3, <1>4, <1>5, <1>6, <1>7, <1>8, <1>9, <1>10, <1>11, <1>12,
     <1>13, <1>14, <1>15, <1>16, <1>17, <1>18, <1>19, <1>20, <1>21, <1>22, <1>23,
     <1>24 DEF Next

\* The table of generations covers what is needed.
LEMMA GensStep == ASSUME IInv, Next PROVE Gens'
<1>1. ASSUME NEW p \in Proc, open_attach(p) PROVE Gens'
  <2>1. /\ UNCHANGED <<file, limit, base, split, crossed, loc>>
        /\ \A q \in Proc :
             m'[q].gen = m[q].gen /\ m'[q].genN = m[q].genN /\ m'[q].seen = m[q].seen
    BY SMTT(30), <1>1 DEF open_attach, shared, Ghosts, IInv, Types, Mapped, Region, Sbo
  <2>2. /\ pc[p] = "new" /\ pc'[p] \in {"gens1", "refused"}
        /\ \A q \in Proc \ {p} : pc'[q] = pc[q]
    BY <1>1 DEF open_attach, Goto, IInv, Types
  <2>. QED BY <2>1, <2>2 DEF IInv, Gens, GensOf, GensPc
<1>2. ASSUME NEW p \in Proc, gens_seen(p) PROVE Gens'
  <2>1. /\ UNCHANGED <<file, limit, base, crossed, loc>> /\ pc[p] = "gens2"
        /\ \A q \in Proc : m'[q].gen = m[q].gen /\ m'[q].genN = m[q].genN
        /\ m'[p].seen = limit.art
        /\ \A q \in Proc \ {p} : pc'[q] = pc[q] /\ m'[q] = m[q] /\ split'[q] = split[q]
    BY <1>2 DEF gens_seen, Goto, shared, IInv, Types, Mapped
  <2>2. ~split'[p] => limit.art = loc[p].want
    BY <1>2 DEF gens_seen, IInv, Types
  <2>3. \/ pc'[p] = "gens3"
        \/ pc'[p] \in {"open", "sync3", "alloc", "box", "retry"} /\ loc[p].want <= m[p].gen
    BY <1>2, Fields DEF gens_seen, Goto, IInv, Types
  <2>4. limit.art \in Nat
    BY Constants DEF IInv, Types, Region
  <2>5. GensOf(p)'
    BY <2>1, <2>2, <2>3, <2>4 DEF IInv, Gens, GensOf, GensPc
  <2>6. ASSUME NEW q \in Proc \ {p} PROVE GensOf(q)'
    BY <2>1 DEF IInv, Gens, GensOf
  <2>. QED BY <2>5, <2>6 DEF Gens
<1>3. ASSUME NEW p \in Proc, gens_ftruncate(p) PROVE Gens'
  <2>1. /\ UNCHANGED <<limit, base, split, loc, m>> /\ pc[p] = "gens3" /\ pc'[p] = "gens4"
        /\ \A q \in Proc \ {p} : pc'[q] = pc[q]
        /\ file'.gen = loc[p].want
    BY <1>3 DEF gens_ftruncate, Goto, IInv, Types
  <2>2. ~crossed' => ~crossed /\ ~(loc[p].want < limit.art)
    BY <1>3 DEF gens_ftruncate, IInv, Types
  <2>3. /\ limit.art \in Nat /\ loc[p].want \in Nat
        /\ \A q \in Proc : m[q].gen \in Nat /\ loc[q].want \in Nat /\ m[q].genN \in Nat
    BY NatFields DEF IInv
  <2>4. ~crossed' => loc[p].want = limit.art
    BY <2>1, <2>2, <2>3 DEF IInv, Gens, GensOf
  <2>. QED BY <2>1, <2>2, <2>3, <2>4 DEF IInv, Gens, GensOf, GensPc
<1>4. ASSUME NEW p \in Proc, balloc(p) PROVE Gens'
  <2>0. /\ pc[p] = "alloc"
        /\ UNCHANGED <<file, magic, hdr, limit, used, plock, m, base, split, crossed>>
    BY <1>4, BallocDoes
  <2>1. CASE pc' = [pc EXCEPT ![p] = "fill"] /\ ~Full("art") /\ UNCHANGED <<writer, loc>>
    BY <2>1, <2>0 DEF Full, IInv, Gens, GensOf, GensPc, Maps, MapOf, Sizes, Growth,
       GrowOf, Told, Phase, Blank, Ready, WriterInv, Jobs, JobOf, Types, Mapped,
       LocType, Size, Region, Sbo, GrowPc, BoxPc, OutPc, SyncPc, Job, NoJob, Nothing,
       Unmapped
  <2>2. CASE StartGrow(p, "art", "alloc") /\ UNCHANGED writer
    <3>1. /\ pc' = [pc EXCEPT ![p] = "grow1"] /\ Want("art") > 0
          /\ loc'[p].r = "art" /\ loc'[p].want = Want("art") /\ loc'[p].back = "alloc"
          /\ loc'[p].job = loc[p].job /\ \A q \in Proc \ {p} : loc'[q] = loc[q]
      BY <2>2, StartGrowDoes DEF IInv, Region
    <3>. QED BY <2>2, <3>1, <2>0 DEF IInv, Gens, GensOf, GensPc, Maps, MapOf, Sizes,
       Growth, GrowOf, Told, Phase, Blank, Ready, WriterInv, Jobs, JobOf, Types,
       Mapped, LocType, Size, Region, Sbo, GrowPc, BoxPc, OutPc, SyncPc, Job, NoJob,
       Nothing, Unmapped
  <2>3. CASE EndWrite(p)
    <3>1. /\ pc' = [pc EXCEPT ![p] = "open"] /\ writer' = NoOne /\ loc'[p] = NoJob
          /\ \A q \in Proc \ {p} : loc'[q] = loc[q]
      BY <2>3, EndWriteDoes DEF IInv
    <3>. QED BY <3>1, <2>0, RegionsAssumption DEF IInv, Gens, GensOf, GensPc, Maps,
       MapOf, Sizes, Growth, GrowOf, Told, Phase, Blank, Ready, WriterInv, Jobs,
       JobOf, Types, Mapped, LocType, Size, Region, Sbo, GrowPc, BoxPc, OutPc, SyncPc,
       Job, NoJob, Nothing, Unmapped
  <2>. QED BY <2>1, <2>2, <2>3, <1>4, BallocDoes
<1>5. ASSUME NEW p \in Proc, sbo_alloc(p) PROVE Gens'
  <2>1. /\ UNCHANGED <<file, limit, base, split, crossed, loc, m>> /\ pc[p] = "box"
    BY <1>5 DEF sbo_alloc, shared, Ghosts
  <2>2. pc'[p] \in {"fill", "failed"} /\ \A q \in Proc \ {p} : pc'[q] = pc[q]
    BY <1>5 DEF sbo_alloc, Goto, IInv, Types
  <2>. QED BY <2>1, <2>2 DEF IInv, Gens, GensOf, GensPc
<1>6. ASSUME NEW p \in Proc, sbo_grow(p) PROVE Gens'
  <2>0. /\ pc[p] \in {"lock", "failed"} /\ plock = NoOne
        /\ UNCHANGED <<file, magic, hdr, limit, used, m, base, split, crossed>>
    BY <1>6, SboGrowDoes
  <2>1. ASSUME NEW r \in Sbo, NEW back \in {"box", "retry"}, StartGrow(p, r, back),
               plock' = p, UNCHANGED writer, r = "data" => ~Full("head")
        PROVE  Gens'
    <3>1. /\ pc' = [pc EXCEPT ![p] = "grow1"] /\ Want(r) > 0
          /\ loc'[p].r = r /\ loc'[p].want = Want(r) /\ loc'[p].back = back
          /\ loc'[p].job = loc[p].job /\ \A q \in Proc \ {p} : loc'[q] = loc[q]
      BY <2>1, StartGrowDoes DEF IInv, Region
    <3>. QED BY <2>1, <3>1, <2>0 DEF IInv, Gens, GensOf, GensPc, Maps, MapOf, Sizes,
       Growth, GrowOf, Told, Phase, Blank, Ready, WriterInv, Jobs, JobOf, Types,
       Mapped, LocType, Size, Region, Sbo, GrowPc, BoxPc, OutPc, SyncPc, Job, NoJob,
       Nothing, Unmapped
  <2>2. CASE pc' = [pc EXCEPT ![p] = "box"] /\ UNCHANGED <<plock, writer, loc>>
    BY <2>2, <2>0 DEF IInv, Gens, GensOf, GensPc, Maps, MapOf, Sizes, Growth, GrowOf,
       Told, Phase, Blank, Ready, WriterInv, Jobs, JobOf, Types, Mapped, LocType,
       Size, Region, Sbo, GrowPc, BoxPc, OutPc, SyncPc, Job, NoJob, Nothing, Unmapped
  <2>3. CASE /\ pc' = [pc EXCEPT ![p] = "retry"] /\ UNCHANGED <<plock, writer>>
             /\ loc' = [loc EXCEPT ![p].seenData = limit.data]
    BY <2>3, <2>0 DEF IInv, Gens, GensOf, GensPc, Maps, MapOf, Sizes, Growth, GrowOf,
       Told, Phase, Blank, Ready, WriterInv, Jobs, JobOf, Types, Mapped, LocType,
       Size, Region, Sbo, GrowPc, BoxPc, OutPc, SyncPc, Job, NoJob, Nothing, Unmapped
  <2>4. CASE EndWrite(p) /\ UNCHANGED plock
    <3>1. /\ pc' = [pc EXCEPT ![p] = "open"] /\ writer' = NoOne /\ loc'[p] = NoJob
          /\ \A q \in Proc \ {p} : loc'[q] = loc[q]
      BY <2>4, EndWriteDoes DEF IInv
    <3>. QED BY <2>4, <3>1, <2>0, RegionsAssumption DEF IInv, Gens, GensOf, GensPc,
       Maps, MapOf, Sizes, Growth, GrowOf, Told, Phase, Blank, Ready, WriterInv, Jobs,
       JobOf, Types, Mapped, LocType, Size, Region, Sbo, GrowPc, BoxPc, OutPc, SyncPc,
       Job, NoJob, Nothing, Unmapped
  <2>. QED BY <2>1, <2>2, <2>3, <2>4, <1>6, SboGrowDoes
<1>7. ASSUME NEW p \in Proc, sbo_retry(p) PROVE Gens'
  <2>0. /\ pc[p] = "retry"
        /\ UNCHANGED <<file, magic, hdr, limit, used, plock, m, base, split, crossed>>
    BY <1>7 DEF sbo_retry, Ghosts
  <2>1. CASE pc' = [pc EXCEPT ![p] = "sync1"] /\ UNCHANGED <<writer, loc>>
    BY <2>1, <2>0 DEF IInv, Gens, GensOf, GensPc, Maps, MapOf, Sizes, Growth, GrowOf,
       Told, Phase, Blank, Ready, WriterInv, Jobs, JobOf, Types, Mapped, LocType,
       Size, Region, Sbo, GrowPc, BoxPc, OutPc, SyncPc, Job, NoJob, Nothing, Unmapped
  <2>2. CASE EndWrite(p)
    <3>1. /\ pc' = [pc EXCEPT ![p] = "open"] /\ writer' = NoOne /\ loc'[p] = NoJob
          /\ \A q \in Proc \ {p} : loc'[q] = loc[q]
      BY <2>2, EndWriteDoes DEF IInv
    <3>. QED BY <3>1, <2>0, RegionsAssumption DEF IInv, Gens, GensOf, GensPc, Maps,
       MapOf, Sizes, Growth, GrowOf, Told, Phase, Blank, Ready, WriterInv, Jobs,
       JobOf, Types, Mapped, LocType, Size, Region, Sbo, GrowPc, BoxPc, OutPc, SyncPc,
       Job, NoJob, Nothing, Unmapped
  <2>. QED BY <2>1, <2>2, <1>7 DEF sbo_retry, Goto
<1>8. ASSUME NEW p \in Proc, grow_publish(p) PROVE Gens'
  <2>1. /\ UNCHANGED <<file, base, split, crossed, loc, m>> /\ pc[p] = "grow4"
    BY <1>8 DEF grow_publish, Ghosts
  <2>2. pc'[p] \in {"gens1", "alloc", "box", "retry"} /\ \A q \in Proc \ {p} : pc'[q] = pc[q]
    BY <1>8 DEF grow_publish, Goto, IInv, Types, WriterInv, Jobs, JobOf, GrowPc
  <2>3. limit'.art >= limit.art /\ limit'.art \in Nat /\ limit.art \in Nat
    BY <1>8, RegionsAssumption DEF grow_publish, HeaderFirst, IInv, Types, LocType,
       Sizes, Growth, GrowOf, Told, Size, Region
  <2>4. \A q \in Proc : m[q].gen \in Nat /\ m[q].genN \in Nat /\ m[q].seen \in Nat
    BY NatFields DEF IInv
  <2>. QED BY <2>1, <2>2, <2>3, <2>4 DEF IInv, Gens, GensOf, GensPc
<1>. USE RegionsAssumption DEF IInv, Goto, shared, Ghosts, Gens, GensOf, GensPc, Maps,
   MapOf, Sizes, Growth, GrowOf, Told, Phase, Blank, Ready, WriterInv, Jobs, JobOf,
   Types, Mapped, LocType, Size, Region, Sbo, GrowPc, BoxPc, OutPc, SyncPc, Job, NoJob,
   Nothing, Unmapped
<1>9. ASSUME NEW p \in Proc, open_create(p) PROVE Gens'
  BY <1>9 DEF open_create
<1>10. ASSUME NEW p \in Proc, open_init(p) PROVE Gens'
  BY <1>10 DEF open_init
<1>11. ASSUME NEW p \in Proc, open_magic(p) PROVE Gens'
  BY <1>11 DEF open_magic
<1>12. ASSUME NEW p \in Proc, gens_want(p) PROVE Gens'
  BY <1>12 DEF gens_want
<1>13. ASSUME NEW p \in Proc, gens_map(p) PROVE Gens'
  BY <1>13 DEF gens_map, Map
<1>14. ASSUME NEW p \in Proc, NEW job \in Job, Call(p, job) PROVE Gens'
  BY <1>14 DEF Call
<1>15. ASSUME NEW p \in Proc, sync_art(p) PROVE Gens'
  BY <1>15 DEF sync_art, Map
<1>16. ASSUME NEW p \in Proc, sync_gens(p) PROVE Gens'
  BY <1>16 DEF sync_gens, SlabGrown
<1>17. ASSUME NEW p \in Proc, sync_sbo(p) PROVE Gens'
  BY <1>17 DEF sync_sbo, Synced
<1>18. ASSUME NEW p \in Proc, Done(p) PROVE Gens'
  BY <1>18 DEF Done
<1>19. ASSUME NEW p \in Proc, pool_check(p) PROVE Gens'
  BY <1>19 DEF pool_check, Full
<1>20. ASSUME NEW p \in Proc, grow_ftruncate(p) PROVE Gens'
  BY <1>20 DEF grow_ftruncate
<1>21. ASSUME NEW p \in Proc, grow_map(p) PROVE Gens'
  BY <1>21 DEF grow_map, Map
<1>22. ASSUME NEW p \in Proc, grow_store(p) PROVE Gens'
  BY <1>22 DEF grow_store, HeaderFirst, Rooted
<1>23. ASSUME NEW p \in Proc, fill(p) PROVE Gens'
  BY <1>23 DEF fill, EndWrite
<1>24. ASSUME NEW p \in Proc, Die(p) PROVE Gens'
  BY <1>24 DEF Die
<1>. HIDE RegionsAssumption DEF IInv, Goto, shared, Ghosts, Gens, GensOf, GensPc, Maps,
   MapOf, Sizes, Growth, GrowOf, Told, Phase, Blank, Ready, WriterInv, Jobs, JobOf,
   Types, Mapped, LocType, Size, Region, Sbo, GrowPc, BoxPc, OutPc, SyncPc, Job, NoJob,
   Nothing, Unmapped
<1>. QED BY <1>1, <1>2, <1>3, <1>4, <1>5, <1>6, <1>7, <1>8, <1>9, <1>10, <1>11, <1>12,
     <1>13, <1>14, <1>15, <1>16, <1>17, <1>18, <1>19, <1>20, <1>21, <1>22, <1>23,
     <1>24 DEF Next

------------------------------------------------------------------------------
(* The invariant, and the properties it implies *)

\* The initial state satisfies the invariant.
LEMMA InitInv == ASSUME Init PROVE IInv
<1>. USE RegionsAssumption DEF Init
<1>1. Types
  BY Constants DEF Types, Mapped, Unmapped, AllPc, OutPc
<1>2. WriterInv
  BY DEF WriterInv, Jobs, JobOf, OneWriter, Locked, Writing, NoJob, OutPc, SyncPc, BoxPc, GensPc,
     GrowPc
<1>3. Phase
  BY DEF Phase, Blank, Region, Sbo
<1>4. Sizes
  BY DEF Sizes, Nothing, Region, Sbo
<1>5. Growth
  BY DEF Growth, GrowOf
<1>6. Maps
  BY DEF Maps, MapOf, Nothing, Unmapped, Region, Sbo, PastArt, PastSbo, Writing, NoJob
<1>7. Gens
  BY DEF Gens, GensOf, Nothing, Unmapped, Region, Sbo, GensPc
<1>. QED BY <1>1, <1>2, <1>3, <1>4, <1>5, <1>6, <1>7 DEF IInv

\* A step that changes nothing keeps the invariant.
LEMMA StutterInv == ASSUME IInv, UNCHANGED vars PROVE IInv'
<1>. USE DEF vars, shared, IInv
<1>1. Types' /\ WriterInv'
  BY DEF Types, WriterInv, Jobs, JobOf, OneWriter, Locked, Writing
<1>2. Phase' /\ Sizes'
  BY DEF Phase, Blank, Ready, Sizes, FileIs, Told, Want
<1>3. Growth' /\ Maps' /\ Gens'
  BY ZenonT(30) DEF Growth, GrowOf, Told, Want, Maps, MapOf, PastArt, PastSbo, Writing, Gens, GensOf
<1>. QED BY <1>1, <1>2, <1>3

\* The inductive invariant holds whatever processes create, open, grow and abandon.
THEOREM Invariance == Spec => []IInv
<1>1. ASSUME IInv, [Next]_vars PROVE IInv'
  BY <1>1, StutterInv, TypesStep, WriterStep, PhaseStep, SizesStep, GrowthStep, MapsStep,
     GensStep DEF IInv
<1>. QED BY InitInv, <1>1, PTL DEF Spec

\* TypeOK: no file, header or mapping exceeds its reserve, and the box allocator's lock
\* is held by a process that grows a region or died doing so.
THEOREM TypeCorrect == Spec => []TypeOK
<1>1. ASSUME IInv PROVE TypeOK
  <2>1. DOMAIN Unmapped = Mapped
    BY DEF Unmapped, Mapped
  <2>2. plock # NoOne => pc[plock] \in {"grow1", "grow2", "grow3", "grow4", "dead"}
    BY <1>1 DEF IInv, WriterInv, Locked, GrowPc
  <2>. QED BY <1>1, <2>1, <2>2 DEF IInv, Types, TypeOK, Size
<1>. QED BY Invariance, <1>1, PTL

\* FilesCover: no header, allocator or mapping promises more than the file has, whenever
\* a growth was cut off, and no opener refuses a finished store.
THEOREM FilesSafety == Spec => []FilesCover
<1>1. ASSUME IInv PROVE FilesCover
  <2>1. ASSUME NEW r \in Region PROVE hdr[r] <= file[r] /\ limit[r] <= file[r]
    <3>1. hdr[r] \in 0 .. MaxSize /\ limit[r] \in 0 .. MaxSize /\ file[r] \in 0 .. MaxSize
      BY <1>1 DEF IInv, Types, Size, Region
    <3>2. CASE Blank
      BY <1>1, <3>1, <3>2, RegionsAssumption DEF Blank, Nothing
    <3>3. CASE Ready
      BY <1>1, <3>1, <3>3, RegionsAssumption
         DEF Ready, IInv, Types, Size, Sizes, FileIs, Told, Want, Region, Sbo
    <3>. QED BY <1>1, <3>2, <3>3 DEF IInv, Phase
  <2>2. \A p \in Proc, r \in Region : m[p][r] <= file[r]
    BY <1>1 DEF IInv, Maps, MapOf
  <2>3. \A p \in Proc : crossed \/ m[p].gen <= file.gen
    BY <1>1 DEF IInv, Gens, GensOf
  <2>. QED BY <2>1, <2>2, <2>3 DEF FilesCover
<1>. QED BY Invariance, <1>1, PTL

\* AttachInitialised: whoever is in the store has found it initialised ("magic last").
THEOREM AttachSafety == Spec => []AttachInitialised
<1>1. IInv => AttachInitialised
  BY DEF IInv, Maps, MapOf, AttachInitialised
<1>. QED BY Invariance, <1>1, PTL

\* SyncCovers: behind kv_sync a call has mapped all that was in use when it began, and
\* has the generations of all nodes unless a growth fell between its two loads.
THEOREM SyncSafety == Spec => []SyncCovers
<1>1. ASSUME IInv, NEW p \in Proc, Synchronised(p) PROVE MapsInUse(p) /\ GensInUse(p)
  <2>1. /\ PastArt(p) /\ PastSbo(p) /\ pc[p] \notin GensPc \union {"sync1", "sync2"}
    BY <1>1 DEF Synchronised, IInv, WriterInv, Jobs, JobOf, Writing, BoxPc, PastArt, PastSbo,
       GensPc, SyncPc
  <2>2. MapsInUse(p)
    BY <1>1, <2>1 DEF IInv, Maps, MapOf, MapsInUse, Region
  <2>3. GensInUse(p)
    BY <1>1, <2>1 DEF IInv, Gens, GensOf, GensInUse
  <2>. QED BY <2>2, <2>3
<1>2. IInv => SyncCovers
  BY <1>1 DEF SyncCovers
<1>. QED BY Invariance, <1>2, PTL

\* AllocMapped: a writer fills a node or a box only where it has mapped it, also after
\* the death of a writer in the middle of a growth.
THEOREM AllocSafety == Spec => []AllocMapped
<1>1. ASSUME IInv, NEW p \in Proc, pc[p] = "fill",
             NEW r \in IF loc[p].job = "node" THEN {"art"} ELSE Sbo
      PROVE  used[r] + 1 <= m[p][r]
  <2>1. used[r] \in Nat /\ limit[r] \in Nat /\ hdr[r] \in Nat /\ m[p][r] \in Nat
    BY <1>1, RegionsAssumption DEF IInv, Types, Size, Region, Sbo, Mapped
  <2>2. used[r] < limit[r]
    BY <1>1 DEF IInv, Growth, GrowOf
  <2>3. limit[r] <= hdr[r]
    BY <1>1 DEF IInv, WriterInv, Jobs, JobOf, Writing, Locked, Sizes, Sbo
  <2>4. hdr[r] <= m[p][r]
    BY <1>1 DEF IInv, WriterInv, Jobs, JobOf, Writing, Maps, MapOf, PastArt, PastSbo, SyncPc,
       GensPc, Sbo
  <2>. QED BY <2>1, <2>2, <2>3, <2>4
<1>2. IInv => AllocMapped
  BY <1>1 DEF AllocMapped
<1>. QED BY Invariance, <1>2, PTL
==============================================================================
