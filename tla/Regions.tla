--------------------------------- MODULE Regions ---------------------------------
(***************************************************************************)
(* Creation, opening and growth of a store's files (kvspace.c).            *)
(*                                                                         *)
(* A store is a set of files that every process maps for itself: the ART   *)
(* slab with the header, the heads and the data of the box allocator, and  *)
(* the table of generations.  One process writes and makes files grow; the *)
(* others follow with kv_sync, which maps what the header says.  A process *)
(* must not touch what it has not mapped, nor map what the file has not    *)
(* got.                                                                    *)
(*                                                                         *)
(* Sizes are in units, each of which holds one node, one head or one       *)
(* value; where the code multiplies a size, by 2 or 64, the model doubles  *)
(* it.  One step is one system call or one store to the header or to an    *)
(* allocator.                                                              *)
(***************************************************************************)
EXTENDS Naturals, FiniteSets

CONSTANTS
  Proc,       \* processes, each of which opens the store once
  NoOne,      \* nobody
  MaxSize,    \* largest size of a region (its reserve)
  Crashes     \* processes may die

Sbo    == {"head", "data"}
Region == Sbo \union {"art"}

ASSUME RegionsAssumption ==
  /\ NoOne \notin Proc /\ MaxSize \in Nat \ {0} /\ Crashes \in BOOLEAN

VARIABLES
  file,       \* lengths of the files; art 0 = there is none
  magic,      \* the header has its magic
  hdr,        \* art_slab_size, sbo_head_size, sbo_data_size
  limit,      \* what the allocators hand out: total_size of the slab, of the pool, data_size
  used,       \* units that are in use and can be reached
  plock,      \* holder of the box allocator's lock
  writer,     \* the process inside a write, if any: the code has one writer at a time
  pc,         \* where a process is
  m,          \* what it has mapped; gen_n, art_total_seen
  loc,        \* its locals: what it is doing, region that grows, want,
              \* seen_data, where it goes on
  base,       \* units in use when its call began
  split,      \* a growth fell between its two loads of total_size
  crossed     \* a process has cut the table of generations with an old size

shared == <<file, magic, hdr, limit, used, plock, writer>>
vars == <<shared, pc, m, loc, base, split, crossed>>

Job      == {"read", "round", "node", "box"}
Nothing  == [r \in Region |-> 0]
Unmapped == [r \in Region \union {"gen", "genN", "seen"} |-> 0]
NoJob    == [job |-> "open", r |-> "art", want |-> 0, seenData |-> 0, back |-> "open"]

Init ==
  /\ file = [r \in Region \union {"gen"} |-> 0] /\ magic = FALSE
  /\ hdr = Nothing /\ limit = Nothing /\ used = Nothing
  /\ plock = NoOne /\ writer = NoOne
  /\ pc = [p \in Proc |-> "new"]
  /\ m = [p \in Proc |-> Unmapped]
  /\ loc = [p \in Proc |-> NoJob]
  /\ base = [p \in Proc |-> Nothing]
  /\ split = [p \in Proc |-> FALSE] /\ crossed = FALSE

Goto(p, l) == pc' = [pc EXCEPT ![p] = l]
Map(p, r, size) == m' = [m EXCEPT ![p][r] = IF size > @ THEN size ELSE @]
Ghosts == UNCHANGED <<base, split, crossed>>

------------------------------------------------------------------------------
(* kvspaceShmOpen *)

\* The file is created with O_EXCL and has no header yet.
open_create(p) ==
  /\ pc[p] = "new" /\ file.art = 0
  /\ file' = [file EXCEPT !.art = 1]
  /\ Goto(p, "init")
  /\ UNCHANGED <<magic, hdr, limit, used, plock, writer, m, loc>> /\ Ghosts

\* Broken variant: the magic is stored before the rest of the header.
open_init_magic(p) ==
  /\ pc[p] = "init"
  /\ file' = [file EXCEPT !.head = 1, !.data = 1] /\ magic' = TRUE
  /\ m' = [m EXCEPT ![p].art = 1, ![p].head = 1, ![p].data = 1]
  /\ Goto(p, "magic")
  /\ UNCHANGED <<hdr, limit, used, plock, writer, loc>> /\ Ghosts

\* The other files are sized and all but the table of generations are mapped; then
\* the header and the allocators are initialised ...
open_init(p) ==
  /\ pc[p] = "init"
  /\ file' = [file EXCEPT !.head = 1, !.data = 1]
  /\ hdr' = [r \in Region |-> 1] /\ limit' = [r \in Region |-> 1]
  /\ m' = [m EXCEPT ![p].art = 1, ![p].head = 1, ![p].data = 1]
  /\ Goto(p, "magic")
  /\ UNCHANGED <<magic, used, plock, writer, loc>> /\ Ghosts

\* ... and the magic comes last.
open_magic(p) ==
  /\ pc[p] = "magic"
  /\ magic' = TRUE /\ Goto(p, "gens1")
  /\ UNCHANGED <<file, hdr, limit, used, plock, writer, m, loc>> /\ Ghosts

\* An existing store is attached at the sizes of its header, which its files must
\* have; one without magic is refused.
open_attach(p) ==
  /\ pc[p] = "new" /\ file.art > 0
  /\ IF magic /\ \A r \in Region : file[r] >= hdr[r]
       THEN /\ m' = [m EXCEPT ![p].art = hdr.art, ![p].head = hdr.head, ![p].data = hdr.data]
            /\ Goto(p, "gens1")
       ELSE Goto(p, "refused") /\ UNCHANGED m
  /\ UNCHANGED <<shared, loc>> /\ Ghosts

------------------------------------------------------------------------------
(* gens_grow: at open, in kv_sync and after the slab has grown *)

gens_want(p) ==
  /\ pc[p] = "gens1"
  /\ loc' = [loc EXCEPT ![p].want = limit.art]
  /\ m' = [m EXCEPT ![p].genN = limit.art]
  /\ Goto(p, "gens2")
  /\ UNCHANGED shared /\ Ghosts

\* total_size is loaded again.
gens_seen(p) ==
  /\ pc[p] = "gens2"
  /\ m' = [m EXCEPT ![p].seen = limit.art]
  /\ split' = [split EXCEPT ![p] = limit.art # loc[p].want]
  /\ Goto(p, IF loc[p].want <= m[p].gen THEN loc[p].back ELSE "gens3")
  /\ UNCHANGED <<shared, loc, base, crossed>>

gens_ftruncate(p) ==
  /\ pc[p] = "gens3"
  /\ file' = [file EXCEPT !.gen = loc[p].want]
  /\ crossed' = (crossed \/ loc[p].want < limit.art)
  /\ Goto(p, "gens4")
  /\ UNCHANGED <<magic, hdr, limit, used, plock, writer, m, loc, base, split>>

gens_map(p) ==
  /\ pc[p] = "gens4"
  /\ Map(p, "gen", loc[p].want)
  /\ Goto(p, loc[p].back)
  /\ UNCHANGED <<shared, loc>> /\ Ghosts

------------------------------------------------------------------------------
(* kv_sync and what follows it *)

\* A call begins: a read, a round of the leader, or a write that needs a new node
\* or a new box.
Call(p, job) ==
  /\ pc[p] = "open" /\ (job \in {"node", "box"} => writer = NoOne)
  /\ writer' = IF job \in {"node", "box"} THEN p ELSE writer
  /\ loc' = [loc EXCEPT ![p] = [NoJob EXCEPT !.job = job]]
  /\ base' = [base EXCEPT ![p] = used]
  /\ Goto(p, "sync1")
  /\ UNCHANGED <<file, magic, hdr, limit, used, plock, m, split, crossed>>

sync_art(p) ==
  /\ pc[p] = "sync1"
  /\ Map(p, "art", hdr.art) /\ Goto(p, "sync2")
  /\ UNCHANGED <<shared, loc>> /\ Ghosts

\* Broken variant: the table of generations stays as it was at open.
SlabGrown_never(p) == FALSE

\* Another process has made the slab grow.
SlabGrown(p) == limit.art # m[p].seen

\* The table of generations follows.
sync_gens(p) ==
  /\ pc[p] = "sync2"
  /\ Goto(p, IF SlabGrown(p) THEN "gens1" ELSE "sync3")
  /\ loc' = [loc EXCEPT ![p].back = "sync3"]
  /\ UNCHANGED <<shared, m>> /\ Ghosts

\* r_head and r_data.
Synced(p) == [m[p] EXCEPT !.head = IF hdr.head > @ THEN hdr.head ELSE @,
                          !.data = IF hdr.data > @ THEN hdr.data ELSE @]

sync_sbo(p) ==
  /\ pc[p] = "sync3"
  /\ m' = [m EXCEPT ![p] = Synced(p)]
  /\ Goto(p, CASE loc[p].job = "read" -> "use"
               [] loc[p].job = "round" -> "drain"
               [] loc[p].job = "box" -> "pool"
               [] OTHER -> "alloc")
  /\ UNCHANGED <<shared, loc>> /\ Ghosts

\* The read is over, or the drain: it asks the box allocator, under its lock.
Done(p) ==
  /\ \/ pc[p] = "use"
     \/ pc[p] = "drain" /\ plock = NoOne
  /\ Goto(p, "open") /\ loc' = [loc EXCEPT ![p] = NoJob]
  /\ base' = [base EXCEPT ![p] = Nothing]
  /\ UNCHANGED <<shared, m, split, crossed>>

------------------------------------------------------------------------------
(* Allocation and growth *)

Full(r) == used[r] >= limit[r]

\* A write ends, with or without what it wanted.
EndWrite(p) ==
  /\ Goto(p, "open") /\ writer' = NoOne
  /\ loc' = [loc EXCEPT ![p] = NoJob]

\* Broken variant: the reserve is not looked at.
Want_unbounded(r) == 2 * limit[r]

\* The size a region grows to, 0 when its reserve is exhausted.  The slab doubles
\* the header's size, the box allocator its own; the heads take what is left.
Want(r) ==
  CASE r = "art"  -> IF 2 * hdr.art > MaxSize THEN 0 ELSE 2 * hdr.art
    [] r = "data" -> IF 2 * limit.data > MaxSize THEN 0 ELSE 2 * limit.data
    [] r = "head" -> IF limit.head >= MaxSize THEN 0
                     ELSE IF 2 * limit.head > MaxSize THEN MaxSize ELSE 2 * limit.head

\* The growth of r begins; the call then goes on at back.
StartGrow(p, r, back) ==
  /\ Want(r) > 0
  /\ loc' = [loc EXCEPT ![p].r = r, ![p].want = Want(r), ![p].back = back]
  /\ Goto(p, "grow1")

\* art_balloc: art_bump takes a node, or the slab has to grow.
balloc(p) ==
  /\ pc[p] = "alloc"
  /\ \/ ~Full("art") /\ Goto(p, "fill") /\ UNCHANGED <<writer, loc>>
     \/ Full("art") /\ StartGrow(p, "art", "alloc") /\ UNCHANGED writer
     \/ Full("art") /\ Want("art") = 0 /\ EndWrite(p)
  /\ UNCHANGED <<file, magic, hdr, limit, used, plock, m>> /\ Ghosts

\* kv_sbo_alloc: the pool of heads is looked at first, without the lock ...
pool_check(p) ==
  /\ pc[p] = "pool"
  /\ Goto(p, IF Full("head") THEN "lock" ELSE "box")
  /\ UNCHANGED <<shared, m, loc>> /\ Ghosts

\* ... then sbo_alloc takes a box; it fails when no data is left, and at any time
\* because another process keeps it from a lock.
sbo_alloc(p) ==
  /\ pc[p] = "box" /\ plock = NoOne
  /\ \/ ~Full("data") /\ ~Full("head") /\ Goto(p, "fill")
     \/ Goto(p, "failed")
  /\ UNCHANGED <<shared, m, loc>> /\ Ghosts

\* kv_sbo_grow, under the lock: the pool if it is full, which a round of another
\* process may just have changed; the data after two failures at one capacity.
sbo_grow(p) ==
  /\ pc[p] \in {"lock", "failed"} /\ plock = NoOne
  /\ LET failed == pc[p] = "failed"
         again  == loc[p].seenData = limit.data
     IN \/ /\ Full("head") /\ StartGrow(p, "head", IF failed THEN "retry" ELSE "box")
           /\ plock' = p /\ UNCHANGED writer
        \/ /\ ~failed /\ \E q \in Proc \ {p} : pc[q] = "drain"
           /\ Goto(p, "box") /\ UNCHANGED <<plock, writer, loc>>
        \/ /\ ~Full("head") /\ failed /\ again /\ StartGrow(p, "data", "retry")
           /\ plock' = p /\ UNCHANGED writer
        \/ /\ ~Full("head") /\ failed /\ ~again
           /\ loc' = [loc EXCEPT ![p].seenData = limit.data]
           /\ Goto(p, "retry") /\ UNCHANGED <<writer, plock>>
        \/ /\ \/ Full("head") /\ Want("head") = 0
              \/ ~Full("head") /\ failed /\ again /\ Want("data") = 0
           /\ EndWrite(p) /\ UNCHANGED plock
  /\ UNCHANGED <<file, magic, hdr, limit, used, m>> /\ Ghosts

\* Up to eight attempts, each after the first with a kv_sync.
sbo_retry(p) ==
  /\ pc[p] = "retry"
  /\ \/ Goto(p, "sync1") /\ UNCHANGED <<writer, loc>>
     \/ EndWrite(p)
  /\ UNCHANGED <<file, magic, hdr, limit, used, plock, m>> /\ Ghosts

\* Broken variant: the file keeps its length.
grow_ftruncate_none(p) ==
  /\ pc[p] = "grow1"
  /\ Goto(p, "grow2")
  /\ UNCHANGED <<shared, m, loc>> /\ Ghosts

\* A growth begins with the file ...
grow_ftruncate(p) ==
  /\ pc[p] = "grow1"
  /\ file' = [file EXCEPT ![loc[p].r] = loc[p].want]
  /\ Goto(p, "grow2")
  /\ UNCHANGED <<magic, hdr, limit, used, plock, writer, m, loc>> /\ Ghosts

\* ... which the process maps ...
grow_map(p) ==
  /\ pc[p] = "grow2"
  /\ Map(p, loc[p].r, loc[p].want)
  /\ Goto(p, "grow3")
  /\ UNCHANGED <<shared, loc>> /\ Ghosts

\* Broken variant: the slab's allocator is told before the header.
HeaderFirst_never(r) == FALSE

\* ... before it tells the others.  art_slab_grow stores art_slab_size before
\* total_size; sbo_head_grow and sbo_data_grow tell the allocator first, under its
\* lock.
HeaderFirst(r) == r = "art"

\* sbo_data_grow moves the root into a head of its own.
Rooted(r) == IF r = "data" THEN [used EXCEPT !.head = @ + 1] ELSE used

grow_store(p) ==
  /\ pc[p] = "grow3"
  /\ IF HeaderFirst(loc[p].r)
       THEN hdr' = [hdr EXCEPT ![loc[p].r] = loc[p].want] /\ UNCHANGED limit
       ELSE limit' = [limit EXCEPT ![loc[p].r] = loc[p].want] /\ UNCHANGED hdr
  /\ used' = Rooted(loc[p].r)
  /\ Goto(p, "grow4")
  /\ UNCHANGED <<file, magic, plock, writer, m, loc>> /\ Ghosts

grow_publish(p) ==
  /\ pc[p] = "grow4"
  /\ IF HeaderFirst(loc[p].r)
       THEN limit' = [limit EXCEPT ![loc[p].r] = loc[p].want] /\ UNCHANGED hdr
       ELSE hdr' = [hdr EXCEPT ![loc[p].r] = loc[p].want] /\ UNCHANGED limit
  /\ plock' = IF plock = p THEN NoOne ELSE plock
  /\ Goto(p, IF loc[p].r = "art" THEN "gens1" ELSE loc[p].back)
  /\ UNCHANGED <<file, magic, used, writer, m, loc>> /\ Ghosts

\* The node is linked, or the box is: it has its data and perhaps a head of its own.
fill(p) ==
  /\ pc[p] = "fill"
  /\ IF loc[p].job = "node" THEN used' = [used EXCEPT !.art = @ + 1]
     ELSE \E h \in 0..1 : used' = [used EXCEPT !.data = @ + 1, !.head = @ + h]
  /\ EndWrite(p)
  /\ UNCHANGED <<file, magic, hdr, limit, plock, m>> /\ Ghosts

\* A process dies; a lock it holds stays taken.
Die(p) ==
  /\ Crashes /\ pc[p] \notin {"new", "dead", "refused"}
  /\ Goto(p, "dead")
  /\ m' = [m EXCEPT ![p] = Unmapped]
  /\ writer' = IF writer = p THEN NoOne ELSE writer
  /\ loc' = [loc EXCEPT ![p] = NoJob]
  /\ base' = [base EXCEPT ![p] = Nothing]
  /\ split' = [split EXCEPT ![p] = FALSE]
  /\ UNCHANGED <<file, magic, hdr, limit, used, plock, crossed>>

Next == \E p \in Proc :
  \/ open_create(p) \/ open_init(p) \/ open_magic(p) \/ open_attach(p)
  \/ gens_want(p) \/ gens_seen(p) \/ gens_ftruncate(p) \/ gens_map(p)
  \/ \E job \in Job : Call(p, job)
  \/ sync_art(p) \/ sync_gens(p) \/ sync_sbo(p) \/ Done(p)
  \/ balloc(p) \/ pool_check(p) \/ sbo_alloc(p) \/ sbo_grow(p) \/ sbo_retry(p)
  \/ grow_ftruncate(p) \/ grow_map(p) \/ grow_store(p) \/ grow_publish(p)
  \/ fill(p) \/ Die(p)

Spec == Init /\ [][Next]_vars

------------------------------------------------------------------------------
(* Correctness *)

\* Every variable has its type: no file, header or mapping is larger than its
\* reserve, and whoever holds the box allocator's lock makes it grow or died doing so.
TypeOK ==
  /\ file \in [Region \union {"gen"} -> 0..MaxSize]
  /\ {hdr, limit, used} \subseteq [Region -> 0..MaxSize]
  /\ m \in [Proc -> [DOMAIN Unmapped -> 0..MaxSize]]
  /\ base \in [Proc -> [Region -> 0..MaxSize]]
  /\ magic \in BOOLEAN /\ crossed \in BOOLEAN /\ split \in [Proc -> BOOLEAN]
  /\ {plock, writer} \subseteq Proc \union {NoOne}
  /\ plock # NoOne => pc[plock] \in {"grow1", "grow2", "grow3", "grow4", "dead"}

\* Places in a call after its kv_sync, and before the one of its next attempt.
Synchronised(p) ==
  pc[p] \in {"use", "drain", "alloc", "pool", "box", "lock", "failed", "fill"}

\* What the header and the allocators promise is in the files, and so is what any
\* process has mapped, also when a growth is cut off by a death: no touch of a mapped
\* page faults, and no opener refuses a finished store.  The exception is the
\* table of generations, which an opener may cut with a size it has read before
\* another process made the table longer (gens_grow).
FilesCover ==
  /\ \A r \in Region : hdr[r] <= file[r] /\ limit[r] <= file[r]
  /\ \A p \in Proc, r \in Region : m[p][r] <= file[r]
  /\ \A p \in Proc : crossed \/ m[p].gen <= file.gen

\* A process that has opened the store found it initialised: all its regions are
\* mapped ("magic last").
AttachInitialised ==
  \A p \in Proc : pc[p] \notin {"new", "init", "refused", "dead"} =>
     \A r \in Region : m[p][r] >= 1

\* All that was in use when the call began is mapped ...
MapsInUse(p) == \A r \in Region : m[p][r] >= base[p][r]

\* ... and every node has its entry in the table of generations, unless a growth
\* fell between the two loads of total_size in gens_grow: then the process takes the
\* table for current and stays behind until the next growth.
GensInUse(p) == split[p] \/ (base[p].art <= m[p].genN /\ m[p].genN <= m[p].gen)

\* After its kv_sync a call can reach all that was in use when it began, whichever
\* process made the store grow for it and whether or not that process survived; a
\* drain can reach what was retired before p2_round synchronised.
SyncCovers == \A p \in Proc : Synchronised(p) => MapsInUse(p) /\ GensInUse(p)

\* A writer fills a node or a box only where it has mapped it, also when the writer
\* before it died while the store grew.
AllocMapped ==
  \A p \in Proc : pc[p] = "fill" =>
     \A r \in IF loc[p].job = "node" THEN {"art"} ELSE Sbo : used[r] + 1 <= m[p][r]
============================================================================
