# kvspace-c: TLA+ verification project

kvspace-c is a filesystem-style key-value store kept in shared memory. Several
processes map the same files; one of them writes, all of them read without
locks. The parts that are hard to get right are the ones two processes touch
at the same time or that a process can leave half-done when it dies: giving
back the storage of replaced values, the table of processes that decides who
is alive, the index that readers walk while the writer changes it, files that
grow under the mappings of others, and calls that change many keys one by one.

The specifications are translated from `src/src/kvspace.c` (Linux build),
`src/src/durable_abi.c` and `src/src/coord.c`. A definition keeps the name of the function it models; `PROJECT.json` maps each
one to its lines.

## 1. Inventory

| Component | State | Operations | Interacts with |
|---|---|---|---|
| Epoch reclamation and garbage ring | `recovery_epoch`, `barrier_state`, `garb_head/tail`, `garb[]`, `garb_freeing`, `committed_bytes`, `freed_bytes`, `leak_boxes` in the shared header | `garb_reserve/commit/cancel`, `p2_elect`, `p2_wait_acks`, `p2_drain`, `p2_round`, `p2_maint(_start/_stop)` | value writes retire boxes; views acknowledge; registry tells who is alive |
| Process registry | `slots[64]`: state, pid, start time, claim id, quiesced, ack; `claim_seq` | `p2_reg_claim`, `p2_reg_release`, `p2_slot_alive`, reaping in `p2_round` | open and close; the election and the wait ask it |
| Store lifecycle | files, mappings, handle | `kvspaceShmOpen`, `kvspaceShmClose` | registry, maintenance thread, last round |
| View tokens | per token: box pointer, generations, epoch | `ViewResolve(From)`, `ViewFromRef`, `ViewCheck`, `ViewWrite`, `ViewDel`, `ViewAck`, `ViewQuiesce`, `ViewSweep` | read boxes that the ring may free |
| ART index | nodes (type, prefix, children, val word), `art_root`, generation table | `art_ins`, `art_del`, `art_grow`, `art_walk`, `art_follow`, `art_cover`, scans | every key operation |
| Value writes | boxes, `value_gen` | `shm_set_local`, `WriteInPlace`, `WriteNewPlace`, `SetPart`, `SetPartByRef`, status slots | index, ring, allocator |
| Allocator growth | sizes in the header, mappings per process | `kv_sync`, `art_slab_grow`, `kv_sbo_grow`, `gens_grow`, `kv_sbo_alloc/free` | every access to a box or node |
| Key scans and list cache | `list_gen`, cached names per handle | `list_scan`, `list_cached`, `ListAt` | key-set changes bump `list_gen` |
| Paths, links, external indexes | values of kind Ptr and Ext | `resolve_fetch`, `Get`, `Set`, `Del`, `Deltree`, `Cp*`, `Mkindex`, `Extindex` | index, list cache |
| Watch and notify | hash table of slots: mutex, condition, one pending value | `Notify`, `Watch`, `kvspaceWatch` | threads of one process |
| Value head, coordinates | none (pure) | head arithmetic, coordinate comparison | writes, list order |
| Durable ABI, bindings, allocator libraries | none of their own / external | wrappers | - |

What is hard in this code:

* **Concurrency.** Loads and stores of different processes interleave freely;
  there is no lock between processes. The writer is one process by contract
  (`kvspace.c:404`), readers and leaders are any.
* **Crashes.** A process may die between any two stores; the shared mapping
  stays as it is and others go on with it.
* **Ordering.** Reserve before change, change before commit, epoch bump before
  the wait, entry emptied before the head moves before the box is freed.
* **Identity.** "Alive" is decided by pid and start time read from `/proc`,
  while pids are reused and the reading may fail.
* **Limits.** The ring has a capacity, the registry 64 slots, claim ids end at
  2^30, node allocation may fail in the middle of an insertion.

What makes the components correct: no box is freed while a token or a key
refers to it, none is freed twice, a crash costs at most the boxes in flight,
the ring stays within its bounds, one leader at a time, rounds end; a live
process keeps its registry slot and a dead one does not keep it for ever; the
index maps exactly the keys that were set to their last values; a reader of a
view never accepts a mixture of two values and a write through a stale token or
reference does no harm; nobody touches what it has not mapped or maps what a
file has not got; a call on a tree changes that tree, all of it, and nothing
else; a cached listing is what a scan would find; a notification reaches the
watcher that was there before it, and every call returns.

## 2. Modules

### Reclaim

One step is one load or store that another process can observe. Shared
variables are the header fields above; process-local ones are the locals of
the round (`pc`, `by`, `rnd`, `acked`, `cur`, `pick`), the write in progress
(`wr`, one record because there is one writer), the runtime's tokens (`toks`)
and its `seen` epoch. Handles are identified with their registry slots.

| Code | Actions |
|---|---|
| `kvspaceShmOpen`, `kvspaceShmClose`, death | `kvspaceShmOpen`, `kvspaceShmClose` then `p2_reg_release`, `Crash` |
| tokens | `kvspaceShmViewFromRef`, `kvspaceShmViewAck` then `p2_ack_slot`, `kvspaceShmViewQuiesce` |
| write that replaces or deletes a value | `garb_reserve`, `garb_reserve_publish`, `kv_sbo_alloc`, `shm_set_fail`, `art_val_swap`, `garb_commit_stamp`, `garb_commit`, `garb_commit_count`; `shm_set_new` starts one that retires nothing |
| round | `kvspaceShmViewSweep` / `p2_maint` start it; `p2_elect(_busy)`, `p2_round_pending`, `p2_round_bump`, `p2_wait_acks`, `p2_wait_acks_done`, `p2_drain_*`, `kv_sbo_free`, `p2_round_reap`, `p2_release_busy` |

Contracts of the callers that the model takes over, because the library states
them and cannot enforce them: one writer at a time (`kvspace.c:404`); a runtime
that learns of a new epoch discards its tokens before it acknowledges
(`kvspace.c:1180`); before it declares itself quiesced it has discarded them
(`kvspace.c:1194`). Without any of the three the library frees boxes in use.

Data abstractions: a value is its box; a box counts one unit of garbage (the
code counts bytes; the threshold is scaled); the fields of an EMPTY entry and
of a FREE slot are normalised because no code reads them; `p2_wait_acks` may
remember a slot it found satisfied (the code re-reads all slots, so it passes
in a subset of the model's behaviours). The 32-bit comparison of epochs is a
comparison of naturals (see hazards).

### Registry

The same table one level deeper: the words of a slot are separate, so an opener
can see a slot half-claimed. A member of `Proc` is one incarnation of a
process; two may have the same pid one after the other, and their start times
differ. `Worlds` holds the circumstances that are explored: pids, what earlier
owners left in the slots, whether `/proc` is readable, whether registry
operations overlap, who may leave. Reclaim takes the registry as atomic; the Registry runs say under which
circumstances it behaves so, and under which it does not (section 4).

### Art and KvMap

`Art` is the radix tree: `node` is the sequence of nodes allocated so far (the
position is the node id), each with its kind, compressed prefix, children by
byte and val word; `root` is `art_root`. `kvspaceShmSet` is a whole insertion
(`art_ins` with chains, splits and growth; it may fail for want of nodes) and
`kvspaceShmDel` a whole deletion (the value goes, the node stays). A deletion
that fails because the garbage ring is full changes nothing and is a stuttering
step. Lookups, references (`kvspaceShmResolveRef`, `ref_leaf`,
`kvspaceShmResolvePrefix`, `kvspaceShmViewResolveFrom`) and scans are operators
on the state. A node with 48 or 256 children keeps them by byte in the code and
in a sequence here, which nobody can tell apart; the order of a 16-children node
matters, because it is searched by halving, and is kept. `list_scan` is modelled
without mounted external indexes and without the two filters on names.
A walk is a recursive function of a node and the bytes matched so far; the cases
of `art_ins` that end its recursion, a prefix that the key leaves (`InsertSplit`)
and a byte without a child (`InsertChild`), have names of their own.
`KvMap` is what a caller may expect: a map in which an operation touches its own
key only. `Art` is shown to implement it with `Lookup` as the refinement
mapping. One operation is one step; what a lock-free reader sees while a node
grows and moves, and what a death there leaves, is in `Views`.

### Views

One key at the level of its single words: the nodes it ever had (`node`: type
MOVED or not, val word, `struct_gen`, `value_gen`), the parent's link to it
(`link`), and the bodies of its boxes, each of two halves, which is enough for a
copy to be torn. A call of the writer is planned when it begins (nobody else
writes) and kept in `todo` as the stores it will make, in the order of the code;
each store is an action, and `Crash` drops what is left. `SetBelow` is the set
of another key that makes this key's node grow and move. The reader is the user
of the view ABI: `ResolveRef`, `ViewFromRef`, `ViewCheck`, a copy of the body,
`ViewRefresh`, and the comparison of the two tokens that `value_gen` is made for
(odd while a write is under way, `kvspace.c:337`); that comparison is not in the
repository and is marked external. Boxes are not reused here, which is what
Reclaim is about, and generations do not wrap.

### Regions

The files of a store, what the header and the allocators say of their sizes
(`hdr`, `limit`), what each process has mapped (`m`) and what is in use
(`used`). Sizes are small units; factors of 2 and 64 are both doublings.
`open_*` is `kvspaceShmOpen` up to the registry, `gens_*` is `gens_grow`,
`sync_*` is `kv_sync`, `grow_*` the three growth functions, and `sbo_*`, `balloc`
the allocations around them. `plock` is the box allocator's lock in shared
memory: a process that dies inside `kv_sbo_grow` keeps it.

### Paths and Keys

`Paths` has the functions on paths: splitting and joining, what belongs to a
tree, following links, external indexes, `Get` and `List`, on a store taken as a
function from keys to values (which `Art` justifies). A key is a sequence of
tokens, the separators `/`, U+00B7 and U+2025 and letters.

`Keys` has the calls. One writer runs a call as tasks (`todo`), each changing one
key or bumping `list_gen`; other processes see the states in between, a task may
fail, and the writer may die. An entry of `todo` is a set of tasks that a loop of
the code makes one after the other, in an order that does not matter. The recursion of `cptree_rec`
is a task that replaces itself by tasks for its children, listed when its turn
comes. A handle of another process lists through its cache: loading `list_gen`,
resolving the target, comparing, scanning one group of children after the other
and storing are separate actions (`lc_*`).

### Watch

`kvspaceShmWatch` and `kvspaceShmNotify` as threads of one process on one hash
slot, which several keys share: each mutex operation and each access between
them is an action, a wait may end by signal, timeout or for no reason, and the
values that Notify allocates are numbered so that their owner can be followed.
`kvspaceWatch` polls a key that others change, with a clock that goes on between
its steps; it shares nothing with the slots, so a behaviour has one or the
other.

### Listing

`list_scan` below the level of sets: the children of a directory and of the
index mounted on it in the order of the scan, sorted by the merge sort of the C
library with `child_cmp`, and the loop that drops equal neighbours.
`kvspaceCoordCmp` and its parser are operators on sequences of character codes.

### ReclaimProofs, RingProofs, RegistryProofs, RegionsProofs, WatchProofs, KeysProofs, ViewsProofs, ArtProofs

The theorems about the modules they are named after; RingProofs goes on from
ReclaimProofs (section 5).

## 3. Runs that pass

| Run | Instance | Shows |
|---|---|---|
| `reclaim_views` | 2 handles, both read through tokens, h1 writes, h2 sweeps; 2 boxes, ring of 2, 2 rounds, no crash | `TokenSafe`, `ValueSafe`, `DrainInOrder`, types |
| `reclaim_crash` | ring of 1 (so it is full after one write), 3 reservations, 2 rounds, one death anywhere and a reopening | `TokenSafe`, `FreeOnce`, `OneLeader`, `RingWindow`, `LeakBound` |
| `reclaim_live` | maintenance thread starts at the first garbage; one death | `RoundEnds`, `TakeOver` |
| `registry` | 3 incarnations on 2 slots: one operation at a time with deaths at any store and a shared pid; or concurrent opens and rounds on slots used before, `/proc` sometimes unreadable for others, nobody leaves | `OwnerKept`, `ClaimKept`, `RefusedReaps`, types |
| `art_map` | five families of up to five keys, two values; prefixes of at most 3 bytes, nodes of 2, 3, 4 and 7 children | `IsMap` (refinement of `KvMap`), `NodesStay`, `DirRefExact`, `ScanExact`, `ChildrenExact` |
| `keys` | letters a and b: every store made of seven plain keys (values, members, runtime keys, look-alikes, an entry) and nine kinds of links and mounts, one call; and a reader with one or two calls | `OutsideKept`, `TreeGone`, `CopyFaithful`, `ListAgreesWithGet`, `CacheCurrent`, types |
| `views` | any two calls, three nodes, two values, deaths, one reader | `ReadAtomic`, `EvenAtRest`, `CallTakesEffect`, types |
| `watch` | 2 watchers of 2 calls each, a notifier of 2 calls, 2 keys in the slot; a poll of 2 intervals with 2 changes | `WatchExact`, `ValuesAccounted`, `PollExact`, `CallsReturn`, types |
| `regions` | 2 processes, sizes up to 3, deaths anywhere | `FilesCover`, `AttachInitialised`, `SyncCovers`, `AllocMapped`, types |

Bounds of `keys`. The calls of a store are independent of each other once the
store is arbitrary, so one call from every small store is worth more than long
histories; two calls are there for a cache filled during the first and hit after
the second. Two letters give siblings that begin alike (`/a`, `/ab`); cycles of
links are longer than `Hops`. A scan in two groups is the least that can miss a
key and see a later one.

Bounds of `views`. The first call leaves what a second may stumble over (a
tombstone, another box, a moved node, an odd generation); a key can move twice.
Every call is a handful of stores, and the reader may retry throughout.

Bounds of `regions`. Size 3 lets each region grow once and shows the two ways to
meet a reserve (the heads take what is left, the others give up). One process
creates or grows, the other follows, opens late, or takes over from a dead one;
three processes with smaller sizes showed nothing new.

Bounds of `art_map`. The capacities of nodes and prefixes are constants, so
five keys drive a node through all four kinds and a key of six bytes is a chain
of nodes. The families are chosen for one difficulty each: fan-out, growth below
another node, a directory with its own entry, a node with a value that grows and
has a U+00B7 member, and long keys that split a chain inside and between nodes, with a name that ends in the first
byte of U+00B7. Every order of sets and deletes is explored, and there is no
other bound: the tree of a finite set of keys is finite because nodes stay. The
two values are interchangeable (symmetry). `Budgets` says how many allocations
of one insertion succeed: none, or as many as it wants. With exactly one, an
insertion that splits a prefix and then cannot allocate its leaf loses the keys
below the shortened node (`kvspace.c:2002`); see the hazard in `PROJECT.json`.

Bounds of the others. Two handles give every pair of roles (writer and leader in one process
or in two, reader and leader, dead and live); the protocol never counts
handles, it quantifies over slots. One key and two boxes are enough for a box
to be retired while its successor is stored, freed, and handed out again. A
ring of one entry makes full, wrapped and empty coincide after each write; the
ring of two lets a reservation stand behind a committed entry. Two epochs are
needed for a late acknowledgement of the first round to meet the second.
`MaxEpoch`, `MaxTail`, `MaxClaim` and `MaxCrash` stop counting; at `MaxEpoch` a
round is refused as if the election were lost. Deadlock is not checked because
a store nobody uses, and one at these bounds, rightly stands still.

Fairness (`reclaim_live`). The threads inside the library are scheduled: the
steps of a round and its deadline (`p2_barrier_ms`), the writer inside an
operation, and the maintenance loop, which wakes every 50 ms. Nothing is
assumed of the runtime: it may never acknowledge, open or close, and a process
may die.

Fairness (`watch`). A thread inside a call runs, a wait ends at the latest with
its timeout, the clock goes on. Nobody has to call, notify or change anything.

Exceptions in the properties. Where the code is known not to keep a promise in
one narrow circumstance, the property is stated with that circumstance as an
explicit exception, so that everything else stays checked: `owed` in
`CacheCurrent`, `dead`, moves and writes without `value_gen` in `ReadAtomic`,
`EvenAtRest` and `CallTakesEffect`, `raced` in `ValuesAccounted`, `crossed` in
`FilesCover`, `split` in `SyncCovers`, two-faced children in `CopyFaithful`. The
end of section 4 says what happens in them.

## 4. Runs that show a disagreement

| Run | Code | What the repository says | What happens |
|---|---|---|---|
| `registry_claim_race` | `kvspace.c:537` | `kvspace.c:119`: scanners treat CLAIMING as alive so that a claim in progress is not reclaimed | an opener frees a CLAIMING slot whose pid is still 0, while its live claimer is about to write it |
| `art_prefix` | `kvspace.c:779` | `kvspace.c:780`: an *empty* relative name stands for the node of the prefix | a non-empty name that ends inside the node's compressed prefix does so too: with only `/a/b` stored, the reference of `/` and the name `a` give the view of `/a/b` |
| `list_order` | `coord.c:58` | `kvspace.c:3833`: a listing is sorted and deduplicated | two coordinates are compared by integers or by bytes, depending on both: `[2]` < `[10]` < `[1a]` < `[2]`. With `[2]`, `b` in a directory and `[10]`, `[1a]`, `[2]` in the index mounted on it, the sort leaves the two `[2]` apart and both are listed |

Met while modelling and not the subject of a run. Except in the registry, no
statement in the repository is contradicted word for word, or the circumstance is
an exception of a property:

* Registry; these three also go against comments of the code, and the model
  shows each as soon as `Worlds` has the circumstance. A verdict on a former
  owner is applied to the present one if the slot changes hands in between: the
  compare-and-swap compares the state only (`kvspace.c:543`; 528 speaks of dead
  slots). `OwnerKept` fails with `SlotN = 1` when concurrent openers meet a
  process that closes and opens again (`serial` FALSE, `leavers` {p1}). A process
  that cannot read its own start time stores 0 and is taken for dead (531; 470
  counts what cannot be decided as alive): `OwnerKept` fails with `own`
  {TRUE, FALSE}. A claimer that dies after storing its pid leaves the slot
  CLAIMING for ever (518), so an open can be refused although every other process
  is dead (528: repeated crashes do not use the slots up); `RefusedReaps` is
  therefore about published slots only.
* Views. A node is marked MOVED before it has its forward (1808), and its parent
  drops it before taking the new one (2018): readers miss the key meanwhile, or
  take a box offset for a node; a death there loses the node and all below it. A death
  inside an in-place write leaves `value_gen` odd, and later writes then look
  finished while they copy (832). `SetPart`, and the caller's writes after
  `WriteInPlace` and `WriteNewPlace`, do not touch `value_gen` (3040).
* Keys. The list cache stays stale after a death between a change and its bump,
  until the next change (3204). Of a child with an entry `b/` and a value `b`
  or members, `Cptree` copies only the entry and what is below it (3639); the
  entry of the source directory itself and runtime keys are not copied. A copy
  from below its destination deletes its source first (3708). An external index
  ending in U+00B7 is listed by members but read with a `/` in between (2818).
  `WriteNewPlace` does not look at external indexes (3405).
* Watch. Registering holds `wlock`, collecting holds the slot's mutex: a second
  watcher may free the value that the first is about to return (4079, 4096). A
  second watcher takes the slot's key over, and the first is then not told of
  its own. A wait that ends early for no reason counts as a timeout (4092).
* Regions. An opener may cut the table of generations to a size it has read
  before another process made it longer (620). If the slab grows between the two
  loads of `total_size`, the process takes its table for current and stays one
  growth behind (608, 609). A leader maps what is there before it bumps the
  epoch; a box retired in between may lie beyond its mapping when it drains (1086). A
  death in `kv_sbo_grow` leaves the allocator's lock taken (1385), one between
  the two stores of `art_slab_grow` makes the next growth skip a size, and one
  during creation leaves a file that every open refuses.

## 5. Proofs

Every theorem is about the specification that the runs check, for all values of
its constants: any number of processes, threads, keys and boxes, any capacities,
sizes and bounds, from the ASSUME of the module and nothing else. Each rests on
an inductive invariant that TLC checked on the run's instance before it was
proved. A proof has one lemma per group of conjuncts, with one step per action
and under it one per conjunct that the action can disturb; lemmas that say what
an action does to one part of the state (*effects*) come first.

### Reclaim (`ReclaimProofs`, `RingProofs`)

| Theorem | Statement |
|---|---|
| `TypeCorrect` | `Spec => []TypeOK` |
| `LeaderSafety` | `Spec => []OneLeader` |
| `TokenSafety` | `Spec => []TokenSafe` |
| `ValueSafety` | `Spec => []ValueSafe` |
| `FreeSafety` | `Spec => []FreeOnce` |
| `RingSafety` | `Spec => []RingWindow` |
| `DrainOrder` | `Spec => DrainInOrder` (an action property) |
| `LeakSafety` | `Spec => []LeakBound` |
| `Invariance`, `RingInvariance` | `Spec => []IInv`, `Spec => []RingInv` |

`TokenSafe` is far from inductive: that a freed box has no token follows from
where the box has been. `IInv` is the conjunction of

* `RegistryInv`: a live process owns its MINE slot and claim ids tell slots
  apart; a process that is dead, closing or quiesced holds no token; nobody has
  seen or acknowledged an epoch still to come;
* `LeaderInv`: whoever is past the election owns the election word; a round is
  not ahead of the epoch and has checked off every slot before it drains; the
  entry noted in `garb_freeing` is still the one the leader picked;
* `WriterInv`: the writer is alive, remembers the value it replaces, and holds a
  RESERVED entry under its own claim exactly if it has something to retire, so
  no drain takes that entry as long as the writer lives;
* `OwnerInv`: every box has at most one owner among the free set, the keys, the
  committed entries, the write in progress and the leader freeing it;
* `TokenInv`: whoever still reaches a retired box has acknowledged no epoch
  later than its stamp, and if a leader has checked that process off, the stamp
  is not before its round; a box not yet published, or already taken out of the
  ring, nobody reaches.

`RingInv` adds the arithmetic of the ring: an entry in use belongs to a position
between head and tail or is the reservation at the tail, and the leader stands at
the head, or one behind it just after moving it. Positions less than a capacity
apart have different slots (`ModDistinct`, for every capacity), so nobody
reserves the entry that a leader is about to pass. `LeakBound` is a statement
about a cardinality: each step that is not a crash makes no box lost, and a crash
at most two, the writer's and the leader's.

### Registry (`RegistryProofs`)

| Theorem | Statement |
|---|---|
| `TypeCorrect` | `Spec => []TypeOK` |
| `OwnerSafety` | `Spec => []((world.serial /\ Readable) \/ Stable => OwnerKept)` |
| `ClaimSafety` | `Spec => [](world.serial \/ (Stable /\ claimSeq <= MaxClaim) => ClaimKept)` |
| `ReapSafety` | `Spec => [](world.serial /\ Sighted => RefusedReaps)` |

Section 4 shows that none of the three holds in every circumstance, so the
theorems say in which. `Readable`: a process can read its own start time;
`Sighted`: also those of others; `serial`: registry operations do not overlap,
deaths at any store included; `Stable`: operations overlap freely, but nobody
leaves, and the slots have been used before, so that none still has the pid 0 of a
new store. These are the two kinds of worlds of the `registry` run. One at a time,
what a scanner loaded stays true until its compare-and-swap. In a stable world
every MINE slot has a live owner that it names, so that scans free nothing, with
one exception that the proof brought to light: once the claim ids have run out
(`MaxClaim`, 2^30 in the code), a claimer gives its slot back, a scanner that
loaded CLAIMING before may free the slot under the next one that takes it, and
`ClaimKept` fails. That one is refused its id as well, so no handle is hurt and
`OwnerKept` holds all the same.

### Regions (`RegionsProofs`)

| Theorem | Statement |
|---|---|
| `TypeCorrect` | `Spec => []TypeOK` |
| `FilesSafety` | `Spec => []FilesCover` |
| `AttachSafety` | `Spec => []AttachInitialised` |
| `SyncSafety` | `Spec => []SyncCovers` |
| `AllocSafety` | `Spec => []AllocMapped` |

`IInv` says who may be where (`WriterInv`: one writer, and the allocator's lock is
its own or a dead one's), that there is no header before the creator initialises
it (`Phase`), and the central fact, `Sizes`: a file is as long as what was told
last, or as the growth after that, which a death may have cut off; header and
box allocator differ only while the lock is taken. `Growth` follows the four
steps of a growth, `Maps` what each process has mapped at each step of a call,
and `Gens` the same for the table of generations.

### Watch (`WatchProofs`)

| Theorem | Statement |
|---|---|
| `TypeCorrect` | `Spec => []TypeOK` |
| `WatchExactness` | `Spec => []WatchExact` |
| `ValuesSafety` | `Spec => []ValuesAccounted` |
| `PollExactness` | `Spec => []PollExact` |

`LockInv` is the lock discipline: who holds `wlock` and the slot's mutex is read
off the positions of the threads. `YoungInv` dates values against registrations,
`AloneInv` follows the value due to a watcher that is alone in the slot through
notifications under way, and `AccountInv` says what a collector holds and a
registration is about to forget, as long as the two have not met.

### Keys (`KeysProofs`)

| Theorem | Statement |
|---|---|
| `TypeCorrect` | `Spec => []TypeOK` |
| `CacheSafety` | `Spec => []CacheCurrent` |
| `ScopeSafety` | `Spec => []OutsideKept` |
| `DeltreeSafety` | `Spec => []TreeGone` |

For any store of absolute keys, any alphabet, and any calls. `CacheInv`: as long as
nothing is owed and `list_gen` is what the handle loaded first, what it has scanned
so far is what the groups scanned hold now. `ScopeInv`: every task left is within
the scope of its call, tasks of the recursion included, because what lies below a
place within the destination does so too. `GoneInv`: a Deltree that has not failed
still has a task for every key of the tree that is left. The lemmas are about the
functions of Paths: what `child_name_len`, `art_scan_pfx` and their kind yield for
every key.

### Views (`ViewsProofs`)

| Theorem | Statement |
|---|---|
| `TypeCorrect` | `Spec => []TypeOK` |
| `EvenSafety` | `Spec => []EvenAtRest` |
| `EffectSafety` | `Spec => []CallTakesEffect` |
| `ReadSafety` | `Spec => []ReadAtomic` |

For any values, any number of calls, nodes and boxes, a death at any store, and a
reader that is overtaken by any number of stores between two of its loads. `IInv`
is the conjunction of

* `Shape`: the stores left of a call are the end of one of nine plans (an in-place
  write of the body or of half of it, a first node, a new box in a node in use or in
  a marked one, a deletion by key or by token, a copy without value_gen, a move),
  perhaps with the fill of WriteNewPlace behind it. How many are left says what the
  key and its nodes look like, and whether its value is the old or the new one;
* `EvenInv`: value_gen is odd for the key's node during an in-place copy, else even;
* `NowInv`: the ghost `now` is what a walk finds, except in the middle of a copy or a
  move;
* `TokInv`: the writer's token leads to the key's node along the forwards, and one
  whose struct_gen is that of its node is a token of the key's node. So a call by
  token or by reference changes the key, or nothing;
* `ForwardInv`: a forwarded node is marked, its target is no younger than the key's
  node in use, and no node in use but the key's has the key's box, as far as forwards
  lead;
* `OverInv`, `ReadInv`, `SecondInv`: what the reader knows at each of its loads.

The heart is `LeafRead` with `ArriveLegal`. When the second walk arrives at a node in
use, this is the key's node and not older than that of the first token; forwards lead
to younger nodes only; so if the tokens agree, it was the same node all the time. A box
is published once, so it had the same box; value_gen only grows, so it was the same,
and even, all the time: nobody wrote to the box from the first token to the arrival, and
what was copied is the value the key has at the arrival. That the reference ends
somewhere (`FollowStep`) needs that the recursive function of `art_follow` exists: it
is built up from the youngest node down, through the least number of nodes for which
it could not be.
TLC checked the parts about the reader on all states of the `views` run, and `Shape`
and `TokInv`, which are about the writer, on a larger instance without a reader.

### Art (`ArtProofs`)

| Theorem | Statement |
|---|---|
| `ArtIsMap` | `Roomy` implies `Spec => IsMap`: the refinement of `KvMap` |
| `ArtNodesStay` | `Roomy` implies `Spec => NodesStay`: a node, followed through MOVED, keeps its bytes |
| `ArtDirRefs` | `Roomy` implies `Spec => DirRefExact`: a directory reference finds what the root finds |
| `ArtScan` | `Roomy` implies `Spec => []ScanExact`: a scan finds exactly the keys with values |
| `ArtTree` | `Roomy` implies `Spec => []ArtInv`: the nodes are a tree |
| `InsertExact` | `art_ins` gives the key its value and keeps all others, or changes nothing |
| `FindExact` | `art_walk` finds the node with a value that ends with the key, and only that |

For any families of finite keys, any values, any bound on prefixes and any
increasing capacities. `ArtInv` says that there are a set of nodes, and for each the
bytes that lead to its end (`lab`) and to its beginning (`st`), so that the tree below
the root is these nodes (`Tree`): a branch by a byte leads to a node that begins right
after it (`Branches`), a node has a child towards every longer label (`Complete`), no
label leaves a node inside its prefix (`Apart`), and no two nodes end with the same bytes
(`OneNode`). Nodes marked MOVED and pieces left over by failed allocations are not among
them. `Complete` is what makes the other half of a lookup provable: that a key which is
there is found. It is stated over all pairs of nodes, not along paths, so that no proof
needs a path.

An insertion is followed from the place where it stops, a split, a growth, a new chain or
an existing node, up to the root; on the way up `Relink` puts a new node in the place of
the one it replaces (`Rejoin`). `Roomy` is needed: it says that the allocations of one
insertion all succeed or all fail. An insertion that gets its first node and not its second
loses keys (section 3, `Budgets`; the hazard at `kvspace.c:2003`), so that without it the
theorem is false. The budgets of the run satisfy it.

The other walks are compared with the labels too. `Paths` and `art_collect_keys` go
through all children, so their functions are shown to exist for any nodes by what is
reachable in them (`Traversal`), and on a tree to gather exactly the nodes below
(`TraversalVisits`); `art_cover` ends at a node that begins within the prefix and ends
after it, or no label has the prefix (`Covers`). With `OnlyKeys`, that no other key ever
has a value, this is `ScanExact`. A step leaves every label at its node or at the one the
node was moved to (`Carries`), which art_follow finds: that is `NodesStay`; and a
reference given out by `art_find_dir` is to a node whose label is a prefix of the key
(`DirGood`), from which a walk finds what it finds from the root (`WalkOn`): that is
`DirRefExact`.

### Only model-checked

* Liveness: `RoundEnds`, `TakeOver`, `CallsReturn`. Fairness and ENABLED are beyond
  the prover.
* `CopyFaithful` and `ListAgreesWithGet` of Keys, which compare two recursions over
  whole trees of keys, links and mounts.
* `ChildrenExact` of Art: a listing cuts names out of the bytes of several nodes, and
  the proof would be about separators that lie across them.
* Listing uses RECURSIVE operators, which the prover does not support.

## 6. Not modelled

The macOS branches (no `/proc`: no rounds; Close empties the ring itself), fork
guards, the early return of `p2_round` on an index that never had a key,
futexes (a wait that times out and polls is a step that may be taken), test
hooks, log messages. The single stores of a prefix split and of the child arrays
of a node, as lock-free readers see them. Status slots (length and type rules on
single values), the length rules of part writes and of references, keys at the
1024-byte limit. `kv_sync` by the maintenance thread beside a call of the same
process. The clean-up of a failed open. The encoding of value heads, whose codec
is an external library, and the constructors built on it. The block and box
allocators are external libraries; only their use is modelled. Bindings hold no
state; benchmarks and tests drive the library.

## 7. Plan

1. Reclaim with its proofs, Registry, Art against KvMap (done).
2. Views, Regions, Keys and Paths, Watch, Listing (done).
3. Theorems about the ring, Registry, Regions, Watch, Keys and Views (done).
4. That Art implements KvMap, and from the same invariant `ScanExact`, `NodesStay` and
   `DirRefExact` (done); then `ChildrenExact`.
5. The stores of a prefix split and of child arrays under lock-free walks.
