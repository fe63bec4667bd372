------------------------------- MODULE Reclaim -------------------------------
(***************************************************************************)
(* Deferred reclamation of value boxes in the shared store (kvspace.c).    *)
(*                                                                         *)
(* A value lives in a box; the ART leaf of its key holds the box offset in *)
(* one atomic word.  Handles (one per process) read boxes through view     *)
(* tokens without any lock.  The single writer retires a replaced or       *)
(* deleted box into the garbage ring, stamped with the barrier epoch.  A   *)
(* leader elected among the handles runs a round: it bumps the epoch,      *)
(* waits until every handle has acknowledged it, is quiesced or is dead,   *)
(* and then drains the ring, freeing the boxes stamped before this round.  *)
(* Any process may crash between any two stores.                           *)
(*                                                                         *)
(* One step is one atomic load or store of the code that another process   *)
(* can observe.  A registry slot is identified with its handle: how slots  *)
(* are claimed and reclaimed is module Registry.  A box counts one unit of *)
(* garbage.  Fields of an EMPTY ring entry and of a FREE slot are never    *)
(* read by the code and are normalised.                                    *)
(***************************************************************************)
EXTENDS Naturals, FiniteSets

CONSTANTS
  Handle,       \* processes that open the store, one handle each
  Node,         \* leaf nodes of the index, one per key
  Writers,      \* processes that take the writer's role, one at a time
  Readers,      \* processes that use view tokens
  Sweepers,     \* processes that call ViewSweep
  Box,          \* boxes of the value allocator
  None,         \* no box (a zero val word), no handle, no node
  GarbCap,      \* entries of the garbage ring (GARB_CAP)
  Threshold,    \* garbage that starts the maintenance thread (GARB_THRESHOLD)
  ThreadStart,  \* outcomes of pthread_create: a subset of {"on", "failed"}
  MaxClaim,     \* claim ids (GARB_MAX_CLAIM): open fails beyond it
  MaxEpoch,     \* bound on rounds
  MaxTail,      \* bound on ring reservations
  MaxCrash      \* bound on crashes

ASSUME ConstantsAssumption ==
  /\ Writers \union Readers \union Sweepers \subseteq Handle
  /\ None \notin Box \union Handle \union Node
  /\ GarbCap \in Nat \ {0}
  /\ Threshold \in Nat \ {0}
  /\ ThreadStart \subseteq {"on", "failed"}
  /\ MaxClaim \in Nat /\ MaxEpoch \in Nat /\ MaxTail \in Nat /\ MaxCrash \in Nat

VARIABLES
  \* shared header and allocator
  epoch,      \* recovery_epoch
  claimSeq,   \* claim_seq
  slot,       \* slots[]: state, claim_id, quiesced, recovery_ack
  barrier,    \* barrier_state: the owner's claim, 0 = FREE
  head, tail, \* garb_head, garb_tail
  ring,       \* garb[]: state, claim, epoch, off
  freeing,    \* garb_freeing
  committed, freed,  \* committed_bytes, freed_bytes
  leaks,      \* leak_boxes
  val,        \* val word of each leaf
  free,       \* boxes the allocator may hand out
  \* process-local
  up,         \* the process that owns the handle exists
  seen,       \* the runtime's *epoch argument of ViewAck
  acking,     \* ViewAck has loaded an unchanged epoch and not stored it yet
  toks,       \* boxes the runtime's view tokens point into
  maint,      \* maintenance thread: "off", "on", "failed" (reclaim_unavailable)
  pc,         \* where the handle's round is, "idle" when none is running
  by,         \* the thread that runs it: "maint" or "main"
  rnd,        \* its epoch (r of p2_round)
  acked,      \* slots p2_wait_acks has found satisfied
  cur,        \* the ring position p2_drain looks at
  pick,       \* the box p2_drain has taken out (off)
  closing,    \* Close has begun
  wr,         \* the write operation in progress (single-writer contract)
  crashes     \* crashes so far

reg   == <<claimSeq, slot, up>>
rt    == <<seen, acking, toks>>
store == <<val, free>>
ringq == <<head, tail, ring>>
acct  == <<freeing, committed, freed, leaks>>
life  == <<maint, closing, crashes>>
lead  == <<pc, by, rnd, acked, cur, pick>>
vars  == <<reg, rt, store, ringq, acct, life, lead, epoch, barrier, wr>>

Slots   == 0 .. GarbCap - 1
MaybeBox == Box \union {None}
RoundPc == {"idle", "want", "sync", "bump", "wait", "drain", "audit", "mark",
            "emptied", "advanced", "freed", "reap", "release"}
WritePc == {"idle", "resv", "held", "new", "swapped", "stamped", "count"}

EmptyEntry == [st |-> "EMPTY", claim |-> 0, epoch |-> 0, off |-> None]
FreeSlot   == [state |-> "FREE", claim |-> 0, quiesced |-> 1, ack |-> 0]
\* e is the reserved ring slot; GarbCap = none (nothing is being retired)
NoWrite    == [pc |-> "idle", h |-> None, n |-> None, op |-> "set", old |-> None,
               new |-> None, e |-> GarbCap]

Init ==
  /\ epoch = 0 /\ claimSeq = 0 /\ barrier = 0 /\ head = 0 /\ tail = 0
  /\ slot = [h \in Handle |-> FreeSlot]
  /\ ring = [k \in Slots |-> EmptyEntry]
  /\ freeing = None /\ committed = 0 /\ freed = 0 /\ leaks = 0
  /\ val = [n \in Node |-> None]
  /\ free = Box
  /\ up = {}
  /\ seen = [h \in Handle |-> 0]
  /\ acking = {}
  /\ toks = [h \in Handle |-> {}]
  /\ maint = [h \in Handle |-> "off"]
  /\ pc = [h \in Handle |-> "idle"]
  /\ by = [h \in Handle |-> "maint"]
  /\ rnd = [h \in Handle |-> 0]
  /\ acked = [h \in Handle |-> {}]
  /\ cur = [h \in Handle |-> 0]
  /\ pick = [h \in Handle |-> None]
  /\ closing = {}
  /\ wr = NoWrite
  /\ crashes = 0

------------------------------------------------------------------------------
(* Liveness of processes and claims *)

p2_slot_alive(g) == slot[g].state = "MINE" /\ g \in up

p2_claim_alive(c) == \E g \in Handle : p2_slot_alive(g) /\ slot[g].claim = c

p2_other_alive(h) == \E g \in Handle \ {h} : p2_slot_alive(g)

\* u64 subtraction: freed_bytes beyond committed_bytes wraps to a huge amount
Overdue(c, f) == f > c \/ c - f >= Threshold

\* The slots once the MINE slots of dead processes are swapped to FREE.
ReapedSlots ==
  [g \in Handle |-> IF slot[g].state = "MINE" /\ g \notin up THEN FreeSlot ELSE slot[g]]

\* The main thread of h is between two calls into the library.
MainIdle(h) ==
  /\ h \in up /\ h \notin closing /\ h \notin acking
  /\ ~(wr.pc # "idle" /\ wr.h = h)
  /\ ~(by[h] = "main" /\ pc[h] # "idle")

\* The locals of a round: entered by one of the two threads, moved on, left.
BeginRound(h, who) ==
  /\ pc' = [pc EXCEPT ![h] = "want"]
  /\ by' = [by EXCEPT ![h] = who]
  /\ UNCHANGED <<rnd, acked, cur, pick>>

Goto(h, l) == pc' = [pc EXCEPT ![h] = l] /\ UNCHANGED by

EndRound(h) ==
  /\ pc' = [pc EXCEPT ![h] = "idle"]
  /\ by' = [by EXCEPT ![h] = "maint"]
  /\ rnd' = [rnd EXCEPT ![h] = 0]
  /\ acked' = [acked EXCEPT ![h] = {}]
  /\ cur' = [cur EXCEPT ![h] = 0]
  /\ pick' = [pick EXCEPT ![h] = None]

\* The maintenance thread is created once; a failure is remembered.
p2_maint_start(m) == IF m = "off" THEN ThreadStart ELSE {m}

\* The thread is stopped and joined: it is not inside a round any more.
p2_maint_stop(h) == pc[h] = "idle" /\ maint' = [maint EXCEPT ![h] = "off"]

------------------------------------------------------------------------------
(* Open, close, crash *)

\* kvspaceShmOpen: claim a slot (dead ones are reaped first); when much garbage
\* is already pending the maintenance thread must start, or the open fails.
kvspaceShmOpen(h) ==
  /\ h \notin up
  /\ claimSeq < MaxClaim
  /\ claimSeq' = claimSeq + 1
  /\ \E m \in IF Overdue(committed, freed) THEN p2_maint_start("off") ELSE {"off"} :
       IF m = "failed"
         THEN /\ slot' = [ReapedSlots EXCEPT ![h] = FreeSlot]
              /\ UNCHANGED <<up, maint>>
         ELSE /\ slot' = [ReapedSlots EXCEPT ![h] =
                           [state |-> "MINE", claim |-> claimSeq + 1,
                            quiesced |-> 1, ack |-> epoch]]
              /\ up' = up \union {h}
              /\ maint' = [maint EXCEPT ![h] = m]
  /\ UNCHANGED <<rt, store, ringq, acct, epoch, barrier, lead, closing, wr, crashes>>

\* kvspaceShmClose, first half: the last live process declares itself quiesced
\* and runs a round of its own (refused while its maintenance thread runs one).
kvspaceShmClose(h) ==
  /\ MainIdle(h)
  /\ closing' = closing \union {h}
  /\ toks' = [toks EXCEPT ![h] = {}]
  /\ IF p2_other_alive(h)
       THEN UNCHANGED <<slot, lead>>
       ELSE /\ slot' = [slot EXCEPT ![h].quiesced = 1]
            /\ IF pc[h] = "idle" THEN BeginRound(h, "main") ELSE UNCHANGED lead
  /\ UNCHANGED <<store, ringq, acct, epoch, barrier, claimSeq, up, seen, acking, maint,
                 wr, crashes>>

\* kvspaceShmClose, second half: p2_maint_stop has joined the maintenance
\* thread; p2_reg_release gives the slot back.
p2_reg_release(h) ==
  /\ h \in up /\ h \in closing
  /\ slot' = [slot EXCEPT ![h] = FreeSlot]
  /\ up' = up \ {h}
  /\ seen' = [seen EXCEPT ![h] = 0]
  /\ p2_maint_stop(h)
  /\ closing' = closing \ {h}
  /\ UNCHANGED <<store, ringq, acct, epoch, barrier, claimSeq, acking, toks, lead, wr,
                 crashes>>

\* A process dies: what it kept in its own memory is gone, the shared mapping
\* stays as its last store left it.
Crash(h) ==
  /\ h \in up /\ crashes < MaxCrash
  /\ crashes' = crashes + 1
  /\ up' = up \ {h}
  /\ seen' = [seen EXCEPT ![h] = 0]
  /\ acking' = acking \ {h}
  /\ toks' = [toks EXCEPT ![h] = {}]
  /\ maint' = [maint EXCEPT ![h] = "off"]
  /\ EndRound(h)
  /\ closing' = closing \ {h}
  /\ wr' = IF wr.pc # "idle" /\ wr.h = h THEN NoWrite ELSE wr
  /\ UNCHANGED <<store, ringq, acct, epoch, barrier, claimSeq, slot>>

------------------------------------------------------------------------------
(* View tokens *)

\* ViewFromRef (ViewResolve, ViewResolveFrom, ViewRefresh end here): the val
\* word is loaded and the token points into its box from then on.
kvspaceShmViewFromRef(h, n) ==
  /\ MainIdle(h) /\ slot[h].quiesced = 0
  /\ val[n] # None
  /\ toks' = [toks EXCEPT ![h] = @ \union {val[n]}]
  /\ UNCHANGED <<reg, store, ringq, acct, life, epoch, barrier, seen, acking, lead, wr>>

\* ViewAck: a changed epoch is reported (the runtime discards its tokens before
\* it calls again); an unchanged one is going to be acknowledged.
kvspaceShmViewAck(h) ==
  /\ h \in Readers /\ MainIdle(h)
  /\ IF seen[h] # epoch
       THEN /\ seen' = [seen EXCEPT ![h] = epoch]
            /\ toks' = [toks EXCEPT ![h] = {}]
            /\ UNCHANGED acking
       ELSE /\ acking' = acking \union {h}
            /\ UNCHANGED <<seen, toks>>
  /\ UNCHANGED <<reg, store, ringq, acct, life, epoch, barrier, lead, wr>>

\* p2_ack_slot: the store of the epoch ViewAck loaded earlier.
p2_ack_slot(h) ==
  /\ h \in acking
  /\ slot' = [slot EXCEPT ![h].ack = seen[h]]
  /\ acking' = acking \ {h}
  /\ UNCHANGED <<store, ringq, acct, life, epoch, barrier, claimSeq, up, seen, toks,
                 lead, wr>>

\* ViewQuiesce: going quiet requires that the runtime has discarded its tokens.
kvspaceShmViewQuiesce(h, on) ==
  /\ h \in Readers /\ MainIdle(h)
  /\ slot[h].quiesced # on
  /\ slot' = [slot EXCEPT ![h].quiesced = on]
  /\ toks' = [toks EXCEPT ![h] = IF on = 1 THEN {} ELSE @]
  /\ UNCHANGED <<store, ringq, acct, life, epoch, barrier, claimSeq, up, seen,
                 acking, lead, wr>>

------------------------------------------------------------------------------
(* The writer *)

\* garb_reserve up to the store of RESERVED: refused when the ring is full, when
\* it is three quarters full and no maintenance thread can run, and when the
\* tail slot is held by anything but the unpublished reservation of a dead claim.
garb_reserve(h, n, op) ==
  LET e == tail % GarbCap IN
  /\ h \in Writers /\ MainIdle(h) /\ wr.pc = "idle" /\ val[n] # None
  /\ tail < MaxTail
  /\ tail - head < GarbCap
  /\ ~(maint[h] = "failed" /\ GarbCap - (tail - head) < GarbCap \div 4)
  /\ \/ ring[e].st = "EMPTY"
     \/ ring[e].st = "RESERVED" /\ ~p2_claim_alive(ring[e].claim)
  /\ ring' = [ring EXCEPT ![e] = [EmptyEntry EXCEPT !.st = "RESERVED",
                                                    !.claim = slot[h].claim]]
  /\ wr' = [pc |-> "resv", h |-> h, n |-> n, op |-> op, old |-> val[n],
            new |-> None, e |-> e]
  /\ UNCHANGED <<reg, rt, store, acct, life, epoch, barrier, head, tail, lead>>

\* garb_reserve, last store: the reservation is published.
garb_reserve_publish ==
  /\ wr.pc = "resv"
  /\ tail' = tail + 1
  /\ wr' = [wr EXCEPT !.pc = "held"]
  /\ UNCHANGED <<reg, rt, store, acct, life, epoch, barrier, head, ring, lead>>

\* shm_set_local on a key without a value: nothing to retire, no reservation.
shm_set_new(h, n) ==
  /\ h \in Writers /\ MainIdle(h) /\ wr.pc = "idle" /\ val[n] = None
  /\ wr' = [pc |-> "held", h |-> h, n |-> n, op |-> "set", old |-> None, new |-> None,
            e |-> GarbCap]
  /\ UNCHANGED <<reg, rt, store, ringq, acct, life, epoch, barrier, lead>>

kv_sbo_alloc ==
  /\ wr.pc = "held" /\ wr.op = "set"
  /\ \E b \in free :
       /\ free' = free \ {b}
       /\ wr' = [wr EXCEPT !.pc = "new", !.new = b]
  /\ UNCHANGED <<reg, rt, ringq, acct, life, epoch, barrier, val, lead>>

\* The reservation given back; the entry stays in the ring as EMPTY.
garb_cancel ==
  IF wr.e \in Slots THEN [ring EXCEPT ![wr.e] = EmptyEntry] ELSE ring

\* Broken variant: the box allocated for a failed write is not given back.
FreedOnFail_none == {}

FreedOnFail == IF wr.pc = "new" THEN {wr.new} ELSE {}

\* Allocation failed ("held") or art_ins failed ("new"): the old value stays,
\* the new box was never visible and is freed at once.
shm_set_fail ==
  /\ wr.pc \in {"held", "new"} /\ wr.op = "set"
  /\ ring' = garb_cancel
  /\ free' = free \union FreedOnFail
  /\ wr' = NoWrite
  /\ UNCHANGED <<reg, rt, acct, life, epoch, barrier, head, tail, val, lead>>

\* The val word changes: art_ins stores the new box, art_del and ViewDel swap in
\* zero.  Without a value to retire the operation ends here.
art_val_swap ==
  /\ \/ wr.pc = "new"
     \/ wr.pc = "held" /\ wr.op = "del"
  /\ val' = [val EXCEPT ![wr.n] = wr.new]
  /\ wr' = IF wr.old = None THEN NoWrite
                             ELSE [wr EXCEPT !.pc = "swapped", !.new = None]
  /\ UNCHANGED <<reg, rt, ringq, acct, life, epoch, barrier, free, lead>>

\* Broken variant: the box now stored under the key is retired.
RetiredBox_current == val[wr.n]

RetiredBox == wr.old

\* garb_commit: the offset and the current epoch are written into the entry.
garb_commit_stamp ==
  /\ wr.pc = "swapped"
  /\ ring' = [ring EXCEPT ![wr.e] = [@ EXCEPT !.off = RetiredBox, !.epoch = epoch]]
  /\ wr' = [wr EXCEPT !.pc = "stamped"]
  /\ UNCHANGED <<reg, rt, store, acct, life, epoch, barrier, head, tail, lead>>

\* garb_commit: the entry becomes COMMITTED, ...
garb_commit ==
  /\ wr.pc = "stamped"
  /\ ring' = [ring EXCEPT ![wr.e].st = "COMMITTED"]
  /\ wr' = [wr EXCEPT !.pc = "count"]
  /\ UNCHANGED <<reg, rt, store, acct, life, epoch, barrier, head, tail, lead>>

\* ... and the garbage is counted; enough of it starts the maintenance thread.
garb_commit_count ==
  /\ wr.pc = "count"
  /\ committed' = committed + 1
  /\ \E m \in IF Overdue(committed + 1, freed) THEN p2_maint_start(maint[wr.h])
                                                  ELSE {maint[wr.h]} :
       maint' = [maint EXCEPT ![wr.h] = m]
  /\ wr' = NoWrite
  /\ UNCHANGED <<reg, rt, store, ringq, epoch, barrier, freeing, freed, leaks, lead,
                 closing, crashes>>

------------------------------------------------------------------------------
(* A round *)

\* p2_round is called (it does nothing on an index that never had a key, which
\* is not told apart here): by ViewSweep on the main thread ...
kvspaceShmViewSweep(h) ==
  /\ h \in Sweepers /\ MainIdle(h) /\ pc[h] = "idle"
  /\ BeginRound(h, "main")
  /\ UNCHANGED <<reg, rt, store, ringq, acct, life, epoch, barrier, wr>>

\* ... or by the maintenance thread when enough garbage is pending.
p2_maint(h) ==
  /\ h \in up /\ maint[h] = "on" /\ pc[h] = "idle" /\ Overdue(committed, freed)
  /\ BeginRound(h, "maint")
  /\ UNCHANGED <<reg, rt, store, ringq, acct, life, epoch, barrier, wr>>

\* Broken variants: any owner is superseded; a dead owner never is.
ElectionOpen_any(h) == barrier # slot[h].claim
ElectionOpen_free(h) == barrier = 0

\* The election word is free, or its owner is dead.
ElectionOpen(h) ==
  barrier = 0 \/ (barrier # slot[h].claim /\ ~p2_claim_alive(barrier))

\* One compare-and-swap on the election word.
p2_elect(h) ==
  /\ pc[h] = "want" /\ epoch < MaxEpoch
  /\ ElectionOpen(h)
  /\ barrier' = slot[h].claim
  /\ Goto(h, "sync") /\ UNCHANGED <<rnd, acked, cur, pick>>
  /\ UNCHANGED <<reg, rt, store, ringq, acct, life, epoch, wr>>

\* A live owner: this round gives up (so does every round beyond MaxEpoch).
p2_elect_busy(h) ==
  /\ pc[h] = "want"
  /\ \/ barrier # 0 /\ (barrier = slot[h].claim \/ p2_claim_alive(barrier))
     \/ epoch = MaxEpoch
  /\ EndRound(h)
  /\ UNCHANGED <<reg, rt, store, ringq, acct, life, epoch, barrier, wr>>

\* The compare-and-swap that gives the election word back.
ReleasedBarrier(h) == IF barrier = slot[h].claim THEN 0 ELSE barrier

\* Broken variant: the wait for acks has no deadline.
RoundGivesUp_never(h) == pc[h] = "sync"

\* kv_sync failed, or the wait for acks ran into its deadline: nothing is freed.
RoundGivesUp(h) ==
  \/ pc[h] = "sync"
  \/ pc[h] = "wait" /\ acked[h] # Handle

\* p2_release_busy at the end of a round or when it is given up.
p2_release_busy(h) ==
  /\ pc[h] = "release" \/ RoundGivesUp(h)
  /\ barrier' = ReleasedBarrier(h)
  /\ EndRound(h)
  /\ UNCHANGED <<reg, rt, store, ringq, acct, life, epoch, wr>>

\* The box a dead leader was freeing is written off.
p2_round_pending(h) ==
  /\ pc[h] = "sync"
  /\ freeing' = None
  /\ leaks' = IF freeing = None THEN leaks ELSE leaks + 1
  /\ Goto(h, "bump") /\ UNCHANGED <<rnd, acked, cur, pick>>
  /\ UNCHANGED <<reg, rt, store, ringq, life, epoch, barrier, committed, freed, wr>>

p2_round_bump(h) ==
  /\ pc[h] = "bump"
  /\ epoch' = epoch + 1
  /\ Goto(h, "wait")
  /\ rnd' = [rnd EXCEPT ![h] = epoch + 1]
  /\ UNCHANGED <<acked, cur, pick>>
  /\ UNCHANGED <<reg, rt, store, ringq, acct, life, barrier, wr>>

\* Broken variant: an acknowledgement of the previous round is good enough.
AckSatisfied_previous(g, r) ==
  slot[g].state # "MINE" \/ slot[g].ack + 1 >= r \/ slot[g].quiesced = 1 \/ g \notin up

\* Slot g does not hold up the round r.
AckSatisfied(g, r) ==
  \/ slot[g].state # "MINE"
  \/ slot[g].ack = r
  \/ slot[g].quiesced = 1
  \/ g \notin up

\* p2_wait_acks examines the slots one by one; the model lets it do so in any
\* order and remember a slot found satisfied (the code re-examines them all).
p2_wait_acks(h, g) ==
  /\ pc[h] = "wait" /\ g \notin acked[h]
  /\ AckSatisfied(g, rnd[h])
  /\ acked' = [acked EXCEPT ![h] = @ \union {g}]
  /\ UNCHANGED <<pc, by, rnd, cur, pick>>
  /\ UNCHANGED <<reg, rt, store, ringq, acct, life, epoch, barrier, wr>>

p2_wait_acks_done(h) ==
  /\ pc[h] = "wait" /\ acked[h] = Handle
  /\ Goto(h, "drain")
  /\ cur' = [cur EXCEPT ![h] = head]
  /\ UNCHANGED <<rnd, acked, pick>>
  /\ UNCHANGED <<reg, rt, store, ringq, acct, life, epoch, barrier, wr>>

\* The entry the drain looks at, and whether it may be freed in this round.
DrainEntry(h) == ring[cur[h] % GarbCap]

\* Broken variant: boxes retired during this very round are freed too.
Expired_inclusive(h) == DrainEntry(h).epoch <= rnd[h]

Expired(h) == DrainEntry(h).epoch < rnd[h]

DrainStops(h) ==
  \/ cur[h] >= tail
  \/ DrainEntry(h).st = "RESERVED" /\ p2_claim_alive(DrainEntry(h).claim)
  \/ DrainEntry(h).st = "COMMITTED" /\ ~Expired(h)

p2_drain_out(h) ==
  /\ pc[h] = "drain" /\ DrainStops(h)
  /\ freeing' = None
  /\ Goto(h, "reap")
  /\ acked' = [acked EXCEPT ![h] = {}]
  /\ cur' = [cur EXCEPT ![h] = 0]
  /\ UNCHANGED <<rnd, pick>>
  /\ UNCHANGED <<reg, rt, store, ringq, life, epoch, barrier, committed, freed,
                 leaks, wr>>

\* Broken variants: live reservations are passed over; so is the tail.
DrainSkips_reserved(h) == cur[h] < tail /\ DrainEntry(h).st # "COMMITTED"
DrainSkips_tail(h) == DrainEntry(h).st = "EMPTY"

DrainSkips(h) == cur[h] < tail /\ DrainEntry(h).st = "EMPTY"

\* A cancelled entry is passed over.
p2_drain_empty(h) ==
  /\ pc[h] = "drain" /\ DrainSkips(h)
  /\ head' = cur[h] + 1
  /\ cur' = [cur EXCEPT ![h] = @ + 1]
  /\ UNCHANGED <<pc, by, rnd, acked, pick>>
  /\ UNCHANGED <<reg, rt, store, acct, life, epoch, barrier, tail, ring, wr>>

\* Broken variant: the entry of a box being freed stays COMMITTED.
ClearedRing_not(h) == ring

ClearedRing(h) == [ring EXCEPT ![cur[h] % GarbCap] = EmptyEntry]

\* The reservation of a dead writer is cleared, ...
p2_drain_dead(h) ==
  /\ pc[h] = "drain" /\ cur[h] < tail
  /\ DrainEntry(h).st = "RESERVED" /\ ~p2_claim_alive(DrainEntry(h).claim)
  /\ ring' = ClearedRing(h)
  /\ Goto(h, "audit") /\ UNCHANGED <<rnd, acked, cur, pick>>
  /\ UNCHANGED <<reg, rt, store, acct, life, epoch, barrier, head, tail, wr>>

\* ... counted as a leak and passed.
p2_drain_audit(h) ==
  /\ pc[h] = "audit"
  /\ leaks' = leaks + 1
  /\ head' = cur[h] + 1
  /\ Goto(h, "drain")
  /\ cur' = [cur EXCEPT ![h] = @ + 1]
  /\ UNCHANGED <<rnd, acked, pick>>
  /\ UNCHANGED <<reg, rt, store, life, epoch, barrier, tail, ring, freeing,
                 committed, freed, wr>>

\* An expired entry: its box is noted in garb_freeing, ...
p2_drain_mark(h) ==
  /\ pc[h] = "drain" /\ cur[h] < tail
  /\ DrainEntry(h).st = "COMMITTED" /\ Expired(h)
  /\ freeing' = DrainEntry(h).off
  /\ Goto(h, "mark")
  /\ pick' = [pick EXCEPT ![h] = DrainEntry(h).off]
  /\ UNCHANGED <<rnd, acked, cur>>
  /\ UNCHANGED <<reg, rt, store, ringq, life, epoch, barrier, committed, freed,
                 leaks, wr>>

\* ... the entry is emptied, ...
p2_drain_clear(h) ==
  /\ pc[h] = "mark"
  /\ ring' = ClearedRing(h)
  /\ Goto(h, "emptied") /\ UNCHANGED <<rnd, acked, cur, pick>>
  /\ UNCHANGED <<reg, rt, store, acct, life, epoch, barrier, head, tail, wr>>

\* ... the head moves past it, ...
p2_drain_advance(h) ==
  /\ pc[h] = "emptied"
  /\ head' = cur[h] + 1
  /\ Goto(h, "advanced") /\ UNCHANGED <<rnd, acked, cur, pick>>
  /\ UNCHANGED <<reg, rt, store, acct, life, epoch, barrier, tail, ring, wr>>

\* Broken variant: the offset is read again from the entry just emptied.
BoxToFree_reread(h) == DrainEntry(h).off

BoxToFree(h) == pick[h]

\* ... the allocator gets the box back, ...
kv_sbo_free(h) ==
  /\ pc[h] = "advanced"
  /\ free' = free \union {BoxToFree(h)}
  /\ Goto(h, "freed")
  /\ pick' = [pick EXCEPT ![h] = None]
  /\ UNCHANGED <<rnd, acked, cur>>
  /\ UNCHANGED <<reg, rt, ringq, acct, life, epoch, barrier, val, wr>>

\* ... and the freed garbage is counted.
p2_drain_count(h) ==
  /\ pc[h] = "freed"
  /\ freed' = freed + 1
  /\ Goto(h, "drain")
  /\ cur' = [cur EXCEPT ![h] = @ + 1]
  /\ UNCHANGED <<rnd, acked, pick>>
  /\ UNCHANGED <<reg, rt, store, ringq, life, epoch, barrier, freeing, committed,
                 leaks, wr>>

\* The slots of dead processes are handed back.
p2_round_reap(h) ==
  /\ pc[h] = "reap"
  /\ slot' = ReapedSlots
  /\ Goto(h, "release") /\ UNCHANGED <<rnd, acked, cur, pick>>
  /\ UNCHANGED <<rt, store, ringq, acct, life, epoch, barrier, claimSeq, up, wr>>

------------------------------------------------------------------------------
Writer ==
  \/ garb_reserve_publish \/ kv_sbo_alloc \/ shm_set_fail
  \/ art_val_swap \/ garb_commit_stamp \/ garb_commit \/ garb_commit_count

Drain(h) ==
  \/ p2_drain_out(h) \/ p2_drain_empty(h) \/ p2_drain_dead(h) \/ p2_drain_audit(h)
  \/ p2_drain_mark(h) \/ p2_drain_clear(h) \/ p2_drain_advance(h)
  \/ kv_sbo_free(h) \/ p2_drain_count(h)

Round(h) ==
  \/ p2_elect(h) \/ p2_elect_busy(h) \/ p2_release_busy(h)
  \/ p2_round_pending(h) \/ p2_round_bump(h)
  \/ \E g \in Handle : p2_wait_acks(h, g)
  \/ p2_wait_acks_done(h) \/ Drain(h) \/ p2_round_reap(h)

Runtime(h) ==
  \/ \E n \in Node : kvspaceShmViewFromRef(h, n)
  \/ kvspaceShmViewAck(h) \/ p2_ack_slot(h)
  \/ \E on \in {0, 1} : kvspaceShmViewQuiesce(h, on)
  \/ \E n \in Node : \E op \in {"set", "del"} : garb_reserve(h, n, op)
  \/ \E n \in Node : shm_set_new(h, n)
  \/ kvspaceShmViewSweep(h)

Next ==
  \/ Writer
  \/ \E h \in Handle :
       \/ kvspaceShmOpen(h) \/ kvspaceShmClose(h) \/ p2_reg_release(h) \/ Crash(h)
       \/ Runtime(h) \/ p2_maint(h) \/ Round(h)

Spec == Init /\ [][Next]_vars

\* Threads that are inside the library keep running: a round's steps, its
\* deadline, the write in progress and the maintenance loop are all scheduled.
Fairness ==
  /\ WF_vars(Writer)
  /\ \A h \in Handle : WF_vars(Round(h)) /\ WF_vars(p2_maint(h))

LiveSpec == Spec /\ Fairness

------------------------------------------------------------------------------
(* Correctness *)

SlotType  == [state : {"FREE", "MINE"}, claim : Nat, quiesced : {0, 1}, ack : Nat]

EntryType == [st : {"EMPTY", "RESERVED", "COMMITTED"}, claim : Nat, epoch : Nat,
              off : MaybeBox]

WriteType ==
  [pc : WritePc, h : Handle \union {None}, n : Node \union {None}, op : {"set", "del"},
   old : MaybeBox, new : MaybeBox, e : 0 .. GarbCap]

\* Every variable keeps the type of the code's field.
TypeOK ==
  /\ epoch \in Nat /\ claimSeq \in Nat /\ barrier \in Nat /\ head \in Nat /\ tail \in Nat
  /\ slot \in [Handle -> SlotType] /\ ring \in [Slots -> EntryType]
  /\ freeing \in MaybeBox /\ committed \in Nat /\ freed \in Nat /\ leaks \in Nat
  /\ val \in [Node -> MaybeBox]
  /\ free \in SUBSET Box
  /\ up \in SUBSET Handle /\ seen \in [Handle -> Nat]
  /\ acking \in SUBSET Handle
  /\ toks \in [Handle -> SUBSET Box]
  /\ maint \in [Handle -> {"off", "on", "failed"}]
  /\ pc \in [Handle -> RoundPc] /\ by \in [Handle -> {"maint", "main"}]
  /\ rnd \in [Handle -> Nat] /\ acked \in [Handle -> SUBSET Handle]
  /\ cur \in [Handle -> Nat] /\ pick \in [Handle -> MaybeBox]
  /\ closing \in SUBSET Handle
  /\ wr \in WriteType
  /\ crashes \in Nat

\* No use after free: a box some live runtime still reaches through a view token
\* is never in the allocator's free set (p2_round frees nothing a reader that
\* has neither acknowledged nor quiesced may be looking at).
TokenSafe == \A h \in Handle : toks[h] \intersect free = {}

\* A value stored under a key is never in a freed box, and two keys never share
\* one: retirement, drain and reuse do not hand out a box that is still in use.
ValueSafe ==
  /\ \A n \in Node : val[n] \notin free
  /\ \A m, n \in Node : m # n /\ val[m] # None => val[m] # val[n]

\* "Leak, never free twice": the box a leader is about to free is not free
\* already, is not in the ring for a later drain, and is not a stored value.
FreeOnce ==
  \A h \in Handle : pc[h] \in {"emptied", "advanced"} =>
    /\ pick[h] \in Box \ free
    /\ \A k \in Slots : ring[k].st = "COMMITTED" => ring[k].off # pick[h]
    /\ \A n \in Node : val[n] # pick[h]

\* p2_elect lets at most one live process at a time past the election.
Leading(h) == pc[h] \notin {"idle", "want"}
OneLeader == \A g, h \in Handle : Leading(g) /\ Leading(h) => g = h

\* The ring never holds more than its capacity, and what lies outside of
\* [head, tail) is EMPTY, but for the slot at tail while it is being reserved.
RingWindow ==
  /\ head <= tail /\ tail <= head + GarbCap
  /\ \A k \in Slots :
       ring[k].st # "EMPTY" =>
         \/ \E p \in head .. tail - 1 : p % GarbCap = k
         \/ ring[k].st = "RESERVED" /\ k = tail % GarbCap

\* Boxes that nothing tracks any more.
Lost ==
  Box \ ( free \union {val[n] : n \in Node}
          \union {ring[k].off : k \in {k \in Slots : ring[k].st = "COMMITTED"}}
          \union {wr.new} \union (IF wr.pc \in {"swapped", "stamped"} THEN {wr.old} ELSE {})
          \union {pick[h] : h \in Handle} )

\* Storage is lost only by crashes, at most one box per thread of the process
\* that died: no failed, cancelled or aborted operation leaks.
LeakBound == Cardinality(Lost) <= 2 * crashes

\* The drain is strictly first-in first-out: the head passes one entry at a time
\* and only an EMPTY one, never a live reservation or a box not yet freed.
DrainInOrder ==
  [][head' # head => head' = head + 1 /\ ring[head % GarbCap].st = "EMPTY"]_vars


\* Every round ends: the leader's wait has a deadline and its drain an end.
RoundEnds == \A h \in Handle : pc[h] # "idle" ~> pc[h] = "idle"

\* A leader that died never blocks reclamation: as long as somebody with a
\* running maintenance thread sees overdue garbage, the election word moves on.
Stuck == barrier # 0 /\ ~p2_claim_alive(barrier) /\ epoch < MaxEpoch
         /\ \E h \in Handle : h \in up /\ maint[h] = "on" /\ Overdue(committed, freed)
TakeOver == ~ <>[] Stuck

==============================================================================
