---------------------------- MODULE ReclaimProofs ----------------------------
(***************************************************************************)
(* Safety of deferred reclamation for any number of handles, keys and      *)
(* boxes and any ring capacity: TypeOK, OneLeader, TokenSafe, ValueSafe    *)
(* and FreeOnce hold in every behaviour of Reclaim.                        *)
(*                                                                         *)
(* The argument.  Every box has at most one owner: the free list, the val  *)
(* word of one key, the write in progress, one COMMITTED entry, or the     *)
(* leader that has taken it out of the ring.  A box a token reaches after  *)
(* it was retired was loaded before its retirement, so its holder has      *)
(* acknowledged no epoch later than the box's stamp.  The leader of round  *)
(* r is unique and r is the current epoch; a handle it has checked off     *)
(* holds no box stamped before r; hence what it drains nobody reaches.     *)
(***************************************************************************)
EXTENDS Reclaim, TLAPS

Committed(k) == ring[k].st = "COMMITTED"

\* Entries that carry a box and its epoch: committed, or about to be.
Stamped(k) == Committed(k) \/ (wr.pc = "stamped" /\ k = wr.e)

\* The box the writer, respectively leader h, alone knows of.
WriterBox == IF wr.pc = "new" THEN wr.new
             ELSE IF wr.pc \in {"swapped", "stamped"} THEN wr.old ELSE None
LeaderBox(h) == IF pc[h] \in {"emptied", "advanced"} THEN pick[h] ELSE None

Draining == {"drain", "audit", "mark", "emptied", "advanced", "freed"}

\* Live processes own their slots, and claims tell slots apart.
UpMine      == \A g \in Handle : g \in up => slot[g].state = "MINE"
ClaimRange  == \A g \in Handle : slot[g].state = "MINE" => slot[g].claim \in 1 .. claimSeq
ClaimUnique == \A g, h \in Handle :
  slot[g].state = "MINE" /\ slot[h].state = "MINE" /\ g # h => slot[g].claim # slot[h].claim

\* A process that is dead, closing or quiesced holds no token.
DeadIdle    == \A g \in Handle : g \notin up => toks[g] = {} /\ pc[g] = "idle" /\ g \notin acking
ClosingIdle == \A g \in Handle : g \in closing => toks[g] = {} /\ g \notin acking
QuietEmpty  == \A g \in Handle : slot[g].quiesced = 1 => toks[g] = {}

\* Nobody has seen or acknowledged an epoch still to come.
EpochBound  == \A g \in Handle : seen[g] <= epoch /\ slot[g].ack <= epoch

RegistryInv ==
  /\ UpMine /\ ClaimRange /\ ClaimUnique
  /\ DeadIdle /\ ClosingIdle /\ QuietEmpty /\ EpochBound

\* Whoever is past the election owns the election word.
LeadsBarrier == \A h \in Handle : Leading(h) => barrier = slot[h].claim

\* A round is not ahead of the epoch; every slot is checked off before the drain.
RoundBound   == \A h \in Handle : rnd[h] <= epoch
AckedEarly   == \A h \in Handle : pc[h] \in {"idle", "want", "sync", "bump"} => acked[h] = {}
AckedDrain   == \A h \in Handle : pc[h] \in Draining => acked[h] = Handle

\* The entry noted in garb_freeing is still the one the leader picked.
MarkHolds    == \A h \in Handle : pc[h] = "mark" =>
  LET k == cur[h] % GarbCap IN
    Committed(k) /\ ring[k].off = pick[h] /\ ring[k].epoch < rnd[h]

LeaderInv == LeadsBarrier /\ RoundBound /\ AckedEarly /\ AckedDrain /\ MarkHolds

\* The writer is alive; it remembers the value it replaces or deletes.
WriterUp   == wr.pc # "idle" => wr.h \in Handle /\ wr.h \in up \ closing /\ wr.n \in Node
WriterNew  == wr.pc # "new" => wr.new = None
WriterOld  ==
  /\ wr.pc \in {"resv", "held", "new"} => wr.old = val[wr.n]
  /\ wr.pc = "held" /\ wr.op = "del" => wr.old # None
  /\ wr.pc \in {"resv", "swapped", "stamped"} => wr.old # None

\* It holds a RESERVED entry under its own claim exactly if there is one to retire.
Reserved   == wr.pc \in {"resv", "held", "new", "swapped", "stamped"} /\ wr.old # None =>
                /\ wr.e \in Slots
                /\ ring[wr.e].st = "RESERVED" /\ ring[wr.e].claim = slot[wr.h].claim
Unreserved == wr.pc \in {"held", "new"} /\ wr.old = None => wr.e = GarbCap
StampedOff == wr.pc = "stamped" => ring[wr.e].off = wr.old

WriterInv == WriterUp /\ WriterNew /\ WriterOld /\ Reserved /\ Unreserved /\ StampedOff

\* Every box has at most one owner: a key, an entry, the writer or the leader.
ValOwns    == /\ \A n \in Node : val[n] # None => val[n] \notin free
              /\ \A m, n \in Node : m # n /\ val[m] # None => val[m] # val[n]
RingOwns   == /\ \A k \in Slots : Committed(k) =>
                   /\ ring[k].off \in Box /\ ring[k].off \notin free
                   /\ \A n \in Node : val[n] # ring[k].off
              /\ \A j, k \in Slots :
                   Committed(j) /\ Committed(k) /\ j # k => ring[j].off # ring[k].off
WriterOwns == wr.pc \in {"new", "swapped", "stamped"} =>
                /\ WriterBox \in Box /\ WriterBox \notin free
                /\ \A n \in Node : val[n] # WriterBox
                /\ \A k \in Slots : Committed(k) => ring[k].off # WriterBox
LeaderOwns == \A h \in Handle : pc[h] \in {"emptied", "advanced"} =>
                /\ pick[h] \in Box /\ pick[h] \notin free
                /\ \A n \in Node : val[n] # pick[h]
                /\ \A k \in Slots : Committed(k) => ring[k].off # pick[h]
                /\ pick[h] # WriterBox

OwnerInv == ValOwns /\ RingOwns /\ WriterOwns /\ LeaderOwns

\* What tokens reach is not free; a box being written nobody has seen.
TokenKept   == \A g \in Handle, b \in Box : b \in toks[g] => b \notin free
TokenNotNew == wr.pc = "new" => \A g \in Handle : wr.new \notin toks[g]

\* Who still reaches a retired box has acknowledged nothing later than its stamp,
\* and if the leader has checked that handle off, the stamp is not before the round.
TokenOld    == \A k \in Slots, g \in Handle : Stamped(k) /\ ring[k].off \in toks[g] =>
                 slot[g].ack <= ring[k].epoch /\ seen[g] <= ring[k].epoch
TokenAcked  == \A k \in Slots, h \in Handle, g \in Handle :
                 Stamped(k) /\ g \in acked[h] /\ ring[k].off \in toks[g] =>
                   rnd[h] <= ring[k].epoch

\* What the leader has taken out of the ring nobody reaches.
TokenGone   == \A h \in Handle, g \in Handle :
                 pc[h] \in {"emptied", "advanced"} => pick[h] \notin toks[g]

TokenInv == TokenKept /\ TokenNotNew /\ TokenOld /\ TokenAcked /\ TokenGone

IInv == TypeOK /\ RegistryInv /\ LeaderInv /\ WriterInv /\ OwnerInv /\ TokenInv

\* Every ring position has a slot.
LEMMA SlotIndex == \A i \in Nat : i % GarbCap \in Slots /\ i % GarbCap \in 0 .. GarbCap
BY ConstantsAssumption, SMT DEF Slots

\* The idle values have their types.
LEMMA Defaults == FreeSlot \in SlotType /\ EmptyEntry \in EntryType /\ NoWrite \in WriteType
BY ConstantsAssumption
   DEF FreeSlot, SlotType, EmptyEntry, EntryType, NoWrite, WriteType, WritePc, MaybeBox

\* Writing offset and epoch into an entry keeps its type.
LEMMA StampEntry ==
  ASSUME NEW x \in EntryType, NEW b \in MaybeBox, NEW t \in Nat
  PROVE  [x EXCEPT !.off = b, !.epoch = t] \in EntryType
BY DEF EntryType

\* A failed write gives back its own reservation, if it made one.
LEMMA CancelOwn ==
  ASSUME IInv, wr.pc \in {"held", "new"}
  PROVE  \/ garb_cancel = ring
         \/ /\ wr.e \in Slots /\ ring[wr.e].st = "RESERVED"
            /\ garb_cancel = [ring EXCEPT ![wr.e] = EmptyEntry]
<1>1. GarbCap \notin Slots
  BY ConstantsAssumption DEF Slots
<1>2. CASE wr.old = None
  BY <1>1, <1>2 DEF IInv, WriterInv, Unreserved, garb_cancel
<1>3. CASE wr.old # None
  BY <1>3 DEF IInv, WriterInv, Reserved, garb_cancel
<1>. QED BY <1>2, <1>3

\* A slot is taken from dead processes only.
LEMMA OpenKeeps ==
  ASSUME IInv, NEW h \in Handle, kvspaceShmOpen(h)
  PROVE  \A g \in Handle : g \in up => slot'[g] = slot[g]
BY DEF kvspaceShmOpen, ReapedSlots, IInv, TypeOK

\* ... and so does a leader at the end of its round.
LEMMA ReapKeeps ==
  ASSUME IInv, NEW h \in Handle, p2_round_reap(h)
  PROVE  \A g \in Handle : g \in up => slot'[g] = slot[g]
BY DEF p2_round_reap, ReapedSlots, IInv, TypeOK

\* Closing keeps everybody's claim.
LEMMA CloseKeeps ==
  ASSUME IInv, NEW h \in Handle, kvspaceShmClose(h)
  PROVE  \A g \in Handle : /\ slot'[g].claim = slot[g].claim /\ slot'[g].state = slot[g].state
                           /\ slot'[g].ack = slot[g].ack
BY DEF kvspaceShmClose, IInv, TypeOK, SlotType

\* A process past the election is alive, and its claim names no other slot.
LEMMA LeaderAlive ==
  ASSUME IInv, NEW h \in Handle, Leading(h)
  PROVE  /\ h \in up /\ slot[h].state = "MINE" /\ barrier = slot[h].claim /\ barrier # 0
         /\ p2_claim_alive(barrier)
<1>1. h \in up BY DEF IInv, RegistryInv, DeadIdle, Leading
<1>2. slot[h].state = "MINE" BY <1>1 DEF IInv, RegistryInv, UpMine
<1>3. barrier = slot[h].claim BY DEF IInv, LeaderInv, LeadsBarrier
<1>4. barrier # 0 BY <1>2, <1>3 DEF IInv, RegistryInv, ClaimRange
<1>. QED BY <1>1, <1>2, <1>3, <1>4 DEF p2_claim_alive, p2_slot_alive

\* The claim on the writer's reservation is that of a live process.
LEMMA WriterAlive ==
  ASSUME IInv, wr.pc # "idle"
  PROVE  wr.h \in Handle /\ wr.h \in up /\ p2_claim_alive(slot[wr.h].claim)
<1>1. wr.h \in Handle /\ wr.h \in up BY DEF IInv, WriterInv, WriterUp
<1>2. slot[wr.h].state = "MINE" BY <1>1 DEF IInv, RegistryInv, UpMine
<1>. QED BY <1>1, <1>2 DEF p2_claim_alive, p2_slot_alive

\* There is one leader at a time: the election word holds one claim.
LEMMA Unique == ASSUME IInv PROVE OneLeader
BY LeaderAlive DEF OneLeader, IInv, RegistryInv, ClaimUnique

------------------------------------------------------------------------------
\* Types are preserved.
LEMMA TypeStep == ASSUME IInv, Next PROVE TypeOK'
<1> USE Defaults, SlotIndex DEF IInv, TypeOK, MaybeBox, reg, rt, store, ringq, acct, life, lead
<1>1. ASSUME NEW h \in Handle, kvspaceShmOpen(h) PROVE TypeOK'
  <2>1. ReapedSlots \in [Handle -> SlotType]
    BY DEF ReapedSlots
  <2>2. [state |-> "MINE", claim |-> claimSeq + 1, quiesced |-> 1, ack |-> epoch] \in SlotType
    BY DEF SlotType
  <2>3. slot' \in [Handle -> SlotType]
    BY <1>1, <2>1, <2>2 DEF kvspaceShmOpen
  <2>4. maint' \in [Handle -> {"off", "on", "failed"}]
    BY <1>1, ConstantsAssumption DEF kvspaceShmOpen, p2_maint_start
  <2>5. up' \in SUBSET Handle /\ claimSeq' \in Nat
    BY <1>1 DEF kvspaceShmOpen
  <2>. QED BY <1>1, <2>3, <2>4, <2>5 DEF kvspaceShmOpen
<1>2. ASSUME NEW h \in Handle, kvspaceShmClose(h) PROVE TypeOK'
  <2>0. [slot EXCEPT ![h].quiesced = 1] \in [Handle -> SlotType]
    BY DEF SlotType
  <2>1. slot' \in [Handle -> SlotType]
    BY <1>2, <2>0 DEF kvspaceShmClose
  <2>2. pc' \in [Handle -> RoundPc] /\ by' \in [Handle -> {"maint", "main"}]
    BY <1>2 DEF kvspaceShmClose, BeginRound, RoundPc
  <2>. QED BY <1>2, <2>1, <2>2 DEF kvspaceShmClose, BeginRound
<1>3. ASSUME NEW h \in Handle, p2_reg_release(h) PROVE TypeOK'
  BY <1>3 DEF p2_reg_release, p2_maint_stop
<1>4. ASSUME NEW h \in Handle, Crash(h) PROVE TypeOK'
  BY <1>4 DEF Crash, EndRound, RoundPc
<1>5. ASSUME NEW h \in Handle, NEW n \in Node, kvspaceShmViewFromRef(h, n) PROVE TypeOK'
  BY <1>5 DEF kvspaceShmViewFromRef
<1>6. ASSUME NEW h \in Handle, kvspaceShmViewAck(h) PROVE TypeOK'
  BY <1>6 DEF kvspaceShmViewAck
<1>7. ASSUME NEW h \in Handle, p2_ack_slot(h) PROVE TypeOK'
  BY <1>7 DEF p2_ack_slot, SlotType
<1>8. ASSUME NEW h \in Handle, NEW on \in {0, 1}, kvspaceShmViewQuiesce(h, on)
      PROVE  TypeOK'
  BY <1>8 DEF kvspaceShmViewQuiesce, SlotType
<1>9. ASSUME NEW h \in Handle, NEW n \in Node, NEW op \in {"set", "del"}, garb_reserve(h, n, op)
      PROVE  TypeOK'
  <2>. DEFINE e == tail % GarbCap
  <2>0. e \in Slots /\ e \in 0 .. GarbCap
    OBVIOUS
  <2>1. [EmptyEntry EXCEPT !.st = "RESERVED", !.claim = slot[h].claim] \in EntryType
    BY DEF EmptyEntry, EntryType, SlotType
  <2>2. ring' \in [Slots -> EntryType]
    BY <1>9, <2>0, <2>1 DEF garb_reserve
  <2>3. wr' \in WriteType
    BY <1>9, <2>0 DEF garb_reserve, WriteType, WritePc
  <2>. QED BY <1>9, <2>2, <2>3 DEF garb_reserve
<1>10. ASSUME garb_reserve_publish PROVE TypeOK'
  BY <1>10 DEF garb_reserve_publish, WriteType, WritePc
<1>11. ASSUME NEW h \in Handle, NEW n \in Node, shm_set_new(h, n) PROVE TypeOK'
  BY <1>11, ConstantsAssumption DEF shm_set_new, WriteType, WritePc
<1>12. ASSUME kv_sbo_alloc PROVE TypeOK'
  BY ZenonT(30), <1>12 DEF kv_sbo_alloc, WriteType, WritePc
<1>13. ASSUME shm_set_fail PROVE TypeOK'
  <2>1. ring' \in [Slots -> EntryType]
    BY <1>13 DEF shm_set_fail, garb_cancel
  <2>2. free' \in SUBSET Box
    BY <1>13 DEF shm_set_fail, FreedOnFail, OwnerInv, WriterOwns, WriterBox
  <2>. QED BY <1>13, <2>1, <2>2 DEF shm_set_fail
<1>14. ASSUME art_val_swap PROVE TypeOK'
  BY <1>14 DEF art_val_swap, WriteType, WritePc
<1>15. ASSUME garb_commit_stamp PROVE TypeOK'
  <2>1. wr.e \in Slots /\ wr.old \in MaybeBox
    BY <1>15 DEF garb_commit_stamp, WriteType, WriterInv, Reserved, WriterOld
  <2>3. [ring[wr.e] EXCEPT !.off = wr.old, !.epoch = epoch] \in EntryType
    BY <2>1, StampEntry
  <2>2. wr' \in WriteType
    BY <1>15 DEF garb_commit_stamp, WriteType, WritePc
  <2>. QED BY <1>15, <2>1, <2>2, <2>3 DEF garb_commit_stamp, RetiredBox
<1>16. ASSUME garb_commit PROVE TypeOK'
  BY ZenonT(30), <1>16 DEF garb_commit, EntryType, WriteType, WritePc
<1>17. ASSUME garb_commit_count PROVE TypeOK'
  <2>1. maint' \in [Handle -> {"off", "on", "failed"}]
    BY <1>17, ConstantsAssumption DEF garb_commit_count, p2_maint_start, WriterInv, WriterUp
  <2>. QED BY <1>17, <2>1 DEF garb_commit_count
<1>18. ASSUME NEW h \in Handle, kvspaceShmViewSweep(h) PROVE TypeOK'
  BY <1>18 DEF kvspaceShmViewSweep, BeginRound, RoundPc
<1>19. ASSUME NEW h \in Handle, p2_maint(h) PROVE TypeOK'
  BY <1>19 DEF p2_maint, BeginRound, RoundPc
<1>20. ASSUME NEW h \in Handle, p2_elect(h) PROVE TypeOK'
  BY <1>20 DEF p2_elect, SlotType, RoundPc, Goto
<1>21. ASSUME NEW h \in Handle, p2_elect_busy(h) PROVE TypeOK'
  BY <1>21 DEF p2_elect_busy, EndRound, RoundPc
<1>22. ASSUME NEW h \in Handle, p2_release_busy(h) PROVE TypeOK'
  BY <1>22 DEF p2_release_busy, EndRound, RoundPc, ReleasedBarrier
<1>23. ASSUME NEW h \in Handle, p2_round_pending(h) PROVE TypeOK'
  BY <1>23 DEF p2_round_pending, Goto, RoundPc
<1>24. ASSUME NEW h \in Handle, p2_round_bump(h) PROVE TypeOK'
  BY <1>24 DEF p2_round_bump, Goto, RoundPc
<1>25. ASSUME NEW h \in Handle, NEW g \in Handle, p2_wait_acks(h, g) PROVE TypeOK'
  BY <1>25 DEF p2_wait_acks
<1>26. ASSUME NEW h \in Handle, p2_wait_acks_done(h) PROVE TypeOK'
  BY <1>26 DEF p2_wait_acks_done, Goto, RoundPc
<1>27. ASSUME NEW h \in Handle, p2_drain_out(h) PROVE TypeOK'
  BY <1>27 DEF p2_drain_out, Goto, RoundPc
<1>28. ASSUME NEW h \in Handle, p2_drain_empty(h) PROVE TypeOK'
  BY <1>28 DEF p2_drain_empty, Goto, RoundPc
<1>29. ASSUME NEW h \in Handle, p2_drain_dead(h) PROVE TypeOK'
  BY <1>29 DEF p2_drain_dead, ClearedRing, Goto, RoundPc
<1>30. ASSUME NEW h \in Handle, p2_drain_audit(h) PROVE TypeOK'
  BY <1>30 DEF p2_drain_audit, Goto, RoundPc
<1>31. ASSUME NEW h \in Handle, p2_drain_mark(h) PROVE TypeOK'
  BY <1>31 DEF p2_drain_mark, DrainEntry, Goto, RoundPc, EntryType
<1>32. ASSUME NEW h \in Handle, p2_drain_clear(h) PROVE TypeOK'
  BY <1>32 DEF p2_drain_clear, ClearedRing, Goto, RoundPc
<1>33. ASSUME NEW h \in Handle, p2_drain_advance(h) PROVE TypeOK'
  BY <1>33 DEF p2_drain_advance, Goto, RoundPc
<1>34. ASSUME NEW h \in Handle, kv_sbo_free(h) PROVE TypeOK'
  BY <1>34 DEF kv_sbo_free, BoxToFree, Goto, RoundPc, OwnerInv, LeaderOwns
<1>35. ASSUME NEW h \in Handle, p2_drain_count(h) PROVE TypeOK'
  BY <1>35 DEF p2_drain_count, Goto, RoundPc
<1>36. ASSUME NEW h \in Handle, p2_round_reap(h) PROVE TypeOK'
  BY <1>36 DEF p2_round_reap, ReapedSlots, Goto, RoundPc
<1>. QED BY Next, <1>1, <1>2, <1>3, <1>4, <1>5, <1>6, <1>7, <1>8, <1>9, <1>10, <1>11,
    <1>12, <1>13, <1>14, <1>15, <1>16, <1>17, <1>18, <1>19, <1>20, <1>21, <1>22, <1>23,
    <1>24, <1>25, <1>26, <1>27, <1>28, <1>29, <1>30, <1>31, <1>32, <1>33, <1>34, <1>35,
    <1>36 DEF Next, Writer, Runtime, Round, Drain

------------------------------------------------------------------------------
\* Claims stay unique and the dead, the closing and the quiesced stay without tokens:
\* Open hands out a fresh claim, and only the owner gives a live slot back.
LEMMA RegistryStep == ASSUME IInv, Next PROVE RegistryInv'
<1> USE DEF IInv, TypeOK, SlotType, RegistryInv, reg, rt, store, ringq, acct, life, lead
<1>1. ASSUME NEW h \in Handle, kvspaceShmOpen(h) PROVE RegistryInv'
  <2>1. /\ up' = up \/ up' = up \union {h}
        /\ h \notin up
        /\ claimSeq' = claimSeq + 1
        /\ UNCHANGED <<toks, pc, acking, closing, seen, epoch>>
    BY <1>1 DEF kvspaceShmOpen
  <2>2. ASSUME NEW g \in Handle, g # h
        PROVE  slot'[g] = slot[g] \/ (slot'[g] = FreeSlot /\ g \notin up)
    BY <1>1, <2>2 DEF kvspaceShmOpen, ReapedSlots
  <2>3. \/ slot'[h] = FreeSlot /\ up' = up
        \/ slot'[h] = [state |-> "MINE", claim |-> claimSeq + 1, quiesced |-> 1, ack |-> epoch]
    BY <1>1 DEF kvspaceShmOpen, ReapedSlots
  <2>4. /\ slot'[h].state = "MINE" => slot'[h].claim = claimSeq + 1
        /\ h \in up' => slot'[h].state = "MINE"
        /\ slot'[h].ack <= epoch
    BY <2>1, <2>3 DEF FreeSlot
  <2>5. \A g \in Handle : g # h =>
          /\ slot'[g].state = "MINE" => slot'[g] = slot[g]
          /\ g \in up => slot'[g] = slot[g]
          /\ slot'[g].ack = slot[g].ack \/ slot'[g].ack = 0
    BY <2>2 DEF FreeSlot
  <2>6. UpMine' BY <2>1, <2>4, <2>5 DEF UpMine
  <2>7. ClaimRange' BY <2>1, <2>4, <2>5 DEF ClaimRange
  <2>8. ClaimUnique'
    <3>1. \A g \in Handle : slot[g].state = "MINE" => slot[g].claim # claimSeq + 1
      BY DEF ClaimRange
    <3>2. SUFFICES ASSUME NEW f \in Handle, NEW g \in Handle, f # g,
                          slot'[f].state = "MINE", slot'[g].state = "MINE"
                   PROVE  slot'[f].claim # slot'[g].claim
      BY DEF ClaimUnique
    <3>3. CASE f = h BY <2>4, <2>5, <3>1, <3>2, <3>3
    <3>4. CASE g = h BY <2>4, <2>5, <3>1, <3>2, <3>4
    <3>5. CASE f # h /\ g # h BY <2>5, <3>2, <3>5 DEF ClaimUnique
    <3>. QED BY <3>3, <3>4, <3>5
  <2>9. DeadIdle' /\ ClosingIdle' BY <2>1 DEF DeadIdle, ClosingIdle
  <2>10. QuietEmpty' BY <2>1, <2>5 DEF QuietEmpty, DeadIdle
  <2>11. EpochBound' BY <2>1, <2>4, <2>5 DEF EpochBound
  <2>. QED BY <2>6, <2>7, <2>8, <2>9, <2>10, <2>11
<1>2. ASSUME NEW h \in Handle, kvspaceShmClose(h) PROVE RegistryInv'
  <2>1. \A g \in Handle : /\ slot'[g].state = slot[g].state /\ slot'[g].claim = slot[g].claim
                          /\ slot'[g].ack = slot[g].ack
                          /\ slot'[g].quiesced = slot[g].quiesced \/ g = h
    BY <1>2 DEF kvspaceShmClose
  <2>2. \A g \in Handle : pc'[g] = pc[g] \/ g = h
    BY <1>2 DEF kvspaceShmClose, BeginRound
  <2>3. /\ h \in up /\ h \notin acking /\ toks' = [toks EXCEPT ![h] = {}]
        /\ closing' = closing \union {h}
        /\ UNCHANGED <<claimSeq, up, acking, seen, epoch>>
    BY <1>2 DEF kvspaceShmClose, MainIdle
  <2>4. UpMine' /\ ClaimRange' /\ ClaimUnique'
    BY <2>1, <2>3 DEF UpMine, ClaimRange, ClaimUnique
  <2>5. DeadIdle' /\ ClosingIdle' /\ QuietEmpty'
    BY <2>1, <2>2, <2>3 DEF DeadIdle, ClosingIdle, QuietEmpty
  <2>6. EpochBound'
    BY <2>1, <2>3 DEF EpochBound
  <2>. QED BY <2>4, <2>5, <2>6
<1>3. ASSUME NEW h \in Handle, p2_reg_release(h) PROVE RegistryInv'
  BY <1>3 DEF p2_reg_release, FreeSlot, UpMine, ClaimRange, ClaimUnique, DeadIdle,
    ClosingIdle, QuietEmpty, EpochBound, p2_maint_stop
<1>4. ASSUME NEW h \in Handle, Crash(h) PROVE RegistryInv'
  BY <1>4 DEF Crash, EndRound, UpMine, ClaimRange, ClaimUnique, DeadIdle, ClosingIdle,
    QuietEmpty, EpochBound
<1>5. ASSUME NEW h \in Handle, NEW n \in Node, kvspaceShmViewFromRef(h, n)
      PROVE  RegistryInv'
  BY <1>5 DEF kvspaceShmViewFromRef, MainIdle, UpMine, ClaimRange, ClaimUnique,
    DeadIdle, ClosingIdle, QuietEmpty, EpochBound
<1>6. ASSUME NEW h \in Handle, kvspaceShmViewAck(h) PROVE RegistryInv'
  <2>1. /\ h \in up /\ h \notin closing
        /\ \A g \in Handle : toks'[g] = toks[g] \/ toks'[g] = {}
        /\ \A g \in Handle : seen'[g] = seen[g] \/ seen'[g] = epoch
        /\ \A g \in Handle : g \in acking' => g \in acking \/ g = h
    BY <1>6 DEF kvspaceShmViewAck, MainIdle
  <2>2. UNCHANGED <<claimSeq, slot, up, closing, pc, epoch>>
    BY <1>6 DEF kvspaceShmViewAck
  <2>3. UpMine' /\ ClaimRange' /\ ClaimUnique'
    BY <2>2 DEF UpMine, ClaimRange, ClaimUnique
  <2>4. DeadIdle' /\ ClosingIdle' /\ QuietEmpty'
    BY <2>1, <2>2 DEF DeadIdle, ClosingIdle, QuietEmpty
  <2>5. EpochBound'
    BY <2>1, <2>2 DEF EpochBound
  <2>. QED BY <2>3, <2>4, <2>5
<1>7. ASSUME NEW h \in Handle, p2_ack_slot(h) PROVE RegistryInv'
  BY <1>7 DEF p2_ack_slot, UpMine, ClaimRange, ClaimUnique, DeadIdle, ClosingIdle,
    QuietEmpty, EpochBound
<1>8. ASSUME NEW h \in Handle, NEW on \in {0, 1}, kvspaceShmViewQuiesce(h, on)
      PROVE  RegistryInv'
  BY <1>8 DEF kvspaceShmViewQuiesce, UpMine, ClaimRange, ClaimUnique, DeadIdle,
    ClosingIdle, QuietEmpty, EpochBound
<1>9. ASSUME NEW h \in Handle, NEW n \in Node, NEW op \in {"set", "del"}, garb_reserve(h, n, op)
      PROVE  RegistryInv'
  BY <1>9 DEF garb_reserve, UpMine, ClaimRange, ClaimUnique, DeadIdle, ClosingIdle,
    QuietEmpty, EpochBound
<1>10. ASSUME garb_reserve_publish PROVE RegistryInv'
  BY <1>10 DEF garb_reserve_publish, UpMine, ClaimRange, ClaimUnique, DeadIdle,
    ClosingIdle, QuietEmpty, EpochBound
<1>11. ASSUME NEW h \in Handle, NEW n \in Node, shm_set_new(h, n) PROVE RegistryInv'
  BY <1>11 DEF shm_set_new, UpMine, ClaimRange, ClaimUnique, DeadIdle, ClosingIdle,
    QuietEmpty, EpochBound
<1>12. ASSUME kv_sbo_alloc PROVE RegistryInv'
  BY <1>12 DEF kv_sbo_alloc, UpMine, ClaimRange, ClaimUnique, DeadIdle, ClosingIdle,
    QuietEmpty, EpochBound
<1>13. ASSUME shm_set_fail PROVE RegistryInv'
  BY <1>13 DEF shm_set_fail, UpMine, ClaimRange, ClaimUnique, DeadIdle, ClosingIdle,
    QuietEmpty, EpochBound
<1>14. ASSUME art_val_swap PROVE RegistryInv'
  BY <1>14 DEF art_val_swap, UpMine, ClaimRange, ClaimUnique, DeadIdle, ClosingIdle,
    QuietEmpty, EpochBound
<1>15. ASSUME garb_commit_stamp PROVE RegistryInv'
  BY <1>15 DEF garb_commit_stamp, UpMine, ClaimRange, ClaimUnique, DeadIdle,
    ClosingIdle, QuietEmpty, EpochBound
<1>16. ASSUME garb_commit PROVE RegistryInv'
  BY <1>16 DEF garb_commit, UpMine, ClaimRange, ClaimUnique, DeadIdle, ClosingIdle,
    QuietEmpty, EpochBound
<1>17. ASSUME garb_commit_count PROVE RegistryInv'
  BY <1>17 DEF garb_commit_count, UpMine, ClaimRange, ClaimUnique, DeadIdle,
    ClosingIdle, QuietEmpty, EpochBound
<1>18. ASSUME NEW h \in Handle, kvspaceShmViewSweep(h) PROVE RegistryInv'
  BY <1>18 DEF kvspaceShmViewSweep, BeginRound, MainIdle, UpMine, ClaimRange,
    ClaimUnique, DeadIdle, ClosingIdle, QuietEmpty, EpochBound
<1>19. ASSUME NEW h \in Handle, p2_maint(h) PROVE RegistryInv'
  BY <1>19 DEF p2_maint, BeginRound, UpMine, ClaimRange, ClaimUnique, DeadIdle,
    ClosingIdle, QuietEmpty, EpochBound
<1>20. ASSUME NEW h \in Handle, p2_elect(h) PROVE RegistryInv'
  BY <1>20 DEF p2_elect, Goto, UpMine, ClaimRange, ClaimUnique, DeadIdle, ClosingIdle,
    QuietEmpty, EpochBound
<1>21. ASSUME NEW h \in Handle, p2_elect_busy(h) PROVE RegistryInv'
  BY <1>21 DEF p2_elect_busy, EndRound, UpMine, ClaimRange, ClaimUnique, DeadIdle,
    ClosingIdle, QuietEmpty, EpochBound
<1>22. ASSUME NEW h \in Handle, p2_release_busy(h) PROVE RegistryInv'
  BY <1>22 DEF p2_release_busy, EndRound, RoundGivesUp, UpMine, ClaimRange, ClaimUnique,
    DeadIdle, ClosingIdle, QuietEmpty, EpochBound
<1>23. ASSUME NEW h \in Handle, p2_round_pending(h) PROVE RegistryInv'
  BY <1>23 DEF p2_round_pending, Goto, UpMine, ClaimRange, ClaimUnique, DeadIdle,
    ClosingIdle, QuietEmpty, EpochBound
<1>24. ASSUME NEW h \in Handle, p2_round_bump(h) PROVE RegistryInv'
  BY <1>24 DEF p2_round_bump, Goto, UpMine, ClaimRange, ClaimUnique, DeadIdle,
    ClosingIdle, QuietEmpty, EpochBound
<1>25. ASSUME NEW h \in Handle, NEW g \in Handle, p2_wait_acks(h, g) PROVE RegistryInv'
  BY <1>25 DEF p2_wait_acks, UpMine, ClaimRange, ClaimUnique, DeadIdle, ClosingIdle,
    QuietEmpty, EpochBound
<1>26. ASSUME NEW h \in Handle, p2_wait_acks_done(h) PROVE RegistryInv'
  BY <1>26 DEF p2_wait_acks_done, Goto, UpMine, ClaimRange, ClaimUnique, DeadIdle,
    ClosingIdle, QuietEmpty, EpochBound
<1>27. ASSUME NEW h \in Handle, p2_drain_out(h) PROVE RegistryInv'
  BY <1>27 DEF p2_drain_out, Goto, UpMine, ClaimRange, ClaimUnique, DeadIdle,
    ClosingIdle, QuietEmpty, EpochBound
<1>28. ASSUME NEW h \in Handle, p2_drain_empty(h) PROVE RegistryInv'
  BY <1>28 DEF p2_drain_empty, Goto, UpMine, ClaimRange, ClaimUnique, DeadIdle,
    ClosingIdle, QuietEmpty, EpochBound
<1>29. ASSUME NEW h \in Handle, p2_drain_dead(h) PROVE RegistryInv'
  BY <1>29 DEF p2_drain_dead, Goto, UpMine, ClaimRange, ClaimUnique, DeadIdle,
    ClosingIdle, QuietEmpty, EpochBound
<1>30. ASSUME NEW h \in Handle, p2_drain_audit(h) PROVE RegistryInv'
  BY <1>30 DEF p2_drain_audit, Goto, UpMine, ClaimRange, ClaimUnique, DeadIdle,
    ClosingIdle, QuietEmpty, EpochBound
<1>31. ASSUME NEW h \in Handle, p2_drain_mark(h) PROVE RegistryInv'
  BY <1>31 DEF p2_drain_mark, Goto, UpMine, ClaimRange, ClaimUnique, DeadIdle,
    ClosingIdle, QuietEmpty, EpochBound
<1>32. ASSUME NEW h \in Handle, p2_drain_clear(h) PROVE RegistryInv'
  BY <1>32 DEF p2_drain_clear, Goto, UpMine, ClaimRange, ClaimUnique, DeadIdle,
    ClosingIdle, QuietEmpty, EpochBound
<1>33. ASSUME NEW h \in Handle, p2_drain_advance(h) PROVE RegistryInv'
  BY <1>33 DEF p2_drain_advance, Goto, UpMine, ClaimRange, ClaimUnique, DeadIdle,
    ClosingIdle, QuietEmpty, EpochBound
<1>34. ASSUME NEW h \in Handle, kv_sbo_free(h) PROVE RegistryInv'
  BY <1>34 DEF kv_sbo_free, Goto, UpMine, ClaimRange, ClaimUnique, DeadIdle,
    ClosingIdle, QuietEmpty, EpochBound
<1>35. ASSUME NEW h \in Handle, p2_drain_count(h) PROVE RegistryInv'
  BY <1>35 DEF p2_drain_count, Goto, UpMine, ClaimRange, ClaimUnique, DeadIdle,
    ClosingIdle, QuietEmpty, EpochBound
<1>36. ASSUME NEW h \in Handle, p2_round_reap(h) PROVE RegistryInv'
  BY <1>36 DEF p2_round_reap, Goto, ReapedSlots, FreeSlot, UpMine, ClaimRange,
    ClaimUnique, DeadIdle, ClosingIdle, QuietEmpty, EpochBound
<1>. QED BY Next, <1>1, <1>2, <1>3, <1>4, <1>5, <1>6, <1>7, <1>8, <1>9, <1>10, <1>11,
    <1>12, <1>13, <1>14, <1>15, <1>16, <1>17, <1>18, <1>19, <1>20, <1>21, <1>22, <1>23,
    <1>24, <1>25, <1>26, <1>27, <1>28, <1>29, <1>30, <1>31, <1>32, <1>33, <1>34, <1>35,
    <1>36 DEF Next, Writer, Runtime, Round, Drain

------------------------------------------------------------------------------
\* The election word keeps naming the only leader: an election succeeds only when
\* no leader is alive, and nobody but the leader touches COMMITTED entries.
LEMMA LeaderStep == ASSUME IInv, Next PROVE LeaderInv'
<1> USE DEF IInv, TypeOK, LeaderInv, Leading, Draining, reg, rt, store, ringq, acct, life, lead
<1>1. ASSUME NEW h \in Handle, kvspaceShmOpen(h) PROVE LeaderInv'
  <2>1. UNCHANGED <<lead, epoch, barrier, ring>>
    BY <1>1 DEF kvspaceShmOpen
  <2>2. LeadsBarrier'
    BY <2>1, <1>1, OpenKeeps, LeaderAlive DEF LeadsBarrier
  <2>. QED BY <2>1, <2>2 DEF RoundBound, AckedEarly, AckedDrain, MarkHolds, Committed
<1>2. ASSUME NEW h \in Handle, kvspaceShmClose(h) PROVE LeaderInv'
  <2>1. /\ UNCHANGED <<epoch, barrier, ring, rnd, acked, cur, pick>>
        /\ pc' = pc \/ (pc' = [pc EXCEPT ![h] = "want"] /\ pc[h] = "idle")
    BY <1>2 DEF kvspaceShmClose, BeginRound
  <2>2. LeadsBarrier'
    BY <2>1, <1>2, CloseKeeps DEF LeadsBarrier
  <2>. QED BY <2>1, <2>2 DEF RoundBound, AckedEarly, AckedDrain, MarkHolds, Committed
<1>3. ASSUME NEW h \in Handle, p2_reg_release(h) PROVE LeaderInv'
  BY <1>3 DEF p2_reg_release, FreeSlot, LeadsBarrier, RoundBound, AckedEarly,
    AckedDrain, MarkHolds, Committed, p2_maint_stop
<1>4. ASSUME NEW h \in Handle, Crash(h) PROVE LeaderInv'
  BY <1>4 DEF Crash, EndRound, NoWrite, LeadsBarrier, RoundBound, AckedEarly,
    AckedDrain, MarkHolds, Committed
<1>5. ASSUME NEW h \in Handle, NEW n \in Node, kvspaceShmViewFromRef(h, n)
      PROVE  LeaderInv'
  BY <1>5 DEF kvspaceShmViewFromRef, MainIdle, LeadsBarrier, RoundBound, AckedEarly,
    AckedDrain, MarkHolds, Committed
<1>6. ASSUME NEW h \in Handle, kvspaceShmViewAck(h) PROVE LeaderInv'
  BY <1>6 DEF kvspaceShmViewAck, MainIdle, LeadsBarrier, RoundBound, AckedEarly,
    AckedDrain, MarkHolds, Committed
<1>7. ASSUME NEW h \in Handle, p2_ack_slot(h) PROVE LeaderInv'
  BY <1>7 DEF p2_ack_slot, LeadsBarrier, RoundBound, AckedEarly, AckedDrain, MarkHolds,
    Committed
<1>8. ASSUME NEW h \in Handle, NEW on \in {0, 1}, kvspaceShmViewQuiesce(h, on)
      PROVE  LeaderInv'
  BY <1>8 DEF kvspaceShmViewQuiesce, MainIdle, LeadsBarrier, RoundBound, AckedEarly,
    AckedDrain, MarkHolds, Committed
<1>9. ASSUME NEW h \in Handle, NEW n \in Node, NEW op \in {"set", "del"}, garb_reserve(h, n, op)
      PROVE  LeaderInv'
  BY SMTT(30), <1>9 DEF garb_reserve, MainIdle, EmptyEntry, Slots, p2_claim_alive, p2_slot_alive,
    LeadsBarrier, RoundBound, AckedEarly, AckedDrain, MarkHolds, Committed
<1>10. ASSUME garb_reserve_publish PROVE LeaderInv'
  BY <1>10 DEF garb_reserve_publish, LeadsBarrier, RoundBound, AckedEarly, AckedDrain,
    MarkHolds, Committed
<1>11. ASSUME NEW h \in Handle, NEW n \in Node, shm_set_new(h, n) PROVE LeaderInv'
  BY <1>11 DEF shm_set_new, MainIdle, NoWrite, LeadsBarrier, RoundBound, AckedEarly,
    AckedDrain, MarkHolds, Committed
<1>12. ASSUME kv_sbo_alloc PROVE LeaderInv'
  BY <1>12 DEF kv_sbo_alloc, LeadsBarrier, RoundBound, AckedEarly, AckedDrain,
    MarkHolds, Committed
<1>13. ASSUME shm_set_fail PROVE LeaderInv'
  <2>1. UNCHANGED <<lead, epoch, barrier, slot>>
    BY <1>13 DEF shm_set_fail
  <2>2. \A k \in Slots : Committed(k) => ring'[k] = ring[k]
    BY <1>13, CancelOwn DEF shm_set_fail, Committed
  <2>. QED BY <2>1, <2>2, SlotIndex
           DEF LeadsBarrier, RoundBound, AckedEarly, AckedDrain, MarkHolds, Committed
<1>14. ASSUME art_val_swap PROVE LeaderInv'
  BY <1>14 DEF art_val_swap, NoWrite, LeadsBarrier, RoundBound, AckedEarly, AckedDrain,
    MarkHolds, Committed
<1>15. ASSUME garb_commit_stamp PROVE LeaderInv'
  <2>1. UNCHANGED <<lead, epoch, barrier, slot>>
    BY <1>15 DEF garb_commit_stamp
  <2>2. \A k \in Slots : Committed(k) => ring'[k] = ring[k]
    BY <1>15 DEF garb_commit_stamp, WriterInv, Reserved, WriterOld, Committed
  <2>. QED BY <2>1, <2>2, SlotIndex
           DEF LeadsBarrier, RoundBound, AckedEarly, AckedDrain, MarkHolds, Committed
<1>16. ASSUME garb_commit PROVE LeaderInv'
  BY <1>16 DEF garb_commit, LeadsBarrier, RoundBound, AckedEarly, AckedDrain, MarkHolds,
    Committed
<1>17. ASSUME garb_commit_count PROVE LeaderInv'
  BY <1>17 DEF garb_commit_count, NoWrite, LeadsBarrier, RoundBound, AckedEarly,
    AckedDrain, MarkHolds, Committed
<1>18. ASSUME NEW h \in Handle, kvspaceShmViewSweep(h) PROVE LeaderInv'
  BY <1>18 DEF kvspaceShmViewSweep, MainIdle, BeginRound, LeadsBarrier, RoundBound,
    AckedEarly, AckedDrain, MarkHolds, Committed
<1>19. ASSUME NEW h \in Handle, p2_maint(h) PROVE LeaderInv'
  BY <1>19 DEF p2_maint, BeginRound, LeadsBarrier, RoundBound, AckedEarly, AckedDrain,
    MarkHolds, Committed
<1>20. ASSUME NEW h \in Handle, p2_elect(h) PROVE LeaderInv'
  <2>1. \A g \in Handle : ~Leading(g)
    BY <1>20, LeaderAlive DEF p2_elect, ElectionOpen
  <2>2. LeadsBarrier'
    BY <1>20, <2>1 DEF p2_elect, LeadsBarrier, Goto
  <2>. QED BY <1>20, <2>2
           DEF p2_elect, Goto, RoundBound, AckedEarly, AckedDrain, MarkHolds, Committed
<1>21. ASSUME NEW h \in Handle, p2_elect_busy(h) PROVE LeaderInv'
  BY <1>21 DEF p2_elect_busy, EndRound, LeadsBarrier, RoundBound, AckedEarly,
    AckedDrain, MarkHolds, Committed
<1>22. ASSUME NEW h \in Handle, p2_release_busy(h) PROVE LeaderInv'
  <2>1. Leading(h) BY <1>22 DEF p2_release_busy, RoundGivesUp
  <2>2. \A g \in Handle : Leading(g) => g = h BY <2>1, Unique DEF OneLeader
  <2>3. LeadsBarrier'
    BY <1>22, <2>2 DEF p2_release_busy, EndRound, LeadsBarrier
  <2>. QED BY <1>22, <2>3
           DEF p2_release_busy, EndRound, RoundBound, AckedEarly, AckedDrain, MarkHolds, Committed
<1>23. ASSUME NEW h \in Handle, p2_round_pending(h) PROVE LeaderInv'
  BY <1>23 DEF p2_round_pending, LeadsBarrier, RoundBound, AckedEarly, AckedDrain,
    MarkHolds, Committed, Goto
<1>24. ASSUME NEW h \in Handle, p2_round_bump(h) PROVE LeaderInv'
  BY <1>24 DEF p2_round_bump, LeadsBarrier, RoundBound, AckedEarly, AckedDrain,
    MarkHolds, Committed, Goto
<1>25. ASSUME NEW h \in Handle, NEW g \in Handle, p2_wait_acks(h, g) PROVE LeaderInv'
  BY <1>25 DEF p2_wait_acks, AckSatisfied, LeadsBarrier, RoundBound, AckedEarly,
    AckedDrain, MarkHolds, Committed
<1>26. ASSUME NEW h \in Handle, p2_wait_acks_done(h) PROVE LeaderInv'
  BY <1>26 DEF p2_wait_acks_done, LeadsBarrier, RoundBound, AckedEarly, AckedDrain,
    MarkHolds, Committed, Goto
<1>27. ASSUME NEW h \in Handle, p2_drain_out(h) PROVE LeaderInv'
  BY <1>27 DEF p2_drain_out, DrainStops, LeadsBarrier, RoundBound, AckedEarly,
    AckedDrain, MarkHolds, Committed, Goto
<1>28. ASSUME NEW h \in Handle, p2_drain_empty(h) PROVE LeaderInv'
  BY <1>28 DEF p2_drain_empty, DrainSkips, DrainEntry, LeadsBarrier, RoundBound,
    AckedEarly, AckedDrain, MarkHolds, Committed, Goto
<1>29. ASSUME NEW h \in Handle, p2_drain_dead(h) PROVE LeaderInv'
  BY <1>29 DEF p2_drain_dead, ClearedRing, EmptyEntry, DrainEntry, p2_claim_alive,
    p2_slot_alive, LeadsBarrier, RoundBound, AckedEarly, AckedDrain, MarkHolds,
    Committed, Goto
<1>30. ASSUME NEW h \in Handle, p2_drain_audit(h) PROVE LeaderInv'
  BY <1>30 DEF p2_drain_audit, LeadsBarrier, RoundBound, AckedEarly, AckedDrain,
    MarkHolds, Committed, Goto
<1>31. ASSUME NEW h \in Handle, p2_drain_mark(h) PROVE LeaderInv'
  BY <1>31 DEF p2_drain_mark, DrainEntry, Expired, LeadsBarrier, RoundBound, AckedEarly,
    AckedDrain, MarkHolds, Committed, Goto
<1>32. ASSUME NEW h \in Handle, p2_drain_clear(h) PROVE LeaderInv'
  <2>1. \A g \in Handle : Leading(g) => g = h
    BY <1>32, Unique DEF p2_drain_clear, OneLeader
  <2>2. MarkHolds'
    BY <1>32, <2>1 DEF p2_drain_clear, Goto, MarkHolds
  <2>. QED BY <1>32, <2>2
           DEF p2_drain_clear, Goto, LeadsBarrier, RoundBound, AckedEarly, AckedDrain
<1>33. ASSUME NEW h \in Handle, p2_drain_advance(h) PROVE LeaderInv'
  BY <1>33 DEF p2_drain_advance, LeadsBarrier, RoundBound, AckedEarly, AckedDrain,
    MarkHolds, Committed, Goto
<1>34. ASSUME NEW h \in Handle, kv_sbo_free(h) PROVE LeaderInv'
  BY <1>34 DEF kv_sbo_free, BoxToFree, LeadsBarrier, RoundBound, AckedEarly, AckedDrain,
    MarkHolds, Committed, Goto
<1>35. ASSUME NEW h \in Handle, p2_drain_count(h) PROVE LeaderInv'
  BY <1>35 DEF p2_drain_count, LeadsBarrier, RoundBound, AckedEarly, AckedDrain,
    MarkHolds, Committed, Goto
<1>36. ASSUME NEW h \in Handle, p2_round_reap(h) PROVE LeaderInv'
  <2>1. LeadsBarrier'
    BY <1>36, ReapKeeps, LeaderAlive DEF p2_round_reap, Goto, LeadsBarrier
  <2>. QED BY <1>36, <2>1
           DEF p2_round_reap, Goto, RoundBound, AckedEarly, AckedDrain, MarkHolds, Committed
<1>. QED BY Next, <1>1, <1>2, <1>3, <1>4, <1>5, <1>6, <1>7, <1>8, <1>9, <1>10, <1>11,
    <1>12, <1>13, <1>14, <1>15, <1>16, <1>17, <1>18, <1>19, <1>20, <1>21, <1>22, <1>23,
    <1>24, <1>25, <1>26, <1>27, <1>28, <1>29, <1>30, <1>31, <1>32, <1>33, <1>34, <1>35,
    <1>36 DEF Next, Writer, Runtime, Round, Drain

------------------------------------------------------------------------------
\* The writer's reservation stays its own: the drain clears RESERVED entries of dead
\* claims only, and the writer's claim is alive.
LEMMA WriterStep == ASSUME IInv, Next PROVE WriterInv'
<1> USE DEF IInv, TypeOK, WriterInv, reg, rt, store, ringq, acct, life, lead
<1>1. ASSUME NEW h \in Handle, kvspaceShmOpen(h) PROVE WriterInv'
  <2>1. UNCHANGED <<wr, ring, val, closing>> /\ up \subseteq up'
    BY <1>1 DEF kvspaceShmOpen
  <2>2. wr.pc # "idle" => slot'[wr.h] = slot[wr.h]
    BY <1>1, OpenKeeps, WriterAlive
  <2>. QED BY <2>1, <2>2
           DEF WriterUp, WriterNew, WriterOld, Reserved, Unreserved, StampedOff
<1>2. ASSUME NEW h \in Handle, kvspaceShmClose(h) PROVE WriterInv'
  <2>1. UNCHANGED <<wr, ring, val, up>> /\ closing' = closing \union {h}
    BY <1>2 DEF kvspaceShmClose
  <2>2. wr.pc # "idle" => wr.h # h /\ slot'[wr.h].claim = slot[wr.h].claim
    BY <1>2, CloseKeeps, WriterAlive DEF kvspaceShmClose, MainIdle
  <2>. QED BY <2>1, <2>2
           DEF WriterUp, WriterNew, WriterOld, Reserved, Unreserved, StampedOff
<1>3. ASSUME NEW h \in Handle, p2_reg_release(h) PROVE WriterInv'
  <2>1. UNCHANGED <<wr, ring, val>> /\ up' = up \ {h} /\ closing' = closing \ {h}
    BY <1>3 DEF p2_reg_release
  <2>2. wr.pc # "idle" => wr.h # h /\ slot'[wr.h] = slot[wr.h]
    BY <1>3 DEF p2_reg_release, WriterUp
  <2>. QED BY <2>1, <2>2
           DEF WriterUp, WriterNew, WriterOld, Reserved, Unreserved, StampedOff
<1>4. ASSUME NEW h \in Handle, Crash(h) PROVE WriterInv'
  BY <1>4 DEF Crash, WriteType, NoWrite, WriterUp, WriterNew, WriterOld, Reserved,
    Unreserved, StampedOff
<1>5. ASSUME NEW h \in Handle, NEW n \in Node, kvspaceShmViewFromRef(h, n)
      PROVE  WriterInv'
  BY <1>5 DEF kvspaceShmViewFromRef, WriteType, WriterUp, WriterNew, WriterOld,
    Reserved, Unreserved, StampedOff
<1>6. ASSUME NEW h \in Handle, kvspaceShmViewAck(h) PROVE WriterInv'
  BY <1>6 DEF kvspaceShmViewAck, WriteType, WriterUp, WriterNew, WriterOld, Reserved,
    Unreserved, StampedOff
<1>7. ASSUME NEW h \in Handle, p2_ack_slot(h) PROVE WriterInv'
  BY <1>7 DEF p2_ack_slot, WriteType, SlotType, WriterUp, WriterNew, WriterOld,
    Reserved, Unreserved, StampedOff
<1>8. ASSUME NEW h \in Handle, NEW on \in {0, 1}, kvspaceShmViewQuiesce(h, on)
      PROVE  WriterInv'
  BY <1>8 DEF kvspaceShmViewQuiesce, WriteType, SlotType, WriterUp, WriterNew,
    WriterOld, Reserved, Unreserved, StampedOff
<1>9. ASSUME NEW h \in Handle, NEW n \in Node, NEW op \in {"set", "del"}, garb_reserve(h, n, op)
      PROVE  WriterInv'
  <2>. DEFINE e == tail % GarbCap
  <2>1. e \in Slots BY SlotIndex
  <2>2. /\ wr' = [pc |-> "resv", h |-> h, n |-> n, op |-> op, old |-> val[n], new |-> None, e |-> e]
        /\ UNCHANGED <<slot, up, closing, val>>
        /\ h \in up /\ h \notin closing /\ val[n] # None
    BY <1>9 DEF garb_reserve, MainIdle
  <2>3. ring'[e].st = "RESERVED" /\ ring'[e].claim = slot[h].claim
    BY <1>9, <2>1 DEF garb_reserve, EmptyEntry
  <2>. QED BY <2>1, <2>2, <2>3
           DEF WriterUp, WriterNew, WriterOld, Reserved, Unreserved, StampedOff
<1>10. ASSUME garb_reserve_publish PROVE WriterInv'
  BY <1>10 DEF garb_reserve_publish, WriteType, WriterUp, WriterNew, WriterOld,
    Reserved, Unreserved, StampedOff
<1>11. ASSUME NEW h \in Handle, NEW n \in Node, shm_set_new(h, n) PROVE WriterInv'
  BY <1>11 DEF shm_set_new, WriteType, MainIdle, WriterUp, WriterNew, WriterOld,
    Reserved, Unreserved, StampedOff
<1>12. ASSUME kv_sbo_alloc PROVE WriterInv'
  BY <1>12 DEF kv_sbo_alloc, WriteType, WriterUp, WriterNew, WriterOld, Reserved,
    Unreserved, StampedOff
<1>13. ASSUME shm_set_fail PROVE WriterInv'
  BY <1>13 DEF shm_set_fail, NoWrite, WriterUp, WriterNew, WriterOld, Reserved,
              Unreserved, StampedOff
<1>14. ASSUME art_val_swap PROVE WriterInv'
  BY <1>14 DEF art_val_swap, WriteType, NoWrite, OwnerInv, WriterOwns, WriterBox,
    WriterUp, WriterNew, WriterOld, Reserved, Unreserved, StampedOff
<1>15. ASSUME garb_commit_stamp PROVE WriterInv'
  BY <1>15 DEF garb_commit_stamp, WriteType, RetiredBox, EntryType, WriterUp, WriterNew,
    WriterOld, Reserved, Unreserved, StampedOff
<1>16. ASSUME garb_commit PROVE WriterInv'
  BY <1>16 DEF garb_commit, WriteType, EntryType, WriterUp, WriterNew, WriterOld,
    Reserved, Unreserved, StampedOff
<1>17. ASSUME garb_commit_count PROVE WriterInv'
  BY <1>17 DEF garb_commit_count, WriteType, NoWrite, WriterUp, WriterNew, WriterOld,
    Reserved, Unreserved, StampedOff
<1>18. ASSUME NEW h \in Handle, kvspaceShmViewSweep(h) PROVE WriterInv'
  BY <1>18 DEF kvspaceShmViewSweep, WriteType, WriterUp, WriterNew, WriterOld, Reserved,
    Unreserved, StampedOff
<1>19. ASSUME NEW h \in Handle, p2_maint(h) PROVE WriterInv'
  BY <1>19 DEF p2_maint, WriteType, WriterUp, WriterNew, WriterOld, Reserved,
    Unreserved, StampedOff
<1>20. ASSUME NEW h \in Handle, p2_elect(h) PROVE WriterInv'
  BY <1>20 DEF p2_elect, WriteType, WriterUp, WriterNew, WriterOld, Reserved,
    Unreserved, StampedOff
<1>21. ASSUME NEW h \in Handle, p2_elect_busy(h) PROVE WriterInv'
  BY <1>21 DEF p2_elect_busy, WriteType, WriterUp, WriterNew, WriterOld, Reserved,
    Unreserved, StampedOff
<1>22. ASSUME NEW h \in Handle, p2_release_busy(h) PROVE WriterInv'
  BY <1>22 DEF p2_release_busy, WriteType, WriterUp, WriterNew, WriterOld, Reserved,
    Unreserved, StampedOff
<1>23. ASSUME NEW h \in Handle, p2_round_pending(h) PROVE WriterInv'
  BY <1>23 DEF p2_round_pending, WriteType, WriterUp, WriterNew, WriterOld, Reserved,
    Unreserved, StampedOff
<1>24. ASSUME NEW h \in Handle, p2_round_bump(h) PROVE WriterInv'
  BY <1>24 DEF p2_round_bump, WriteType, WriterUp, WriterNew, WriterOld, Reserved,
    Unreserved, StampedOff
<1>25. ASSUME NEW h \in Handle, NEW g \in Handle, p2_wait_acks(h, g) PROVE WriterInv'
  BY <1>25 DEF p2_wait_acks, WriteType, WriterUp, WriterNew, WriterOld, Reserved,
    Unreserved, StampedOff
<1>26. ASSUME NEW h \in Handle, p2_wait_acks_done(h) PROVE WriterInv'
  BY <1>26 DEF p2_wait_acks_done, WriteType, WriterUp, WriterNew, WriterOld, Reserved,
    Unreserved, StampedOff
<1>27. ASSUME NEW h \in Handle, p2_drain_out(h) PROVE WriterInv'
  BY <1>27 DEF p2_drain_out, WriteType, WriterUp, WriterNew, WriterOld, Reserved,
    Unreserved, StampedOff
<1>28. ASSUME NEW h \in Handle, p2_drain_empty(h) PROVE WriterInv'
  BY <1>28 DEF p2_drain_empty, WriteType, WriterUp, WriterNew, WriterOld, Reserved,
    Unreserved, StampedOff
<1>29. ASSUME NEW h \in Handle, p2_drain_dead(h) PROVE WriterInv'
  <2>. DEFINE k == cur[h] % GarbCap
  <2>1. k \in Slots BY SlotIndex
  <2>2. /\ ring' = [ring EXCEPT ![k] = EmptyEntry]
        /\ ring[k].st = "RESERVED" /\ ~p2_claim_alive(ring[k].claim)
        /\ UNCHANGED <<wr, slot, up, closing, val>>
    BY <1>29 DEF p2_drain_dead, ClearedRing, DrainEntry
  <2>3. wr.pc \in {"resv", "held", "new", "swapped", "stamped"} /\ wr.old # None => wr.e # k
    BY <2>2, WriterAlive DEF Reserved
  <2>. QED BY <2>1, <2>2, <2>3
           DEF WriterUp, WriterNew, WriterOld, Reserved, Unreserved, StampedOff
<1>30. ASSUME NEW h \in Handle, p2_drain_audit(h) PROVE WriterInv'
  BY <1>30 DEF p2_drain_audit, WriteType, WriterUp, WriterNew, WriterOld, Reserved,
    Unreserved, StampedOff
<1>31. ASSUME NEW h \in Handle, p2_drain_mark(h) PROVE WriterInv'
  BY <1>31 DEF p2_drain_mark, WriteType, WriterUp, WriterNew, WriterOld, Reserved,
    Unreserved, StampedOff
<1>32. ASSUME NEW h \in Handle, p2_drain_clear(h) PROVE WriterInv'
  <2>. DEFINE k == cur[h] % GarbCap
  <2>1. k \in Slots BY SlotIndex
  <2>2. /\ ring' = [ring EXCEPT ![k] = EmptyEntry]
        /\ UNCHANGED <<wr, slot, up, closing, val>>
    BY <1>32 DEF p2_drain_clear, ClearedRing
  <2>3. ring[k].st = "COMMITTED"
    BY <1>32 DEF p2_drain_clear, LeaderInv, MarkHolds, Committed
  <2>. QED BY <2>1, <2>2, <2>3
           DEF WriterUp, WriterNew, WriterOld, Reserved, Unreserved, StampedOff
<1>33. ASSUME NEW h \in Handle, p2_drain_advance(h) PROVE WriterInv'
  BY <1>33 DEF p2_drain_advance, WriteType, WriterUp, WriterNew, WriterOld, Reserved,
    Unreserved, StampedOff
<1>34. ASSUME NEW h \in Handle, kv_sbo_free(h) PROVE WriterInv'
  BY <1>34 DEF kv_sbo_free, WriteType, WriterUp, WriterNew, WriterOld, Reserved,
    Unreserved, StampedOff
<1>35. ASSUME NEW h \in Handle, p2_drain_count(h) PROVE WriterInv'
  BY <1>35 DEF p2_drain_count, WriteType, WriterUp, WriterNew, WriterOld, Reserved,
    Unreserved, StampedOff
<1>36. ASSUME NEW h \in Handle, p2_round_reap(h) PROVE WriterInv'
  <2>1. UNCHANGED <<wr, ring, val, up, closing>>
    BY <1>36 DEF p2_round_reap
  <2>2. wr.pc # "idle" => slot'[wr.h] = slot[wr.h]
    BY <1>36, ReapKeeps, WriterAlive
  <2>. QED BY <2>1, <2>2
           DEF WriterUp, WriterNew, WriterOld, Reserved, Unreserved, StampedOff
<1>. QED BY Next, <1>1, <1>2, <1>3, <1>4, <1>5, <1>6, <1>7, <1>8, <1>9, <1>10, <1>11,
    <1>12, <1>13, <1>14, <1>15, <1>16, <1>17, <1>18, <1>19, <1>20, <1>21, <1>22, <1>23,
    <1>24, <1>25, <1>26, <1>27, <1>28, <1>29, <1>30, <1>31, <1>32, <1>33, <1>34, <1>35,
    <1>36 DEF Next, Writer, Runtime, Round, Drain

------------------------------------------------------------------------------
\* Ownership of boxes moves, and is never shared: free list, writer, key, writer
\* again, ring, leader, free list.
LEMMA OwnerStep == ASSUME IInv, Next PROVE OwnerInv'
<1> USE DEF IInv, TypeOK, MaybeBox, OwnerInv, Committed, reg, rt, store, ringq, acct, life, lead
<1>1. ASSUME NEW h \in Handle, kvspaceShmOpen(h) PROVE OwnerInv'
  BY <1>1 DEF kvspaceShmOpen, ValOwns, RingOwns, WriterOwns, LeaderOwns, WriterBox
<1>2. ASSUME NEW h \in Handle, kvspaceShmClose(h) PROVE OwnerInv'
  BY <1>2 DEF kvspaceShmClose, ValOwns, RingOwns, WriterOwns, LeaderOwns, WriterBox,
    BeginRound
<1>3. ASSUME NEW h \in Handle, p2_reg_release(h) PROVE OwnerInv'
  BY <1>3 DEF p2_reg_release, ValOwns, RingOwns, WriterOwns, LeaderOwns, WriterBox
<1>4. ASSUME NEW h \in Handle, Crash(h) PROVE OwnerInv'
  BY <1>4, ConstantsAssumption DEF Crash, ValOwns, RingOwns, WriterOwns, LeaderOwns,
    WriterBox, NoWrite, EndRound
<1>5. ASSUME NEW h \in Handle, NEW n \in Node, kvspaceShmViewFromRef(h, n)
      PROVE  OwnerInv'
  BY <1>5 DEF kvspaceShmViewFromRef, ValOwns, RingOwns, WriterOwns, LeaderOwns,
    WriterBox
<1>6. ASSUME NEW h \in Handle, kvspaceShmViewAck(h) PROVE OwnerInv'
  BY <1>6 DEF kvspaceShmViewAck, ValOwns, RingOwns, WriterOwns, LeaderOwns, WriterBox
<1>7. ASSUME NEW h \in Handle, p2_ack_slot(h) PROVE OwnerInv'
  BY <1>7 DEF p2_ack_slot, ValOwns, RingOwns, WriterOwns, LeaderOwns, WriterBox
<1>8. ASSUME NEW h \in Handle, NEW on \in {0, 1}, kvspaceShmViewQuiesce(h, on)
      PROVE  OwnerInv'
  BY <1>8 DEF kvspaceShmViewQuiesce, ValOwns, RingOwns, WriterOwns, LeaderOwns,
    WriterBox
<1>9. ASSUME NEW h \in Handle, NEW n \in Node, NEW op \in {"set", "del"}, garb_reserve(h, n, op)
      PROVE  OwnerInv'
  <2>1. UNCHANGED <<free, val, pc, pick>> /\ wr'.pc = "resv" /\ wr.pc = "idle"
    BY <1>9 DEF garb_reserve
  <2>2. \A k \in Slots : Committed(k)' => Committed(k) /\ ring'[k] = ring[k]
    BY <1>9, SlotIndex DEF garb_reserve, EmptyEntry
  <2>3. WriterBox = None /\ WriterBox' = None
    BY <2>1 DEF WriterBox
  <2>4. ValOwns' BY <2>1 DEF ValOwns
  <2>5. RingOwns' BY <2>1, <2>2 DEF RingOwns
  <2>6. WriterOwns' BY <2>1 DEF WriterOwns
  <2>7. LeaderOwns' BY <2>1, <2>2, <2>3 DEF LeaderOwns
  <2>. QED BY <2>4, <2>5, <2>6, <2>7
<1>10. ASSUME garb_reserve_publish PROVE OwnerInv'
  BY <1>10 DEF garb_reserve_publish, ValOwns, RingOwns, WriterOwns, LeaderOwns,
    WriterBox, WriteType
<1>11. ASSUME NEW h \in Handle, NEW n \in Node, shm_set_new(h, n) PROVE OwnerInv'
  BY <1>11 DEF shm_set_new, ValOwns, RingOwns, WriterOwns, LeaderOwns, WriterBox
<1>12. ASSUME kv_sbo_alloc PROVE OwnerInv'
  BY <1>12, ConstantsAssumption DEF kv_sbo_alloc, ValOwns, RingOwns, WriterOwns,
    LeaderOwns, WriterBox, WriterInv, WriterOld, WriterUp, WriterNew, WriteType
<1>13. ASSUME shm_set_fail PROVE OwnerInv'
  BY <1>13, ConstantsAssumption DEF shm_set_fail, ValOwns, RingOwns, WriterOwns,
    LeaderOwns, WriterBox, garb_cancel, EmptyEntry, NoWrite, FreedOnFail, WriteType
<1>14. ASSUME art_val_swap PROVE OwnerInv'
  BY <1>14, ConstantsAssumption DEF art_val_swap, ValOwns, RingOwns, WriterOwns,
    LeaderOwns, WriterBox, NoWrite, WriterInv, WriterUp, WriterOld, WriterNew, WriteType
<1>15. ASSUME garb_commit_stamp PROVE OwnerInv'
  BY <1>15 DEF garb_commit_stamp, ValOwns, RingOwns, WriterOwns, LeaderOwns, WriterBox,
    RetiredBox, WriterInv, WriterOld, Reserved, WriteType, EntryType
<1>16. ASSUME garb_commit PROVE OwnerInv'
  BY <1>16, ConstantsAssumption DEF garb_commit, ValOwns, RingOwns, WriterOwns,
    LeaderOwns, WriterBox, WriterInv, WriterOld, Reserved, StampedOff, WriteType,
    EntryType
<1>17. ASSUME garb_commit_count PROVE OwnerInv'
  BY <1>17 DEF garb_commit_count, ValOwns, RingOwns, WriterOwns, LeaderOwns, WriterBox,
    NoWrite
<1>18. ASSUME NEW h \in Handle, kvspaceShmViewSweep(h) PROVE OwnerInv'
  BY <1>18 DEF kvspaceShmViewSweep, ValOwns, RingOwns, WriterOwns, LeaderOwns,
    WriterBox, BeginRound
<1>19. ASSUME NEW h \in Handle, p2_maint(h) PROVE OwnerInv'
  BY <1>19 DEF p2_maint, ValOwns, RingOwns, WriterOwns, LeaderOwns, WriterBox,
    BeginRound
<1>20. ASSUME NEW h \in Handle, p2_elect(h) PROVE OwnerInv'
  BY <1>20 DEF p2_elect, ValOwns, RingOwns, WriterOwns, LeaderOwns, WriterBox, Goto
<1>21. ASSUME NEW h \in Handle, p2_elect_busy(h) PROVE OwnerInv'
  BY <1>21 DEF p2_elect_busy, ValOwns, RingOwns, WriterOwns, LeaderOwns, WriterBox,
    EndRound
<1>22. ASSUME NEW h \in Handle, p2_release_busy(h) PROVE OwnerInv'
  BY <1>22 DEF p2_release_busy, ValOwns, RingOwns, WriterOwns, LeaderOwns, WriterBox,
    EndRound
<1>23. ASSUME NEW h \in Handle, p2_round_pending(h) PROVE OwnerInv'
  BY <1>23 DEF p2_round_pending, ValOwns, RingOwns, WriterOwns, LeaderOwns, WriterBox,
    Goto
<1>24. ASSUME NEW h \in Handle, p2_round_bump(h) PROVE OwnerInv'
  BY <1>24 DEF p2_round_bump, ValOwns, RingOwns, WriterOwns, LeaderOwns, WriterBox, Goto
<1>25. ASSUME NEW h \in Handle, NEW g \in Handle, p2_wait_acks(h, g) PROVE OwnerInv'
  BY <1>25 DEF p2_wait_acks, ValOwns, RingOwns, WriterOwns, LeaderOwns, WriterBox
<1>26. ASSUME NEW h \in Handle, p2_wait_acks_done(h) PROVE OwnerInv'
  BY <1>26 DEF p2_wait_acks_done, ValOwns, RingOwns, WriterOwns, LeaderOwns, WriterBox,
    Goto
<1>27. ASSUME NEW h \in Handle, p2_drain_out(h) PROVE OwnerInv'
  BY <1>27 DEF p2_drain_out, ValOwns, RingOwns, WriterOwns, LeaderOwns, WriterBox, Goto
<1>28. ASSUME NEW h \in Handle, p2_drain_empty(h) PROVE OwnerInv'
  BY <1>28 DEF p2_drain_empty, ValOwns, RingOwns, WriterOwns, LeaderOwns, WriterBox,
    Goto
<1>29. ASSUME NEW h \in Handle, p2_drain_dead(h) PROVE OwnerInv'
  BY <1>29 DEF p2_drain_dead, ValOwns, RingOwns, WriterOwns, LeaderOwns, WriterBox,
    ClearedRing, EmptyEntry, DrainEntry, Goto
<1>30. ASSUME NEW h \in Handle, p2_drain_audit(h) PROVE OwnerInv'
  BY <1>30 DEF p2_drain_audit, ValOwns, RingOwns, WriterOwns, LeaderOwns, WriterBox,
    Goto
<1>31. ASSUME NEW h \in Handle, p2_drain_mark(h) PROVE OwnerInv'
  BY <1>31 DEF p2_drain_mark, ValOwns, RingOwns, WriterOwns, LeaderOwns, WriterBox, Goto
<1>32. ASSUME NEW h \in Handle, p2_drain_clear(h) PROVE OwnerInv'
  <2>. DEFINE k == cur[h] % GarbCap
  <2>1. k \in Slots BY SlotIndex
  <2>2. /\ ring' = [ring EXCEPT ![k] = EmptyEntry]
        /\ UNCHANGED <<free, val, wr, pick>>
        /\ pc[h] = "mark" /\ pc' = [pc EXCEPT ![h] = "emptied"]
    BY <1>32 DEF p2_drain_clear, ClearedRing, Goto
  <2>3. Committed(k) /\ ring[k].off = pick[h]
    BY <2>2 DEF LeaderInv, MarkHolds
  <2>4. \A j \in Slots : Committed(j)' => j # k /\ Committed(j) /\ ring'[j] = ring[j]
    BY <2>1, <2>2 DEF EmptyEntry
  <2>5. WriterBox' = WriterBox BY <2>2 DEF WriterBox
  <2>6. ValOwns' BY <2>2 DEF ValOwns
  <2>7. RingOwns' BY <2>2, <2>4 DEF RingOwns
  <2>8. WriterOwns' BY <2>2, <2>4, <2>5 DEF WriterOwns
  <2>9. pick[h] \in Box /\ pick[h] # WriterBox
    BY <2>1, <2>3, ConstantsAssumption DEF RingOwns, WriterOwns, WriterBox
  <2>10. LeaderOwns'
    BY <2>1, <2>2, <2>3, <2>4, <2>5, <2>9 DEF LeaderOwns, RingOwns
  <2>. QED BY <2>6, <2>7, <2>8, <2>10
<1>33. ASSUME NEW h \in Handle, p2_drain_advance(h) PROVE OwnerInv'
  BY <1>33 DEF p2_drain_advance, ValOwns, RingOwns, WriterOwns, LeaderOwns, WriterBox,
    Goto
<1>34. ASSUME NEW h \in Handle, kv_sbo_free(h) PROVE OwnerInv'
  <2>1. /\ free' = free \union {pick[h]} /\ pc[h] = "advanced"
        /\ pc' = [pc EXCEPT ![h] = "freed"] /\ pick' = [pick EXCEPT ![h] = None]
        /\ UNCHANGED <<ring, val, wr>>
    BY <1>34 DEF kv_sbo_free, BoxToFree, Goto
  <2>2. \A g \in Handle : Leading(g) => g = h
    BY <2>1, Unique DEF OneLeader, Leading
  <2>3. WriterBox' = WriterBox BY <2>1 DEF WriterBox
  <2>4. ValOwns' BY <2>1 DEF ValOwns, LeaderOwns
  <2>5. RingOwns' BY <2>1 DEF RingOwns, LeaderOwns
  <2>6. WriterOwns' BY <2>1, <2>3 DEF WriterOwns, LeaderOwns
  <2>7. LeaderOwns' BY <2>1, <2>2 DEF LeaderOwns, Leading
  <2>. QED BY <2>4, <2>5, <2>6, <2>7
<1>35. ASSUME NEW h \in Handle, p2_drain_count(h) PROVE OwnerInv'
  BY <1>35 DEF p2_drain_count, ValOwns, RingOwns, WriterOwns, LeaderOwns, WriterBox,
    Goto
<1>36. ASSUME NEW h \in Handle, p2_round_reap(h) PROVE OwnerInv'
  BY <1>36 DEF p2_round_reap, ValOwns, RingOwns, WriterOwns, LeaderOwns, WriterBox, Goto
<1>. QED BY Next, <1>1, <1>2, <1>3, <1>4, <1>5, <1>6, <1>7, <1>8, <1>9, <1>10, <1>11,
    <1>12, <1>13, <1>14, <1>15, <1>16, <1>17, <1>18, <1>19, <1>20, <1>21, <1>22, <1>23,
    <1>24, <1>25, <1>26, <1>27, <1>28, <1>29, <1>30, <1>31, <1>32, <1>33, <1>34, <1>35,
    <1>36 DEF Next, Writer, Runtime, Round, Drain

------------------------------------------------------------------------------
\* Tokens: only a box that is some key's value gains tokens, and a handle that is
\* found satisfied by round r holds none stamped before r.
LEMMA TokenStep == ASSUME IInv, Next PROVE TokenInv'
<1> USE DEF IInv, TypeOK, TokenInv, Stamped, Committed, reg, rt, store, ringq, acct, life, lead
<1>1. ASSUME NEW h \in Handle, kvspaceShmOpen(h) PROVE TokenInv'
  <2>1. UNCHANGED <<toks, free, wr, ring, seen, acked, rnd, pc, pick>>
    BY <1>1 DEF kvspaceShmOpen
  <2>2. \A g \in Handle : toks[g] # {} => slot'[g] = slot[g]
    BY <1>1, OpenKeeps DEF RegistryInv, DeadIdle
  <2>. QED BY <2>1, <2>2 DEF TokenKept, TokenNotNew, TokenOld, TokenAcked, TokenGone
<1>2. ASSUME NEW h \in Handle, kvspaceShmClose(h) PROVE TokenInv'
  BY <1>2 DEF kvspaceShmClose, TokenKept, TokenNotNew, TokenOld, TokenAcked, TokenGone,
    BeginRound, SlotType
<1>3. ASSUME NEW h \in Handle, p2_reg_release(h) PROVE TokenInv'
  <2>1. /\ UNCHANGED <<toks, free, wr, ring, acked, rnd, pc, pick>>
        /\ \A g \in Handle : g # h => slot'[g] = slot[g] /\ seen'[g] = seen[g]
    BY <1>3 DEF p2_reg_release
  <2>2. toks[h] = {}
    BY <1>3 DEF p2_reg_release, RegistryInv, ClosingIdle
  <2>. QED BY <2>1, <2>2 DEF TokenKept, TokenNotNew, TokenOld, TokenAcked, TokenGone
<1>4. ASSUME NEW h \in Handle, Crash(h) PROVE TokenInv'
  BY <1>4 DEF Crash, TokenKept, TokenNotNew, TokenOld, TokenAcked, TokenGone, NoWrite,
    EndRound
<1>5. ASSUME NEW h \in Handle, NEW n \in Node, kvspaceShmViewFromRef(h, n)
      PROVE  TokenInv'
  <2>1. /\ UNCHANGED <<free, wr, ring, slot, seen, acked, rnd, pc, pick>>
        /\ toks' = [toks EXCEPT ![h] = @ \union {val[n]}] /\ val[n] # None
    BY <1>5 DEF kvspaceShmViewFromRef
  <2>2. TokenKept'
    BY <2>1 DEF TokenKept, OwnerInv, ValOwns
  <2>3. TokenNotNew'
    BY <2>1 DEF TokenNotNew, OwnerInv, WriterOwns, WriterBox
  <2>4. \A k \in Slots : Stamped(k) => ring[k].off # val[n]
    BY DEF OwnerInv, RingOwns, WriterOwns, WriterBox, WriterInv, StampedOff
  <2>5. \A k \in Slots, g \in Handle :
          Stamped(k) /\ ring[k].off \in toks'[g] => ring[k].off \in toks[g]
    BY <2>1, <2>4
  <2>6. TokenOld' /\ TokenAcked'
    BY <2>1, <2>5 DEF TokenOld, TokenAcked
  <2>7. TokenGone'
    BY <2>1 DEF TokenGone, OwnerInv, LeaderOwns
  <2>. QED BY <2>2, <2>3, <2>6, <2>7
<1>6. ASSUME NEW h \in Handle, kvspaceShmViewAck(h) PROVE TokenInv'
  BY <1>6 DEF kvspaceShmViewAck, TokenKept, TokenNotNew, TokenOld, TokenAcked, TokenGone
<1>7. ASSUME NEW h \in Handle, p2_ack_slot(h) PROVE TokenInv'
  BY <1>7 DEF p2_ack_slot, TokenKept, TokenNotNew, TokenOld, TokenAcked, TokenGone,
    SlotType
<1>8. ASSUME NEW h \in Handle, NEW on \in {0, 1}, kvspaceShmViewQuiesce(h, on)
      PROVE  TokenInv'
  BY <1>8 DEF kvspaceShmViewQuiesce, TokenKept, TokenNotNew, TokenOld, TokenAcked,
    TokenGone, SlotType
<1>9. ASSUME NEW h \in Handle, NEW n \in Node, NEW op \in {"set", "del"}, garb_reserve(h, n, op)
      PROVE  TokenInv'
  BY <1>9 DEF garb_reserve, TokenKept, TokenNotNew, TokenOld, TokenAcked, TokenGone
<1>10. ASSUME garb_reserve_publish PROVE TokenInv'
  BY <1>10 DEF garb_reserve_publish, TokenKept, TokenNotNew, TokenOld, TokenAcked,
    TokenGone, WriteType
<1>11. ASSUME NEW h \in Handle, NEW n \in Node, shm_set_new(h, n) PROVE TokenInv'
  BY <1>11 DEF shm_set_new, TokenKept, TokenNotNew, TokenOld, TokenAcked, TokenGone,
    WriteType
<1>12. ASSUME kv_sbo_alloc PROVE TokenInv'
  BY <1>12 DEF kv_sbo_alloc, TokenKept, TokenNotNew, TokenOld, TokenAcked, TokenGone,
    WriteType
<1>13. ASSUME shm_set_fail PROVE TokenInv'
  BY <1>13 DEF shm_set_fail, TokenKept, TokenNotNew, TokenOld, TokenAcked, TokenGone,
    garb_cancel, EmptyEntry, NoWrite, FreedOnFail, WriteType
<1>14. ASSUME art_val_swap PROVE TokenInv'
  BY <1>14 DEF art_val_swap, TokenKept, TokenNotNew, TokenOld, TokenAcked, TokenGone,
    NoWrite, WriteType
<1>15. ASSUME garb_commit_stamp PROVE TokenInv'
  BY <1>15 DEF garb_commit_stamp, TokenKept, TokenNotNew, TokenOld, TokenAcked,
    TokenGone, RetiredBox, WriterInv, WriterOld, Reserved, WriteType, EntryType,
    RegistryInv, EpochBound, LeaderInv, RoundBound
<1>16. ASSUME garb_commit PROVE TokenInv'
  BY <1>16 DEF garb_commit, TokenKept, TokenNotNew, TokenOld, TokenAcked, TokenGone,
    WriterInv, WriterOld, Reserved, StampedOff, WriteType, EntryType
<1>17. ASSUME garb_commit_count PROVE TokenInv'
  BY <1>17 DEF garb_commit_count, TokenKept, TokenNotNew, TokenOld, TokenAcked,
    TokenGone, NoWrite
<1>18. ASSUME NEW h \in Handle, kvspaceShmViewSweep(h) PROVE TokenInv'
  BY <1>18 DEF kvspaceShmViewSweep, TokenKept, TokenNotNew, TokenOld, TokenAcked,
    TokenGone, BeginRound
<1>19. ASSUME NEW h \in Handle, p2_maint(h) PROVE TokenInv'
  BY <1>19 DEF p2_maint, TokenKept, TokenNotNew, TokenOld, TokenAcked, TokenGone,
    BeginRound
<1>20. ASSUME NEW h \in Handle, p2_elect(h) PROVE TokenInv'
  BY <1>20 DEF p2_elect, TokenKept, TokenNotNew, TokenOld, TokenAcked, TokenGone, Goto
<1>21. ASSUME NEW h \in Handle, p2_elect_busy(h) PROVE TokenInv'
  BY <1>21 DEF p2_elect_busy, TokenKept, TokenNotNew, TokenOld, TokenAcked, TokenGone,
    EndRound
<1>22. ASSUME NEW h \in Handle, p2_release_busy(h) PROVE TokenInv'
  BY <1>22 DEF p2_release_busy, TokenKept, TokenNotNew, TokenOld, TokenAcked, TokenGone,
    EndRound
<1>23. ASSUME NEW h \in Handle, p2_round_pending(h) PROVE TokenInv'
  BY <1>23 DEF p2_round_pending, TokenKept, TokenNotNew, TokenOld, TokenAcked,
    TokenGone, Goto
<1>24. ASSUME NEW h \in Handle, p2_round_bump(h) PROVE TokenInv'
  BY <1>24 DEF p2_round_bump, TokenKept, TokenNotNew, TokenOld, TokenAcked, TokenGone,
    LeaderInv, AckedEarly, Goto
<1>25. ASSUME NEW h \in Handle, NEW g \in Handle, p2_wait_acks(h, g) PROVE TokenInv'
  BY <1>25 DEF p2_wait_acks, TokenKept, TokenNotNew, TokenOld, TokenAcked, TokenGone,
    AckSatisfied, RegistryInv, QuietEmpty, DeadIdle, UpMine
<1>26. ASSUME NEW h \in Handle, p2_wait_acks_done(h) PROVE TokenInv'
  BY <1>26 DEF p2_wait_acks_done, TokenKept, TokenNotNew, TokenOld, TokenAcked,
    TokenGone, Goto
<1>27. ASSUME NEW h \in Handle, p2_drain_out(h) PROVE TokenInv'
  BY <1>27 DEF p2_drain_out, TokenKept, TokenNotNew, TokenOld, TokenAcked, TokenGone,
    Goto
<1>28. ASSUME NEW h \in Handle, p2_drain_empty(h) PROVE TokenInv'
  BY <1>28 DEF p2_drain_empty, TokenKept, TokenNotNew, TokenOld, TokenAcked, TokenGone,
    Goto
<1>29. ASSUME NEW h \in Handle, p2_drain_dead(h) PROVE TokenInv'
  <2>. DEFINE k == cur[h] % GarbCap
  <2>1. /\ ring' = [ring EXCEPT ![k] = EmptyEntry]
        /\ pc[h] = "drain" /\ pc' = [pc EXCEPT ![h] = "audit"]
        /\ UNCHANGED <<toks, free, wr, slot, seen, acked, rnd, pick>>
    BY <1>29 DEF p2_drain_dead, ClearedRing, Goto
  <2>2. \A j \in Slots : j # k => ring'[j] = ring[j]
    BY <2>1
  <2>3. \A g \in Handle : ring'[k].off \notin toks'[g]
    BY <2>1, SlotIndex, ConstantsAssumption DEF EmptyEntry
  <2>4. TokenOld' /\ TokenAcked'
    BY <2>1, <2>2, <2>3 DEF TokenOld, TokenAcked
  <2>. QED BY <2>1, <2>4 DEF TokenKept, TokenNotNew, TokenGone
<1>30. ASSUME NEW h \in Handle, p2_drain_audit(h) PROVE TokenInv'
  BY <1>30 DEF p2_drain_audit, TokenKept, TokenNotNew, TokenOld, TokenAcked, TokenGone,
    Goto
<1>31. ASSUME NEW h \in Handle, p2_drain_mark(h) PROVE TokenInv'
  BY <1>31 DEF p2_drain_mark, TokenKept, TokenNotNew, TokenOld, TokenAcked, TokenGone,
    Goto
<1>32. ASSUME NEW h \in Handle, p2_drain_clear(h) PROVE TokenInv'
  <2>. DEFINE k == cur[h] % GarbCap
  <2>1. /\ ring' = [ring EXCEPT ![k] = EmptyEntry]
        /\ pc[h] = "mark" /\ pc' = [pc EXCEPT ![h] = "emptied"]
        /\ UNCHANGED <<toks, free, wr, slot, seen, acked, rnd, pick>>
    BY <1>32 DEF p2_drain_clear, ClearedRing, Goto
  <2>2. \A j \in Slots : j # k => ring'[j] = ring[j]
    BY <2>1
  <2>3. \A g \in Handle : ring'[k].off \notin toks'[g]
    BY <2>1, SlotIndex, ConstantsAssumption DEF EmptyEntry
  <2>4. TokenOld' /\ TokenAcked'
    BY <2>1, <2>2, <2>3 DEF TokenOld, TokenAcked
  <2>5. k \in Slots /\ Stamped(k) /\ ring[k].off = pick[h] /\ ring[k].epoch < rnd[h]
    BY <2>1, SlotIndex DEF LeaderInv, MarkHolds
  <2>6. acked[h] = Handle
    BY <2>1 DEF LeaderInv, AckedDrain, Draining
  <2>7. \A g \in Handle : pick[h] \notin toks[g]
    <3>1. rnd[h] \in Nat /\ ring[k].epoch \in Nat
      BY <2>5 DEF EntryType
    <3>. QED BY <2>5, <2>6, <3>1 DEF TokenAcked
  <2>8. TokenGone'
    BY <2>1, <2>7 DEF TokenGone
  <2>. QED BY <2>1, <2>4, <2>8 DEF TokenKept, TokenNotNew
<1>33. ASSUME NEW h \in Handle, p2_drain_advance(h) PROVE TokenInv'
  BY <1>33 DEF p2_drain_advance, TokenKept, TokenNotNew, TokenOld, TokenAcked,
    TokenGone, Goto
<1>34. ASSUME NEW h \in Handle, kv_sbo_free(h) PROVE TokenInv'
  BY <1>34 DEF kv_sbo_free, TokenKept, TokenNotNew, TokenOld, TokenAcked, TokenGone,
    BoxToFree, Goto
<1>35. ASSUME NEW h \in Handle, p2_drain_count(h) PROVE TokenInv'
  BY <1>35 DEF p2_drain_count, TokenKept, TokenNotNew, TokenOld, TokenAcked, TokenGone,
    Goto
<1>36. ASSUME NEW h \in Handle, p2_round_reap(h) PROVE TokenInv'
  <2>1. /\ UNCHANGED <<toks, free, wr, ring, seen, acked, rnd, pick>>
        /\ pc[h] = "reap" /\ pc' = [pc EXCEPT ![h] = "release"]
    BY <1>36 DEF p2_round_reap, Goto
  <2>2. \A g \in Handle : toks[g] # {} => slot'[g] = slot[g]
    BY <1>36, ReapKeeps DEF RegistryInv, DeadIdle
  <2>. QED BY <2>1, <2>2 DEF TokenKept, TokenNotNew, TokenOld, TokenAcked, TokenGone
<1>. QED BY Next, <1>1, <1>2, <1>3, <1>4, <1>5, <1>6, <1>7, <1>8, <1>9, <1>10, <1>11,
    <1>12, <1>13, <1>14, <1>15, <1>16, <1>17, <1>18, <1>19, <1>20, <1>21, <1>22, <1>23,
    <1>24, <1>25, <1>26, <1>27, <1>28, <1>29, <1>30, <1>31, <1>32, <1>33, <1>34, <1>35,
    <1>36 DEF Next, Writer, Runtime, Round, Drain

------------------------------------------------------------------------------
(* The invariant and what it implies *)

\* A new store satisfies the invariant.
LEMMA InitInv == Init => IInv
<1>. SUFFICES ASSUME Init PROVE IInv OBVIOUS
<1>1. TypeOK
  BY Defaults, ConstantsAssumption DEF Init, TypeOK, MaybeBox, RoundPc
<1>2. RegistryInv
  BY DEF Init, RegistryInv, UpMine, ClaimRange, ClaimUnique, DeadIdle, ClosingIdle,
         QuietEmpty, EpochBound, FreeSlot
<1>3. LeaderInv
  BY DEF Init, LeaderInv, LeadsBarrier, RoundBound, AckedEarly, AckedDrain, MarkHolds,
         Leading, Draining
<1>4. WriterInv
  BY DEF Init, WriterInv, WriterUp, WriterNew, WriterOld, Reserved, Unreserved, StampedOff,
         NoWrite
<1>5. OwnerInv
  BY DEF Init, OwnerInv, ValOwns, RingOwns, WriterOwns, LeaderOwns, Committed, NoWrite,
         EmptyEntry
<1>6. TokenInv
  BY DEF Init, TokenInv, TokenKept, TokenNotNew, TokenOld, TokenAcked, TokenGone, Stamped,
         Committed, NoWrite, EmptyEntry
<1>. QED BY <1>1, <1>2, <1>3, <1>4, <1>5, <1>6 DEF IInv

\* A stuttering step keeps it.
LEMMA StutterInv == ASSUME IInv, UNCHANGED vars PROVE IInv'
<1>. USE DEF vars, reg, rt, store, ringq, acct, life, lead
<1>1. TypeOK' BY DEF IInv, TypeOK
<1>2. RegistryInv'
  BY DEF IInv, RegistryInv, UpMine, ClaimRange, ClaimUnique, DeadIdle, ClosingIdle,
         QuietEmpty, EpochBound
<1>3. LeaderInv'
  BY DEF IInv, LeaderInv, LeadsBarrier, RoundBound, AckedEarly, AckedDrain, MarkHolds,
         Leading, Committed
<1>4. WriterInv'
  BY DEF IInv, WriterInv, WriterUp, WriterNew, WriterOld, Reserved, Unreserved, StampedOff
<1>5. OwnerInv'
  BY DEF IInv, OwnerInv, ValOwns, RingOwns, WriterOwns, LeaderOwns, Committed, WriterBox
<1>6. TokenInv'
  BY DEF IInv, TokenInv, TokenKept, TokenNotNew, TokenOld, TokenAcked, TokenGone, Stamped,
         Committed
<1>. QED BY <1>1, <1>2, <1>3, <1>4, <1>5, <1>6 DEF IInv

\* The inductive invariant holds in every reachable state of Reclaim.
THEOREM Invariance == Spec => []IInv
<1>1. Init => IInv BY InitInv
<1>2. IInv /\ [Next]_vars => IInv'
  <2>1. ASSUME IInv, Next PROVE IInv'
    BY <2>1, TypeStep, RegistryStep, LeaderStep, WriterStep, OwnerStep, TokenStep DEF IInv
  <2>. QED BY <2>1, StutterInv
<1>. QED BY <1>1, <1>2, PTL DEF Spec

\* Every variable keeps its type, for every instance.
THEOREM TypeCorrect == Spec => []TypeOK
<1>1. IInv => TypeOK BY DEF IInv
<1>. QED BY <1>1, Invariance, PTL

\* p2_elect never lets two live processes run a round at the same time.
THEOREM LeaderSafety == Spec => []OneLeader
<1>1. IInv => OneLeader BY Unique
<1>. QED BY <1>1, Invariance, PTL

\* No reader that follows the token protocol ever looks into a freed box, however
\* the writer, the leaders, crashes and restarts interleave.
THEOREM TokenSafety == Spec => []TokenSafe
<1>1. IInv => TokenSafe
  BY DEF IInv, TokenInv, TokenKept, TokenSafe, TypeOK
<1>. QED BY <1>1, Invariance, PTL

\* No key ever refers to a freed box, and no two keys to the same box.
THEOREM ValueSafety == Spec => []ValueSafe
<1>1. IInv => ValueSafe
  BY ConstantsAssumption DEF IInv, OwnerInv, ValOwns, ValueSafe, TypeOK
<1>. QED BY <1>1, Invariance, PTL

\* A drain frees a box at most once, also when a leader died half way through it.
THEOREM FreeSafety == Spec => []FreeOnce
<1>1. IInv => FreeOnce
  BY DEF IInv, OwnerInv, LeaderOwns, FreeOnce, Committed
<1>. QED BY <1>1, Invariance, PTL

==============================================================================
