---------------------------- MODULE RegistryProofs ----------------------------
(***************************************************************************)
(* The registry for any number of processes, slots and claim ids.          *)
(*                                                                         *)
(* TypeOK holds in every environment.  The other invariants need what the  *)
(* environment grants, and the theorems say which of it: ClaimKept and     *)
(* RefusedReaps need registry operations that do not overlap (RefusedReaps *)
(* also a readable /proc), with deaths at any store; OwnerKept needs the   *)
(* own start time too.  Where operations do overlap, OwnerKept holds if    *)
(* nobody leaves and no slot still has the pid 0 of a new store, and       *)
(* ClaimKept does so as long as the claim ids last.                        *)
(*                                                                         *)
(* The argument.  One at a time, a scanner's loads stay true until its     *)
(* compare-and-swap, and who it judges dead owns no slot.  Together, every *)
(* MINE slot has a live owner whose pid and start time it names, so that   *)
(* no scan ends in a compare-and-swap but on a slot given back by a claim  *)
(* that was refused its id, and whoever takes that slot is refused too.    *)
(***************************************************************************)
EXTENDS Registry, TLAPS

\* What the environment may grant: a process can read its own start time, and
\* those of the others.
Readable == FALSE \notin world.own
Sighted  == FALSE \notin world.other

\* Where a process has a slot, and where it has none.
HasSlot  == \A p \in Proc : pc[p] \in Claim \union {"open"} => mine[p] \in SlotId
Rounds   == \A p \in Proc : pc[p] \in Scan =>
              IF job[p] = "open" THEN mine[p] = 0 ELSE mine[p] \in SlotId
Opening  == \A p \in Proc : pc[p] \in {"take", "full"} => job[p] = "open"
NoSlot   == \A p \in Proc : pc[p] \in {"new", "out", "take", "full", "dead"} => mine[p] = 0

\* The dead stay dead; a start time is the reader's own.
GoneDead  == \A p \in Proc : gone[p] \subseteq Dead
OwnStart  == \A p \in Proc : st[p] \in {p, Unknown}
ReadStart == Readable => \A p \in Proc : pc[p] # "new" => st[p] = p

Base == /\ TypeOK /\ world \in Worlds
        /\ HasSlot /\ Rounds /\ Opening /\ NoSlot /\ GoneDead /\ OwnStart /\ ReadStart

\* What a claim has written so far is in its slot.
Written == \A p \in Proc :
  /\ pc[p] \in {"start", "cid", "mine"} => slot[mine[p]].pid = world.pids[p]
  /\ pc[p] \in {"cid", "mine"} => slot[mine[p]].start = st[p]
  /\ pc[p] = "mine" => slot[mine[p]].claim = cid[p]

\* The handle's slot names its owner.
Named(p) == /\ slot[mine[p]].state = "MINE" /\ slot[mine[p]].pid = world.pids[p]
            /\ slot[mine[p]].claim = cid[p] /\ slot[mine[p]].start = p

\* One operation at a time: what the scanner has loaded is still so.
OneBusy  == \A p, q \in Proc : Busy(p) /\ Busy(q) => p = q
ScanSees == \A p \in Proc :
  /\ pc[p] = "peek" => Here(p).state = "CLAIMING"
  /\ pc[p] \in {"peek", "reload", "judge", "cas"} => Here(p).state = v[p] /\ v[p] # "FREE"
  /\ pc[p] = "judge" => Here(p).state = "MINE" /\ rpid[p] = Here(p).pid
SerialInv == OneBusy /\ ClaimKept /\ Written /\ ScanSees

\* ... what it has passed has no owner that was dead when it began, ...
Reaped(p, s) == slot[s].state = "MINE" => slot[s].start \notin gone[p]
ReapInv == \A p \in Proc : job[p] = "open" =>
  \A s \in SlotId : pc[p] \in {"take", "full"} \/ (pc[p] \in Scan /\ s < at[p]) => Reaped(p, s)

\* ... and what it frees has no owner alive.
Owned    == \A p \in Proc : HasHandle(p) => Named(p)
Distinct == \A p, q \in Proc : mine[p] = mine[q] /\ mine[p] # 0 => p = q
CasSafe  == \A p, q \in Proc : pc[p] = "cas" => mine[q] # at[p]
OwnerInv == Owned /\ Distinct /\ CasSafe

\* Everybody stays: who has drawn a claim id keeps its slot alone.
Firm(p)   == mine[p] # 0 /\ pc[p] # "seq"
Stays     == \A p \in Proc : pc[p] # "dead"
Used      == \A s \in SlotId : slot[s].pid # 0
FirmKept  == \A p \in Proc : Firm(p) /\ pc[p] \in Claim => slot[mine[p]].state = "CLAIMING"
SeqKept   == \A p \in Proc : pc[p] = "seq" => slot[mine[p]].state = "CLAIMING" \/ claimSeq > MaxClaim
Sole      == \A p, q \in Proc : mine[p] = mine[q] /\ mine[p] # 0 /\ p # q =>
               pc[p] = "seq" /\ pc[q] = "seq" /\ claimSeq > MaxClaim
MineOwned == \A s \in SlotId : slot[s].state = "MINE" => \E q \in Proc : HasHandle(q) /\ mine[q] = s

\* The claim ids are used up, and whoever has the slot is still to draw one.
Settled(s) == claimSeq > MaxClaim /\ \A q \in Proc : mine[q] = s => pc[q] = "seq"
ScanLive == \A p \in Proc :
  /\ pc[p] \in {"peek", "reload"} => Here(p).state # "FREE" \/ Settled(at[p])
  /\ pc[p] = "judge" => \E q \in Proc : HasHandle(q) /\ mine[q] = at[p] /\ rpid[p] = world.pids[q]
  /\ pc[p] = "cas" => Settled(at[p])
StableInv == Stays /\ Used /\ Written /\ Owned /\ FirmKept /\ SeqKept /\ Sole /\ MineOwned /\ ScanLive

\* Everybody stays, in slots used before.
Stable   == world.leavers = {} /\ world.old # 0 /\ Readable

IInv == /\ Base
        /\ world.serial => SerialInv
        /\ world.serial /\ Sighted => ReapInv
        /\ world.serial /\ Readable => OwnerInv
        /\ Stable => StableInv

\* The environment does not change within a behaviour and is one of Worlds.
LEMMA WorldFacts ==
  ASSUME world \in Worlds
  PROVE  /\ \A p \in Proc : world.pids[p] \in Nat \ {0}
         /\ world.old \in Nat
         /\ world.own \subseteq BOOLEAN /\ world.other \subseteq BOOLEAN /\ world.serial \in BOOLEAN
BY RegistryAssumption

\* A change of one field leaves the others and the other slots alone.
SlotRec == [state : {"FREE", "CLAIMING", "MINE"}, pid : Nat, start : Proc \union {Unknown}, claim : Nat]

\* One slot changes its state.
LEMMA SetStateFacts ==
  ASSUME TypeOK, NEW s \in SlotId, NEW x \in {"FREE", "CLAIMING", "MINE"}, SetState(s, x)
  PROVE  /\ slot' \in [SlotId -> SlotRec]
         /\ \A t \in SlotId : /\ slot'[t].state = IF t = s THEN x ELSE slot[t].state
                              /\ slot'[t].pid = slot[t].pid /\ slot'[t].start = slot[t].start
                              /\ slot'[t].claim = slot[t].claim
BY DEF TypeOK, SetState, SlotRec

\* The words of a slot that the claim fills in one by one.
LEMMA FieldFacts ==
  ASSUME TypeOK, NEW s, NEW n \in Nat, NEW x \in Proc \union {Unknown}
  PROVE  /\ [slot EXCEPT ![s].pid = n] \in [SlotId -> SlotRec]
         /\ [slot EXCEPT ![s].start = x] \in [SlotId -> SlotRec]
         /\ [slot EXCEPT ![s].claim = n] \in [SlotId -> SlotRec]
<1>1. slot \in [SlotId -> SlotRec]
  BY DEF TypeOK, SlotRec
<1>2. [slot EXCEPT ![s].pid = n] \in [SlotId -> SlotRec]
  BY ZenonT(30), <1>1 DEF SlotRec
<1>3. [slot EXCEPT ![s].start = x] \in [SlotId -> SlotRec]
  BY ZenonT(30), <1>1 DEF SlotRec
<1>4. [slot EXCEPT ![s].claim = n] \in [SlotId -> SlotRec]
  BY ZenonT(30), <1>1 DEF SlotRec
<1>. QED BY <1>2, <1>3, <1>4

\* Where the scan goes from a slot it is done with.
LEMMA NextSlotFacts ==
  ASSUME TypeOK, NEW p \in Proc, NextSlot(p)
  PROVE  /\ pc' \in [Proc -> Pc] /\ at' \in [Proc -> SlotId]
         /\ \A q \in Proc : q # p => pc'[q] = pc[q] /\ at'[q] = at[q]
         /\ \/ pc'[p] = "load" /\ at'[p] = at[p] + 1
            \/ at[p] = SlotN /\ pc'[p] = IF job[p] = "open" THEN "take" ELSE "open"
<1>1. SlotN \in Nat \ {0} /\ at \in [Proc -> SlotId] /\ pc \in [Proc -> Pc]
  BY RegistryAssumption DEF TypeOK
<1>2. CASE at[p] < SlotN
  BY <1>1, <1>2 DEF NextSlot, Goto, Pc, Scan, Claim, SlotId
<1>3. CASE ~(at[p] < SlotN)
  <2>1. at[p] = SlotN
    BY <1>1, <1>3 DEF SlotId
  <2>. QED BY <1>1, <1>3, <2>1 DEF NextSlot, Goto, Pc, Scan, Claim, SlotId
<1>. QED BY <1>2, <1>3

\* The typed facts every step can rely on.
LEMMA Facts ==
  ASSUME Base
  PROVE  /\ slot \in [SlotId -> SlotRec] /\ pc \in [Proc -> Pc] /\ job \in [Proc -> {"open", "round"}]
         /\ at \in [Proc -> SlotId] /\ v \in [Proc -> {"FREE", "CLAIMING", "MINE"}]
         /\ rpid \in [Proc -> Nat] /\ st \in [Proc -> Proc \union {Unknown}]
         /\ cid \in [Proc -> Nat] /\ mine \in [Proc -> 0 .. SlotN]
         /\ gone \in [Proc -> SUBSET Proc] /\ claimSeq \in Nat
         /\ SlotN \in Nat \ {0} /\ MaxClaim \in Nat /\ 1 \in SlotId /\ 0 \notin SlotId
         /\ SlotId \subseteq 0 .. SlotN
<1>1. SlotN \in Nat \ {0} /\ MaxClaim \in Nat
  BY RegistryAssumption
<1>2. 1 \in SlotId /\ 0 \notin SlotId /\ SlotId \subseteq 0 .. SlotN
  BY <1>1 DEF SlotId
<1>. QED BY <1>1, <1>2 DEF Base, TypeOK, SlotRec

------------------------------------------------------------------------------
\* Types are preserved.
LEMMA TypeStep == ASSUME Base, Next PROVE TypeOK'
<1>0. TypeOK /\ world \in Worlds
  BY DEF Base
<1> USE Facts, <1>0 DEF Goto, Pc, Scan, Claim
<1>1. ASSUME NEW p \in Proc, p2_reg_claim(p) PROVE TypeOK'
  BY <1>1 DEF p2_reg_claim, BeginScan, Dead, TypeOK
<1>2. ASSUME NEW p \in Proc, p2_round_reap(p) PROVE TypeOK'
  BY <1>2 DEF p2_round_reap, BeginScan, Dead, TypeOK
<1>3. ASSUME NEW p \in Proc, scan_load(p) PROVE TypeOK'
  <2>1. v' \in [Proc -> {"FREE", "CLAIMING", "MINE"}]
    BY <1>3 DEF scan_load, Here, SlotRec
  <2>2. pc' \in [Proc -> Pc] /\ at' \in [Proc -> SlotId]
    BY <1>3, NextSlotFacts DEF scan_load
  <2>. QED BY <1>3, <2>1, <2>2 DEF scan_load, TypeOK
<1>4. ASSUME NEW p \in Proc, scan_peek(p) PROVE TypeOK'
  BY <1>4 DEF scan_peek, TypeOK
<1>5. ASSUME NEW p \in Proc, p2_slot_alive(p) PROVE TypeOK'
  <2>1. rpid' \in [Proc -> Nat]
    BY <1>5 DEF p2_slot_alive, Here, SlotRec
  <2>2. Here(p).state \in {"FREE", "CLAIMING", "MINE"}
    BY DEF Here, SlotRec
  <2>3. pc' \in [Proc -> Pc] /\ at' \in [Proc -> SlotId]
    BY <1>5, <2>2, NextSlotFacts DEF p2_slot_alive
  <2>. QED BY <1>5, <2>1, <2>3 DEF p2_slot_alive, TypeOK
<1>6. ASSUME NEW p \in Proc, p2_proc_starttime(p) PROVE TypeOK'
  <2>1. pc' \in [Proc -> Pc] /\ at' \in [Proc -> SlotId]
    BY ZenonT(30), <1>6, NextSlotFacts DEF p2_proc_starttime
  <2>. QED BY <1>6, <2>1 DEF p2_proc_starttime, TypeOK
<1>7. ASSUME NEW p \in Proc, scan_free(p) PROVE TypeOK'
  <2>1. pc' \in [Proc -> Pc] /\ at' \in [Proc -> SlotId]
    BY <1>7, NextSlotFacts DEF scan_free
  <2>2. slot' \in [SlotId -> SlotRec]
    BY <1>7, SetStateFacts DEF scan_free
  <2>. QED BY <1>7, <2>1, <2>2 DEF scan_free, TypeOK, SlotRec
<1>8. ASSUME NEW p \in Proc, claim_take(p) PROVE TypeOK'
  <2>1. slot' \in [SlotId -> SlotRec]
    BY <1>8, SetStateFacts DEF claim_take
  <2>2. pc' \in [Proc -> Pc] /\ mine' \in [Proc -> 0 .. SlotN]
    BY <1>8 DEF claim_take
  <2>3. at' \in [Proc -> SlotId]
    BY <1>8 DEF claim_take, SlotId
  <2>. QED BY <1>8, <2>1, <2>2, <2>3 DEF claim_take, TypeOK, SlotRec
<1>9. ASSUME NEW p \in Proc, claim_seq(p) PROVE TypeOK'
  <2>0. mine[p] \in SlotId
    BY <1>9 DEF claim_seq, Base, HasSlot
  <2>1. slot' \in [SlotId -> SlotRec]
    BY <1>9, <2>0, SetStateFacts DEF claim_seq
  <2>2. pc' \in [Proc -> Pc] /\ mine' \in [Proc -> 0 .. SlotN] /\ cid' \in [Proc -> Nat]
    BY <1>9 DEF claim_seq
  <2>. QED BY <1>9, <2>1, <2>2 DEF claim_seq, TypeOK, SlotRec
<1>10. ASSUME NEW p \in Proc, claim_pid(p) PROVE TypeOK'
  <2>1. slot' \in [SlotId -> SlotRec]
    <3>1. PICK n \in Nat : n = world.pids[p]
      BY WorldFacts
    <3>2. slot' = [slot EXCEPT ![mine[p]].pid = n]
      BY <1>10, <3>1 DEF claim_pid
    <3>. QED BY <3>1, <3>2, FieldFacts
  <2>. QED BY <1>10, <2>1 DEF claim_pid, TypeOK, SlotRec
<1>11. ASSUME NEW p \in Proc, claim_start(p) PROVE TypeOK'
  <2>1. slot' \in [SlotId -> SlotRec]
    <3>1. PICK x \in Proc \union {Unknown} : x = st[p]
      BY DEF TypeOK
    <3>2. slot' = [slot EXCEPT ![mine[p]].start = x]
      BY <1>11, <3>1 DEF claim_start, StoredStart
    <3>. QED BY <3>1, <3>2, FieldFacts
  <2>. QED BY <1>11, <2>1 DEF claim_start, TypeOK, SlotRec
<1>12. ASSUME NEW p \in Proc, claim_cid(p) PROVE TypeOK'
  <2>1. slot' \in [SlotId -> SlotRec]
    <3>1. PICK n \in Nat : n = cid[p]
      BY DEF TypeOK
    <3>2. slot' = [slot EXCEPT ![mine[p]].claim = n]
      BY <1>12, <3>1 DEF claim_cid
    <3>. QED BY <3>1, <3>2, FieldFacts
  <2>. QED BY <1>12, <2>1 DEF claim_cid, TypeOK, SlotRec
<1>13. ASSUME NEW p \in Proc, claim_publish(p) PROVE TypeOK'
  <2>0. mine[p] \in SlotId
    BY <1>13 DEF claim_publish, Base, HasSlot
  <2>1. slot' \in [SlotId -> SlotRec]
    BY <1>13, <2>0, SetStateFacts DEF claim_publish
  <2>. QED BY <1>13, <2>1 DEF claim_publish, TypeOK, SlotRec
<1>14. ASSUME NEW p \in Proc, open_fail(p) PROVE TypeOK'
  BY <1>14 DEF open_fail, TypeOK
<1>15. ASSUME NEW p \in Proc, p2_reg_release(p) PROVE TypeOK'
  <2>0. mine[p] \in SlotId
    BY <1>15 DEF p2_reg_release, Base, HasSlot
  <2>1. slot' \in [SlotId -> SlotRec]
    BY <1>15, <2>0, SetStateFacts DEF p2_reg_release
  <2>. QED BY <1>15, <2>1 DEF p2_reg_release, TypeOK, SlotRec
<1>16. ASSUME NEW p \in Proc, Die(p) PROVE TypeOK'
  BY <1>16 DEF Die, TypeOK
<1>. QED BY <1>1, <1>2, <1>3, <1>4, <1>5, <1>6, <1>7, <1>8, <1>9, <1>10, <1>11, <1>12,
    <1>13, <1>14, <1>15, <1>16 DEF Next

------------------------------------------------------------------------------
\* What each step does, field by field.  A step of p leaves alone what is local to
\* the others, ...
Local(p) == \A q \in Proc : q # p =>
  /\ pc'[q] = pc[q] /\ job'[q] = job[q] /\ at'[q] = at[q] /\ v'[q] = v[q] /\ rpid'[q] = rpid[q]
  /\ st'[q] = st[q] /\ cid'[q] = cid[q] /\ mine'[q] = mine[q] /\ gone'[q] = gone[q]

\* ... and a scan only looks, until its compare-and-swap.
Looks(p)  == UNCHANGED <<claimSeq, slot, job, st, cid, mine, gone>>
Onward(p) == \/ pc'[p] = "load" /\ at'[p] = at[p] + 1
             \/ at[p] = SlotN /\ pc'[p] = IF job[p] = "open" THEN "take" ELSE "open"
Halts(p, l) == pc'[p] = l /\ at'[p] = at[p]

Enters(p, j) ==
  /\ UNCHANGED <<claimSeq, slot, v, rpid, cid, mine>> /\ MayEnter
  /\ pc'[p] = "load" /\ job'[p] = j /\ at'[p] = 1 /\ gone'[p] = Dead
Loads(p) ==
  /\ pc[p] = "load" /\ Looks(p) /\ v'[p] = Here(p).state
  /\ \/ Here(p).state = "MINE" /\ Halts(p, "reload")
     \/ Here(p).state = "CLAIMING" /\ Halts(p, "peek")
     \/ Here(p).state # "MINE" /\ Onward(p)
Peeks(p) ==
  /\ pc[p] = "peek" /\ Looks(p) /\ UNCHANGED v
  /\ Halts(p, "reload") \/ (Here(p).pid = 0 /\ Halts(p, "cas"))
Reloads(p) ==
  /\ pc[p] = "reload" /\ Looks(p) /\ UNCHANGED v /\ rpid'[p] = Here(p).pid
  /\ \/ Here(p).state = "FREE" /\ Halts(p, "cas")
     \/ Here(p).state = "CLAIMING" /\ Onward(p)
     \/ Here(p).state = "MINE" /\ Halts(p, "judge")
Judges(p) ==
  /\ pc[p] = "judge" /\ Looks(p) /\ UNCHANGED v
  /\ \/ Onward(p) /\ (Sighted => SameProcess(p))
     \/ ~SameProcess(p) /\ Halts(p, "cas")

\* The words of one slot are written.
Others(s) == \A t \in SlotId : t # s => slot'[t] = slot[t]
Moves(s, x) == /\ Others(s) /\ slot'[s].state = x
               /\ slot'[s].pid = slot[s].pid /\ slot'[s].start = slot[s].start
               /\ slot'[s].claim = slot[s].claim
Frees(p) ==
  /\ pc[p] = "cas" /\ UNCHANGED <<claimSeq, job, st, cid, mine, gone>> /\ Onward(p)
  /\ IF Here(p).state = v[p] THEN Moves(at[p], "FREE") ELSE slot' = slot
Takes(p) ==
  /\ pc[p] = "take" /\ UNCHANGED <<claimSeq, job, st, cid, gone>>
  /\ \/ /\ Here(p).state = "FREE" /\ Moves(at[p], "CLAIMING")
        /\ mine'[p] = at[p] /\ pc'[p] = "seq"
     \/ slot' = slot /\ pc'[p] \in {"take", "full"} /\ mine' = mine
Draws(p) ==
  /\ pc[p] = "seq" /\ claimSeq' = claimSeq + 1 /\ UNCHANGED <<job, at, st, gone>>
  /\ \/ /\ claimSeq + 1 > MaxClaim /\ Moves(mine[p], "FREE") /\ mine'[p] = 0 /\ pc'[p] = "out"
     \/ /\ claimSeq + 1 <= MaxClaim /\ slot' = slot /\ mine' = mine /\ pc'[p] = "pid"
Writes(p, f) ==
  /\ UNCHANGED <<claimSeq, job, at, st, cid, mine, gone>> /\ Others(mine[p])
  /\ slot'[mine[p]].state = IF f = "state" THEN "MINE" ELSE slot[mine[p]].state
  /\ slot'[mine[p]].pid = IF f = "pid" THEN world.pids[p] ELSE slot[mine[p]].pid
  /\ slot'[mine[p]].start = IF f = "start" THEN st[p] ELSE slot[mine[p]].start
  /\ slot'[mine[p]].claim = IF f = "claim" THEN cid[p] ELSE slot[mine[p]].claim
Leaves(p) ==
  /\ pc[p] = "open" /\ pc'[p] = "out" /\ mine'[p] = 0 /\ p \in world.leavers /\ MayEnter
  /\ UNCHANGED <<claimSeq, job, at, st, gone>>
  /\ slot' = slot \/ Moves(mine[p], "FREE")
Dies(p) ==
  /\ Alive(p) /\ p \in world.leavers /\ pc'[p] = "dead" /\ mine'[p] = 0
  /\ UNCHANGED <<claimSeq, slot, job, st, gone>>

Effect(p) ==
  \/ /\ pc[p] \in {"new", "out"} /\ Enters(p, "open")
     /\ st'[p] \in {p, Unknown} /\ (Readable => st'[p] = p)
  \/ pc[p] = "open" /\ Enters(p, "round") /\ st' = st
  \/ Loads(p) \/ Peeks(p) \/ Reloads(p) \/ Judges(p) \/ Frees(p) \/ Takes(p) \/ Draws(p)
  \/ pc[p] = "pid" /\ Writes(p, "pid") /\ pc'[p] = "start"
  \/ pc[p] = "start" /\ Writes(p, "start") /\ pc'[p] = "cid"
  \/ pc[p] = "cid" /\ Writes(p, "claim") /\ pc'[p] = "mine"
  \/ pc[p] = "mine" /\ Writes(p, "state") /\ pc'[p] = "open"
  \/ pc[p] = "full" /\ pc'[p] = "out" /\ Looks(p) /\ UNCHANGED <<at, v, rpid>>
  \/ Leaves(p) \/ Dies(p)

\* The same, as the steps below use it.
LEMMA MovesSlot ==
  ASSUME TypeOK, NEW s \in SlotId, NEW x \in {"FREE", "CLAIMING", "MINE"}, SetState(s, x)
  PROVE  Moves(s, x)
BY DEF TypeOK, SetState, Moves, Others

\* A scan goes to the next slot.
LEMMA NextOnward == ASSUME TypeOK, NEW p \in Proc, NextSlot(p) PROVE Onward(p)
BY NextSlotFacts DEF Onward

\* Every step is a step of some process with one of these effects.
LEMMA Effects == ASSUME Base, Next PROVE \E p \in Proc : Local(p) /\ Effect(p)
<1>0. TypeOK
  BY DEF Base
<1>m. \A p \in Proc : pc[p] \in Claim \union {"open"} => mine[p] \in SlotId
  BY DEF Base, HasSlot
<1> USE Facts DEF Goto
<1>1. ASSUME NEW p \in Proc, p2_reg_claim(p) PROVE Local(p) /\ Effect(p)
  <2>1. st'[p] \in {p, Unknown} /\ (Readable => st'[p] = p)
    BY <1>1, WorldFacts DEF p2_reg_claim, Readable, Base
  <2>. QED BY <1>1, <2>1 DEF p2_reg_claim, BeginScan, Local, Effect, Enters
<1>2. ASSUME NEW p \in Proc, p2_round_reap(p) PROVE Local(p) /\ Effect(p)
  BY <1>2 DEF p2_round_reap, BeginScan, Local, Effect, Enters
<1>3. ASSUME NEW p \in Proc, scan_load(p) PROVE Local(p) /\ Effect(p)
  <2>1. Local(p)
    BY <1>0, <1>3, NextSlotFacts DEF scan_load, Local
  <2>2. Loads(p)
    BY <1>0, <1>3, NextOnward DEF scan_load, Loads, Looks, Halts
  <2>. QED BY <2>1, <2>2 DEF Effect
<1>4. ASSUME NEW p \in Proc, scan_peek(p) PROVE Local(p) /\ Effect(p)
  BY <1>4 DEF scan_peek, Abandoned, Local, Effect, Peeks, Looks, Halts
<1>5. ASSUME NEW p \in Proc, p2_slot_alive(p) PROVE Local(p) /\ Effect(p)
  <2>0. Here(p).state \in {"FREE", "CLAIMING", "MINE"}
    BY DEF Here, SlotRec
  <2>1. Local(p)
    BY <1>0, <1>5, <2>0, NextSlotFacts DEF p2_slot_alive, Local
  <2>2. Reloads(p)
    BY <1>0, <1>5, <2>0, NextOnward DEF p2_slot_alive, Reloads, Looks, Halts
  <2>. QED BY <2>1, <2>2 DEF Effect
<1>6. ASSUME NEW p \in Proc, p2_proc_starttime(p) PROVE Local(p) /\ Effect(p)
  <2>1. Local(p)
    BY <1>0, <1>6, NextSlotFacts DEF p2_proc_starttime, Local
  <2>2. Judges(p)
    BY <1>0, <1>6, NextOnward DEF p2_proc_starttime, Judges, Sighted, Looks, Halts
  <2>. QED BY <2>1, <2>2 DEF Effect
<1>7. ASSUME NEW p \in Proc, scan_free(p) PROVE Local(p) /\ Effect(p)
  <2>1. Local(p)
    BY <1>0, <1>7, NextSlotFacts DEF scan_free, Local
  <2>2. Frees(p)
    BY <1>0, <1>7, NextOnward, MovesSlot DEF scan_free, Frees
  <2>. QED BY <2>1, <2>2 DEF Effect
<1>8. ASSUME NEW p \in Proc, claim_take(p) PROVE Local(p) /\ Effect(p)
  <2>1. Local(p)
    BY <1>8 DEF claim_take, Local
  <2>2. Takes(p)
    BY <1>0, <1>8, MovesSlot DEF claim_take, Takes
  <2>. QED BY <2>1, <2>2 DEF Effect
<1>9. ASSUME NEW p \in Proc, claim_seq(p) PROVE Local(p) /\ Effect(p)
  <2>1. Local(p)
    BY <1>9 DEF claim_seq, Local
  <2>2. mine[p] \in SlotId
    BY <1>9, <1>m DEF claim_seq, Claim
  <2>3. Draws(p)
    BY <1>0, <1>9, <2>2, MovesSlot DEF claim_seq, Draws
  <2>. QED BY <2>1, <2>3 DEF Effect
<1>10. ASSUME NEW p \in Proc, claim_pid(p) PROVE Local(p) /\ Effect(p)
  <2>1. mine[p] \in SlotId
    BY <1>10, <1>m DEF claim_pid, Claim
  <2>2. Writes(p, "pid")
    BY <1>10, <2>1 DEF claim_pid, Writes, Others, SlotRec
  <2>. QED BY <1>10, <2>2 DEF claim_pid, Local, Effect
<1>11. ASSUME NEW p \in Proc, claim_start(p) PROVE Local(p) /\ Effect(p)
  <2>1. mine[p] \in SlotId
    BY <1>11, <1>m DEF claim_start, Claim
  <2>2. Writes(p, "start")
    BY <1>11, <2>1 DEF claim_start, StoredStart, Writes, Others, SlotRec
  <2>. QED BY <1>11, <2>2 DEF claim_start, Local, Effect
<1>12. ASSUME NEW p \in Proc, claim_cid(p) PROVE Local(p) /\ Effect(p)
  <2>1. mine[p] \in SlotId
    BY <1>12, <1>m DEF claim_cid, Claim
  <2>2. Writes(p, "claim")
    BY <1>12, <2>1 DEF claim_cid, Writes, Others, SlotRec
  <2>. QED BY <1>12, <2>2 DEF claim_cid, Local, Effect
<1>13. ASSUME NEW p \in Proc, claim_publish(p) PROVE Local(p) /\ Effect(p)
  <2>1. mine[p] \in SlotId
    BY <1>13, <1>m DEF claim_publish, Claim
  <2>2. Moves(mine[p], "MINE")
    BY <1>0, <1>13, <2>1, MovesSlot DEF claim_publish
  <2>3. Writes(p, "state")
    BY <1>13, <2>2 DEF claim_publish, Writes, Moves
  <2>. QED BY <1>13, <2>3 DEF claim_publish, Local, Effect
<1>14. ASSUME NEW p \in Proc, open_fail(p) PROVE Local(p) /\ Effect(p)
  BY <1>14 DEF open_fail, Local, Effect, Looks
<1>15. ASSUME NEW p \in Proc, p2_reg_release(p) PROVE Local(p) /\ Effect(p)
  <2>1. mine[p] \in SlotId
    BY <1>15, <1>m DEF p2_reg_release
  <2>2. Leaves(p)
    BY <1>0, <1>15, <2>1, MovesSlot DEF p2_reg_release, Leaves
  <2>. QED BY <1>15, <2>2 DEF p2_reg_release, Local, Effect
<1>16. ASSUME NEW p \in Proc, Die(p) PROVE Local(p) /\ Effect(p)
  BY <1>16 DEF Die, Local, Effect, Dies
<1> HIDE DEF Goto
<1>. QED BY <1>1, <1>2, <1>3, <1>4, <1>5, <1>6, <1>7, <1>8, <1>9, <1>10, <1>11, <1>12,
    <1>13, <1>14, <1>15, <1>16 DEF Next

\* Who has a slot, who is dead and what start time was read: preserved in any world.
LEMMA BaseStep == ASSUME Base, Next PROVE Base'
<1>0. /\ TypeOK' /\ world \in Worlds /\ world' = world /\ (Readable' <=> Readable)
      /\ HasSlot /\ Rounds /\ Opening /\ NoSlot /\ GoneDead /\ OwnStart /\ ReadStart
  BY TypeStep DEF Base, Next, Readable
<1>1. PICK p \in Proc : Local(p) /\ Effect(p)
  BY Effects
<1>o. \A q \in Proc : q # p => /\ pc'[q] = pc[q] /\ job'[q] = job[q] /\ mine'[q] = mine[q]
                                /\ st'[q] = st[q] /\ gone'[q] = gone[q]
  BY <1>1 DEF Local
<1>e. Effect(p)
  BY <1>1
<1> USE DEF Scan, Claim
<1>d. /\ Dead \subseteq Dead'
      /\ gone'[p] \in {gone[p], Dead}
      /\ \/ st'[p] = st[p] /\ pc[p] # "new"
         \/ st'[p] \in {p, Unknown} /\ (Readable => st'[p] = p)
  <2>1. pc[p] # "dead"
    BY <1>e DEF Effect, Loads, Peeks, Reloads, Judges, Frees, Takes, Draws, Leaves, Dies, Alive
  <2>2. Dead \subseteq Dead'
    BY <1>o, <2>1 DEF Dead
  <2>3. gone'[p] \in {gone[p], Dead}
    BY <1>e DEF Effect, Enters, Loads, Peeks, Reloads, Judges, Frees, Takes, Draws, Writes, Leaves,
       Dies, Looks
  <2>4. \/ st'[p] = st[p] /\ pc[p] # "new"
        \/ st'[p] \in {p, Unknown} /\ (Readable => st'[p] = p)
    BY <1>e DEF Effect, Enters, Loads, Peeks, Reloads, Judges, Frees, Takes, Draws, Writes, Leaves,
       Dies, Looks, Alive
  <2>. QED BY <2>2, <2>3, <2>4
<1>2. GoneDead' /\ OwnStart' /\ ReadStart'
  BY <1>0, <1>o, <1>d DEF GoneDead, OwnStart, ReadStart
<1>3. /\ pc'[p] \in Claim \union {"open"} => mine'[p] \in SlotId
      /\ pc'[p] \in {"new", "out", "take", "full", "dead"} => mine'[p] = 0
      /\ pc'[p] \in {"take", "full"} => job'[p] = "open"
      /\ pc'[p] \in Scan => IF job'[p] = "open" THEN mine'[p] = 0 ELSE mine'[p] \in SlotId
  <2>0. /\ pc[p] \in Claim \union {"open"} => mine[p] \in SlotId
        /\ pc[p] \in {"new", "out", "take", "full", "dead"} => mine[p] = 0
        /\ pc[p] \in {"take", "full"} => job[p] = "open"
        /\ pc[p] \in Scan => IF job[p] = "open" THEN mine[p] = 0 ELSE mine[p] \in SlotId
        /\ at[p] \in SlotId
    BY <1>0, Facts DEF HasSlot, Rounds, Opening, NoSlot
  <2>1. CASE pc[p] \in {"new", "out", "open", "full"}
    <3>1. \/ pc[p] \in {"new", "out"} /\ Enters(p, "open")
          \/ pc[p] = "open" /\ Enters(p, "round")
          \/ pc'[p] = "out" /\ mine'[p] = 0
          \/ Dies(p)
      BY <1>e, <2>0, <2>1 DEF Effect, Loads, Peeks, Reloads, Judges, Frees, Takes, Draws, Leaves, Looks
    <3>. QED BY <2>0, <3>1 DEF Enters, Dies
  <2>2. CASE pc[p] \in Scan
    BY <1>e, <2>0, <2>2 DEF Effect, Loads, Peeks, Reloads, Judges, Frees, Takes, Draws,
       Leaves, Dies, Looks, Halts, Onward
  <2>3. CASE pc[p] \in Claim \union {"take"}
    BY <1>e, <2>0, <2>3 DEF Effect, Loads, Peeks, Reloads, Judges, Frees, Takes, Draws,
       Leaves, Dies, Writes
  <2>4. pc[p] # "dead" /\ pc[p] \in Pc
    BY <1>e, Facts DEF Effect, Loads, Peeks, Reloads, Judges, Frees, Takes, Draws, Leaves, Dies, Alive
  <2>. QED BY <2>1, <2>2, <2>3, <2>4 DEF Pc
<1>4. HasSlot' /\ Rounds' /\ Opening' /\ NoSlot'
  BY <1>0, <1>o, <1>3 DEF HasSlot, Rounds, Opening, NoSlot
<1>. QED BY <1>0, <1>2, <1>4 DEF Base

------------------------------------------------------------------------------
\* Operations that do not overlap: nobody touches the slots while another is busy,
\* so what a scan has loaded and what a claim has written is still there.
LEMMA OthersIdle ==
  ASSUME Base, world.serial, OneBusy, NEW p \in Proc, Local(p), Effect(p)
  PROVE  /\ \A q \in Proc : q # p /\ Busy(q) => slot' = slot
         /\ Busy(p)' => Busy(p) \/ \A q \in Proc : ~Busy(q)
         /\ \A q \in Proc : q # p => Busy(q)' = Busy(q)
<1>1. MayEnter => \A q \in Proc : ~Busy(q)
  BY DEF MayEnter
<1>2. \A q \in Proc : q # p => Busy(q)' = Busy(q)
  BY DEF Local, Busy
<1>3. slot' = slot \/ Busy(p) \/ \A q \in Proc : ~Busy(q)
  BY <1>1 DEF Effect, Enters, Loads, Peeks, Reloads, Judges, Frees, Takes, Draws, Leaves, Dies,
              Looks, Busy, Scan, Claim
<1>4. Busy(p)' => Busy(p) \/ \A q \in Proc : ~Busy(q)
  BY <1>1 DEF Effect, Enters, Loads, Peeks, Reloads, Judges, Frees, Takes, Draws, Leaves, Dies,
              Busy, Scan, Claim
<1>. QED BY <1>2, <1>3, <1>4 DEF OneBusy

\* One registration at a time: no claim is lost.
LEMMA SerialStep == ASSUME Base, world.serial, SerialInv, Next PROVE SerialInv'
<1>0. OneBusy /\ ClaimKept /\ Written /\ ScanSees /\ world' = world
  BY DEF SerialInv, Next
<1>1. PICK p \in Proc : Local(p) /\ Effect(p)
  BY Effects
<1>2. /\ \A q \in Proc : q # p /\ Busy(q) => slot' = slot
      /\ Busy(p)' => Busy(p) \/ \A q \in Proc : ~Busy(q)
      /\ \A q \in Proc : q # p => Busy(q)' = Busy(q)
  BY <1>0, <1>1, OthersIdle
<1>3. OneBusy'
  BY <1>0, <1>2 DEF OneBusy
<1>o. \A q \in Proc : q # p => /\ pc'[q] = pc[q] /\ mine'[q] = mine[q] /\ st'[q] = st[q]
                                /\ cid'[q] = cid[q] /\ at'[q] = at[q] /\ v'[q] = v[q] /\ rpid'[q] = rpid[q]
  BY <1>1 DEF Local
<1>m. \A q \in Proc : pc[q] \in Claim => mine[q] \in SlotId
  BY DEF Base, HasSlot
<1>4. ClaimKept'
  <2>1. ASSUME NEW q \in Proc, q # p, pc'[q] \in Claim PROVE slot'[mine'[q]].state = "CLAIMING"
    BY <1>0, <1>2, <1>o, <2>1 DEF ClaimKept, Busy
  <2>2. pc'[p] \in Claim => slot'[mine'[p]].state = "CLAIMING"
    BY <1>0, <1>1, <1>m DEF Effect, Enters, Loads, Peeks, Reloads, Judges, Frees, Takes, Draws,
       Leaves, Dies, Halts, Onward, Moves, Writes, Claim, ClaimKept
  <2>. QED BY <2>1, <2>2 DEF ClaimKept
<1>5. Written'
  <2> DEFINE W(q) == /\ pc[q] \in {"start", "cid", "mine"} => slot[mine[q]].pid = world.pids[q]
                     /\ pc[q] \in {"cid", "mine"} => slot[mine[q]].start = st[q]
                     /\ pc[q] = "mine" => slot[mine[q]].claim = cid[q]
  <2>1. ASSUME NEW q \in Proc, q # p PROVE W(q)'
    <3>1. pc[q] \in {"start", "cid", "mine"} => slot' = slot
      BY <1>2, <2>1 DEF Busy, Claim
    <3>. QED BY <1>0, <1>o, <2>1, <3>1 DEF Written
  <2>2. W(p)'
    <3>2. pc'[p] = "start" => Writes(p, "pid")
      BY <1>1 DEF Effect, Enters, Loads, Peeks, Reloads, Judges, Frees, Takes, Draws,
         Leaves, Dies, Halts, Onward
    <3>3. pc'[p] = "cid" => pc[p] = "start" /\ Writes(p, "start")
      BY <1>1 DEF Effect, Enters, Loads, Peeks, Reloads, Judges, Frees, Takes, Draws,
         Leaves, Dies, Halts, Onward
    <3>4. pc'[p] = "mine" => pc[p] = "cid" /\ Writes(p, "claim")
      BY <1>1 DEF Effect, Enters, Loads, Peeks, Reloads, Judges, Frees, Takes, Draws,
         Leaves, Dies, Halts, Onward
    <3>. QED BY <1>0, <3>2, <3>3, <3>4 DEF Writes, Written
  <2>. QED BY <2>1, <2>2 DEF Written
<1>6. ScanSees'
  <2> DEFINE S(q) == /\ pc[q] = "peek" => Here(q).state = "CLAIMING"
                     /\ pc[q] \in {"peek", "reload", "judge", "cas"} => Here(q).state = v[q] /\ v[q] # "FREE"
                     /\ pc[q] = "judge" => Here(q).state = "MINE" /\ rpid[q] = Here(q).pid
  <2>1. ASSUME NEW q \in Proc, q # p PROVE S(q)'
    <3>1. pc[q] \in {"peek", "reload", "judge", "cas"} => slot' = slot
      BY <1>2, <2>1 DEF Busy, Scan
    <3>. QED BY <1>0, <1>o, <2>1, <3>1 DEF ScanSees, Here
  <2>2. S(p)'
    <3>1. pc'[p] \in {"peek", "reload", "judge", "cas"} =>
             Loads(p) \/ Peeks(p) \/ Reloads(p) \/ Judges(p)
      BY <1>1 DEF Effect, Enters, Frees, Takes, Draws, Leaves, Dies, Onward
    <3>. QED BY <1>0, <3>1 DEF ScanSees, Here, Loads, Peeks, Reloads, Judges, Looks, Halts, Onward
  <2>. QED BY <2>1, <2>2 DEF ScanSees
<1>. QED BY <1>3, <1>4, <1>5, <1>6 DEF SerialInv

\* The opener passes no published slot whose owner was dead when it began.
LEMMA ReapStep ==
  ASSUME Base, world.serial, Sighted, SerialInv, ReapInv, Next
  PROVE  ReapInv'
<1>0. OneBusy /\ ClaimKept /\ Written /\ ScanSees /\ world' = world
  BY DEF SerialInv, Next
<1>b. /\ \A q \in Proc : st[q] \in {q, Unknown} /\ gone[q] \subseteq Dead
      /\ \A q \in Proc : pc[q] \in Claim => mine[q] \in SlotId
      /\ Unknown \notin Proc
  BY RegistryAssumption DEF Base, OwnStart, GoneDead, HasSlot
<1>1. PICK p \in Proc : Local(p) /\ Effect(p)
  BY Effects
<1>2. /\ \A q \in Proc : q # p /\ Busy(q) => slot' = slot
      /\ Busy(p)' => Busy(p) \/ \A q \in Proc : ~Busy(q)
      /\ \A q \in Proc : q # p => Busy(q)' = Busy(q)
  BY <1>0, <1>1, OthersIdle
<1>3. SUFFICES ASSUME NEW q \in Proc, job'[q] = "open", NEW s \in SlotId,
                      pc'[q] \in {"take", "full"} \/ (pc'[q] \in Scan /\ s < at'[q]),
                      slot'[s].state = "MINE"
               PROVE  slot'[s].start \notin gone'[q]
  BY DEF ReapInv, Reaped
<1>4. CASE q # p
  <2>1. job[q] = "open" /\ pc'[q] = pc[q] /\ at'[q] = at[q] /\ gone'[q] = gone[q]
    BY <1>1, <1>3, <1>4 DEF Local
  <2>2. slot[s].state = "MINE" => slot[s].start \notin gone[q]
    BY <1>3, <2>1 DEF ReapInv, Reaped
  <2>3. CASE slot'[s] = slot[s]
    BY <1>3, <2>1, <2>2, <2>3
  <2>4. CASE slot'[s] # slot[s]
    <3>1. \/ pc[p] \in Claim /\ s = mine[p] /\ (Writes(p, "pid") \/ Writes(p, "start") \/ Writes(p, "claim"))
          \/ pc[p] = "mine" /\ s = mine[p] /\ Writes(p, "state")
          \/ slot'[s].state # "MINE"
      BY <1>1, <2>4, <1>b DEF Effect, Enters, Loads, Peeks, Reloads, Judges, Frees, Takes, Draws,
         Leaves, Dies, Looks, Moves, Others, Writes, Claim
    <3>2. CASE pc[p] \in Claim /\ s = mine[p] /\ (Writes(p, "pid") \/ Writes(p, "start") \/ Writes(p, "claim"))
      BY <1>0, <1>3, <3>2 DEF ClaimKept, Writes
    <3>3. CASE pc[p] = "mine" /\ s = mine[p] /\ Writes(p, "state")
      <4>1. slot'[s].start = st[p]
        BY <1>0, <3>3 DEF Written, Writes
      <4>2. p \notin gone[q] /\ Unknown \notin gone[q]
        BY <1>b, <3>3 DEF Dead
      <4>. QED BY <1>b, <2>1, <4>1, <4>2
    <3>. QED BY <1>3, <3>1, <3>2, <3>3
  <2>. QED BY <2>3, <2>4
<1>5. CASE q = p
  <2>0. at[p] \in Nat /\ s \in Nat /\ SlotN \in Nat /\ s <= SlotN /\ s >= 1
    BY RegistryAssumption DEF Base, TypeOK, SlotId
  <2>h. ASSUME job[p] = "open", pc[p] \in Scan, gone'[p] = gone[p],
               s < at[p] => slot'[s] = slot[s],
               slot'[at[p]].state = "MINE" => slot'[at[p]].start \notin gone[p],
               Onward(p)
        PROVE  slot'[s].start \notin gone'[p]
    <3>1. s < at[p] \/ s = at[p]
      BY <1>3, <1>5, <2>0, <2>h DEF Onward
    <3>2. s < at[p] => slot'[s].start \notin gone'[p]
      BY <1>3, <2>h DEF ReapInv, Reaped
    <3>. QED BY <1>3, <2>h, <3>1, <3>2
  <2>l. CASE Loads(p) \/ Peeks(p) \/ Reloads(p) \/ Judges(p)
    <3>1. Looks(p) /\ pc[p] \in Scan
      BY <2>l DEF Loads, Peeks, Reloads, Judges, Scan
    <3>2. job[p] = "open" /\ gone'[p] = gone[p] /\ slot' = slot
      BY <1>3, <1>5, <3>1 DEF Looks
    <3>3. Onward(p) \/ (at'[p] = at[p] /\ pc'[p] \in {"peek", "reload", "judge", "cas"})
      BY <2>l DEF Loads, Peeks, Reloads, Judges, Halts
    <3>4. CASE at'[p] = at[p] /\ pc'[p] \in {"peek", "reload", "judge", "cas"}
      BY <1>3, <1>5, <3>1, <3>2, <3>4 DEF ReapInv, Reaped
    <3>5. CASE Onward(p)
      <4>1. slot[at[p]].state = "MINE" => SameProcess(p)
        <5>1. \A l \in {"peek", "reload", "judge", "cas"} : ~Halts(p, l)
          BY <3>5 DEF Onward, Halts
        <5>2. ~Peeks(p)
          BY <5>1 DEF Peeks
        <5>3. Loads(p) \/ Reloads(p) => slot[at[p]].state # "MINE"
          BY <5>1 DEF Loads, Reloads, Here
        <5>4. Judges(p) => SameProcess(p)
          BY <5>1 DEF Judges
        <5>. QED BY <2>l, <5>2, <5>3, <5>4
      <4>2. slot[at[p]].state = "MINE" => slot[at[p]].start \notin gone[p]
        BY <1>b, <4>1 DEF SameProcess, Here, Alive, Dead
      <4>. QED BY <1>5, <2>h, <3>1, <3>2, <3>5, <4>2
    <3>. QED BY <3>3, <3>4, <3>5
  <2>e. CASE pc'[p] = "load" /\ at'[p] = 1
    BY <1>3, <1>5, <2>0, <2>e
  <2>f. CASE Frees(p)
    <3>1. job[p] = "open" /\ pc[p] \in Scan /\ gone'[p] = gone[p] /\ Onward(p)
      BY <1>3, <1>5, <2>f DEF Frees, Scan
    <3>2. Here(p).state = v[p]
      BY <1>0, <2>f DEF Frees, ScanSees
    <3>3. Moves(at[p], "FREE")
      BY <2>f, <3>2 DEF Frees
    <3>4. slot'[at[p]].state # "MINE"
      BY <3>3 DEF Moves
    <3>5. s < at[p] => slot'[s] = slot[s]
      BY <2>0, <3>3 DEF Moves, Others
    <3>. QED BY <1>5, <2>h, <3>1, <3>4, <3>5
  <2>t. CASE Takes(p)
    <3>1. slot' = slot /\ gone'[p] = gone[p] /\ job[p] = "open" /\ pc[p] = "take"
      BY <1>3, <1>5, <2>t DEF Takes, Scan
    <3>. QED BY <1>3, <1>5, <3>1 DEF ReapInv, Reaped
  <2>. QED
    BY <1>1, <1>3, <1>5, <2>l, <2>e, <2>f, <2>t DEF Effect, Enters, Draws, Leaves, Dies, Scan
<1>. QED BY <1>4, <1>5

\* Whom a scan judges dead owns no slot, so a live handle keeps its own.
LEMMA OwnerStep ==
  ASSUME Base, world.serial, Readable, SerialInv, OwnerInv, Next
  PROVE  OwnerInv'
<1>0. OneBusy /\ ClaimKept /\ Written /\ ScanSees /\ Owned /\ Distinct /\ CasSafe /\ world' = world
  BY DEF SerialInv, OwnerInv, Next
<1>b. /\ \A q \in Proc : pc[q] # "new" => st[q] = q
      /\ \A q \in Proc : pc[q] \in Claim \union {"open"} => mine[q] \in SlotId
      /\ \A q \in Proc : mine[q] # 0 => pc[q] \in Claim \union {"open"} \union Scan
      /\ \A q \in Proc : mine[q] # 0 => mine[q] \in SlotId
      /\ \A q \in Proc : pc[q] \in {"new", "out", "take", "full"} => mine[q] = 0
      /\ at \in [Proc -> SlotId] /\ 0 \notin SlotId
  <2>1. \A q \in Proc : mine[q] # 0 => mine[q] \in SlotId
    BY DEF Base, TypeOK, SlotId
  <2>. QED BY <2>1, Facts DEF Base, ReadStart, HasSlot, NoSlot, Pc
\* A slot somebody has is not FREE, and CLAIMING only while its owner claims.
<1>c. ASSUME NEW q \in Proc, mine[q] # 0
      PROVE  /\ slot[mine[q]].state # "FREE"
             /\ slot[mine[q]].state = "CLAIMING" => pc[q] \in Claim
  BY <1>0, <1>b, <1>c DEF ClaimKept, Owned, Named, HasHandle
<1>1. PICK p \in Proc : Local(p) /\ Effect(p)
  BY Effects
<1>2. /\ \A q \in Proc : q # p /\ Busy(q) => slot' = slot
      /\ Busy(p)' => Busy(p) \/ \A q \in Proc : ~Busy(q)
      /\ \A q \in Proc : q # p => Busy(q)' = Busy(q)
  BY <1>0, <1>1, OthersIdle
<1>o. \A q \in Proc : q # p => /\ pc'[q] = pc[q] /\ mine'[q] = mine[q] /\ at'[q] = at[q]
                                /\ cid'[q] = cid[q] /\ job'[q] = job[q]
  BY <1>1 DEF Local
\* Nobody gets a slot but a FREE one.
<1>m. \/ mine'[p] \in {mine[p], 0}
      \/ Takes(p) /\ mine'[p] = at[p] /\ slot[at[p]].state = "FREE"
  BY <1>1 DEF Effect, Enters, Loads, Peeks, Reloads, Judges, Frees, Takes, Draws, Writes, Leaves, Dies,
     Looks, Here
<1>3. Distinct'
  <2>1. \A q \in Proc : mine[q] # 0 => slot[mine[q]].state # "FREE"
    BY <1>c
  <2>. QED BY <1>0, <1>o, <1>m, <2>1 DEF Distinct
<1>4. CasSafe'
  <2>1. ASSUME NEW q \in Proc, NEW r \in Proc, pc'[q] = "cas", mine'[r] = at'[q] PROVE FALSE
    <3>1. CASE q # p
      <4>1. pc[q] = "cas" /\ at'[q] = at[q] /\ mine[r] # at[q]
        BY <1>0, <1>o, <2>1, <3>1 DEF CasSafe
      <4>2. Busy(q) /\ ~Busy(p)
        BY <1>0, <3>1, <4>1 DEF Busy, Scan, OneBusy
      <4>3. at[q] # 0 /\ ~Takes(p)
        BY <1>b, <4>2 DEF Takes, Busy
      <4>. QED BY <1>m, <1>o, <2>1, <4>1, <4>3
    <3>2. CASE q = p
      <4>1. (Peeks(p) \/ Reloads(p) \/ Judges(p)) /\ Halts(p, "cas")
        BY <1>1, <2>1, <3>2 DEF Effect, Enters, Loads, Peeks, Reloads, Judges, Frees, Takes, Draws,
           Leaves, Dies, Halts, Onward
      <4>2. mine[r] = at[p] /\ mine' = mine /\ mine[r] # 0
        BY <1>b, <2>1, <3>2, <4>1 DEF Peeks, Reloads, Judges, Looks, Halts
      <4>3. CASE Peeks(p)
        <5>1. slot[mine[r]].state = "CLAIMING" /\ Busy(p)
          BY <1>0, <4>2, <4>3 DEF Peeks, ScanSees, Here, Busy, Scan
        <5>2. pc[r] \in Claim
          BY <1>c, <4>2, <5>1
        <5>3. r = p
          BY <1>0, <5>1, <5>2 DEF OneBusy, Busy
        <5>. QED BY <4>3, <5>2, <5>3 DEF Peeks, Claim
      <4>4. CASE Reloads(p)
        BY <1>0, <4>1, <4>4 DEF Reloads, ScanSees, Halts, Onward
      <4>5. CASE Judges(p)
        <5>1. slot[mine[r]].state = "MINE" /\ rpid[p] = slot[mine[r]].pid
          BY <1>0, <4>2, <4>5 DEF Judges, ScanSees, Here
        <5>2. HasHandle(r)
          BY <1>0, <1>b, <4>2, <5>1 DEF HasHandle, ClaimKept
        <5>3. /\ slot[at[p]].pid = world.pids[r] /\ slot[at[p]].start = r /\ Alive(r)
          BY <1>0, <4>2, <5>2 DEF Owned, Named, HasHandle, Alive, Scan
        <5>4. SameProcess(p)
          BY <4>2, <5>1, <5>3 DEF SameProcess, Here
        <5>. QED BY <4>1, <4>5, <5>4 DEF Judges, Halts, Onward
      <4>. QED BY <4>1, <4>3, <4>4, <4>5
    <3>. QED BY <3>1, <3>2
  <2>. QED BY <2>1 DEF CasSafe
<1>5. Owned'
  <2>1. ASSUME NEW q \in Proc, q # p, HasHandle(q)' PROVE Named(q)'
    <3>1. HasHandle(q) /\ mine'[q] = mine[q] /\ cid'[q] = cid[q] /\ mine[q] # 0
      BY <1>o, <2>1 DEF HasHandle
    <3>2. Named(q)
      BY <1>0, <3>1 DEF Owned
    <3>3. slot'[mine[q]] = slot[mine[q]]
      <4>1. mine[q] \in SlotId /\ mine[q] # mine[p] /\ slot[mine[q]].state # "FREE"
        BY <1>0, <1>b, <1>c, <2>1, <3>1 DEF Distinct
      <4>2. pc[p] = "cas" => mine[q] # at[p]
        BY <1>0 DEF CasSafe
      <4>. QED BY <1>1, <4>1, <4>2 DEF Effect, Enters, Loads, Peeks, Reloads, Judges, Frees, Takes,
              Draws, Writes, Leaves, Dies, Looks, Moves, Others, Here
    <3>. QED BY <1>0, <3>1, <3>2, <3>3 DEF Named
  <2>2. ASSUME HasHandle(p)' PROVE Named(p)'
    <3>1. CASE pc[p] = "mine" /\ Writes(p, "state")
      <4>1. st[p] = p
        BY <1>b, <3>1
      <4>. QED BY <1>0, <3>1, <4>1 DEF Writes, Written, Named
    <3>2. CASE ~(pc[p] = "mine" /\ Writes(p, "state"))
      <4>1. mine'[p] = mine[p] /\ cid'[p] = cid[p] /\ HasHandle(p)
        BY <1>1, <1>b, <2>2, <3>2 DEF Effect, Enters, Loads, Peeks, Reloads, Judges, Frees, Takes,
              Draws, Leaves, Dies, Looks, Halts, Onward, HasHandle, Scan
      <4>2. Named(p)
        BY <1>0, <4>1 DEF Owned
      <4>3. slot'[mine[p]] = slot[mine[p]]
        <5>1. mine[p] \in SlotId /\ pc[p] \in {"open"} \union Scan /\ pc'[p] \in {"open"} \union Scan
          BY <1>b, <2>2, <4>1 DEF HasHandle
        <5>2. pc[p] = "cas" => mine[p] # at[p]
          BY <1>0 DEF CasSafe
        <5>. QED BY <1>1, <5>1, <5>2 DEF Effect, Enters, Loads, Peeks, Reloads, Judges, Frees, Takes,
              Draws, Leaves, Dies, Looks, Moves, Others, Scan
      <4>. QED BY <1>0, <4>1, <4>2, <4>3 DEF Named
    <3>. QED BY <3>1, <3>2
  <2>. QED BY <2>1, <2>2 DEF Owned
<1>. QED BY <1>3, <1>4, <1>5 DEF OwnerInv

------------------------------------------------------------------------------
\* Operations that overlap, but nobody leaves and no slot has the pid 0: a scan frees
\* no slot but one whose claim was refused an id, and whose takers will be.
LEMMA StableStep == ASSUME Base, Stable, StableInv, Next PROVE StableInv'
<1>0. /\ Stays /\ Used /\ Written /\ Owned /\ FirmKept /\ SeqKept /\ Sole /\ MineOwned /\ ScanLive
      /\ world' = world
  BY DEF StableInv, Next
<1>b. /\ \A q \in Proc : pc[q] # "new" => st[q] = q
      /\ \A q \in Proc : mine[q] # 0 => mine[q] \in SlotId
      /\ \A q \in Proc : mine[q] # 0 => pc[q] \in Claim \union {"open"} \union Scan
      /\ \A q \in Proc : pc[q] \in {"new", "out", "take", "full"} => mine[q] = 0
      /\ \A q \in Proc : pc[q] \in Claim \union {"open"} => mine[q] \in SlotId
      /\ at \in [Proc -> SlotId] /\ 0 \notin SlotId /\ claimSeq \in Nat /\ MaxClaim \in Nat
      /\ world.leavers = {} /\ \A q \in Proc : world.pids[q] # 0
  <2>1. \A q \in Proc : mine[q] # 0 => mine[q] \in SlotId
    BY DEF Base, TypeOK, SlotId
  <2>2. \A q \in Proc : world.pids[q] # 0
    BY WorldFacts DEF Base
  <2>. QED BY <2>1, <2>2, Facts DEF Base, ReadStart, HasSlot, NoSlot, Pc, Stable
<1>c. ASSUME NEW q \in Proc, mine[q] # 0, pc[q] # "seq"
      PROVE  /\ pc[q] \in Claim => slot[mine[q]].state = "CLAIMING"
             /\ pc[q] \notin Claim => HasHandle(q) /\ Named(q)
  BY <1>0, <1>b, <1>c DEF FirmKept, Firm, Owned, HasHandle
<1>1. PICK p \in Proc : Local(p) /\ Effect(p)
  BY Effects
<1>o. \A q \in Proc : q # p => /\ pc'[q] = pc[q] /\ mine'[q] = mine[q] /\ at'[q] = at[q]
                                /\ cid'[q] = cid[q] /\ st'[q] = st[q] /\ rpid'[q] = rpid[q]
  BY <1>1 DEF Local
<1>d. ~Leaves(p) /\ ~Dies(p)
  BY <1>b DEF Leaves, Dies
\* The scan finds nothing to free: a MINE slot has its owner, a claimed one a pid.
<1>j. Judges(p) => SameProcess(p)
  <2>1. ASSUME Judges(p) PROVE SameProcess(p)
    <3>1. PICK q \in Proc : HasHandle(q) /\ mine[q] = at[p] /\ rpid[p] = world.pids[q]
      BY <1>0, <2>1 DEF Judges, ScanLive
    <3>2. slot[at[p]].start = q /\ Alive(q)
      BY <1>0, <3>1 DEF Owned, Named, HasHandle, Alive, Scan
    <3>. QED BY <3>1, <3>2 DEF SameProcess, Here
  <2>. QED BY <2>1
<1>k. Peeks(p) => Here(p).pid # 0
  BY <1>0, <1>b DEF Used, Here
\* Slots that are written, and by whom.
<1>s. \/ slot' = slot
      \/ Frees(p) /\ Moves(at[p], "FREE") /\ Settled(at[p])
      \/ Takes(p) /\ Moves(at[p], "CLAIMING") /\ slot[at[p]].state = "FREE"
      \/ Draws(p) /\ Moves(mine[p], "FREE")
      \/ pc[p] = "pid" /\ Writes(p, "pid") /\ pc'[p] = "start"
      \/ pc[p] = "start" /\ Writes(p, "start") /\ pc'[p] = "cid"
      \/ pc[p] = "cid" /\ Writes(p, "claim") /\ pc'[p] = "mine"
      \/ pc[p] = "mine" /\ Writes(p, "state") /\ pc'[p] = "open"
  <2>1. pc[p] = "cas" => Settled(at[p])
    BY <1>0 DEF ScanLive
  <2>. QED BY <1>1, <1>d, <2>1 DEF Effect, Enters, Loads, Peeks, Reloads, Judges, Frees, Takes, Draws,
       Looks, Here
<1>m. \/ mine'[p] = mine[p]
      \/ mine[p] = 0 /\ Takes(p) /\ mine'[p] = at[p] /\ pc'[p] = "seq" /\ slot[at[p]].state = "FREE"
      \/ mine'[p] = 0 /\ Draws(p) /\ pc[p] = "seq" /\ pc'[p] = "out" /\ claimSeq' > MaxClaim
  BY <1>1, <1>b, <1>d DEF Effect, Enters, Loads, Peeks, Reloads, Judges, Frees, Takes, Draws, Writes,
     Looks, Here
<1>n. claimSeq' \in Nat /\ claimSeq' >= claimSeq
  BY <1>1, <1>b, <1>d DEF Effect, Enters, Loads, Peeks, Reloads, Judges, Frees, Takes, Draws, Writes,
     Looks
\* A slot held by a process that has its claim id is touched by that process only.
<1>f. ASSUME NEW q \in Proc, mine[q] # 0, pc[q] # "seq", q # p
      PROVE  slot'[mine[q]] = slot[mine[q]]
  <2>1. mine[q] \in SlotId /\ mine[q] # mine[p] /\ slot[mine[q]].state # "FREE"
    BY <1>0, <1>b, <1>c, <1>f DEF Sole, Named
  <2>2. ~(Settled(at[p]) /\ mine[q] = at[p])
    BY <1>f DEF Settled
  <2>. QED BY <1>s, <2>1, <2>2 DEF Moves, Others, Writes
<1>2. Stays'
  BY <1>0, <1>1, <1>o, <1>d DEF Stays, Effect, Enters, Loads, Peeks, Reloads, Judges, Frees, Takes,
     Draws, Halts, Onward
<1>3. Used'
  <2>1. ASSUME NEW s \in SlotId PROVE slot'[s].pid # 0
    BY <1>0, <1>b, <1>s DEF Used, Moves, Others, Writes
  <2>. QED BY <2>1 DEF Used
<1>4. Written'
  <2> DEFINE W(q) == /\ pc[q] \in {"start", "cid", "mine"} => slot[mine[q]].pid = world.pids[q]
                     /\ pc[q] \in {"cid", "mine"} => slot[mine[q]].start = st[q]
                     /\ pc[q] = "mine" => slot[mine[q]].claim = cid[q]
  <2>1. ASSUME NEW q \in Proc, q # p PROVE W(q)'
    <3>1. pc[q] \in {"start", "cid", "mine"} => slot'[mine[q]] = slot[mine[q]]
      BY <1>b, <1>f, <2>1 DEF Claim
    <3>. QED BY <1>0, <1>o, <2>1, <3>1 DEF Written
  <2>2. W(p)'
    <3>2. pc'[p] = "start" => Writes(p, "pid")
      BY <1>1, <1>d DEF Effect, Enters, Loads, Peeks, Reloads, Judges, Frees, Takes, Draws, Halts, Onward
    <3>3. pc'[p] = "cid" => pc[p] = "start" /\ Writes(p, "start")
      BY <1>1, <1>d DEF Effect, Enters, Loads, Peeks, Reloads, Judges, Frees, Takes, Draws, Halts, Onward
    <3>4. pc'[p] = "mine" => pc[p] = "cid" /\ Writes(p, "claim")
      BY <1>1, <1>d DEF Effect, Enters, Loads, Peeks, Reloads, Judges, Frees, Takes, Draws, Halts, Onward
    <3>. QED BY <1>0, <3>2, <3>3, <3>4 DEF Writes, Written
  <2>. QED BY <2>1, <2>2 DEF Written
\* A handle stays one, and so does its slot.
<1>h. ASSUME NEW q \in Proc, HasHandle(q)
      PROVE  HasHandle(q)' /\ mine'[q] = mine[q] /\ Named(q)'
  <2>1. CASE q # p
    <3>1. slot'[mine[q]] = slot[mine[q]]
      BY <1>f, <1>h, <2>1 DEF HasHandle, Scan
    <3>. QED BY <1>0, <1>h, <1>o, <2>1, <3>1 DEF HasHandle, Owned, Named
  <2>2. CASE q = p
    <3>1. pc[p] \in {"open"} \union Scan /\ mine[p] # 0
      BY <1>h, <2>2 DEF HasHandle
    <3>2. job[p] = "round" \/ pc[p] = "open"
      BY <3>1, Facts DEF Base, Rounds
    <3>3. mine'[p] = mine[p] /\ cid'[p] = cid[p] /\ pc'[p] \in {"open"} \union Scan
      BY <1>1, <1>d, <3>1, <3>2 DEF Effect, Enters, Loads, Peeks, Reloads, Judges, Frees, Takes,
         Draws, Looks, Halts, Onward, Scan
    <3>4. mine[p] \in SlotId /\ ~(Settled(at[p]) /\ mine[p] = at[p])
      BY <1>b, <3>1 DEF Settled, Scan
    <3>5. slot'[mine[p]] = slot[mine[p]]
      BY <1>s, <3>1, <3>4 DEF Moves, Others, Takes, Draws, Scan
    <3>. QED BY <1>0, <1>h, <2>2, <3>3, <3>5 DEF HasHandle, Owned, Named
  <2>. QED BY <2>1, <2>2
<1>5. Owned'
  <2>1. ASSUME NEW q \in Proc, HasHandle(q)', ~HasHandle(q) PROVE Named(q)'
    <3>1. q = p
      BY <1>o, <2>1 DEF HasHandle
    <3>2. pc[p] = "mine" /\ Writes(p, "state")
      BY <1>1, <1>b, <1>d, <2>1, <3>1 DEF Effect, Enters, Loads, Peeks, Reloads, Judges, Frees, Takes,
         Draws, Looks, Halts, Onward, HasHandle, Scan
    <3>3. st[p] = p
      BY <1>b, <3>2
    <3>. QED BY <1>0, <3>1, <3>2, <3>3 DEF Writes, Written, Named
  <2>. QED BY <1>h, <2>1 DEF Owned
<1>6. FirmKept'
  <2>1. ASSUME NEW q \in Proc, Firm(q)', pc'[q] \in Claim PROVE slot'[mine'[q]].state = "CLAIMING"
    <3>1. CASE q # p
      <4>1. mine[q] # 0 /\ pc[q] # "seq" /\ pc[q] \in Claim /\ mine'[q] = mine[q]
        BY <1>o, <2>1, <3>1 DEF Firm
      <4>. QED BY <1>c, <1>f, <3>1, <4>1
    <3>2. CASE q = p
      <4>1. pc'[p] \in {"pid", "start", "cid", "mine"}
        BY <2>1, <3>2 DEF Firm, Claim
      <4>2. CASE pc'[p] = "pid"
        <5>1. Draws(p) /\ slot' = slot /\ mine' = mine /\ claimSeq + 1 <= MaxClaim /\ pc[p] = "seq"
          BY <1>1, <1>d, <4>2 DEF Effect, Enters, Loads, Peeks, Reloads, Judges, Frees, Takes, Draws,
             Halts, Onward
        <5>. QED BY <1>0, <1>b, <3>2, <5>1 DEF SeqKept
      <4>3. CASE pc'[p] \in {"start", "cid", "mine"}
        <5>1. /\ Writes(p, "pid") \/ Writes(p, "start") \/ Writes(p, "claim")
              /\ pc[p] \in {"pid", "start", "cid"} /\ mine[p] # 0
          BY <1>1, <1>b, <1>d, <4>3 DEF Effect, Enters, Loads, Peeks, Reloads, Judges, Frees, Takes, Draws,
             Halts, Onward, Claim
        <5>2. slot[mine[p]].state = "CLAIMING"
          BY <1>c, <5>1 DEF Claim
        <5>. QED BY <3>2, <5>1, <5>2 DEF Writes
      <4>. QED BY <4>1, <4>2, <4>3
    <3>. QED BY <3>1, <3>2
  <2>. QED BY <2>1 DEF FirmKept
<1>7. SeqKept'
  <2>1. ASSUME NEW q \in Proc, pc'[q] = "seq", ~(claimSeq' > MaxClaim)
        PROVE  slot'[mine'[q]].state = "CLAIMING"
    <3>0. ~(claimSeq > MaxClaim)
      BY <1>b, <1>n, <2>1
    <3>1. CASE q # p
      <4>1. pc[q] = "seq" /\ mine'[q] = mine[q] /\ mine[q] # 0 /\ slot[mine[q]].state = "CLAIMING"
        BY <1>0, <1>b, <1>o, <2>1, <3>0, <3>1 DEF SeqKept, Claim
      <4>2. mine[p] # mine[q] /\ ~Settled(at[p])
        BY <1>0, <3>0, <3>1, <4>1 DEF Sole, Settled
      <4>3. mine[q] \in SlotId
        BY <1>b, <4>1
      <4>. QED BY <1>s, <4>1, <4>2, <4>3 DEF Moves, Others, Writes
    <3>2. CASE q = p
      <4>1. Takes(p) /\ Moves(at[p], "CLAIMING") /\ mine'[p] = at[p]
        BY <1>1, <1>d, <2>1, <3>2 DEF Effect, Enters, Loads, Peeks, Reloads, Judges, Frees, Takes, Draws,
           Halts, Onward
      <4>. QED BY <3>2, <4>1 DEF Moves
    <3>. QED BY <3>1, <3>2
  <2>. QED BY <2>1 DEF SeqKept
<1>8. Sole'
  <2>1. ASSUME NEW q \in Proc, NEW r \in Proc, q # r, mine'[q] = mine'[r], mine'[q] # 0, r # p
        PROVE  pc'[q] = "seq" /\ pc'[r] = "seq" /\ claimSeq' > MaxClaim
    <3>0. mine'[r] = mine[r] /\ pc'[r] = pc[r] /\ mine[r] # 0
      BY <1>o, <2>1
    <3>1. CASE mine'[q] = mine[q]
      <4>1. pc[q] = "seq" /\ pc[r] = "seq" /\ claimSeq > MaxClaim
        BY <1>0, <2>1, <3>0, <3>1 DEF Sole
      <4>2. claimSeq' > MaxClaim
        BY <1>b, <1>n, <4>1
      <4>3. q = p => Draws(p)
        BY <1>1, <1>d, <4>1 DEF Effect, Enters, Loads, Peeks, Reloads, Judges, Frees, Takes, Leaves, Dies
      <4>4. q # p
        BY <1>b, <2>1, <3>1, <4>1, <4>3 DEF Draws
      <4>. QED BY <1>o, <3>0, <4>1, <4>2, <4>4
    <3>2. CASE mine'[q] # mine[q]
      <4>1. q = p /\ Takes(p) /\ mine'[p] = at[p] /\ pc'[p] = "seq" /\ slot[at[p]].state = "FREE"
        BY <1>m, <1>o, <2>1, <3>2
      <4>2. slot[mine[r]].state = "FREE"
        BY <2>1, <3>0, <4>1
      <4>3. pc[r] = "seq"
        BY <1>c, <3>0, <4>2 DEF Named
      <4>4. claimSeq > MaxClaim
        BY <1>0, <4>2, <4>3 DEF SeqKept
      <4>. QED BY <1>b, <1>n, <3>0, <4>1, <4>3, <4>4
    <3>. QED BY <3>1, <3>2
  <2>. QED BY <2>1 DEF Sole
<1>9. MineOwned'
  <2>1. ASSUME NEW s \in SlotId, slot'[s].state = "MINE" PROVE \E q \in Proc : HasHandle(q)' /\ mine'[q] = s
    <3>1. CASE slot[s].state = "MINE"
      <4>1. PICK q \in Proc : HasHandle(q) /\ mine[q] = s
        BY <1>0, <3>1 DEF MineOwned
      <4>. QED BY <1>h, <4>1
    <3>2. CASE slot[s].state # "MINE"
      <4>1. pc[p] = "mine" /\ Writes(p, "state") /\ pc'[p] = "open" /\ s = mine[p]
        BY <1>b, <1>s, <2>1, <3>2 DEF Moves, Others, Writes
      <4>2. HasHandle(p)' /\ mine'[p] = s
        BY <1>b, <4>1 DEF HasHandle, Writes
      <4>. QED BY <4>2
    <3>. QED BY <3>1, <3>2
  <2>. QED BY <2>1 DEF MineOwned
\* A settled slot stays so; a slot somebody gives back is settled.
<1>t. ASSUME NEW s \in SlotId, Settled(s) PROVE Settled(s)'
  <2>1. claimSeq' > MaxClaim
    BY <1>b, <1>n, <1>t DEF Settled
  <2>2. ASSUME NEW q \in Proc, mine'[q] = s PROVE pc'[q] = "seq"
    <3>1. CASE q # p
      BY <1>o, <1>t, <2>2, <3>1 DEF Settled
    <3>2. CASE q = p
      <4>0. s # 0
        BY <1>b, <1>t
      <4>1. CASE mine'[p] = mine[p]
        <5>1. pc[p] = "seq" /\ claimSeq > MaxClaim
          BY <1>t, <2>2, <3>2, <4>1 DEF Settled
        <5>2. Draws(p)
          BY <1>1, <1>d, <5>1 DEF Effect, Enters, Loads, Peeks, Reloads, Judges, Frees, Takes
        <5>. QED BY <1>b, <2>2, <3>2, <4>0, <5>1, <5>2 DEF Draws
      <4>2. CASE mine'[p] # mine[p]
        BY <1>m, <2>2, <3>2, <4>0, <4>2
      <4>. QED BY <4>1, <4>2
    <3>. QED BY <3>1, <3>2
  <2>. QED BY <2>1, <2>2 DEF Settled
<1>u. ASSUME NEW s \in SlotId, slot[s].state # "FREE" \/ Settled(s)
      PROVE  slot'[s].state # "FREE" \/ Settled(s)'
  <2>1. CASE Settled(s)
    BY <1>t, <2>1
  <2>2. CASE slot[s].state # "FREE" /\ slot'[s].state = "FREE"
    <3>1. \/ s = at[p] /\ Settled(at[p])
          \/ s = mine[p] /\ Draws(p) /\ Moves(mine[p], "FREE")
      BY <1>b, <1>s, <2>2 DEF Moves, Others, Writes
    <3>2. CASE s = mine[p] /\ Draws(p) /\ Moves(mine[p], "FREE")
      <4>1. mine'[p] = 0 /\ claimSeq' > MaxClaim /\ mine[p] # 0
        BY <1>b, <2>2, <3>2 DEF Draws
      <4>2. \A q \in Proc : q # p /\ mine[q] = s => pc[q] = "seq"
        BY <1>0, <3>2, <4>1 DEF Sole
      <4>. QED BY <1>o, <3>2, <4>1, <4>2 DEF Settled
    <3>. QED BY <1>t, <3>1, <3>2
  <2>. QED BY <1>u, <2>1, <2>2
<1>10. ScanLive'
  <2> DEFINE S(q) ==
        /\ pc[q] \in {"peek", "reload"} => Here(q).state # "FREE" \/ Settled(at[q])
        /\ pc[q] = "judge" => \E r \in Proc : HasHandle(r) /\ mine[r] = at[q] /\ rpid[q] = world.pids[r]
        /\ pc[q] = "cas" => Settled(at[q])
  <2>1. ASSUME NEW q \in Proc, q # p PROVE S(q)'
    <3>0. at[q] \in SlotId /\ pc'[q] = pc[q] /\ at'[q] = at[q] /\ rpid'[q] = rpid[q]
      BY <1>b, <1>o, <2>1
    <3>1. pc[q] \in {"peek", "reload"} => slot'[at[q]].state # "FREE" \/ Settled(at[q])'
      BY <1>0, <1>u, <3>0 DEF ScanLive, Here
    <3>2. pc[q] = "judge" => \E r \in Proc : HasHandle(r)' /\ mine'[r] = at[q] /\ rpid[q] = world.pids[r]
      BY <1>0, <1>h DEF ScanLive
    <3>3. pc[q] = "cas" => Settled(at[q])'
      BY <1>0, <1>t, <3>0 DEF ScanLive
    <3>. QED BY <1>0, <3>0, <3>1, <3>2, <3>3 DEF Here, Settled
  <2>2. S(p)'
    <3>0. at[p] \in SlotId
      BY <1>b
    <3>1. CASE Loads(p)
      BY <3>1 DEF Loads, Looks, Halts, Onward, Here
    <3>2. CASE Peeks(p)
      <4>1. pc'[p] = "reload" /\ at'[p] = at[p] /\ slot' = slot
        BY <1>k, <3>2 DEF Peeks, Looks, Halts
      <4>2. slot'[at[p]].state # "FREE" \/ Settled(at[p])'
        BY <1>0, <1>u, <3>0, <3>2, <4>1 DEF ScanLive, Here, Peeks
      <4>. QED BY <4>1, <4>2 DEF Here, Settled
    <3>3. CASE Reloads(p)
      <4>1. CASE Onward(p)
        BY <4>1 DEF Onward
      <4>2. CASE Here(p).state = "FREE" /\ Halts(p, "cas")
        <5>1. Settled(at[p])'
          BY <1>0, <1>t, <3>0, <3>3, <4>2 DEF ScanLive, Reloads, Halts
        <5>. QED BY <4>2, <5>1 DEF Halts, Settled
      <4>3. CASE Here(p).state = "MINE" /\ Halts(p, "judge")
        <5>1. PICK r \in Proc : HasHandle(r) /\ mine[r] = at[p]
          BY <1>0, <3>0, <4>3 DEF MineOwned, Here
        <5>2. rpid'[p] = world.pids[r]
          BY <1>0, <3>3, <5>1 DEF Reloads, Owned, Named, Here
        <5>. QED BY <1>0, <1>h, <4>3, <5>1, <5>2 DEF Halts
      <4>. QED BY <3>3, <4>1, <4>2, <4>3 DEF Reloads
    <3>4. CASE Judges(p)
      BY <1>j, <3>4 DEF Judges, Onward
    <3>5. pc'[p] \in {"peek", "reload", "judge", "cas"} => Loads(p) \/ Peeks(p) \/ Reloads(p) \/ Judges(p)
      BY <1>1, <1>d DEF Effect, Enters, Frees, Takes, Draws, Onward
    <3>. QED BY <3>1, <3>2, <3>3, <3>4, <3>5
  <2>. QED BY <2>1, <2>2 DEF ScanLive
<1>. QED BY <1>2, <1>3, <1>4, <1>5, <1>6, <1>7, <1>8, <1>9, <1>10 DEF StableInv

------------------------------------------------------------------------------
\* The invariant holds at first,
LEMMA InitInv == Init => IInv
<1> SUFFICES ASSUME Init PROVE IInv
  OBVIOUS
<1>0. world \in Worlds /\ SlotN \in Nat \ {0} /\ Unknown \notin Proc
  BY RegistryAssumption DEF Init
<1>1. Base
  <2>1. TypeOK
    BY <1>0, WorldFacts DEF Init, TypeOK, SlotId, Pc
  <2>. QED BY <1>0, <2>1 DEF Init, Base, HasSlot, Rounds, Opening, NoSlot, GoneDead, OwnStart, ReadStart,
       Scan, Claim
<1>2. SerialInv /\ ReapInv /\ OwnerInv
  BY DEF Init, SerialInv, ReapInv, OwnerInv, OneBusy, ClaimKept, Written, ScanSees, Owned, Distinct,
     CasSafe, HasHandle, Busy, Scan, Claim
<1>3. Stable => StableInv
  BY DEF Init, Stable, StableInv, Stays, Used, Written, Owned, FirmKept, SeqKept, Sole, MineOwned,
     ScanLive, HasHandle, Claim
<1>. QED BY <1>1, <1>2, <1>3 DEF IInv

\* a step that changes nothing keeps it,
LEMMA StutterInv == ASSUME IInv, UNCHANGED vars PROVE IInv'
<1>1. Base'
  BY DEF vars, IInv, Base, TypeOK, HasSlot, Rounds, Opening, NoSlot, GoneDead, OwnStart, ReadStart, Readable, Dead
<1>2. world.serial => SerialInv'
  BY DEF vars, IInv, SerialInv, OneBusy, ClaimKept, Written, ScanSees, Busy, Here
<1>3. world.serial /\ Sighted => ReapInv'
  BY DEF vars, IInv, ReapInv, Reaped
<1>4. world.serial /\ Readable => OwnerInv'
  BY DEF vars, IInv, OwnerInv, Owned, Distinct, CasSafe, HasHandle, Named
<1>5. Stable => StableInv'
  BY DEF vars, IInv, StableInv, Stays, Used, Written, Owned, FirmKept, Firm, SeqKept, Sole, MineOwned,
     ScanLive, Settled, HasHandle, Named, Here
<1>6. world' = world /\ (Stable' <=> Stable) /\ (Readable' <=> Readable) /\ (Sighted' <=> Sighted)
  BY DEF vars, Stable, Readable, Sighted
<1>. QED BY <1>1, <1>2, <1>3, <1>4, <1>5, <1>6 DEF IInv

\* and so does every step.
LEMMA IndInv == ASSUME IInv, [Next]_vars PROVE IInv'
<1>1. ASSUME Next PROVE IInv'
  <2>0. world' = world /\ (Stable' <=> Stable) /\ (Readable' <=> Readable) /\ (Sighted' <=> Sighted)
    BY <1>1 DEF Next, Stable, Readable, Sighted
  <2>1. Base'
    BY <1>1, BaseStep DEF IInv
  <2>2. world.serial => SerialInv'
    BY <1>1, SerialStep DEF IInv
  <2>3. world.serial /\ Sighted => ReapInv'
    BY <1>1, ReapStep DEF IInv
  <2>4. world.serial /\ Readable => OwnerInv'
    BY <1>1, OwnerStep DEF IInv
  <2>5. Stable => StableInv'
    BY <1>1, StableStep DEF IInv
  <2>. QED BY <2>0, <2>1, <2>2, <2>3, <2>4, <2>5 DEF IInv
<1>. QED BY <1>1, StutterInv

\* The inductive invariant holds in every environment.
THEOREM Invariance == Spec => []IInv
BY InitInv, IndInv, PTL DEF Spec

\* The slots and the locals of p2_reg_claim and p2_round keep their types, in any
\* environment; in particular no slot beyond the array is written.
THEOREM TypeCorrect == Spec => []TypeOK
<1>1. IInv => TypeOK
  BY DEF IInv, Base
<1>. QED BY <1>1, Invariance, PTL

\* A live handle's slot stays its own, and so does the claim id that stands for it in
\* the election and in the ring: with operations one at a time and deaths at any store
\* and reused pids, or with any overlap when nobody leaves a store used before.
THEOREM OwnerSafety == Spec => []((world.serial /\ Readable) \/ Stable => OwnerKept)
<1>1. IInv => ((world.serial /\ Readable) \/ Stable => OwnerKept)
  BY DEF IInv, OwnerInv, StableInv, Owned, Named, OwnerKept
<1>. QED BY <1>1, Invariance, PTL

\* CLAIMING protects a live claimer where operations do not overlap; where they do,
\* as long as no claim has been refused an id.
THEOREM ClaimSafety ==
  Spec => [](world.serial \/ (Stable /\ claimSeq <= MaxClaim) => ClaimKept)
<1>1. ASSUME IInv, world.serial \/ (Stable /\ claimSeq <= MaxClaim) PROVE ClaimKept
  <2>1. CASE world.serial
    BY <1>1, <2>1 DEF IInv, SerialInv
  <2>2. CASE Stable /\ claimSeq <= MaxClaim
    <3>1. FirmKept /\ SeqKept /\ HasSlot /\ claimSeq \in Nat /\ MaxClaim \in Nat /\ 0 \notin SlotId
      BY <1>1, <2>2, Facts DEF IInv, Base, StableInv
    <3>2. ~(claimSeq > MaxClaim)
      BY <2>2, <3>1
    <3>. QED BY <3>1, <3>2 DEF FirmKept, SeqKept, HasSlot, Firm, ClaimKept
  <2>. QED BY <1>1, <2>1, <2>2
<1>2. IInv => (world.serial \/ (Stable /\ claimSeq <= MaxClaim) => ClaimKept)
  BY <1>1
<1>. QED BY <1>2, Invariance, PTL

\* An open refused for lack of slots has freed every published slot whose owner was
\* dead before it began: one operation at a time, /proc readable.
THEOREM ReapSafety == Spec => [](world.serial /\ Sighted => RefusedReaps)
<1>1. ASSUME IInv, world.serial, Sighted PROVE RefusedReaps
  <2>1. ReapInv /\ Opening
    BY <1>1 DEF IInv, Base
  <2>. QED BY <2>1 DEF ReapInv, Reaped, Opening, RefusedReaps
<1>2. IInv => (world.serial /\ Sighted => RefusedReaps)
  BY <1>1
<1>. QED BY <1>2, Invariance, PTL

=============================================================================
