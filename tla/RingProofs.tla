----------------------------- MODULE RingProofs -----------------------------
(***************************************************************************)
(* The garbage ring, for any number of handles, keys and boxes and any     *)
(* capacity: RingWindow and DrainInOrder hold in every behaviour of        *)
(* Reclaim, and so does LeakBound.                                         *)
(*                                                                         *)
(* The argument.  Only the leader, of whom there is one, moves the head,   *)
(* and its position is the head or has just become the entry before it.    *)
(* It finds, or makes, the entry EMPTY before it passes, and nobody        *)
(* reserves that entry meanwhile because less than a capacity lies between *)
(* head and tail.  A box leaves one place only for another that Lost looks *)
(* at, except that a crash drops the writer's and the leader's.            *)
(***************************************************************************)
EXTENDS ReclaimProofs, FiniteSetTheorems

\* The slot k belongs to a position between head and tail.
InWindow(k) == \E p \in head .. tail - 1 : p % GarbCap = k

Window      == head <= tail /\ tail <= head + GarbCap
Outside     == \A k \in Slots : ring[k].st # "EMPTY" =>
                 InWindow(k) \/ (ring[k].st = "RESERVED" /\ k = tail % GarbCap)

\* A reservation is made at the tail, and once published lies in the window.
AtTail      == wr.pc = "resv" => wr.e = tail % GarbCap /\ tail < head + GarbCap
Published   == wr.pc \in {"held", "new", "swapped", "stamped"} /\ wr.e \in Slots =>
                 InWindow(wr.e)

\* The leader's position, and the entry there between emptying and passing it.
AtHead      == \A h \in Handle : pc[h] \in {"drain", "audit", "mark", "emptied"} => cur[h] = head
BehindHead  == \A h \in Handle : pc[h] \in {"advanced", "freed"} => cur[h] + 1 = head
BeforeTail  == \A h \in Handle : pc[h] \in {"audit", "mark", "emptied"} => cur[h] < tail
Passed      == \A h \in Handle : pc[h] \in {"audit", "emptied"} =>
                 ring[cur[h] % GarbCap].st = "EMPTY"

WindowInv == Window /\ Outside /\ AtTail /\ Published
HeadInv   == AtHead /\ BehindHead /\ BeforeTail /\ Passed
RingInv   == WindowInv /\ HeadInv

\* Only a leader between two steps of a drain has a box of its own.
Picked    == \A h \in Handle : pc[h] \notin {"mark", "emptied", "advanced"} => pick[h] = None
LeakInv   == Picked /\ IsFiniteSet(Lost) /\ LeakBound

\* Two positions less than a capacity apart have different slots.
LEMMA ModDistinct ==
  ASSUME NEW n \in Nat \ {0}, NEW i \in Nat, NEW j \in Nat, i < j, j < i + n
  PROVE  i % n # j % n
<1>1. /\ i = n * (i \div n) + (i % n) /\ j = n * (j \div n) + (j % n)
      /\ i \div n \in Int /\ j \div n \in Int
  BY SMT
<1>2. SUFFICES ASSUME i % n = j % n PROVE FALSE
  OBVIOUS
<1>. DEFINE d == (j \div n) - (i \div n)
<1>3. j - i = n * d /\ d \in Int
  BY <1>1, <1>2
<1>4. d <= 0 => n * d <= 0
  BY <1>3
<1>5. d >= 1 => n * d >= n
  BY <1>3
<1>. QED BY <1>3, <1>4, <1>5

\* Steps that touch neither the ring nor the position of a draining leader.
Quiet ==
  /\ UNCHANGED ringq
  /\ wr' = wr \/ wr'.pc \in {"idle", "count"}
  /\ \A h \in Handle : (pc'[h] = pc[h] /\ cur'[h] = cur[h]) \/ pc'[h] \notin Draining

\* Steps of the writer and of a draining leader.
Writing ==
  \/ \E h \in Handle, n \in Node, op \in {"set", "del"} : garb_reserve(h, n, op)
  \/ \E h \in Handle, n \in Node : shm_set_new(h, n)
  \/ garb_reserve_publish \/ kv_sbo_alloc \/ shm_set_fail \/ art_val_swap
  \/ garb_commit_stamp \/ garb_commit

Leads(h) ==
  \/ p2_wait_acks_done(h) \/ p2_drain_empty(h) \/ p2_drain_dead(h) \/ p2_drain_audit(h)
  \/ p2_drain_mark(h) \/ p2_drain_clear(h) \/ p2_drain_advance(h)
  \/ kv_sbo_free(h) \/ p2_drain_count(h)

\* Every step is of one of the three kinds.
LEMMA Kinds ==
  ASSUME IInv, Next
  PROVE  Quiet \/ Writing \/ \E h \in Handle : Leads(h)
<1>0. pc \in [Handle -> RoundPc] /\ cur \in [Handle -> Nat]
  BY DEF IInv, TypeOK
<1> USE <1>0 DEF Quiet, Draining, ringq, lead
<1>1. ASSUME NEW h \in Handle, kvspaceShmOpen(h) PROVE Quiet
  BY <1>1 DEF kvspaceShmOpen
<1>2. ASSUME NEW h \in Handle, kvspaceShmClose(h) PROVE Quiet
  BY <1>2 DEF kvspaceShmClose, BeginRound
<1>3. ASSUME NEW h \in Handle, p2_reg_release(h) PROVE Quiet
  BY <1>3 DEF p2_reg_release
<1>4. ASSUME NEW h \in Handle, Crash(h) PROVE Quiet
  <2>1. wr' = wr \/ wr'.pc = "idle"
    BY <1>4 DEF Crash, NoWrite
  <2>. QED BY <1>4, <2>1 DEF Crash, EndRound
<1>5. ASSUME NEW h \in Handle, NEW n \in Node, kvspaceShmViewFromRef(h, n) PROVE Quiet
  BY <1>5 DEF kvspaceShmViewFromRef
<1>6. ASSUME NEW h \in Handle, kvspaceShmViewAck(h) PROVE Quiet
  BY <1>6 DEF kvspaceShmViewAck
<1>7. ASSUME NEW h \in Handle, p2_ack_slot(h) PROVE Quiet
  BY <1>7 DEF p2_ack_slot
<1>8. ASSUME NEW h \in Handle, NEW on \in {0, 1}, kvspaceShmViewQuiesce(h, on) PROVE Quiet
  BY <1>8 DEF kvspaceShmViewQuiesce
<1>9. ASSUME NEW h \in Handle, kvspaceShmViewSweep(h) PROVE Quiet
  BY <1>9 DEF kvspaceShmViewSweep, BeginRound
<1>10. ASSUME NEW h \in Handle, p2_maint(h) PROVE Quiet
  BY <1>10 DEF p2_maint, BeginRound
<1>11. ASSUME NEW h \in Handle, p2_elect(h) PROVE Quiet
  BY <1>11 DEF p2_elect, Goto
<1>12. ASSUME NEW h \in Handle, p2_elect_busy(h) PROVE Quiet
  BY <1>12 DEF p2_elect_busy, EndRound
<1>13. ASSUME NEW h \in Handle, p2_release_busy(h) PROVE Quiet
  BY <1>13 DEF p2_release_busy, EndRound
<1>14. ASSUME NEW h \in Handle, p2_round_pending(h) PROVE Quiet
  BY <1>14 DEF p2_round_pending, Goto
<1>15. ASSUME NEW h \in Handle, p2_round_bump(h) PROVE Quiet
  BY <1>15 DEF p2_round_bump, Goto
<1>16. ASSUME NEW h \in Handle, NEW g \in Handle, p2_wait_acks(h, g) PROVE Quiet
  BY <1>16 DEF p2_wait_acks
<1>17. ASSUME NEW h \in Handle, p2_drain_out(h) PROVE Quiet
  BY <1>17 DEF p2_drain_out, Goto
<1>18. ASSUME NEW h \in Handle, p2_round_reap(h) PROVE Quiet
  BY <1>18 DEF p2_round_reap, Goto
<1>19. ASSUME garb_commit_count PROVE Quiet
  <2>1. wr'.pc = "idle"
    BY <1>19 DEF garb_commit_count, NoWrite
  <2>. QED BY <1>19, <2>1 DEF garb_commit_count
<1> HIDE DEF Quiet, Draining, ringq, lead
<1>. QED BY <1>1, <1>2, <1>3, <1>4, <1>5, <1>6, <1>7, <1>8, <1>9, <1>10, <1>11, <1>12,
    <1>13, <1>14, <1>15, <1>16, <1>17, <1>18, <1>19
    DEF Next, Writer, Runtime, Round, Drain, Writing, Leads

\* What the writer does to its reservation and to the ring.
Reserves == /\ UNCHANGED <<head, tail>>
            /\ tail < head + GarbCap
            /\ wr'.pc = "resv" /\ wr'.e = tail % GarbCap
            /\ \A k \in Slots : ring'[k].st = IF k = tail % GarbCap THEN "RESERVED" ELSE ring[k].st
Publishes == /\ UNCHANGED <<head, ring>> /\ tail' = tail + 1
             /\ wr.pc = "resv" /\ wr'.pc = "held" /\ wr'.e = wr.e
Works    == /\ UNCHANGED <<head, tail>>
            /\ wr'.e \in Slots => wr'.e = wr.e /\ wr.pc \in {"held", "new", "swapped", "stamped"}
            /\ wr'.pc # "resv"
            /\ \A k \in Slots : \/ ring'[k].st = ring[k].st \/ ring'[k].st = "EMPTY"
                                \/ k = wr.e /\ wr.pc = "stamped" /\ ring'[k].st = "COMMITTED"

\* A step of the writer reserves, publishes or leaves the ring alone.
LEMMA WritingDoes ==
  ASSUME IInv, Writing
  PROVE  UNCHANGED <<pc, cur>> /\ (Reserves \/ Publishes \/ Works)
<1>0. /\ ring \in [Slots -> EntryType] /\ wr \in WriteType /\ head \in Nat /\ tail \in Nat
      /\ GarbCap \in Nat \ {0}
  BY ConstantsAssumption DEF IInv, TypeOK
<1>1. GarbCap \notin Slots
  BY <1>0 DEF Slots
<1>2. ASSUME NEW h \in Handle, NEW n \in Node, NEW op \in {"set", "del"}, garb_reserve(h, n, op)
      PROVE  UNCHANGED <<pc, cur>> /\ Reserves
  <2>1. UNCHANGED <<pc, cur, head, tail>> /\ wr'.pc = "resv" /\ wr'.e = tail % GarbCap
    BY <1>2 DEF garb_reserve, lead
  <2>2. tail < head + GarbCap
    BY <1>0, <1>2 DEF garb_reserve
  <2>3. \A k \in Slots : ring'[k].st = IF k = tail % GarbCap THEN "RESERVED" ELSE ring[k].st
    BY <1>0, <1>2 DEF garb_reserve, EmptyEntry
  <2>. QED BY <2>1, <2>2, <2>3 DEF Reserves
<1>3. ASSUME garb_reserve_publish PROVE UNCHANGED <<pc, cur>> /\ Publishes
  BY <1>0, <1>3 DEF garb_reserve_publish, Publishes, lead, WriteType
<1>4. ASSUME NEW h \in Handle, NEW n \in Node, shm_set_new(h, n)
      PROVE  UNCHANGED <<pc, cur>> /\ Works
  BY <1>1, <1>4 DEF shm_set_new, Works, lead, ringq
<1>5. ASSUME kv_sbo_alloc PROVE UNCHANGED <<pc, cur>> /\ Works
  BY <1>0, <1>5 DEF kv_sbo_alloc, Works, lead, ringq, WriteType
<1>6. ASSUME shm_set_fail PROVE UNCHANGED <<pc, cur>> /\ Works
  <2>1. UNCHANGED <<pc, cur, head, tail>> /\ wr'.e \notin Slots /\ wr'.pc = "idle"
    BY <1>1, <1>6 DEF shm_set_fail, lead, NoWrite
  <2>2. \A k \in Slots : ring'[k].st = ring[k].st \/ ring'[k].st = "EMPTY"
    BY <1>0, <1>6 DEF shm_set_fail, garb_cancel, EmptyEntry
  <2>. QED BY <2>1, <2>2 DEF Works
<1>7. ASSUME art_val_swap PROVE UNCHANGED <<pc, cur>> /\ Works
  <2>1. UNCHANGED <<pc, cur, head, tail, ring>> /\ wr.pc \in {"held", "new"}
    BY <1>7 DEF art_val_swap, lead, ringq
  <2>2. wr'.e \in Slots => wr'.e = wr.e
    BY <1>0, <1>1, <1>7 DEF art_val_swap, NoWrite, WriteType
  <2>3. wr'.pc # "resv"
    BY <1>0, <1>7 DEF art_val_swap, NoWrite, WriteType
  <2>. QED BY <2>1, <2>2, <2>3 DEF Works
<1>8. ASSUME garb_commit_stamp PROVE UNCHANGED <<pc, cur>> /\ Works
  <2>1. /\ UNCHANGED <<pc, cur, head, tail>> /\ wr.pc = "swapped"
        /\ wr'.pc = "stamped" /\ wr'.e = wr.e
    BY <1>0, <1>8 DEF garb_commit_stamp, lead, WriteType
  <2>2. \A k \in Slots : ring'[k].st = ring[k].st
    BY <1>0, <1>8 DEF garb_commit_stamp, EntryType
  <2>. QED BY <2>1, <2>2 DEF Works
<1>9. ASSUME garb_commit PROVE UNCHANGED <<pc, cur>> /\ Works
  <2>1. /\ UNCHANGED <<pc, cur, head, tail>> /\ wr.pc = "stamped"
        /\ wr'.pc = "count" /\ wr'.e = wr.e
    BY <1>0, <1>9 DEF garb_commit, lead, WriteType
  <2>2. \A k \in Slots : ring'[k].st = IF k = wr.e THEN "COMMITTED" ELSE ring[k].st
    BY <1>0, <1>9 DEF garb_commit, EntryType
  <2>. QED BY <2>1, <2>2 DEF Works
<1>. QED BY <1>2, <1>3, <1>4, <1>5, <1>6, <1>7, <1>8, <1>9 DEF Writing

\* What the leader does: it arrives at the head, empties the entry there, passes
\* an EMPTY one, and frees what it took out.
At(h)      == cur[h] % GarbCap
Stays(h)   == UNCHANGED <<head, ring>> /\ cur'[h] = cur[h]
Arrives(h) == UNCHANGED <<head, ring>> /\ pc'[h] = "drain" /\ cur'[h] = head
Passes(h)  == /\ pc[h] \in {"drain", "audit", "emptied"} /\ cur[h] < tail
              /\ UNCHANGED ring /\ ring[At(h)].st = "EMPTY"
              /\ cur[h] = head /\ head' = head + 1
              /\ \/ pc'[h] = "drain" /\ cur'[h] = head + 1
                 \/ pc'[h] = "advanced" /\ cur'[h] = head
Empties(h) == /\ pc'[h] \in {"audit", "emptied"} /\ cur[h] < tail
              /\ UNCHANGED head /\ cur[h] = head /\ cur'[h] = cur[h]
              /\ \A k \in Slots : ring'[k].st = IF k = At(h) THEN "EMPTY" ELSE ring[k].st
Marks(h)   == Stays(h) /\ cur[h] = head /\ cur[h] < tail /\ pc'[h] = "mark"
Frees(h)   == Stays(h) /\ pc[h] = "advanced" /\ pc'[h] = "freed"
Counts(h)  == UNCHANGED <<head, ring>> /\ pc[h] = "freed" /\ pc'[h] = "drain" /\ cur'[h] = cur[h] + 1

\* A step of a drainer, by its place.
LEMMA LeadsDoes ==
  ASSUME IInv, RingInv, NEW h \in Handle, Leads(h)
  PROVE  /\ UNCHANGED <<tail, wr>>
         /\ \A g \in Handle : g # h => pc'[g] = pc[g] /\ cur'[g] = cur[g]
         /\ Leading(h)
         /\ \/ Arrives(h) \/ Passes(h) \/ Empties(h) \/ Marks(h) \/ Frees(h) \/ Counts(h)
<1>0. /\ pc \in [Handle -> RoundPc] /\ cur \in [Handle -> Nat] /\ ring \in [Slots -> EntryType]
      /\ head \in Nat /\ tail \in Nat
  BY DEF IInv, TypeOK
<1>a. UNCHANGED <<tail, wr>> /\ \A g \in Handle : g # h => pc'[g] = pc[g] /\ cur'[g] = cur[g]
  BY <1>0 DEF Leads, p2_wait_acks_done, p2_drain_empty, p2_drain_dead, p2_drain_audit,
              p2_drain_mark, p2_drain_clear, p2_drain_advance, kv_sbo_free, p2_drain_count,
              Goto, ringq
<1>b. Leading(h)
  BY DEF Leads, p2_wait_acks_done, p2_drain_empty, p2_drain_dead, p2_drain_audit,
         p2_drain_mark, p2_drain_clear, p2_drain_advance, kv_sbo_free, p2_drain_count, Leading
<1>c. /\ pc[h] \in {"drain", "audit", "mark", "emptied"} => cur[h] = head
      /\ pc[h] \in {"audit", "mark", "emptied"} => cur[h] < tail
      /\ pc[h] \in {"audit", "emptied"} => ring[At(h)].st = "EMPTY"
  BY DEF RingInv, HeadInv, AtHead, BeforeTail, Passed, At
<1>1. CASE p2_wait_acks_done(h)
  <2>1. Arrives(h)
    BY <1>0, <1>1 DEF p2_wait_acks_done, Arrives, Goto, ringq
  <2>. QED BY <1>a, <1>b, <2>1
<1>2. CASE p2_drain_empty(h)
  <2>1. Passes(h)
    BY <1>0, <1>c, <1>2 DEF p2_drain_empty, DrainSkips, DrainEntry, Passes, At
  <2>. QED BY <1>a, <1>b, <2>1
<1>3. CASE p2_drain_dead(h)
  <2>0. \A k \in Slots : ring'[k].st = IF k = At(h) THEN "EMPTY" ELSE ring[k].st
    BY <1>0, <1>3 DEF p2_drain_dead, ClearedRing, EmptyEntry, At
  <2>1. Empties(h)
    BY <1>0, <1>c, <1>3, <2>0 DEF p2_drain_dead, Empties, Goto
  <2>. QED BY <1>a, <1>b, <2>1
<1>4. CASE p2_drain_audit(h)
  <2>1. Passes(h)
    BY <1>0, <1>c, <1>4 DEF p2_drain_audit, Goto, Passes
  <2>. QED BY <1>a, <1>b, <2>1
<1>5. CASE p2_drain_mark(h)
  <2>1. Marks(h)
    BY <1>0, <1>c, <1>5 DEF p2_drain_mark, Marks, Stays, Goto, ringq
  <2>. QED BY <1>a, <1>b, <2>1
<1>6. CASE p2_drain_clear(h)
  <2>0. \A k \in Slots : ring'[k].st = IF k = At(h) THEN "EMPTY" ELSE ring[k].st
    BY <1>0, <1>6 DEF p2_drain_clear, ClearedRing, EmptyEntry, At
  <2>1. Empties(h)
    BY <1>0, <1>c, <1>6, <2>0 DEF p2_drain_clear, Empties, Goto
  <2>. QED BY <1>a, <1>b, <2>1
<1>7. CASE p2_drain_advance(h)
  <2>1. Passes(h)
    BY <1>0, <1>c, <1>7 DEF p2_drain_advance, Goto, Passes
  <2>. QED BY <1>a, <1>b, <2>1
<1>8. CASE kv_sbo_free(h)
  <2>1. Frees(h)
    BY <1>0, <1>8 DEF kv_sbo_free, Frees, Stays, Goto, ringq
  <2>. QED BY <1>a, <1>b, <2>1
<1>9. CASE p2_drain_count(h)
  <2>1. Counts(h)
    BY <1>0, <1>9 DEF p2_drain_count, Counts, Goto, ringq
  <2>. QED BY <1>a, <1>b, <2>1
<1>. QED BY <1>1, <1>2, <1>3, <1>4, <1>5, <1>6, <1>7, <1>8, <1>9 DEF Leads

\* The window does not lose a slot but the one the head passes.
LEMMA WindowMoves ==
  ASSUME IInv, NEW k \in Slots, InWindow(k)
  PROVE  /\ head' = head /\ tail' = tail => InWindow(k)'
         /\ head' = head /\ tail' = tail + 1 => InWindow(k)'
         /\ head' = head + 1 /\ tail' = tail /\ k # head % GarbCap => InWindow(k)'
BY DEF IInv, TypeOK, InWindow

\* The leader passes no entry the writer still holds.
LEMMA HeldAhead ==
  ASSUME IInv, RingInv, wr.pc \in {"held", "new", "swapped", "stamped"}, wr.e \in Slots
  PROVE  ring[wr.e].st = "RESERVED" /\ InWindow(wr.e)
<1>1. GarbCap \notin Slots
  BY ConstantsAssumption DEF Slots
<1>2. wr.old # None
  BY <1>1 DEF IInv, WriterInv, Unreserved, WriterOld
<1>. QED BY <1>2 DEF IInv, WriterInv, Reserved, RingInv, WindowInv, Published

\* Head and tail stay within a capacity, and entries outside the window EMPTY.
LEMMA WindowStep == ASSUME IInv, RingInv, Next PROVE WindowInv'
<1>0. head \in Nat /\ tail \in Nat /\ GarbCap \in Nat \ {0}
  BY ConstantsAssumption DEF IInv, TypeOK
<1>w. Window /\ Outside /\ AtTail /\ Published
  BY DEF RingInv, WindowInv
<1>1. CASE Quiet
  <2>1. UNCHANGED <<head, tail, ring>> /\ (wr' = wr \/ wr'.pc \in {"idle", "count"})
    BY <1>1 DEF Quiet, ringq
  <2>. QED BY <1>w, <2>1 DEF WindowInv, Window, Outside, AtTail, Published, InWindow
<1>2. CASE Writing
  <2>r. CASE Reserves
    <3>1. Window' /\ AtTail' /\ Published'
      BY <1>0, <1>w, <2>r DEF Reserves, Window, AtTail, Published
    <3>2. Outside'
      BY <1>w, <2>r DEF Reserves, Outside, InWindow
    <3>. QED BY <3>1, <3>2 DEF WindowInv
  <2>p. CASE Publishes
    <3>1. wr.e = tail % GarbCap /\ tail < head + GarbCap
      BY <1>w, <2>p DEF Publishes, AtTail
    <3>2. Window' /\ AtTail'
      BY <1>0, <1>w, <2>p, <3>1 DEF Publishes, Window, AtTail
    <3>3. \E q \in head' .. tail' - 1 : q % GarbCap = tail % GarbCap
      BY <1>0, <1>w, <2>p DEF Publishes, Window
    <3>4. Published'
      BY <2>p, <3>1, <3>3 DEF Publishes, Published, InWindow
    <3>5. ASSUME NEW k \in Slots, ring'[k].st # "EMPTY" PROVE InWindow(k)'
      <4>1. InWindow(k) \/ k = tail % GarbCap
        BY <1>w, <2>p, <3>5 DEF Publishes, Outside
      <4>2. InWindow(k) => InWindow(k)'
        BY <2>p, WindowMoves DEF Publishes
      <4>. QED BY <3>3, <4>1, <4>2 DEF InWindow
    <3>. QED BY <3>2, <3>4, <3>5 DEF WindowInv, Outside
  <2>x. CASE Works
    <3>1. Window' /\ AtTail'
      BY <1>w, <2>x DEF Works, Window, AtTail
    <3>2. Published'
      BY <1>w, <2>x DEF Works, Published, InWindow
    <3>3. wr.pc = "stamped" /\ wr.e \in Slots => InWindow(wr.e)
      BY <1>w DEF Published
    <3>4. Outside'
      BY <1>w, <2>x, <3>3 DEF Works, Outside, InWindow
    <3>. QED BY <3>1, <3>2, <3>4 DEF WindowInv
  <2>. QED BY <1>2, <2>r, <2>p, <2>x, WritingDoes
<1>3. ASSUME NEW h \in Handle, Leads(h) PROVE WindowInv'
  <2>0. UNCHANGED <<tail, wr>>
    BY <1>3, LeadsDoes
  <2>p. CASE Passes(h)
    <3>1. head' = head + 1 /\ head < tail /\ ring' = ring /\ ring[head % GarbCap].st = "EMPTY"
      BY <2>p DEF Passes, At
    <3>2. Window' /\ AtTail'
      BY <1>0, <1>w, <2>0, <3>1 DEF Window, AtTail
    <3>3. Published'
      <4>1. ASSUME wr.pc \in {"held", "new", "swapped", "stamped"}, wr.e \in Slots
            PROVE  InWindow(wr.e)'
        <5>1. wr.e # head % GarbCap /\ InWindow(wr.e)
          BY <3>1, <4>1, HeldAhead
        <5>2. PICK p \in head .. tail - 1 : p % GarbCap = wr.e
          BY <5>1 DEF InWindow
        <5>3. p # head /\ wr'.e = wr.e
          BY <2>0, <5>1, <5>2
        <5>4. p \in head' .. tail' - 1
          BY <1>0, <2>0, <3>1, <5>2, <5>3
        <5>. QED BY <5>2, <5>3, <5>4 DEF InWindow
      <4>. QED BY <2>0, <4>1 DEF Published
    <3>4. ASSUME NEW k \in Slots, ring[k].st # "EMPTY", InWindow(k) PROVE InWindow(k)'
      BY <2>0, <3>1, <3>4, WindowMoves
    <3>5. Outside'
      BY <1>w, <2>0, <3>1, <3>4 DEF Outside
    <3>. QED BY <3>2, <3>3, <3>5 DEF WindowInv
  <2>e. CASE Empties(h)
    <3>1. UNCHANGED head /\ \A k \in Slots : ring'[k].st = "EMPTY" \/ ring'[k].st = ring[k].st
      BY <2>e DEF Empties
    <3>. QED BY <1>w, <2>0, <3>1 DEF WindowInv, Window, Outside, AtTail, Published, InWindow
  <2>s. CASE UNCHANGED <<head, ring>>
    BY <1>w, <2>0, <2>s DEF WindowInv, Window, Outside, AtTail, Published, InWindow
  <2>. QED BY <1>3, <2>p, <2>e, <2>s, LeadsDoes DEF Arrives, Marks, Frees, Counts, Stays
<1>. QED BY <1>1, <1>2, <1>3, Kinds

\* The leader stays at the head, and the entry it has emptied stays EMPTY.
LEMMA HeadStep == ASSUME IInv, RingInv, Next PROVE HeadInv'
<1>0. /\ head \in Nat /\ tail \in Nat /\ GarbCap \in Nat \ {0}
      /\ cur \in [Handle -> Nat] /\ pc \in [Handle -> RoundPc]
  BY ConstantsAssumption DEF IInv, TypeOK
<1>h. AtHead /\ BehindHead /\ BeforeTail /\ Passed
  BY DEF RingInv, HeadInv
<1>1. CASE Quiet
  <2>1. /\ UNCHANGED <<head, tail, ring>>
        /\ \A g \in Handle : (pc'[g] = pc[g] /\ cur'[g] = cur[g]) \/ pc'[g] \notin Draining
    BY <1>1 DEF Quiet, ringq
  <2>. QED BY <1>h, <2>1 DEF HeadInv, AtHead, BehindHead, BeforeTail, Passed, Draining
<1>2. CASE Writing
  <2>1. UNCHANGED <<pc, cur>> /\ (Reserves \/ Publishes \/ Works)
    BY <1>2, WritingDoes
  <2>2. AtHead' /\ BehindHead'
    BY <1>h, <2>1 DEF AtHead, BehindHead, Reserves, Publishes, Works
  <2>3. BeforeTail'
    BY <1>0, <1>h, <2>1 DEF BeforeTail, Reserves, Publishes, Works
  <2>4. ASSUME NEW g \in Handle, pc[g] \in {"audit", "emptied"}
        PROVE  ring'[cur[g] % GarbCap].st = "EMPTY"
    <3>1. cur[g] = head /\ head < tail /\ ring[cur[g] % GarbCap].st = "EMPTY"
      BY <1>h, <2>4 DEF AtHead, BeforeTail, Passed
    <3>2. cur[g] % GarbCap \in Slots
      BY <1>0, SlotIndex
    <3>3. CASE Reserves
      <4>1. cur[g] % GarbCap # tail % GarbCap
        BY <1>0, <3>1, <3>3, ModDistinct DEF Reserves
      <4>. QED BY <3>1, <3>2, <3>3, <4>1 DEF Reserves
    <3>4. CASE Publishes
      BY <3>1, <3>4 DEF Publishes
    <3>5. CASE Works
      <4>1. wr.pc = "stamped" /\ wr.e \in Slots => ring[wr.e].st = "RESERVED"
        BY HeldAhead
      <4>. QED BY <3>1, <3>2, <3>5, <4>1 DEF Works
    <3>. QED BY <2>1, <3>3, <3>4, <3>5
  <2>5. Passed'
    BY <2>1, <2>4 DEF Passed
  <2>. QED BY <2>2, <2>3, <2>5 DEF HeadInv
<1>3. ASSUME NEW h \in Handle, Leads(h) PROVE HeadInv'
  <2>0. UNCHANGED <<tail, wr>>
    BY <1>3, LeadsDoes
  <2>1. \A g \in Handle : g # h => pc'[g] \in {"idle", "want"}
    BY <1>3, LeadsDoes, Unique DEF OneLeader, Leading
  <2>2. CASE Arrives(h)
    BY <2>1, <2>2 DEF Arrives, HeadInv, AtHead, BehindHead, BeforeTail, Passed
  <2>3. CASE Passes(h)
    BY <1>0, <2>0, <2>1, <2>3 DEF Passes, HeadInv, AtHead, BehindHead, BeforeTail, Passed
  <2>4. CASE Empties(h)
    <3>1. At(h) \in Slots
      BY <1>0, SlotIndex DEF At
    <3>. QED BY <2>0, <2>1, <2>4, <3>1
         DEF Empties, At, HeadInv, AtHead, BehindHead, BeforeTail, Passed
  <2>5. CASE Marks(h)
    BY <2>0, <2>1, <2>5 DEF Marks, Stays, HeadInv, AtHead, BehindHead, BeforeTail, Passed
  <2>6. CASE Frees(h)
    BY <1>h, <2>0, <2>1, <2>6 DEF Frees, Stays, HeadInv, AtHead, BehindHead, BeforeTail, Passed
  <2>7. CASE Counts(h)
    BY <1>h, <2>0, <2>1, <2>7 DEF Counts, HeadInv, AtHead, BehindHead, BeforeTail, Passed
  <2>. QED BY <1>3, <2>2, <2>3, <2>4, <2>5, <2>6, <2>7, LeadsDoes
<1>. QED BY <1>1, <1>2, <1>3, Kinds

\* RingInv is inductive, given the invariant of ReclaimProofs.
LEMMA RingInit == Init => RingInv
<1> SUFFICES ASSUME Init PROVE RingInv
  OBVIOUS
<1>1. Window /\ AtTail /\ Published
  BY ConstantsAssumption DEF Init, Window, AtTail, Published, NoWrite
<1>2. Outside
  BY DEF Init, Outside, EmptyEntry
<1>3. HeadInv
  BY DEF Init, HeadInv, AtHead, BehindHead, BeforeTail, Passed
<1>. QED BY <1>1, <1>2, <1>3 DEF RingInv, WindowInv

\* A step that changes nothing.
LEMMA RingStutter == ASSUME RingInv, UNCHANGED vars PROVE RingInv'
BY DEF RingInv, WindowInv, HeadInv, Window, Outside, AtTail, Published, InWindow, AtHead,
       BehindHead, BeforeTail, Passed, vars, ringq, lead

\* Every step keeps the window.
LEMMA RingStep == ASSUME IInv, RingInv, [Next]_vars PROVE RingInv'
<1>1. CASE Next
  BY <1>1, WindowStep, HeadStep DEF RingInv
<1>2. CASE UNCHANGED vars
  BY <1>2, RingStutter
<1>. QED BY <1>1, <1>2

\* Whatever writers and drainers do to the garbage ring, its window is as RingInv says.
THEOREM RingInvariance == Spec => []RingInv
<1>1. Spec => []IInv
  BY Invariance
<1>. QED BY <1>1, RingInit, RingStep, PTL DEF Spec

\* The ring never holds more than its capacity (garb_reserve refuses before), and
\* every slot outside of [head, tail) is EMPTY but for the one being reserved.
THEOREM RingSafety == Spec => []RingWindow
<1>1. RingInv => RingWindow
  BY DEF RingInv, WindowInv, Window, Outside, InWindow, RingWindow
<1>. QED BY <1>1, RingInvariance, PTL

\* p2_drain is first-in first-out: it passes one entry at a time, an EMPTY one.
LEMMA PassesOne ==
  ASSUME IInv, RingInv, [Next]_vars, head' # head
  PROVE  head' = head + 1 /\ ring[head % GarbCap].st = "EMPTY"
<1>1. Next
  BY DEF vars, ringq
<1>2. ~Quiet /\ ~Writing
  <2>1. ~Quiet
    BY DEF Quiet, ringq
  <2>2. ~Writing
    BY WritingDoes DEF Reserves, Publishes, Works
  <2>. QED BY <2>1, <2>2
<1>3. PICK h \in Handle : Leads(h)
  BY <1>1, <1>2, Kinds
<1>4. Passes(h)
  BY <1>3, LeadsDoes DEF Arrives, Empties, Marks, Frees, Counts, Stays
<1>. QED BY <1>4 DEF Passes, At

\* p2_drain moves garb_head by one entry at a time, and only past an EMPTY one, also when
\* several processes drain and some of them die.
THEOREM DrainOrder == Spec => DrainInOrder
<1>1. Spec => []IInv
  BY Invariance
<1>. QED BY <1>1, RingInvariance, PassesOne, PTL DEF Spec, DrainInOrder

------------------------------------------------------------------------------
\* Where a box that is not lost is found.
Tracked(b) ==
  \/ b \in free
  \/ \E n \in Node : val[n] = b
  \/ \E k \in Slots : Committed(k) /\ ring[k].off = b
  \/ wr.new = b
  \/ wr.pc \in {"swapped", "stamped"} /\ wr.old = b
  \/ \E h \in Handle : pick[h] = b

\* A lost box is one that nothing tracks.
LEMMA LostUntracked == Lost = {b \in Box : ~Tracked(b)}
BY DEF Lost, Tracked, Committed

\* No step forgets a box.
Keeps == \A b \in Box : Tracked(b) => Tracked(b)'

\* Steps that leave all of these places alone.
LEMMA SameKeeps == ASSUME UNCHANGED <<free, val, ring, wr, pick>> PROVE Keeps
BY DEF Keeps, Tracked, Committed

\* Nobody has picked a slot anew.
LEMMA SamePicked ==
  ASSUME Picked, UNCHANGED pick,
         \A h \in Handle : pc[h] \in {"mark", "emptied", "advanced"} =>
                             pc'[h] \in {"mark", "emptied", "advanced"}
  PROVE  Picked'
BY DEF Picked

\* The end of a round loses no box.
LEMMA EndKeeps ==
  ASSUME IInv, Picked, NEW h \in Handle, EndRound(h), UNCHANGED <<free, val, ring, wr>>,
         pc[h] \notin {"mark", "emptied", "advanced"}
  PROVE  Keeps /\ Picked'
<1>1. pc \in [Handle -> RoundPc] /\ pick \in [Handle -> MaybeBox]
  BY DEF IInv, TypeOK
<1>2. pick' = pick
  BY <1>1 DEF EndRound, Picked
<1>3. \A g \in Handle : g # h => pc'[g] = pc[g]
  BY <1>1 DEF EndRound
<1>. QED BY <1>2, <1>3, SameKeeps, SamePicked

\* A crash drops what the writer and the leader alone knew of.
LEMMA CrashLoses ==
  ASSUME IInv, Picked, NEW h \in Handle, Crash(h)
  PROVE  Picked' /\ Lost' \subseteq Lost \union {WriterBox, pick[h]}
<1>0. pc \in [Handle -> RoundPc] /\ pick \in [Handle -> MaybeBox]
  BY DEF IInv, TypeOK
<1>1. /\ UNCHANGED <<free, val, ring>> /\ (wr' = wr \/ wr' = NoWrite)
      /\ \A g \in Handle : pick'[g] = IF g = h THEN None ELSE pick[g]
      /\ \A g \in Handle : g # h => pc'[g] = pc[g]
  BY <1>0 DEF Crash, EndRound, store, ringq
<1>2. Picked'
  BY <1>1 DEF Picked
<1>3. ASSUME NEW b \in Box, Tracked(b), ~Tracked(b)' PROVE b \in {WriterBox, pick[h]}
  <2>1. None # b
    BY ConstantsAssumption
  <2>2. wr.pc # "new" => wr.new = None
    BY DEF IInv, WriterInv, WriterNew
  <2>. QED BY <1>1, <1>3, <2>1, <2>2 DEF Tracked, Committed, WriterBox
<1>4. Lost' = {b \in Box : ~Tracked(b)'}
  BY DEF Lost, Tracked, Committed
<1>. QED BY <1>2, <1>3, <1>4, LostUntracked

\* No other step loses a box.
LEMMA NothingLost ==
  ASSUME IInv, Picked, Next, ~ \E h \in Handle : Crash(h)
  PROVE  Keeps /\ Picked'
<1>0. /\ pc \in [Handle -> RoundPc] /\ pick \in [Handle -> MaybeBox]
      /\ ring \in [Slots -> EntryType] /\ wr \in WriteType /\ val \in [Node -> MaybeBox]
      /\ cur \in [Handle -> Nat]
  BY DEF IInv, TypeOK
<1>n. \A b \in Box : b # None
  BY ConstantsAssumption
<1>w. wr.pc # "new" => wr.new = None
  BY DEF IInv, WriterInv, WriterNew
<1> DEFINE Same == /\ UNCHANGED <<free, val, ring, wr, pick>>
                   /\ \A h \in Handle : pc[h] \in {"mark", "emptied", "advanced"} =>
                                          pc'[h] \in {"mark", "emptied", "advanced"}
<1>s. Same => Keeps /\ Picked'
  BY SameKeeps, SamePicked
<1> DEFINE Leader == UNCHANGED <<pc, pick>>
<1>l. Leader => Picked'
  BY DEF Picked
<1>1. ASSUME NEW h \in Handle, kvspaceShmOpen(h) PROVE Same
  BY <1>0, <1>1 DEF kvspaceShmOpen, store, ringq, lead
<1>2. ASSUME NEW h \in Handle, kvspaceShmClose(h) PROVE Same
  BY <1>0, <1>2 DEF kvspaceShmClose, store, ringq, lead, BeginRound
<1>3. ASSUME NEW h \in Handle, p2_reg_release(h) PROVE Same
  BY <1>0, <1>3 DEF p2_reg_release, store, ringq, lead
<1>4. ASSUME NEW h \in Handle, NEW n \in Node, kvspaceShmViewFromRef(h, n) PROVE Same
  BY <1>0, <1>4 DEF kvspaceShmViewFromRef, store, ringq, lead
<1>5. ASSUME NEW h \in Handle, kvspaceShmViewAck(h) PROVE Same
  BY <1>0, <1>5 DEF kvspaceShmViewAck, store, ringq, lead
<1>6. ASSUME NEW h \in Handle, p2_ack_slot(h) PROVE Same
  BY <1>0, <1>6 DEF p2_ack_slot, store, ringq, lead
<1>7. ASSUME NEW h \in Handle, NEW on \in {0, 1}, kvspaceShmViewQuiesce(h, on) PROVE Same
  BY <1>0, <1>7 DEF kvspaceShmViewQuiesce, store, ringq, lead
<1>8. ASSUME NEW h \in Handle, kvspaceShmViewSweep(h) PROVE Same
  BY <1>0, <1>8 DEF kvspaceShmViewSweep, store, ringq, BeginRound
<1>9. ASSUME NEW h \in Handle, p2_maint(h) PROVE Same
  BY <1>0, <1>9 DEF p2_maint, store, ringq, BeginRound
<1>10. ASSUME NEW h \in Handle, p2_elect(h) PROVE Same
  BY <1>0, <1>10 DEF p2_elect, store, ringq, Goto
<1>11. ASSUME NEW h \in Handle, p2_round_pending(h) PROVE Same
  BY <1>0, <1>11 DEF p2_round_pending, store, ringq, Goto
<1>12. ASSUME NEW h \in Handle, p2_round_bump(h) PROVE Same
  BY <1>0, <1>12 DEF p2_round_bump, store, ringq, Goto
<1>13. ASSUME NEW h \in Handle, NEW g \in Handle, p2_wait_acks(h, g) PROVE Same
  BY <1>0, <1>13 DEF p2_wait_acks, store, ringq
<1>14. ASSUME NEW h \in Handle, p2_wait_acks_done(h) PROVE Same
  BY <1>0, <1>14 DEF p2_wait_acks_done, store, ringq, Goto
<1>15. ASSUME NEW h \in Handle, p2_drain_out(h) PROVE Same
  BY <1>0, <1>15 DEF p2_drain_out, store, ringq, Goto
<1>16. ASSUME NEW h \in Handle, p2_drain_empty(h) PROVE Same
  BY <1>0, <1>16 DEF p2_drain_empty, store
<1>17. ASSUME NEW h \in Handle, p2_drain_audit(h) PROVE Same
  BY <1>0, <1>17 DEF p2_drain_audit, store, Goto
<1>18. ASSUME NEW h \in Handle, p2_drain_advance(h) PROVE Same
  BY <1>0, <1>18 DEF p2_drain_advance, store, Goto
<1>19. ASSUME NEW h \in Handle, p2_drain_count(h) PROVE Same
  BY <1>0, <1>19 DEF p2_drain_count, store, ringq, Goto
<1>35. ASSUME NEW h \in Handle, p2_round_reap(h) PROVE Same
  BY <1>0, <1>35 DEF p2_round_reap, store, ringq, Goto
<1>20. ASSUME NEW h \in Handle, p2_elect_busy(h) PROVE Keeps /\ Picked'
  BY <1>20, EndKeeps DEF p2_elect_busy, store, ringq
<1>21. ASSUME NEW h \in Handle, p2_release_busy(h) PROVE Keeps /\ Picked'
  BY <1>21, EndKeeps DEF p2_release_busy, RoundGivesUp, store, ringq
<1>22. ASSUME NEW h \in Handle, p2_drain_dead(h) PROVE Keeps /\ Picked'
  <2>1. /\ UNCHANGED <<free, val, wr, pick>>
        /\ \A k \in Slots : Committed(k) => ring'[k] = ring[k]
    BY <1>0, <1>22 DEF p2_drain_dead, ClearedRing, DrainEntry, Committed, store
  <2>2. Picked'
    BY <1>0, <1>22 DEF p2_drain_dead, Goto, Picked
  <2>. QED BY <2>1, <2>2 DEF Keeps, Tracked, Committed
<1>23. ASSUME NEW h \in Handle, p2_drain_mark(h) PROVE Keeps /\ Picked'
  <2>1. pick[h] = None
    BY <1>23 DEF p2_drain_mark, Picked
  <2>2. UNCHANGED <<free, val, wr, ring>> /\ \A g \in Handle : g # h => pick'[g] = pick[g]
    BY <1>0, <1>23 DEF p2_drain_mark, store, ringq
  <2>3. Picked'
    BY <1>0, <1>23 DEF p2_drain_mark, Goto, Picked
  <2>. QED BY <1>n, <2>1, <2>2, <2>3 DEF Keeps, Tracked, Committed
<1>24. ASSUME NEW h \in Handle, p2_drain_clear(h) PROVE Keeps /\ Picked'
  <2>1. ring[cur[h] % GarbCap].off = pick[h]
    BY <1>24 DEF p2_drain_clear, IInv, LeaderInv, MarkHolds
  <2>2. /\ UNCHANGED <<free, val, wr, pick>>
        /\ \A k \in Slots : k # cur[h] % GarbCap => ring'[k] = ring[k]
    BY <1>0, <1>24 DEF p2_drain_clear, ClearedRing, store
  <2>3. Picked'
    BY <1>0, <1>24 DEF p2_drain_clear, Goto, Picked
  <2>. QED BY <2>1, <2>2, <2>3 DEF Keeps, Tracked, Committed
<1>25. ASSUME NEW h \in Handle, kv_sbo_free(h) PROVE Keeps /\ Picked'
  <2>1. /\ UNCHANGED <<ring, val, wr>> /\ free' = free \union {pick[h]}
        /\ \A g \in Handle : g # h => pick'[g] = pick[g]
    BY <1>0, <1>25 DEF kv_sbo_free, BoxToFree, ringq
  <2>2. Picked'
    BY <1>0, <1>25 DEF kv_sbo_free, Goto, Picked
  <2>. QED BY <2>1, <2>2 DEF Keeps, Tracked, Committed
<1>26. ASSUME NEW h \in Handle, NEW n \in Node, NEW op \in {"set", "del"}, garb_reserve(h, n, op)
       PROVE  Keeps /\ Picked'
  <2>1. Leader /\ UNCHANGED <<free, val>> /\ wr.pc = "idle"
    BY <1>26 DEF garb_reserve, lead, store
  <2>2. \A k \in Slots : Committed(k) => ring'[k] = ring[k]
    BY <1>0, <1>26 DEF garb_reserve, Committed
  <2>. QED BY <1>l, <1>n, <1>w, <2>1, <2>2 DEF Keeps, Tracked, Committed
<1>27. ASSUME garb_reserve_publish PROVE Keeps /\ Picked'
  <2>1. /\ Leader /\ UNCHANGED <<free, val, ring>> /\ wr.pc = "resv"
        /\ wr'.new = wr.new
    BY <1>0, <1>27 DEF garb_reserve_publish, lead, store, WriteType
  <2>. QED BY <1>l, <2>1 DEF Keeps, Tracked, Committed
<1>28. ASSUME NEW h \in Handle, NEW n \in Node, shm_set_new(h, n) PROVE Keeps /\ Picked'
  <2>1. Leader /\ UNCHANGED <<free, val, ring>> /\ wr.pc = "idle"
    BY <1>28 DEF shm_set_new, lead, store, ringq
  <2>. QED BY <1>l, <1>n, <1>w, <2>1 DEF Keeps, Tracked, Committed
<1>29. ASSUME kv_sbo_alloc PROVE Keeps /\ Picked'
  <2>1. Leader /\ UNCHANGED <<val, ring>> /\ wr.pc = "held"
    BY <1>29 DEF kv_sbo_alloc, lead, ringq
  <2>2. PICK b \in free : free' = free \ {b} /\ wr'.new = b
    BY <1>0, <1>29 DEF kv_sbo_alloc, WriteType
  <2>. QED BY <1>l, <1>n, <1>w, <2>1, <2>2 DEF Keeps, Tracked, Committed
<1>30. ASSUME shm_set_fail PROVE Keeps /\ Picked'
  <2>1. Leader /\ UNCHANGED val /\ wr.pc \in {"held", "new"}
    BY <1>30 DEF shm_set_fail, lead
  <2>2. \A k \in Slots : Committed(k) => ring'[k] = ring[k]
    BY <1>0, <1>30, <2>1, CancelOwn DEF shm_set_fail, Committed
  <2>3. free \subseteq free' /\ (wr.pc = "new" => wr.new \in free')
    BY <1>30 DEF shm_set_fail, FreedOnFail
  <2>. QED BY <1>l, <1>n, <1>w, <2>1, <2>2, <2>3 DEF Keeps, Tracked, Committed
<1>31. ASSUME art_val_swap PROVE Keeps /\ Picked'
  <2>1. Leader /\ UNCHANGED <<free, ring>> /\ wr.pc \in {"held", "new"}
    BY <1>31 DEF art_val_swap, lead, ringq
  <2>2. wr.n \in Node /\ wr.old = val[wr.n]
    BY <2>1 DEF IInv, WriterInv, WriterUp, WriterOld
  <2>3. \A n \in Node : val'[n] = IF n = wr.n THEN wr.new ELSE val[n]
    BY <1>0, <1>31 DEF art_val_swap
  <2>4. wr.old # None => wr'.pc = "swapped" /\ wr'.old = wr.old
    BY <1>0, <1>31 DEF art_val_swap, WriteType
  <2>. QED BY <1>l, <1>n, <2>1, <2>2, <2>3, <2>4 DEF Keeps, Tracked, Committed
<1>32. ASSUME garb_commit_stamp PROVE Keeps /\ Picked'
  <2>1. /\ Leader /\ UNCHANGED <<free, val>> /\ wr.pc = "swapped"
        /\ wr'.pc = "stamped" /\ wr'.old = wr.old /\ wr'.new = wr.new
    BY <1>0, <1>32 DEF garb_commit_stamp, lead, store, WriteType
  <2>2. ring[wr.e].st = "RESERVED"
    BY <2>1 DEF IInv, WriterInv, Reserved, WriterOld
  <2>3. \A k \in Slots : Committed(k) => ring'[k] = ring[k]
    BY <1>0, <1>32, <2>2 DEF garb_commit_stamp, Committed
  <2>. QED BY <1>l, <2>1, <2>3 DEF Keeps, Tracked, Committed
<1>33. ASSUME garb_commit PROVE Keeps /\ Picked'
  <2>1. Leader /\ UNCHANGED <<free, val>> /\ wr.pc = "stamped" /\ wr'.new = wr.new
    BY <1>0, <1>33 DEF garb_commit, lead, store, WriteType
  <2>2. wr.e \in Slots /\ ring[wr.e].off = wr.old
    BY <2>1 DEF IInv, WriterInv, Reserved, WriterOld, StampedOff
  <2>3. /\ \A k \in Slots : ring'[k].off = ring[k].off
        /\ \A k \in Slots : Committed(k) => ring'[k].st = "COMMITTED"
        /\ ring'[wr.e].st = "COMMITTED"
    BY <1>0, <1>33, <2>2 DEF garb_commit, Committed, EntryType
  <2>. QED BY <1>l, <2>1, <2>2, <2>3 DEF Keeps, Tracked, Committed
<1>34. ASSUME garb_commit_count PROVE Keeps /\ Picked'
  <2>1. Leader /\ UNCHANGED <<free, val, ring>> /\ wr.pc = "count"
    BY <1>34 DEF garb_commit_count, lead, store, ringq
  <2>. QED BY <1>l, <1>n, <1>w, <2>1 DEF Keeps, Tracked, Committed
<1> HIDE DEF Same, Leader
<1>. QED BY <1>s, <1>1, <1>2, <1>3, <1>4, <1>5, <1>6, <1>7, <1>8, <1>9, <1>10, <1>11, <1>12,
    <1>13, <1>14, <1>15, <1>16, <1>17, <1>18, <1>19, <1>20, <1>21, <1>22, <1>23, <1>24,
    <1>25, <1>26, <1>27, <1>28, <1>29, <1>30, <1>31, <1>32, <1>33, <1>34, <1>35
    DEF Next, Writer, Runtime, Round, Drain

\* Only a crash is counted as one.
LEMMA CrashCounts == ASSUME Next, ~ \E h \in Handle : Crash(h) PROVE crashes' = crashes
<1> USE DEF life
<1>1. Writer => crashes' = crashes
  BY DEF Writer, garb_reserve_publish, kv_sbo_alloc, shm_set_fail, art_val_swap,
         garb_commit_stamp, garb_commit, garb_commit_count
<1>2. ASSUME NEW h \in Handle, Runtime(h) PROVE crashes' = crashes
  BY <1>2 DEF Runtime, kvspaceShmViewFromRef, kvspaceShmViewAck, p2_ack_slot,
              kvspaceShmViewQuiesce, garb_reserve, shm_set_new, kvspaceShmViewSweep
<1>3. ASSUME NEW h \in Handle, Drain(h) PROVE crashes' = crashes
  BY <1>3 DEF Drain, p2_drain_out, p2_drain_empty, p2_drain_dead, p2_drain_audit,
              p2_drain_mark, p2_drain_clear, p2_drain_advance, kv_sbo_free, p2_drain_count
<1>4. ASSUME NEW h \in Handle, Round(h) PROVE crashes' = crashes
  BY <1>3, <1>4 DEF Round, p2_elect, p2_elect_busy, p2_release_busy, p2_round_pending,
              p2_round_bump, p2_wait_acks, p2_wait_acks_done, p2_round_reap
<1>5. ASSUME NEW h \in Handle,
             kvspaceShmOpen(h) \/ kvspaceShmClose(h) \/ p2_reg_release(h) \/ p2_maint(h)
      PROVE  crashes' = crashes
  BY <1>5 DEF kvspaceShmOpen, kvspaceShmClose, p2_reg_release, p2_maint
<1>. QED BY <1>1, <1>2, <1>4, <1>5 DEF Next

\* Two more elements.
LEMMA TwoMore ==
  ASSUME NEW S, IsFiniteSet(S), NEW x, NEW y, NEW T, T \subseteq S \union {x, y}
  PROVE  /\ IsFiniteSet(T) /\ Cardinality(T) <= Cardinality(S) + 2
         /\ Cardinality(S) \in Nat /\ Cardinality(T) \in Nat
<1>. DEFINE A == S \union {x}
            B == A \union {y}
<1>1. /\ IsFiniteSet(A) /\ Cardinality(S) \in Nat
      /\ Cardinality(A) = Cardinality(S) \/ Cardinality(A) = Cardinality(S) + 1
  BY FS_AddElement, FS_CardinalityType, Zenon
<1>2. T \subseteq B
  OBVIOUS
<1>. HIDE DEF A
<1>3. /\ IsFiniteSet(B)
      /\ Cardinality(B) = Cardinality(A) \/ Cardinality(B) = Cardinality(A) + 1
  BY <1>1, FS_AddElement, Zenon
<1>. HIDE DEF B
<1>4. /\ IsFiniteSet(T) /\ Cardinality(T) <= Cardinality(B)
      /\ Cardinality(B) \in Nat /\ Cardinality(T) \in Nat
  BY <1>2, <1>3, FS_Subset, FS_CardinalityType
<1>. QED BY <1>1, <1>3, <1>4

\* Each crash loses at most two boxes.
LEMMA LeakStep == ASSUME IInv, LeakInv, [Next]_vars PROVE LeakInv'
<1>0. Picked /\ IsFiniteSet(Lost) /\ Cardinality(Lost) <= 2 * crashes /\ crashes \in Nat
  BY DEF LeakInv, LeakBound, IInv, TypeOK
<1>1. ASSUME Keeps, Picked', crashes' = crashes PROVE LeakInv'
  <2>1. Lost' = {b \in Box : ~Tracked(b)'}
    BY DEF Lost, Tracked, Committed
  <2>2. Lost' \subseteq Lost
    BY <1>1, <2>1, LostUntracked DEF Keeps
  <2>3. /\ IsFiniteSet(Lost') /\ Cardinality(Lost') <= Cardinality(Lost)
        /\ Cardinality(Lost) \in Nat /\ Cardinality(Lost') \in Nat
    BY <1>0, <2>2, FS_Subset, FS_CardinalityType
  <2>4. Cardinality(Lost') <= 2 * crashes'
    BY <1>0, <1>1, <2>3
  <2>. QED BY <1>1, <2>3, <2>4 DEF LeakInv, LeakBound
<1>2. ASSUME NEW h \in Handle, Crash(h) PROVE LeakInv'
  <2>1. crashes' = crashes + 1
    BY <1>2 DEF Crash
  <2>2. Picked' /\ Lost' \subseteq Lost \union {WriterBox, pick[h]}
    BY <1>0, <1>2, CrashLoses
  <2>3. /\ IsFiniteSet(Lost') /\ Cardinality(Lost') <= Cardinality(Lost) + 2
        /\ Cardinality(Lost) \in Nat /\ Cardinality(Lost') \in Nat
    BY <1>0, <2>2, TwoMore
  <2>4. Cardinality(Lost') <= 2 * crashes'
    BY <1>0, <2>1, <2>3
  <2>. QED BY <2>2, <2>3, <2>4 DEF LeakInv, LeakBound
<1>3. CASE UNCHANGED vars
  BY <1>0, <1>1, <1>3, SameKeeps, SamePicked DEF vars, store, ringq, lead, life
<1>4. CASE Next /\ ~ \E h \in Handle : Crash(h)
  <2>1. Keeps /\ Picked'
    BY <1>0, <1>4, NothingLost
  <2>2. crashes' = crashes
    BY <1>4, CrashCounts
  <2>. QED BY <1>1, <2>1, <2>2
<1>. QED BY <1>2, <1>3, <1>4

\* No box is lost at first.
LEMMA LeakInit == Init => LeakInv
<1> SUFFICES ASSUME Init PROVE LeakInv
  OBVIOUS
<1>1. Lost = {}
  BY DEF Init, Lost
<1>2. Picked /\ crashes = 0
  BY DEF Init, Picked
<1>. QED BY <1>1, <1>2, FS_EmptySet DEF LeakInv, LeakBound

\* Storage is lost only by crashes, at most one box per thread of the process
\* that died: failed writes, cancelled reservations and given-up rounds leak nothing.
THEOREM LeakSafety == Spec => []LeakBound
<1>1. Spec => []IInv
  BY Invariance
<1>2. LeakInv => LeakBound
  BY DEF LeakInv
<1>. QED BY <1>1, <1>2, LeakInit, LeakStep, PTL DEF Spec

============
