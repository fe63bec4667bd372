------------------------------- MODULE Registry -------------------------------
(***************************************************************************)
(* The process registry of a store (kvspace.c, p2_reg_claim,               *)
(* p2_reg_release and the last part of p2_round).                          *)
(*                                                                         *)
(* The header holds a fixed array of slots.  A process that opens the      *)
(* store first frees the slots of dead owners and then claims a free one,  *)
(* in two phases: a compare-and-swap to CLAIMING, plain stores of its      *)
(* identity, and a release store of MINE.  The leader of a round frees     *)
(* dead slots too.  Whether an owner is alive is read from /proc: the pid  *)
(* must exist and have the start time recorded in the slot.                *)
(*                                                                         *)
(* One step is one access to a word of a slot that others write.  A member *)
(* of Proc is one incarnation of a process; incarnations may share a pid,  *)
(* one after the other, and differ in their start time, for which the      *)
(* incarnation itself stands.  quiesced and recovery_ack are in Reclaim.   *)
(***************************************************************************)
EXTENDS Naturals, FiniteSets

CONSTANTS
  Proc,       \* incarnations of processes
  SlotN,      \* number of slots (P2_SLOT_N)
  MaxClaim,   \* largest claim id (GARB_MAX_CLAIM)
  Unknown,    \* the start time 0 that is stored when /proc cannot be read
  Worlds      \* environments; a behaviour has one of them:
              \*   pids     pids of the processes
              \*   old      pid left in the slots by earlier owners, 0 in a new store
              \*   own      outcomes of reading the own /proc entry: {TRUE}, or {TRUE, FALSE}
              \*   other    outcomes of reading another one's
              \*   serial   one registry operation runs at a time
              \*   leavers  processes that may close, exit or die
              \*   leaders  processes whose rounds free dead slots

ASSUME RegistryAssumption ==
  /\ SlotN \in Nat \ {0} /\ MaxClaim \in Nat /\ Unknown \notin Proc
  /\ \A w \in Worlds :
       /\ w.pids \in [Proc -> Nat \ {0}] /\ w.old \in Nat
       /\ w.own \subseteq BOOLEAN /\ w.other \subseteq BOOLEAN /\ w.serial \in BOOLEAN
       /\ w.leavers \subseteq Proc /\ w.leaders \subseteq Proc

VARIABLES
  world,      \* the environment
  claimSeq,   \* claim_seq
  slot,       \* slots[]: state, pid, starttime, claim_id
  pc,         \* where the process is
  job,        \* the scan is part of "open" or of a "round"
  at,         \* slot under the scan
  v,          \* state loaded from it
  rpid,       \* pid read from it
  st,         \* own start time as read from /proc
  cid,        \* own claim id
  mine,       \* the handle's p2_slot, 0 = none
  gone        \* processes that were dead when this scan began

vars == <<world, claimSeq, slot, pc, job, at, v, rpid, st, cid, mine, gone>>

SlotId == 1 .. SlotN
Scan   == {"load", "peek", "reload", "judge", "cas"}
Claim  == {"seq", "pid", "start", "cid", "mine"}
Pc     == {"new", "out", "open", "take", "full", "dead"} \union Scan \union Claim

Init ==
  /\ world \in Worlds
  /\ claimSeq = 0
  /\ slot = [s \in SlotId |-> [state |-> "FREE", pid |-> world.old, start |-> Unknown, claim |-> 0]]
  /\ pc = [p \in Proc |-> "new"]
  /\ job = [p \in Proc |-> "open"]
  /\ at = [p \in Proc |-> 1]
  /\ v = [p \in Proc |-> "FREE"]
  /\ rpid = [p \in Proc |-> 0]
  /\ st = [p \in Proc |-> Unknown]
  /\ cid = [p \in Proc |-> 0]
  /\ mine = [p \in Proc |-> 0]
  /\ gone = [p \in Proc |-> {}]

Alive(p) == pc[p] \notin {"new", "dead"}
Busy(p)  == pc[p] \in Scan \union Claim \union {"take"}
MayEnter == world.serial => \A q \in Proc : ~Busy(q)
Dead     == {q \in Proc : pc[q] = "dead"}

Goto(p, l)  == pc' = [pc EXCEPT ![p] = l]
SetState(s, x) == slot' = [slot EXCEPT ![s].state = x]
Here(p) == slot[at[p]]

BeginScan(p, j) ==
  /\ Goto(p, "load")
  /\ job' = [job EXCEPT ![p] = j]
  /\ at' = [at EXCEPT ![p] = 1]
  /\ gone' = [gone EXCEPT ![p] = Dead]

\* The scan goes on with the next slot; after the last one an opener starts to
\* claim and a leader is done.
NextSlot(p) ==
  IF at[p] < SlotN
    THEN at' = [at EXCEPT ![p] = @ + 1] /\ Goto(p, "load")
    ELSE at' = [at EXCEPT ![p] = 1] /\ Goto(p, IF job[p] = "open" THEN "take" ELSE "open")

------------------------------------------------------------------------------
(* Scan for dead owners *)

\* kvspaceShmOpen calls p2_reg_claim, which reads its own start time first.
p2_reg_claim(p) ==
  /\ pc[p] \in {"new", "out"} /\ claimSeq <= MaxClaim /\ MayEnter
  /\ \A q \in Proc : Alive(q) /\ q # p => world.pids[q] # world.pids[p]
  /\ \E ok \in world.own : st' = [st EXCEPT ![p] = IF ok THEN p ELSE Unknown]
  /\ BeginScan(p, "open")
  /\ UNCHANGED <<claimSeq, slot, v, rpid, cid, mine>>

\* The last part of p2_round.
p2_round_reap(p) ==
  /\ pc[p] = "open" /\ p \in world.leaders /\ MayEnter
  /\ BeginScan(p, "round")
  /\ UNCHANGED <<claimSeq, slot, v, rpid, st, cid, mine>>

\* The state word is loaded; a leader is interested in MINE only.
scan_load(p) ==
  /\ pc[p] = "load"
  /\ v' = [v EXCEPT ![p] = Here(p).state]
  /\ CASE Here(p).state = "MINE" -> Goto(p, "reload") /\ UNCHANGED at
       [] Here(p).state = "CLAIMING" /\ job[p] = "open" -> Goto(p, "peek") /\ UNCHANGED at
       [] OTHER -> NextSlot(p)
  /\ UNCHANGED <<claimSeq, slot, job, rpid, st, cid, mine, gone>>

\* Broken variant: whoever is claiming is taken for dead.
Abandoned_any(p) == TRUE

\* A CLAIMING slot without a pid counts as abandoned by its claimer.
Abandoned(p) == Here(p).pid = 0

scan_peek(p) ==
  /\ pc[p] = "peek"
  /\ Goto(p, IF Abandoned(p) THEN "cas" ELSE "reload")
  /\ UNCHANGED <<claimSeq, slot, job, at, v, rpid, st, cid, mine, gone>>

\* p2_slot_alive: the state is loaded again, and right after it the pid (one
\* step: a change of the pid in between passes through CLAIMING and is seen at
\* the compare-and-swap like one just before); a CLAIMING slot is alive.
p2_slot_alive(p) ==
  /\ pc[p] = "reload"
  /\ rpid' = [rpid EXCEPT ![p] = Here(p).pid]
  /\ CASE Here(p).state = "FREE" -> Goto(p, "cas") /\ UNCHANGED at
       [] Here(p).state = "CLAIMING" -> NextSlot(p)
       [] Here(p).state = "MINE" -> Goto(p, "judge") /\ UNCHANGED at
  /\ UNCHANGED <<claimSeq, slot, job, v, st, cid, mine, gone>>

\* Broken variant: the pid alone decides, its start time is not compared.
SameProcess_pid(p) == \E q \in Proc : Alive(q) /\ world.pids[q] = rpid[p]

\* A process with the pid that was read runs and started when the slot says.
SameProcess(p) == \E q \in Proc : Alive(q) /\ world.pids[q] = rpid[p] /\ q = Here(p).start

\* p2_proc_starttime: an unreadable /proc entry counts as alive.
p2_proc_starttime(p) ==
  /\ pc[p] = "judge"
  /\ \/ FALSE \in world.other /\ NextSlot(p)
     \/ SameProcess(p) /\ NextSlot(p)
     \/ ~SameProcess(p) /\ Goto(p, "cas") /\ UNCHANGED at
  /\ UNCHANGED <<claimSeq, slot, job, v, rpid, st, cid, mine, gone>>

\* The compare-and-swap that frees the slot.
scan_free(p) ==
  /\ pc[p] = "cas"
  /\ IF Here(p).state = v[p] THEN SetState(at[p], "FREE") ELSE UNCHANGED slot
  /\ NextSlot(p)
  /\ UNCHANGED <<claimSeq, job, v, rpid, st, cid, mine, gone>>

------------------------------------------------------------------------------
(* Claim and release *)

\* The compare-and-swap to CLAIMING, slot after slot; without one, -2.
claim_take(p) ==
  /\ pc[p] = "take"
  /\ IF Here(p).state = "FREE"
       THEN /\ SetState(at[p], "CLAIMING")
            /\ mine' = [mine EXCEPT ![p] = at[p]]
            /\ Goto(p, "seq") /\ UNCHANGED at
       ELSE /\ IF at[p] < SlotN
                 THEN at' = [at EXCEPT ![p] = @ + 1] /\ UNCHANGED pc
                 ELSE at' = [at EXCEPT ![p] = 1] /\ Goto(p, "full")
            /\ UNCHANGED <<slot, mine>>
  /\ UNCHANGED <<claimSeq, job, v, rpid, st, cid, gone>>

\* A claim id is drawn; beyond the largest one the slot is given back, -3.
claim_seq(p) ==
  /\ pc[p] = "seq"
  /\ claimSeq' = claimSeq + 1
  /\ IF claimSeq + 1 > MaxClaim
       THEN /\ SetState(mine[p], "FREE")
            /\ mine' = [mine EXCEPT ![p] = 0]
            /\ Goto(p, "out") /\ UNCHANGED cid
       ELSE /\ cid' = [cid EXCEPT ![p] = claimSeq + 1]
            /\ Goto(p, "pid") /\ UNCHANGED <<slot, mine>>
  /\ UNCHANGED <<job, at, v, rpid, st, gone>>

claim_pid(p) ==
  /\ pc[p] = "pid"
  /\ slot' = [slot EXCEPT ![mine[p]].pid = world.pids[p]]
  /\ Goto(p, "start")
  /\ UNCHANGED <<claimSeq, job, at, v, rpid, st, cid, mine, gone>>

\* Broken variant: the start time of the slot's previous owner stays.
StoredStart_stale(p) == slot[mine[p]].start

\* Broken variant: the pid is stored in its place.
StoredStart_pid(p) == world.pids[p]

StoredStart(p) == st[p]

claim_start(p) ==
  /\ pc[p] = "start"
  /\ slot' = [slot EXCEPT ![mine[p]].start = StoredStart(p)]
  /\ Goto(p, "cid")
  /\ UNCHANGED <<claimSeq, job, at, v, rpid, st, cid, mine, gone>>

claim_cid(p) ==
  /\ pc[p] = "cid"
  /\ slot' = [slot EXCEPT ![mine[p]].claim = cid[p]]
  /\ Goto(p, "mine")
  /\ UNCHANGED <<claimSeq, job, at, v, rpid, st, cid, mine, gone>>

claim_publish(p) ==
  /\ pc[p] = "mine"
  /\ SetState(mine[p], "MINE")
  /\ Goto(p, "open")
  /\ UNCHANGED <<claimSeq, job, at, v, rpid, st, cid, mine, gone>>

\* The open that found no slot returns an error.
open_fail(p) ==
  /\ pc[p] = "full"
  /\ Goto(p, "out")
  /\ UNCHANGED <<claimSeq, slot, job, at, v, rpid, st, cid, mine, gone>>

\* Close, or an open that fails after its claim.
p2_reg_release(p) ==
  /\ pc[p] = "open" /\ p \in world.leavers /\ MayEnter
  /\ IF slot[mine[p]].state = "MINE" THEN SetState(mine[p], "FREE") ELSE UNCHANGED slot
  /\ mine' = [mine EXCEPT ![p] = 0]
  /\ cid' = [cid EXCEPT ![p] = 0]
  /\ Goto(p, "out")
  /\ UNCHANGED <<claimSeq, job, at, v, rpid, st, gone>>

\* The process exits or is killed, anywhere.
Die(p) ==
  /\ Alive(p) /\ p \in world.leavers
  /\ Goto(p, "dead")
  /\ mine' = [mine EXCEPT ![p] = 0]
  /\ cid' = [cid EXCEPT ![p] = 0]
  /\ at' = [at EXCEPT ![p] = 1]
  /\ UNCHANGED <<claimSeq, slot, job, v, rpid, st, gone>>

Next == UNCHANGED world /\ \E p \in Proc :
  \/ p2_reg_claim(p) \/ p2_round_reap(p)
  \/ scan_load(p) \/ scan_peek(p) \/ p2_slot_alive(p) \/ p2_proc_starttime(p) \/ scan_free(p)
  \/ claim_take(p) \/ claim_seq(p) \/ claim_pid(p) \/ claim_start(p) \/ claim_cid(p)
  \/ claim_publish(p) \/ open_fail(p) \/ p2_reg_release(p) \/ Die(p)

Spec == Init /\ [][Next]_vars

------------------------------------------------------------------------------
(* Correctness *)

\* Every variable keeps the type of the code's field; in particular the start
\* time of a slot is one read from /proc, or 0.
TypeOK ==
  /\ claimSeq \in Nat
  /\ slot \in [SlotId -> [state : {"FREE", "CLAIMING", "MINE"}, pid : Nat,
                          start : Proc \union {Unknown}, claim : Nat]]
  /\ pc \in [Proc -> Pc] /\ job \in [Proc -> {"open", "round"}]
  /\ at \in [Proc -> SlotId] /\ v \in [Proc -> {"FREE", "CLAIMING", "MINE"}]
  /\ rpid \in [Proc -> Nat] /\ st \in [Proc -> Proc \union {Unknown}]
  /\ cid \in [Proc -> Nat] /\ mine \in [Proc -> 0 .. SlotN]
  /\ gone \in [Proc -> SUBSET Proc]

\* The process has a handle: it is open, possibly inside a round.
HasHandle(p) == mine[p] # 0 /\ pc[p] \in {"open"} \union Scan

\* The slot of a live handle stays its own: MINE, with its pid and claim id.
\* p2_reg_claim and p2_round free the slots of dead owners only.
OwnerKept ==
  \A p \in Proc : HasHandle(p) =>
    /\ slot[mine[p]].state = "MINE"
    /\ slot[mine[p]].pid = world.pids[p]
    /\ slot[mine[p]].claim = cid[p]

\* A slot that a live process is claiming is left alone by the scans of others:
\* CLAIMING protects the claimer until its identity is written.
ClaimKept == \A p \in Proc : pc[p] \in Claim => slot[mine[p]].state = "CLAIMING"

\* An open that is refused for lack of slots has freed every published slot
\* whose owner was dead before it began, also if the pid is in use again.
RefusedReaps ==
  \A p \in Proc : pc[p] = "full" =>
    \A s \in SlotId : slot[s].state = "MINE" => slot[s].start \notin gone[p]
==============================================================================
