----------------------------- MODULE WatchProofs -----------------------------
(***************************************************************************)
(* Safety of waiting for a key, for any number of watchers, notifiers and  *)
(* calls: TypeOK, WatchExact, ValuesAccounted and PollExact hold in every  *)
(* behaviour of Watch.                                                     *)
(*                                                                         *)
(* The argument.  wlock keeps registrations and notifications apart, the   *)
(* slot's mutex collectors and notifications.  What registers and what     *)
(* collects share no lock: a watcher that is alone in the slot sees none   *)
(* of this, and the values are accounted for as long as no registration    *)
(* has freed, or is about to forget, the value that a collector holds.     *)
(***************************************************************************)
EXTENDS Watch, TLAPS

WatchPc  == {"idle", "key", "free", "null", "lockmtx", "test", "wait", "relock", "take",
             "clear", "returned"}
NotifyPc == {"idle", "compare", "store", "unlock"}
ArgType  == [key : Keys \union {Free}, some : BOOLEAN]

\* Types that TypeOK leaves out; the two kinds of threads stay in their code.
Types ==
  /\ slot \in [key : Keys \union {Free}, ready : BOOLEAN, val : Nat]
  /\ wlock \in Threads \union {Free} /\ mtx \in Threads \union {Free}
  /\ pc \in [Threads -> WatchPc \union NotifyPc]
  /\ \A t \in Watchers : pc[t] \in WatchPc
  /\ \A t \in Notifiers : pc[t] \in NotifyPc
  /\ arg \in [Threads -> ArgType]
  /\ res \in [Watchers -> Nat] /\ since \in [Watchers -> Nat] /\ due \in [Watchers -> Nat]
  /\ alone \in [Watchers -> BOOLEAN] /\ raced \in BOOLEAN

\* wlock is held by who registers or notifies, the mutex by who tests, collects or stores.
WlockHeld == \A t \in Threads :
               wlock = t <=> pc[t] \in Registering \union {"compare", "store", "unlock"}
MtxHeld   == \A t \in Threads :
               mtx = t <=> pc[t] \in Collecting \union {"test", "store", "unlock"}
Counts    == /\ made \in Nat /\ slot.val \in 0 .. made
             /\ \A t \in Watchers : res[t] \in 0 .. made
             /\ freed \subseteq 1 .. made /\ given \subseteq 1 .. made

LockInv == WlockHeld /\ MtxHeld /\ Counts

\* What is in the slot, or is going to be returned, is younger than the registration.
SlotYounger == \A t \in Watchers : Registered(t) /\ slot.val # 0 => slot.val > since[t]
ResYounger  == \A t \in Watchers :
                 pc[t] \in {"clear", "returned"} /\ res[t] # 0 => res[t] > since[t]
SinceBound  == \A t \in Watchers : since[t] <= made

\* Who is alone has the slot: it is of its key, and holds what it is due.
AloneIs     == \A t, o \in Watchers : alone[t] /\ pc[t] # "idle" /\ o # t => pc[o] = "idle"
AloneNew    == \A t \in Watchers : alone[t] /\ pc[t] \in {"free", "null"} =>
                 slot.key = arg[t].key /\ ~slot.ready
AloneKey    == \A t \in Watchers : alone[t] /\ Registered(t) => slot.key = arg[t].key
AloneDue    == \A t \in Watchers : alone[t] /\ Registered(t) /\ pc[t] # "clear" =>
                 /\ \A n \in Notifiers : pc[n] = "store" => due[t] = Brings(n)
                 /\ (\A n \in Notifiers : pc[n] # "store") =>
                      due[t] = IF slot.ready THEN slot.val ELSE 0
AloneRes    == \A t \in Watchers :
                 alone[t] /\ pc[t] \in {"clear", "returned"} => res[t] = due[t]

\* A notification is stored under the key it was accepted for.
StoreKey    == \A n \in Notifiers : pc[n] = "store" => slot.key = arg[n].key

YoungInv == SlotYounger /\ ResYounger /\ SinceBound
AloneInv == AloneIs /\ AloneNew /\ AloneKey /\ AloneDue /\ AloneRes /\ StoreKey

\* Without a race, what a collector holds is in the slot and not freed, and what a
\* registration is about to forget is freed.
Apart       == ~raced => \A t, o \in Watchers : ~(pc[t] = "clear" /\ pc[o] = "null")
TakenHeld   == ~raced => \A t \in Watchers :
                 pc[t] = "clear" /\ res[t] # 0 => res[t] = slot.val
NullFreed   == ~raced => \A t \in Watchers : pc[t] = "null" /\ slot.val # 0 => slot.val \in freed

AccountInv == Apart /\ TakenHeld /\ NullFreed /\ ValuesAccounted

\* A running poll knows whether the key was, and always was, what it waits for.
PollType == [at : {"get", "clock", "sleep", "returned"}, target : Targets, t0 : Nat,
             out : Words \union {Absent, Nil}, slept : Nat, hit : BOOLEAN, ever : BOOLEAN,
             held : BOOLEAN]
PollRuns ==
  poll.at # "idle" =>
    /\ poll \in PollType /\ poll.t0 <= clock
    /\ Matches(poll.target, word) => poll.ever
    /\ poll.held => Matches(poll.target, word)
    /\ poll.hit => poll.ever
    /\ poll.at \in {"clock", "sleep"} => ~poll.held

PollInv == /\ clock \in 0 .. MaxClock /\ word \in Words \union {Absent, Nil}
           /\ PollRuns /\ PollExact

IInv == Types /\ LockInv /\ YoungInv /\ AloneInv /\ AccountInv /\ PollInv

------------------------------------------------------------------------------
(* The slot *)

\* A step of Next is one of a watcher, one of a notifier, or leaves the slot alone.
LEMMA StepKinds ==
  ASSUME Next
  PROVE  \/ \E t \in Watchers :
              \/ \E k \in Keys : watch_lock(t, k)
              \/ watch_key(t) \/ watch_free(t) \/ watch_null(t) \/ watch_mtx(t) \/ watch_test(t)
              \/ watch_wake(t) \/ watch_take(t) \/ watch_clear(t) \/ watch_return(t)
         \/ \E t \in Notifiers :
              \/ \E k \in Keys, some \in BOOLEAN : notify_lock(t, k, some)
              \/ notify_compare(t) \/ notify_store(t) \/ notify_unlock(t)
         \/ UNCHANGED slots
<1>1. ASSUME NEW v, Change(v) PROVE UNCHANGED slots
  BY <1>1 DEF Change
<1>2. ASSUME NEW v, poll_begin(v) PROVE UNCHANGED slots
  BY <1>2 DEF poll_begin
<1>3. ASSUME polling \/ Time PROVE UNCHANGED slots
  BY <1>3 DEF polling, poll_get, poll_clock, poll_sleep, Time
<1>. QED BY <1>1, <1>2, <1>3 DEF Next, watch, notify

\* Types are preserved.
LEMMA TypesStep == ASSUME IInv, Next PROVE Types'
<1>1. ASSUME NEW t \in Watchers, NEW k \in Keys, watch_lock(t, k) PROVE Types'
  <2>1. alone' \in [Watchers -> BOOLEAN]
    BY <1>1 DEF watch_lock, IInv, Types
  <2>2. arg' \in [Threads -> ArgType]
    BY <1>1 DEF watch_lock, IInv, Types, ArgType, Threads
  <2>3. /\ pc' = [pc EXCEPT ![t] = "key"] /\ wlock' = t
        /\ UNCHANGED <<slot, mtx, res, since, due, raced>>
    BY <1>1 DEF watch_lock, Goto
  <2>. QED BY <2>1, <2>2, <2>3, WatchAssumption DEF IInv, Types, Threads, WatchPc
<1>2. ASSUME NEW t \in Watchers, watch_key(t) PROVE Types'
  BY <1>2, WatchAssumption DEF watch_key, Goto, IInv, Types, LockInv, Counts, WatchPc,
     NotifyPc, ArgType, Threads
<1>3. ASSUME NEW t \in Watchers, watch_free(t) PROVE Types'
  BY <1>3, WatchAssumption DEF watch_free, Goto, Freed, IInv, Types, LockInv, Counts,
     WatchPc, NotifyPc, ArgType, Threads
<1>4. ASSUME NEW t \in Watchers, watch_null(t) PROVE Types'
  BY <1>4, WatchAssumption DEF watch_null, Goto, IInv, Types, LockInv, Counts, WatchPc,
     NotifyPc, ArgType, Threads
<1>5. ASSUME NEW t \in Watchers, watch_mtx(t) PROVE Types'
  BY <1>5, WatchAssumption DEF watch_mtx, Goto, IInv, Types, LockInv, Counts, WatchPc,
     NotifyPc, ArgType, Threads
<1>6. ASSUME NEW t \in Watchers, watch_test(t) PROVE Types'
  <2>1. \/ pc' = [pc EXCEPT ![t] = "take"] /\ mtx' = mtx
        \/ pc' = [pc EXCEPT ![t] = "wait"] /\ mtx' = Free
    BY <1>6 DEF watch_test, Goto, Waits
  <2>. QED BY <1>6, <2>1, WatchAssumption DEF watch_test, IInv, Types, Threads, WatchPc
<1>7. ASSUME NEW t \in Watchers, watch_wake(t) PROVE Types'
  BY <1>7, WatchAssumption DEF watch_wake, Goto, IInv, Types, LockInv, Counts, WatchPc,
     NotifyPc, ArgType, Threads
<1>8. ASSUME NEW t \in Watchers, watch_take(t) PROVE Types'
  BY <1>8, WatchAssumption DEF watch_take, Goto, IInv, Types, LockInv, Counts, WatchPc,
     NotifyPc, ArgType, Threads
<1>9. ASSUME NEW t \in Watchers, watch_clear(t) PROVE Types'
  BY <1>9, WatchAssumption DEF watch_clear, Goto, IInv, Types, LockInv, Counts, WatchPc,
     NotifyPc, ArgType, Threads
<1>10. ASSUME NEW t \in Watchers, watch_return(t) PROVE Types'
  BY <1>10, WatchAssumption DEF watch_return, Goto, NoArg, IInv, Types, LockInv, Counts,
     WatchPc, NotifyPc, ArgType, Threads
<1>11. ASSUME NEW t \in Notifiers, NEW k \in Keys, NEW some \in BOOLEAN, notify_lock(t, k, some)
      PROVE  Types'
  BY <1>11, WatchAssumption DEF notify_lock, Goto, IInv, Types, LockInv, Counts,
     WatchPc, NotifyPc, ArgType, Threads
<1>12. ASSUME NEW t \in Notifiers, notify_compare(t) PROVE Types'
  <2>1. due' \in [Watchers -> Nat]
    BY <1>12 DEF notify_compare, Brings, IInv, Types, LockInv, Counts
  <2>2. /\ \/ pc' = [pc EXCEPT ![t] = "store"] /\ mtx' = t /\ wlock' = wlock
           \/ pc' = [pc EXCEPT ![t] = "idle"] /\ wlock' = Free /\ mtx' = mtx
        /\ UNCHANGED <<slot, arg, res, since, alone, raced>>
    BY <1>12 DEF notify_compare, Goto
  <2>. QED BY <2>1, <2>2, WatchAssumption DEF IInv, Types, Threads, NotifyPc, WatchPc
<1>13. ASSUME NEW t \in Notifiers, notify_store(t) PROVE Types'
  <2>1. Brings(t) \in Nat
    BY DEF Brings, IInv, LockInv, Counts
  <2>2. slot' \in [key : Keys \union {Free}, ready : BOOLEAN, val : Nat]
    BY <1>13, <2>1 DEF notify_store, IInv, Types
  <2>3. \/ pc' = [pc EXCEPT ![t] = "unlock"]
        \/ \E w \in Watchers : pc' = [pc EXCEPT ![t] = "unlock", ![w] = "relock"]
    BY <1>13 DEF notify_store, Goto
  <2>4. /\ pc' \in [Threads -> WatchPc \union NotifyPc]
        /\ \A u \in Watchers : pc'[u] = pc[u] \/ pc'[u] = "relock"
        /\ \A u \in Notifiers : pc'[u] = pc[u] \/ pc'[u] = "unlock"
    BY <2>3, WatchAssumption DEF IInv, Types, Threads, WatchPc, NotifyPc
  <2>. QED BY <1>13, <2>2, <2>4 DEF notify_store, IInv, Types, WatchPc, NotifyPc
<1>14. ASSUME NEW t \in Notifiers, notify_unlock(t) PROVE Types'
  BY <1>14, WatchAssumption DEF notify_unlock, Goto, IInv, Types, LockInv, Counts,
     WatchPc, NotifyPc, ArgType, Threads
<1>15. ASSUME UNCHANGED slots PROVE Types'
  BY <1>15 DEF slots, IInv, Types, LockInv, Counts, WatchPc, NotifyPc, ArgType, Threads
<1>. QED BY StepKinds, <1>1, <1>2, <1>3, <1>4, <1>5, <1>6, <1>7, <1>8, <1>9, <1>10,
     <1>11, <1>12, <1>13, <1>14, <1>15

\* The locks are held where the code holds them.
LEMMA LockStep == ASSUME IInv, Next PROVE LockInv'
<1>1. ASSUME NEW t \in Watchers, NEW k \in Keys, watch_lock(t, k) PROVE LockInv'
  BY <1>1, WatchAssumption DEF watch_lock, Goto, IInv, Types, LockInv, WlockHeld,
     MtxHeld, Counts, Threads, Registering, Collecting
<1>2. ASSUME NEW t \in Watchers, watch_key(t) PROVE LockInv'
  BY <1>2, WatchAssumption DEF watch_key, Goto, IInv, Types, LockInv, WlockHeld,
     MtxHeld, Counts, Threads, Registering, Collecting
<1>3. ASSUME NEW t \in Watchers, watch_free(t) PROVE LockInv'
  <2>1. WlockHeld' /\ MtxHeld'
    BY <1>3 DEF watch_free, Goto, 
       IInv, Types, LockInv, WlockHeld, MtxHeld, Threads, Registering, Collecting
  <2>2. /\ freed' \subseteq freed \union ({slot.val} \ {0})
        /\ UNCHANGED <<slot, made, given, res>>
    BY <1>3 DEF watch_free, Freed
  <2>3. slot.val # 0 => slot.val \in 1 .. made
    BY DEF IInv, LockInv, Counts
  <2>4. freed' \subseteq 1 .. made
    BY <2>2, <2>3 DEF IInv, LockInv, Counts
  <2>5. Counts'
    BY <2>2, <2>4 DEF IInv, LockInv, Counts
  <2>. QED BY <2>1, <2>5 DEF LockInv
<1>4. ASSUME NEW t \in Watchers, watch_null(t) PROVE LockInv'
  BY <1>4, WatchAssumption DEF watch_null, Goto, IInv, Types, LockInv, WlockHeld,
     MtxHeld, Counts, Threads, Registering, Collecting
<1>5. ASSUME NEW t \in Watchers, watch_mtx(t) PROVE LockInv'
  BY <1>5, WatchAssumption DEF watch_mtx, Goto, IInv, Types, LockInv, WlockHeld,
     MtxHeld, Counts, Threads, Registering, Collecting
<1>6. ASSUME NEW t \in Watchers, watch_test(t) PROVE LockInv'
  <2>1. \/ pc' = [pc EXCEPT ![t] = "take"] /\ mtx' = mtx
        \/ pc' = [pc EXCEPT ![t] = "wait"] /\ mtx' = Free
    BY <1>6 DEF watch_test, Goto, Waits
  <2>. QED BY <1>6, <2>1, WatchAssumption DEF watch_test, Counts, 
       IInv, Types, LockInv, WlockHeld, MtxHeld, Threads, Registering, Collecting
<1>7. ASSUME NEW t \in Watchers, watch_wake(t) PROVE LockInv'
  BY <1>7, WatchAssumption DEF watch_wake, Goto, IInv, Types, LockInv, WlockHeld,
     MtxHeld, Counts, Threads, Registering, Collecting
<1>8. ASSUME NEW t \in Watchers, watch_take(t) PROVE LockInv'
  BY <1>8, WatchAssumption DEF watch_take, Goto, IInv, Types, LockInv, WlockHeld,
     MtxHeld, Counts, Threads, Registering, Collecting
<1>9. ASSUME NEW t \in Watchers, watch_clear(t) PROVE LockInv'
  <2>1. WlockHeld' /\ MtxHeld'
    BY <1>9, WatchAssumption DEF watch_clear, Goto, 
       IInv, Types, LockInv, WlockHeld, MtxHeld, Threads, Registering, Collecting
  <2>2. Counts'
    BY <1>9 DEF watch_clear, IInv, Types, LockInv, Counts
  <2>. QED BY <2>1, <2>2 DEF LockInv
<1>10. ASSUME NEW t \in Watchers, watch_return(t) PROVE LockInv'
  BY <1>10, WatchAssumption DEF watch_return, Goto, NoArg, IInv, Types, LockInv,
     WlockHeld, MtxHeld, Counts, Threads, Registering, Collecting
<1>11. ASSUME NEW t \in Notifiers, NEW k \in Keys, NEW some \in BOOLEAN, notify_lock(t, k, some)
      PROVE  LockInv'
  BY <1>11, WatchAssumption DEF notify_lock, Goto, IInv, Types, LockInv, WlockHeld,
     MtxHeld, Counts, Threads, Registering, Collecting
<1>12. ASSUME NEW t \in Notifiers, notify_compare(t) PROVE LockInv'
  BY <1>12, WatchAssumption DEF notify_compare, Goto, Accepted, Brings, IInv, Types,
     LockInv, WlockHeld, MtxHeld, Counts, Threads, Registering, Collecting
<1>13. ASSUME NEW t \in Notifiers, notify_store(t) PROVE LockInv'
  <2>1. /\ pc[t] = "store" /\ pc'[t] = "unlock"
        /\ \A u \in Notifiers : u # t => pc'[u] = pc[u]
        /\ \A u \in Watchers : pc'[u] = pc[u] \/ (pc[u] = "wait" /\ pc'[u] = "relock")
    BY <1>13, WatchAssumption DEF notify_store, Goto, IInv, Types, Threads
  <2>2. WlockHeld' /\ MtxHeld'
    BY <1>13, <2>1, WatchAssumption DEF notify_store, 
       IInv, Types, LockInv, WlockHeld, MtxHeld, Threads, Registering, Collecting
  <2>3. Counts'
    BY <1>13 DEF notify_store, Replaced, Freed, Brings, IInv, Types, LockInv, Counts
  <2>. QED BY <2>2, <2>3 DEF LockInv
<1>14. ASSUME NEW t \in Notifiers, notify_unlock(t) PROVE LockInv'
  BY <1>14, WatchAssumption DEF notify_unlock, Goto, IInv, Types, LockInv, WlockHeld,
     MtxHeld, Counts, Threads, Registering, Collecting
<1>15. ASSUME UNCHANGED slots PROVE LockInv'
  BY <1>15 DEF slots, IInv, Types, LockInv, WlockHeld, MtxHeld, Counts, Threads,
     Registering, Collecting
<1>. QED BY StepKinds, <1>1, <1>2, <1>3, <1>4, <1>5, <1>6, <1>7, <1>8, <1>9, <1>10,
     <1>11, <1>12, <1>13, <1>14, <1>15

\* Nothing in the slot is older than the registration of who may get it.
LEMMA YoungStep == ASSUME IInv, Next PROVE YoungInv'
<1>. USE WatchAssumption DEF IInv, YoungInv, SlotYounger, ResYounger, SinceBound,
   Registered, Registering, Types, Threads, LockInv, Counts
<1>1. ASSUME NEW t \in Watchers, NEW k \in Keys, watch_lock(t, k) PROVE YoungInv'
  BY <1>1 DEF watch_lock, Goto
<1>2. ASSUME NEW t \in Watchers, watch_key(t) PROVE YoungInv'
  BY <1>2 DEF watch_key, Goto
<1>3. ASSUME NEW t \in Watchers, watch_free(t) PROVE YoungInv'
  BY <1>3 DEF watch_free, Goto, Freed
<1>4. ASSUME NEW t \in Watchers, watch_null(t) PROVE YoungInv'
  BY <1>4 DEF watch_null, Goto
<1>5. ASSUME NEW t \in Watchers, watch_mtx(t) PROVE YoungInv'
  BY <1>5 DEF watch_mtx, Goto
<1>6. ASSUME NEW t \in Watchers, watch_test(t) PROVE YoungInv'
  BY <1>6 DEF watch_test, Goto, Waits
<1>7. ASSUME NEW t \in Watchers, watch_wake(t) PROVE YoungInv'
  BY <1>7 DEF watch_wake, Goto
<1>8. ASSUME NEW t \in Watchers, watch_take(t) PROVE YoungInv'
  BY <1>8 DEF watch_take, Goto
<1>9. ASSUME NEW t \in Watchers, watch_clear(t) PROVE YoungInv'
  BY <1>9 DEF watch_clear, Goto
<1>10. ASSUME NEW t \in Watchers, watch_return(t) PROVE YoungInv'
  BY <1>10 DEF watch_return, Goto, NoArg
<1>11. ASSUME NEW t \in Notifiers, NEW k \in Keys, NEW some \in BOOLEAN, notify_lock(t, k, some)
      PROVE  YoungInv'
  BY <1>11 DEF notify_lock, Goto
<1>12. ASSUME NEW t \in Notifiers, notify_compare(t) PROVE YoungInv'
  BY <1>12 DEF notify_compare, Goto, Accepted, Brings
<1>13. ASSUME NEW t \in Notifiers, notify_store(t) PROVE YoungInv'
  BY <1>13 DEF notify_store, Goto, Replaced, Freed, Brings
<1>14. ASSUME NEW t \in Notifiers, notify_unlock(t) PROVE YoungInv'
  BY <1>14 DEF notify_unlock, Goto
<1>15. ASSUME UNCHANGED slots PROVE YoungInv'
  BY <1>15 DEF slots
<1>. HIDE WatchAssumption DEF IInv, YoungInv, SlotYounger, ResYounger, SinceBound,
   Registered, Registering, Types, Threads, LockInv, Counts
<1>. QED BY StepKinds, <1>1, <1>2, <1>3, <1>4, <1>5, <1>6, <1>7, <1>8, <1>9, <1>10,
     <1>11, <1>12, <1>13, <1>14, <1>15

\* A watcher that is alone gets what it is due.
LEMMA AloneStep == ASSUME IInv, Next PROVE AloneInv'
<1>. USE WatchAssumption DEF IInv, AloneInv, AloneIs, AloneNew, AloneKey, AloneDue,
   AloneRes, StoreKey, Registered, Registering, Types, WatchPc, NotifyPc, Threads,
   LockInv, WlockHeld, MtxHeld, Collecting, Counts, Brings
<1>1. ASSUME NEW t \in Watchers, NEW k \in Keys, watch_lock(t, k) PROVE AloneInv'
  BY <1>1 DEF watch_lock, Goto
<1>2. ASSUME NEW t \in Watchers, watch_key(t) PROVE AloneInv'
  BY <1>2 DEF watch_key, Goto
<1>3. ASSUME NEW t \in Watchers, watch_free(t) PROVE AloneInv'
  BY <1>3 DEF watch_free, Goto, Freed
<1>4. ASSUME NEW t \in Watchers, watch_null(t) PROVE AloneInv'
  BY <1>4 DEF watch_null, Goto
<1>5. ASSUME NEW t \in Watchers, watch_mtx(t) PROVE AloneInv'
  BY <1>5 DEF watch_mtx, Goto
<1>6. ASSUME NEW t \in Watchers, watch_test(t) PROVE AloneInv'
  BY <1>6 DEF watch_test, Goto, Waits
<1>7. ASSUME NEW t \in Watchers, watch_wake(t) PROVE AloneInv'
  BY <1>7 DEF watch_wake, Goto
<1>8. ASSUME NEW t \in Watchers, watch_take(t) PROVE AloneInv'
  BY <1>8 DEF watch_take, Goto
<1>9. ASSUME NEW t \in Watchers, watch_clear(t) PROVE AloneInv'
  BY <1>9 DEF watch_clear, Goto
<1>10. ASSUME NEW t \in Watchers, watch_return(t) PROVE AloneInv'
  BY <1>10 DEF watch_return, Goto, NoArg
<1>11. ASSUME NEW t \in Notifiers, NEW k \in Keys, NEW some \in BOOLEAN, notify_lock(t, k, some)
      PROVE  AloneInv'
  BY <1>11 DEF notify_lock, Goto
<1>12. ASSUME NEW t \in Notifiers, notify_compare(t) PROVE AloneInv'
  BY <1>12 DEF notify_compare, Goto, Accepted, Brings
<1>13. ASSUME NEW t \in Notifiers, notify_store(t) PROVE AloneInv'
  BY <1>13 DEF notify_store, Goto, Replaced, Freed, Brings
<1>14. ASSUME NEW t \in Notifiers, notify_unlock(t) PROVE AloneInv'
  BY <1>14 DEF notify_unlock, Goto
<1>15. ASSUME UNCHANGED slots PROVE AloneInv'
  BY <1>15 DEF slots
<1>. HIDE WatchAssumption DEF IInv, AloneInv, AloneIs, AloneNew, AloneKey, AloneDue,
   AloneRes, StoreKey, Registered, Registering, Types, WatchPc, NotifyPc, Threads,
   LockInv, WlockHeld, MtxHeld, Collecting, Counts, Brings
<1>. QED BY StepKinds, <1>1, <1>2, <1>3, <1>4, <1>5, <1>6, <1>7, <1>8, <1>9, <1>10,
     <1>11, <1>12, <1>13, <1>14, <1>15

\* Values are accounted for.
LEMMA AccountStep == ASSUME IInv, Next PROVE AccountInv'
<1>. USE WatchAssumption DEF IInv, AccountInv, Apart, TakenHeld, NullFreed,
   ValuesAccounted, Types, Threads, LockInv, WlockHeld, MtxHeld, Counts, Registering,
   Collecting
<1>1. ASSUME NEW t \in Watchers, NEW k \in Keys, watch_lock(t, k) PROVE AccountInv'
  BY <1>1 DEF watch_lock, Goto
<1>2. ASSUME NEW t \in Watchers, watch_key(t) PROVE AccountInv'
  BY <1>2 DEF watch_key, Goto
<1>3. ASSUME NEW t \in Watchers, watch_free(t) PROVE AccountInv'
  BY <1>3 DEF watch_free, Goto, Freed
<1>4. ASSUME NEW t \in Watchers, watch_null(t) PROVE AccountInv'
  BY <1>4 DEF watch_null, Goto
<1>5. ASSUME NEW t \in Watchers, watch_mtx(t) PROVE AccountInv'
  BY <1>5 DEF watch_mtx, Goto
<1>6. ASSUME NEW t \in Watchers, watch_test(t) PROVE AccountInv'
  BY <1>6 DEF watch_test, Goto, Waits
<1>7. ASSUME NEW t \in Watchers, watch_wake(t) PROVE AccountInv'
  BY <1>7 DEF watch_wake, Goto
<1>8. ASSUME NEW t \in Watchers, watch_take(t) PROVE AccountInv'
  BY <1>8 DEF watch_take, Goto
<1>9. ASSUME NEW t \in Watchers, watch_clear(t) PROVE AccountInv'
  BY <1>9 DEF watch_clear, Goto
<1>10. ASSUME NEW t \in Watchers, watch_return(t) PROVE AccountInv'
  BY <1>10 DEF watch_return, Goto, NoArg
<1>11. ASSUME NEW t \in Notifiers, NEW k \in Keys, NEW some \in BOOLEAN, notify_lock(t, k, some)
      PROVE  AccountInv'
  BY <1>11 DEF notify_lock, Goto
<1>12. ASSUME NEW t \in Notifiers, notify_compare(t) PROVE AccountInv'
  BY <1>12 DEF notify_compare, Goto, Accepted, Brings
<1>13. ASSUME NEW t \in Notifiers, notify_store(t) PROVE AccountInv'
  BY <1>13 DEF notify_store, Goto, Replaced, Freed, Brings
<1>14. ASSUME NEW t \in Notifiers, notify_unlock(t) PROVE AccountInv'
  BY <1>14 DEF notify_unlock, Goto
<1>15. ASSUME UNCHANGED slots PROVE AccountInv'
  BY <1>15 DEF slots
<1>. HIDE WatchAssumption DEF IInv, AccountInv, Apart, TakenHeld, NullFreed,
   ValuesAccounted, Types, Threads, LockInv, WlockHeld, MtxHeld, Counts, Registering,
   Collecting
<1>. QED BY StepKinds, <1>1, <1>2, <1>3, <1>4, <1>5, <1>6, <1>7, <1>8, <1>9, <1>10,
     <1>11, <1>12, <1>13, <1>14, <1>15

------------------------------------------------------------------------------
(* The polling call *)

\* Matches is a truth value.
LEMMA MatchesType == ASSUME NEW target, NEW v PROVE Matches(target, v) \in BOOLEAN
<1>1. wire_is_none(v) \in BOOLEAN /\ (v = target) \in BOOLEAN
  BY DEF wire_is_none
<1>2. CASE wire_is_none(target)
  BY <1>1, <1>2 DEF Matches
<1>3. CASE ~wire_is_none(target)
  BY <1>1, <1>3 DEF Matches
<1>. QED BY <1>2, <1>3

\* The polling call knows what it has met.
LEMMA PollStep == ASSUME IInv, Next PROVE PollInv'
<1>. USE WatchAssumption DEF IInv, PollInv, PollRuns, PollExact, PollType, Matches, wire_is_none
<1>1. ASSUME UNCHANGED polls PROVE PollInv'
  BY <1>1 DEF polls
<1>2. ASSUME NEW v \in Words \union {Absent, Nil}, Change(v) PROVE PollInv'
  BY <1>2 DEF Change
<1>3. ASSUME Time PROVE PollInv'
  BY <1>3 DEF Time
<1>4. ASSUME NEW v \in Targets, poll_begin(v) PROVE PollInv'
  <2>. HIDE DEF Matches, PollRuns, PollExact, PollType
  <2>1. Matches(v, word) \in BOOLEAN
    BY MatchesType
  <2>2. /\ poll'.at = "get" /\ poll'.target = v /\ poll'.t0 = clock /\ poll'.hit = FALSE
        /\ poll'.ever = Matches(v, word) /\ poll'.held = Matches(v, word)
        /\ UNCHANGED <<word, clock>>
    BY <1>4 DEF poll_begin
  <2>3. poll' \in PollType
    <3>1. v \in Targets /\ clock \in Nat
      OBVIOUS
    <3>. QED BY <1>4, <2>1, <3>1 DEF poll_begin, PollType
  <2>. QED BY <2>1, <2>2, <2>3 DEF PollRuns, PollExact, Matches
<1>5. ASSUME poll_get PROVE PollInv'
  BY <1>5 DEF poll_get
<1>6. ASSUME poll_clock PROVE PollInv'
  <2>. HIDE DEF Matches, PollRuns, PollExact, PollType
  <2>1. /\ poll.at = "clock" /\ poll \in PollType /\ poll.t0 <= clock /\ ~poll.held
        /\ Matches(poll.target, word) => poll.ever
    BY <1>6 DEF poll_clock, PollRuns
  <2>2. CASE clock - poll.t0 >= TickNs
    <3>1. poll' = [poll EXCEPT !.at = "returned"] /\ UNCHANGED <<word, clock>>
      BY <1>6, <2>2 DEF poll_clock, Expired
    <3>2. poll' \in PollType
      BY <2>1, <3>1 DEF PollType
    <3>3. /\ poll'.at = "returned" /\ poll'.target = poll.target /\ poll'.t0 = poll.t0
          /\ poll'.ever = poll.ever /\ poll'.held = poll.held /\ poll'.hit = poll.hit
      BY <2>1, <3>1 DEF PollType
    <3>. QED BY <2>1, <2>2, <3>1, <3>2, <3>3 DEF PollRuns, PollExact, Matches
  <2>3. CASE ~(clock - poll.t0 >= TickNs)
    <3>1. poll' = [poll EXCEPT !.at = "sleep", !.slept = clock] /\ UNCHANGED <<word, clock>>
      BY <1>6, <2>3 DEF poll_clock, Expired
    <3>2. poll' \in PollType
      <4>1. clock \in Nat
        OBVIOUS
      <4>. QED BY <2>1, <3>1, <4>1 DEF PollType
    <3>3. /\ poll'.at = "sleep" /\ poll'.target = poll.target /\ poll'.t0 = poll.t0
          /\ poll'.ever = poll.ever /\ poll'.held = poll.held /\ poll'.hit = poll.hit
      BY <2>1, <3>1 DEF PollType
    <3>. QED BY <2>1, <3>1, <3>2, <3>3 DEF PollRuns, PollExact, Matches
  <2>. QED BY <2>2, <2>3
<1>7. ASSUME poll_sleep PROVE PollInv'
  BY <1>7 DEF poll_sleep
<1>. HIDE DEF IInv, PollInv
<1>8. ASSUME NEW t \in Watchers, watch(t) \/ \E k \in Keys : watch_lock(t, k)
      PROVE  UNCHANGED polls
  BY <1>8 DEF watch, watch_lock, watch_key, watch_free, watch_null, watch_mtx, watch_test,
     watch_wake, watch_take, watch_clear, watch_return
<1>9. ASSUME NEW t \in Notifiers,
             notify(t) \/ \E k \in Keys, some \in BOOLEAN : notify_lock(t, k, some)
      PROVE  UNCHANGED polls
  BY <1>9 DEF notify, notify_lock, notify_compare, notify_store, notify_unlock
<1>. QED BY <1>1, <1>2, <1>3, <1>4, <1>5, <1>6, <1>7, <1>8, <1>9 DEF Next, polling

------------------------------------------------------------------------------
(* The invariant, and the properties it implies *)

\* The initial state satisfies the invariant.
LEMMA InitInv == ASSUME Init PROVE IInv
<1>1. Types
  BY WatchAssumption DEF Init, Types, WatchPc, NotifyPc, ArgType, NoArg, Threads
<1>2. LockInv
  BY WatchAssumption DEF Init, LockInv, WlockHeld, MtxHeld, Counts, Registering, Collecting,
     Threads
<1>3. YoungInv
  BY DEF Init, YoungInv, SlotYounger, ResYounger, SinceBound, Threads
<1>4. AloneInv
  BY DEF Init, AloneInv, AloneIs, AloneNew, AloneKey, AloneDue, AloneRes, StoreKey, Registered,
     Threads
<1>5. AccountInv
  BY DEF Init, AccountInv, Apart, TakenHeld, NullFreed, ValuesAccounted, Threads
<1>6. PollInv
  BY WatchAssumption DEF Init, PollInv, PollRuns, PollExact
<1>. QED BY <1>1, <1>2, <1>3, <1>4, <1>5, <1>6 DEF IInv

\* A step that changes nothing keeps the invariant.
LEMMA StutterInv == ASSUME IInv, UNCHANGED vars PROVE IInv'
<1>1. UNCHANGED slots /\ UNCHANGED polls
  BY DEF vars
<1>2. Types' /\ LockInv' /\ YoungInv'
  BY <1>1 DEF slots, IInv, Types, LockInv, WlockHeld, MtxHeld, Counts, YoungInv, SlotYounger,
     ResYounger, SinceBound, Registered
<1>3. AloneInv' /\ AccountInv'
  BY <1>1 DEF slots, IInv, AloneInv, AloneIs, AloneNew, AloneKey, AloneDue, AloneRes, StoreKey,
     Registered, Brings, AccountInv, Apart, TakenHeld, NullFreed, ValuesAccounted
<1>4. PollInv'
  BY <1>1 DEF polls, IInv, PollInv, PollRuns, PollExact
<1>. QED BY <1>2, <1>3, <1>4 DEF IInv

\* The inductive invariant holds in every state of kvspaceShmWatch, kvspaceShmNotify
\* and kvspaceWatch.
THEOREM Invariance == Spec => []IInv
<1>1. ASSUME IInv, [Next]_vars PROVE IInv'
  BY <1>1, StutterInv, TypesStep, LockStep, YoungStep, AloneStep, AccountStep, PollStep DEF IInv
<1>. QED BY InitInv, <1>1, PTL DEF Spec

\* Types, and wlock and the slot's mutex held exactly in the steps that take them.
THEOREM TypeCorrect == Spec => []TypeOK
<1>1. IInv => TypeOK
  BY DEF IInv, Types, LockInv, WlockHeld, MtxHeld, Counts, PollInv, TypeOK
<1>. QED BY Invariance, <1>1, PTL

\* WatchExact: kvspaceShmWatch returns no value from before it registered, and a watcher
\* alone in its slot returns the last value that was notified for its key.
THEOREM WatchExactness == Spec => []WatchExact
<1>1. IInv => WatchExact
  BY DEF IInv, YoungInv, ResYounger, AloneInv, AloneRes, WatchExact
<1>. QED BY Invariance, <1>1, PTL

\* ValuesAccounted: a value of kvspaceShmNotify is in the slot, freed or returned, and
\* only one of these, unless a registration met a collector.
THEOREM ValuesSafety == Spec => []ValuesAccounted
<1>1. IInv => ValuesAccounted
  BY DEF IInv, AccountInv
<1>. QED BY Invariance, <1>1, PTL

\* PollExact: kvspaceWatch reports a target it has met, or times out no earlier than its
\* deadline and not when the key held the target throughout.
THEOREM PollExactness == Spec => []PollExact
<1>1. IInv => PollExact
  BY DEF IInv, PollInv
<1>. QED BY Invariance, <1>1, PTL
==============================================================================
