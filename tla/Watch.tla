---------------------------------- MODULE Watch ----------------------------------
(***************************************************************************)
(* Waiting for a key: kvspaceShmWatch and kvspaceShmNotify (kvspace.c),    *)
(* and the polling kvspaceWatch (durable_abi.c).                           *)
(*                                                                         *)
(* Watch and Notify are calls of threads of one process on one handle.     *)
(* Keys are hashed to slots; a slot holds one key, one value and a flag,   *)
(* with a mutex and a condition variable of its own, and wlock guards all  *)
(* slots.  Registering takes wlock and not the slot's mutex; collecting    *)
(* the result takes the mutex and not wlock.  Slots do not interact, so    *)
(* there is one, shared by the keys that collide in it.  Keys are shorter  *)
(* than 256 bytes, which the slot's copy is cut to.                        *)
(*                                                                         *)
(* Values are numbered as Notify allocates them, 0 = NULL.  A wait ends by *)
(* a signal, its timeout or a spurious wake-up.                            *)
(***************************************************************************)
EXTENDS Naturals, FiniteSets

CONSTANTS
  Watchers,     \* threads that watch
  Notifiers,    \* threads that notify
  Keys,         \* keys that fall into the slot
  MaxWatch,     \* calls of each watcher
  MaxNotify,    \* calls of each notifier
  Free,         \* a mutex that nobody holds
  Nil,          \* a value of type None, as Absent in the eyes of kvspaceWatch
  Absent,       \* no value
  Words,        \* other values of the polled key
  Targets,      \* what is polled for
  TickNs,       \* tick_ns, in polling intervals
  MaxClock,     \* end of time
  MaxSet        \* changes of the polled key

ASSUME WatchAssumption ==
  /\ Watchers \intersect Notifiers = {} /\ Free \notin Watchers \union Notifiers
  /\ MaxWatch \in Nat /\ MaxNotify \in Nat /\ MaxSet \in Nat
  /\ TickNs \in Nat /\ MaxClock \in Nat /\ MaxClock > TickNs
  /\ Targets \subseteq Words \union {Absent, Nil}

VARIABLES
  slot,         \* key, ready, val of the slot
  wlock,        \* holder of wlock
  mtx,          \* holder of the slot's mutex
  pc,           \* where a thread is
  arg,          \* the key of a call, and whether Notify brings a value
  res,          \* Watch: its local r
  left,         \* calls of a thread that are left
  made,         \* number of values allocated by Notify
  freed,        \* values freed
  given,        \* values returned, which their callers own
  since,        \* Watch: number of values made when it registered
  due,          \* Watch: latest value notified for its key since then
  alone,        \* Watch: no other Watch was in the slot meanwhile
  raced,        \* a registration fell between a collector's two steps
  poll,         \* the polling call: target, t0, at, out, ever, held
  word,         \* the value of the polled key
  sets,         \* changes of it that are left
  clock         \* monotonic time

slots == <<slot, wlock, mtx, pc, arg, res, left, made, freed, given, since, due, alone, raced>>
polls == <<poll, word, sets, clock>>
vars == <<slots, polls>>

Threads == Watchers \union Notifiers
NoArg == [key |-> Free, some |-> FALSE]
Registering == {"key", "free", "null"}
Collecting  == {"take", "clear"}

\* The polling call shares nothing with the slots: a behaviour is about one of the two.
Init ==
  /\ slot = [key |-> Free, ready |-> FALSE, val |-> 0]
  /\ wlock = Free /\ mtx = Free
  /\ pc = [t \in Threads |-> "idle"]
  /\ arg = [t \in Threads |-> NoArg]
  /\ res = [t \in Watchers |-> 0]
  /\ made = 0 /\ freed = {} /\ given = {}
  /\ since = [t \in Watchers |-> 0] /\ due = [t \in Watchers |-> 0]
  /\ alone = [t \in Watchers |-> TRUE] /\ raced = FALSE
  /\ poll = [at |-> "idle"]
  /\ \/ /\ left = [t \in Threads |-> IF t \in Watchers THEN MaxWatch ELSE MaxNotify]
        /\ word = Absent /\ sets = 0 /\ clock = MaxClock
     \/ /\ left = [t \in Threads |-> 0]
        /\ word \in Words \union {Absent} /\ sets = MaxSet /\ clock = 0

Goto(t, l) == pc' = [pc EXCEPT ![t] = l]

------------------------------------------------------------------------------
(* kvspaceShmWatch *)

watch_lock(t, k) ==
  /\ pc[t] = "idle" /\ left[t] > 0 /\ wlock = Free
  /\ wlock' = t /\ Goto(t, "key")
  /\ arg' = [arg EXCEPT ![t].key = k]
  /\ left' = [left EXCEPT ![t] = @ - 1]
  /\ alone' = [u \in Watchers |->
                 CASE u = t -> \A o \in Watchers \ {t} : pc[o] = "idle"
                   [] u # t /\ pc[u] # "idle" -> FALSE
                   [] OTHER -> alone[u]]
  /\ UNCHANGED <<slot, mtx, res, made, freed, given, since, due, raced, polls>>

\* The slot is taken over, whoever waits in it.
watch_key(t) ==
  /\ pc[t] = "key"
  /\ slot' = [slot EXCEPT !.key = arg[t].key, !.ready = FALSE]
  /\ Goto(t, "free")
  /\ UNCHANGED <<wlock, mtx, arg, res, left, made, freed, given, since, due, alone, raced, polls>>

Freed(v) == IF v = 0 THEN freed ELSE freed \union {v}

watch_free(t) ==
  /\ pc[t] = "free"
  /\ freed' = Freed(slot.val)
  /\ raced' = (raced \/ \E o \in Watchers : pc[o] = "clear")
  /\ Goto(t, "null")
  /\ UNCHANGED <<slot, wlock, mtx, arg, res, left, made, given, since, due, alone, polls>>

watch_null(t) ==
  /\ pc[t] = "null"
  /\ slot' = [slot EXCEPT !.val = 0]
  /\ wlock' = Free /\ Goto(t, "lockmtx")
  /\ since' = [since EXCEPT ![t] = made] /\ due' = [due EXCEPT ![t] = 0]
  /\ UNCHANGED <<mtx, arg, res, left, made, freed, given, alone, raced, polls>>

watch_mtx(t) ==
  /\ pc[t] \in {"lockmtx", "relock"} /\ mtx = Free
  /\ mtx' = t /\ Goto(t, IF pc[t] = "relock" THEN "take" ELSE "test")
  /\ UNCHANGED <<slot, wlock, arg, res, left, made, freed, given, since, due, alone, raced, polls>>

\* Broken variant: the wait does not give the mutex up.
Waits_holding(t) == t

\* The holder of the mutex while t waits: pthread_cond_timedwait releases it.
Waits(t) == Free

watch_test(t) ==
  /\ pc[t] = "test"
  /\ IF slot.ready THEN Goto(t, "take") /\ UNCHANGED mtx
     ELSE Goto(t, "wait") /\ mtx' = Waits(t)
  /\ UNCHANGED <<slot, wlock, arg, res, left, made, freed, given, since, due, alone, raced, polls>>

\* The timeout passes, or the wait ends for no reason.
watch_wake(t) ==
  /\ pc[t] = "wait"
  /\ Goto(t, "relock")
  /\ UNCHANGED <<slot, wlock, mtx, arg, res, left, made, freed, given, since, due, alone, raced, polls>>

watch_take(t) ==
  /\ pc[t] = "take"
  /\ res' = [res EXCEPT ![t] = IF slot.ready THEN slot.val ELSE 0]
  /\ raced' = (raced \/ \E o \in Watchers : pc[o] = "null")
  /\ Goto(t, "clear")
  /\ UNCHANGED <<slot, wlock, mtx, arg, left, made, freed, given, since, due, alone, polls>>

watch_clear(t) ==
  /\ pc[t] = "clear"
  /\ slot' = [slot EXCEPT !.val = IF res[t] # 0 THEN 0 ELSE @, !.ready = FALSE]
  /\ given' = given \union ({res[t]} \ {0})
  /\ mtx' = Free /\ Goto(t, "returned")
  /\ UNCHANGED <<wlock, arg, res, left, made, freed, since, due, alone, raced, polls>>

watch_return(t) ==
  /\ pc[t] = "returned"
  /\ Goto(t, "idle") /\ res' = [res EXCEPT ![t] = 0] /\ arg' = [arg EXCEPT ![t] = NoArg]
  /\ since' = [since EXCEPT ![t] = 0] /\ due' = [due EXCEPT ![t] = 0]
  /\ alone' = [alone EXCEPT ![t] = TRUE]
  /\ UNCHANGED <<slot, wlock, mtx, left, made, freed, given, raced, polls>>

------------------------------------------------------------------------------
(* kvspaceShmNotify *)

notify_lock(t, k, some) ==
  /\ pc[t] = "idle" /\ left[t] > 0 /\ wlock = Free
  /\ wlock' = t /\ Goto(t, "compare")
  /\ left' = [left EXCEPT ![t] = @ - 1]
  /\ arg' = [arg EXCEPT ![t] = [key |-> k, some |-> some]]
  /\ UNCHANGED <<slot, mtx, res, made, freed, given, since, due, alone, raced, polls>>

\* Broken variant: only a thread that waits already is told.
Accepted_waiting(t) == slot.key = arg[t].key /\ \E w \in Watchers : pc[w] = "wait"

\* A notification for a key that is not the one registered is dropped.
Accepted(t) == slot.key = arg[t].key

Brings(t) == IF arg[t].some THEN made + 1 ELSE 0
Registered(w) == pc[w] \notin Registering \union {"idle", "returned"}

notify_compare(t) ==
  /\ pc[t] = "compare"
  /\ IF Accepted(t)
       THEN mtx = Free /\ mtx' = t /\ Goto(t, "store") /\ UNCHANGED wlock
       ELSE wlock' = Free /\ Goto(t, "idle") /\ UNCHANGED mtx
  /\ due' = [w \in Watchers |-> IF Registered(w) /\ arg[w].key = arg[t].key THEN Brings(t) ELSE due[w]]
  /\ UNCHANGED <<slot, arg, res, left, made, freed, given, since, alone, raced, polls>>

\* Broken variant: the value it replaces is forgotten.
Replaced_kept(v) == freed

\* The value that Notify replaces is freed.
Replaced(v) == Freed(v)

\* The value is stored and one waiter, if there is one, is woken: any of those in
\* the slot, whatever key it waits for.
notify_store(t) ==
  LET v == Brings(t)
      waiting == {w \in Watchers : pc[w] = "wait"}
  IN /\ pc[t] = "store"
     /\ slot' = [slot EXCEPT !.val = v, !.ready = TRUE]
     /\ freed' = Replaced(slot.val) /\ made' = IF v # 0 THEN v ELSE made
     /\ IF waiting = {} THEN Goto(t, "unlock")
        ELSE \E w \in waiting : pc' = [pc EXCEPT ![t] = "unlock", ![w] = "relock"]
     /\ UNCHANGED <<wlock, mtx, arg, res, left, given, since, due, alone, raced, polls>>

notify_unlock(t) ==
  /\ pc[t] = "unlock"
  /\ mtx' = Free /\ wlock' = Free /\ Goto(t, "idle")
  /\ UNCHANGED <<slot, arg, res, left, made, freed, given, since, due, alone, raced, polls>>

------------------------------------------------------------------------------
(* kvspaceWatch *)

\* No value, or one of type None.
wire_is_none(v) == v \in {Absent, Nil}

\* The value is what the caller waits for.
Matches(target, v) == IF wire_is_none(target) THEN wire_is_none(v) ELSE v = target

\* The polled key is set or deleted by somebody.
Change(v) ==
  /\ sets > 0 /\ v # word
  /\ word' = v /\ sets' = sets - 1
  /\ poll' = IF poll.at = "idle" THEN poll
             ELSE [poll EXCEPT !.ever = @ \/ Matches(poll.target, v),
                               !.held = @ /\ Matches(poll.target, v)]
  /\ UNCHANGED <<slots, clock>>

Time == clock < MaxClock /\ clock' = clock + 1 /\ UNCHANGED <<slots, poll, word, sets>>

poll_begin(target) ==
  /\ poll.at = "idle" /\ clock = 0
  /\ poll' = [at |-> "get", target |-> target, t0 |-> clock, out |-> Absent, slept |-> 0,
              hit |-> FALSE, ever |-> Matches(target, word), held |-> Matches(target, word)]
  /\ UNCHANGED <<slots, word, sets, clock>>

\* The value is read before the time.
poll_get ==
  /\ poll.at = "get"
  /\ poll' = IF Matches(poll.target, word)
               THEN [poll EXCEPT !.at = "returned", !.out = word, !.hit = TRUE]
               ELSE [poll EXCEPT !.at = "clock"]
  /\ UNCHANGED <<slots, word, sets, clock>>

\* Broken variant: the deadline is one interval early.
Expired_early(elapsed) == elapsed + 1 >= TickNs

\* Broken variant: the seconds are left out of the sum.
Expired_wrapped(elapsed) == elapsed % TickNs >= TickNs

Expired(elapsed) == elapsed >= TickNs

poll_clock ==
  /\ poll.at = "clock"
  /\ poll' = IF Expired(clock - poll.t0) THEN [poll EXCEPT !.at = "returned"]
             ELSE [poll EXCEPT !.at = "sleep", !.slept = clock]
  /\ UNCHANGED <<slots, word, sets, clock>>

\* usleep lasts one interval at least.
poll_sleep ==
  /\ poll.at = "sleep" /\ clock > poll.slept
  /\ poll' = [poll EXCEPT !.at = "get"]
  /\ UNCHANGED <<slots, word, sets, clock>>

------------------------------------------------------------------------------
watch(t) ==
  \/ watch_key(t) \/ watch_free(t) \/ watch_null(t) \/ watch_mtx(t) \/ watch_test(t)
  \/ watch_wake(t) \/ watch_take(t) \/ watch_clear(t) \/ watch_return(t)
notify(t) == notify_compare(t) \/ notify_store(t) \/ notify_unlock(t)
polling == poll_get \/ poll_clock \/ poll_sleep

Next ==
  \/ \E t \in Watchers : watch(t) \/ \E k \in Keys : watch_lock(t, k)
  \/ \E t \in Notifiers : notify(t) \/ \E k \in Keys, some \in BOOLEAN : notify_lock(t, k, some)
  \/ \E v \in Words \union {Absent, Nil} : Change(v)
  \/ \E v \in Targets : poll_begin(v)
  \/ polling \/ Time

\* Threads inside a call run, timeouts pass, time goes on; nobody has to call.
Fairness ==
  /\ \A t \in Watchers : WF_vars(watch(t))
  /\ \A t \in Notifiers : WF_vars(notify(t))
  /\ WF_vars(polling) /\ WF_vars(Time)

Spec == Init /\ [][Next]_vars /\ Fairness

------------------------------------------------------------------------------
(* Correctness *)

\* Types, and which steps hold which lock.
TypeOK ==
  /\ slot.key \in Keys \union {Free} /\ slot.ready \in BOOLEAN /\ slot.val \in 0 .. made
  /\ made \in Nat /\ freed \subseteq 1 .. made /\ given \subseteq 1 .. made
  /\ \A t \in Threads :
       /\ wlock = t <=> pc[t] \in Registering \union {"compare", "store", "unlock"}
       /\ mtx = t <=> pc[t] \in Collecting \union {"test", "store", "unlock"}
  /\ clock \in 0 .. MaxClock /\ word \in Words \union {Absent, Nil}

\* A Watch returns nothing that was notified before it registered, even when the
\* slot is shared; a Watch that has the slot for itself returns the last value
\* notified for its key since then, also one that arrives between its timeout and
\* its wake-up, and nothing if there was none.
WatchExact ==
  \A t \in Watchers : pc[t] = "returned" =>
    /\ res[t] # 0 => res[t] > since[t]
    /\ alone[t] => res[t] = due[t]

\* Every value that Notify allocates is in the slot, freed, or its receiver's, and
\* only one of these, unless a registration, which holds wlock, met a collector,
\* which holds the slot's mutex.
ValuesAccounted ==
  ~raced =>
    LET held == {slot.val} \ {0}
    IN /\ held \union freed \union given = 1 .. made
       /\ given \intersect (freed \union held) = {}
       /\ held \intersect freed # {} => \E t \in Watchers : pc[t] = "null"

\* A poll that reports the target has met it; one that times out does so at the
\* deadline and not earlier, and not if the key held the target all the time.
PollExact ==
  poll.at = "returned" =>
    IF poll.hit THEN poll.ever ELSE clock - poll.t0 >= TickNs /\ ~poll.held

\* Every call returns: Watch and Notify do not block each other for ever and a poll
\* ends after its deadline.
CallsReturn ==
  /\ \A t \in Threads : pc[t] # "idle" ~> pc[t] = "idle"
  /\ poll.at # "idle" ~> poll.at = "returned"
==============================================================================
