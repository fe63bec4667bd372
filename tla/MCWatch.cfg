SPECIFICATION Spec
CONSTANTS
  w1 = w1
  w2 = w2
  n1 = n1
  k1 = k1
  k2 = k2
  Free = Free
  Nil = Nil
  Absent = Absent
  Watchers = {w1, w2}
  Notifiers = {n1}
  Keys = {k1, k2}
  MaxWatch = 2
  MaxNotify = 2
  Words = {"a", "b"}
  Targets = {"a", Absent}
  TickNs = 2
  MaxClock = 3
  MaxSet = 2
INVARIANTS TypeOK WatchExact ValuesAccounted PollExact
PROPERTY CallsReturn
CHECK_DEADLOCK FALSE
