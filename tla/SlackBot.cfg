\* Two users in one thread, three events or commands handled at the same time.
SPECIFICATION BotSpec
CONSTANTS
  u1 = u1
  u2 = u2
  Users = {u1, u2}
  t1 = t1
  t2 = t2
  t3 = t3
  Pool = {t1, t2, t3}
  Nil = Nil
  MaxCalls = 2
  MaxNotices = 2
  MaxBusy = 2
SYMMETRY Symmetry
INVARIANT AskedIsExpected
INVARIANT LockoutIsTold
INVARIANT BroadcastIsOrdered
