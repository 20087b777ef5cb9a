SPECIFICATION Spec
CONSTANTS
  r1 = r1
  r2 = r2
  Requests = {r1, r2}
  a1 = a1
  a2 = a2
  Accounts = {a1, a2}
  k1 = k1
  k2 = k2
  Keys = {k1, k2}
  MaxTokens = 2
  MaxEvents = 3
  Nil = Nil
CHECK_DEADLOCK FALSE
INVARIANT ShowsLastCheck
INVARIANT OneEventPerMeeting
SYMMETRY RequestSymmetry
