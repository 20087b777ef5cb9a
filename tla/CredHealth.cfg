SPECIFICATION HealthSpec
CONSTANTS
  Users = {u1}
  Workers = {w1}
  Sweeper = sweeper
  EncKeys = {k1, k2}
  NoKey = nokey
  Kinds = {"api_key", "oauth_token"}
  None = None
  MaxCreds = 3
  MaxRestarts = 2
  MaxFaults = 1
INVARIANT SecretsStayReadable
PROPERTY VerdictsHeal
