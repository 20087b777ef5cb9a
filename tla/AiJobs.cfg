\* Two recordings, the first of which may hang in its engine, with an STT slot
\* each and one LLM slot that both and the verifications of users compete for;
\* every interleaving with cancels, stall passes and purges.
SPECIFICATION FairSpec
CONSTANTS
  s1 = s1
  s2 = s2
  SttJobs = {s1, s2}
  RegenJobs = {}
  SttSlots = 2
  LlmSlots = 1
  MarkStallAsError = TRUE
  Hangs = {s1}
INVARIANT SlotsAccounted
PROPERTY PurgeSparesOpenJobs
PROPERTY KeepsPromise
PROPERTY TablesReclaimed
PROPERTY EveryJobSettles
