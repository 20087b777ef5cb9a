\* Two tabs on one meeting, every interleaving of their requests; and the
\* server's two loops beside them.
SPECIFICATION AllSpec
CONSTANTS
  c1 = c1
  c2 = c2
  Conditional = {c1}
  Exporters = {c2}
  None = None
  Clients = {c1, c2}
  OldPreviews = TRUE
  LostReplies = TRUE
  MaxTime = 1
  MaxGens = 2
  MaxEdits = 2
  MaxEtag = 2
  MaxIssues = 1
  Keeps = {0, 2}
  MaxRows = 1
  MaxEvents = 2
  MaxFiles = 3
INVARIANT EtagNamesContent
PROPERTY AcceptedEditsSurvive
PROPERTY OriginalOutlives
INVARIANT NewestSnapshotKept
PROPERTY UpkeepGoesOn
