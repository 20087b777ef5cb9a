SPECIFICATION CoreSpec
CONSTANTS
  WindowCount = 2
  SumOn = TRUE
  ExOn = TRUE
  CriticOn = TRUE
  LocalizeOn = TRUE
  MaxParallel = 2
  Retries = 1
  Meetings <- MCMeetings
  ExcludeRatio = 15
  MinHangul = 5
  MinChars = 40
  MaxCps = 12
  CpsRatio = 50
  LowConfRatio = 45
  LineSec = 10
  WindowSegments = 2
  WindowOverlap = 1
  LongFormSec = 2400
  GateListMax = 1
  WithCritic = TRUE
  WithLocalize = TRUE
  None = None
INVARIANTS
  SignalsReachUser
  NoCallOutlivesCore
  LossIsTraced
  MinutesAreGrounded
  ActionsSurvive
  RowsNameTheirBlock
  UnseenIsTold
PROPERTY CoreEnds
CHECK_DEADLOCK FALSE
