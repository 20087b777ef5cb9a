CONSTANTS
    Meetings <- LongMeetings
    ExcludeRatio = 15
    MinHangul = 5
    MinChars = 40
    MaxCps = 12
    CpsRatio = 50
    LowConfRatio = 45
    LineSec = 10
    WindowSegments = 2
    WindowOverlap = 1
    LongFormSec = 2400
    GateListMax = 1
    WithCritic = TRUE
    WithLocalize = TRUE
    None = None
SPECIFICATION TextSpec
INVARIANT JoinIsKept
CHECK_DEADLOCK FALSE
