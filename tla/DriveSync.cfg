SPECIFICATION TwinsSpec
CONSTANTS
  MaxSyncs = 2
  Emails = {e1}
  DriveSlots = 2
  Title = "weekly"
  AssetsToo = TRUE
  MaxFaults = 1
  Size = 3
  OtherTitle = "monthly"
INVARIANT OneLiveSync
INVARIANT RecordingKept
INVARIANT PlaysWhileItMoves
INVARIANT DeletionSparesOthers
CHECK_DEADLOCK FALSE
