SPECIFICATION Spec
CONSTANTS
  MaxSyncs = 2
  Emails = {e1}
  DriveSlots = 2
  Title = "weekly"
  AssetsToo = FALSE
  MaxFaults = 1
INVARIANT Playable
CHECK_DEADLOCK FALSE
