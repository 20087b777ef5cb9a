SPECIFICATION SpeechSpec
CONSTANTS
  Length = 9
  Target = 5
  SegPad = 1
  SegOverlap = 2
  MinSpeech = 1
  MinSilence = 1
  VadPad = 1
  VadSilence = 0
  PieceTarget = 2
  MinWords = 1
  ModelLimit = 5
  BatchSize = 2
  DedupMax = 3
  MaxRepeat = 1
  MaxFills = 2
  MaxDrifts = 2
  Hangul <- MCHangul
  Letters = {"a", "p", "i"}
  Digits = {"1", "5"}
  JosaHeads = {"eul"}
  Seed <- MCSeed
  Entries <- MCEntries
  RawLines <- MCRawLines
  Requests = {r1, r2}
  MaxTerms = 1
  MaxEdits = 3
  Recordings <- MCRecordings
  AgentItems <- MCAgentItems
  MaxItems = 2
  MaxCommands = 3
  Nil = Nil
INVARIANTS
  SpeechIsCovered
  TextWithinItsTimes
  LostOnlyIntoItsLike
  OncePerWord
  SteadyEntriesApply
  LinesSurvive
  OutputsAgree
  MarksSurvive
CHECK_DEADLOCK FALSE
