SPECIFICATION Spec
CONSTANTS
  MaxMessages = 4
  KeepTurns = 2
  MaxCalls = 2
  ArchiveKeep = 1
  MaxSaid = 11
  MaxTalk = 7
  MaxCompactions = 2
  MaxCrashes = 1
INVARIANTS HistoryIsWellFormed WorkingSetSurvives TranscriptMirrorsHistory ConversationIsOnDisk
CHECK_DEADLOCK FALSE
