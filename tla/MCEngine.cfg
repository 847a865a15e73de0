SPECIFICATION Spec
CONSTANTS
  Ino = {2, 3, 4}
  Name <- MCName
  Suspicious <- MCSuspicious
  Word = {1, 2}
  DayLength = 10
  Work = {"opens", "edits", "alarms", "briefs"}
  Excuse = {"unpublished", "torn", "cap", "names"}
  MaxCalls <- MCCalls
  MaxQueue <- MCQueue
  Week = 1
  PairFiles = 3
  MaxSessions = 1
  SavedFiles = 2
  SavedKeys = 2
  CoThreshold = 1
  MaxEntries = 3
  MaxTracked = 2
  InputSize = 1
  Window = 1
  PatternCount = 2
  StallOpens = 3
  ExploreFiles = 2
  NeglectDays = 2
  NeglectFiles = 1
  WarmFiles = 2
INVARIANTS LearnedSurvives SearchFollowsFiles MemoryMatchesHistory  AlarmsMatchWindow
PROPERTIES AlwaysHandled
CHECK_DEADLOCK FALSE
