CONSTANTS
  MaxSessions = 2
  AutoResume = TRUE
  Known = {}
SPECIFICATION MCSpec
INVARIANTS AskOwned NoOrphanSession ScreenTrue FreshReconnect
PROPERTIES DialEnds EndingKeepsAsk
