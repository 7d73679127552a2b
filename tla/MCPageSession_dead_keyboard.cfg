CONSTANTS
  MaxSessions = 2
  AutoResume = TRUE
  Known = {}
SPECIFICATION MCSpec
INVARIANTS
  KeyboardLive
