CONSTANTS
  REPLAY_CAP = 1
  ACK_EVERY_BYTES = 2
  MaxConns = 2
  MaxLosses = 1
  Graces = {TRUE, FALSE}
  Hangups = TRUE
  MaxDown = 1
  MaxUp = 1
  RESUME_WINDOW = 0
  Absences = FALSE
  Detaches = FALSE
  Probes = FALSE
SPECIFICATION Spec
INVARIANTS
  ParkedHasTimer
PROPERTIES
  CleanEnd
CHECK_DEADLOCK FALSE
