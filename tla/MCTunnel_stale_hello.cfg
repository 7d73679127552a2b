CONSTANTS
  REPLAY_CAP = 1
  ACK_EVERY_BYTES = 1
  MaxConns = 3
  MaxLosses = 2
  Graces = {TRUE}
  Hangups = FALSE
  MaxDown = 1
  MaxUp = 0
  RESUME_WINDOW = 1
  Absences = FALSE
  Detaches = FALSE
  Probes = FALSE
SPECIFICATION Spec
PROPERTIES
  GapIsFinal
CHECK_DEADLOCK FALSE
