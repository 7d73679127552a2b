CONSTANTS
  REPLAY_CAP = 1
  ACK_EVERY_BYTES = 1
  MaxConns = 2
  MaxLosses = 1
  Graces = {TRUE}
  Hangups = FALSE
  MaxDown = 0
  MaxUp = 1
  RESUME_WINDOW = 0
  Absences = FALSE
  Detaches = FALSE
  Probes = FALSE
SPECIFICATION Spec
INVARIANTS
  UpExact
CHECK_DEADLOCK FALSE
