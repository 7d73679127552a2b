CONSTANTS
  REPLAY_CAP = 1
  ACK_EVERY_BYTES = 1
  MaxConns = 1
  MaxLosses = 1
  Graces = {TRUE}
  Hangups = FALSE
  MaxDown = 0
  MaxUp = 0
  RESUME_WINDOW = 0
  Absences = FALSE
  Detaches = FALSE
  Probes = FALSE
SPECIFICATION Spec
INVARIANTS
  RegisteredIsBounded
CHECK_DEADLOCK FALSE
