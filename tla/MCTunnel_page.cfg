CONSTANTS
  REPLAY_CAP = 1
  ACK_EVERY_BYTES = 1
  MaxConns = 2
  MaxLosses = 1
  Graces = {TRUE}
  Hangups = FALSE
  MaxDown = 0
  MaxUp = 0
  RESUME_WINDOW = 1
  Absences = TRUE
  Detaches = TRUE
  Probes = TRUE
SPECIFICATION Spec
INVARIANTS
  OneLoop
  NoOrphan
  ResumingHasLoop
CHECK_DEADLOCK FALSE
