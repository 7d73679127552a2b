CONSTANTS
  REPLAY_CAP = 2
  ACK_EVERY_BYTES = 3
  MaxConns = 3
  MaxLosses = 2
  Graces = {TRUE}
  Hangups = FALSE
  MaxDown = 2
  MaxUp = 0
  RESUME_WINDOW = 0
  Absences = FALSE
  Detaches = FALSE
  Probes = FALSE
SPECIFICATION Spec
INVARIANTS
  DownIntegrity
  DownConserved
  AttachedHasReader
CHECK_DEADLOCK FALSE
