CONSTANTS
  REPLAY_CAP = 1
  ACK_EVERY_BYTES = 1
  MaxConns = 2
  MaxLosses = 1
  Graces = {TRUE}
  Hangups = TRUE
  MaxDown = 0
  MaxUp = 0
  RESUME_WINDOW = 1
  Absences = TRUE
  Detaches = FALSE
  Probes = FALSE
SPECIFICATION FairSpec
PROPERTIES
  ResumeEnds
  ParkEnds
  DeadNoticed
CHECK_DEADLOCK FALSE
