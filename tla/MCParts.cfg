CONSTANTS
  x = x
  y = y
  REPLAY_CAP = 3
  MaxSent = 6
  Byte <- MCByte
  Payloads <- MCPayloads
  MaxCalls = 3
  MaxRefusals = 1
  Targets = {"a", "b"}
  CAP = 1
  MaxOut = 2
  MaxLoads = 2
  Total = 2
  MaxRecords = 2
  MaxOpens = 2
  KnownLosses = {}
  Heights = {2, 3}
  MaxLines = 4
  MaxOutputs = 2
  RATCHET_LINES = 2
  Tabs = {"a", "b"}
  MaxKeys = 3
  MaxCreds = 2
  INPUT_WINDOW = 1
  RETRY_WINDOW = 2
  MaxTime = 4
  MaxBase = 2
  Reach = 3
  Ids = {"p", "q"}
  CardTabs = {"a"}
  HISTORY_CAP = 1
  Tree <- MCTree
  FileNames = {"f"}
  MaxDepth = 2
  MaxLists = 2
  MaxUploads = 1
  MaxVisits = 2
  MaxSessions = 2
SPECIFICATION MCSpec
INVARIANTS IndInv TailExact NoJam NoCrossKey HandedWhole Polled RefitsReplayed OneIdentity RecordMatches HintIsEarned MirrorTrue ListedIsHere UploadsAppear
PROPERTIES KeepsTheLine NeverOverstates HeldIntact DragIsOneThing CardsAreTheUsers
CHECK_DEADLOCK FALSE
