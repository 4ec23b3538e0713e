\* A COMMIT that waits until the drone has given up, then the ABORT: the ground settles on the target, the drone on the source, for good.
SPECIFICATION FairSpec
CONSTANTS
  A = A
  B = B
  C = C
  NoChannel = NoChannel
  Channels <- AllChannels
  Source = A
  Rescue = C
  Allowed <- AllChannels
  Proposable <- OnlyTarget
  ProposalInterval = 1
  ProposalMaxTries = 6
  CommitInterval = 1
  StatusInterval = 1
  AckTimeout = 4
  Countdown = 1
  Lead = 0
  DrainDeadline = 0
  BlankWindow = 1
  VerifyMarkers = 1
  VerifyVideo = 1
  RollbackTime = 2
  FollowSlack = 1
  RecoveryDwell = 1
  HoldDown = 2
  SettleStatus = 3
  MaxQueue = 4
  MaxGen = 1
  HostLocked = TRUE
  Prompt = FALSE
  Probe = FALSE
  MaxLost = 0
  MaxDup = 0
  MaxStale = 0
  MaxRetuneFails = 0
  MaxDrainStalls = 0
  MaxGroundRestarts = 0
  MaxDroneRestarts = 0
PROPERTIES
  SplitHeals
