\* Two migrations with the pre-commit probe, targets the drone refuses, lost and duplicated frames: a settled drone knows its channel, and the two ends always end settled on one channel.
SPECIFICATION FairSpec
CONSTANTS
  A = A
  B = B
  C = C
  NoChannel = NoChannel
  Channels <- AllChannels
  Source = A
  Rescue = C
  Allowed <- NotRescue
  Proposable <- AllChannels
  ProposalInterval = 1
  ProposalMaxTries = 3
  CommitInterval = 1
  StatusInterval = 1
  AckTimeout = 4
  Countdown = 2
  Lead = 1
  DrainDeadline = 1
  BlankWindow = 1
  VerifyMarkers = 2
  VerifyVideo = 1
  RollbackTime = 3
  FollowSlack = 1
  RecoveryDwell = 1
  HoldDown = 2
  SettleStatus = 3
  MaxQueue = 3
  MaxGen = 2
  HostLocked = TRUE
  Prompt = TRUE
  Probe = TRUE
  MaxLost = 2
  MaxDup = 1
  MaxStale = 0
  MaxRetuneFails = 0
  MaxDrainStalls = 0
  MaxGroundRestarts = 0
  MaxDroneRestarts = 0
INVARIANTS
  DroneKnowsItsChannel
PROPERTIES
  Reunion
