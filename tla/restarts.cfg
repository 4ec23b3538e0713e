\* Either process restarts, under an asynchronous host whose drain callbacks may be lost and whose retunes may throw: an activation rests on an adopted nonce, the ground moves only for a commit it adopted, and no migration hangs on the drone.
SPECIFICATION FairSpec
CONSTANTS
  A = A
  B = B
  C = C
  NoChannel = NoChannel
  Channels <- AllChannels
  Source = A
  Rescue = C
  Allowed <- AllChannels
  Proposable <- OnlyTarget
  ProposalInterval = 1
  ProposalMaxTries = 3
  CommitInterval = 1
  StatusInterval = 1
  AckTimeout = 4
  Countdown = 2
  Lead = 1
  DrainDeadline = 1
  BlankWindow = 1
  VerifyMarkers = 2
  VerifyVideo = 1
  RollbackTime = 3
  FollowSlack = 1
  RecoveryDwell = 1
  HoldDown = 2
  SettleStatus = 3
  MaxQueue = 3
  MaxGen = 1
  HostLocked = FALSE
  Prompt = TRUE
  Probe = FALSE
  MaxLost = 1
  MaxDup = 0
  MaxStale = 0
  MaxRetuneFails = 1
  MaxDrainStalls = 1
  MaxGroundRestarts = 1
  MaxDroneRestarts = 1
INVARIANTS
  ActivationNeedsNonce
  NoRetuneUnadopted
PROPERTIES
  DroneSettles
