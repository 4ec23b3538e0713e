\* One retune that throws: the drone falls back with its video pump still off, and the ground scans for ever.
SPECIFICATION FairSpec
CONSTANTS
  A = A
  B = B
  C = C
  NoChannel = NoChannel
  Channels <- AllChannels
  Source = A
  Rescue = C
  Allowed <- AllChannels
  Proposable <- OnlyTarget
  ProposalInterval = 1
  ProposalMaxTries = 3
  CommitInterval = 1
  StatusInterval = 1
  AckTimeout = 4
  Countdown = 2
  Lead = 1
  DrainDeadline = 1
  BlankWindow = 1
  VerifyMarkers = 2
  VerifyVideo = 1
  RollbackTime = 3
  FollowSlack = 1
  RecoveryDwell = 1
  HoldDown = 2
  SettleStatus = 3
  MaxQueue = 3
  MaxGen = 1
  HostLocked = TRUE
  Prompt = TRUE
  Probe = FALSE
  MaxLost = 0
  MaxDup = 0
  MaxStale = 0
  MaxRetuneFails = 1
  MaxDrainStalls = 0
  MaxGroundRestarts = 0
  MaxDroneRestarts = 0
PROPERTIES
  Reunion
