\* One migration whose frames are lost, duplicated, reordered, wait arbitrarily long and are left over from the channel before: an activation was heard by the ground, a settlement was proved by it, the ground ends where the drone is, and no exchange runs twice.
SPECIFICATION Spec
CONSTANTS
  A = A
  B = B
  C = C
  NoChannel = NoChannel
  Channels <- AllChannels
  Source = A
  Rescue = C
  Allowed <- AllChannels
  Proposable <- OnlyTarget
  ProposalInterval = 1
  ProposalMaxTries = 2
  CommitInterval = 1
  StatusInterval = 1
  AckTimeout = 2
  Countdown = 1
  Lead = 0
  DrainDeadline = 0
  BlankWindow = 1
  VerifyMarkers = 1
  VerifyVideo = 1
  RollbackTime = 2
  FollowSlack = 1
  RecoveryDwell = 1
  HoldDown = 2
  SettleStatus = 3
  MaxQueue = 3
  MaxGen = 1
  HostLocked = TRUE
  Prompt = FALSE
  Probe = FALSE
  MaxLost = 1
  MaxDup = 1
  MaxStale = 1
  MaxRetuneFails = 0
  MaxDrainStalls = 0
  MaxGroundRestarts = 0
  MaxDroneRestarts = 0
INVARIANTS
  TypeOK
  NeverActivatedUnheard
PROPERTIES
  SettlesOnlyIfProved
  GroundFollowsDrone
  NoExchangeTwice
