\* Both sides restart, the transmitter with and without its session, and old frames are replayed.
SPECIFICATION Spec
CONSTANTS
  Base <- Channels3
  Masks <- TheMasks
  MinActive = 2
  MaxExcludedPct = 50
  LeadRounds = 1
  MaxLeadSlots = 8
  CommitRepeat = 1
  StatusInterval = 1
  Jitter = 2
  FollowerStatus = 0
  ProposalRetries = 2
  ProposalBackoff = 1
  MaxMaskDelta = 1
  MinUpdateGap = 1
  StaleMarkerSlots = 2
  RingDepth = 2
  GenCeiling = 2
  OperatorMasks <- AskDrop1
  LocalMasks <- Nothing
  ProposedMasks <- Nothing
  MayVeto = FALSE
  Replays = TRUE
  MaxSlot = 3
  MaxTickLag = 1
  MaxFlight = 1
  MaxProposals = 1
  LastProposal = 20
  MaxBoots = 2
  MaxResumes = 1
  MaxFollowerBoots = 2
PROPERTY ImplementsAbs
