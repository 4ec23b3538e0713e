\* The operator undoes a granted proposal that stays on the air; proposals may be vetoed, denied or never answered; commits may all be lost, beacons are heard in the end.
SPECIFICATION FairSpec
CONSTANTS
  Base <- Channels3
  Masks <- TheMasks
  MinActive = 2
  MaxExcludedPct = 50
  LeadRounds = 1
  MaxLeadSlots = 8
  CommitRepeat = 1
  StatusInterval = 1
  Jitter = 2
  FollowerStatus = 0
  ProposalRetries = 2
  ProposalBackoff = 1
  MaxMaskDelta = 1
  MinUpdateGap = 0
  StaleMarkerSlots = 2
  RingDepth = 2
  GenCeiling = 4
  OperatorMasks <- AskFull
  LocalMasks <- Nothing
  ProposedMasks <- AskDrop2
  MayVeto = TRUE
  Replays = TRUE
  MaxSlot = 6
  MaxTickLag = 1
  MaxFlight = 0
  MaxProposals = 1
  LastProposal = 20
  MaxBoots = 1
  MaxResumes = 0
  MaxFollowerBoots = 1
INVARIANT OneCommitPerProposal
PROPERTY Rejoins
PROPERTY ProposalEnds
