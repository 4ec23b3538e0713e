\* One boot of each side: the transmitter's own sensing and proposals of legal and illegal masks race on a link that loses, repeats and reorders.
SPECIFICATION Spec
CONSTANTS
  Base <- Channels3
  Masks <- TheMasks
  MinActive = 2
  MaxExcludedPct = 50
  LeadRounds = 1
  MaxLeadSlots = 8
  CommitRepeat = 1
  StatusInterval = 1
  Jitter = 2
  FollowerStatus = 7
  ProposalRetries = 1
  ProposalBackoff = 1
  MaxMaskDelta = 1
  MinUpdateGap = 1
  StaleMarkerSlots = 2
  RingDepth = 2
  GenCeiling = 4
  OperatorMasks <- Nothing
  LocalMasks <- AskDrop1
  ProposedMasks <- AskAll
  MayVeto = FALSE
  Replays = TRUE
  MaxSlot = 7
  MaxTickLag = 1
  MaxFlight = 1
  MaxProposals = 1
  LastProposal = 4
  MaxBoots = 1
  MaxResumes = 0
  MaxFollowerBoots = 1
INVARIANT TypeOK
INVARIANT OneStatePerGeneration
INVARIANT NeverEarly
INVARIANT BeaconRecovers
INVARIANT UpdatesAreBounded
PROPERTY NoFalseAlarm
