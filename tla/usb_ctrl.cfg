\* Two slots, three accesses: two bring-up batches, or one and a send that drains, and ctrl_batch.
SPECIFICATION FairSpec
CONSTANTS
  Slots = {s1, s2}
  NoSlot = NoSlot
  MaxOps = 3
  MaxGroup = 3
  MaxSends = 1
  MaxTurns = 2
INVARIANT ReadsTheirOwn
INVARIANT VerdictIsTrue
INVARIANT InOrder
INVARIANT PoolIsSound
INVARIANT FreedIsQuiet
PROPERTY CallsReturn
CHECK_DEADLOCK FALSE
