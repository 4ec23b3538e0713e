SPECIFICATION FairSpec
CONSTANTS
    a1 = a1
    a2 = a2
    t1 = t1
    Aps = {a1, a2}
    NoAp = NoAp
    Secured = {a1}
    MaxTries = 1
    MaxTxQueue = 3
    MgmtTimeout = 1
    HandshakeTimeout = 2
    BeaconLoss = 1
    Tids = {t1}
    Window = 2
    MaxJoins = 1
    ApTries = 1
    MaxRekeys = 0
    MaxStrays = 1
    MaxRepeats = 1
    MaxPn = 0
    MaxAir = 2
INVARIANT AskedIsAnswered
PROPERTY PromotedWithMsg4
PROPERTY JoinEnds
PROPERTY GoneApNoticed
CHECK_DEADLOCK FALSE
