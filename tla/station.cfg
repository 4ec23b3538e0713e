SPECIFICATION Spec
CONSTANTS
    a1 = a1
    t1 = t1
    Aps = {a1}
    NoAp = NoAp
    Secured = {a1}
    MaxTries = 1
    MaxTxQueue = 3
    MgmtTimeout = 1
    HandshakeTimeout = 2
    BeaconLoss = 1
    Tids = {t1}
    Window = 2
    MaxJoins = 2
    ApTries = 1
    MaxRekeys = 1
    MaxStrays = 0
    MaxRepeats = 1
    MaxPn = 1
    MaxAir = 2
INVARIANT TypeOK
INVARIANT NoFrameTwice
INVARIANT KeysAgree
INVARIANT RequestsFit
INVARIANT QueueIsCurrent
CHECK_DEADLOCK FALSE
