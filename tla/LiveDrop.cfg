\* One pair of transfers, fair scheduling, one transaction may be lost.
CONSTANTS
    out1 = out1
    out2 = out2
    in1 = in1
    secret1 = secret1
    NoPreimage = NoPreimage
    NoTid = NoTid
    TransferOuts = {out1}
    TransferIns = {in1}
    Secrets = {secret1}
    RelatedIn <- OneRelatedIn
    HashLock <- OneHashLock
    OutTimeLock <- OneOutTimeLock
    DstAmount <- OneDstAmount
    Fees = {1}
    MinSrcTimeout = 3
    DstTimeLockGap = 2
    SendMargin = 1
    TimeLockSafeMargin = 0
    RetryAfter = 0
    MaxAge = 1
    Horizon = 6
    FaultKinds = {"drop"}
    MaxFaults = 1
SPECIFICATION FairSpec
PROPERTY
    UnclaimedIsRefunded
