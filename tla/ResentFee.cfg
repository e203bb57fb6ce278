\* No fault but time: a transferIn stays in its pool until its row is taken up again,
\* and the gateway names another fee.  The OUT is locked until 5.
CONSTANTS
    out1 = out1
    out2 = out2
    in1 = in1
    secret1 = secret1
    NoPreimage = NoPreimage
    NoTid = NoTid
    TransferOuts = {out1}
    TransferIns = {in1}
    Secrets = {secret1}
    RelatedIn <- OneRelatedIn
    HashLock <- OneHashLock
    OutTimeLock <- OneOutTimeLock
    DstAmount <- OneDstAmount
    Fees = {0, 1}
    MinSrcTimeout = 3
    DstTimeLockGap = 2
    SendMargin = 0
    TimeLockSafeMargin = 0
    RetryAfter = 0
    MaxAge = 1
    Horizon = 6
    FaultKinds = {}
    MaxFaults = 0
SPECIFICATION Spec
INVARIANT
    EarnedFeeIsShown
