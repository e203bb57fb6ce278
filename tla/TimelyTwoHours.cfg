\* A unit of time is two hours: 16 and 8 hours are 8 and 4 units, the send margin is
\* rounded up to one and the shorter periods down to none.  The OUT is locked for 20 hours.
\* Any two faults that the retries are made for.  A transferIn may stay in its pool for
\* any time, also past the next try.
CONSTANTS
    out1 = out1
    in1 = in1
    secret1 = secret1
    NoPreimage = NoPreimage
    NoTid = NoTid
    TransferOuts = {out1}
    TransferIns = {in1}
    Secrets = {secret1}
    RelatedIn <- OneRelatedIn
    HashLock <- OneHashLock
    OutTimeLock <- OneOutTimeLock
    DstAmount <- OneDstAmount
    Fees = {1}
    MinSrcTimeout = 8
    DstTimeLockGap = 4
    SendMargin = 1
    TimeLockSafeMargin = 0
    RetryAfter = 0
    MaxAge = 1
    Horizon = 11
    FaultKinds = {"crash", "drop", "error"}
    MaxFaults = 2
SPECIFICATION FairTimelySpec
INVARIANT
    NodeNeverLoses
    PreimageKept
    TimelyInv
PROPERTY
    ClaimedIsCollected
    UnclaimedIsRefunded
