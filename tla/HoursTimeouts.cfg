\* One unit of time is an hour: the timeouts of server.go as they are in the code.
CONSTANTS
    out1 = out1
    out2 = out2
    in1 = in1
    secret1 = secret1
    NoPreimage = NoPreimage
    NoTid = NoTid
    TransferOuts = {out1}
    TransferIns = {in1}
    Secrets = {secret1}
    RelatedIn <- HoursRelatedIn
    HashLock <- HoursHashLock
    OutTimeLock <- HoursOutTimeLock
    DstAmount <- HoursDstAmount
    Fees = {1}
    MinSrcTimeout = 16
    DstTimeLockGap = 8
    SendMargin = 1
    TimeLockSafeMargin = 0
    RetryAfter = 0
    MaxAge = 1
    Horizon = 1
    FaultKinds = {}
    MaxFaults = 0
SPECIFICATION Spec
INVARIANT
    DstTimeoutIsTwoHoursSmaller
