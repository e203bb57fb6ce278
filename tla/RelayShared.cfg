\* Two users lock OUTs under one hash lock for one address, so both relate to
\* one IN.  They bring 3 and 1 tokens, and the gateway names a new fee:
\* smaller than, equal to or larger than the amount.  One call fails: one of the two
\* inserts of an OUT, an update or a submission.  Time is coarser: the IN expires at
\* 1, the OUTs at 2.
CONSTANTS
    out1 = out1
    out2 = out2
    in1 = in1
    secret1 = secret1
    NoPreimage = NoPreimage
    NoTid = NoTid
    TransferOuts = {out1, out2}
    TransferIns = {in1}
    Secrets = {secret1}
    RelatedIn <- SharedRelatedIn
    HashLock <- SharedHashLock
    OutTimeLock <- SharedOutTimeLock
    DstAmount <- SharedDstAmount
    Fees = {1, 3, 4}
    MinSrcTimeout = 1
    DstTimeLockGap = 1
    SendMargin = 0
    TimeLockSafeMargin = 0
    RetryAfter = 0
    MaxAge = 1
    Horizon = 2
    FaultKinds = {"error"}
    MaxFaults = 1
SPECIFICATION Spec
INVARIANT
    InIsBacked
    IInv
