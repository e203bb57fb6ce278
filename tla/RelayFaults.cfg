\* One pair of transfers; the OUT expires at 4, the IN at 2.  Two faults of any
\* kind: the node dies between any two steps, a call fails, a transaction is lost
\* or an event missed.  The gateway names a fee below or above the amount of 2 at
\* every try.  An IN may be sent at 0 and, after a fault, again at 1, while the first
\* transaction is still in its pool.
CONSTANTS
    out1 = out1
    out2 = out2
    in1 = in1
    secret1 = secret1
    NoPreimage = NoPreimage
    NoTid = NoTid
    TransferOuts = {out1}
    TransferIns = {in1}
    Secrets = {secret1}
    RelatedIn <- OneRelatedIn
    HashLock <- OneHashLock
    OutTimeLock <- EarlierOutTimeLock
    DstAmount <- OneDstAmount
    Fees = {1, 3}
    MinSrcTimeout = 3
    DstTimeLockGap = 2
    SendMargin = 0
    TimeLockSafeMargin = 0
    RetryAfter = 0
    MaxAge = 1
    Horizon = 4
    FaultKinds = {"crash", "drop", "error", "miss"}
    MaxFaults = 2
SPECIFICATION Spec
INVARIANT
    TypeOK
    StatusMatchesChain
    AmountConserved
    OneFeeCharged
    ConfirmedByNodeOnlyIfRevealed
    RefundOnlyUnclaimed
PROPERTY
    SettledRowsStay
    ImplementsAtomicSwap
