\* All time locks and eight instants, for the amounts around the powers of ten.
CONSTANTS
    Amounts <- SomeAmounts
    Decimals <- SomeDecimals
    Width = 7
    Int64 = 32
    Second = 4
    Microsecond = 2
    MinSrcTimeout = 4
    DstTimeLockGap = 2
    SendMargin = 1
    Clock <- TwoSeconds
    NoLock = NoLock
SPECIFICATION TermsSpec
INVARIANT
    TypeOK
    TermsInv
    ConvertedExactly
    PanicsOnlyPastWidth
    OverflowHasOneSide
    InExpiresBeforeOut
    InExpiresNoEarlier
\* The IN is sent, or is not, and the system stops.
CHECK_DEADLOCK FALSE
