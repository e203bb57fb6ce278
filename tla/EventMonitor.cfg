\* A chain of up to four blocks, read two blocks behind the latest.
CONSTANTS
    out1 = out1
    out2 = out2
    in1 = in1
    NoRow = NoRow
    Events = {out1, out2, in1}
    Blocks <- SomeBlocks
    Order <- TwoMonitors
    MonitorOf <- NameOf
    OwnMonitors = {"LogNewTransferIn"}
    watchConfig <- TwoBehind
    BlockSize = 2
    Word = 16
    MaxBlock = 4
    MaxCrashes = 1
SPECIFICATION FairSpec
INVARIANT
    ReadsAreSettled
    ReadsSeeHandledEvents
    HandledStayOnChain
    MonitorInv
PROPERTY
    ImplementsDelivery
    DeliversAll
