\* All configurations of two chains with up to two tokens each, two accounts.
CONSTANTS
    chainA = chainA
    chainB = chainB
    addr1 = addr1
    addr2 = addr2
    USDC = USDC
    DAI = DAI
    acct1 = acct1
    acct2 = acct2
    NoName = NoName
    NoAddr = NoAddr
    NoAccount = NoAccount
    NoEntry = NoEntry
    NoErr = NoErr
    NoAnswer = NoAnswer
    ChainIds = {chainA, chainB}
    Addrs = {addr1, addr2}
    Names = {USDC, DAI}
    Accounts = {acct1, acct2}
    Configs <- TwoChains
SPECIFICATION Spec
INVARIANT
    RoutesToSameName
    SharedNamesAreRouted
    PaysOnlyApproved
    AdvertisedArePaid
    StartInv
