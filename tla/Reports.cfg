\* Three transfers between two chains, their rows in any order, all of them or only
\* some.
CONSTANTS
    c1 = c1
    c2 = c2
    usdc = usdc
    dai = dai
    Chains = {c1, c2}
    Tokens = {usdc, dai}
    Tables <- SmallTables
    Limits = {0, 3, NoLimit}
    DefaultLimit = 5
    NoLimit = NoLimit
SPECIFICATION Spec
INVARIANT
    ReportMatchesTable
    ReportNeverOverstates
    ReportsInv
    PageShowsLatest
\* The handler ends when the page is written.
CHECK_DEADLOCK FALSE
