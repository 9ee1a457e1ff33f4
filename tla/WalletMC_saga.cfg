\* Two requests, two operators, a fault and the freeze flag in every order; and
\* three requests of one customer with neither.
SPECIFICATION MCSpec
CONSTANTS
    alice = alice
    partner = partner
    treasury = treasury
    r3 = r3
    Accounts <- MCAccounts
    Customers = {alice, partner}
    Requests = {r1, r2, r3}
    Operators = {o1, o2}
    Amounts = {2, 4}
    Rules <- MCRules
    OpeningBalance <- MCOpeningBalance
    SingleLimit = 4
    DailyLimit = 6
    ReportThreshold = 4
    StructuringMin = 6
    StructuringCount = 3
    MaxInFlight = 2
    MaxFaults = 1
    MaxToggles = 1
INVARIANTS
    BalancesDerived
    DocumentsMatchLedger
    DebitsTracked
    DailyOvershootBounded
    StructuringDetected
ACTION_CONSTRAINT TwoOrQuiet
SYMMETRY Symmetry
CHECK_DEADLOCK FALSE
