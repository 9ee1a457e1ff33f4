\* One operator at a time and no fault, fair handlers: each withdrawal ends one way.
SPECIFICATION FairSpec
CONSTANTS
    alice = alice
    partner = partner
    treasury = treasury
    r3 = r3
    Accounts <- MCAccounts
    Customers = {alice, partner}
    Requests = {r1, r2}
    Operators = {o1}
    Amounts = {1, 4}
    Rules <- MCRules
    OpeningBalance <- MCOpeningBalance
    SingleLimit = 4
    DailyLimit = 6
    ReportThreshold = 4
    StructuringMin = 3
    StructuringCount = 3
    MaxInFlight = 2
    MaxFaults = 0
    MaxToggles = 0
INVARIANTS
    SettledNotRefunded
PROPERTIES
    ImplementsObligation
    ObligationsGetRecorded
CHECK_DEADLOCK FALSE
