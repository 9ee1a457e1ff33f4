\* Two operator calls on one withdrawal overlap.
SPECIFICATION Spec
CONSTANTS
    alice = alice
    partner = partner
    treasury = treasury
    r3 = r3
    Accounts <- MCAccounts
    Customers = {alice, partner}
    Requests = {r1}
    Operators = {o1, o2}
    Amounts = {2, 4}
    Rules <- MCRules
    OpeningBalance <- MCOpeningBalance
    SingleLimit = 4
    DailyLimit = 6
    ReportThreshold = 4
    StructuringMin = 3
    StructuringCount = 3
    MaxInFlight = 2
    MaxFaults = 0
    MaxToggles = 1
INVARIANTS
    OneOutcome
CHECK_DEADLOCK FALSE
