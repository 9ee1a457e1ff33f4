\* One part of the web app per behaviour, each within the bounds the module gives it.
SPECIFICATION MCSpec
CONSTANTS
    a1 = a1
    a2 = a2
    x1 = x1
    x2 = x2
    x3 = x3
    admin = admin
    u1 = u1
    u2 = u2
    p1 = p1
    p2 = p2
    Requests = {x1, x2}
    MAX_ATTEMPTS = 2
    MaxRequests = 5
    MaxLosses = 1
    Holders = {a1, a2}
    AuditAmounts = {15, 20}
    AuditOpening = 30
    Postings = {x1, x2}
    Auditors = {admin}
    MaxSettings = 1
    Payments = {x1, x2, x3}
    CardAmounts = {1, 2}
    CardOpening = 3
    MaxMoves = 1
    PageRequests = {x1, x2, x3}
    MaxLapses = 1
    DemoUsers = {a1, a2}
    DemoTransfers = {x1, x2, x3}
    DemoAmounts = {1, 2}
    DemoOpening = 2
    MaxMishaps = 1
    People = {u1, u2}
    Newcomers = {u2}
    Syncs = {x1, x2}
    BrowserAmounts = {1, 200}
    Opening = 200
    MaxPostings = 1
    MaxTrades = 2
    Traders = {u1, u2}
    Treasury = admin
    Swaps = {x1, x2, x3}
    SwapCoins = {"QUETZA", "MEXCOIN", "CORI", "DOLAR"}
    Mesoamerica = {"QUETZA", "CORI"}
    Rate <- MCRate
    SwapAmounts = {4, 1994}
    SwapOpening = 400
    SingleLimit = 1000000
    DailyLimit = 1000000
    MaxUnderWay = 2
    WalletAccounts = {a1, a2}
    NoAccount = admin
    MiniCalls = {x1, x2}
    Sends = {x1, x2, x3}
    Ids = {u1, u2}
    UserPhones = {"+502"}
    AdminPages = {p1, p2}
    App = x3
    Client = admin
    AccessCalls = {x1, x2}
    Loads = {a1, a2}
    MaxCalls = 3
    BankAccounts = {u1, u2}
    CountryOf <- MCCountryOf
    Country = "GT"
    None = admin
    WithdrawAmounts = {50, 300}
    WithdrawOpening = 200
    Rules <- MCRules
    Withdrawals = {x3}
    MaxMovements = 1
    Numbers = {"typed", "own", "known"}
    OwnerOf <- MCOwnerOf
    Demos = {"known"}
    Sender = "Luis"
    NobodyThere = "nobody"
    Empty = "empty"
    SendCoins = {"QUETZA"}
    SendAmounts = {1, 2}
    LookUps = {x1, x2}
    CoinTransfers = {x3}
INVARIANTS LockoutHolds StatusFollowsSubmission RefusedWasSpent DoneAsMeant NothingMadeOrLost
    OwnAccountShown SwapsSound AccountsKept
PROPERTIES AlarmsExplained
SYMMETRY Symmetry
CHECK_DEADLOCK FALSE
