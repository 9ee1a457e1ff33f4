\* One component per behaviour, each within the bounds the module gives it.
SPECIFICATION MCSpec
CONSTANTS
    w1 = w1
    w2 = w2
    t1 = t1
    t2 = t2
    g1 = g1
    h1 = h1
    h2 = h2
    Wallets = {w1, w2}
    Transfers = {t1, t2}
    Readers = {g1}
    Units = {1000, 2000}
    OpeningUnits = 3500
    MaxMishaps = 1
    Handlers = {h1, h2}
    MAX_PIN_ATTEMPTS = 2
    MaxCalls = 5
    MaxTicks = 1
    MaxAborts = 1
    Users = {g1}
    Countries = {"GT", "MX"}
    Deposits = {t1, t2}
    Providers = {"BANRURAL", "CODI"}
    Hooks = {g1, h1, h2}
    MaxStops = 1
    Fiats = {"GTQ", "MXN"}
    Clients = {h1, h2}
    MaxQuotes = 2
    Checks = {t1, t2}
    Officers = {h1, h2}
    Filters = {"open", "reported"}
    Transactions <- MCTransactions
    MaxFailures = 1
    MaxAsks = 3
    Requests = {h1, h2}
    Amounts = {2, 3}
    SpendingLimit = 5
    MaxCards = 2
    MaxRequests = 5
    MaxBreaks = 1
INVARIANTS ReservedIsExplained LockExclusive GuessesBounded
    NoSessionOfOldPIN OverspendIsLate StatusesAgree MintQueuedOnce QuoteUsedOnce AlertsHandled
SYMMETRY Symmetry
CHECK_DEADLOCK FALSE
