\* Contract calls of every kind; two runs of the mint route and two editors.
SPECIFICATION MCSpec
CONSTANTS
    treasury = treasury
    compliance = compliance
    customer = customer
    partner = partner
    house = house
    ref1 = ref1
    d1 = d1
    d2 = d2
    d3 = d3
    t1 = t1
    t2 = t2
    Holders <- MCHolders
    InitialCap = 6
    Values = {0, 2, 9}
    MaxUint = 9
    MaxCalls = 3
    Requests = {q1, q2}
    Editors = {e1, e2}
    References = {ref1}
    Gross <- MCGross
    Recipients = {partner, house}
    WalletOf <- MCWallets
    NoWallet = NoWallet
    DefaultRule <- MCDefault
    Updates <- MCUpdates
    MaxStops = 1
    CoinList <- MCCoinList
    PhaseOne <- MCPhaseOne
    Remaining <- MCRemaining
    Asked = "COLON"
    Factory <- MCFactory
    Runs = {d1, d2, d3}
    MaxFactories = 2
    MaxHalts = 2
    Countries = {"GT", "MX"}
    FirstCountry = "GT"
    Fees = {1, 2}
    DefaultFee = 1
    Loads = {l1, l2}
    Mints = {m1}
    MaxSaves = 1
    Tabs = {t1, t2}
    Typed = {125, 9000}
    Rates = {2}
    MaxSets = 3
INVARIANTS
    MintsAccounted
    SupplyWithinCap
    FilesHold
    SettingsKept
PROPERTIES
    FrozenBalances
SYMMETRY Symmetry
CHECK_DEADLOCK FALSE
