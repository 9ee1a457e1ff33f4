\* One handler at a time, no faults, fair providers.
SPECIFICATION FairSpec
CONSTANTS
    deposit = deposit
    deposit2 = deposit2
    payment = payment
    payment2 = payment2
    reversal = reversal
    notice = notice
    capture = capture
    refund = refund
    rejected = rejected
    forced_credit = forced_credit
    forced_debit = forced_debit
    Events = {deposit, reversal, capture, refund, rejected}
    KindOf <- MCKindOf
    Amount <- MCAmount
    OpeningCoins = 1
    Handlers = {h1}
    MaxFaults <- NoFaults
    MaxRepeats = 1
PROPERTIES
    DepositsApplied
CHECK_DEADLOCK FALSE
