\* A duplicate is answered ok while the first delivery can still fail.
SPECIFICATION Spec
CONSTANTS
    deposit = deposit
    deposit2 = deposit2
    payment = payment
    payment2 = payment2
    reversal = reversal
    notice = notice
    capture = capture
    refund = refund
    rejected = rejected
    forced_credit = forced_credit
    forced_debit = forced_debit
    Events = {deposit, capture}
    KindOf <- MCKindOf
    Amount <- MCAmount
    OpeningCoins = 0
    Handlers = {h1, h2}
    MaxFaults <- NoFaults
    MaxRepeats = 1
INVARIANTS
    AckedIsApplied
CHECK_DEADLOCK FALSE
