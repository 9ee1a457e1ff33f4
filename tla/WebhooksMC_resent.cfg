\* The chain call throws after the transaction was sent.
SPECIFICATION Spec
CONSTANTS
    deposit = deposit
    deposit2 = deposit2
    payment = payment
    payment2 = payment2
    reversal = reversal
    notice = notice
    capture = capture
    refund = refund
    rejected = rejected
    forced_credit = forced_credit
    forced_debit = forced_debit
    Events = {deposit}
    KindOf <- MCKindOf
    Amount <- MCAmount
    OpeningCoins = 0
    Handlers = {h1}
    MaxFaults <- OneRpc
    MaxRepeats = 1
INVARIANTS
    EveryKindOnce
CHECK_DEADLOCK FALSE
