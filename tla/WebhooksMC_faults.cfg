\* Two handlers, repeated deliveries and a fault of each kind.
SPECIFICATION Spec
CONSTANTS
    deposit = deposit
    deposit2 = deposit2
    payment = payment
    payment2 = payment2
    reversal = reversal
    notice = notice
    capture = capture
    refund = refund
    rejected = rejected
    forced_credit = forced_credit
    forced_debit = forced_debit
    Events = {payment, reversal, forced_debit}
    KindOf <- MCKindOf
    Amount <- MCAmount
    OpeningCoins = 1
    Handlers = {h1, h2}
    MaxFaults <- OneOfEach
    MaxRepeats = 1
INVARIANTS
    AppliedOnce
    SendsBounded
    NoOrphanReservation
SYMMETRY Symmetry
CHECK_DEADLOCK FALSE
