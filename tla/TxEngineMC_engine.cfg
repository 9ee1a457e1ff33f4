\* Two workers, two transfers, deliveries and sends that are repeated.
SPECIFICATION Spec
CONSTANTS
    Txs = {t1, t2}
    Workers = {w1, w2}
    MaxRetries = 2
    MaxFaults <- DeliveryFaults
INVARIANTS
    ExecutedAlone
    PaidOnce
CHECK_DEADLOCK FALSE
