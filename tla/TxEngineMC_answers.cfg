\* Two workers, two transfers, services that fail, fair workers.
SPECIFICATION FairSpec
CONSTANTS
    Txs = {t1, t2}
    Workers = {w1, w2}
    MaxRetries = 2
    MaxFaults <- ServiceFaults
INVARIANTS
    AnswersTrue
PROPERTIES
    EveryTransferAnswered
CHECK_DEADLOCK FALSE
