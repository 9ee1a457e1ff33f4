----------------------------- MODULE TxEngineMC -----------------------------
(* Small instances of the transaction engine for TLC.                      *)
EXTENDS TxEngineProperties

Once(kinds) == [kind \in FaultKinds |-> IF kind \in kinds THEN 1 ELSE 0]

\* Faults that repeat a delivery or a send.
DeliveryFaults == Once({"crash", "lost", "expiry", "rebalance"})

\* Faults of the stores, the node and the contract, and partitions that move.
ServiceFaults == Once({"refused", "revert", "store", "rebalance"})

=============================================================================
