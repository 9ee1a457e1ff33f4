----------------------------- MODULE WebhooksMC -----------------------------
(* Small instances of the webhooks for TLC: an event is named after its kind. *)
EXTENDS WebhooksProperties, TLC

CONSTANTS deposit, deposit2, payment, payment2, reversal, notice,
          capture, refund, rejected, forced_credit, forced_debit

MCKindOf == [e \in Events |->
    CASE e \in {deposit, deposit2} -> "deposit"
      [] e \in {payment, payment2} -> "payment"
      [] e = reversal      -> "reversal"
      [] e = notice        -> "notice"
      [] e = capture       -> "capture"
      [] e = refund        -> "refund"
      [] e = rejected      -> "rejected"
      [] e = forced_credit -> "forced_credit"
      [] e = forced_debit  -> "forced_debit"]

MCAmount == [e \in Events |-> 1]

NoFaults  == [kind \in FaultKinds |-> 0]
OneOfEach == [kind \in FaultKinds |-> 1]
Symmetry == Permutations(Handlers)

OneRpc    == [NoFaults EXCEPT !["rpc"] = 1]

=============================================================================
