-------------------------- MODULE PayoutObligation --------------------------
(***************************************************************************)
(* What the withdrawal saga promises, stated on one value per withdrawal   *)
(* (the header of apps/web/src/lib/withdrawals.ts):                        *)
(*                                                                         *)
(*      pending_payout -> settled              the bank paid               *)
(*                     -> failed_compensated   the debit was given back    *)
(*                                                                         *)
(* From the moment the user's money leaves the ledger the user is owed a   *)
(* payout, and that debt ends in exactly one of two ways, for good.        *)
(***************************************************************************)
CONSTANT Refs

VARIABLE debt

States == {"none", "owed", "settled", "refunded"}

Init == debt = [r \in Refs |-> "none"]

Move(r, from, to) ==
    /\ debt[r] = from
    /\ debt' = [debt EXCEPT ![r] = to]

Owe(r)    == Move(r, "none", "owed")
Settle(r) == Move(r, "owed", "settled")
Refund(r) == Move(r, "owed", "refunded")

Next == \E r \in Refs : Owe(r) \/ Settle(r) \/ Refund(r)

Spec == Init /\ [][Next]_debt

=============================================================================
