----------------------------- MODULE Commission -----------------------------
(***************************************************************************)
(* The fee arithmetic of apps/web/src/lib/commission-config.ts.            *)
(*                                                                         *)
(* Every amount is a whole number of cents.  The code computes with        *)
(* floating-point units and rounds each result to two decimals, so one     *)
(* cent is the finest value it ever stores; the operators below round at   *)
(* the same places, half upwards, as Math.round does.                      *)
(*                                                                         *)
(* A rule is a record                                                      *)
(*   fee_permille : the percentage, in tenths of a percent                 *)
(*   fee_min, fee_max : bounds in cents, 0 or less meaning "not configured" *)
(*   share : for each account the percentage of the fee that the ACTIVE    *)
(*           split sends to it, in thousandths of a percent (an inactive   *)
(*           split contributes nothing; an account has at most one active  *)
(*           split in a rule).                                             *)
(* Nothing keeps any of them from being negative: the route that stores a  *)
(* rule only adds up the active percentages.                               *)
(***************************************************************************)
EXTENDS Integers

\* Math.round(n / d) for a positive d.
RoundDiv(n, d) == (2 * n + d) \div (2 * d)

\* feeAmount before rounding, in thousandths of a cent: fee_min is applied
\* first, then fee_max.
RaisedFee(rule, gross) ==
    IF rule.fee_min > 0 /\ gross * rule.fee_permille < 1000 * rule.fee_min
    THEN 1000 * rule.fee_min
    ELSE gross * rule.fee_permille

CappedFee(rule, gross) ==
    IF rule.fee_max > 0 /\ RaisedFee(rule, gross) > 1000 * rule.fee_max
    THEN 1000 * rule.fee_max
    ELSE RaisedFee(rule, gross)

Fee(rule, gross) == RoundDiv(CappedFee(rule, gross), 1000)

\* Not bounded: a gross amount under fee_min leaves a negative net, a negative
\* fee a net above the gross amount.
Net(rule, gross) == gross - Fee(rule, gross)

\* What the split of account a receives: each split is rounded on its own.
Share(rule, gross, a) == RoundDiv(Fee(rule, gross) * rule.share[a], 100000)

\* Every route passes over a split that is not positive.
Paid(rule, gross, a) == IF Share(rule, gross, a) > 0 THEN Share(rule, gross, a) ELSE 0

=============================================================================
