----------------------------- MODULE CardPayments -----------------------------
(***************************************************************************)
(* Card payments of one user of the web app: Pomelo asks for authorization *)
(* (api/pomelo/authorize), and tells later that a payment was made or      *)
(* given back (api/webhooks/pomelo/transactions).                          *)
(*                                                                         *)
(* The coins are on the chain.  Authorizing compares the balance with the  *)
(* amount and reserves nothing; the coins are burned when Pomelo tells of  *)
(* the payment, which it repeats until it is answered 200 (module Webhooks *)
(* is about the repetitions and about calls that fail).  Amounts arrive in *)
(* cents and the chain is asked in coins; both are whole coins here.       *)
(***************************************************************************)
EXTENDS Integers

CONSTANTS
    Payments,
    Amounts,
    OpeningBalance,
    MaxMoves      \* bound: other operations on the user's coins

VARIABLES
    balance,    \* the user's coins on the chain
    amount,     \* what each payment asks for
    payment,    \* where each payment is
    seen,       \* the balance each request has read
    given,      \* payments given back
    moves,
    spoiled     \* history: payments since whose balance was read coins were spent

cardPaymentVars == <<balance, amount, payment, seen, given, moves, spoiled>>

Init ==
    /\ balance = OpeningBalance
    /\ amount \in [Payments -> Amounts]
    /\ payment = [p \in Payments |-> "new"]
    /\ seen = [p \in Payments |-> 0]
    /\ given = {}
    /\ moves = 0 /\ spoiled = {}

\* Payments whose fate was decided on a balance, and whose coins are not burned.
Outstanding == {p \in Payments : payment[p] \in {"asked", "approved", "refused", "burning"}}

\* Coins leave, for payment p or for something else.
Spend(n) == balance' = balance - n

-----------------------------------------------------------------------------
(* authorize.                                                              *)

\* No signature, no wallet, or no answer from the chain: REJECTED.
Reject(p) ==
    /\ payment[p] = "new"
    /\ payment' = [payment EXCEPT ![p] = "rejected"]
    /\ UNCHANGED <<balance, amount, seen, given, moves, spoiled>>

\* The balance is read from the chain.
Ask(p) ==
    /\ payment[p] = "new"
    /\ payment' = [payment EXCEPT ![p] = "asked"]
    /\ seen' = [seen EXCEPT ![p] = balance]
    /\ UNCHANGED <<balance, amount, given, moves, spoiled>>

\* Mutant: an amount within the balance but for the last coin passes.
CoversLess(p) == seen[p] >= amount[p] - 1

Covers(p) == seen[p] >= amount[p]

\* The answer, on what was read.
Answer(p) ==
    /\ payment[p] = "asked"
    /\ payment' = [payment EXCEPT ![p] = IF Covers(p) THEN "approved" ELSE "rejected"]
    /\ UNCHANGED <<balance, amount, seen, given, moves, spoiled>>

-----------------------------------------------------------------------------
(* The webhook.                                                            *)

\* approved-authorization-advice: the balance is read again.  A balance that no
\* longer covers the payment is answered 422, and Pomelo repeats.
Capture(p) ==
    /\ payment[p] \in {"approved", "refused"}
    /\ payment' = [payment EXCEPT ![p] = IF balance >= amount[p] THEN "burning" ELSE "refused"]
    /\ UNCHANGED <<balance, amount, seen, given, moves, spoiled>>

\* The chain burns, or refuses what the balance does not cover (500, and Pomelo repeats).
Burn(p) ==
    /\ payment[p] = "burning"
    /\ IF balance >= amount[p]
       THEN /\ Spend(amount[p])
            /\ payment' = [payment EXCEPT ![p] = "burned"]
            /\ spoiled' = spoiled \cup (Outstanding \ {p})
       ELSE /\ payment' = [payment EXCEPT ![p] = "refused"]
            /\ UNCHANGED <<balance, spoiled>>
    /\ UNCHANGED <<amount, seen, given, moves>>

\* REFUND and REVERSAL are approved unseen; the advice mints, whatever became
\* of the payment.
GiveBack(p) ==
    /\ p \notin given /\ payment[p] \notin {"new", "asked", "rejected"}
    /\ given' = given \cup {p}
    /\ balance' = balance + amount[p]
    /\ UNCHANGED <<amount, payment, seen, moves, spoiled>>

-----------------------------------------------------------------------------
\* The user's other operations: a top-up, a transfer or a withdrawal.
TopUp ==
    /\ moves < MaxMoves /\ moves' = moves + 1
    /\ \E n \in Amounts : balance' = balance + n
    /\ UNCHANGED <<amount, payment, seen, given, spoiled>>

SpendElsewhere ==
    /\ moves < MaxMoves /\ moves' = moves + 1
    /\ \E n \in Amounts : n <= balance /\ Spend(n)
    /\ spoiled' = spoiled \cup Outstanding
    /\ UNCHANGED <<amount, payment, seen, given>>

Next ==
    \/ \E p \in Payments : Reject(p) \/ Ask(p) \/ Answer(p) \/ Capture(p) \/ Burn(p) \/ GiveBack(p)
    \/ TopUp \/ SpendElsewhere

Spec == Init /\ [][Next]_cardPaymentVars

-----------------------------------------------------------------------------
(* What an approval is worth.                                              *)

\* The webhook cannot burn an approved payment only where coins were spent after
\* its balance was read: by another payment approved on the same coins, or
\* otherwise (authorize/route.ts lines 84-112, transactions/route.ts lines
\* 80-94).
RefusedWasSpent == \A p \in Payments : payment[p] = "refused" => p \in spoiled

=============================================================================
