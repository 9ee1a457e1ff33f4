-------------------------- MODULE WalletProperties --------------------------
(***************************************************************************)
(* What the ledger, the routes and the withdrawal saga of module Wallet    *)
(* are expected to keep true.                                              *)
(***************************************************************************)
EXTENDS Wallet

\* Every variable has its type; in particular no balance is ever negative.
TypeOK ==
    /\ balance \in [Accounts -> Nat]
    /\ posted \subseteq Requests
    /\ compensated \subseteq Requests
    /\ status \in [Requests -> Statuses]
    /\ frozen \in BOOLEAN
    /\ alerts \subseteq Alerts
    /\ phase \in [Requests -> Phases]
    /\ req \in [Requests -> Request \cup {NoRequest}]
    /\ job \in [Operators -> Jobs]
    /\ acknowledged \in [Requests -> SUBSET {"settle", "fail"}]
    /\ faults \in 0..MaxFaults
    /\ toggles \in 0..MaxToggles

Withdrawals == {r \in Requests : req[r].kind = "withdraw"}

-----------------------------------------------------------------------------
(* The ledger.                                                             *)

Effect(r, a) == req[r].credit[a] - DebitOn(r, a)

Effects(R, a) == SumFunctionOnSet([r \in R |-> Effect(r, a)], R)

\* A balance document is only a cache of the entries (ledger.ts, header): each
\* balance is the opening balance plus every posted entry minus every reversal,
\* each counted once however many requests, operators and retries overlap.
BalancesDerived ==
    \A a \in Accounts :
        balance[a] = OpeningBalance[a] + Effects(posted, a) - Effects(compensated, a)

-----------------------------------------------------------------------------
(* The saga.                                                               *)

\* The withdrawal documents and the ledger agree: a document exists only for a
\* withdrawal that was debited, a reversal only for one that has a document,
\* and a document says failed_compensated only after its reversal is posted.
DocumentsMatchLedger ==
    /\ \A r \in Requests : status[r] # "none" => r \in posted /\ r \in Withdrawals
    /\ \A r \in compensated : status[r] # "none"
    /\ \A r \in Requests : status[r] = "failed_compensated" => r \in compensated

\* Every debit for a withdrawal leaves a payout document behind, unless its own
\* handler was stopped by a fault (withdraw/route.ts posts, then records).
DebitsTracked ==
    \A r \in posted \cap Withdrawals :
        status[r] # "none" \/ phase[r] \in {"posted", "aborted"}

\* A payout the operator route confirmed is not also given back to the user.
SettledNotRefunded ==
    \A r \in Requests : "settle" \in acknowledged[r] => r \notin compensated

\* The route tells the operators one outcome per withdrawal; a second call is
\* answered "ya resuelto".
OneOutcome == \A r \in Requests : acknowledged[r] # {"settle", "fail"}

\* The debt of each withdrawal, as PayoutObligation sees it: it starts at the
\* debit and ends with the reversal entries or with the settled document.
Debt == [r \in Requests |->
            IF r \in compensated              THEN "refunded"
            ELSE IF status[r] = "settled"     THEN "settled"
            ELSE IF r \in posted \cap Withdrawals THEN "owed"
            ELSE "none"]

Obligation == INSTANCE PayoutObligation WITH Refs <- Requests, debt <- Debt

\* The saga implements PayoutObligation.
ImplementsObligation == Obligation!Spec

-----------------------------------------------------------------------------
(* Limits and monitoring.                                                  *)

\* What leaves an account in the window passes the daily limit of its KYC level
\* only by what requests handled at the same time carry: each of them may have
\* summed the ledger before the others posted (limits.ts reads outside the
\* posting's transaction).  With one request at a time the limit is exact.
DailyOvershootBounded ==
    DailyLimit > 0 /\ SingleLimit > 0 =>
        \A a \in Customers :
            Sent(a) <= DailyLimit + (MaxInFlight - 1) * SingleLimit

\* Once every outgoing operation of a customer has been answered, a run of
\* small operations that reaches the structuring rule has raised its alert,
\* however the operations and their screenings overlapped, as long as no handler
\* was stopped and no call failed (aml.ts lines 49-75).
StructuringDetected ==
    faults = 0 => \A a \in Customers :
        /\ \A r \in Outgoing(a) : phase[r] = "done" /\ req[r].amount < ReportThreshold
        /\ Cardinality(Outgoing(a)) >= StructuringCount
        /\ Sent(a) >= StructuringMin
        => <<"structuring", a>> \in alerts

-----------------------------------------------------------------------------
(* Liveness, under the fairness of FairSpec.                               *)

\* Without faults every debit for a withdrawal gets its payout document, and
\* every posted reversal reaches that document (withdrawals.ts lines 34-45, 91-94):
\* the operators' list is complete in the end.
ObligationsGetRecorded ==
    \A r \in Requests :
        /\ (r \in posted /\ req[r].kind = "withdraw") ~> (status[r] # "none")
        /\ (r \in compensated) ~> (status[r] = "failed_compensated")

=============================================================================
