------------------------------- MODULE Wallet -------------------------------
(***************************************************************************)
(* The money core of apps/web: the three wallet routes (deposit, withdraw, *)
(* transfer), the double-entry ledger they post to, the withdrawal saga    *)
(* and the operator route that closes it.                                  *)
(*                                                                         *)
(* A request is one run of a route handler.  Each of its awaited database  *)
(* calls is a step of its own, so that other requests and operators run    *)
(* between them; what a request has read or computed travels in req[r].    *)
(* Posting is one step, because postEntries is one Firestore transaction.  *)
(*                                                                         *)
(* One coin is modelled: the legs of a deposit, a withdrawal, a            *)
(* same-coin transfer and a compensation all fall on accounts of one coin. *)
(* An account is a document of len_balances of that coin.                  *)
(*                                                                         *)
(* The legs of one postEntries call are written together or not at all and *)
(* their entry ids are derived from the request, so the entries of a       *)
(* request form two groups: r \in posted stands for its `__withdraw`,      *)
(* `__deposit`, `__out`, `__in`, `__fee_i` entries, r \in compensated for  *)
(* its `__comp_user` and `__comp_fee_i` entries.                           *)
(***************************************************************************)
EXTENDS Commission, FiniteSets, Functions

CONSTANTS
    Accounts,        \* owners of a balance document: users, partners, treasury
    Customers,       \* the accounts that can log in and send requests
    Requests,        \* route handler runs; each ref is fresh (randomUUID)
    Operators,       \* concurrent runs of POST /api/admin/withdrawals
    Amounts,         \* amounts a request may carry, in cents
    Rules,           \* the commission rules an operator may have configured
    OpeningBalance,  \* the ledger the behaviour starts from
    SingleLimit,     \* KYC limit per operation, 0 = none
    DailyLimit,      \* KYC limit on what leaves an account in the window, 0 = none
    ReportThreshold, \* AML: a single operation this large is reported
    StructuringMin,  \* AML: aggregate that makes split operations suspicious
    StructuringCount,\* AML: number of split operations
    MaxInFlight,     \* bound: route handlers running at the same time
    MaxFaults,       \* bound: handlers killed, or stopped by a failing await
    MaxToggles       \* bound: times the freeze flag is flipped

ASSUME AccountsAssumption ==
    /\ Customers \subseteq Accounts
    /\ OpeningBalance \in [Accounts -> Nat]
    /\ Amounts \subseteq Nat \ {0}

ASSUME RulesAssumption ==
    Rules \subseteq [fee_permille : Int, fee_min : Int, fee_max : Int,
                     share : [Accounts -> Int]]

ASSUME BoundsAssumption ==
    /\ SingleLimit \in Nat /\ DailyLimit \in Nat
    /\ ReportThreshold \in Nat /\ StructuringMin \in Nat /\ StructuringCount \in Nat \ {0}
    /\ MaxInFlight \in Nat \ {0} /\ MaxFaults \in Nat /\ MaxToggles \in Nat

VARIABLES
    balance,      \* len_balances
    posted,       \* requests whose own entries are in len_ledger_entries
    compensated,  \* requests whose reversal entries are in len_ledger_entries
    status,       \* len_withdrawals: the status of each withdrawal document
    frozen,       \* len_system/freeze
    alerts,       \* len_aml_alerts
    phase,        \* how far each route handler has come
    req,          \* what each route handler has parsed, read and computed
    job,          \* what each operator handler is doing
    acknowledged, \* history: actions the operator route answered ok for a ref
    faults,       \* how many handlers were stopped half way
    toggles       \* how often the freeze flag was flipped

ledgerVars  == <<balance, posted, compensated>>
requestVars == <<phase, req>>
operatorVars == <<job, acknowledged>>
boundVars   == <<faults, toggles>>

vars == <<ledgerVars, status, frozen, alerts, requestVars, operatorVars, boundVars>>

Kinds == {"deposit", "withdraw", "transfer"}

Running == {"admitted", "approved", "posted", "recorded"}
Phases  == {"idle", "refused", "done", "aborted"} \cup Running

Statuses == {"none", "pending_payout", "settled", "failed_compensated"}

\* What the body of the request says, and what the handler computes from it:
\* the credits of its legs and the net amount.
Request == [kind : Kinds, payer : Accounts, to : Accounts, amount : Nat,
            credit : [Accounts -> Nat], net : Int]

NoRequest == [kind |-> "none"]

Idle == [step |-> "idle"]
Jobs == {Idle} \cup [step : {"settling", "failing", "refunded"}, ref : Requests]

Alerts == ({"threshold"} \X Requests) \cup ({"structuring"} \X Accounts)

-----------------------------------------------------------------------------
(* The legs of a request and what they do to the balances.                 *)

\* The single debit leg: withdraw and transfer debit the payer, deposit no one.
Debit(r) == IF req[r].kind = "deposit" THEN 0 ELSE req[r].amount

DebitOn(r, a) == IF a = req[r].payer THEN Debit(r) ELSE 0

\* The credit legs of each kind of request, by account.  A deposit credits the
\* net amount and the fee splits, a withdrawal only the fee splits, a
\* same-coin transfer the whole amount (its fee is zero).
DepositCredits(payer, amount, rule) ==
    [a \in Accounts |-> Paid(rule, amount, a)
                        + (IF a = payer THEN Net(rule, amount) ELSE 0)]

WithdrawCredits(amount, rule) == [a \in Accounts |-> Paid(rule, amount, a)]

TransferCredits(to, amount) == [a \in Accounts |-> IF a = to THEN amount ELSE 0]

\* postEntries applies the legs in order and throws at the first negative
\* balance.  The debit leg of a request comes before its credits, so only
\* the payer's balance can stop it.
CoversDebit(r) == balance[req[r].payer] >= Debit(r)

\* A transfer to oneself has legs with undefined fields, and Firestore refuses them.
Storable(r) == req[r].kind = "transfer" => req[r].to # req[r].payer

AfterPosting(r) == [a \in Accounts |-> balance[a] - DebitOn(r, a) + req[r].credit[a]]

\* The legs of failWithdrawal: credit the gross amount back to the user,
\* then debit every fee from the account that received it.
AfterRefund(r) == [a \in Accounts |-> balance[a] + DebitOn(r, a) - req[r].credit[a]]

CoversRefund(r) == \A a \in Accounts : AfterRefund(r)[a] >= 0

-----------------------------------------------------------------------------
(* What the limit check and the AML screening read from the ledger.        *)

\* sumOutflowUSD: the debits of an account whose type is not "fee".  The debit
\* of a fee reversal has type "fee_reversal" and counts; the credit that gives
\* a failed withdrawal back does not.  The whole behaviour lies in one window.
Outgoing(a) == {r \in posted : req[r].kind # "deposit" /\ req[r].payer = a}

Reversals(a) == {r \in compensated : req[r].credit[a] > 0}

Sent(a) == SumFunctionOnSet([r \in Outgoing(a) |-> req[r].amount], Outgoing(a))

Outflow(a) == Sent(a) + SumFunctionOnSet([r \in Reversals(a) |-> req[r].credit[a]], Reversals(a))

WithinSingle(amount) == SingleLimit > 0 => amount <= SingleLimit

\* Mutant: the operation is compared with the limit on its own.
DailyWithoutHistory(a, amount) == DailyLimit > 0 => amount <= DailyLimit

WithinDaily(a, amount) == DailyLimit > 0 => Outflow(a) + amount <= DailyLimit

\* checkLimits: aggregate is false for a deposit.
WithinLimits(kind, a, amount) ==
    /\ WithinSingle(amount)
    /\ kind # "deposit" => WithinDaily(a, amount)

\* Mutant: only withdrawals are counted, transfers are forgotten.
CountWithdrawals(r) ==
    1 + Cardinality({q \in Outgoing(req[r].payer) : req[q].kind = "withdraw"})

\* screenTransaction: the count and the aggregate start from the operation
\* being screened and then add every debit in the ledger.
ScreenedCount(r) ==
    1 + Cardinality(Outgoing(req[r].payer)) + Cardinality(Reversals(req[r].payer))

ScreenedAmount(r) == req[r].amount + Outflow(req[r].payer)

AlertsFrom(r) ==
    IF req[r].amount >= ReportThreshold THEN {<<"threshold", r>>}
    ELSE IF ScreenedCount(r) >= StructuringCount /\ ScreenedAmount(r) >= StructuringMin
         THEN {<<"structuring", req[r].payer>>}
         ELSE {}

-----------------------------------------------------------------------------
Init ==
    /\ balance = OpeningBalance
    /\ posted = {} /\ compensated = {}
    /\ status = [r \in Requests |-> "none"]
    /\ frozen = FALSE
    /\ alerts = {}
    /\ phase = [r \in Requests |-> "idle"]
    /\ req = [r \in Requests |-> NoRequest]
    /\ job = [o \in Operators |-> Idle]
    /\ acknowledged = [r \in Requests |-> {}]
    /\ faults = 0 /\ toggles = 0

InFlight == {r \in Requests : phase[r] \in Running}

Goto(r, p) == phase' = [phase EXCEPT ![r] = p]

\* A request arrives, is authenticated and parsed.
Enter(r, kind, payer, to, amount) ==
    /\ phase[r] = "idle"
    /\ Cardinality(InFlight) < MaxInFlight
    /\ req' = [req EXCEPT ![r] =
                 [kind |-> kind, payer |-> payer, to |-> to, amount |-> amount,
                  credit |-> [a \in Accounts |-> 0], net |-> 0]]
    /\ Goto(r, "admitted")
    /\ UNCHANGED <<ledgerVars, status, frozen, alerts, operatorVars, boundVars>>

\* deposit and withdraw read the freeze flag first; transfer does not.
AdmitDeposit(r) ==
    /\ ~frozen
    /\ \E payer \in Customers, amount \in Amounts : Enter(r, "deposit", payer, payer, amount)

AdmitWithdraw(r) ==
    /\ ~frozen
    /\ \E payer \in Customers, amount \in Amounts : Enter(r, "withdraw", payer, payer, amount)

AdmitTransfer(r) ==
    \E payer \in Customers, to \in Accounts, amount \in Amounts :
        Enter(r, "transfer", payer, to, amount)

Awaits(r, kind) == phase[r] = "admitted" /\ req[r].kind = kind

\* checkLimits passes and the legs are ready.
Approve(r, credit, net) ==
    /\ WithinLimits(req[r].kind, req[r].payer, req[r].amount)
    /\ req' = [req EXCEPT ![r].credit = credit, ![r].net = net]
    /\ Goto(r, "approved")
    /\ UNCHANGED <<ledgerVars, status, frozen, alerts, operatorVars, boundVars>>

\* The commission rule of the moment is read after the limits.  postEntries
\* refuses a leg that is not positive before it opens its transaction: a
\* deposit needs a positive net.
ApproveDeposit(r) ==
    /\ Awaits(r, "deposit")
    /\ \E rule \in Rules :
        /\ Net(rule, req[r].amount) > 0
        /\ Approve(r, DepositCredits(req[r].payer, req[r].amount, rule),
                   Net(rule, req[r].amount))

ApproveWithdraw(r) ==
    /\ Awaits(r, "withdraw")
    /\ \E rule \in Rules :
        Approve(r, WithdrawCredits(req[r].amount, rule), Net(rule, req[r].amount))

ApproveTransfer(r) ==
    /\ Awaits(r, "transfer")
    /\ Approve(r, TransferCredits(req[r].to, req[r].amount), req[r].amount)

\* The limit is exceeded, or the fee of a deposit eats the whole amount.
Refuse(r) ==
    /\ phase[r] = "admitted"
    /\ \/ ~WithinLimits(req[r].kind, req[r].payer, req[r].amount)
       \/ /\ req[r].kind = "deposit"
          /\ \E rule \in Rules : Net(rule, req[r].amount) <= 0
    /\ Goto(r, "refused")
    /\ UNCHANGED <<ledgerVars, status, frozen, alerts, req, operatorVars, boundVars>>

\* postEntries commits.  r is fresh, so none of its entries exists.
Post(r) ==
    /\ phase[r] = "approved"
    /\ CoversDebit(r) /\ Storable(r)
    /\ balance' = AfterPosting(r)
    /\ posted' = posted \cup {r}
    /\ Goto(r, "posted")
    /\ UNCHANGED <<compensated, status, frozen, alerts, req, operatorVars, boundVars>>

\* postEntries throws, INSUFFICIENT_FUNDS or what Firestore throws; nothing is
\* written.
PostRejected(r) ==
    /\ phase[r] = "approved"
    /\ ~CoversDebit(r) \/ ~Storable(r)
    /\ Goto(r, "refused")
    /\ UNCHANGED <<ledgerVars, status, frozen, alerts, req, operatorVars, boundVars>>

\* Mutant: the obligation is written before the debit.
RecordBeforePost(r) ==
    /\ phase[r] = "approved"
    /\ req[r].kind = "withdraw"
    /\ status' = [status EXCEPT ![r] = "pending_payout"]
    /\ UNCHANGED <<ledgerVars, frozen, alerts, requestVars, operatorVars, boundVars>>

\* recordWithdrawal: the payout obligation is written after the debit, in a
\* write of its own.
Record(r) ==
    /\ phase[r] = "posted"
    /\ req[r].kind = "withdraw"
    /\ status' = [status EXCEPT ![r] = "pending_payout"]
    /\ Goto(r, "recorded")
    /\ UNCHANGED <<ledgerVars, frozen, alerts, req, operatorVars, boundVars>>

\* Mutant: a withdrawal is answered without its record.
ScreenUnrecorded(r) ==
    /\ phase[r] \in {"posted", "recorded"}
    /\ alerts' = alerts \cup AlertsFrom(r)
    /\ Goto(r, "done")
    /\ UNCHANGED <<ledgerVars, status, frozen, req, operatorVars, boundVars>>

\* screenTransaction, then the answer.
Screen(r) ==
    /\ \/ phase[r] = "posted" /\ req[r].kind # "withdraw"
       \/ phase[r] = "recorded"
    /\ alerts' = alerts \cup AlertsFrom(r)
    /\ Goto(r, "done")
    /\ UNCHANGED <<ledgerVars, status, frozen, req, operatorVars, boundVars>>

\* A call inside screenTransaction throws: the error is swallowed, the request
\* is answered as usual and no alert is written.
ScreenFails(r) ==
    /\ \/ phase[r] = "posted" /\ req[r].kind # "withdraw"
       \/ phase[r] = "recorded"
    /\ faults < MaxFaults
    /\ faults' = faults + 1
    /\ Goto(r, "done")
    /\ UNCHANGED <<ledgerVars, status, frozen, alerts, req, operatorVars, toggles>>

\* The process dies, or an awaited call throws and the route answers an error.
\* Nothing that was already written is undone.
Abort(r) ==
    /\ phase[r] \in Running
    /\ faults < MaxFaults
    /\ faults' = faults + 1
    /\ Goto(r, "aborted")
    /\ UNCHANGED <<ledgerVars, status, frozen, alerts, req, operatorVars, toggles>>

-----------------------------------------------------------------------------
(* The operator route: settleWithdrawal and failWithdrawal read the        *)
(* document, and write to it in a later call.                              *)

Begin(o, r, step) == job' = [job EXCEPT ![o] = [step |-> step, ref |-> r]]
Finish(o)         == job' = [job EXCEPT ![o] = Idle]

\* Mutant: settle accepts a withdrawal that is already resolved.
SettleReadAny(o, r) ==
    /\ job[o] = Idle
    /\ status[r] # "none"
    /\ Begin(o, r, "settling")
    /\ UNCHANGED <<ledgerVars, status, frozen, alerts, requestVars, acknowledged, boundVars>>

SettleRead(o, r) ==
    /\ job[o] = Idle
    /\ status[r] = "pending_payout"
    /\ Begin(o, r, "settling")
    /\ UNCHANGED <<ledgerVars, status, frozen, alerts, requestVars, acknowledged, boundVars>>

SettleWrite(o) ==
    /\ job[o].step = "settling"
    /\ status' = [status EXCEPT ![job[o].ref] = "settled"]
    /\ acknowledged' = [acknowledged EXCEPT ![job[o].ref] = @ \cup {"settle"}]
    /\ Finish(o)
    /\ UNCHANGED <<ledgerVars, frozen, alerts, requestVars, boundVars>>

\* Mutant: fail accepts a withdrawal that is already resolved.
FailReadAny(o, r) ==
    /\ job[o] = Idle
    /\ status[r] # "none"
    /\ Begin(o, r, "failing")
    /\ UNCHANGED <<ledgerVars, status, frozen, alerts, requestVars, acknowledged, boundVars>>

FailRead(o, r) ==
    /\ job[o] = Idle
    /\ status[r] = "pending_payout"
    /\ Begin(o, r, "failing")
    /\ UNCHANGED <<ledgerVars, status, frozen, alerts, requestVars, acknowledged, boundVars>>

\* Mutant: the reversal entries get fresh ids, so nothing makes them idempotent.
FailPostTwice(o) ==
    /\ job[o].step = "failing"
    /\ CoversRefund(job[o].ref)
    /\ balance' = AfterRefund(job[o].ref)
    /\ compensated' = compensated \cup {job[o].ref}
    /\ Begin(o, job[o].ref, "refunded")
    /\ UNCHANGED <<posted, status, frozen, alerts, requestVars, acknowledged, boundVars>>

\* Mutant: the handler ends after the reversal and never updates the document.
FailPostForgets(o) ==
    /\ job[o].step = "failing"
    /\ CoversRefund(job[o].ref)
    /\ balance' = AfterRefund(job[o].ref)
    /\ compensated' = compensated \cup {job[o].ref}
    /\ Finish(o)
    /\ UNCHANGED <<posted, status, frozen, alerts, requestVars, acknowledged, boundVars>>

\* postEntries of the reversal legs; idempotent, their ids derive from the ref.
FailPost(o) ==
    /\ job[o].step = "failing"
    /\ LET r == job[o].ref IN
        /\ \/ /\ r \in compensated
              /\ UNCHANGED <<balance, compensated>>
           \/ /\ r \notin compensated
              /\ CoversRefund(r)
              /\ balance' = AfterRefund(r)
              /\ compensated' = compensated \cup {r}
        /\ Begin(o, r, "refunded")
    /\ UNCHANGED <<posted, status, frozen, alerts, requestVars, acknowledged, boundVars>>

\* postEntries throws because a fee account no longer holds the fee; the
\* route has no catch, the operator gets an error, the document stays pending.
FailRejected(o) ==
    /\ job[o].step = "failing"
    /\ job[o].ref \notin compensated
    /\ ~CoversRefund(job[o].ref)
    /\ Finish(o)
    /\ UNCHANGED <<ledgerVars, status, frozen, alerts, requestVars, acknowledged, boundVars>>

FailWrite(o) ==
    /\ job[o].step = "refunded"
    /\ status' = [status EXCEPT ![job[o].ref] = "failed_compensated"]
    /\ acknowledged' = [acknowledged EXCEPT ![job[o].ref] = @ \cup {"fail"}]
    /\ Finish(o)
    /\ UNCHANGED <<ledgerVars, frozen, alerts, requestVars, boundVars>>

AbortJob(o) ==
    /\ job[o] # Idle
    /\ faults < MaxFaults
    /\ faults' = faults + 1
    /\ Finish(o)
    /\ UNCHANGED <<ledgerVars, status, frozen, alerts, requestVars, acknowledged, toggles>>

\* setFreeze, by POST /api/admin/reconcile.
ToggleFreeze ==
    /\ toggles < MaxToggles
    /\ toggles' = toggles + 1
    /\ frozen' = ~frozen
    /\ UNCHANGED <<ledgerVars, status, alerts, requestVars, operatorVars, faults>>

-----------------------------------------------------------------------------
Admit(r) == AdmitDeposit(r) \/ AdmitWithdraw(r) \/ AdmitTransfer(r)

Handle(r) ==
    \/ ApproveDeposit(r) \/ ApproveWithdraw(r) \/ ApproveTransfer(r) \/ Refuse(r)
    \/ Post(r) \/ PostRejected(r) \/ Record(r) \/ Screen(r)

Operate(o) == SettleWrite(o) \/ FailPost(o) \/ FailRejected(o) \/ FailWrite(o)

Next ==
    \/ \E r \in Requests : Admit(r) \/ Handle(r) \/ ScreenFails(r) \/ Abort(r)
    \/ \E o \in Operators, r \in Requests : SettleRead(o, r) \/ FailRead(o, r)
    \/ \E o \in Operators : Operate(o) \/ AbortJob(o)
    \/ ToggleFreeze

Spec == Init /\ [][Next]_vars

\* A handler that has started runs to its end: the runtime keeps scheduling it
\* as long as it is not killed, and a kill is an Abort, which MaxFaults bounds.
\* No fairness on Admit, SettleRead or FailRead: users and operators may stay away.
Fairness ==
    /\ \A r \in Requests : WF_vars(Handle(r))
    /\ \A o \in Operators : WF_vars(Operate(o))

FairSpec == Spec /\ Fairness

=============================================================================
