---------------------------- MODULE WalletProofs ----------------------------
(***************************************************************************)
(* Proofs about the wallet for every set of accounts, requests and         *)
(* operators, every rule and every bound.                                  *)
(***************************************************************************)
EXTENDS WalletProperties, Sums, FiniteSetTheorems, TLAPS

Rule == [fee_permille : Int, fee_min : Int, fee_max : Int, share : [Accounts -> Int]]

-----------------------------------------------------------------------------
(* The fee arithmetic stays in the integers, and what is paid in the naturals. *)

\* Rounding an integer gives one.
LEMMA RoundingIsInt ==
    ASSUME NEW n \in Int
    PROVE  RoundDiv(n, 100000) \in Int /\ RoundDiv(n, 1000) \in Int
  BY DEF RoundDiv

\* A commission is an integer, whatever the rule (calculateCommission).
LEMMA FeeIsInt ==
    ASSUME NEW rule \in Rule, NEW gross \in Nat
    PROVE  Fee(rule, gross) \in Int
  <1>1. rule.fee_min \in Int /\ rule.fee_max \in Int /\ rule.fee_permille \in Int
    BY DEF Rule
  <1>2. gross * rule.fee_permille \in Int
    BY <1>1
  <1>3. RaisedFee(rule, gross) \in Int
    BY <1>1, <1>2 DEF RaisedFee
  <1>4. CappedFee(rule, gross) \in Int
    BY <1>1, <1>3 DEF CappedFee
  <1>5. QED
    BY <1>4, RoundingIsInt DEF Fee

\* What is paid to a split is a natural number of cents.
LEMMA PaidIsNat ==
    ASSUME NEW rule \in Rule, NEW gross \in Nat, NEW a \in Accounts
    PROVE  Paid(rule, gross, a) \in Nat
  <1>1. rule.share[a] \in Int
    BY DEF Rule
  <1>2. Fee(rule, gross) \in Int
    BY FeeIsInt
  <1>3. Fee(rule, gross) * rule.share[a] \in Int
    BY <1>1, <1>2
  <1>4. Share(rule, gross, a) \in Int
    BY <1>3, RoundingIsInt DEF Share
  <1>5. QED
    BY <1>4 DEF Paid

\* A net amount is an integer; it can be negative.
LEMMA NetIsInt ==
    ASSUME NEW rule \in Rule, NEW gross \in Nat
    PROVE  Net(rule, gross) \in Int
  BY FeeIsInt DEF Net

-----------------------------------------------------------------------------
(* The next-state relation, one disjunct per step, for use in case splits. *)

\* Every step is a step of one request handler, one operator, or the freeze.
LEMMA NextCases ==
    ASSUME Next
    PROVE  \/ \E r \in Requests :
              \/ AdmitDeposit(r) \/ AdmitWithdraw(r) \/ AdmitTransfer(r)
              \/ ApproveDeposit(r) \/ ApproveWithdraw(r) \/ ApproveTransfer(r)
              \/ Refuse(r) \/ Post(r) \/ PostRejected(r)
              \/ Record(r) \/ Screen(r) \/ ScreenFails(r) \/ Abort(r)
           \/ \E o \in Operators, r \in Requests : SettleRead(o, r) \/ FailRead(o, r)
           \/ \E o \in Operators : \/ SettleWrite(o) \/ FailPost(o) \/ FailRejected(o)
                                   \/ FailWrite(o) \/ AbortJob(o)
           \/ ToggleFreeze
  BY DEF Next, Admit, Handle, Operate

-----------------------------------------------------------------------------
(* Type correctness.                                                       *)

\* A handler that has started carries a complete request, and the saga only
\* deals with such requests.
Parsed ==
    /\ \A r \in Requests : phase[r] # "idle" => req[r] \in Request
    /\ \A r \in Requests : status[r] # "none" => phase[r] # "idle"
    /\ \A o \in Operators : job[o] # Idle => phase[job[o].ref] # "idle"

TypeInv == TypeOK /\ Parsed

\* The initial state is well typed.
LEMMA TypeInit == Init => TypeInv
  <1> SUFFICES ASSUME Init PROVE TypeInv
    OBVIOUS
  <1> USE AccountsAssumption, BoundsAssumption DEF Init
  <1>1. balance \in [Accounts -> Nat] /\ posted = {} /\ compensated = {} /\ alerts = {}
    OBVIOUS
  <1>2. status \in [Requests -> Statuses] /\ phase \in [Requests -> Phases]
    BY DEF Statuses, Phases
  <1>3. req \in [Requests -> Request \cup {NoRequest}]
    OBVIOUS
  <1>4. job \in [Operators -> Jobs]
    BY DEF Jobs
  <1>5. acknowledged \in [Requests -> SUBSET {"settle", "fail"}]
    OBVIOUS
  <1>6. frozen \in BOOLEAN
    BY Zenon
  <1>10. MaxFaults \in Nat /\ MaxToggles \in Nat
    BY BoundsAssumption
  <1>11. faults \in 0..MaxFaults /\ toggles \in 0..MaxToggles
    BY <1>10
  <1>7. TypeOK
    BY <1>1, <1>2, <1>3, <1>4, <1>5, <1>6, <1>11, Zenon DEF TypeOK
  <1>8. Parsed
    BY DEF Parsed
  <1>9. QED
    BY <1>7, <1>8 DEF TypeInv

\* Parsing a body yields a request, and computing its legs leaves it one.
LEMMA EnterType ==
    ASSUME TypeInv, NEW r \in Requests, NEW kind \in Kinds, NEW payer \in Customers,
           NEW to \in Accounts, NEW amount \in Amounts, Enter(r, kind, payer, to, amount)
    PROVE  TypeInv'
  <1> USE AccountsAssumption DEF TypeInv, TypeOK, Enter, Goto
  <1> DEFINE new == [kind |-> kind, payer |-> payer, to |-> to, amount |-> amount,
                     credit |-> [a \in Accounts |-> 0], net |-> 0]
  <1>1. new \in Request
    BY DEF Request
  <1>2. req' \in [Requests -> Request \cup {NoRequest}] /\ req'[r] \in Request
    BY <1>1
  <1>3. phase' \in [Requests -> Phases]
    BY DEF Phases, Running
  <1>4. TypeOK'
    BY <1>2, <1>3 DEF ledgerVars, operatorVars, boundVars
  <1>5. Parsed'
    BY <1>2, <1>3 DEF Parsed, operatorVars, Phases, Running
  <1>6. QED
    BY <1>4, <1>5

\* Storing the computed legs keeps the state well typed.
LEMMA ApproveType ==
    ASSUME TypeInv, NEW r \in Requests, phase[r] = "admitted",
           NEW credit \in [Accounts -> Nat], NEW net \in Int, Approve(r, credit, net)
    PROVE  TypeInv'
  <1> USE DEF TypeInv, TypeOK, Approve, Goto
  <1>1. req[r] \in Request
    BY DEF Parsed
  <1>2. [req[r] EXCEPT !.credit = credit, !.net = net] \in Request
    BY <1>1 DEF Request
  <1>3. req' = [req EXCEPT ![r] = [req[r] EXCEPT !.credit = credit, !.net = net]]
    OBVIOUS
  <1>4. req' \in [Requests -> Request \cup {NoRequest}] /\ req'[r] \in Request
    BY <1>2, <1>3
  <1>5. phase' \in [Requests -> Phases]
    BY DEF Phases, Running
  <1>6. TypeOK'
    BY <1>4, <1>5 DEF ledgerVars, operatorVars, boundVars
  <1>7. Parsed'
    BY <1>3, <1>4, <1>5 DEF Parsed, operatorVars
  <1>8. QED
    BY <1>6, <1>7

\* Every step keeps the state well typed.
LEMMA TypeNext == TypeInv /\ [Next]_vars => TypeInv'
  <1> SUFFICES ASSUME TypeInv, [Next]_vars PROVE TypeInv'
    OBVIOUS
  <1> USE DEF TypeInv
  <1> USE AccountsAssumption, RulesAssumption, BoundsAssumption
  <1>1. ASSUME NEW r \in Requests, AdmitDeposit(r) \/ AdmitWithdraw(r) \/ AdmitTransfer(r)
        PROVE  TypeInv'
    <2>1. PICK kind \in Kinds, payer \in Customers, to \in Accounts, amount \in Amounts :
             Enter(r, kind, payer, to, amount)
      BY <1>1 DEF AdmitDeposit, AdmitWithdraw, AdmitTransfer, Kinds
    <2>2. QED
      BY <2>1, EnterType
  <1>2. ASSUME NEW r \in Requests, ApproveDeposit(r)
        PROVE  TypeInv'
    <2>1. phase[r] = "admitted" /\ req[r] \in Request
      BY <1>2 DEF ApproveDeposit, Awaits, Parsed
    <2>2. req[r].payer \in Accounts /\ req[r].amount \in Nat
      BY <2>1 DEF Request
    <2>3. PICK rule \in Rules :
             /\ Net(rule, req[r].amount) > 0
             /\ Approve(r, DepositCredits(req[r].payer, req[r].amount, rule),
                        Net(rule, req[r].amount))
      BY <1>2 DEF ApproveDeposit
    <2>4. rule \in Rule
      BY DEF Rule
    <2>5. Net(rule, req[r].amount) \in Nat
      BY <2>2, <2>3, <2>4, NetIsInt
    <2>6. DepositCredits(req[r].payer, req[r].amount, rule) \in [Accounts -> Nat]
      BY <2>2, <2>4, <2>5, PaidIsNat DEF DepositCredits
    <2>7. QED
      BY <2>1, <2>3, <2>5, <2>6, ApproveType
  <1>3. ASSUME NEW r \in Requests, ApproveWithdraw(r)
        PROVE  TypeInv'
    <2>1. phase[r] = "admitted" /\ req[r] \in Request
      BY <1>3 DEF ApproveWithdraw, Awaits, Parsed
    <2>2. req[r].amount \in Nat
      BY <2>1 DEF Request
    <2>3. PICK rule \in Rules :
             Approve(r, WithdrawCredits(req[r].amount, rule), Net(rule, req[r].amount))
      BY <1>3 DEF ApproveWithdraw
    <2>4. rule \in Rule
      BY DEF Rule
    <2>5. Net(rule, req[r].amount) \in Int
      BY <2>2, <2>4, NetIsInt
    <2>6. WithdrawCredits(req[r].amount, rule) \in [Accounts -> Nat]
      BY <2>2, <2>4, PaidIsNat DEF WithdrawCredits
    <2>7. QED
      BY <2>1, <2>3, <2>5, <2>6, ApproveType
  <1>4. ASSUME NEW r \in Requests, ApproveTransfer(r)
        PROVE  TypeInv'
    <2>1. phase[r] = "admitted" /\ req[r] \in Request
      BY <1>4 DEF ApproveTransfer, Awaits, Parsed
    <2>2. req[r].amount \in Nat
      BY <2>1 DEF Request
    <2>3. TransferCredits(req[r].to, req[r].amount) \in [Accounts -> Nat]
      BY <2>2 DEF TransferCredits
    <2>4. Approve(r, TransferCredits(req[r].to, req[r].amount), req[r].amount)
      BY <1>4 DEF ApproveTransfer
    <2>5. QED
      BY <2>1, <2>2, <2>3, <2>4, ApproveType
  <1>5. ASSUME NEW r \in Requests, Refuse(r) \/ PostRejected(r)
        PROVE  TypeInv'
    <2>1. /\ phase' = [phase EXCEPT ![r] = "refused"]
          /\ phase[r] # "idle"
          /\ UNCHANGED <<ledgerVars, status, frozen, alerts, req, operatorVars, boundVars>>
      BY <1>5 DEF Refuse, PostRejected, Goto
    <2>2. TypeOK'
      BY <2>1 DEF TypeOK, Phases, ledgerVars, operatorVars, boundVars
    <2>3. Parsed'
      BY <2>1 DEF TypeOK, Parsed, operatorVars
    <2>4. QED
      BY <2>2, <2>3
  <1>6. ASSUME NEW r \in Requests, Post(r)
        PROVE  TypeInv'
    <2>1. req[r] \in Request
      BY <1>6 DEF Post, Parsed
    <2>2. /\ req[r].payer \in Accounts /\ req[r].amount \in Nat
          /\ req[r].credit \in [Accounts -> Nat]
      BY <2>1 DEF Request
    <2>3. \A a \in Accounts : balance[a] - DebitOn(r, a) \in Nat
      BY <1>6, <2>2 DEF Post, CoversDebit, DebitOn, Debit, TypeOK
    <2>4. AfterPosting(r) \in [Accounts -> Nat]
      BY <2>2, <2>3 DEF AfterPosting
    <2>5. QED
      BY <1>6, <2>4 DEF Post, Goto, TypeOK, Parsed, Phases, Running, operatorVars, boundVars
  <1>7. ASSUME NEW r \in Requests, Record(r)
        PROVE  TypeInv'
    BY <1>7 DEF Record, Goto, TypeOK, Parsed, Phases, Running, Statuses,
                ledgerVars, operatorVars, boundVars
  <1>8. ASSUME NEW r \in Requests, Screen(r)
        PROVE  TypeInv'
    <2>1. phase[r] # "idle"
      BY <1>8 DEF Screen
    <2>2. req[r].payer \in Accounts
      BY <2>1 DEF Parsed, Request
    <2>3. AlertsFrom(r) \subseteq Alerts
      BY <2>2 DEF AlertsFrom, Alerts
    <2>4. QED
      BY <1>8, <2>1, <2>3 DEF Screen, Goto, TypeOK, Parsed, Phases,
                              ledgerVars, operatorVars, boundVars
  <1>9. ASSUME NEW r \in Requests, Abort(r) \/ ScreenFails(r)
        PROVE  TypeInv'
    <2>1. MaxFaults \in Nat /\ faults' \in 0..MaxFaults
      BY <1>9 DEF Abort, ScreenFails, TypeOK
    <2>2. PICK p \in {"aborted", "done"} : phase' = [phase EXCEPT ![r] = p]
      BY <1>9 DEF Abort, ScreenFails, Goto
    <2>3. /\ phase[r] # "idle"
          /\ UNCHANGED <<ledgerVars, status, frozen, alerts, req, operatorVars, toggles>>
      BY <1>9 DEF Abort, ScreenFails, Running
    <2>4. TypeOK'
      BY <2>1, <2>2, <2>3 DEF TypeOK, Phases, ledgerVars, operatorVars
    <2>5. Parsed'
      BY <2>2, <2>3 DEF TypeOK, Parsed, operatorVars
    <2>6. QED
      BY <2>4, <2>5
  <1>10. ASSUME NEW o \in Operators, NEW r \in Requests, SettleRead(o, r) \/ FailRead(o, r)
         PROVE  TypeInv'
    BY <1>10 DEF SettleRead, FailRead, Begin, TypeOK, Parsed, Jobs,
                 ledgerVars, requestVars, boundVars
  <1>11. ASSUME NEW o \in Operators, SettleWrite(o) \/ FailWrite(o)
         PROVE  TypeInv'
    <2>1. job[o] # Idle /\ job[o].ref \in Requests
      BY <1>11 DEF SettleWrite, FailWrite, TypeOK, Jobs, Idle
    <2>2. QED
      BY <1>11, <2>1 DEF SettleWrite, FailWrite, Finish, TypeOK, Parsed, Jobs, Statuses,
                         ledgerVars, requestVars, boundVars
  <1>12. ASSUME NEW o \in Operators, FailPost(o)
         PROVE  TypeInv'
    <2>1. job[o].ref \in Requests
      BY <1>12 DEF FailPost, TypeOK, Jobs, Idle
    <2>2. balance' \in [Accounts -> Nat] /\ compensated' \subseteq Requests
      <3>1. CASE UNCHANGED <<balance, compensated>>
        BY <3>1 DEF TypeOK
      <3>2. CASE /\ CoversRefund(job[o].ref)
                 /\ balance' = AfterRefund(job[o].ref)
                 /\ compensated' = compensated \cup {job[o].ref}
        <4> DEFINE r == job[o].ref
        <4>1. req[r] \in Request
          BY <1>12, <2>1 DEF FailPost, Parsed, Idle
        <4>2. /\ req[r].amount \in Nat /\ req[r].credit \in [Accounts -> Nat]
          BY <4>1 DEF Request
        <4>3. \A a \in Accounts : balance[a] + DebitOn(r, a) - req[r].credit[a] \in Int
          BY <4>2 DEF DebitOn, Debit, TypeOK
        <4>4. \A a \in Accounts : AfterRefund(r)[a] \in Nat
          BY <3>2, <4>3 DEF CoversRefund, AfterRefund
        <4>5. QED
          BY <3>2, <2>1, <4>4 DEF AfterRefund, TypeOK
      <3>3. QED
        BY <1>12, <3>1, <3>2 DEF FailPost
    <2>3. /\ job[o] # Idle
          /\ job' = [job EXCEPT ![o] = [step |-> "refunded", ref |-> job[o].ref]]
          /\ UNCHANGED <<posted, status, frozen, alerts, requestVars, acknowledged, boundVars>>
      BY <1>12 DEF FailPost, Begin, Idle
    <2>4. TypeOK'
      BY <2>1, <2>2, <2>3 DEF TypeOK, Jobs, requestVars, boundVars
    <2>5. Parsed'
      BY <2>1, <2>3 DEF TypeOK, Parsed, requestVars
    <2>6. QED
      BY <2>4, <2>5
  <1>13. ASSUME NEW o \in Operators, FailRejected(o) \/ AbortJob(o)
         PROVE  TypeInv'
    BY <1>13 DEF FailRejected, AbortJob, Finish, TypeOK, Parsed, Jobs,
                 ledgerVars, requestVars, boundVars
  <1>14. ASSUME ToggleFreeze
         PROVE  TypeInv'
    BY <1>14 DEF ToggleFreeze, TypeOK, Parsed, ledgerVars, requestVars, operatorVars
  <1>15. CASE UNCHANGED vars
    BY <1>15 DEF vars, TypeOK, Parsed, ledgerVars, requestVars, operatorVars, boundVars
  <1>16. QED
    BY <1>1, <1>2, <1>3, <1>4, <1>5, <1>6, <1>7, <1>8, <1>9, <1>10, <1>11, <1>12, <1>13,
       <1>14, <1>15, NextCases

\* Every variable keeps its type: in particular no interleaving of requests,
\* operators and faults makes a balance of len_balances negative.
THEOREM TypeCorrect == Spec => []TypeOK
  <1>1. TypeInv => TypeOK
    BY DEF TypeInv
  <1>2. QED
    BY TypeInit, TypeNext, <1>1, PTL DEF Spec

-----------------------------------------------------------------------------
(* The bookkeeping of the saga.                                            *)

\* How far a handler has come tells what it has written.
HandlerInv ==
    /\ \A r \in posted : phase[r] \in {"posted", "recorded", "done", "aborted"}
    /\ \A r \in Requests : phase[r] \in {"posted", "recorded"} => r \in posted
    /\ \A r \in Requests : phase[r] = "recorded" => status[r] # "none"
    /\ \A r \in Requests : status[r] # "none" =>
          r \in posted /\ req[r].kind = "withdraw" /\ phase[r] \in {"recorded", "done", "aborted"}
    /\ \A r \in posted : req[r].kind = "withdraw" /\ status[r] = "none" =>
          phase[r] \in {"posted", "aborted"}

\* Operators work on recorded withdrawals only, and post the reversal first.
OperatorInv ==
    /\ \A o \in Operators : job[o] # Idle => status[job[o].ref] # "none"
    /\ \A o \in Operators : job[o] # Idle /\ job[o].step = "refunded" => job[o].ref \in compensated
    /\ \A r \in compensated : status[r] # "none"
    /\ \A r \in Requests : status[r] = "failed_compensated" => r \in compensated

\* The saga invariants hold before the first request.
LEMMA SagaInit == Init => HandlerInv /\ OperatorInv
  BY DEF Init, HandlerInv, OperatorInv

\* Every step keeps what the progress of the handlers says.
LEMMA HandlerNext == TypeInv /\ HandlerInv /\ OperatorInv /\ [Next]_vars => HandlerInv'
  <1> SUFFICES ASSUME TypeInv, HandlerInv, OperatorInv, [Next]_vars PROVE HandlerInv'
    OBVIOUS
  <1> USE DEF TypeInv, TypeOK, HandlerInv
  <1>1. ASSUME NEW r \in Requests, AdmitDeposit(r) \/ AdmitWithdraw(r) \/ AdmitTransfer(r)
        PROVE  HandlerInv'
    <2>1. PICK kind \in Kinds, payer \in Customers, to \in Accounts, amount \in Amounts :
             Enter(r, kind, payer, to, amount)
      BY <1>1, AccountsAssumption DEF AdmitDeposit, AdmitWithdraw, AdmitTransfer, Kinds
    <2>2. QED
      BY <2>1 DEF Enter, Goto, ledgerVars
  <1>2. ASSUME NEW r \in Requests, ApproveDeposit(r) \/ ApproveWithdraw(r) \/ ApproveTransfer(r)
        PROVE  HandlerInv'
    <2>1. PICK credit, net : Approve(r, credit, net)
      BY <1>2 DEF ApproveDeposit, ApproveWithdraw, ApproveTransfer
    <2>2. phase[r] = "admitted"
      BY <1>2 DEF ApproveDeposit, ApproveWithdraw, ApproveTransfer, Awaits
    <2>3. r \notin posted
      BY <2>2
    <2>4. \A q \in Requests \ {r} : req'[q] = req[q] /\ phase'[q] = phase[q]
      BY <2>1 DEF Approve, Goto
    <2>5. phase'[r] = "approved" /\ UNCHANGED <<posted, status>>
      BY <2>1 DEF Approve, Goto, ledgerVars
    <2>6. QED
      BY <2>3, <2>4, <2>5
  <1>3. ASSUME NEW r \in Requests, Refuse(r) \/ PostRejected(r)
        PROVE  HandlerInv'
    BY <1>3 DEF Refuse, PostRejected, Goto, ledgerVars
  <1>4. ASSUME NEW r \in Requests, Post(r)
        PROVE  HandlerInv'
    BY <1>4 DEF Post, Goto
  <1>5. ASSUME NEW r \in Requests, Record(r)
        PROVE  HandlerInv'
    BY <1>5 DEF Record, Goto, ledgerVars
  <1>6. ASSUME NEW r \in Requests, Screen(r)
        PROVE  HandlerInv'
    BY <1>6 DEF Screen, Goto, ledgerVars
  <1>7. ASSUME NEW r \in Requests, Abort(r) \/ ScreenFails(r)
        PROVE  HandlerInv'
    BY <1>7 DEF Abort, ScreenFails, Goto, ledgerVars, Running
  <1>8. ASSUME NEW o \in Operators, SettleWrite(o) \/ FailWrite(o)
        PROVE  HandlerInv'
    <2>1. job[o].ref \in Requests /\ status[job[o].ref] # "none"
      BY <1>8 DEF SettleWrite, FailWrite, Jobs, Idle, OperatorInv
    <2>2. UNCHANGED <<posted, phase, req>>
      BY <1>8 DEF SettleWrite, FailWrite, ledgerVars, requestVars
    <2>3. \A q \in Requests : (status'[q] # "none") <=> (status[q] # "none")
      BY <1>8, <2>1 DEF SettleWrite, FailWrite
    <2>4. QED
      BY <2>2, <2>3
  <1>9. CASE UNCHANGED <<posted, status, phase, req>>
    BY <1>9
  <1>10. ASSUME NEW o \in Operators, NEW r \in Requests, SettleRead(o, r) \/ FailRead(o, r)
         PROVE  UNCHANGED <<posted, status, phase, req>>
    BY <1>10 DEF SettleRead, FailRead, ledgerVars, requestVars
  <1>11. ASSUME NEW o \in Operators, FailPost(o) \/ FailRejected(o) \/ AbortJob(o)
         PROVE  UNCHANGED <<posted, status, phase, req>>
    BY <1>11 DEF FailPost, FailRejected, AbortJob, ledgerVars, requestVars
  <1>12. ToggleFreeze \/ UNCHANGED vars => UNCHANGED <<posted, status, phase, req>>
    BY DEF ToggleFreeze, vars, ledgerVars, requestVars
  <1>13. QED
    BY <1>1, <1>2, <1>3, <1>4, <1>5, <1>6, <1>7, <1>8, <1>9, <1>10, <1>11, <1>12, NextCases

\* Every step keeps what the operators rely on.
LEMMA OperatorNext == TypeInv /\ HandlerInv /\ OperatorInv /\ [Next]_vars => OperatorInv'
  <1> SUFFICES ASSUME TypeInv, HandlerInv, OperatorInv, [Next]_vars PROVE OperatorInv'
    OBVIOUS
  <1> USE DEF TypeInv, TypeOK, OperatorInv
  <1>1. ASSUME NEW r \in Requests, Record(r)
        PROVE  OperatorInv'
    <2>1. status[r] = "none"
      BY <1>1 DEF Record, HandlerInv
    <2>2. QED
      BY <1>1, <2>1 DEF Record, ledgerVars, operatorVars
  <1>2. ASSUME NEW o \in Operators, NEW r \in Requests, SettleRead(o, r) \/ FailRead(o, r)
        PROVE  OperatorInv'
    BY <1>2 DEF SettleRead, FailRead, Begin, Idle, ledgerVars
  <1>3. ASSUME NEW o \in Operators, SettleWrite(o) \/ FailWrite(o)
        PROVE  OperatorInv'
    <2>1. job[o] # Idle /\ job[o].ref \in Requests
      BY <1>3 DEF SettleWrite, FailWrite, Jobs, Idle
    <2>2. job' = [job EXCEPT ![o] = Idle] /\ UNCHANGED compensated
      BY <1>3 DEF SettleWrite, FailWrite, Finish, ledgerVars
    <2>3. CASE SettleWrite(o)
      <3>1. status' = [status EXCEPT ![job[o].ref] = "settled"]
        BY <2>3 DEF SettleWrite
      <3>2. QED
        BY <2>1, <2>2, <3>1
    <2>4. CASE FailWrite(o)
      <3>1. /\ status' = [status EXCEPT ![job[o].ref] = "failed_compensated"]
            /\ job[o].step = "refunded"
        BY <2>4 DEF FailWrite
      <3>2. job[o].ref \in compensated
        BY <2>1, <3>1
      <3>3. QED
        BY <2>1, <2>2, <3>1, <3>2
    <2>5. QED
      BY <1>3, <2>3, <2>4
  <1>4. ASSUME NEW o \in Operators, FailPost(o)
        PROVE  OperatorInv'
    <2>1. job[o] # Idle /\ job[o].ref \in Requests
      BY <1>4 DEF FailPost, Jobs, Idle
    <2>2. /\ compensated' = compensated \cup {job[o].ref}
          /\ job' = [job EXCEPT ![o] = [step |-> "refunded", ref |-> job[o].ref]]
          /\ UNCHANGED status
      BY <1>4 DEF FailPost, Begin
    <2>3. QED
      BY <2>1, <2>2 DEF Idle
  <1>5. ASSUME NEW o \in Operators, FailRejected(o) \/ AbortJob(o)
        PROVE  OperatorInv'
    BY <1>5 DEF FailRejected, AbortJob, Finish, ledgerVars
  <1>6. CASE UNCHANGED <<compensated, status, job>>
    BY <1>6
  <1>7. ASSUME NEW r \in Requests,
               \/ AdmitDeposit(r) \/ AdmitWithdraw(r) \/ AdmitTransfer(r)
               \/ ApproveDeposit(r) \/ ApproveWithdraw(r) \/ ApproveTransfer(r)
        PROVE  UNCHANGED <<compensated, status, job>>
    BY <1>7 DEF AdmitDeposit, AdmitWithdraw, AdmitTransfer, Enter, ApproveDeposit,
                ApproveWithdraw, ApproveTransfer, Approve, ledgerVars, operatorVars
  <1>8. ASSUME NEW r \in Requests, \/ Refuse(r) \/ Post(r) \/ PostRejected(r)
                                \/ Screen(r) \/ ScreenFails(r) \/ Abort(r)
        PROVE  UNCHANGED <<compensated, status, job>>
    BY <1>8 DEF Refuse, Post, PostRejected, Screen, ScreenFails, Abort, ledgerVars, operatorVars
  <1>9. ToggleFreeze \/ UNCHANGED vars => UNCHANGED <<compensated, status, job>>
    BY DEF ToggleFreeze, vars, ledgerVars, operatorVars
  <1>10. QED
    BY <1>1, <1>2, <1>3, <1>4, <1>5, <1>6, <1>7, <1>8, <1>9, NextCases

\* The three invariants together are inductive.
LEMMA SagaInvariant == Spec => [](TypeInv /\ HandlerInv /\ OperatorInv)
  BY TypeInit, TypeNext, SagaInit, HandlerNext, OperatorNext, PTL DEF Spec

\* The withdrawal documents and the ledger never contradict each other,
\* whatever overlaps and wherever a handler stops (withdrawals.ts).
THEOREM DocumentsAgree == Spec => []DocumentsMatchLedger
  <1>1. HandlerInv /\ OperatorInv => DocumentsMatchLedger
    BY DEF HandlerInv, OperatorInv, DocumentsMatchLedger, Withdrawals
  <1>2. QED
    BY <1>1, SagaInvariant, PTL

\* A withdrawal is debited without a payout document only while its handler is
\* between the two writes, or when a fault stopped it there (withdraw/route.ts).
THEOREM OnlyFaultsLoseObligations == Spec => []DebitsTracked
  <1>1. HandlerInv => DebitsTracked
    BY DEF HandlerInv, DebitsTracked, Withdrawals
  <1>2. QED
    BY <1>1, SagaInvariant, PTL

-----------------------------------------------------------------------------
(* With one operator call at a time and no handler stopped half way, the   *)
(* withdrawal saga keeps its promise: it implements PayoutObligation.      *)
(* Neither assumption is enforced by the code; without the first one the   *)
(* run `outcomes` shows the promise broken.                                *)


\* At most one call of the operator route runs at a time.
OneOperator == \A o, p \in Operators : o = p

\* A reversal whose document is not closed yet is in the hands of an operator,
\* and whatever an operator is working on is still pending.
SerialInv ==
    /\ \A r \in compensated :
          \/ status[r] = "failed_compensated"
          \/ \E o \in Operators : job[o] = [step |-> "refunded", ref |-> r]
    /\ \A r \in Requests : "settle" \in acknowledged[r] => status[r] = "settled"
    /\ \A r \in Requests : "fail" \in acknowledged[r] => status[r] = "failed_compensated"
    /\ \A o \in Operators : job[o] # Idle => status[job[o].ref] = "pending_payout"
    /\ \A o \in Operators :
          job[o] # Idle /\ job[o].step \in {"settling", "failing"} => job[o].ref \notin compensated

LedgerInv == TypeInv /\ HandlerInv /\ OperatorInv

-----------------------------------------------------------------------------

\* Nothing is reversed, acknowledged or under work at the start.
LEMMA SerialInit == Init => SerialInv
  BY DEF Init, SerialInv

\* With one operator, an open reversal is in the hands of that operator.
LEMMA OpenReversal ==
    ASSUME OneOperator, SerialInv, NEW o \in Operators, NEW q \in compensated
    PROVE  status[q] = "failed_compensated" \/ job[o] = [step |-> "refunded", ref |-> q]
  BY Zenon DEF OneOperator, SerialInv

\* Every step of a serial, fault-free system keeps SerialInv.
LEMMA SerialNext ==
    ASSUME OneOperator, MaxFaults = 0, LedgerInv, SerialInv, [Next]_vars
    PROVE  SerialInv'
  <1> USE DEF LedgerInv, TypeInv, TypeOK, SerialInv
  <1>1. ASSUME NEW r \in Requests, Record(r)
        PROVE  SerialInv'
    <2>1. status[r] = "none"
      BY <1>1 DEF Record, HandlerInv
    <2>2. r \notin compensated /\ acknowledged[r] = {}
      BY <2>1 DEF OperatorInv
    <2>3. /\ status' = [status EXCEPT ![r] = "pending_payout"]
          /\ UNCHANGED <<compensated, job, acknowledged>>
      BY <1>1 DEF Record, ledgerVars, operatorVars
    <2>4. QED
      BY <2>1, <2>2, <2>3
  <1>2. ASSUME NEW o \in Operators, NEW r \in Requests, SettleRead(o, r) \/ FailRead(o, r)
        PROVE  SerialInv'
    <2>1. PICK s \in {"settling", "failing"} : job' = [job EXCEPT ![o] = [step |-> s, ref |-> r]]
      BY <1>2 DEF SettleRead, FailRead, Begin
    <2>2. /\ job[o] = Idle /\ status[r] = "pending_payout"
          /\ UNCHANGED <<compensated, status, acknowledged>>
      BY <1>2 DEF SettleRead, FailRead, ledgerVars
    <2>3. \A q \in compensated : status[q] = "failed_compensated"
      BY <2>2, OpenReversal DEF Idle
    <2>4. \A p \in Operators : p = o
      BY DEF OneOperator
    <2>5. job'[o] = [step |-> s, ref |-> r]
      BY <2>1
    <2>6. QED
      BY <2>2, <2>3, <2>4, <2>5
  <1>3. ASSUME NEW o \in Operators, SettleWrite(o)
        PROVE  SerialInv'
    <2> DEFINE r == job[o].ref
    <2>1. job[o] # Idle /\ r \in Requests
      BY <1>3 DEF SettleWrite, Jobs, Idle
    <2>2. status[r] = "pending_payout" /\ r \notin compensated
      BY <1>3, <2>1 DEF SettleWrite
    <2>3. \A q \in compensated : status[q] = "failed_compensated"
      BY <1>3, OpenReversal DEF SettleWrite
    <2>4. /\ status' = [status EXCEPT ![r] = "settled"]
          /\ acknowledged' = [acknowledged EXCEPT ![r] = @ \cup {"settle"}]
          /\ job' = [job EXCEPT ![o] = Idle]
          /\ UNCHANGED compensated
      BY <1>3 DEF SettleWrite, Finish, ledgerVars
    <2>5. \A p \in Operators : job'[p] = Idle
      BY <2>4 DEF OneOperator
    <2>6. QED
      BY <2>1, <2>2, <2>3, <2>4, <2>5
  <1>4. ASSUME NEW o \in Operators, FailPost(o)
        PROVE  SerialInv'
    <2> DEFINE r == job[o].ref
    <2>1. job[o] # Idle /\ r \in Requests
      BY <1>4 DEF FailPost, Jobs, Idle
    <2>2. status[r] = "pending_payout" /\ r \notin compensated
      BY <1>4, <2>1 DEF FailPost
    <2>3. \A q \in compensated : status[q] = "failed_compensated"
      BY <1>4, OpenReversal DEF FailPost
    <2>4. /\ compensated' = compensated \cup {r}
          /\ job' = [job EXCEPT ![o] = [step |-> "refunded", ref |-> r]]
          /\ UNCHANGED <<status, acknowledged>>
      BY <1>4 DEF FailPost, Begin
    <2>5. \A p \in Operators : job'[p] = [step |-> "refunded", ref |-> r]
      BY <2>4 DEF OneOperator
    <2>6. QED
      BY <2>1, <2>2, <2>3, <2>4, <2>5
  <1>5. ASSUME NEW o \in Operators, FailWrite(o)
        PROVE  SerialInv'
    <2> DEFINE r == job[o].ref
    <2>1. job[o] # Idle /\ r \in Requests
      BY <1>5 DEF FailWrite, Jobs, Idle
    <2>2. status[r] = "pending_payout"
      BY <2>1
    <2>3. \A q \in compensated : q = r \/ status[q] = "failed_compensated"
      BY <1>5, OpenReversal DEF FailWrite
    <2>4. /\ status' = [status EXCEPT ![r] = "failed_compensated"]
          /\ acknowledged' = [acknowledged EXCEPT ![r] = @ \cup {"fail"}]
          /\ job' = [job EXCEPT ![o] = Idle]
          /\ UNCHANGED compensated
      BY <1>5 DEF FailWrite, Finish, ledgerVars
    <2>5. \A p \in Operators : job'[p] = Idle
      BY <2>4 DEF OneOperator
    <2>6. QED
      BY <2>1, <2>2, <2>3, <2>4, <2>5
  <1>6. ASSUME NEW o \in Operators, FailRejected(o)
        PROVE  SerialInv'
    <2>1. \A q \in compensated : status[q] = "failed_compensated"
      BY <1>6, OpenReversal DEF FailRejected
    <2>2. /\ job' = [job EXCEPT ![o] = Idle]
          /\ UNCHANGED <<compensated, status, acknowledged>>
      BY <1>6 DEF FailRejected, Finish, ledgerVars
    <2>3. QED
      BY <2>1, <2>2 DEF OneOperator
  <1>7. ASSUME NEW o \in Operators, AbortJob(o)
        PROVE  FALSE
    BY <1>7 DEF AbortJob
  <1>8. CASE UNCHANGED <<compensated, status, job, acknowledged>>
    BY <1>8
  <1>9. ASSUME NEW r \in Requests,
               \/ AdmitDeposit(r) \/ AdmitWithdraw(r) \/ AdmitTransfer(r)
               \/ ApproveDeposit(r) \/ ApproveWithdraw(r) \/ ApproveTransfer(r)
        PROVE  UNCHANGED <<compensated, status, job, acknowledged>>
    BY <1>9 DEF AdmitDeposit, AdmitWithdraw, AdmitTransfer, Enter, ApproveDeposit,
                ApproveWithdraw, ApproveTransfer, Approve, ledgerVars, operatorVars
  <1>10. ASSUME NEW r \in Requests, \/ Refuse(r) \/ Post(r) \/ PostRejected(r)
                                 \/ Screen(r) \/ ScreenFails(r) \/ Abort(r)
        PROVE  UNCHANGED <<compensated, status, job, acknowledged>>
    BY <1>10 DEF Refuse, Post, PostRejected, Screen, ScreenFails, Abort, ledgerVars, operatorVars
  <1>11. ToggleFreeze \/ UNCHANGED vars => UNCHANGED <<compensated, status, job, acknowledged>>
    BY DEF ToggleFreeze, vars, ledgerVars, operatorVars
  <1>12. QED
    BY <1>1, <1>2, <1>3, <1>4, <1>5, <1>6, <1>7, <1>8, <1>9, <1>10, <1>11, NextCases

\* SerialInv and the saga invariants together are inductive.
LEMMA SerialInvariant ==
    ASSUME OneOperator, MaxFaults = 0
    PROVE  Spec => [](LedgerInv /\ SerialInv)
  <1>1. Init => SerialInv
    BY SerialInit
  <1>2. LedgerInv /\ SerialInv /\ [Next]_vars => SerialInv'
    BY SerialNext
  <1>3. Spec => []LedgerInv
    BY SagaInvariant DEF LedgerInv
  <1>4. QED
    BY <1>1, <1>2, <1>3, PTL DEF Spec

\* One operator at a time and no faults: a payout confirmed as settled is never
\* also refunded (settleWithdrawal and failWithdrawal of withdrawals.ts).
THEOREM SerialSettledNotRefunded ==
    ASSUME OneOperator, MaxFaults = 0
    PROVE  Spec => []SettledNotRefunded
  <1>1. ASSUME LedgerInv, SerialInv, NEW r \in Requests, "settle" \in acknowledged[r]
        PROVE  r \notin compensated
    <2>1. status[r] = "settled"
      BY <1>1 DEF SerialInv
    <2>2. \A o \in Operators : job[o] # [step |-> "refunded", ref |-> r]
      BY <1>1, <2>1 DEF SerialInv, Idle
    <2>3. QED
      BY <1>1, <2>1, <2>2 DEF SerialInv
  <1>2. LedgerInv /\ SerialInv => SettledNotRefunded
    BY <1>1 DEF SettledNotRefunded
  <1>3. QED
    BY <1>2, SerialInvariant, PTL

\* One operator at a time and no faults: the operators are told one outcome per
\* withdrawal (POST /api/admin/withdrawals).
THEOREM SerialOneOutcome ==
    ASSUME OneOperator, MaxFaults = 0
    PROVE  Spec => []OneOutcome
  <1>1. LedgerInv /\ SerialInv => OneOutcome
    BY DEF LedgerInv, SerialInv, OneOutcome
  <1>2. QED
    BY <1>1, SerialInvariant, PTL

-----------------------------------------------------------------------------
(* The refinement.                                                         *)

\* What Debt is, case by case.
LEMMA DebtCases ==
    ASSUME NEW r \in Requests
    PROVE  /\ r \in compensated => Debt[r] = "refunded"
           /\ r \notin compensated /\ status[r] = "settled" => Debt[r] = "settled"
           /\ r \notin compensated /\ status[r] # "settled" /\ r \in posted \cap Withdrawals
                => Debt[r] = "owed"
           /\ r \notin compensated /\ status[r] # "settled" /\ r \notin posted \cap Withdrawals
                => Debt[r] = "none"
  BY DEF Debt

\* Debt after a step, case by case.
LEMMA DebtCasesNext ==
    ASSUME NEW r \in Requests
    PROVE  /\ r \in compensated' => Debt'[r] = "refunded"
           /\ r \notin compensated' /\ status'[r] = "settled" => Debt'[r] = "settled"
           /\ r \notin compensated' /\ status'[r] # "settled" /\ r \in posted' \cap Withdrawals'
                => Debt'[r] = "owed"
           /\ r \notin compensated' /\ status'[r] # "settled" /\ r \notin posted' \cap Withdrawals'
                => Debt'[r] = "none"
  BY DEF Debt

\* A step that moves the debt of one withdrawal, and no other, is a step of
\* PayoutObligation.
LEMMA OneDebtMoves ==
    ASSUME NEW r \in Requests,
           \A q \in Requests \ {r} : Debt'[q] = Debt[q],
           \/ Debt'[r] = Debt[r]
           \/ Debt[r] = "none" /\ Debt'[r] = "owed"
           \/ Debt[r] = "owed" /\ Debt'[r] \in {"settled", "refunded"}
    PROVE  [Obligation!Next]_Debt
  <1>1. /\ Debt = [q \in Requests |-> Debt[q]]
        /\ Debt' = [q \in Requests |-> Debt'[q]]
    BY DEF Debt
  <1>2. CASE Debt'[r] = Debt[r]
    BY <1>1, <1>2
  <1>3. ASSUME Debt'[r] # Debt[r]
        PROVE  Debt' = [Debt EXCEPT ![r] = Debt'[r]]
    BY <1>1
  <1>4. CASE Debt[r] = "none" /\ Debt'[r] = "owed"
    <2>1. Obligation!Owe(r)
      BY <1>3, <1>4 DEF Obligation!Owe, Obligation!Move
    <2>2. QED
      BY <2>1 DEF Obligation!Next
  <1>5. CASE Debt[r] = "owed" /\ Debt'[r] \in {"settled", "refunded"}
    <2>1. Obligation!Settle(r) \/ Obligation!Refund(r)
      BY <1>3, <1>5 DEF Obligation!Settle, Obligation!Refund, Obligation!Move
    <2>2. QED
      BY <2>1 DEF Obligation!Next
  <1>6. QED
    BY <1>2, <1>4, <1>5

\* A step that leaves the ledger and the documents alone, and the kind of every
\* posted request, moves no debt.
LEMMA NoDebtMoves ==
    ASSUME \A q \in Requests : q \in compensated' <=> q \in compensated,
           \A q \in Requests : status'[q] = "settled" <=> status[q] = "settled",
           \A q \in Requests :
              q \in posted' \cap Withdrawals' <=> q \in posted \cap Withdrawals
    PROVE  [Obligation!Next]_Debt
  <1>1. \A q \in Requests : Debt'[q] = Debt[q]
    BY DebtCases, DebtCasesNext
  <1>2. /\ Debt = [q \in Requests |-> Debt[q]]
        /\ Debt' = [q \in Requests |-> Debt'[q]]
    BY DEF Debt
  <1>3. QED
    BY <1>1, <1>2

\* Posting opens the debt of a withdrawal (or moves none).
LEMMA PostMoves ==
    ASSUME LedgerInv, NEW r \in Requests, Post(r)
    PROVE  [Obligation!Next]_Debt
  <1>1. phase[r] = "approved" /\ posted' = posted \cup {r} /\ UNCHANGED <<compensated, status, req>>
    BY DEF Post
  <1>2. r \notin posted /\ status[r] = "none"
    BY <1>1 DEF LedgerInv, HandlerInv
  <1>3. r \notin compensated
    BY <1>2 DEF LedgerInv, OperatorInv
  <1>4. Debt[r] = "none" /\ Debt'[r] \in {"none", "owed"}
    BY <1>1, <1>2, <1>3, DebtCases, DebtCasesNext
  <1>5. \A q \in Requests \ {r} : Debt'[q] = Debt[q]
    BY <1>1, DebtCases, DebtCasesNext DEF Withdrawals
  <1>6. QED
    BY <1>4, <1>5, OneDebtMoves

\* An operator works on an owed debt, and moves it to one of its two ends.
LEMMA OperatorMoves ==
    ASSUME LedgerInv, SerialInv, NEW o \in Operators, SettleWrite(o) \/ FailPost(o)
    PROVE  [Obligation!Next]_Debt
  <1> DEFINE r == job[o].ref
  <1>1. job[o] # Idle /\ r \in Requests
    BY DEF SettleWrite, FailPost, LedgerInv, TypeInv, TypeOK, Jobs, Idle
  <1>2. job[o].step \in {"settling", "failing"}
    BY DEF SettleWrite, FailPost
  <1>3. status[r] = "pending_payout" /\ r \notin compensated
    BY <1>1, <1>2 DEF SerialInv
  <1>4. r \in posted \cap Withdrawals
    BY <1>1, <1>3 DEF LedgerInv, HandlerInv, Withdrawals
  <1>5. Debt[r] = "owed"
    BY <1>1, <1>3, <1>4, DebtCases
  <1>6. UNCHANGED <<posted, req>>
    BY DEF SettleWrite, FailPost, ledgerVars, requestVars
  <1>7. \A q \in Requests \ {r} : /\ status'[q] = status[q]
                                  /\ q \in compensated' <=> q \in compensated
    BY <1>1 DEF SettleWrite, FailPost, ledgerVars, LedgerInv, TypeInv, TypeOK
  <1>8. \A q \in Requests \ {r} : Debt'[q] = Debt[q]
    BY <1>6, <1>7, DebtCases, DebtCasesNext DEF Withdrawals
  <1>9. CASE SettleWrite(o)
    <2>1. status'[r] = "settled" /\ r \notin compensated'
      BY <1>1, <1>3, <1>9 DEF SettleWrite, ledgerVars, LedgerInv, TypeInv, TypeOK
    <2>2. Debt'[r] = "settled"
      BY <1>1, <2>1, DebtCasesNext
    <2>3. QED
      BY <1>1, <1>5, <1>8, <2>2, OneDebtMoves
  <1>10. CASE FailPost(o)
    <2>1. r \in compensated'
      BY <1>10 DEF FailPost
    <2>2. Debt'[r] = "refunded"
      BY <1>1, <2>1, DebtCasesNext
    <2>3. QED
      BY <1>1, <1>5, <1>8, <2>2, OneDebtMoves
  <1>11. QED
    BY <1>9, <1>10

\* Closing the document of a reversal, or writing the payout document, moves
\* no debt.
LEMMA DocumentMoves ==
    ASSUME LedgerInv,
           \/ \E o \in Operators : FailWrite(o)
           \/ \E r \in Requests : Record(r)
    PROVE  [Obligation!Next]_Debt
  <1> USE DEF LedgerInv, TypeInv, TypeOK
  <1>1. UNCHANGED <<posted, compensated, req>>
    BY DEF FailWrite, Record, ledgerVars, requestVars
  <1>2. ASSUME NEW r \in Requests, Record(r), NEW q \in Requests
        PROVE  status'[q] = "settled" <=> status[q] = "settled"
    <2>1. status[r] = "none" /\ status' = [status EXCEPT ![r] = "pending_payout"]
      BY <1>2 DEF Record, HandlerInv
    <2>2. QED
      BY <2>1
  <1>3. ASSUME NEW o \in Operators, FailWrite(o), NEW q \in Requests
        PROVE  q \in compensated \/ (status'[q] = "settled" <=> status[q] = "settled")
    <2>1. job[o] # Idle /\ job[o].step = "refunded"
      BY <1>3 DEF FailWrite, Idle
    <2>2. job[o].ref \in compensated
      BY <2>1 DEF OperatorInv
    <2>3. status' = [status EXCEPT ![job[o].ref] = "failed_compensated"]
      BY <1>3 DEF FailWrite
    <2>4. QED
      BY <2>2, <2>3
  <1>4. \A q \in Requests : Debt'[q] = Debt[q]
    BY <1>1, <1>2, <1>3, DebtCases, DebtCasesNext DEF Withdrawals
  <1>5. /\ Debt = [q \in Requests |-> Debt[q]]
        /\ Debt' = [q \in Requests |-> Debt'[q]]
    BY DEF Debt
  <1>6. QED
    BY <1>4, <1>5

\* A handler that has posted nothing moves no debt.
LEMMA HandlerMoves ==
    ASSUME LedgerInv, NEW r \in Requests,
           \/ AdmitDeposit(r) \/ AdmitWithdraw(r) \/ AdmitTransfer(r)
           \/ ApproveDeposit(r) \/ ApproveWithdraw(r) \/ ApproveTransfer(r)
    PROVE  [Obligation!Next]_Debt
  <1> USE DEF LedgerInv, TypeInv, TypeOK
  <1>1. phase[r] \in {"idle", "admitted"} /\ UNCHANGED <<posted, compensated, status>>
    BY DEF AdmitDeposit, AdmitWithdraw, AdmitTransfer, Enter, ApproveDeposit,
           ApproveWithdraw, ApproveTransfer, Approve, Awaits, ledgerVars
  <1>2. r \notin posted
    BY <1>1 DEF HandlerInv
  <1>3. \A q \in Requests \ {r} : req'[q] = req[q]
    BY DEF AdmitDeposit, AdmitWithdraw, AdmitTransfer, Enter, ApproveDeposit,
           ApproveWithdraw, ApproveTransfer, Approve
  <1>4. QED
    BY <1>1, <1>2, <1>3, NoDebtMoves DEF Withdrawals

\* Every step of a serial, fault-free saga moves at most one debt, and moves it
\* as PayoutObligation allows.
LEMMA DebtNext ==
    ASSUME OneOperator, MaxFaults = 0, LedgerInv, SerialInv, [Next]_vars
    PROVE  [Obligation!Next]_Debt
  <1>1. ASSUME NEW r \in Requests,
               \/ AdmitDeposit(r) \/ AdmitWithdraw(r) \/ AdmitTransfer(r)
               \/ ApproveDeposit(r) \/ ApproveWithdraw(r) \/ ApproveTransfer(r)
        PROVE  [Obligation!Next]_Debt
    BY <1>1, HandlerMoves
  <1>2. ASSUME NEW r \in Requests, \/ Refuse(r) \/ PostRejected(r)
                                \/ Screen(r) \/ ScreenFails(r) \/ Abort(r)
        PROVE  UNCHANGED <<posted, compensated, status, req>>
    BY <1>2 DEF Refuse, PostRejected, Screen, ScreenFails, Abort, ledgerVars
  <1>3. ASSUME NEW o \in Operators, NEW r \in Requests, SettleRead(o, r) \/ FailRead(o, r)
        PROVE  UNCHANGED <<posted, compensated, status, req>>
    BY <1>3 DEF SettleRead, FailRead, ledgerVars, requestVars
  <1>4. ASSUME NEW o \in Operators, FailRejected(o) \/ AbortJob(o)
        PROVE  UNCHANGED <<posted, compensated, status, req>>
    BY <1>4 DEF FailRejected, AbortJob, ledgerVars, requestVars
  <1>5. ToggleFreeze \/ UNCHANGED vars => UNCHANGED <<posted, compensated, status, req>>
    BY DEF ToggleFreeze, vars, ledgerVars, requestVars
  <1>6. UNCHANGED <<posted, compensated, status, req>> => [Obligation!Next]_Debt
    BY NoDebtMoves DEF Withdrawals
  <1>7. QED
    BY <1>1, <1>2, <1>3, <1>4, <1>5, <1>6, PostMoves, OperatorMoves, DocumentMoves, NextCases

\* One operator at a time and no faults: every withdrawal that was debited is
\* owed until it is either settled or refunded, once and for good
\* (withdrawals.ts, header).
THEOREM SerialImplementsObligation ==
    ASSUME OneOperator, MaxFaults = 0
    PROVE  Spec => ImplementsObligation
  <1>1. Init => Obligation!Init
    BY DebtCases DEF Init, Debt, Obligation!Init
  <1>2. LedgerInv /\ SerialInv /\ [Next]_vars => [Obligation!Next]_Debt
    BY DebtNext
  <1>3. QED
    BY <1>1, <1>2, SerialInvariant, PTL DEF Spec, ImplementsObligation, Obligation!Spec


-----------------------------------------------------------------------------
(* What a step does to the ledger.                                         *)

\* A request that has posted or is about to has a payer, an amount and legs.
LEMMA StartedTyped ==
    ASSUME LedgerInv, NEW r \in Requests, phase[r] # "idle" \/ r \in posted \/ r \in compensated
    PROVE  /\ req[r] \in Request
           /\ req[r].payer \in Accounts /\ req[r].amount \in Nat
           /\ req[r].credit \in [Accounts -> Nat]
  <1>1. phase[r] # "idle"
    BY DEF LedgerInv, HandlerInv, OperatorInv
  <1>2. req[r] \in Request
    BY <1>1 DEF LedgerInv, TypeInv, Parsed
  <1>3. QED
    BY <1>2 DEF Request

\* A reversal is of a posted request.
LEMMA ReversedWasPosted ==
    ASSUME LedgerInv, NEW r \in compensated
    PROVE  r \in posted
  BY DEF LedgerInv, TypeInv, TypeOK, HandlerInv, OperatorInv

\* A step either leaves the ledger and every posted request alone, or posts one
\* request that was not posted, or reverses one that was not reversed.
LEMMA LedgerSteps ==
    ASSUME LedgerInv, [Next]_vars
    PROVE  \/ UNCHANGED ledgerVars /\ \A q \in posted : req'[q] = req[q]
           \/ \E r \in Requests \ posted : Post(r)
           \/ \E r \in posted \ compensated :
                 /\ balance' = AfterRefund(r)
                 /\ compensated' = compensated \cup {r}
                 /\ UNCHANGED <<posted, req>>
  <1> USE DEF LedgerInv, TypeInv, TypeOK
  <1> DEFINE Quiet == UNCHANGED ledgerVars /\ \A q \in posted : req'[q] = req[q]
  <1>1. ASSUME NEW r \in Requests,
               \/ AdmitDeposit(r) \/ AdmitWithdraw(r) \/ AdmitTransfer(r)
               \/ ApproveDeposit(r) \/ ApproveWithdraw(r) \/ ApproveTransfer(r)
        PROVE  Quiet
    <2>1. phase[r] \in {"idle", "admitted"} /\ UNCHANGED ledgerVars
      BY <1>1 DEF AdmitDeposit, AdmitWithdraw, AdmitTransfer, Enter, ApproveDeposit,
             ApproveWithdraw, ApproveTransfer, Approve, Awaits
    <2>2. r \notin posted
      BY <2>1 DEF HandlerInv
    <2>3. \A q \in Requests \ {r} : req'[q] = req[q]
      BY <1>1 DEF AdmitDeposit, AdmitWithdraw, AdmitTransfer, Enter, ApproveDeposit,
             ApproveWithdraw, ApproveTransfer, Approve
    <2>4. QED
      BY <2>1, <2>2, <2>3
  <1>2. ASSUME NEW r \in Requests, \/ Refuse(r) \/ PostRejected(r) \/ Record(r)
                                \/ Screen(r) \/ ScreenFails(r) \/ Abort(r)
        PROVE  Quiet
    BY <1>2 DEF Refuse, PostRejected, Record, Screen, ScreenFails, Abort
  <1>3. ASSUME NEW o \in Operators, NEW r \in Requests, SettleRead(o, r) \/ FailRead(o, r)
        PROVE  Quiet
    BY <1>3 DEF SettleRead, FailRead, requestVars
  <1>4. ASSUME NEW o \in Operators, \/ SettleWrite(o) \/ FailWrite(o)
                                 \/ FailRejected(o) \/ AbortJob(o)
        PROVE  Quiet
    BY <1>4 DEF SettleWrite, FailWrite, FailRejected, AbortJob, requestVars
  <1>5. ToggleFreeze \/ UNCHANGED vars => Quiet
    BY DEF ToggleFreeze, vars, requestVars
  <1>6. ASSUME NEW r \in Requests, Post(r)
        PROVE  r \notin posted
    BY <1>6 DEF Post, HandlerInv
  <1>7. ASSUME NEW o \in Operators, FailPost(o)
        PROVE  \/ Quiet
               \/ \E r \in posted \ compensated :
                     /\ balance' = AfterRefund(r)
                     /\ compensated' = compensated \cup {r}
                     /\ UNCHANGED <<posted, req>>
    <2>1. job[o].ref \in Requests /\ status[job[o].ref] # "none"
      BY <1>7 DEF FailPost, Jobs, Idle, OperatorInv
    <2>2. job[o].ref \in posted
      BY <2>1 DEF HandlerInv
    <2>3. UNCHANGED <<posted, req>>
      BY <1>7 DEF FailPost, requestVars
    <2>4. QED
      BY <1>7, <2>2, <2>3 DEF FailPost, ledgerVars
  <1>8. QED
    BY <1>1, <1>2, <1>3, <1>4, <1>5, <1>6, <1>7, NextCases

-----------------------------------------------------------------------------
(* The balances.                                                           *)

\* Only finitely many requests have posted or were reversed so far.
LedgerFinite == IsFiniteSet(posted) /\ IsFiniteSet(compensated)

\* The ledger grows by one request per step.
LEMMA FiniteNext ==
    ASSUME LedgerInv, LedgerFinite, [Next]_vars
    PROVE  LedgerFinite'
  <1>1. CASE UNCHANGED ledgerVars
    BY <1>1 DEF LedgerFinite, ledgerVars
  <1>2. ASSUME NEW r \in Requests, Post(r)
        PROVE  LedgerFinite'
    BY <1>2, FS_AddElement DEF LedgerFinite, Post
  <1>3. ASSUME NEW r, compensated' = compensated \cup {r}, UNCHANGED posted
        PROVE  LedgerFinite'
    BY <1>3, FS_AddElement DEF LedgerFinite
  <1>4. QED
    BY <1>1, <1>2, <1>3, LedgerSteps

\* What a posted request does to a balance is an integer.
LEMMA EffectIsInt ==
    ASSUME LedgerInv, NEW r \in Requests, phase[r] # "idle" \/ r \in posted, NEW a \in Accounts
    PROVE  Effect(r, a) \in Int
  <1>1. /\ req[r].amount \in Nat /\ req[r].credit \in [Accounts -> Nat]
    BY StartedTyped
  <1>2. req[r].credit[a] \in Nat
    BY <1>1
  <1>3. DebitOn(r, a) \in Nat
    BY <1>1 DEF DebitOn, Debit
  <1>4. QED
    BY <1>2, <1>3 DEF Effect

\* A request that keeps what it computed keeps its effect.
LEMMA EffectKept ==
    ASSUME NEW r, NEW a, req'[r] = req[r]
    PROVE  Effect(r, a)' = Effect(r, a)
  BY DEF Effect, DebitOn, Debit

\* The effects of a set of requests that keep what they computed stay.
LEMMA EffectsKept ==
    ASSUME NEW R, \A q \in R : req'[q] = req[q], NEW a
    PROVE  SumFunctionOnSet([r \in R |-> Effect(r, a)'], R) = Effects(R, a)
  <1>1. [r \in R |-> Effect(r, a)'] = [r \in R |-> Effect(r, a)]
    BY EffectKept
  <1>2. QED
    BY <1>1 DEF Effects

\* The entries of one more request add its effect.
LEMMA EffectsGrow ==
    ASSUME NEW R, IsFiniteSet(R), NEW e, e \notin R, NEW a,
           \A q \in R \cup {e} : Effect(q, a) \in Int
    PROVE  Effects(R \cup {e}, a) = Effects(R, a) + Effect(e, a)
  <1> DEFINE F == [q \in R |-> Effect(q, a)]
             G == [q \in R \cup {e} |-> Effect(q, a)]
  <1>1. G[e] = Effect(e, a) /\ G[e] \in Int /\ \A x \in R : G[x] = F[x] /\ F[x] \in Int
    OBVIOUS
  <1> HIDE DEF F, G
  <1>2. SumFunctionOnSet(G, R \cup {e}) = SumFunctionOnSet(F, R) + G[e]
    BY <1>1, SumGrow
  <1>3. QED
    BY <1>1, <1>2 DEF Effects, F, G

\* The effects of finitely many posted requests are an integer.
LEMMA EffectsAreInt ==
    ASSUME LedgerInv, NEW R \in SUBSET posted, IsFiniteSet(R), NEW a \in Accounts
    PROVE  Effects(R, a) \in Int
  <1>1. posted \subseteq Requests
    BY DEF LedgerInv, TypeInv, TypeOK
  <1>2. \A q \in R : Effect(q, a) \in Int
    BY <1>1, EffectIsInt
  <1>3. \A q \in R : [r \in R |-> Effect(r, a)][q] \in Int
    BY <1>2
  <1>4. QED
    BY <1>3, SumInt DEF Effects

\* Posting and reversing change a balance by the entries they write.
LEMMA BalancesNext ==
    ASSUME LedgerInv, LedgerFinite, BalancesDerived, [Next]_vars
    PROVE  BalancesDerived'
  <1>0. /\ posted \subseteq Requests /\ compensated \subseteq posted
        /\ IsFiniteSet(posted) /\ IsFiniteSet(compensated)
        /\ balance \in [Accounts -> Nat] /\ OpeningBalance \in [Accounts -> Nat]
    BY ReversedWasPosted, AccountsAssumption DEF LedgerInv, TypeInv, TypeOK, LedgerFinite
  <1>a. SUFFICES ASSUME NEW a \in Accounts
                 PROVE  balance'[a] = OpeningBalance[a] + Effects(posted, a)' - Effects(compensated, a)'
    BY DEF BalancesDerived
  <1> DEFINE P == SumFunctionOnSet([r \in posted' |-> Effect(r, a)'], posted')
             C == SumFunctionOnSet([r \in compensated' |-> Effect(r, a)'], compensated')
  <1>b. Effects(posted, a)' = P /\ Effects(compensated, a)' = C
    BY DEF Effects
  <1>c. balance[a] = OpeningBalance[a] + Effects(posted, a) - Effects(compensated, a)
    BY DEF BalancesDerived
  <1>d. /\ Effects(posted, a) \in Int /\ Effects(compensated, a) \in Int
        /\ balance[a] \in Int /\ OpeningBalance[a] \in Int
    BY <1>0, EffectsAreInt
  <1>1. CASE UNCHANGED ledgerVars /\ \A q \in posted : req'[q] = req[q]
    <2>1. UNCHANGED <<balance, posted, compensated>>
      BY <1>1 DEF ledgerVars
    <2>2. P = Effects(posted, a)
      BY <1>1, <2>1, EffectsKept
    <2>3. C = Effects(compensated, a)
      BY <1>0, <1>1, <2>1, EffectsKept
    <2>4. QED
      BY <1>b, <1>c, <2>1, <2>2, <2>3
  <1>2. ASSUME NEW r \in Requests \ posted, Post(r)
        PROVE  balance'[a] = OpeningBalance[a] + P - C
    <2>1. /\ phase[r] = "approved" /\ balance' = AfterPosting(r) /\ posted' = posted \cup {r}
          /\ UNCHANGED <<compensated, req>>
      BY <1>2 DEF Post
    <2>2. \A q \in posted \cup {r} : Effect(q, a) \in Int
      BY <1>0, <2>1, EffectIsInt
    <2>3. Effects(posted \cup {r}, a) = Effects(posted, a) + Effect(r, a)
      BY <1>0, <2>2, EffectsGrow
    <2>4. P = Effects(posted \cup {r}, a)
      BY <2>1, EffectsKept
    <2>5. C = Effects(compensated, a)
      BY <2>1, EffectsKept
    <2>6. req[r].credit[a] \in Nat /\ DebitOn(r, a) \in Nat
      BY <2>1, StartedTyped DEF DebitOn, Debit
    <2>7. balance'[a] = balance[a] + Effect(r, a)
      BY <1>d, <2>1, <2>6 DEF AfterPosting, Effect
    <2> HIDE DEF P, C
    <2>8. QED
      BY <1>c, <1>d, <2>2, <2>3, <2>4, <2>5, <2>7
  <1>3. ASSUME NEW r \in posted \ compensated, balance' = AfterRefund(r),
               compensated' = compensated \cup {r}, UNCHANGED <<posted, req>>
        PROVE  balance'[a] = OpeningBalance[a] + P - C
    <2>2. \A q \in compensated \cup {r} : Effect(q, a) \in Int
      BY <1>0, EffectIsInt
    <2>3. Effects(compensated \cup {r}, a) = Effects(compensated, a) + Effect(r, a)
      BY <1>0, <2>2, EffectsGrow
    <2>4. P = Effects(posted, a)
      BY <1>3, EffectsKept
    <2>5. C = Effects(compensated \cup {r}, a)
      BY <1>3, EffectsKept
    <2>6. req[r].credit[a] \in Nat /\ DebitOn(r, a) \in Nat
      BY <1>0, StartedTyped DEF DebitOn, Debit
    <2>7. balance'[a] = balance[a] - Effect(r, a)
      BY <1>d, <1>3, <2>6 DEF AfterRefund, Effect
    <2> HIDE DEF P, C
    <2>8. QED
      BY <1>c, <1>d, <2>2, <2>3, <2>4, <2>5, <2>7
  <1>4. QED
    BY <1>1, <1>2, <1>3, <1>b, LedgerSteps

\* However many requests, operators and retries overlap, and wherever they stop,
\* each balance is the opening balance plus every posted entry minus every
\* reversal, each counted once (ledger.ts, header).
THEOREM BalancesFollowEntries == Spec => []BalancesDerived
  <1>1. Init => LedgerFinite /\ BalancesDerived
    <2> SUFFICES ASSUME Init PROVE LedgerFinite /\ BalancesDerived
      OBVIOUS
    <2>1. posted = {} /\ compensated = {} /\ balance = OpeningBalance
      BY DEF Init
    <2>2. LedgerFinite
      BY <2>1, FS_EmptySet DEF LedgerFinite
    <2>3. \A a : Effects({}, a) = 0
      BY SumEmpty DEF Effects
    <2>4. \A a \in Accounts : OpeningBalance[a] \in Int
      BY AccountsAssumption
    <2>5. QED
      BY <2>1, <2>2, <2>3, <2>4 DEF BalancesDerived
  <1>2. LedgerInv /\ LedgerFinite /\ BalancesDerived /\ [Next]_vars => LedgerFinite' /\ BalancesDerived'
    BY FiniteNext, BalancesNext
  <1>3. QED
    BY <1>1, <1>2, SagaInvariant, PTL DEF Spec, LedgerInv

-----------------------------------------------------------------------------
(* The daily limit.                                                        *)

\* The outgoing requests that have passed the limit check: posted already, or
\* about to post.
Waiting(a) == {r \in Requests : /\ phase[r] = "approved"
                                /\ req[r].kind # "deposit" /\ req[r].payer = a}

Committed(a) == Outgoing(a) \cup Waiting(a)

CommittedSum(a) == SumFunctionOnSet([r \in Committed(a) |-> req[r].amount], Committed(a))

\* At most MaxInFlight handlers run, each approved amount respects the limit per
\* operation, and what has been approved passes the daily limit by no more than
\* what the other handlers carry.
LimitInv ==
    /\ IsFiniteSet(InFlight) /\ Cardinality(InFlight) <= MaxInFlight
    /\ \A r \in Requests : phase[r] = "approved" \/ r \in posted => WithinSingle(req[r].amount)
    /\ DailyLimit > 0 /\ SingleLimit > 0 =>
          \A a \in Customers : CommittedSum(a) <= DailyLimit + (MaxInFlight - 1) * SingleLimit

\* What the handlers do to a request that is not the one they serve, and what a
\* step that approves nothing leaves of the approved ones.
LEMMA HandlerSteps ==
    ASSUME LedgerInv, [Next]_vars
    PROVE  \/ \E r \in Requests, kind \in Kinds, payer \in Customers, to \in Accounts,
                 amount \in Amounts : Enter(r, kind, payer, to, amount)
           \/ \E r \in Requests : \E credit, net : phase[r] = "admitted" /\ Approve(r, credit, net)
           \/ \E r \in Requests : Post(r)
           \/ \E r \in Requests : /\ phase[r] \in Running
                                  /\ \E p \in {"refused", "recorded", "done", "aborted"} : Goto(r, p)
                                  /\ UNCHANGED <<posted, req>>
           \/ UNCHANGED <<posted, phase, req>>
  <1>1. ASSUME NEW r \in Requests, AdmitDeposit(r) \/ AdmitWithdraw(r) \/ AdmitTransfer(r)
        PROVE  \E kind \in Kinds, payer \in Customers, to \in Accounts,
                 amount \in Amounts : Enter(r, kind, payer, to, amount)
    BY <1>1, AccountsAssumption DEF AdmitDeposit, AdmitWithdraw, AdmitTransfer, Kinds
  <1>2. ASSUME NEW r \in Requests, ApproveDeposit(r) \/ ApproveWithdraw(r) \/ ApproveTransfer(r)
        PROVE  \E credit, net : phase[r] = "admitted" /\ Approve(r, credit, net)
    BY <1>2 DEF ApproveDeposit, ApproveWithdraw, ApproveTransfer, Awaits
  <1>3. ASSUME NEW r \in Requests, \/ Refuse(r) \/ PostRejected(r) \/ Record(r)
                                \/ Screen(r) \/ ScreenFails(r) \/ Abort(r)
        PROVE  /\ phase[r] \in Running
               /\ \E p \in {"refused", "recorded", "done", "aborted"} : Goto(r, p)
               /\ UNCHANGED <<posted, req>>
    BY <1>3 DEF Refuse, PostRejected, Record, Screen, ScreenFails, Abort, Running, ledgerVars
  <1>4. ASSUME NEW o \in Operators, NEW r \in Requests, SettleRead(o, r) \/ FailRead(o, r)
        PROVE  UNCHANGED <<posted, phase, req>>
    BY <1>4 DEF SettleRead, FailRead, requestVars, ledgerVars
  <1>5. ASSUME NEW o \in Operators, \/ SettleWrite(o) \/ FailWrite(o) \/ FailPost(o)
                                 \/ FailRejected(o) \/ AbortJob(o)
        PROVE  UNCHANGED <<posted, phase, req>>
    BY <1>5 DEF SettleWrite, FailWrite, FailPost, FailRejected, AbortJob, requestVars, ledgerVars
  <1>6. ToggleFreeze \/ UNCHANGED vars => UNCHANGED <<posted, phase, req>>
    BY DEF ToggleFreeze, vars, requestVars, ledgerVars
  <1>7. QED
    BY <1>1, <1>2, <1>3, <1>4, <1>5, <1>6, NextCases

\* Only Enter adds to the handlers that run, and it checks their number.
LEMMA InFlightNext ==
    ASSUME LedgerInv, IsFiniteSet(InFlight), Cardinality(InFlight) <= MaxInFlight, [Next]_vars
    PROVE  IsFiniteSet(InFlight') /\ Cardinality(InFlight') <= MaxInFlight
  <1>0. /\ phase \in [Requests -> Phases] /\ MaxInFlight \in Nat /\ Cardinality(InFlight) \in Nat
    BY BoundsAssumption, FS_CardinalityType DEF LedgerInv, TypeInv, TypeOK
  <1>1. CASE InFlight' \subseteq InFlight
    <2>1. IsFiniteSet(InFlight') /\ Cardinality(InFlight') <= Cardinality(InFlight)
      BY <1>1, FS_Subset
    <2>2. Cardinality(InFlight') \in Nat
      BY <2>1, FS_CardinalityType
    <2>3. QED
      BY <1>0, <2>1, <2>2
  <1>2. ASSUME NEW r \in Requests, NEW kind, NEW payer, NEW to, NEW amount,
               Enter(r, kind, payer, to, amount)
        PROVE  IsFiniteSet(InFlight') /\ Cardinality(InFlight') <= MaxInFlight
    <2>1. InFlight' = InFlight \cup {r} /\ r \notin InFlight /\ Cardinality(InFlight) < MaxInFlight
      BY <1>0, <1>2 DEF Enter, Goto, InFlight, Running
    <2>2. IsFiniteSet(InFlight') /\ Cardinality(InFlight') = Cardinality(InFlight) + 1
      BY <2>1, FS_AddElement
    <2>3. QED
      BY <1>0, <2>1, <2>2
  <1>3. ASSUME NEW r \in Requests, phase[r] \in Running, NEW p, Goto(r, p)
        PROVE  InFlight' \subseteq InFlight
    BY <1>0, <1>3 DEF Goto, InFlight
  <1>4. ASSUME NEW r \in Requests, NEW credit, NEW net, phase[r] = "admitted", Approve(r, credit, net)
        PROVE  InFlight' \subseteq InFlight
    BY <1>3, <1>4 DEF Approve, Running
  <1>5. ASSUME NEW r \in Requests, Post(r)
        PROVE  InFlight' \subseteq InFlight
    BY <1>3, <1>5 DEF Post, Running
  <1>6. UNCHANGED <<posted, phase, req>> => InFlight' \subseteq InFlight
    BY DEF InFlight
  <1>7. QED
    BY <1>1, <1>2, <1>3, <1>4, <1>5, <1>6, HandlerSteps

\* The committed requests are finitely many, each with an amount.
LEMMA CommittedTyped ==
    ASSUME LedgerInv, LedgerFinite, IsFiniteSet(InFlight), NEW a
    PROVE  /\ Committed(a) \subseteq Requests /\ IsFiniteSet(Committed(a))
           /\ IsFiniteSet(Outgoing(a)) /\ IsFiniteSet(Waiting(a))
           /\ Outgoing(a) \cap Waiting(a) = {}
           /\ \A r \in Committed(a) : req[r].amount \in Nat
  <1>0. posted \subseteq Requests
    BY DEF LedgerInv, TypeInv, TypeOK
  <1>1. Outgoing(a) \subseteq posted /\ Waiting(a) \subseteq InFlight
    BY DEF Outgoing, Waiting, InFlight, Running
  <1>2. IsFiniteSet(Outgoing(a)) /\ IsFiniteSet(Waiting(a))
    BY <1>1, FS_Subset DEF LedgerFinite
  <1>3. IsFiniteSet(Committed(a))
    BY <1>2, FS_Union DEF Committed
  <1>4. \A r \in Outgoing(a) : phase[r] # "approved"
    BY <1>1 DEF LedgerInv, HandlerInv
  <1>5. Outgoing(a) \cap Waiting(a) = {}
    BY <1>4 DEF Waiting
  <1>6. \A r \in Committed(a) : r \in Requests /\ (phase[r] # "idle" \/ r \in posted)
    BY <1>0, <1>1 DEF Committed, Waiting
  <1>7. QED
    BY <1>2, <1>3, <1>5, <1>6, StartedTyped

\* Fewer committed requests, with the same amounts, commit no more.
LEMMA CommittedShrinks ==
    ASSUME LedgerInv, LedgerFinite, IsFiniteSet(InFlight), NEW a,
           Committed(a)' \subseteq Committed(a),
           \A r \in Committed(a)' : req'[r] = req[r]
    PROVE  CommittedSum(a)' <= CommittedSum(a) /\ CommittedSum(a)' \in Int /\ CommittedSum(a) \in Int
  <1> DEFINE K == Committed(a)
             F == [r \in K |-> req[r].amount]
  <1>1. PICK S : S = Committed(a)'
    OBVIOUS
  <1>2. S \in SUBSET K /\ IsFiniteSet(K) /\ IsFiniteSet(S) /\ \A r \in K : F[r] \in Nat
    BY <1>1, CommittedTyped, FS_Subset
  <1>3. PICK G : G = [r \in S |-> req'[r].amount]
    OBVIOUS
  <1>4. \A r \in S : G[r] = F[r]
    BY <1>1, <1>2, <1>3
  <1>5. CommittedSum(a)' = SumFunctionOnSet(G, S)
    BY <1>1, <1>3 DEF CommittedSum
  <1>6. CommittedSum(a) = SumFunctionOnSet(F, K)
    BY DEF CommittedSum
  <1> HIDE DEF F, K
  <1>7. \A r \in S : F[r] \in Int
    BY <1>2
  <1>8. SumFunctionOnSet(G, S) = SumFunctionOnSet(F, S)
    BY <1>2, <1>4, <1>7, SumSame
  <1>9. SumFunctionOnSet(F, S) <= SumFunctionOnSet(F, K)
    BY <1>2, SumPart
  <1>10. SumFunctionOnSet(F, S) \in Nat /\ SumFunctionOnSet(F, K) \in Nat
    BY <1>2, SumNat
  <1>11. QED
    BY <1>5, <1>6, <1>8, <1>9, <1>10

\* What is committed is what was sent and what is about to be.
LEMMA CommittedSplits ==
    ASSUME LedgerInv, LedgerFinite, IsFiniteSet(InFlight), NEW a
    PROVE  /\ Sent(a) \in Nat
           /\ SumFunctionOnSet([r \in Waiting(a) |-> req[r].amount], Waiting(a)) \in Nat
           /\ CommittedSum(a) = Sent(a)
                + SumFunctionOnSet([r \in Waiting(a) |-> req[r].amount], Waiting(a))
  <1> DEFINE O == Outgoing(a)
             W == Waiting(a)
             F == [r \in O \cup W |-> req[r].amount]
             FO == [r \in O |-> req[r].amount]
             FW == [r \in W |-> req[r].amount]
  <1>1. /\ IsFiniteSet(O) /\ IsFiniteSet(W) /\ O \cap W = {}
        /\ \A r \in W \cup O : F[r] \in Int
        /\ \A r \in O : F[r] \in Int /\ FO[r] \in Nat /\ FO[r] = F[r]
        /\ \A r \in W : F[r] \in Int /\ FW[r] \in Nat /\ FW[r] = F[r]
    BY CommittedTyped DEF Committed
  <1>2. CommittedSum(a) = SumFunctionOnSet(F, O \cup W) /\ Sent(a) = SumFunctionOnSet(FO, O)
    BY DEF CommittedSum, Committed, Sent
  <1> HIDE DEF F, FO, FW, O, W
  <1>3. SumFunctionOnSet(F, O \cup W) = SumFunctionOnSet(F, O) + SumFunctionOnSet(F, W)
    BY <1>1, SumUnion
  <1>4. SumFunctionOnSet(FO, O) = SumFunctionOnSet(F, O) /\ SumFunctionOnSet(FW, W) = SumFunctionOnSet(F, W)
    BY <1>1, SumSame
  <1>5. SumFunctionOnSet(FO, O) \in Nat /\ SumFunctionOnSet(FW, W) \in Nat
    BY <1>1, SumNat
  <1>6. QED
    BY <1>2, <1>3, <1>4, <1>5 DEF FW, W

\* What an account sent is part of what its limit check sums.
LEMMA OutflowCoversSent ==
    ASSUME LedgerInv, LedgerFinite, IsFiniteSet(InFlight), NEW a \in Accounts
    PROVE  Outflow(a) \in Nat /\ Sent(a) <= Outflow(a)
  <1> DEFINE R == Reversals(a)
             F == [r \in R |-> req[r].credit[a]]
  <1>1. R \subseteq compensated /\ compensated \subseteq Requests
    BY DEF Reversals, LedgerInv, TypeInv, TypeOK
  <1>2. \A r \in R : F[r] \in Nat
    BY <1>1, StartedTyped
  <1>3. IsFiniteSet(R)
    BY <1>1, FS_Subset DEF LedgerFinite
  <1>4. Outflow(a) = Sent(a) + SumFunctionOnSet(F, R)
    BY DEF Outflow
  <1> HIDE DEF F, R
  <1>5. SumFunctionOnSet(F, R) \in Nat
    BY <1>2, <1>3, SumNat
  <1>6. Sent(a) \in Nat
    BY CommittedSplits
  <1>7. QED
    BY <1>4, <1>5, <1>6

\* An approval finds the posted part within the limit, and the other approved
\* requests are at most MaxInFlight - 1.
LEMMA ApproveKeepsLimit ==
    ASSUME LedgerInv, LedgerFinite, LimitInv, DailyLimit > 0, SingleLimit > 0,
           NEW r \in Requests, NEW credit, NEW net,
           phase[r] = "admitted", Approve(r, credit, net), NEW a \in Customers
    PROVE  CommittedSum(a)' <= DailyLimit + (MaxInFlight - 1) * SingleLimit
  <1>0. /\ phase \in [Requests -> Phases]
        /\ req \in [Requests -> Request \cup {NoRequest}] /\ posted \subseteq Requests
        /\ a \in Accounts /\ IsFiniteSet(InFlight) /\ Cardinality(InFlight) <= MaxInFlight
        /\ SingleLimit \in Nat /\ DailyLimit \in Nat /\ MaxInFlight \in Nat
    BY BoundsAssumption, AccountsAssumption DEF LedgerInv, TypeInv, TypeOK, LimitInv
  <1>1. /\ UNCHANGED posted /\ phase' = [phase EXCEPT ![r] = "approved"]
        /\ \A q \in Requests \ {r} : req'[q] = req[q]
        /\ WithinLimits(req[r].kind, req[r].payer, req[r].amount)
    BY <1>0 DEF Approve, Goto, ledgerVars
  <1>2. r \notin posted /\ r \notin Waiting(a) /\ r \notin Outgoing(a) /\ r \in InFlight
    BY DEF LedgerInv, HandlerInv, Waiting, Outgoing, InFlight, Running
  <1>3. req[r] \in Request /\ req[r].amount \in Nat
    BY StartedTyped
  <1>4. req'[r].kind = req[r].kind /\ req'[r].payer = req[r].payer /\ req'[r].amount = req[r].amount
    <2>1. req'[r] = [req[r] EXCEPT !.credit = credit, !.net = net]
      BY <1>0 DEF Approve
    <2>2. QED
      BY <1>3, <2>1 DEF Request
  <1>5. CASE req[r].kind = "deposit" \/ req[r].payer # a
    <2>1. Committed(a)' \subseteq Committed(a)
      BY <1>0, <1>1, <1>2, <1>4, <1>5 DEF Committed, Outgoing, Waiting
    <2>2. r \notin Committed(a)'
      BY <1>2, <2>1 DEF Committed
    <2>3. \A q \in Committed(a) : q \in Requests
      BY <1>0 DEF Committed, Outgoing, Waiting
    <2>4. \A q \in Committed(a)' : req'[q] = req[q]
      BY <1>1, <2>1, <2>2, <2>3
    <2>5. CommittedSum(a)' <= CommittedSum(a) /\ CommittedSum(a)' \in Int /\ CommittedSum(a) \in Int
      BY <1>0, <2>1, <2>4, CommittedShrinks
    <2>6. CommittedSum(a) <= DailyLimit + (MaxInFlight - 1) * SingleLimit
      BY DEF LimitInv
    <2>7. (MaxInFlight - 1) * SingleLimit \in Int
      BY <1>0
    <2>8. QED
      BY <1>0, <2>5, <2>6, <2>7
  <1>6. CASE req[r].kind # "deposit" /\ req[r].payer = a
    <2>1. Committed(a)' = Committed(a) \cup {r} /\ r \notin Committed(a)
      BY <1>0, <1>1, <1>2, <1>4, <1>6 DEF Committed, Outgoing, Waiting
    <2> DEFINE K == Committed(a)
               F == [q \in K |-> req[q].amount]
               W == Waiting(a)
               FW == [q \in W |-> req[q].amount]
    <2>2. PICK S, G : S = Committed(a)' /\ G = [q \in S |-> req'[q].amount]
      OBVIOUS
    <2>3. CommittedSum(a)' = SumFunctionOnSet(G, S) /\ S = K \cup {r}
      BY <2>1, <2>2 DEF CommittedSum
    <2>4. /\ IsFiniteSet(K) /\ \A x \in K : F[x] \in Int
          /\ \A x \in K : G[x] = F[x]
          /\ G[r] = req[r].amount /\ G[r] \in Int /\ r \notin K
      BY <1>0, <1>1, <1>3, <1>4, <2>1, <2>2, CommittedTyped
    <2>5. CommittedSum(a) = SumFunctionOnSet(F, K)
      BY DEF CommittedSum
    <2>6. CommittedSum(a) = Sent(a) + SumFunctionOnSet(FW, W) /\ Sent(a) \in Nat
          /\ SumFunctionOnSet(FW, W) \in Nat
      BY <1>0, CommittedSplits
    <2>7. W \subseteq InFlight \ {r} /\ IsFiniteSet(W) /\ \A q \in W : FW[q] \in Nat /\ FW[q] <= SingleLimit
      <3>1. W \subseteq InFlight /\ W \subseteq Requests
        BY DEF Waiting, InFlight, Running
      <3>2. IsFiniteSet(W)
        BY <1>0, <3>1, FS_Subset
      <3>3. \A q \in W : FW[q] \in Nat
        BY <1>0, CommittedTyped DEF Committed
      <3>4. \A q \in W : WithinSingle(req[q].amount)
        BY DEF LimitInv, Waiting
      <3>5. QED
        BY <1>2, <3>1, <3>2, <3>3, <3>4 DEF WithinSingle
    <2>8. Cardinality(W) <= MaxInFlight - 1 /\ Cardinality(W) \in Nat
      <3>1. IsFiniteSet(InFlight \ {r}) /\ Cardinality(InFlight \ {r}) = Cardinality(InFlight) - 1
        BY <1>0, <1>2, FS_RemoveElement
      <3>2. Cardinality(W) <= Cardinality(InFlight \ {r})
        BY <2>7, <3>1, FS_Subset
      <3>3. Cardinality(W) \in Nat /\ Cardinality(InFlight) \in Nat
        BY <1>0, <2>7, FS_CardinalityType
      <3>4. QED
        BY <1>0, <3>1, <3>2, <3>3
    <2>9. Outflow(a) + req[r].amount <= DailyLimit /\ Outflow(a) \in Nat /\ Sent(a) <= Outflow(a)
      BY <1>0, <1>1, <1>6, OutflowCoversSent DEF WithinLimits, WithinDaily
    <2> HIDE DEF K, F, W, FW
    <2>10. SumFunctionOnSet(G, S) = SumFunctionOnSet(F, K) + G[r]
      <3>1. SumFunctionOnSet(G, K \cup {r}) = SumFunctionOnSet(F, K) + G[r]
        <4>1. IsFiniteSet(K) /\ \A x \in K : F[x] \in Int
          BY <2>4
        <4>2. r \notin K /\ G[r] \in Int /\ \A x \in K : G[x] = F[x]
          BY <2>4
        <4>3. QED
          BY <4>1, <4>2, SumGrow
      <3>2. QED
        BY <2>3, <3>1
    <2>11. SumFunctionOnSet(FW, W) <= SingleLimit * Cardinality(W)
      <3>1. \A q \in W : FW[q] \in Int /\ FW[q] <= SingleLimit
        BY <2>7
      <3>2. QED
        BY <1>0, <2>7, <3>1, SumBound
    <2>12. SingleLimit * Cardinality(W) <= (MaxInFlight - 1) * SingleLimit
           /\ SingleLimit * Cardinality(W) \in Int /\ (MaxInFlight - 1) * SingleLimit \in Int
      <3>1. PICK n \in Nat : n = Cardinality(W)
        BY <2>8
      <3>2. PICK m \in Int : m = MaxInFlight - 1
        BY <1>0
      <3>3. \A c \in Nat, i \in Nat, j \in Int : i <= j => c * i <= j * c /\ c * i \in Int /\ j * c \in Int
        OBVIOUS
      <3>4. QED
        BY <1>0, <2>8, <3>1, <3>2, <3>3
    <2>13. QED
      BY <1>0, <1>3, <2>3, <2>4, <2>5, <2>6, <2>9, <2>10, <2>11, <2>12
  <1>7. QED
    BY <1>5, <1>6

\* A step that approves nothing commits no more than was committed.
LEMMA OthersKeepLimit ==
    ASSUME LedgerInv, LedgerFinite, LimitInv, DailyLimit > 0, SingleLimit > 0, NEW a \in Customers,
           Committed(a)' \subseteq Committed(a),
           \A q \in Committed(a)' : req'[q] = req[q]
    PROVE  CommittedSum(a)' <= DailyLimit + (MaxInFlight - 1) * SingleLimit
  <1>1. CommittedSum(a)' <= CommittedSum(a) /\ CommittedSum(a)' \in Int /\ CommittedSum(a) \in Int
    BY CommittedShrinks DEF LimitInv
  <1>2. CommittedSum(a) <= DailyLimit + (MaxInFlight - 1) * SingleLimit
    BY DEF LimitInv
  <1>3. SingleLimit \in Nat /\ DailyLimit \in Nat /\ MaxInFlight \in Nat
    BY BoundsAssumption
  <1>4. (MaxInFlight - 1) * SingleLimit \in Int
    BY <1>3
  <1>5. QED
    BY <1>1, <1>2, <1>3, <1>4

\* Every step keeps what the limits promise.
LEMMA LimitNext ==
    ASSUME LedgerInv, LedgerFinite, LimitInv, [Next]_vars
    PROVE  LimitInv'
  <1>0. /\ phase \in [Requests -> Phases]
        /\ req \in [Requests -> Request \cup {NoRequest}] /\ posted \subseteq Requests
    BY DEF LedgerInv, TypeInv, TypeOK
  <1>1. IsFiniteSet(InFlight') /\ Cardinality(InFlight') <= MaxInFlight
    BY InFlightNext DEF LimitInv
  <1> DEFINE Approved(r) == phase[r] = "approved" \/ r \in posted
             Single == \A r \in Requests : Approved(r)' => WithinSingle(req'[r].amount)
             Daily == DailyLimit > 0 /\ SingleLimit > 0 =>
                        \A a \in Customers : CommittedSum(a)' <= DailyLimit + (MaxInFlight - 1) * SingleLimit
             Same == \A r \in Requests : Approved(r)' => Approved(r) /\ req'[r] = req[r]
  <1>2. ASSUME Same, UNCHANGED posted \/ \E r \in Requests : posted' = posted \cup {r}
        PROVE  Single /\ Daily
    <2>0. posted' \subseteq Requests
      BY <1>0, <1>2
    <2>1. Single
      BY <1>2 DEF LimitInv
    <2>2. ASSUME NEW a PROVE Committed(a)' \subseteq Committed(a) /\ \A q \in Committed(a)' : req'[q] = req[q]
      BY <1>0, <1>2, <2>0 DEF Committed, Outgoing, Waiting
    <2>3. Daily
      BY <2>2, OthersKeepLimit
    <2>4. QED
      BY <2>1, <2>3
  <1>3. ASSUME NEW r \in Requests, NEW kind, NEW payer, NEW to, NEW amount,
               Enter(r, kind, payer, to, amount)
        PROVE  Single /\ Daily
    <2>1. /\ UNCHANGED posted /\ phase' = [phase EXCEPT ![r] = "admitted"] /\ phase[r] = "idle"
          /\ \A q \in Requests \ {r} : req'[q] = req[q]
      BY <1>3 DEF Enter, Goto, ledgerVars
    <2>2. r \notin posted
      BY <2>1 DEF LedgerInv, HandlerInv
    <2>3. Same
      BY <1>0, <2>1, <2>2
    <2>4. QED
      BY <1>2, <2>1, <2>3
  <1>4. ASSUME NEW r \in Requests, NEW credit, NEW net, phase[r] = "admitted", Approve(r, credit, net)
        PROVE  Single /\ Daily
    <2>1. /\ UNCHANGED posted /\ phase' = [phase EXCEPT ![r] = "approved"]
          /\ \A q \in Requests \ {r} : req'[q] = req[q]
          /\ WithinSingle(req[r].amount)
      BY <1>0, <1>4 DEF Approve, Goto, ledgerVars, WithinLimits
    <2>2. req'[r].amount = req[r].amount
      <3>1. req'[r] = [req[r] EXCEPT !.credit = credit, !.net = net] /\ req[r] \in Request
        BY <1>0, <1>4, StartedTyped DEF Approve
      <3>2. QED
        BY <3>1 DEF Request
    <2>3. Single
      <3>1. SUFFICES ASSUME NEW q \in Requests, Approved(q)' PROVE WithinSingle(req'[q].amount)
        OBVIOUS
      <3>2. CASE q = r
        BY <2>1, <2>2, <3>2 DEF WithinSingle
      <3>3. CASE q # r
        <4>1. Approved(q) /\ req'[q] = req[q]
          BY <1>0, <2>1, <3>1, <3>3
        <4>2. QED
          BY <4>1 DEF LimitInv, WithinSingle
      <3>4. QED
        BY <3>2, <3>3
    <2>4. Daily
      BY <1>4, ApproveKeepsLimit
    <2>5. QED
      BY <2>3, <2>4
  <1>5. ASSUME NEW r \in Requests, Post(r)
        PROVE  Single /\ Daily
    <2>1. /\ phase[r] = "approved" /\ posted' = posted \cup {r}
          /\ phase' = [phase EXCEPT ![r] = "posted"] /\ UNCHANGED req
      BY <1>5 DEF Post, Goto
    <2>2. Same
      BY <1>0, <2>1
    <2>3. QED
      BY <1>2, <2>1, <2>2
  <1>6. ASSUME NEW r \in Requests, NEW p \in {"refused", "recorded", "done", "aborted"}, Goto(r, p),
               UNCHANGED <<posted, req>>
        PROVE  Single /\ Daily
    <2>1. Same
      BY <1>0, <1>6 DEF Goto
    <2>2. QED
      BY <1>2, <1>6, <2>1
  <1>7. ASSUME UNCHANGED <<posted, phase, req>>
        PROVE  Single /\ Daily
    BY <1>2, <1>7
  <1>8. Single /\ Daily
    BY <1>3, <1>4, <1>5, <1>6, <1>7, HandlerSteps
  <1>9. QED
    BY <1>1, <1>8 DEF LimitInv, WithinSingle

\* Nothing is approved at the start.
LEMMA LimitInit == Init => LedgerFinite /\ LimitInv
  <1> SUFFICES ASSUME Init PROVE LedgerFinite /\ LimitInv
    OBVIOUS
  <1>0. SingleLimit \in Nat /\ DailyLimit \in Nat /\ MaxInFlight \in Nat \ {0}
    BY BoundsAssumption
  <1>1. posted = {} /\ compensated = {} /\ \A r \in Requests : phase[r] = "idle"
    BY DEF Init
  <1>2. LedgerFinite
    BY <1>1, FS_EmptySet DEF LedgerFinite
  <1>3. InFlight = {}
    BY <1>1 DEF InFlight, Running
  <1>4. IsFiniteSet(InFlight) /\ Cardinality(InFlight) = 0
    BY <1>3, FS_EmptySet
  <1>5. ASSUME NEW a PROVE CommittedSum(a) = 0
    <2>1. Committed(a) = {}
      BY <1>1 DEF Committed, Outgoing, Waiting
    <2>2. QED
      BY <2>1, SumEmpty DEF CommittedSum
  <1>6. (MaxInFlight - 1) * SingleLimit \in Nat
    BY <1>0
  <1>7. QED
    BY <1>0, <1>1, <1>2, <1>4, <1>5, <1>6 DEF LimitInv

\* However the handlers overlap, what leaves an account passes its daily limit by
\* no more than what the other handlers that run at the time may carry
\* (limits.ts reads outside the posting's transaction).
THEOREM OvershootIsBounded == Spec => []DailyOvershootBounded
  <1>1. LedgerInv /\ LedgerFinite /\ LimitInv => DailyOvershootBounded
    <2> SUFFICES ASSUME LedgerInv, LedgerFinite, LimitInv, DailyLimit > 0, SingleLimit > 0,
                        NEW a \in Customers
                 PROVE  Sent(a) <= DailyLimit + (MaxInFlight - 1) * SingleLimit
      BY DEF DailyOvershootBounded
    <2>1. SingleLimit \in Nat /\ DailyLimit \in Nat /\ MaxInFlight \in Nat
      BY BoundsAssumption
    <2>2. (MaxInFlight - 1) * SingleLimit \in Int
      BY <2>1
    <2>3. CommittedSum(a) <= DailyLimit + (MaxInFlight - 1) * SingleLimit
      BY DEF LimitInv
    <2>4. PICK w \in Nat : CommittedSum(a) = Sent(a) + w /\ Sent(a) \in Nat
      BY CommittedSplits DEF LimitInv
    <2>5. QED
      BY <2>1, <2>2, <2>3, <2>4
  <1>2. LedgerInv /\ LedgerFinite /\ LimitInv /\ [Next]_vars => LedgerFinite' /\ LimitInv'
    BY FiniteNext, LimitNext
  <1>3. QED
    BY <1>1, <1>2, LimitInit, SagaInvariant, PTL DEF Spec, LedgerInv

-----------------------------------------------------------------------------
(* The structuring rule.                                                   *)

\* The screening of a small outgoing operation raises the alert as soon as the
\* ledger holds enough of them.
LEMMA ScreenDetects ==
    ASSUME LedgerInv, LedgerFinite, IsFiniteSet(InFlight), NEW a \in Accounts,
           NEW r \in Outgoing(a), req[r].amount < ReportThreshold,
           Cardinality(Outgoing(a)) >= StructuringCount, Sent(a) >= StructuringMin
    PROVE  <<"structuring", a>> \in AlertsFrom(r)
  <1>1. r \in posted /\ req[r].payer = a /\ posted \subseteq Requests /\ compensated \subseteq Requests
    BY DEF Outgoing, LedgerInv, TypeInv, TypeOK
  <1>2. req[r].amount \in Nat
    BY <1>1, StartedTyped
  <1>3. /\ ReportThreshold \in Nat /\ StructuringMin \in Nat /\ StructuringCount \in Nat
    BY BoundsAssumption
  <1>4. Outflow(a) \in Nat /\ Sent(a) <= Outflow(a) /\ Sent(a) \in Nat
    BY OutflowCoversSent, CommittedSplits
  <1>5. ScreenedAmount(r) >= StructuringMin
    BY <1>1, <1>2, <1>3, <1>4 DEF ScreenedAmount
  <1>6. Cardinality(Outgoing(a)) \in Nat /\ Cardinality(Reversals(a)) \in Nat
    <2>1. IsFiniteSet(Outgoing(a)) /\ IsFiniteSet(Reversals(a))
      BY FS_Subset DEF LedgerFinite, Outgoing, Reversals
    <2>2. QED
      BY <2>1, FS_CardinalityType
  <1>7. ScreenedCount(r) >= StructuringCount
    BY <1>1, <1>3, <1>6 DEF ScreenedCount
  <1>8. ~(req[r].amount >= ReportThreshold)
    BY <1>2, <1>3
  <1>9. QED
    BY <1>1, <1>5, <1>7, <1>8 DEF AlertsFrom

\* A fault is never taken back.
LEMMA FaultsStay ==
    ASSUME [Next]_vars
    PROVE  faults' = faults \/ faults' = faults + 1
  <1>1. ASSUME NEW r \in Requests,
               \/ AdmitDeposit(r) \/ AdmitWithdraw(r) \/ AdmitTransfer(r)
               \/ Refuse(r) \/ Post(r) \/ PostRejected(r) \/ Record(r) \/ Screen(r)
        PROVE  faults' = faults
    BY <1>1 DEF AdmitDeposit, AdmitWithdraw, AdmitTransfer, Enter, Refuse, Post, PostRejected,
                Record, Screen, boundVars
  <1>2. ASSUME NEW r \in Requests, ApproveDeposit(r) \/ ApproveWithdraw(r) \/ ApproveTransfer(r)
        PROVE  faults' = faults
    BY <1>2 DEF ApproveDeposit, ApproveWithdraw, ApproveTransfer, Approve, boundVars
  <1>3. ASSUME NEW r \in Requests, ScreenFails(r) \/ Abort(r)
        PROVE  faults' = faults + 1
    BY <1>3 DEF ScreenFails, Abort
  <1>4. ASSUME NEW o \in Operators, NEW r \in Requests, SettleRead(o, r) \/ FailRead(o, r)
        PROVE  faults' = faults
    BY <1>4 DEF SettleRead, FailRead, boundVars
  <1>5. ASSUME NEW o \in Operators, SettleWrite(o) \/ FailWrite(o) \/ FailPost(o) \/ FailRejected(o)
        PROVE  faults' = faults
    BY <1>5 DEF SettleWrite, FailWrite, FailPost, FailRejected, boundVars
  <1>6. ASSUME NEW o \in Operators, AbortJob(o)
        PROVE  faults' = faults + 1
    BY <1>6 DEF AbortJob
  <1>7. ToggleFreeze \/ UNCHANGED vars => faults' = faults
    BY DEF ToggleFreeze, vars, boundVars
  <1>8. QED
    BY <1>1, <1>2, <1>3, <1>4, <1>5, <1>6, <1>7, NextCases

\* Every step keeps the structuring rule.
LEMMA StructuringNext ==
    ASSUME LedgerInv, LedgerFinite, IsFiniteSet(InFlight),
           StructuringDetected, [Next]_vars
    PROVE  StructuringDetected'
  <1>0. /\ phase \in [Requests -> Phases] /\ posted \subseteq Requests /\ Customers \subseteq Accounts
        /\ req \in [Requests -> Request \cup {NoRequest}] /\ faults \in 0..MaxFaults
    BY AccountsAssumption DEF LedgerInv, TypeInv, TypeOK
  <1> SUFFICES ASSUME faults' = 0, NEW a \in Customers,
                      \A r \in Outgoing(a)' : phase'[r] = "done" /\ req'[r].amount < ReportThreshold,
                      Cardinality(Outgoing(a)') >= StructuringCount,
                      Sent(a)' >= StructuringMin
               PROVE  <<"structuring", a>> \in alerts'
    BY DEF StructuringDetected
  <1>a. faults = 0
    BY <1>0, FaultsStay
  <1> DEFINE Quiet == /\ UNCHANGED posted /\ \A q \in posted : req'[q] = req[q]
  <1>1. ASSUME Quiet
        PROVE  Outgoing(a)' = Outgoing(a) /\ Sent(a)' = Sent(a)
    <2>1. Outgoing(a)' = Outgoing(a)
      BY <1>1 DEF Outgoing
    <2>2. \A q \in Outgoing(a) : req'[q] = req[q]
      BY <1>1 DEF Outgoing
    <2>3. PICK S : S = Outgoing(a)
      OBVIOUS
    <2>4. [r \in S |-> req'[r].amount] = [r \in S |-> req[r].amount]
      BY <2>2, <2>3
    <2>5. QED
      BY <2>1, <2>3, <2>4 DEF Sent
  <1>2. ASSUME Quiet, \A q \in posted : phase'[q] = "done" => phase[q] = "done", alerts \subseteq alerts'
        PROVE  <<"structuring", a>> \in alerts'
    <2>1. Outgoing(a)' = Outgoing(a) /\ Sent(a)' = Sent(a) /\ Outgoing(a) \subseteq posted
      BY <1>1, <1>2 DEF Outgoing
    <2>2. \A r \in Outgoing(a) : phase[r] = "done" /\ req[r].amount < ReportThreshold
      BY <1>2, <2>1
    <2>3. Cardinality(Outgoing(a)) >= StructuringCount /\ Sent(a) >= StructuringMin
      BY <2>1
    <2>4. QED
      BY <1>2, <1>a, <2>2, <2>3 DEF StructuringDetected
  <1>3. ASSUME NEW r \in Requests, Screen(r)
        PROVE  <<"structuring", a>> \in alerts'
    <2>1. /\ UNCHANGED <<posted, req>> /\ phase' = [phase EXCEPT ![r] = "done"]
          /\ alerts' = alerts \cup AlertsFrom(r)
      BY <1>3 DEF Screen, Goto, ledgerVars
    <2>2. Outgoing(a)' = Outgoing(a) /\ Sent(a)' = Sent(a)
      BY <1>1, <2>1
    <2>3. CASE r \in Outgoing(a)
      <3>1. req[r].amount < ReportThreshold /\ Cardinality(Outgoing(a)) >= StructuringCount
            /\ Sent(a) >= StructuringMin
        BY <2>1, <2>2, <2>3
      <3>2. QED
        BY <1>0, <2>1, <2>3, <3>1, ScreenDetects
    <2>4. CASE r \notin Outgoing(a)
      <3>1. \A q \in Outgoing(a) : q \in Requests /\ phase[q] = "done" /\ req[q].amount < ReportThreshold
        BY <1>0, <2>1, <2>2, <2>4 DEF Outgoing
      <3>2. QED
        BY <1>a, <2>1, <2>2, <3>1 DEF StructuringDetected
    <2>5. QED
      BY <2>3, <2>4
  <1>4. ASSUME NEW r \in Requests, Post(r)
        PROVE  <<"structuring", a>> \in alerts'
    <2>1. /\ posted' = posted \cup {r} /\ phase'[r] = "posted" /\ UNCHANGED <<req, alerts>>
          /\ phase' = [phase EXCEPT ![r] = "posted"] /\ r \notin posted
      BY <1>0, <1>4 DEF Post, Goto, LedgerInv, HandlerInv
    <2>2. r \notin Outgoing(a)'
      BY <2>1
    <2>3. Outgoing(a)' = Outgoing(a)
      BY <2>1, <2>2 DEF Outgoing
    <2>4. Sent(a)' = Sent(a)
      BY <2>1, <2>3 DEF Sent
    <2>5. \A q \in Outgoing(a) : phase[q] = "done" /\ req[q].amount < ReportThreshold
      BY <1>0, <2>1, <2>2, <2>3 DEF Outgoing
    <2>6. QED
      BY <1>a, <2>1, <2>3, <2>4, <2>5 DEF StructuringDetected
  <1>5. ASSUME NEW r \in Requests, ScreenFails(r) \/ Abort(r)
        PROVE  FALSE
    BY <1>0, <1>5, <1>a DEF ScreenFails, Abort
  <1>6. ASSUME NEW r \in Requests,
               \/ AdmitDeposit(r) \/ AdmitWithdraw(r) \/ AdmitTransfer(r)
               \/ ApproveDeposit(r) \/ ApproveWithdraw(r) \/ ApproveTransfer(r)
        PROVE  <<"structuring", a>> \in alerts'
    <2>1. /\ phase[r] \in {"idle", "admitted"} /\ UNCHANGED <<posted, alerts>>
          /\ \A q \in Requests \ {r} : req'[q] = req[q] /\ phase'[q] = phase[q]
      <3>1. CASE AdmitDeposit(r) \/ AdmitWithdraw(r) \/ AdmitTransfer(r)
        BY <1>0, <3>1 DEF AdmitDeposit, AdmitWithdraw, AdmitTransfer, Enter, ledgerVars, Goto
      <3>2. CASE ApproveDeposit(r) \/ ApproveWithdraw(r) \/ ApproveTransfer(r)
        <4>1. PICK credit, net : Approve(r, credit, net)
          BY <3>2 DEF ApproveDeposit, ApproveWithdraw, ApproveTransfer
        <4>2. phase[r] = "admitted"
          BY <3>2 DEF ApproveDeposit, ApproveWithdraw, ApproveTransfer, Awaits
        <4>3. QED
          BY <1>0, <4>1, <4>2 DEF Approve, ledgerVars, Goto
      <3>3. QED
        BY <1>6, <3>1, <3>2
    <2>2. r \notin posted
      BY <2>1 DEF LedgerInv, HandlerInv
    <2>3. QED
      BY <1>0, <1>2, <2>1, <2>2
  <1>7. ASSUME NEW r \in Requests, Refuse(r) \/ PostRejected(r) \/ Record(r)
        PROVE  <<"structuring", a>> \in alerts'
    <2>1. /\ UNCHANGED <<posted, req, alerts>>
          /\ \E p \in {"refused", "recorded"} : phase' = [phase EXCEPT ![r] = p]
      BY <1>7 DEF Refuse, PostRejected, Record, ledgerVars, Goto
    <2>2. QED
      BY <1>0, <1>2, <2>1
  <1>8. ASSUME UNCHANGED <<posted, phase, req, alerts>>
        PROVE  <<"structuring", a>> \in alerts'
    BY <1>2, <1>8
  <1>9. ASSUME NEW o \in Operators, NEW r \in Requests, SettleRead(o, r) \/ FailRead(o, r)
        PROVE  UNCHANGED <<posted, phase, req, alerts>>
    BY <1>9 DEF SettleRead, FailRead, requestVars, ledgerVars
  <1>10. ASSUME NEW o \in Operators, \/ SettleWrite(o) \/ FailWrite(o) \/ FailPost(o)
                                 \/ FailRejected(o) \/ AbortJob(o)
        PROVE  UNCHANGED <<posted, phase, req, alerts>>
    BY <1>10 DEF SettleWrite, FailWrite, FailPost, FailRejected, AbortJob, requestVars, ledgerVars
  <1>11. ToggleFreeze \/ UNCHANGED vars => UNCHANGED <<posted, phase, req, alerts>>
    BY DEF ToggleFreeze, vars, requestVars, ledgerVars
  <1>12. QED
    BY <1>3, <1>4, <1>5, <1>6, <1>7, <1>8, <1>9, <1>10, <1>11, NextCases

\* As long as no handler was stopped and no screening failed: once every outgoing
\* operation of a customer has been answered, small operations that together reach
\* the structuring rule have raised its alert, in whatever order they were posted
\* and screened (lib/aml.ts lines 49-75).
THEOREM StructuringIsDetected == Spec => []StructuringDetected
  <1>1. Init => StructuringDetected
    <2> SUFFICES ASSUME Init, NEW a \in Customers, Cardinality(Outgoing(a)) >= StructuringCount
                 PROVE  FALSE
      BY DEF StructuringDetected
    <2>1. Outgoing(a) = {}
      BY DEF Init, Outgoing
    <2>2. Cardinality(Outgoing(a)) = 0 /\ StructuringCount \in Nat \ {0}
      BY <2>1, FS_EmptySet, BoundsAssumption
    <2>3. QED
      BY <2>2
  <1>2. LedgerInv /\ LedgerFinite /\ LimitInv /\ [Next]_vars => LedgerFinite' /\ LimitInv'
    BY FiniteNext, LimitNext
  <1>3. LedgerInv /\ LedgerFinite /\ LimitInv /\ StructuringDetected /\ [Next]_vars => StructuringDetected'
    BY StructuringNext DEF LimitInv
  <1>4. QED
    BY <1>1, <1>2, <1>3, LimitInit, SagaInvariant, PTL DEF Spec, LedgerInv

=============================================================================
