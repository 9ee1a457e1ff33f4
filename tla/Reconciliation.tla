---------------------------- MODULE Reconciliation ----------------------------
(***************************************************************************)
(* The audit of the ledger and the freeze it may set                       *)
(* (apps/web/src/lib/reconciliation.ts, api/admin/reconcile), beside the   *)
(* routes that post to the ledger.                                         *)
(*                                                                         *)
(* An audit sums the balances, sums the entries and reads the reserves in  *)
(* three reads that nothing holds together.  A posting writes balances and *)
(* entries in one transaction (lib/ledger.ts), each rounded to the cent on *)
(* its own: the amount of a request may be finer than a cent, so amounts   *)
(* are in tenths of one.  The code rounds binary fractions, which may put  *)
(* half a cent on either side.  One coin; no fees (module Commission).     *)
(***************************************************************************)
EXTENDS Integers, FiniteSets, Functions

CONSTANTS
    Holders,      \* users with a balance
    Amounts,      \* amounts a request may carry, in tenths of a cent
    OpeningBalance,
    Requests,     \* requests to post
    Auditors,     \* administrators' GET requests
    MaxSettings   \* bound: reserves and freezes set by hand

VARIABLES
    balances,   \* collection len_balances, in tenths of a cent
    entriesNet, \* the credits less the debits of len_ledger_entries
    reserve, frozen,
    asking,     \* has the request found the system not frozen?
    audit,      \* what each audit has read
    settings,
    torn,       \* history: audits with a posting between two of their reads
    finer       \* history: debits finer than a cent

reconVars == <<balances, entriesNet, reserve, frozen, asking, audit, settings, torn, finer>>

Cent == 10
TOLERANCE == Cent

\* round2: to the nearest cent, half a cent up or not.
Round2(n, up) == Cent * ((n + Cent \div 2 - (IF up THEN 0 ELSE 1)) \div Cent)

NoReserve == -1

Unread == [read |-> {}, balances |-> 0, entries |-> 0, reserve |-> NoReserve]

Init ==
    /\ balances = [a \in Holders |-> OpeningBalance]
    /\ entriesNet = OpeningBalance * Cardinality(Holders)
    /\ reserve = NoReserve /\ frozen = FALSE
    /\ asking = [q \in Requests |-> "new"]
    /\ audit = [u \in Auditors |-> Unread]
    /\ settings = 0 /\ torn = {} /\ finer = 0

-----------------------------------------------------------------------------
(* Postings.                                                               *)

Leg(direction, amount) == [direction |-> direction, amount |-> amount]

Signed(leg) == IF leg.direction = "credit" THEN leg.amount ELSE -leg.amount

\* The balance of an account after its leg: postEntries rounds the sum.
After(a, leg, up) == Round2(balances[a] + Signed(leg), up)

\* Mutant: the direction of an entry is not looked at.
EntryEffectAll(leg, up) == Round2(leg.amount, up)

\* What the entry of the leg adds to the sum of entries: its amount is rounded.
EntryEffect(leg, up) == Signed([leg EXCEPT !.amount = Round2(@, up)])

\* A debit the cent cannot express.
Finer(leg) == leg.direction = "debit" /\ leg.amount % Cent # 0

\* Audits that have begun to read.
Reading == {u \in Auditors : audit[u] # Unread}

\* The transaction of postEntries, with a leg for each account it names.
Post(legs) == \E up, upInEntry \in BOOLEAN :
    /\ \A a \in DOMAIN legs : legs[a].amount > 0 /\ After(a, legs[a], up) >= 0
    /\ balances' = [a \in Holders |->
                       IF a \in DOMAIN legs THEN After(a, legs[a], up) ELSE balances[a]]
    /\ LET effect == [a \in DOMAIN legs |-> EntryEffect(legs[a], upInEntry)]
       IN  entriesNet' = entriesNet + SumFunctionOnSet(effect, DOMAIN legs)
    /\ torn' = torn \cup Reading
    /\ finer' = finer + Cardinality({a \in DOMAIN legs : Finer(legs[a])})

\* Deposits and withdrawals look at the freeze before anything else.
CheckFreeze(q) ==
    /\ asking[q] = "new"
    /\ asking' = [asking EXCEPT ![q] = IF frozen THEN "done" ELSE "checked"]
    /\ UNCHANGED <<balances, entriesNet, reserve, frozen, audit, settings, torn, finer>>

\* A deposit credits its net amount, which is in whole cents.
PostDeposit(q, a, amount) ==
    /\ asking[q] = "checked"
    /\ \E up \in BOOLEAN : Post([h \in {a} |-> Leg("credit", Round2(amount, up))])
    /\ asking' = [asking EXCEPT ![q] = "done"]
    /\ UNCHANGED <<reserve, frozen, audit, settings>>

\* A withdrawal debits the amount of the request as it came.
PostWithdraw(q, a, amount) ==
    /\ asking[q] = "checked"
    /\ Post([h \in {a} |-> Leg("debit", amount)])
    /\ asking' = [asking EXCEPT ![q] = "done"]
    /\ UNCHANGED <<reserve, frozen, audit, settings>>

\* A transfer does not look at the freeze; what arrives is rounded, what leaves is not.
PostTransfer(q, a, b, amount) ==
    /\ asking[q] = "new" /\ a # b
    /\ \E up \in BOOLEAN :
          Post([h \in {a, b} |-> IF h = a THEN Leg("debit", amount)
                                 ELSE Leg("credit", Round2(amount, up))])
    /\ asking' = [asking EXCEPT ![q] = "done"]
    /\ UNCHANGED <<reserve, frozen, audit, settings>>

-----------------------------------------------------------------------------
(* The audit.                                                              *)

LedgerSupply == SumFunctionOnSet(balances, Holders)

\* One of the three reads of reconcile.
ReadCollection(u, collection) ==
    /\ collection \notin audit[u].read
    /\ audit' = [audit EXCEPT
          ![u].read = @ \cup {collection},
          ![u].balances = IF collection = "balances" THEN LedgerSupply ELSE @,
          ![u].entries = IF collection = "entries" THEN entriesNet ELSE @,
          ![u].reserve = IF collection = "reserves" THEN reserve ELSE @]
    /\ UNCHANGED <<balances, entriesNet, reserve, frozen, asking, settings, torn, finer>>

AllRead(u) == audit[u].read = {"balances", "entries", "reserves"}

Drift(u) == audit[u].balances - audit[u].entries
ReserveDrift(u) == IF audit[u].reserve = NoReserve THEN 0 ELSE audit[u].balances - audit[u].reserve

Distance(n) == IF n < 0 THEN -n ELSE n

Balanced(u) == Distance(Drift(u)) <= TOLERANCE /\ Distance(ReserveDrift(u)) <= TOLERANCE

\* The GET request: on a difference it freezes, and it never thaws.
Judge(u) ==
    /\ AllRead(u)
    /\ frozen' = (frozen \/ ~Balanced(u))
    /\ audit' = [audit EXCEPT ![u] = Unread]
    /\ torn' = torn \ {u}
    /\ UNCHANGED <<balances, entriesNet, reserve, asking, settings, finer>>

\* The POST request sets what its body names; the report that follows changes nothing.
SetReserves ==
    /\ settings < MaxSettings /\ settings' = settings + 1
    /\ \E short \in {0, Cent, 2 * Cent} : reserve' = LedgerSupply - short
    /\ UNCHANGED <<balances, entriesNet, frozen, asking, audit, torn, finer>>

SetFreeze ==
    /\ settings < MaxSettings /\ settings' = settings + 1
    /\ frozen' \in BOOLEAN
    /\ UNCHANGED <<balances, entriesNet, reserve, asking, audit, torn, finer>>

-----------------------------------------------------------------------------
Next ==
    \/ \E q \in Requests :
          \/ CheckFreeze(q)
          \/ \E a \in Holders, amount \in Amounts :
                \/ PostDeposit(q, a, amount) \/ PostWithdraw(q, a, amount)
                \/ \E b \in Holders : PostTransfer(q, a, b, amount)
    \/ \E u \in Auditors :
          \/ \E collection \in {"balances", "entries", "reserves"} : ReadCollection(u, collection)
          \/ Judge(u)
    \/ SetReserves \/ SetFreeze

Spec == Init /\ [][Next]_reconVars

-----------------------------------------------------------------------------
(* What an alarm of the audit means.                                       *)

\* The system is frozen by an audit only if a posting fell between its reads,
\* if the registered reserves are more than a cent off, or if two debits were
\* finer than a cent: each of those may be rounded one way in the balance and
\* the other way in the entry (ledger.ts lines 102-113, reconciliation.ts lines
\* 71-90).  The books of whole cents that stood still are never an alarm.
AlarmsExplained ==
    [][\A u \in Auditors :
          Judge(u) /\ ~Balanced(u) =>
              u \in torn \/ finer >= 2 \/ Distance(ReserveDrift(u)) > TOLERANCE]_reconVars

=============================================================================
