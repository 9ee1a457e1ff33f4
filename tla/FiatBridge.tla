------------------------------ MODULE FiatBridge ------------------------------
(***************************************************************************)
(* The fiat bridge (services/fiat-bridge): deposits that a user announces, *)
(* the virtual accounts that receive them, and the webhooks of the banks.  *)
(*                                                                         *)
(* A webhook of Guatemala, Mexico and Honduras finds the user by his       *)
(* virtual account and then looks for a deposit with an id the bank gave.  *)
(* In Guatemala and Honduras that is the reference by which the account    *)
(* was just found, in Mexico the tracking key of the transfer; neither is  *)
(* ever the id of a deposit.  A CoDi webhook carries the id it was asked   *)
(* to.  Banks deliver again what they got no answer to.                    *)
(***************************************************************************)
EXTENDS Integers, FiniteSets

CONSTANTS
    Users,
    Countries,    \* subset of {"GT", "MX", "HN"}
    Deposits,     \* ids of rows of fiat_transactions
    Providers,    \* subset of {"BANRURAL", "SPEI", "CODI", "OXXO"}
    Hooks,        \* webhook calls
    MaxStops      \* bound: calls that throw

VARIABLES
    accounts,   \* table virtual_accounts: user and country
    deposited,  \* their column total_deposited, in deliveries
    deposit,    \* table fiat_transactions: provider, status, and whether the provider gave a reference
    task,       \* where each call is: of a user for his account, of initiateDeposit
    hook,       \* where each webhook call is and what it has read
    mints,      \* jobs mint-mondg in the queue transactions, for each deposit
    payouts,    \* jobs process-withdrawal in the queue fiat-bridge
    stopped,
    doubled     \* history: deposits whose webhook calls overlapped

fiatVars == <<accounts, deposited, deposit, task, hook, mints, payouts, stopped, doubled>>

Account == Users \X Countries

\* A bank's own numbers: no deposit is called so.
Tracking == <<"tracking key">>

Init ==
    /\ accounts = {} /\ deposited = [a \in Account |-> 0]
    /\ deposit = [d \in Deposits |-> [status |-> "none"]]
    /\ task = [a \in Account |-> "idle"]
    /\ hook = [h \in Hooks |-> [step |-> "idle"]]
    /\ mints = [d \in Deposits |-> 0] /\ payouts = 0
    /\ stopped = 0 /\ doubled = {}

-----------------------------------------------------------------------------
(* getOrCreate and create.                                                 *)

\* No account was found; one with a number derived from the user is saved.
FindNoAccount(a) ==
    /\ task[a] = "idle" /\ a \notin accounts
    /\ task' = [task EXCEPT ![a] = "creating"]
    /\ UNCHANGED <<accounts, deposited, deposit, hook, mints, payouts, stopped, doubled>>

\* When another call was first the index refuses this one, which takes its row.
CreateAccount(a) ==
    /\ task[a] = "creating"
    /\ accounts' = accounts \cup {a}
    /\ task' = [task EXCEPT ![a] = "idle"]
    /\ UNCHANGED <<deposited, deposit, hook, mints, payouts, stopped, doubled>>

-----------------------------------------------------------------------------
(* initiateDeposit and initiateWithdrawal.                                 *)

SaveDeposit(d, provider) ==
    /\ deposit[d].status = "none"
    /\ deposit' = [deposit EXCEPT ![d] =
                      [status |-> "pending", provider |-> provider, referenced |-> FALSE]]
    /\ UNCHANGED <<accounts, deposited, task, hook, mints, payouts, stopped, doubled>>

\* The provider answered with a reference of its own.  When it does not, the
\* deposit stays pending for ever.
SaveReference(d) ==
    /\ deposit[d].status # "none" /\ ~deposit[d].referenced
    /\ deposit' = [deposit EXCEPT ![d].referenced = TRUE]
    /\ UNCHANGED <<accounts, deposited, task, hook, mints, payouts, stopped, doubled>>

\* Nothing is stored of a withdrawal; no consumer of the queue exists.
Withdraw ==
    /\ payouts = 0
    /\ payouts' = payouts + 1
    /\ UNCHANGED <<accounts, deposited, deposit, task, hook, mints, stopped, doubled>>

-----------------------------------------------------------------------------
(* The webhooks.                                                           *)

Lookup(h, id) == hook' = [hook EXCEPT ![h] = [step |-> "looking", id |-> id]]

\* resolveDeposit adds the amount, before anybody asks whether the delivery
\* is a repetition.
Resolve(h, a) ==
    /\ hook[h].step = "idle"
    /\ a \in accounts
    /\ deposited' = [deposited EXCEPT ![a] = @ + 1]
    /\ Lookup(h, IF a[2] = "MX" THEN Tracking ELSE a)
    /\ UNCHANGED <<accounts, deposit, task, mints, payouts, stopped, doubled>>

\* A webhook that names a deposit and no account changes nothing, except CoDi's.
CoDi(h, d) ==
    /\ hook[h].step = "idle"
    /\ deposit[d].status # "none" /\ deposit[d].provider = "CODI"
    /\ Lookup(h, d)
    /\ UNCHANGED <<accounts, deposited, deposit, task, mints, payouts, stopped, doubled>>

\* Mutant: the status is not compared.
AcceptsAny(id) == id \in Deposits

\* handleDepositConfirmation goes on with a pending deposit only.
Accepts(id) == id \in Deposits /\ deposit[id].status = "pending"

FindDeposit(h) ==
    /\ hook[h].step = "looking"
    /\ LET id == hook[h].id
           others == {g \in Hooks : hook[g].step = "marking" /\ hook[g].id = id}
       IN  IF Accepts(id)
           THEN /\ hook' = [hook EXCEPT ![h].step = "marking"]
                /\ doubled' = IF others # {} THEN doubled \cup {id} ELSE doubled
           ELSE /\ hook' = [hook EXCEPT ![h] = [step |-> "done"]]
                /\ UNCHANGED doubled
    /\ UNCHANGED <<accounts, deposited, deposit, task, mints, payouts, stopped>>

MarkProcessing(h) ==
    /\ hook[h].step = "marking"
    /\ deposit' = [deposit EXCEPT ![hook[h].id].status = "processing"]
    /\ hook' = [hook EXCEPT ![h].step = "queueing"]
    /\ UNCHANGED <<accounts, deposited, task, mints, payouts, stopped, doubled>>

QueueMint(h) ==
    /\ hook[h].step = "queueing"
    /\ mints' = [mints EXCEPT ![hook[h].id] = @ + 1]
    /\ hook' = [hook EXCEPT ![h] = [step |-> "done"]]
    /\ UNCHANGED <<accounts, deposited, deposit, task, payouts, stopped, doubled>>

\* A call throws, and the bank calls again.
Stop(h) ==
    /\ hook[h].step \in {"looking", "marking", "queueing"} /\ stopped < MaxStops
    /\ stopped' = stopped + 1
    /\ hook' = [hook EXCEPT ![h] = [step |-> "idle"]]
    /\ UNCHANGED <<accounts, deposited, deposit, task, mints, payouts, doubled>>

Next ==
    \/ \E a \in Account : FindNoAccount(a) \/ CreateAccount(a)
    \/ \E d \in Deposits :
          SaveReference(d) \/ \E provider \in Providers : SaveDeposit(d, provider)
    \/ Withdraw
    \/ \E h \in Hooks :
          \/ \E a \in Account : Resolve(h, a)
          \/ \E d \in Deposits : CoDi(h, d)
          \/ FindDeposit(h) \/ MarkProcessing(h) \/ QueueMint(h) \/ Stop(h)

Spec == Init /\ [][Next]_fiatVars

-----------------------------------------------------------------------------
(* What the fiat bridge keeps true of deposits and the mints it asks for.  *)

Queueing(d) == {h \in Hooks : hook[h].step = "queueing" /\ hook[h].id = d}

\* One mint is queued for a deposit that is processing, whatever was delivered
\* again and in whatever order: more than one only when two calls had both
\* found it pending, and none only while its call is about to queue it or when
\* a call threw in between (fiat-bridge.service.ts lines 178-203).
MintQueuedOnce ==
    \A d \in Deposits :
        /\ mints[d] > 1 => d \in doubled
        /\ deposit[d].status = "processing" /\ mints[d] = 0
              => Queueing(d) # {} \/ stopped > 0

=============================================================================
