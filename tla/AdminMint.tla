----------------------------- MODULE AdminMint -----------------------------
(***************************************************************************)
(* The manual mint of the admin panel (POST /api/admin/mint), the          *)
(* commission rule it reads and the routes that edit that rule, and the    *)
(* treasury's transactions on their way to the token contract.             *)
(*                                                                         *)
(* A request is one run of the mint route for one bank reference; an       *)
(* editor is one run of a route that writes the rule.  mintToken returns   *)
(* as soon as the node has accepted the transaction: what the contract     *)
(* makes of it is decided when it is mined.  One country, so one token.    *)
(***************************************************************************)
EXTENDS Coin, Commission, Sequences, Functions

CONSTANTS
    Requests, Editors, References,
    Gross,       \* the amount deposited under each bank reference
    Recipients,  \* recipient_id of the splits of a rule
    WalletOf,    \* their wallet_celo, NoWallet when it is not a valid address
    NoWallet,
    customer,    \* the wallet the operator types in
    DefaultRule, \* the entry of DEFAULT_RULES for deposit_<country>
    Updates,     \* bodies of PUT /api/admin/commission
    MaxStops     \* bound: route runs stopped half way, answers lost

ASSUME ReferencesAssumption ==
    /\ Gross \in [References -> Nat \ {0}]
    /\ customer \in Holders
    /\ IsFiniteSet(Recipients)
    /\ WalletOf \in [Recipients -> Holders \cup {NoWallet}]
    /\ MaxStops \in Nat

VARIABLES
    rule,      \* len_commission_config, deposit_<country>
    step, req, \* where each run of the mint route is, and what it carries
    editing,   \* what each editor has read
    mempool,   \* accepted transactions of the treasury, in nonce order
    minted,    \* the coins of the Minted events of each reference
    recorded,  \* documents of len_admin_mints
    agreed,    \* history: the updates of the rule, applied one after the other
    overtaken, \* history: a writer of the rule used a document that had changed
    marks,     \* history: what happened to each reference
    stops

deskVars == <<rule, step, req, editing, mempool, minted, recorded, agreed, overtaken, marks, stops>>

NoRule == [fee_permille |-> 0]
Free   == [task |-> "free"]

Fields == {"fee_permille", "fee_min", "fee_max", "share"}

DeskInit ==
    /\ rule = NoRule /\ agreed = NoRule
    /\ step = [q \in Requests |-> "idle"]
    /\ req = [q \in Requests |-> <<>>]
    /\ editing = [e \in Editors |-> Free]
    /\ mempool = <<>>
    /\ minted = [ref \in References |-> 0]
    /\ recorded = {}
    /\ marks = {}
    /\ overtaken = FALSE
    /\ stops = 0

-----------------------------------------------------------------------------
(* The rule.                                                               *)

\* { ...snap.data(), ...updates }
Merge(old, updates) ==
    [f \in Fields |-> IF f \in DOMAIN updates THEN updates[f] ELSE old[f]]

\* Percentages, bounds and shares are numbers, also once updated.
Rules == [fee_permille : Int, fee_min : Int, fee_max : Int, share : [Recipients -> Int]]

ShareSum(share) == SumFunctionOnSet(share, Recipients)

\* Math.abs(total - 100) > 0.01 refuses, in thousandths of a percent: what is 0.01 off
\* in decimals is a little more than that in floating point.
AddsUp(share) == ShareSum(share) - 100000 \in -9..9

ASSUME RulesAssumption ==
    /\ DefaultRule \in Rules /\ AddsUp(DefaultRule.share)
    /\ \A updates \in Updates : Merge(DefaultRule, updates) \in Rules

\* Mutant: the sum of the splits is not looked at.
AnySplits(updates) == TRUE

\* All that an update is checked for: a negative percentage or fee passes.
SplitsValid(updates) == "share" \in DOMAIN updates => AddsUp(updates.share)

\* A write computed from a document that has changed since it was read.
Write(read) == overtaken' = (overtaken \/ read # rule)

\* updateCommissionRule reads the document and validates the splits.
ReadForUpdate(e, updates) ==
    /\ editing[e] = Free
    /\ rule # NoRule
    /\ SplitsValid(updates)
    /\ editing' = [editing EXCEPT ![e] =
                     [task |-> "update", read |-> rule, updates |-> updates]]
    /\ UNCHANGED <<rule, step, req, mempool, minted, recorded, agreed, overtaken, marks, stops>>

\* Mutant: the document becomes the default with the updates.
WriteOnDefault(e) ==
    /\ editing[e].task = "update"
    /\ rule' = Merge(DefaultRule, editing[e].updates)
    /\ agreed' = Merge(agreed, editing[e].updates)
    /\ Write(editing[e].read)
    /\ editing' = [editing EXCEPT ![e] = Free]
    /\ UNCHANGED <<step, req, mempool, minted, recorded, marks, stops>>

WriteUpdate(e) ==
    /\ editing[e].task = "update"
    /\ rule' = Merge(editing[e].read, editing[e].updates)
    /\ agreed' = Merge(agreed, editing[e].updates)
    /\ Write(editing[e].read)
    /\ editing' = [editing EXCEPT ![e] = Free]
    /\ UNCHANGED <<step, req, mempool, minted, recorded, marks, stops>>

\* listCommissionRules finds the collection empty, and then seeds it.
ListEmpty(e) ==
    /\ editing[e] = Free
    /\ rule = NoRule
    /\ editing' = [editing EXCEPT ![e] = [task |-> "seed"]]
    /\ UNCHANGED <<rule, step, req, mempool, minted, recorded, agreed, overtaken, marks, stops>>

Default ==
    /\ rule' = DefaultRule
    /\ agreed' = IF agreed = NoRule THEN DefaultRule ELSE agreed
    /\ Write(NoRule)

SeedList(e) ==
    /\ editing[e].task = "seed"
    /\ Default
    /\ editing' = [editing EXCEPT ![e] = Free]
    /\ UNCHANGED <<step, req, mempool, minted, recorded, marks, stops>>

-----------------------------------------------------------------------------
(* POST /api/admin/mint.                                                   *)

\* The runs that are past the check of the reference of q.
Beside(q) == {p \in Requests : /\ p # q /\ step[p] \in {"minting", "splitting", "recording"}
                               /\ req[p].ref = req[q].ref}

\* The body is valid.  The rule is read; it is created when there is none.
Start(q, ref) ==
    /\ step[q] = "idle"
    /\ step' = [step EXCEPT ![q] = IF rule = NoRule THEN "seeding" ELSE "checking"]
    /\ req' = [req EXCEPT ![q] = [ref |-> ref, rule |-> rule, left |-> {}]]
    /\ UNCHANGED <<rule, editing, mempool, minted, recorded, agreed, overtaken, marks, stops>>

SeedRule(q) ==
    /\ step[q] = "seeding"
    /\ Default
    /\ req' = [req EXCEPT ![q].rule = DefaultRule]
    /\ step' = [step EXCEPT ![q] = "checking"]
    /\ UNCHANGED <<editing, mempool, minted, recorded, marks, stops>>

NetOf(q) == Net(req[q].rule, Gross[req[q].ref])

\* Mutant: the reference is not looked up.
CheckNothing(q) ==
    /\ step[q] = "checking"
    /\ step' = [step EXCEPT ![q] = IF NetOf(q) <= 0 THEN "refused" ELSE "minting"]
    /\ marks' = marks \cup (IF Beside(q) # {} THEN {<<"overlap", req[q].ref>>} ELSE {})
    /\ UNCHANGED <<rule, req, editing, mempool, minted, recorded, agreed, overtaken, stops>>

\* A net amount of zero or less and a known reference are refused.
Check(q) ==
    /\ step[q] = "checking"
    /\ step' = [step EXCEPT ![q] = IF NetOf(q) <= 0 \/ req[q].ref \in recorded
                                   THEN "refused" ELSE "minting"]
    /\ marks' = marks \cup (IF Beside(q) # {} THEN {<<"overlap", req[q].ref>>} ELSE {})
    /\ UNCHANGED <<rule, req, editing, mempool, minted, recorded, agreed, overtaken, stops>>

Send(to, amount, ref) == mempool' = Append(mempool, [to |-> to, amount |-> amount, ref |-> ref])

\* The splits of the rule that are minted: those with a wallet and an amount.
PaidSplits(q) == {s \in Recipients : /\ WalletOf[s] # NoWallet
                                     /\ Share(req[q].rule, Gross[req[q].ref], s) > 0}

\* The node estimates the call, accepts the transaction and returns its hash.
MintUser(q) ==
    /\ step[q] = "minting"
    /\ CanMint(treasury, customer, NetOf(q))
    /\ Send(customer, NetOf(q), req[q].ref)
    /\ req' = [req EXCEPT ![q].left = PaidSplits(q)]
    /\ step' = [step EXCEPT ![q] = IF PaidSplits(q) = {} THEN "recording" ELSE "splitting"]
    /\ UNCHANGED <<rule, editing, minted, recorded, agreed, overtaken, marks, stops>>

\* Mutant: the handler goes on to record the reference.
MintRefusedIgnored(q) ==
    /\ step[q] = "minting"
    /\ ~CanMint(treasury, customer, NetOf(q))
    /\ step' = [step EXCEPT ![q] = "recording"]
    /\ UNCHANGED <<rule, req, editing, mempool, minted, recorded, agreed, overtaken, marks, stops>>

\* The estimation reverts: the route answers 500 and records nothing.
MintRefused(q) ==
    /\ step[q] = "minting"
    /\ ~CanMint(treasury, customer, NetOf(q))
    /\ step' = [step EXCEPT ![q] = "refused"]
    /\ UNCHANGED <<rule, req, editing, mempool, minted, recorded, agreed, overtaken, marks, stops>>

\* A split that fails is noted in split_results; the next one follows.
MintSplit(q, s) ==
    /\ step[q] = "splitting"
    /\ s \in req[q].left
    /\ LET amount == Share(req[q].rule, Gross[req[q].ref], s)
       IN  IF CanMint(treasury, WalletOf[s], amount)
           THEN Send(WalletOf[s], amount, req[q].ref)
           ELSE UNCHANGED mempool
    /\ req' = [req EXCEPT ![q].left = @ \ {s}]
    /\ step' = [step EXCEPT ![q] = IF req[q].left = {s} THEN "recording" ELSE "splitting"]
    /\ UNCHANGED <<rule, editing, minted, recorded, agreed, overtaken, marks, stops>>

Record(q) ==
    /\ step[q] = "recording"
    /\ recorded' = recorded \cup {req[q].ref}
    /\ step' = [step EXCEPT ![q] = "done"]
    /\ UNCHANGED <<rule, req, editing, mempool, minted, agreed, overtaken, marks, stops>>

Stopped(q) ==
    /\ stops < MaxStops
    /\ stops' = stops + 1
    /\ step' = [step EXCEPT ![q] = "done"]
    /\ marks' = marks \cup {<<"stopped", req[q].ref>>}

\* The server is restarted, or an awaited call throws, once the user's coins
\* have been sent; or the answer to that very call is lost.
StopAfterMint(q) ==
    /\ step[q] \in {"splitting", "recording"}
    /\ Stopped(q)
    /\ UNCHANGED <<rule, req, editing, mempool, minted, recorded, agreed, overtaken>>

MintAnswerLost(q) ==
    /\ step[q] = "minting"
    /\ CanMint(treasury, customer, NetOf(q))
    /\ Send(customer, NetOf(q), req[q].ref)
    /\ Stopped(q)
    /\ UNCHANGED <<rule, req, editing, minted, recorded, agreed, overtaken>>

-----------------------------------------------------------------------------
(* The chain takes the treasury's transactions in order.                   *)

Next1 == Head(mempool)

Mined ==
    /\ mempool # <<>>
    /\ Mint(treasury, Next1.to, Next1.amount)
    /\ minted' = [minted EXCEPT ![Next1.ref] = @ + Next1.amount]
    /\ mempool' = Tail(mempool)
    /\ UNCHANGED <<calls, rule, step, req, editing, recorded, agreed, overtaken, marks, stops>>

\* Something the contract looks at has changed since the estimation.
Reverted ==
    /\ mempool # <<>>
    /\ ~CanMint(treasury, Next1.to, Next1.amount)
    /\ mempool' = Tail(mempool)
    /\ marks' = marks \cup {<<"reverted", Next1.ref>>}
    /\ UNCHANGED <<coinVars, rule, step, req, editing, minted, recorded, agreed, overtaken, stops>>

-----------------------------------------------------------------------------
EditorStep ==
    \E e \in Editors :
       \/ \E updates \in Updates : ReadForUpdate(e, updates)
       \/ WriteUpdate(e) \/ ListEmpty(e) \/ SeedList(e)

RequestStep ==
    \E q \in Requests :
       \/ \E ref \in References : Start(q, ref)
       \/ SeedRule(q) \/ Check(q) \/ MintUser(q) \/ MintRefused(q)
       \/ \E s \in Recipients : MintSplit(q, s)
       \/ Record(q) \/ StopAfterMint(q) \/ MintAnswerLost(q)

Next ==
    \/ (EditorStep \/ RequestStep) /\ UNCHANGED coinVars
    \/ CoinStep /\ UNCHANGED deskVars
    \/ Mined
    \/ Reverted

vars == <<coinVars, deskVars>>

Spec == CoinInit /\ DeskInit /\ [][Next]_vars

=============================================================================
