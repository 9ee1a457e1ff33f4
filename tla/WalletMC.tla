------------------------------ MODULE WalletMC ------------------------------
(* Small instances of the wallet for TLC.                                  *)
EXTENDS WalletProperties, TLC

CONSTANTS alice, partner, treasury, r3

MCAccounts == {alice, partner, treasury}

MCOpeningBalance == (alice :> 12) @@ (partner :> 1) @@ (treasury :> 0)

\* A fee of one cent for the partner, and of two cents shared with the treasury.
PartnerRule == [fee_permille |-> 15, fee_min |-> 1, fee_max |-> 0,
                share |-> (alice :> 0) @@ (partner :> 100000) @@ (treasury :> 0)]
SharedRule  == [fee_permille |-> 500, fee_min |-> 0, fee_max |-> 2,
                share |-> (alice :> 0) @@ (partner :> 50000) @@ (treasury :> 50000)]

MCRules     == {PartnerRule, SharedRule}

-----------------------------------------------------------------------------
(* Either the third request never comes, or all three are one customer's   *)
(* and there is no fault, no freeze, one operator and one rule: the limits *)
(* and the alerts depend on how many requests there are.                   *)

TwoRequests == phase[r3] = "refused" /\ req[r3] = NoRequest

Quiet ==
    /\ faults = 0 /\ toggles = 0
    /\ \E o \in Operators : \A p \in Operators \ {o} : job[p] = Idle
    /\ \A r \in Requests : req[r] # NoRequest => req[r].payer = alice
    /\ \A r \in Requests : phase[r] = "approved" /\ req[r].kind # "transfer" =>
                              req[r].credit[treasury] = 0

MCInit ==
    /\ balance = OpeningBalance /\ posted = {} /\ compensated = {}
    /\ status = [r \in Requests |-> "none"] /\ alerts = {}
    /\ frozen = FALSE /\ faults = 0 /\ toggles = 0
    /\ \E p \in {"idle", "refused"} : phase = [r \in Requests |-> IF r = r3 THEN p ELSE "idle"]
    /\ req = [r \in Requests |-> NoRequest]
    /\ job = [o \in Operators |-> Idle]
    /\ acknowledged = [r \in Requests |-> {}]

MCSpec == MCInit /\ [][Next]_vars

TwoOrQuiet == TwoRequests' \/ Quiet'

\* Operators are alike, and so are the first two requests.
Symmetry == Permutations(Operators) \cup Permutations(Requests \ {r3})

=============================================================================
