----------------------------- MODULE AdminMintMC -----------------------------
(***************************************************************************)
(* A small instance of the token contract and the mint route for TLC, and  *)
(* beside it, in behaviours of their own, the scripts that deploy the      *)
(* contracts and what the administrators see and set: the pages of the     *)
(* mint and of the rules, and the settings of the panel.                   *)
(***************************************************************************)
EXTENDS AdminMintProperties, TLC

CONSTANTS partner, house, ref1, d1, d2, d3, t1, t2

VARIABLE scene

deployVars == <<coins, made, contracts, pending, run, files, halts>>
consoleVars == <<rules, alone, country, shown, load, mintOf, failed, crossed,
                 list, listing, form, save, saves, touched, dropped>>
panelVars == <<storage, memory, modal, changes, latest, behind, overwritten, rounded>>

MCCoinList  == <<"QUETZA", "COLON", "CORI">>
MCPhaseOne  == <<"QUETZA", "COLON">>
MCRemaining == <<"CORI">>
MCFactory   == [resume |-> 1, remaining |-> 2]

MCHolders  == {treasury, compliance, customer}
MCGross    == ref1 :> 5
MCWallets  == (partner :> treasury) @@ (house :> NoWallet)
Splits(p, h) == (partner :> p) @@ (house :> h)

MCDefault  == [fee_permille |-> 200, fee_min |-> 1, fee_max |-> 0, share |-> Splits(0, 100000)]
\* Two halves; too much; more than all of it, made up for by less than nothing, of a high
\* fee; a negative fee.
Halves    == Splits(50000, 50000)
Lopsided  == [share |-> Splits(150000, -50000), fee_permille |-> 600]
MCUpdates == {[share |-> Halves], [share |-> Splits(200000, 0)], Lopsided,
              [fee_permille |-> -200, fee_min |-> 0]}

NoEditor == editing = [e \in Editors |-> [task |-> "none"]]

\* The contract alone, under its own calls ...
ContractScene ==
    /\ calls = 0
    /\ step = [q \in Requests |-> "refused"]
    /\ NoEditor
    /\ rule = NoRule

\* ... two runs of the mint route, with one call by somebody else in between ...
MintScene ==
    /\ calls = MaxCalls - 1
    /\ step = [q \in Requests |-> "idle"]
    /\ NoEditor
    /\ rule \in {NoRule, Merge(MCDefault, [share |-> Halves]),
                Merge(MCDefault, Lopsided)}

\* ... and two editors of the rule beside one run of the route.
RuleScene ==
    /\ calls = MaxCalls
    /\ \E q \in Requests : step = [p \in Requests |-> IF p = q THEN "idle" ELSE "refused"]
    /\ editing = [e \in Editors |-> Free]
    /\ rule = NoRule

MCInit ==
    /\ balance = [a \in Holders |-> 0] /\ totalSupply = 0
    /\ allowance = [pair \in Holders \X Holders |-> 0]
    /\ blacklisted = {} /\ paused = FALSE /\ maxSupply = InitialCap
    /\ roles = ({"admin", "minter", "burner", "pauser"} \X {treasury})
                 \cup {<<"compliance", compliance>>}
    /\ \/ scene = "coin" /\ (ContractScene \/ MintScene \/ RuleScene)
       \/ scene \in {"scripts", "mintPage", "rulesPage", "settings"} /\ ContractScene
    /\ agreed = rule /\ overtaken = FALSE
    /\ req = [q \in Requests |-> <<>>]
    /\ mempool = <<>> /\ minted = [ref \in References |-> 0]
    /\ recorded = {} /\ marks = {} /\ stops = 0
    /\ D!Init /\ P!Init /\ T!Init

\* Rules are edited on their page while the mint page waits; or coins are minted, no
\* reading of a rule fails, and one rule is edited without haste: the list is read once
\* and a save is awaited.
Console ==
    /\ P!Next
    /\ scene = "mintPage" =>
          /\ ~touched' /\ ~failed'
          /\ form' # P!NoForm => form'.of = "GT"
          /\ \A l \in Loads : listing[l] = P!NoLoad => listing'[l] = P!NoLoad
    /\ scene = "rulesPage" => mintOf' = mintOf /\ country' = country

MCNext ==
    \/ scene = "coin" /\ Next /\ UNCHANGED <<scene, deployVars, consoleVars, panelVars>>
    \/ scene = "scripts" /\ D!Next /\ UNCHANGED <<scene, vars, consoleVars, panelVars>>
    \/ /\ scene \in {"mintPage", "rulesPage"} /\ Console
       /\ UNCHANGED <<scene, vars, deployVars, panelVars>>
    \/ scene = "settings" /\ T!Next /\ UNCHANGED <<scene, vars, deployVars, consoleVars>>

MCSpec == MCInit /\ [][MCNext]_<<scene, vars, deployVars, consoleVars, panelVars>>

\* The runs of the scripts are alike until they begin, and so are the tabs.
Symmetry == Permutations({d1, d2, d3}) \cup Permutations({t1, t2})

=============================================================================
