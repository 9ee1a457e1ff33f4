-------------------------- MODULE AdminMintProperties --------------------------
(***************************************************************************)
(* What the token contract and the manual mint promise, and beside them    *)
(* the scripts that deploy the contracts, the pages of the mint and of the *)
(* rules, and the settings of the panel.  They share no state here.  The   *)
(* mint keeps its own names; the others are instances.                     *)
(***************************************************************************)
EXTENDS AdminMint

CONSTANTS
    CoinList, PhaseOne, Remaining, Asked, Factory,       \* scripts
    Runs, MaxFactories, MaxHalts,
    Countries, FirstCountry, Fees, DefaultFee,           \* pages of the mint and the rules
    Loads, Mints, MaxSaves,
    Tabs, Typed, Rates, MaxSets                          \* settings

VARIABLES
    coins, made, contracts, pending, run, files, halts,
    rules, alone, country, shown, load, mintOf, failed, crossed,
    list, listing, form, save, saves, touched, dropped,
    storage, memory, modal, changes, latest, behind, overwritten, rounded

D == INSTANCE Deployment WITH MaxStops <- MaxHalts, minted <- contracts, stops <- halts

\* The scripts name coins of the list and factories.
ASSUME ScriptsAssumption ==
    /\ MaxFactories \in Nat
    /\ CoinList \in Seq(D!Codes) /\ PhaseOne \in Seq(D!Codes) /\ Remaining \in Seq(D!Codes)
    /\ Asked \in D!Codes
    /\ Factory["resume"] \in D!Factories /\ Factory["remaining"] \in D!Factories

P == INSTANCE Console WITH mint <- mintOf

T == INSTANCE Panel WITH sets <- changes, overtaken <- overwritten

\* What an administrator types is a percentage; the pages know the country they
\* begin with, and read its rule when they are opened.
ASSUME TypedAssumption == Typed \subseteq Nat

ASSUME PagesAssumption == FirstCountry \in Countries /\ "none" \notin Countries /\ Loads # {}

\* The supply of coins is the sum of what the holders have, whatever sequence
\* of mints, burns, transfers and allowances led there: the on-chain side of
\* the proof of reserves.
SupplyIsBalances == totalSupply = SumFunctionOnSet(balance, Holders)

\* The supply never exceeds the cap in force, neither by a mint nor by an
\* administrator who lowers the cap.
SupplyWithinCap == maxSupply = 0 \/ totalSupply <= maxSupply

\* A blacklisted address, and every address while the contract is paused,
\* keeps its balance: nobody moves, mints to or burns it, the treasury included.
FrozenBalances ==
    [][\A a \in Holders : a \in blacklisted \/ paused => balance'[a] = balance[a]]_balance

\* Accepted coins of a reference, per transaction.
Accepted(ref) == [i \in DOMAIN mempool |-> IF mempool[i].ref = ref THEN mempool[i].amount ELSE 0]

\* Mined and accepted coins of a reference.
Issued(ref) == minted[ref] + SumFunctionOnSet(Accepted(ref), DOMAIN mempool)

\* What a rule makes of a deposit: the net, and the splits that are positive and have
\* a wallet.
Payees == {s \in Recipients : WalletOf[s] # NoWallet}
PaidBy(r, gross) == [s \in Recipients |-> Paid(r, gross, s)]
Legs(r, gross) == Net(r, gross) + SumFunctionOnSet(PaidBy(r, gross), Payees)

\* Nothing in the rule is negative.  Only then is there no more than was deposited, up
\* to half a cent of rounding per split and what updateCommissionRule lets the splits
\* exceed the fee.
Proper(r) == r.fee_permille >= 0 /\ \A s \in Recipients : r.share[s] >= 0
Slack(r, gross) == (50000 * Cardinality(Recipients) + 10 * Fee(r, gross)) \div 100000

\* The runs that were not refused.
Ran(ref) == {q \in Requests : /\ step[q] \in {"minting", "splitting", "recording", "done"}
                              /\ req[q].ref = ref}

\* However often the mint of a bank reference is requested and whatever becomes of the
\* rule meanwhile, it issues what one run's rule makes of the deposit, and once: no more
\* than was deposited unless that rule has something negative in it; unless two runs
\* were past the look-up together or one was stopped after its first mint.
BackedByDeposit ==
    \A ref \in References :
       {<<"overlap", ref>>, <<"stopped", ref>>} \cap marks = {} =>
          \/ Issued(ref) = 0
          \/ \E q \in Ran(ref) :
                /\ Issued(ref) <= Legs(req[q].rule, Gross[ref])
                /\ Proper(req[q].rule) => Issued(ref) <= Gross[ref] + Slack(req[q].rule, Gross[ref])

\* A recorded reference can never be minted again, so its coins must have been
\* issued: unless the contract refused the call after the node had accepted it.
RecordedIsMinted ==
    \A ref \in recorded : Issued(ref) > 0 \/ <<"reverted", ref>> \in marks

\* The books of the coin: what is there is what was minted, what was minted is what a
\* rule makes of a deposit, and what is recorded was minted.
MintsAccounted == SupplyIsBalances /\ BackedByDeposit /\ RecordedIsMinted

\* Every acknowledged update of the commission rule, by whichever editor and
\* of whichever fields, is in the rule, unless some writer of the rule used a
\* document that had changed since it read it.
UpdatesKept == ~overtaken => rule = agreed

\* The files of addresses name the coins, and all of them.
FilesHold == D!FilesHold

\* What administrators set is kept, by whichever route, page or tab, and what they are
\* shown when they decide is what they get.
SettingsKept ==
    /\ UpdatesKept
    /\ P!PriceShown /\ P!EditsKept /\ P!ListWhole
    /\ T!SettingsKept /\ T!FeesSteady

=============================================================================
