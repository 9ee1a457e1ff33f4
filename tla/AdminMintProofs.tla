--------------------------- MODULE AdminMintProofs ---------------------------
(***************************************************************************)
(* What holds of the token and the manual mint for any holders, amounts,   *)
(* rules, requests and editors: the cap, the blacklist and the pause,      *)
(* whoever calls the contract; and the accounting of the coins, from the   *)
(* deposit to the supply.  After them the files of the deployment scripts, *)
(* for any lists of coins and any runs, and what administrators are shown  *)
(* and set, for any pages, tabs and readings.                              *)
(***************************************************************************)
EXTENDS AdminMintProperties, Sums, SequenceTheorems, FiniteSetTheorems, TLAPS

CoinType ==
    /\ balance \in [Holders -> Int]
    /\ totalSupply \in Int
    /\ maxSupply \in Int

Transactions == [to : Holders, amount : Nat \ {0}, ref : References]

\* Rules whose splits add up: updateCommissionRule accepts no others.
SoundRules == {r \in Rules : AddsUp(r.share)}

\* What a run of the mint route carries at each of its steps.
CarriesOK(st, w) ==
    /\ st \notin {"idle", "refused"} => w.ref \in References
    /\ st \notin {"idle", "refused", "seeding"} => w.rule \in SoundRules
    /\ st = "splitting" => \A s \in w.left : s \in Recipients /\ WalletOf[s] # NoWallet

EditsOK(w) ==
    w.task = "update" => w.read \in SoundRules /\ w.updates \in Updates /\ SplitsValid(w.updates)

DeskType ==
    /\ rule = NoRule \/ rule \in SoundRules
    /\ mempool \in Seq(Transactions)
    /\ minted \in [References -> Nat] /\ recorded \subseteq References
    /\ editing = [e \in Editors |-> editing[e]]
    /\ \A e \in Editors : EditsOK(editing[e])
    /\ step = [q \in Requests |-> step[q]]
    /\ req = [q \in Requests |-> req[q]]
    /\ \A q \in Requests : CarriesOK(step[q], req[q])

TypeInv == CoinType /\ DeskType

-----------------------------------------------------------------------------
(* The token.                                                              *)

\* When one balance changes, their sum changes with it.
LEMMA OneBalance ==
    ASSUME NEW of \in [Holders -> Int], NEW h \in Holders,
           NEW new \in [Holders -> Int], \A a \in Holders \ {h} : new[a] = of[a]
    PROVE  SumFunctionOnSet(new, Holders) = SumFunctionOnSet(of, Holders) - of[h] + new[h]
  <1>1. IsFiniteSet(Holders) /\ new[h] \in Int /\ \A a \in Holders : of[a] \in Int
    BY HoldersAssumption
  <1>2. QED
    BY <1>1, SumUpdate

\* A debit changes one balance and the sum.
LEMMA Debit ==
    ASSUME NEW of \in [Holders -> Int], NEW h \in Holders, NEW n \in Int
    PROVE  /\ Debited(of, h, n) \in [Holders -> Int]
           /\ \A a \in Holders \ {h} : Debited(of, h, n)[a] = of[a]
           /\ SumFunctionOnSet(Debited(of, h, n), Holders) = SumFunctionOnSet(of, Holders) - n
  <1>1. /\ Debited(of, h, n) \in [Holders -> Int] /\ Debited(of, h, n)[h] = of[h] - n
        /\ \A a \in Holders \ {h} : Debited(of, h, n)[a] = of[a]
    BY DEF Debited
  <1>2. SumFunctionOnSet(Debited(of, h, n), Holders)
           = SumFunctionOnSet(of, Holders) - of[h] + Debited(of, h, n)[h]
    BY <1>1, OneBalance
  <1>3. SumFunctionOnSet(of, Holders) \in Int /\ of[h] \in Int
    BY HoldersAssumption, SumInt
  <1>4. QED
    BY <1>1, <1>2, <1>3

\* So does a credit.
LEMMA Credit ==
    ASSUME NEW of \in [Holders -> Int], NEW h \in Holders, NEW n \in Int
    PROVE  /\ Credited(of, h, n) \in [Holders -> Int]
           /\ \A a \in Holders \ {h} : Credited(of, h, n)[a] = of[a]
           /\ SumFunctionOnSet(Credited(of, h, n), Holders) = SumFunctionOnSet(of, Holders) + n
  <1>1. /\ Credited(of, h, n) \in [Holders -> Int] /\ Credited(of, h, n)[h] = of[h] + n
        /\ \A a \in Holders \ {h} : Credited(of, h, n)[a] = of[a]
    BY DEF Credited
  <1>2. SumFunctionOnSet(Credited(of, h, n), Holders)
           = SumFunctionOnSet(of, Holders) - of[h] + Credited(of, h, n)[h]
    BY <1>1, OneBalance
  <1>3. SumFunctionOnSet(of, Holders) \in Int /\ of[h] \in Int
    BY HoldersAssumption, SumInt
  <1>4. QED
    BY <1>1, <1>2, <1>3

\* What a contract call may do to balances, supply and cap.
Allowed ==
    /\ CoinType'
    /\ SupplyWithinCap => SupplyWithinCap'
    /\ SupplyIsBalances => SupplyIsBalances'
    /\ \A a \in Holders : a \in blacklisted \/ paused => balance'[a] = balance[a]

\* A mint stays within the cap and off the frozen balances.
LEMMA MintAllowed ==
    ASSUME CoinType, NEW sender, NEW to \in Holders, NEW amount \in Int,
           Mint(sender, to, amount)
    PROVE  Allowed
  <1>1. /\ balance' = Credited(balance, to, amount)
        /\ totalSupply' = totalSupply + amount /\ maxSupply' = maxSupply
        /\ WithinCap(amount) /\ ~paused /\ to \notin blacklisted
    BY DEF Mint, CanMint, MintTo, MayMove
  <1>2. /\ balance' \in [Holders -> Int]
        /\ \A a \in Holders \ {to} : balance'[a] = balance[a]
        /\ SumFunctionOnSet(balance', Holders) = SumFunctionOnSet(balance, Holders) + amount
    BY <1>1, Credit DEF CoinType
  <1>3. QED
    BY <1>1, <1>2 DEF Allowed, CoinType, SupplyWithinCap, SupplyIsBalances, WithinCap

\* So does a burn, of whatever kind.
LEMMA BurnAllowed ==
    ASSUME CoinType, NEW from \in Holders, NEW amount \in Nat,
           BurnOf(from, amount), UNCHANGED maxSupply
    PROVE  Allowed
  <1>1. /\ balance' = Debited(balance, from, amount)
        /\ totalSupply' = totalSupply - amount
        /\ ~paused /\ from \notin blacklisted
    BY DEF BurnOf, MayMove
  <1>2. /\ balance' \in [Holders -> Int]
        /\ \A a \in Holders \ {from} : balance'[a] = balance[a]
        /\ SumFunctionOnSet(balance', Holders) = SumFunctionOnSet(balance, Holders) - amount
    BY <1>1, Debit DEF CoinType
  <1>3. QED
    BY <1>1, <1>2 DEF Allowed, CoinType, SupplyWithinCap, SupplyIsBalances

\* So does a transfer.
LEMMA MoveAllowed ==
    ASSUME CoinType, NEW from \in Holders, NEW to \in Holders, NEW amount \in Nat,
           Move(from, to, amount), UNCHANGED <<totalSupply, maxSupply>>
    PROVE  Allowed
  <1>1. ~paused /\ from \notin blacklisted /\ to \notin blacklisted
    BY DEF Move, MayMove
  <1>2. PICK between : between = Debited(balance, from, amount)
    OBVIOUS
  <1>3. /\ between \in [Holders -> Int]
        /\ \A a \in Holders \ {from} : between[a] = balance[a]
        /\ SumFunctionOnSet(between, Holders) = SumFunctionOnSet(balance, Holders) - amount
    <2>1. amount \in Int /\ balance \in [Holders -> Int]
      BY DEF CoinType
    <2>2. QED
      BY <1>2, <2>1, Debit
  <1>4. balance' = Credited(between, to, amount)
    BY <1>2 DEF Move
  <1>5. /\ balance' \in [Holders -> Int]
        /\ \A a \in Holders \ {to} : balance'[a] = between[a]
        /\ SumFunctionOnSet(balance', Holders) = SumFunctionOnSet(between, Holders) + amount
    <2>1. amount \in Int
      OBVIOUS
    <2>2. /\ Credited(between, to, amount) \in [Holders -> Int]
          /\ \A a \in Holders \ {to} : Credited(between, to, amount)[a] = between[a]
          /\ SumFunctionOnSet(Credited(between, to, amount), Holders)
                = SumFunctionOnSet(between, Holders) + amount
      <3>1. between \in [Holders -> Int]
        BY <1>3
      <3>2. QED
        BY <2>1, <3>1, Credit
    <2>3. QED
      BY <1>4, <2>2, Zenon
  <1>6. SumFunctionOnSet(balance, Holders) \in Int
    BY HoldersAssumption, SumInt DEF CoinType
  <1>7. /\ \A a \in Holders \ {from, to} : balance'[a] = balance[a]
        /\ SumFunctionOnSet(balance', Holders) = SumFunctionOnSet(balance, Holders)
    BY <1>3, <1>5, <1>6
  <1>8. QED
    BY <1>1, <1>5, <1>7 DEF Allowed, CoinType, SupplyWithinCap, SupplyIsBalances

\* So does a call that moves nothing.
LEMMA SameAllowed ==
    ASSUME CoinType, UNCHANGED <<balance, totalSupply, maxSupply>>
    PROVE  Allowed
  BY DEF Allowed, CoinType, SupplyWithinCap, SupplyIsBalances

\* Every call of the contract is allowed.
LEMMA CoinStepAllowed ==
    ASSUME CoinType, CoinStep
    PROVE  Allowed
  <1>1. Values \subseteq Nat
    BY NumbersAssumption
  <1>2. ASSUME NEW a \in Holders, NEW b \in Holders, NEW v \in Values, Transfer(a, b, v)
        PROVE  Allowed
    BY <1>1, <1>2, MoveAllowed DEF Transfer
  <1>3. ASSUME NEW a \in Holders, NEW b \in Holders, NEW c \in Holders, NEW v \in Values,
               TransferFrom(a, b, c, v)
        PROVE  Allowed
    BY <1>1, <1>3, MoveAllowed DEF TransferFrom
  <1>4. ASSUME NEW a \in Holders, NEW b \in Holders, NEW v \in Values,
               SpenderBurn(a, b, v) \/ TreasuryBurn(a, b, v)
        PROVE  Allowed
    BY <1>1, <1>4, BurnAllowed DEF SpenderBurn, TreasuryBurn
  <1>5. ASSUME NEW a \in Holders, NEW v \in Values, HolderBurn(a, v)
        PROVE  Allowed
    BY <1>1, <1>5, BurnAllowed DEF HolderBurn
  <1>6. ASSUME NEW a \in Holders, NEW v \in Values, UpdateMaxSupply(a, v)
        PROVE  Allowed
    BY <1>1, <1>6 DEF UpdateMaxSupply, Allowed, CoinType, SupplyWithinCap, SupplyIsBalances
  <1>7. ASSUME NEW a \in Holders, NEW b \in Holders,
               \/ \E v \in Values : Approve(a, b, v)
               \/ Blacklist(a, b) \/ Unblacklist(a, b) \/ SetPause(a)
               \/ \E role \in Roles : GrantRole(a, role, b) \/ RevokeRole(a, role, b)
        PROVE  Allowed
    BY <1>7, SameAllowed DEF Approve, Blacklist, Unblacklist, SetPause, GrantRole, RevokeRole
  <1>8. ASSUME NEW sender \in Holders, NEW to \in Holders, NEW v \in Values,
               Mint(sender, to, v)
        PROVE  Allowed
    BY <1>1, <1>8, MintAllowed
  <1>9. CASE HolderStep
    BY <1>2, <1>3, <1>4, <1>5, <1>7, <1>9 DEF HolderStep
  <1>10. CASE RoleStep
    BY <1>4, <1>6, <1>7, <1>10 DEF RoleStep
  <1>11. QED
    BY <1>8, <1>9, <1>10 DEF CoinStep

-----------------------------------------------------------------------------
(* The mint route.                                                         *)

\* Rounding gives a whole number, which is half above the amount at most.
LEMMA Rounding ==
    ASSUME NEW n \in Int
    PROVE  /\ RoundDiv(n, 1000) \in Int /\ RoundDiv(n, 100000) \in Int
           /\ n >= 0 => RoundDiv(n, 1000) >= 0
           /\ 100000 * RoundDiv(n, 100000) <= n + 50000
  BY DEF RoundDiv

\* Products of whole numbers are whole numbers, and of natural numbers natural numbers.
LEMMA Products == \A m, n \in Int : m * n \in Int /\ (m >= 0 /\ n >= 0 => m * n >= 0)
  OBVIOUS

\* Fees and shares are whole numbers, whatever their sign; what a split is paid is not
\* negative.
LEMMA AmountTypes ==
    ASSUME NEW r \in Rules, NEW gross \in Nat
    PROVE  /\ Fee(r, gross) \in Int
           /\ Net(r, gross) = gross - Fee(r, gross)
           /\ \A s \in Recipients :
                 /\ r.share[s] \in Int /\ Fee(r, gross) * r.share[s] \in Int
                 /\ Share(r, gross, s) \in Int /\ Paid(r, gross, s) \in Nat
                 /\ 100000 * Share(r, gross, s) <= Fee(r, gross) * r.share[s] + 50000
  <1>1. /\ r.fee_permille \in Int /\ r.fee_min \in Int /\ r.fee_max \in Int
        /\ \A s \in Recipients : r.share[s] \in Int
    BY DEF Rules
  <1>2. gross * r.fee_permille \in Int
    BY <1>1, Products
  <1>3. RaisedFee(r, gross) \in Int
    BY <1>1, <1>2 DEF RaisedFee
  <1>4. CappedFee(r, gross) \in Int
    BY <1>1, <1>3 DEF CappedFee
  <1>5. Fee(r, gross) \in Int
    BY <1>4, Rounding DEF Fee
  <1>6. \A s \in Recipients : Fee(r, gross) * r.share[s] \in Int
    BY <1>1, <1>5, Products
  <1>7. \A s \in Recipients :
           /\ Share(r, gross, s) \in Int
           /\ 100000 * Share(r, gross, s) <= Fee(r, gross) * r.share[s] + 50000
    BY <1>6, Rounding DEF Share
  <1>8. \A s \in Recipients : Paid(r, gross, s) \in Nat
    BY <1>7 DEF Paid
  <1>9. QED
    BY <1>1, <1>5, <1>6, <1>7, <1>8 DEF Net

\* The fee of a rule with nothing negative in it is not negative.
LEMMA ProperFee ==
    ASSUME NEW r \in Rules, Proper(r), NEW gross \in Nat
    PROVE  Fee(r, gross) \in Nat
  <1>1. /\ r.fee_permille \in Int /\ r.fee_min \in Int /\ r.fee_max \in Int
        /\ r.fee_permille >= 0
    BY DEF Rules, Proper
  <1>2. gross * r.fee_permille \in Int /\ gross * r.fee_permille >= 0
    BY <1>1, Products
  <1>3. RaisedFee(r, gross) \in Int /\ RaisedFee(r, gross) >= 0
    BY <1>1, <1>2 DEF RaisedFee
  <1>4. CappedFee(r, gross) \in Int /\ CappedFee(r, gross) >= 0
    BY <1>1, <1>3 DEF CappedFee
  <1>5. QED
    BY <1>4, Rounding DEF Fee

\* An update of a rule makes a rule, whose splits add up.
LEMMA MergeType ==
    ASSUME NEW r \in SoundRules, NEW updates \in Updates, SplitsValid(updates)
    PROVE  Merge(r, updates) \in SoundRules
  <1>1. Merge(DefaultRule, updates) \in Rules
    BY RulesAssumption
  <1>2. /\ "fee_permille" \in DOMAIN updates => updates["fee_permille"] \in Int
        /\ "fee_min" \in DOMAIN updates => updates["fee_min"] \in Int
        /\ "fee_max" \in DOMAIN updates => updates["fee_max"] \in Int
        /\ "share" \in DOMAIN updates => updates["share"] \in [Recipients -> Int]
    BY <1>1 DEF Merge, Rules, Fields
  <1>3. r \in Rules /\ AddsUp(r.share)
    BY DEF SoundRules
  <1>4. Merge(r, updates) \in Rules
    BY <1>2, <1>3 DEF Merge, Rules, Fields
  <1>5. Merge(r, updates).share = IF "share" \in DOMAIN updates THEN updates["share"] ELSE r.share
    BY <1>3 DEF Merge, Fields, Rules
  <1>6. AddsUp(Merge(r, updates).share)
    BY <1>3, <1>5, Zenon DEF SplitsValid
  <1>7. QED
    BY <1>4, <1>6 DEF SoundRules

\* The default is such a rule.
LEMMA DefaultSound == DefaultRule \in SoundRules
  BY RulesAssumption DEF SoundRules

\* A run of the route goes on; the others stay where they are.
LEMMA RunNext ==
    ASSUME DeskType, NEW q \in Requests, NEW st, NEW w,
           step' = [step EXCEPT ![q] = st], req' = [req EXCEPT ![q] = w],
           CarriesOK(st, w)
    PROVE  /\ step' = [p \in Requests |-> step'[p]]
           /\ req' = [p \in Requests |-> req'[p]]
           /\ \A p \in Requests : CarriesOK(step'[p], req'[p])
  <1>1. /\ step' = [p \in Requests |-> step'[p]]
        /\ req' = [p \in Requests |-> req'[p]]
        /\ step'[q] = st /\ req'[q] = w
        /\ \A p \in Requests \ {q} : step'[p] = step[p] /\ req'[p] = req[p]
    BY DEF DeskType
  <1>2. QED
    BY <1>1 DEF DeskType

\* The same when it carries on with what it had.
LEMMA RunGoesOn ==
    ASSUME DeskType, NEW q \in Requests, NEW st,
           step' = [step EXCEPT ![q] = st], req' = req, CarriesOK(st, req[q])
    PROVE  /\ step' = [p \in Requests |-> step'[p]]
           /\ req' = [p \in Requests |-> req'[p]]
           /\ \A p \in Requests : CarriesOK(step'[p], req'[p])
  <1>1. /\ step' = [p \in Requests |-> step'[p]]
        /\ step'[q] = st
        /\ \A p \in Requests \ {q} : step'[p] = step[p]
    BY DEF DeskType
  <1>2. QED
    BY <1>1 DEF DeskType

\* An editor reads or writes.
LEMMA EditorNext ==
    ASSUME DeskType, NEW e \in Editors, NEW w,
           editing' = [editing EXCEPT ![e] = w], EditsOK(w)
    PROVE  /\ editing' = [d \in Editors |-> editing'[d]]
           /\ \A d \in Editors : EditsOK(editing'[d])
  <1>1. /\ editing' = [d \in Editors |-> editing'[d]]
        /\ editing'[e] = w
        /\ \A d \in Editors \ {e} : editing'[d] = editing[d]
    BY DEF DeskType
  <1>2. QED
    BY <1>1 DEF DeskType

\* Editors of the rule leave rules behind.
LEMMA EditorStepType ==
    ASSUME DeskType, EditorStep
    PROVE  DeskType'
  <1>1. EditsOK(Free) /\ EditsOK([task |-> "seed"])
    BY DEF EditsOK, Free
  <1>2. ASSUME NEW e \in Editors, NEW updates \in Updates, ReadForUpdate(e, updates)
        PROVE  DeskType'
    <2>1. EditsOK([task |-> "update", read |-> rule, updates |-> updates])
      BY <1>2 DEF ReadForUpdate, EditsOK, DeskType
    <2>2. QED
      BY <1>2, <2>1, EditorNext DEF ReadForUpdate, DeskType
  <1>3. ASSUME NEW e \in Editors, WriteUpdate(e)
        PROVE  DeskType'
    <2>0. EditsOK(editing[e]) /\ editing[e].task = "update"
      BY <1>3 DEF WriteUpdate, DeskType
    <2>1. rule' \in SoundRules
      BY <1>3, <2>0, MergeType DEF WriteUpdate, EditsOK
    <2>2. QED
      BY <1>1, <1>3, <2>1, EditorNext DEF WriteUpdate, DeskType
  <1>4. ASSUME NEW e \in Editors, ListEmpty(e)
        PROVE  DeskType'
    BY <1>1, <1>4, EditorNext DEF ListEmpty, DeskType
  <1>5. ASSUME NEW e \in Editors, SeedList(e)
        PROVE  DeskType'
    BY <1>1, <1>5, EditorNext, DefaultSound DEF SeedList, Default, DeskType
  <1>6. QED
    BY <1>2, <1>3, <1>4, <1>5 DEF EditorStep

\* What the treasury sends is of the type of a transaction.
LEMMA SendType ==
    ASSUME DeskType, NEW to \in Holders, NEW amount \in Int, NEW ref \in References,
           (Send(to, amount, ref) /\ amount > 0) \/ UNCHANGED mempool
    PROVE  mempool' \in Seq(Transactions)
  <1>1. PICK t : t = [to |-> to, amount |-> amount, ref |-> ref]
    OBVIOUS
  <1>2. CASE UNCHANGED mempool
    BY <1>2 DEF DeskType
  <1>3. CASE Send(to, amount, ref) /\ amount > 0
    <2>1. t \in Transactions
      BY <1>1, <1>3 DEF Transactions
    <2>2. mempool' = Append(mempool, t)
      BY <1>1, <1>3 DEF Send
    <2>3. QED
      BY <2>1, <2>2 DEF DeskType
  <1>4. QED
    BY <1>2, <1>3

\* The mint route keeps its types.
LEMMA RequestStepType ==
    ASSUME DeskType, RequestStep
    PROVE  DeskType'
  <1>1. ASSUME NEW q \in Requests, NEW ref \in References, Start(q, ref)
        PROVE  DeskType'
    <2>1. PICK st : /\ step' = [step EXCEPT ![q] = st]
                    /\ st = IF rule = NoRule THEN "seeding" ELSE "checking"
      BY <1>1 DEF Start
    <2>2. CarriesOK(st, [ref |-> ref, rule |-> rule, left |-> {}])
      BY <2>1 DEF CarriesOK, DeskType
    <2>3. QED
      BY <1>1, <2>1, <2>2, RunNext DEF Start, DeskType
  <1>2. ASSUME NEW q \in Requests, SeedRule(q)
        PROVE  DeskType'
    <2>1. PICK w : w = [req[q] EXCEPT !.rule = DefaultRule]
      OBVIOUS
    <2>2. req' = [req EXCEPT ![q] = w] /\ step' = [step EXCEPT ![q] = "checking"]
      BY <1>2, <2>1 DEF SeedRule
    <2>3. CarriesOK("seeding", req[q])
      BY <1>2 DEF SeedRule, DeskType
    <2>4. CarriesOK("checking", w)
      BY <2>1, <2>3, DefaultSound DEF CarriesOK
    <2>5. QED
      BY <1>2, <2>2, <2>4, RunNext, DefaultSound DEF SeedRule, Default, DeskType
  <1>3. ASSUME NEW q \in Requests, Check(q) \/ MintRefused(q) \/ Record(q)
        PROVE  DeskType'
    <2>1. PICK st \in {"done", "refused", "minting"} :
             /\ step' = [step EXCEPT ![q] = st]
             /\ st = "minting" => step[q] = "checking"
             /\ st = "done" => step[q] = "recording"
      BY <1>3 DEF Check, MintRefused, Record
    <2>2. CarriesOK(step[q], req[q])
      BY DEF DeskType
    <2>3. CarriesOK(st, req[q])
      BY <2>1, <2>2 DEF CarriesOK
    <2>4. recorded' \subseteq References
      BY <1>3, <2>2 DEF Check, MintRefused, Record, DeskType, CarriesOK
    <2>5. QED
      BY <1>3, <2>1, <2>3, <2>4, RunGoesOn DEF Check, MintRefused, Record, DeskType
  \* The customer's coins.
  <1>4. ASSUME NEW q \in Requests, step[q] = "minting"
        PROVE  /\ req[q].ref \in References /\ NetOf(q) \in Int /\ customer \in Holders
               /\ CarriesOK("splitting", [req[q] EXCEPT !.left = PaidSplits(q)])
               /\ CarriesOK("recording", [req[q] EXCEPT !.left = PaidSplits(q)])
    <2>1. CarriesOK("minting", req[q])
      BY <1>4 DEF DeskType
    <2>2. /\ req[q].ref \in References /\ req[q].rule \in SoundRules /\ req[q].rule \in Rules
          /\ Gross[req[q].ref] \in Nat
      BY <2>1, ReferencesAssumption DEF CarriesOK, SoundRules
    <2>3. NetOf(q) \in Int
      BY <2>2, AmountTypes DEF NetOf
    <2>4. \A s \in PaidSplits(q) : s \in Recipients /\ WalletOf[s] # NoWallet
      BY DEF PaidSplits
    <2>5. QED
      BY <2>2, <2>3, <2>4, ReferencesAssumption DEF CarriesOK
  <1>5. ASSUME NEW q \in Requests, MintUser(q)
        PROVE  DeskType'
    <2>1. mempool' \in Seq(Transactions)
      BY <1>4, <1>5, SendType DEF MintUser, CanMint
    <2>2. PICK w : w = [req[q] EXCEPT !.left = PaidSplits(q)]
      OBVIOUS
    <2>3. PICK st \in {"recording", "splitting"} :
             step' = [step EXCEPT ![q] = st] /\ req' = [req EXCEPT ![q] = w]
      BY <1>5, <2>2 DEF MintUser
    <2>4. CarriesOK(st, w)
      BY <1>4, <1>5, <2>2, <2>3 DEF MintUser
    <2>5. QED
      BY <1>5, <2>1, <2>3, <2>4, RunNext DEF MintUser, DeskType
  <1>6. ASSUME NEW q \in Requests, NEW s \in Recipients, MintSplit(q, s)
        PROVE  DeskType'
    <2>1. CarriesOK("splitting", req[q]) /\ s \in req[q].left
      BY <1>6 DEF MintSplit, DeskType
    <2>2. /\ req[q].ref \in References /\ req[q].rule \in SoundRules /\ req[q].rule \in Rules
          /\ WalletOf[s] \in Holders /\ Gross[req[q].ref] \in Nat /\ s \in Recipients
      BY <2>1, ReferencesAssumption DEF CarriesOK, SoundRules
    <2>3. Share(req[q].rule, Gross[req[q].ref], s) \in Int
      BY <2>2, AmountTypes
    <2>4. mempool' \in Seq(Transactions)
      BY <1>6, <2>2, <2>3, SendType DEF MintSplit, CanMint
    <2>5. PICK w : w = [req[q] EXCEPT !.left = req[q].left \ {s}]
      OBVIOUS
    <2>6. PICK st \in {"recording", "splitting"} :
             step' = [step EXCEPT ![q] = st] /\ req' = [req EXCEPT ![q] = w]
      BY <1>6, <2>5 DEF MintSplit
    <2>7. CarriesOK(st, w)
      BY <2>1, <2>5, <2>6 DEF CarriesOK
    <2>8. QED
      BY <1>6, <2>4, <2>6, <2>7, RunNext DEF MintSplit, DeskType
  <1>7. ASSUME NEW q \in Requests, StopAfterMint(q) \/ MintAnswerLost(q)
        PROVE  DeskType'
    <2>1. mempool' \in Seq(Transactions)
      BY <1>4, <1>7, SendType DEF StopAfterMint, MintAnswerLost, CanMint, DeskType
    <2>2. CarriesOK("done", req[q])
      BY <1>7 DEF CarriesOK, DeskType, StopAfterMint, MintAnswerLost
    <2>3. QED
      BY <1>7, <2>1, <2>2, RunGoesOn DEF StopAfterMint, MintAnswerLost, Stopped, DeskType
  <1>8. QED
    BY <1>1, <1>2, <1>3, <1>5, <1>6, <1>7 DEF RequestStep

-----------------------------------------------------------------------------
(* The composition.                                                        *)

\* No coin, no rule and no request: well typed and within the cap.
LEMMA TypeInit == CoinInit /\ DeskInit => TypeInv /\ SupplyWithinCap
  <1> SUFFICES ASSUME CoinInit, DeskInit
               PROVE  TypeInv /\ SupplyWithinCap
    OBVIOUS
  <1>1. CoinType /\ SupplyWithinCap
    BY NumbersAssumption DEF CoinInit, CoinType, SupplyWithinCap
  <1>2. DeskType
    BY DEF DeskInit, DeskType, EditsOK, CarriesOK, Free
  <1>3. QED
    BY <1>1, <1>2 DEF TypeInv

\* The contract only does what is allowed, and the treasury's transactions and
\* the routes keep their types.
LEMMA InvNext ==
    ASSUME TypeInv, [Next]_vars
    PROVE  Allowed /\ DeskType'
  <1>1. CoinType /\ DeskType
    BY DEF TypeInv
  <1>2. ASSUME EditorStep \/ RequestStep, UNCHANGED coinVars
        PROVE  Allowed /\ DeskType'
    BY <1>1, <1>2, SameAllowed, EditorStepType, RequestStepType DEF coinVars
  <1>3. ASSUME CoinStep, UNCHANGED deskVars
        PROVE  Allowed /\ DeskType'
    BY <1>1, <1>3, CoinStepAllowed DEF deskVars, DeskType
  <1>4. ASSUME mempool # <<>>
        PROVE  /\ Next1.to \in Holders /\ Next1.amount \in Nat /\ Next1.ref \in References
               /\ Tail(mempool) \in Seq(Transactions)
    <2>1. Head(mempool) \in Transactions /\ Tail(mempool) \in Seq(Transactions)
      BY <1>1, <1>4 DEF DeskType
    <2>2. QED
      BY <2>1 DEF Next1, Transactions
  <1>5. CASE Mined
    <2>1. Allowed
      BY <1>1, <1>4, <1>5, MintAllowed DEF Mined
    <2>2. minted' \in [References -> Nat]
      <3>1. minted' = [minted EXCEPT ![Next1.ref] = minted[Next1.ref] + Next1.amount]
        BY <1>5 DEF Mined
      <3>2. minted \in [References -> Nat]
        BY <1>1 DEF DeskType
      <3>3. QED
        BY <1>4, <1>5, <3>1, <3>2 DEF Mined
    <2>3. QED
      BY <1>1, <1>4, <1>5, <2>1, <2>2 DEF Mined, DeskType
  <1>6. CASE Reverted
    BY <1>1, <1>4, <1>6, SameAllowed DEF Reverted, coinVars, DeskType
  <1>7. CASE UNCHANGED vars
    BY <1>1, <1>7, SameAllowed DEF vars, coinVars, deskVars, DeskType
  <1>8. QED
    BY <1>2, <1>3, <1>5, <1>6, <1>7 DEF Next

\* Types are inductive.
LEMMA TypeNext == TypeInv /\ [Next]_vars => TypeInv'
  BY InvNext DEF Allowed, TypeInv

\* No sequence of mints, burns and changes of the cap takes the supply over the
\* cap that is in force, for any holders, roles and amounts (MondegaCoin.sol
\* lines 139-155 and 179-185).
THEOREM SupplyCapped == Spec => []SupplyWithinCap
  <1>1. CoinInit /\ DeskInit => TypeInv /\ SupplyWithinCap
    BY TypeInit
  <1>2. TypeInv /\ SupplyWithinCap /\ [Next]_vars => (TypeInv /\ SupplyWithinCap)'
    BY InvNext DEF Allowed, TypeInv
  <1>3. QED
    BY <1>1, <1>2, PTL DEF Spec

\* Nobody, the treasury and the holder of an allowance included, changes the
\* balance of a blacklisted address, or any balance while the contract is
\* paused (MondegaCoin.sol lines 93-106).
THEOREM FrozenKept == Spec => FrozenBalances
  <1>1. CoinInit /\ DeskInit => TypeInv
    BY TypeInit
  <1>2. TypeInv /\ [Next]_vars => TypeInv'
    BY TypeNext
  <1>3. TypeInv /\ [Next]_vars =>
           [\A a \in Holders : a \in blacklisted \/ paused => balance'[a] = balance[a]]_balance
    BY InvNext DEF Allowed
  <1>4. QED
    BY <1>1, <1>2, <1>3, PTL DEF Spec, FrozenBalances

-----------------------------------------------------------------------------
(* What a reference has issued.                                            *)

\* The coins of a reference in a sequence of transactions, one by one and in all.
CoinsOf(pool, ref) == [i \in DOMAIN pool |-> IF pool[i].ref = ref THEN pool[i].amount ELSE 0]
PoolSum(pool, ref) == SumFunctionOnSet(CoinsOf(pool, ref), DOMAIN pool)

LEMMA IssuedIs == \A ref : Issued(ref) = minted[ref] + PoolSum(mempool, ref)
  BY DEF Issued, Accepted, PoolSum, CoinsOf

\* Each transaction carries a natural number of coins.
LEMMA CoinsType ==
    ASSUME NEW pool \in Seq(Transactions), NEW ref
    PROVE  /\ DOMAIN pool = 1..Len(pool) /\ Len(pool) \in Nat /\ IsFiniteSet(1..Len(pool))
           /\ \A i \in 1..Len(pool) : CoinsOf(pool, ref)[i] \in Nat
  <1>1. DOMAIN pool = 1..Len(pool) /\ Len(pool) \in Nat
    BY LenProperties
  <1>2. IsFiniteSet(1..Len(pool))
    BY <1>1, FS_Interval
  <1>3. ASSUME NEW i \in 1..Len(pool) PROVE CoinsOf(pool, ref)[i] \in Nat
    <2>1. pool[i] \in Transactions
      BY ElementOfSeq
    <2>2. pool[i].amount \in Nat
      BY <2>1 DEF Transactions
    <2>3. QED
      BY <1>1, <2>2 DEF CoinsOf
  <1>4. QED
    BY <1>1, <1>2, <1>3

\* The coins in a pool are a natural number.
LEMMA PoolNat ==
    ASSUME NEW pool \in Seq(Transactions), NEW ref
    PROVE  PoolSum(pool, ref) \in Nat
  BY CoinsType, SumNat, Zenon DEF PoolSum

\* A transaction that is appended adds its coins to those of its reference.
LEMMA PoolAppend ==
    ASSUME NEW pool \in Seq(Transactions), NEW t \in Transactions, NEW ref
    PROVE  PoolSum(Append(pool, t), ref)
              = PoolSum(pool, ref) + (IF t.ref = ref THEN t.amount ELSE 0)
  <1> DEFINE F == CoinsOf(pool, ref)
             G == CoinsOf(Append(pool, t), ref)
             n == Len(pool)
  <1>1. /\ DOMAIN pool = 1..n /\ n \in Nat /\ IsFiniteSet(1..n)
        /\ \A i \in 1..n : F[i] \in Nat
    BY CoinsType
  <1>2. /\ Append(pool, t) \in Seq(Transactions) /\ Len(Append(pool, t)) = n + 1
        /\ \A i \in 1..n : Append(pool, t)[i] = pool[i]
        /\ Append(pool, t)[n + 1] = t
    BY AppendProperties
  <1>3. /\ DOMAIN Append(pool, t) = 1..(n + 1)
        /\ \A i \in 1..(n + 1) : G[i] \in Nat
    BY <1>2, CoinsType
  <1>4. G[n + 1] = IF t.ref = ref THEN t.amount ELSE 0
    BY <1>1, <1>2, <1>3 DEF CoinsOf
  <1>5. \A i \in 1..n : G[i] = F[i]
    BY <1>1, <1>2, <1>3 DEF CoinsOf
  <1>6. SumFunctionOnSet(G, 1..(n + 1)) = SumFunctionOnSet(F, 1..n) + G[n + 1]
    <2>1. PICK m \in Nat : m = n
      BY <1>1
    <2>2. /\ \A i \in 1..m : F[i] \in Int
          /\ G[m + 1] \in Int /\ \A i \in 1..m : G[i] = F[i]
      BY <1>1, <1>3, <1>5, <2>1
    <2> HIDE DEF F, G
    <2>3. SumFunctionOnSet(G, 1..(m + 1)) = SumFunctionOnSet(F, 1..m) + G[m + 1]
      BY <2>2, SumNext
    <2>4. QED
      BY <2>1, <2>3
  <1>7. QED
    BY <1>1, <1>3, <1>4, <1>6, Zenon DEF PoolSum

\* The first transaction takes its coins with it.
LEMMA PoolTail ==
    ASSUME NEW pool \in Seq(Transactions), pool # <<>>, NEW ref
    PROVE  PoolSum(Tail(pool), ref)
              = PoolSum(pool, ref) - (IF Head(pool).ref = ref THEN Head(pool).amount ELSE 0)
  <1> DEFINE F == CoinsOf(pool, ref)
             G == CoinsOf(Tail(pool), ref)
             n == Len(Tail(pool))
  <1>1. /\ Tail(pool) \in Seq(Transactions) /\ Len(pool) = n + 1 /\ n \in Nat
        /\ \A i \in 1..n : Tail(pool)[i] = pool[i + 1]
        /\ Head(pool) = pool[1]
    <2>1. /\ Tail(pool) \in Seq(Transactions) /\ Len(Tail(pool)) = Len(pool) - 1
          /\ \A i \in 1..Len(Tail(pool)) : Tail(pool)[i] = pool[i + 1]
          /\ Head(pool) = pool[1]
      BY HeadTailProperties
    <2>2. Len(pool) \in Nat /\ Len(Tail(pool)) \in Nat
      BY <2>1, LenProperties
    <2>3. QED
      BY <2>1, <2>2
  <1>2. /\ DOMAIN pool = 1..(n + 1) /\ \A i \in 1..(n + 1) : F[i] \in Nat
    BY <1>1, CoinsType
  <1>3. DOMAIN Tail(pool) = 1..n
    BY <1>1, CoinsType
  <1>4. \A i \in 1..n : G[i] = F[i + 1]
    BY <1>1, <1>2, <1>3 DEF CoinsOf
  <1>5. F[1] = IF Head(pool).ref = ref THEN Head(pool).amount ELSE 0
    BY <1>1, <1>2 DEF CoinsOf
  <1>6. SumFunctionOnSet(G, 1..n) = SumFunctionOnSet(F, 1..(n + 1)) - F[1]
    <2>1. PICK m \in Nat : m = n
      BY <1>1
    <2>2. (\A i \in 1..(m + 1) : F[i] \in Int) /\ \A i \in 1..m : G[i] = F[i + 1]
      BY <1>2, <1>4, <2>1
    <2> HIDE DEF F, G
    <2>3. SumFunctionOnSet(G, 1..m) = SumFunctionOnSet(F, 1..(m + 1)) - F[1]
      BY <2>2, SumShift
    <2>4. QED
      BY <2>1, <2>3
  <1>7. QED
    BY <1>2, <1>3, <1>5, <1>6, Zenon DEF PoolSum

-----------------------------------------------------------------------------
(* What a rule makes of a deposit.                                         *)

\* What splits are paid is a natural number.
LEMMA PaidNat ==
    ASSUME NEW r \in SoundRules, NEW gross \in Nat, NEW left \in SUBSET Recipients
    PROVE  /\ IsFiniteSet(left)
           /\ \A s \in Recipients : PaidBy(r, gross)[s] = Paid(r, gross, s)
           /\ \A s \in Recipients : PaidBy(r, gross)[s] \in Nat
           /\ SumFunctionOnSet(PaidBy(r, gross), left) \in Nat
  <1>1. IsFiniteSet(left)
    BY ReferencesAssumption, FS_Subset
  <1>2. \A s \in Recipients : PaidBy(r, gross)[s] = Paid(r, gross, s)
    BY DEF PaidBy
  <1>3. r \in Rules /\ \A s \in Recipients : Paid(r, gross, s) \in Nat
    BY AmountTypes DEF SoundRules
  <1>4. \A s \in Recipients : PaidBy(r, gross)[s] \in Nat
    BY <1>2, <1>3
  <1>5. SumFunctionOnSet(PaidBy(r, gross), left) \in Nat
    BY <1>1, <1>4, SumNat
  <1>6. QED
    BY <1>1, <1>2, <1>4, <1>5

\* What a rule makes of a deposit is a whole number.
LEMMA LegsInt ==
    ASSUME NEW r \in SoundRules, NEW gross \in Nat
    PROVE  Legs(r, gross) \in Int
  <1>1. Payees \in SUBSET Recipients /\ r \in Rules
    BY DEF Payees, SoundRules
  <1>2. Fee(r, gross) \in Int /\ Net(r, gross) = gross - Fee(r, gross)
    BY <1>1, AmountTypes
  <1>3. SumFunctionOnSet(PaidBy(r, gross), Payees) \in Nat
    BY <1>1, PaidNat
  <1>4. QED
    BY <1>2, <1>3 DEF Legs

\* The slack is a whole number.
LEMMA SlackInt ==
    ASSUME NEW r \in SoundRules, NEW gross \in Nat
    PROVE  gross + Slack(r, gross) \in Int
  <1>1. Fee(r, gross) \in Int
    BY AmountTypes DEF SoundRules
  <1>2. Cardinality(Recipients) \in Nat
    BY ReferencesAssumption, FS_CardinalityType
  <1>3. QED
    BY <1>1, <1>2 DEF Slack

\* A rule without anything negative gives away no more than the deposit, half a cent
\* for each split and what its splits exceed the fee.
LEMMA ProperLegs ==
    ASSUME NEW r \in SoundRules, Proper(r), NEW gross \in Nat
    PROVE  Legs(r, gross) <= gross + Slack(r, gross)
  <1> DEFINE fee == Fee(r, gross)
             F == PaidBy(r, gross)
             A == [s \in Recipients |-> fee * r.share[s]]
             C == [s \in Recipients |-> 50000]
             H == [s \in Recipients |-> fee * r.share[s] + 50000]
             G == [s \in Recipients |-> 100000 * F[s]]
             n == Cardinality(Recipients)
  <1>0. r \in Rules /\ ShareSum(r.share) - 100000 \in -9..9
    BY DEF SoundRules, AddsUp
  <1>1. /\ IsFiniteSet(Recipients) /\ n \in Nat
        /\ Payees \in SUBSET Recipients /\ Recipients \in SUBSET Recipients
    BY ReferencesAssumption, FS_CardinalityType DEF Payees
  <1>2. /\ fee \in Nat /\ Net(r, gross) = gross - fee
        /\ \A s \in Recipients :
              /\ r.share[s] \in Int /\ fee * r.share[s] \in Nat
              /\ F[s] \in Nat /\ 100000 * F[s] <= fee * r.share[s] + 50000
    <2>1. fee \in Nat /\ Net(r, gross) = gross - fee
      BY <1>0, AmountTypes, ProperFee
    <2>2. ASSUME NEW s \in Recipients
          PROVE  /\ r.share[s] \in Int /\ fee * r.share[s] \in Nat
                 /\ F[s] \in Nat /\ 100000 * F[s] <= fee * r.share[s] + 50000
      <3>1. /\ r.share[s] \in Int /\ Share(r, gross, s) \in Int
            /\ 100000 * Share(r, gross, s) <= fee * r.share[s] + 50000
        BY <1>0, AmountTypes
      <3>2. fee * r.share[s] \in Nat
        BY <2>1, <3>1, Products DEF Proper
      <3>3. F[s] = Paid(r, gross, s)
        BY PaidNat, <1>1
      <3>4. QED
        BY <3>1, <3>2, <3>3 DEF Paid
    <2>3. QED
      BY <2>1, <2>2
  <1>3. /\ \A s \in Recipients : A[s] = fee * r.share[s] /\ A[s] \in Nat
        /\ \A s \in Recipients : C[s] = 50000
        /\ \A s \in Recipients : H[s] = A[s] + C[s] /\ H[s] \in Nat
        /\ \A s \in Recipients : G[s] = 100000 * F[s] /\ G[s] \in Nat /\ G[s] <= H[s]
    BY <1>2
  <1>4. SumFunctionOnSet(F, Recipients) \in Nat /\ SumFunctionOnSet(F, Payees) \in Nat
    BY <1>1, PaidNat
  <1>5. SumFunctionOnSet(F, Payees) <= SumFunctionOnSet(F, Recipients)
    BY <1>1, <1>2, SumPart
  <1> HIDE DEF fee, A, C, H, G, F, n
  <1>6. SumFunctionOnSet(G, Recipients) = 100000 * SumFunctionOnSet(F, Recipients)
    <2>1. PICK k \in Int : k = 100000
      OBVIOUS
    <2>2. \A s \in Recipients : F[s] \in Int /\ G[s] = k * F[s]
      BY <1>2, <1>3, <2>1
    <2>3. SumFunctionOnSet(G, Recipients) = k * SumFunctionOnSet(F, Recipients)
      BY <1>1, <2>2, SumTimes
    <2>4. QED
      BY <2>1, <2>3
  <1>7. SumFunctionOnSet(A, Recipients) \in Nat /\ SumFunctionOnSet(A, Recipients) <= 100009 * fee
    <2>1. PICK share : share = r.share
      OBVIOUS
    <2>2. fee \in Int /\ \A s \in Recipients : share[s] \in Int /\ A[s] = fee * share[s]
      BY <1>2, <1>3, <2>1
    <2>3. SumFunctionOnSet(A, Recipients) = fee * SumFunctionOnSet(share, Recipients)
      BY <1>1, <2>2, SumTimes
    <2>4. SumFunctionOnSet(share, Recipients) = ShareSum(r.share)
      BY <2>1 DEF ShareSum
    <2>5. PICK d \in Nat : SumFunctionOnSet(share, Recipients) = 100009 - d
      BY <1>0, <2>4
    <2>6. fee * d \in Nat /\ fee * (100009 - d) = 100009 * fee - fee * d
      BY <1>2, Products
    <2>7. SumFunctionOnSet(A, Recipients) \in Nat
      BY <1>1, <1>3, SumNat
    <2>8. QED
      BY <1>2, <2>3, <2>5, <2>6, <2>7
  <1>8. SumFunctionOnSet(C, Recipients) \in Int /\ SumFunctionOnSet(C, Recipients) <= 50000 * n
    <2>1. PICK c \in Int : c = 50000
      OBVIOUS
    <2>2. \A s \in Recipients : C[s] \in Int /\ C[s] <= c
      BY <1>3, <2>1
    <2>3. SumFunctionOnSet(C, Recipients) <= c * Cardinality(Recipients)
      BY <1>1, <2>2, SumBound
    <2>4. SumFunctionOnSet(C, Recipients) \in Int
      BY <1>1, <2>2, SumInt
    <2>5. QED
      BY <2>1, <2>3, <2>4 DEF n
  <1>9. SumFunctionOnSet(H, Recipients) = SumFunctionOnSet(A, Recipients) + SumFunctionOnSet(C, Recipients)
    <2>1. /\ \A s \in Recipients : A[s] \in Int
          /\ \A s \in Recipients : C[s] \in Int
          /\ \A s \in Recipients : H[s] = A[s] + C[s]
      BY <1>3
    <2>2. QED
      BY <1>1, <2>1, SumPlus
  <1>10. SumFunctionOnSet(G, Recipients) <= SumFunctionOnSet(H, Recipients)
    <2>1. (\A s \in Recipients : G[s] \in Int) /\ \A s \in Recipients : H[s] \in Int /\ G[s] <= H[s]
      BY <1>3
    <2>2. QED
      BY <1>1, <2>1, SumAtMost
  <1>11. 100000 * SumFunctionOnSet(F, Payees) <= 100009 * fee + 50000 * n
    BY <1>1, <1>2, <1>4, <1>5, <1>6, <1>7, <1>8, <1>9, <1>10
  <1>12. SumFunctionOnSet(F, Payees) <= fee + (50000 * n + 10 * fee) \div 100000
    BY <1>1, <1>2, <1>4, <1>11
  <1>13. /\ Legs(r, gross) = gross - fee + SumFunctionOnSet(F, Payees)
         /\ Slack(r, gross) = (50000 * n + 10 * fee) \div 100000
    BY <1>2 DEF Legs, Slack, F, fee, n
  <1>14. QED
    BY <1>1, <1>2, <1>4, <1>12, <1>13

-----------------------------------------------------------------------------
(* What was deposited covers what is issued, and what is recorded was      *)
(* issued.                                                                 *)

\* The runs that have passed the look-up of a reference.
PastCheck == {"minting", "splitting", "recording"}
Past(ref) == {q \in Requests : step[q] \in PastCheck /\ req[q].ref = ref}

Running == PastCheck \cup {"done"}

\* What a run makes of the deposit, and what its splits still have coming.
LegsOf(w) == Legs(w.rule, Gross[w.ref])
DueBy(w) == SumFunctionOnSet(PaidBy(w.rule, Gross[w.ref]), w.left)

Clean(ref) == <<"overlap", ref>> \notin marks /\ <<"stopped", ref>> \notin marks

\* At most one run mints for the reference; what it still has to mint, with
\* what it has minted, is covered.
Covered(ref) ==
    /\ Past(ref) = {} /\ ref \notin recorded => Issued(ref) = 0
    /\ Past(ref) # {} => ref \notin recorded
    /\ \A p, q \in Past(ref) : p = q
    /\ \A q \in Past(ref) : step[q] = "minting" => Issued(ref) = 0
    /\ \A q \in Past(ref) :
          step[q] = "splitting" => Issued(ref) + DueBy(req[q]) <= LegsOf(req[q])
    /\ Issued(ref) = 0 \/ \E q \in Ran(ref) : Issued(ref) <= LegsOf(req[q])

\* A run that is past its first mint leaves coins, or a transaction that reverted.
Leaves(ref) ==
    ref \in recorded \/ (\E q \in Past(ref) : step[q] # "minting") =>
        Issued(ref) > 0 \/ <<"reverted", ref>> \in marks

RefInv(ref) == (Clean(ref) => Covered(ref)) /\ Leaves(ref)

MintInv == \A ref \in References : RefInv(ref)

\* A step that has nothing to do with a reference, or takes coins from it.
Apart(ref) ==
    \A q \in Requests :
       \/ step[q] \in Running /\ req[q].ref = ref
       \/ step'[q] \in Running /\ req'[q].ref = ref
       => step'[q] = step[q] /\ req'[q] = req[q]

Books(ref) ==
    /\ ref \in recorded' <=> ref \in recorded
    /\ marks \subseteq marks'
    /\ Issued(ref)' <= Issued(ref)
    /\ Issued(ref)' = Issued(ref) \/ <<"reverted", ref>> \in marks'

LEMMA ApartKept ==
    ASSUME DeskType, NEW ref \in References, Issued(ref) \in Nat, Issued(ref)' \in Nat,
           Apart(ref), Books(ref), RefInv(ref)
    PROVE  RefInv(ref)'
  <1>1. /\ Past(ref)' = Past(ref) /\ Ran(ref)' = Ran(ref)
        /\ \A q \in Past(ref) : step'[q] = step[q] /\ req'[q] = req[q]
        /\ \A q \in Ran(ref) : req'[q] = req[q]
    BY DEF Apart, Past, Ran, Running, PastCheck
  <1>2. Clean(ref)' => Clean(ref)
    BY DEF Books, Clean
  <1>3. /\ \A q \in Past(ref) : DueBy(req[q])' = DueBy(req[q])
        /\ \A q \in Past(ref) \cup Ran(ref) : LegsOf(req[q])' = LegsOf(req[q])
    BY <1>1 DEF DueBy, LegsOf
  <1>4. \A q \in Past(ref) \cup Ran(ref) : step[q] # "splitting" \/ DueBy(req[q]) \in Int
    <2> SUFFICES ASSUME NEW q \in Past(ref) \cup Ran(ref), step[q] = "splitting"
                 PROVE  DueBy(req[q]) \in Int
      OBVIOUS
    <2>1. CarriesOK("splitting", req[q])
      BY DEF DeskType, Past, Ran
    <2>2. req[q].left \in SUBSET Recipients /\ req[q].rule \in SoundRules /\ Gross[req[q].ref] \in Nat
      BY <2>1, ReferencesAssumption DEF CarriesOK
    <2>3. QED
      BY <2>2, PaidNat DEF DueBy
  <1>5. \A q \in Ran(ref) : LegsOf(req[q]) \in Int
    <2> SUFFICES ASSUME NEW q \in Ran(ref)
                 PROVE  LegsOf(req[q]) \in Int
      OBVIOUS
    <2>1. CarriesOK(step[q], req[q]) /\ step[q] \notin {"idle", "refused", "seeding"}
      BY DEF DeskType, Ran
    <2>2. req[q].rule \in SoundRules /\ Gross[req[q].ref] \in Nat
      BY <2>1, ReferencesAssumption DEF CarriesOK
    <2>3. QED
      BY <2>2, LegsInt DEF LegsOf
  <1>6. Covered(ref) => Covered(ref)'
    <2> SUFFICES ASSUME Covered(ref) PROVE Covered(ref)'
      OBVIOUS
    <2>1. Past(ref) \subseteq Ran(ref)
      BY DEF Past, Ran, PastCheck
    <2>2. /\ Past(ref)' = {} /\ ref \notin recorded' => Issued(ref)' = 0
          /\ Past(ref)' # {} => ref \notin recorded'
          /\ \A p, q \in Past(ref)' : p = q
          /\ \A q \in Past(ref)' : step'[q] = "minting" => Issued(ref)' = 0
      BY <1>1 DEF Covered, Books
    <2>3. ASSUME NEW q \in Past(ref), step[q] = "splitting"
          PROVE  Issued(ref)' + DueBy(req[q]) <= LegsOf(req[q])
      <3>1. DueBy(req[q]) \in Int /\ LegsOf(req[q]) \in Int
        BY <1>4, <1>5, <2>1, <2>3
      <3>2. Issued(ref) + DueBy(req[q]) <= LegsOf(req[q]) /\ Issued(ref)' <= Issued(ref)
        BY <2>3 DEF Covered, Books
      <3>3. QED
        BY <3>1, <3>2
    <2>4. Issued(ref)' = 0 \/ \E q \in Ran(ref) : Issued(ref)' <= LegsOf(req[q])
      <3>1. Issued(ref) = 0 => Issued(ref)' = 0
        BY DEF Books
      <3>2. ASSUME NEW q \in Ran(ref), Issued(ref) <= LegsOf(req[q])
            PROVE  Issued(ref)' <= LegsOf(req[q])
        BY <1>5, <3>2 DEF Books
      <3>3. QED
        BY <3>1, <3>2 DEF Covered
    <2>5. \A q \in Past(ref)' : step'[q] = "splitting" => Issued(ref)' + DueBy(req[q])' <= LegsOf(req[q])'
      BY <1>1, <1>3, <2>3
    <2>6. Issued(ref)' = 0 \/ \E q \in Ran(ref)' : Issued(ref)' <= LegsOf(req[q])'
      BY <1>1, <1>3, <2>4
    <2>7. QED
      BY <2>2, <2>5, <2>6 DEF Covered
  <1>7. Leaves(ref) => Leaves(ref)'
    BY <1>1 DEF Leaves, Books
  <1>8. QED
    BY <1>2, <1>6, <1>7 DEF RefInv

\* What the books of a reference become.
LEMMA IssuedNat ==
    ASSUME DeskType, NEW ref \in References
    PROVE  Issued(ref) \in Nat
  <1>1. mempool \in Seq(Transactions) /\ minted[ref] \in Nat
    BY DEF DeskType
  <1>2. PoolSum(mempool, ref) \in Nat
    BY <1>1, PoolNat
  <1>3. QED
    BY <1>1, <1>2, IssuedIs

LEMMA IssuedNext == \A ref : Issued(ref)' = minted'[ref] + PoolSum(mempool', ref)
  BY DEF Issued, Accepted, PoolSum, CoinsOf

LEMMA IssuedSame ==
    ASSUME UNCHANGED <<mempool, minted>>
    PROVE  \A ref : Issued(ref)' = Issued(ref)
  BY IssuedIs, IssuedNext

LEMMA IssuedSent ==
    ASSUME DeskType, NEW to \in Holders, NEW amount \in Int, amount > 0,
           NEW r \in References, Send(to, amount, r), UNCHANGED minted
    PROVE  \A ref \in References :
              Issued(ref)' = Issued(ref) + (IF r = ref THEN amount ELSE 0)
  <1>1. PICK t : t = [to |-> to, amount |-> amount, ref |-> r]
    OBVIOUS
  <1>2. t \in Transactions /\ t.ref = r /\ t.amount = amount
    BY <1>1 DEF Transactions
  <1>3. mempool' = Append(mempool, t)
    BY <1>1 DEF Send
  <1>4. mempool \in Seq(Transactions)
    BY DEF DeskType
  <1>5. ASSUME NEW ref \in References
        PROVE  Issued(ref)' = Issued(ref) + (IF r = ref THEN amount ELSE 0)
    <2>1. PoolSum(mempool', ref) = PoolSum(mempool, ref) + (IF t.ref = ref THEN t.amount ELSE 0)
      BY <1>2, <1>3, <1>4, PoolAppend
    <2>2. PoolSum(mempool, ref) \in Nat /\ minted[ref] \in Nat
      BY <1>4, PoolNat DEF DeskType
    <2>3. Issued(ref) = minted[ref] + PoolSum(mempool, ref)
      BY IssuedIs
    <2>4. Issued(ref)' = minted[ref] + PoolSum(mempool', ref)
      BY IssuedNext
    <2>5. QED
      BY <1>2, <2>1, <2>2, <2>3, <2>4
  <1>6. QED
    BY <1>5

LEMMA IssuedNatNext ==
    ASSUME DeskType', NEW ref \in References
    PROVE  Issued(ref)' \in Nat
  <1>1. mempool' \in Seq(Transactions) /\ minted'[ref] \in Nat
    BY DEF DeskType
  <1>2. PoolSum(mempool', ref) \in Nat
    BY <1>1, PoolNat
  <1>3. QED
    BY <1>1, <1>2, IssuedNext

\* A run of the route moves and the others do not.
LEMMA RunMoved ==
    ASSUME DeskType, NEW q \in Requests, NEW st, NEW w,
           step' = [step EXCEPT ![q] = st], req' = [req EXCEPT ![q] = w]
    PROVE  /\ step'[q] = st /\ req'[q] = w
           /\ \A p \in Requests \ {q} : step'[p] = step[p] /\ req'[p] = req[p]
           /\ \A ref :
                 (step[q] \in Running => req[q].ref # ref) /\ (st \in Running => w.ref # ref)
                    => Apart(ref)
           /\ \A ref : st \in PastCheck /\ w.ref = ref => Past(ref)' = Past(ref) \cup {q}
           /\ \A ref : st \notin PastCheck => Past(ref)' = Past(ref) \ {q}
  <1>1. /\ step'[q] = st /\ req'[q] = w
        /\ \A p \in Requests \ {q} : step'[p] = step[p] /\ req'[p] = req[p]
    BY DEF DeskType
  <1>2. QED
    BY <1>1 DEF Apart, Past

\* The same when it carries on with what it had.
LEMMA RunStepped ==
    ASSUME DeskType, NEW q \in Requests, NEW st,
           step' = [step EXCEPT ![q] = st], req' = req
    PROVE  /\ step'[q] = st
           /\ \A p \in Requests \ {q} : step'[p] = step[p]
           /\ \A ref :
                 (step[q] \in Running => req[q].ref # ref) /\ (st \in Running => req[q].ref # ref)
                    => Apart(ref)
           /\ \A ref : st \in PastCheck /\ req[q].ref = ref => Past(ref)' = Past(ref) \cup {q}
           /\ \A ref : st \notin PastCheck => Past(ref)' = Past(ref) \ {q}
  <1>1. /\ step'[q] = st
        /\ \A p \in Requests \ {q} : step'[p] = step[p]
    BY DEF DeskType
  <1>2. QED
    BY <1>1 DEF Apart, Past

\* Before the look-up a run has nothing to do with its reference.
LEMMA StartKept ==
    ASSUME DeskType, DeskType', MintInv, NEW q \in Requests,
           SeedRule(q) \/ \E ref \in References : Start(q, ref)
    PROVE  MintInv'
  <1>1. \A ref : Apart(ref)
    <2>1. CASE SeedRule(q)
      <3>1. PICK w : w = [req[q] EXCEPT !.rule = DefaultRule]
        OBVIOUS
      <3>2. /\ step[q] = "seeding"
            /\ step' = [step EXCEPT ![q] = "checking"]
            /\ req' = [req EXCEPT ![q] = w]
        BY <2>1, <3>1 DEF SeedRule
      <3>3. QED
        BY <3>2, RunMoved DEF PastCheck, Running
    <2>2. CASE \E ref \in References : Start(q, ref)
      <3>1. PICK ref \in References : Start(q, ref)
        BY <2>2
      <3>2. PICK w : w = [ref |-> ref, rule |-> rule, left |-> {}]
        OBVIOUS
      <3>3. PICK st \in {"seeding", "checking"} : step' = [step EXCEPT ![q] = st]
        BY <3>1 DEF Start
      <3>4. step[q] = "idle" /\ req' = [req EXCEPT ![q] = w]
        BY <3>1, <3>2 DEF Start
      <3>5. QED
        BY <3>3, <3>4, RunMoved DEF PastCheck, Running
    <2>3. QED
      BY <2>1, <2>2
  <1>2. UNCHANGED <<mempool, minted, recorded, marks>>
    BY DEF SeedRule, Start
  <1>3. ASSUME NEW ref \in References
        PROVE  RefInv(ref)'
    <2>1. Apart(ref)
      BY <1>1
    <2>2. Issued(ref) \in Nat /\ Issued(ref)' \in Nat
      BY IssuedNat, IssuedNatNext
    <2>3. Issued(ref)' = Issued(ref)
      BY <1>2, IssuedSame
    <2>4. Books(ref)
      BY <1>2, <2>2, <2>3 DEF Books
    <2>5. RefInv(ref)
      BY DEF MintInv
    <2>6. QED
      BY <2>1, <2>2, <2>4, <2>5, ApartKept
  <1>4. QED
    BY <1>3 DEF MintInv

\* A step of a run only concerns its reference.
LEMMA OthersKept ==
    ASSUME DeskType, DeskType', MintInv, NEW ref \in References,
           Apart(ref), Issued(ref)' = Issued(ref),
           recorded' = recorded \/ \E r : r # ref /\ recorded' = recorded \cup {r},
           marks \subseteq marks'
    PROVE  RefInv(ref)'
  <1>1. Issued(ref) \in Nat /\ Issued(ref)' \in Nat
    BY IssuedNat, IssuedNatNext
  <1>2. Books(ref)
    BY <1>1 DEF Books
  <1>3. RefInv(ref)
    BY DEF MintInv
  <1>4. QED
    BY <1>1, <1>2, <1>3, ApartKept

\* The look-up lets one run through.
LEMMA CheckKept ==
    ASSUME DeskType, DeskType', MintInv, NEW q \in Requests, Check(q)
    PROVE  MintInv'
  <1> PICK r : r = req[q].ref
    OBVIOUS
  <1>1. PICK st \in {"refused", "minting"} :
           /\ step' = [step EXCEPT ![q] = st]
           /\ st = "minting" => r \notin recorded
    BY DEF Check
  <1>2. /\ step[q] = "checking" /\ UNCHANGED <<req, mempool, minted, recorded>>
        /\ marks \subseteq marks' /\ (Beside(q) # {} => <<"overlap", r>> \in marks')
    BY DEF Check
  <1>3. r \in References
    BY <1>2 DEF DeskType, CarriesOK
  <1>4. \A ref \in References : Issued(ref)' = Issued(ref)
    BY <1>2, IssuedSame
  <1>5. ASSUME NEW ref \in References, ref # r \/ st = "refused"
        PROVE  RefInv(ref)'
    <2>1. Apart(ref)
      BY <1>1, <1>2, <1>5, RunStepped DEF PastCheck, Running
    <2>2. QED
      BY <1>2, <1>4, <2>1, OthersKept
  <1>6. ASSUME st = "minting"
        PROVE  RefInv(r)'
    <2>1. /\ Past(r)' = Past(r) \cup {q} /\ step'[q] = "minting"
          /\ \A p \in Requests \ {q} : step'[p] = step[p]
      BY <1>1, <1>2, <1>6, RunStepped DEF PastCheck
    <2>2. RefInv(r) /\ Issued(r)' = Issued(r)
      BY <1>3, <1>4 DEF MintInv
    <2>3. q \notin Past(r) /\ Past(r) = Beside(q)
      BY <1>2 DEF Past, PastCheck, Beside
    <2>4. Clean(r)' => Past(r) = {} /\ Covered(r)
      BY <1>2, <2>2, <2>3 DEF Clean, RefInv
    <2>5. Clean(r)' => Covered(r)'
      <3> SUFFICES ASSUME Clean(r)' PROVE Covered(r)'
        OBVIOUS
      <3>1. Past(r)' = {q} /\ Issued(r) = 0 /\ r \notin recorded'
        BY <1>1, <1>2, <1>6, <2>1, <2>4 DEF Covered
      <3>2. Issued(r)' = 0
        BY <2>2, <3>1
      <3>3. QED
        BY <2>1, <3>1, <3>2 DEF Covered
    <2>6. Leaves(r)'
      <3>1. \A p \in Past(r)' : step'[p] # "minting" => p \in Past(r) /\ step[p] # "minting"
        BY <2>1 DEF Past
      <3>2. QED
        BY <1>2, <2>2, <3>1 DEF Leaves, RefInv
    <2>7. QED
      BY <2>5, <2>6 DEF RefInv
  <1>7. QED
    BY <1>1, <1>3, <1>5, <1>6 DEF MintInv

\* The first mint of a run covers its splits.
LEMMA MintUserKept ==
    ASSUME DeskType, DeskType', MintInv, NEW q \in Requests, MintUser(q)
    PROVE  MintInv'
  <1> PICK r : r = req[q].ref
    OBVIOUS
  <1> PICK n : n = NetOf(q)
    OBVIOUS
  <1>1. PICK w : w = [req[q] EXCEPT !.left = PaidSplits(q)]
    OBVIOUS
  <1>2. w.ref = r /\ w.rule = req[q].rule /\ w.left = PaidSplits(q)
    <2>1. CarriesOK(step'[q], req'[q]) /\ step[q] = "minting"
      BY DEF DeskType, MintUser
    <2>2. QED
      BY <1>1
  <1>3. PICK st \in {"recording", "splitting"} :
           step' = [step EXCEPT ![q] = st] /\ req' = [req EXCEPT ![q] = w]
    BY <1>1 DEF MintUser
  <1>4. /\ step[q] = "minting" /\ n > 0 /\ Send(customer, n, r)
        /\ UNCHANGED <<minted, recorded, marks>>
    BY DEF MintUser, CanMint
  <1>5. r \in References /\ req[q].rule \in SoundRules /\ Gross[r] \in Nat
    BY <1>4, ReferencesAssumption DEF DeskType, CarriesOK
  <1>6. n \in Int /\ n = Net(req[q].rule, Gross[r])
    BY <1>5, AmountTypes DEF NetOf, SoundRules
  <1>7. \A ref \in References : Issued(ref)' = Issued(ref) + (IF r = ref THEN n ELSE 0)
    BY <1>4, <1>5, <1>6, IssuedSent, ReferencesAssumption
  <1>8. \A ref \in References : Issued(ref) \in Nat
    BY IssuedNat
  <1>m. /\ step'[q] = st /\ req'[q] = w
        /\ \A ref :
              (step[q] \in Running => req[q].ref # ref) /\ (st \in Running => w.ref # ref)
                 => Apart(ref)
        /\ \A ref : st \in PastCheck /\ w.ref = ref => Past(ref)' = Past(ref) \cup {q}
    BY <1>3, RunMoved, Zenon
  <1>9. ASSUME NEW ref \in References, ref # r
        PROVE  RefInv(ref)'
    <2>1. Apart(ref)
      BY <1>2, <1>m, <1>9
    <2>2. Issued(ref)' = Issued(ref)
      BY <1>7, <1>8, <1>9
    <2>3. QED
      BY <1>4, <2>1, <2>2, OthersKept
  <1>10. RefInv(r)'
    <2>1. Past(r)' = Past(r) \cup {q} /\ step'[q] = st /\ req'[q] = w
      BY <1>2, <1>m DEF PastCheck
    <2>2. q \in Past(r) /\ RefInv(r)
      BY <1>4, <1>5 DEF Past, PastCheck, MintInv
    <2>3. Issued(r)' = Issued(r) + n /\ Issued(r) \in Nat
      BY <1>5, <1>7, <1>8
    <2>4. Leaves(r)'
      BY <1>4, <1>6, <2>3 DEF Leaves
    <2>5. Clean(r)' => Covered(r)
      BY <1>4, <2>2 DEF Clean, RefInv
    <2>6. ASSUME Covered(r)
          PROVE  Covered(r)'
      <3>1. Issued(r) = 0 /\ r \notin recorded' /\ Past(r)' = {q}
        BY <1>4, <2>1, <2>2, <2>6 DEF Covered
      <3>2. Issued(r)' = n
        BY <1>6, <2>3, <3>1
      <3>3. PICK F : F = PaidBy(w.rule, Gross[r])
        OBVIOUS
      <3>4. PICK paid \in SUBSET Recipients : paid = w.left
        BY <1>2 DEF PaidSplits
      <3>5. /\ Payees \in SUBSET Recipients /\ paid \in SUBSET Payees /\ IsFiniteSet(Payees)
            /\ \A x \in Payees : F[x] \in Nat
            /\ SumFunctionOnSet(F, paid) \in Nat
        <4>1. Payees \in SUBSET Recipients /\ paid \in SUBSET Payees
          BY <1>2, <3>4 DEF Payees, PaidSplits
        <4>2. QED
          BY <1>2, <1>5, <3>3, <4>1, PaidNat
      <3>6. SumFunctionOnSet(F, paid) <= SumFunctionOnSet(F, Payees)
        BY <3>5, SumPart
      <3>7. LegsOf(w) = n + SumFunctionOnSet(F, Payees) /\ DueBy(w) = SumFunctionOnSet(F, paid)
        BY <1>2, <1>6, <3>3, <3>4 DEF LegsOf, DueBy, Legs
      <3>8. n + DueBy(w) <= LegsOf(w) /\ n <= LegsOf(w)
        <4>1. SumFunctionOnSet(F, Payees) \in Nat
          BY <3>5, SumNat
        <4>2. QED
          BY <1>6, <3>5, <3>6, <3>7, <4>1
      <3>9. DueBy(req[q])' = DueBy(w) /\ LegsOf(req[q])' = LegsOf(w) /\ q \in Ran(r)'
        BY <1>2, <1>3, <2>1 DEF DueBy, LegsOf, Ran
      <3>10. QED
        BY <1>3, <2>1, <3>1, <3>2, <3>8, <3>9 DEF Covered
    <2>7. QED
      BY <2>4, <2>5, <2>6 DEF RefInv
  <1>11. QED
    BY <1>9, <1>10 DEF MintInv

\* A split that is minted is one of those that were covered.
LEMMA MintSplitKept ==
    ASSUME DeskType, DeskType', MintInv, NEW q \in Requests, NEW s \in Recipients, MintSplit(q, s)
    PROVE  MintInv'
  <1> PICK r : r = req[q].ref
    OBVIOUS
  <1> PICK c : c = Share(req[q].rule, Gross[r], s)
    OBVIOUS
  <1>1. PICK w : w = [req[q] EXCEPT !.left = req[q].left \ {s}]
    OBVIOUS
  <1>2. w.ref = r /\ w.rule = req[q].rule /\ w.left = req[q].left \ {s}
    BY <1>1
  <1>3. PICK st \in {"recording", "splitting"} :
           step' = [step EXCEPT ![q] = st] /\ req' = [req EXCEPT ![q] = w]
    BY <1>1 DEF MintSplit
  <1>4. /\ step[q] = "splitting" /\ s \in req[q].left
        /\ UNCHANGED <<minted, recorded, marks>>
        /\ (Send(WalletOf[s], c, r) /\ c > 0) \/ UNCHANGED mempool
    BY DEF MintSplit, CanMint
  <1>5. /\ r \in References /\ req[q].rule \in SoundRules /\ Gross[r] \in Nat
        /\ req[q].left \in SUBSET Recipients /\ WalletOf[s] \in Holders
    BY <1>4, ReferencesAssumption DEF DeskType, CarriesOK
  <1>6. c \in Int
    BY <1>5, AmountTypes DEF SoundRules
  <1>7. /\ \A ref \in References \ {r} : Issued(ref)' = Issued(ref)
        /\ Issued(r)' = Issued(r) \/ (c > 0 /\ Issued(r)' = Issued(r) + c)
    <2>1. \A ref \in References : Issued(ref) \in Nat
      BY IssuedNat
    <2>2. CASE UNCHANGED mempool
      <3>1. /\ Issued(r)' = Issued(r)
            /\ \A ref \in References \ {r} : Issued(ref)' = Issued(ref)
        <4>1. \A ref : Issued(ref)' = Issued(ref)
          BY <1>4, <2>2, IssuedSame
        <4>2. QED
          BY <4>1
      <3>2. QED
        BY <3>1, Zenon
    <2>3. CASE Send(WalletOf[s], c, r) /\ c > 0
      <3>1. \A ref \in References : Issued(ref)' = Issued(ref) + (IF r = ref THEN c ELSE 0)
        BY <1>4, <1>5, <1>6, <2>3, IssuedSent
      <3>2. /\ \A ref \in References \ {r} : Issued(ref)' = Issued(ref)
            /\ Issued(r)' = Issued(r) + c
        BY <1>5, <2>1, <3>1
      <3>3. QED
        BY <2>3, <3>2, Zenon
    <2>4. QED
      BY <1>4, <2>2, <2>3
  <1>8. Issued(r) \in Nat
    BY <1>5, IssuedNat
  <1>m. /\ step'[q] = st /\ req'[q] = w
        /\ \A ref :
              (step[q] \in Running => req[q].ref # ref) /\ (st \in Running => w.ref # ref)
                 => Apart(ref)
        /\ \A ref : st \in PastCheck /\ w.ref = ref => Past(ref)' = Past(ref) \cup {q}
    BY <1>3, RunMoved, Zenon
  <1>9. ASSUME NEW ref \in References, ref # r
        PROVE  RefInv(ref)'
    <2>1. Apart(ref)
      BY <1>2, <1>m, <1>9
    <2>2. QED
      BY <1>4, <1>7, <1>9, <2>1, OthersKept
  <1>10. RefInv(r)'
    <2>1. Past(r)' = Past(r) \cup {q} /\ step'[q] = st /\ req'[q] = w
      BY <1>2, <1>m DEF PastCheck
    <2>2. q \in Past(r) /\ RefInv(r)
      BY <1>4, <1>5 DEF Past, PastCheck, MintInv
    <2>3. Issued(r) > 0 \/ <<"reverted", r>> \in marks
      BY <1>4, <2>2 DEF RefInv, Leaves
    <2>4. Leaves(r)'
      BY <1>4, <1>6, <1>7, <1>8, <2>3 DEF Leaves
    <2>5. Clean(r)' => Covered(r)
      BY <1>4, <2>2 DEF Clean, RefInv
    <2>6. ASSUME Covered(r)
          PROVE  Covered(r)'
      <3>1. r \notin recorded' /\ Past(r)' = {q}
        BY <1>4, <2>1, <2>2, <2>6 DEF Covered
      <3>2. PICK F : F = PaidBy(req[q].rule, Gross[r])
        OBVIOUS
      <3>3. PICK left \in SUBSET Recipients : left = req[q].left
        BY <1>5
      <3>4. /\ \A x \in Recipients : F[x] = Paid(req[q].rule, Gross[r], x) /\ F[x] \in Nat
            /\ IsFiniteSet(left)
            /\ left \ {s} \in SUBSET Recipients /\ SumFunctionOnSet(F, left \ {s}) \in Nat
        <4>1. left \ {s} \in SUBSET Recipients
          BY <3>3
        <4>2. QED
          BY <1>5, <3>2, <3>3, <4>1, PaidNat
      <3>5. SumFunctionOnSet(F, left) = F[s] + SumFunctionOnSet(F, left \ {s})
        <4>1. s \in left /\ \A x \in left : F[x] \in Int
          BY <1>4, <3>3, <3>4
        <4>2. QED
          BY <3>4, <4>1, SumRemove
      <3>6. /\ Issued(r) + SumFunctionOnSet(F, left) <= LegsOf(req[q])
            /\ LegsOf(req[q]) \in Int
        <4>1. DueBy(req[q]) = SumFunctionOnSet(F, left)
          BY <3>2, <3>3 DEF DueBy
        <4>2. LegsOf(req[q]) \in Int
          BY <1>5, LegsInt DEF LegsOf
        <4>3. QED
          BY <1>4, <2>2, <2>6, <4>1, <4>2 DEF Covered
      <3>7. Issued(r)' <= Issued(r) + F[s]
        BY <1>6, <1>7, <1>8, <3>4 DEF Paid
      <3>8. /\ Issued(r)' + SumFunctionOnSet(F, left \ {s}) <= LegsOf(req[q])
            /\ Issued(r)' <= LegsOf(req[q])
        <4>1. Issued(r)' \in Int /\ F[s] \in Nat
          BY <1>5, <3>4, IssuedNatNext
        <4>2. QED
          BY <1>8, <3>4, <3>5, <3>6, <3>7, <4>1
      <3>9. /\ DueBy(req[q])' = SumFunctionOnSet(F, left \ {s})
            /\ LegsOf(req[q])' = LegsOf(req[q]) /\ q \in Ran(r)'
        BY <1>2, <1>3, <2>1, <3>2, <3>3 DEF DueBy, LegsOf, Ran
      <3>10. QED
        BY <1>3, <2>1, <3>1, <3>8, <3>9 DEF Covered
    <2>7. QED
      BY <2>4, <2>5, <2>6 DEF RefInv
  <1>11. QED
    BY <1>9, <1>10 DEF MintInv

\* A refused mint leaves nothing, and the record closes the reference.
LEMMA EndKept ==
    ASSUME DeskType, DeskType', MintInv, NEW q \in Requests, MintRefused(q) \/ Record(q)
    PROVE  MintInv'
  <1> PICK r : r = req[q].ref
    OBVIOUS
  <1>1. PICK st \in {"refused", "done"} :
           /\ step[q] \in {"minting", "recording"} /\ step' = [step EXCEPT ![q] = st]
           /\ UNCHANGED <<req, mempool, minted, marks>>
           /\ \/ step[q] = "minting" /\ recorded' = recorded
              \/ step[q] = "recording" /\ st = "done" /\ recorded' = recorded \cup {r}
    BY DEF MintRefused, Record
  <1>2. r \in References
    BY <1>1 DEF DeskType, CarriesOK
  <1>3. \A ref \in References : Issued(ref)' = Issued(ref)
    BY <1>1, IssuedSame
  <1>4. ASSUME NEW ref \in References, ref # r
        PROVE  RefInv(ref)'
    <2>1. Apart(ref)
      BY <1>1, <1>4, RunStepped DEF PastCheck, Running
    <2>2. QED
      BY <1>1, <1>3, <1>4, <2>1, OthersKept
  <1>5. RefInv(r)'
    <2>1. /\ Past(r)' = Past(r) \ {q}
          /\ \A p \in Requests \ {q} : step'[p] = step[p]
      BY <1>1, RunStepped DEF PastCheck
    <2>2. q \in Past(r) /\ RefInv(r) /\ Issued(r)' = Issued(r)
      BY <1>1, <1>2, <1>3 DEF Past, PastCheck, MintInv
    <2>3. Clean(r)' => Covered(r)
      BY <1>1, <2>2 DEF Clean, RefInv
    <2>4. Leaves(r)'
      BY <1>1, <2>1, <2>2 DEF Leaves, RefInv, Past
    <2>5. Covered(r) => Covered(r)'
      <3>1. Covered(r) => Past(r)' = {}
        BY <2>1, <2>2 DEF Covered
      <3>2. Covered(r) /\ step[q] = "minting" => Issued(r) = 0
        BY <2>2 DEF Covered
      <3>3. CASE step[q] = "minting"
        BY <1>1, <2>2, <3>1, <3>2, <3>3 DEF Covered
      <3>4. CASE step[q] = "recording"
        <4>1. /\ r \in recorded' /\ \A p \in Ran(r) : p \in Ran(r)'
              /\ \A p \in Requests : LegsOf(req[p])' = LegsOf(req[p])
          <5>1. step'[q] = "done" /\ req' = req /\ r \in recorded'
            BY <1>1, <3>4 DEF DeskType
          <5>2. QED
            BY <2>1, <5>1 DEF Ran, LegsOf
        <4>2. QED
          BY <2>2, <3>1, <4>1 DEF Covered, Ran
      <3>5. QED
        BY <1>1, <3>3, <3>4
    <2>6. QED
      BY <2>3, <2>4, <2>5 DEF RefInv
  <1>6. QED
    BY <1>4, <1>5 DEF MintInv

\* A run that stops half way is marked.
LEMMA StopKept ==
    ASSUME DeskType, DeskType', MintInv, NEW q \in Requests, StopAfterMint(q) \/ MintAnswerLost(q)
    PROVE  MintInv'
  <1> PICK r : r = req[q].ref
    OBVIOUS
  <1> PICK n : n = NetOf(q)
    OBVIOUS
  <1>1. /\ step[q] \in PastCheck /\ step' = [step EXCEPT ![q] = "done"]
        /\ UNCHANGED <<req, minted, recorded>> /\ marks' = marks \cup {<<"stopped", r>>}
        /\ \/ UNCHANGED mempool
           \/ step[q] = "minting" /\ n > 0 /\ Send(customer, n, r)
    BY DEF StopAfterMint, MintAnswerLost, Stopped, CanMint, PastCheck
  <1>2. r \in References /\ req[q].rule \in SoundRules /\ Gross[r] \in Nat
    BY <1>1, ReferencesAssumption DEF DeskType, CarriesOK, PastCheck
  <1>3. n \in Int
    BY <1>2, AmountTypes DEF NetOf, SoundRules
  <1>4. \A ref \in References : Issued(ref) \in Nat
    BY IssuedNat
  <1>5. /\ \A ref \in References \ {r} : Issued(ref)' = Issued(ref)
        /\ Issued(r)' = Issued(r) \/ Issued(r)' > Issued(r)
    <2>1. CASE UNCHANGED mempool
      BY <1>1, <1>2, <2>1, IssuedSame
    <2>2. CASE n > 0 /\ Send(customer, n, r)
      <3>1. \A ref \in References : Issued(ref)' = Issued(ref) + (IF r = ref THEN n ELSE 0)
        BY <1>1, <1>2, <1>3, <2>2, IssuedSent, ReferencesAssumption
      <3>2. QED
        BY <1>2, <1>3, <1>4, <2>2, <3>1
    <2>3. QED
      BY <1>1, <2>1, <2>2
  <1>6. ASSUME NEW ref \in References, ref # r
        PROVE  RefInv(ref)'
    <2>1. Apart(ref)
      BY <1>1, <1>6, RunStepped DEF PastCheck, Running
    <2>2. QED
      BY <1>1, <1>5, <1>6, <2>1, OthersKept
  <1>7. RefInv(r)'
    <2>1. /\ Past(r)' = Past(r) \ {q}
          /\ \A p \in Requests \ {q} : step'[p] = step[p]
      BY <1>1, RunStepped DEF PastCheck
    <2>2. Leaves(r)
      BY <1>2 DEF MintInv, RefInv
    <2>3. Leaves(r)'
      <3>1. Issued(r) > 0 => Issued(r)' > 0
        <4>1. Issued(r)' \in Nat
          BY <1>2, IssuedNatNext
        <4>2. QED
          BY <1>2, <1>4, <1>5, <4>1
      <3>2. QED
        BY <1>1, <2>1, <2>2, <3>1 DEF Leaves, Past
    <2>4. ~Clean(r)'
      BY <1>1 DEF Clean
    <2>5. QED
      BY <2>3, <2>4 DEF RefInv
  <1>8. QED
    BY <1>6, <1>7 DEF MintInv

\* What is mined stays issued, and what reverts is marked.
LEMMA ChainKept ==
    ASSUME DeskType, DeskType', MintInv, Mined \/ Reverted
    PROVE  MintInv'
  <1>1. PICK t : t = Head(mempool)
    OBVIOUS
  <1>2. /\ mempool \in Seq(Transactions) /\ mempool # <<>> /\ t \in Transactions
        /\ mempool' = Tail(mempool) /\ UNCHANGED <<step, req, recorded>>
        /\ \/ Mined /\ marks' = marks
              /\ minted' = [minted EXCEPT ![t.ref] = minted[t.ref] + t.amount]
           \/ Reverted /\ minted' = minted /\ marks' = marks \cup {<<"reverted", t.ref>>}
    BY <1>1 DEF Mined, Reverted, Next1, DeskType
  <1>3. t.amount \in Nat /\ t.ref \in References
    BY <1>2 DEF Transactions
  <1>4. ASSUME NEW ref \in References
        PROVE  RefInv(ref)'
    <2>1. Apart(ref)
      BY <1>2 DEF Apart
    <2>2. Issued(ref) \in Nat /\ Issued(ref)' \in Nat
      BY IssuedNat, IssuedNatNext
    <2>3. PoolSum(mempool', ref) = PoolSum(mempool, ref) - (IF t.ref = ref THEN t.amount ELSE 0)
      BY <1>1, <1>2, PoolTail
    <2>4. PoolSum(mempool, ref) \in Nat /\ minted[ref] \in Nat /\ minted \in [References -> Nat]
      BY <1>2, PoolNat DEF DeskType
    <2>5. /\ Issued(ref) = minted[ref] + PoolSum(mempool, ref)
          /\ Issued(ref)' = minted'[ref] + PoolSum(mempool', ref)
      BY IssuedIs, IssuedNext
    <2>6. \/ Issued(ref)' = Issued(ref)
          \/ Issued(ref)' <= Issued(ref) /\ <<"reverted", ref>> \in marks'
      <3>1. CASE minted' = [minted EXCEPT ![t.ref] = minted[t.ref] + t.amount]
        <4>1. minted'[ref] = minted[ref] + (IF t.ref = ref THEN t.amount ELSE 0)
          BY <1>3, <2>4, <3>1
        <4>2. QED
          BY <1>3, <2>3, <2>4, <2>5, <4>1
      <3>2. CASE minted' = minted /\ marks' = marks \cup {<<"reverted", t.ref>>}
        BY <1>3, <2>3, <2>4, <2>5, <3>2
      <3>3. QED
        BY <1>2, <3>1, <3>2
    <2>7. Books(ref)
      BY <1>2, <2>2, <2>6 DEF Books
    <2>8. RefInv(ref)
      BY DEF MintInv
    <2>9. QED
      BY <2>1, <2>2, <2>7, <2>8, ApartKept
  <1>5. QED
    BY <1>4 DEF MintInv

\* Editors and other callers of the contract leave the mint alone.
LEMMA BesideKept ==
    ASSUME DeskType, DeskType', MintInv,
           UNCHANGED <<step, req, mempool, minted, recorded, marks>>
    PROVE  MintInv'
  <1>1. \A ref : Issued(ref)' = Issued(ref)
    BY IssuedSame
  <1>2. ASSUME NEW ref \in References
        PROVE  RefInv(ref)'
    <2>1. Apart(ref)
      BY DEF Apart
    <2>2. QED
      BY <1>1, <2>1, OthersKept
  <1>3. QED
    BY <1>2 DEF MintInv

\* Nothing is minted at first.
LEMMA MintInvInit ==
    ASSUME DeskInit, DeskType
    PROVE  MintInv
  <1>1. ASSUME NEW ref \in References
        PROVE  Past(ref) = {} /\ Issued(ref) = 0 /\ ref \notin recorded
    <2>1. PoolSum(mempool, ref) = 0
      <3>1. mempool = <<>> /\ DOMAIN mempool = {}
        BY DEF DeskInit
      <3>2. QED
        BY <3>1, SumEmpty DEF PoolSum
    <2>2. minted[ref] = 0 /\ Past(ref) = {} /\ recorded = {}
      BY DEF DeskInit, Past, PastCheck
    <2>3. QED
      BY <2>1, <2>2, IssuedIs
  <1>2. QED
    BY <1>1 DEF MintInv, RefInv, Covered, Leaves

\* The invariant of the mint is inductive.
LEMMA MintInvNext ==
    ASSUME DeskType, DeskType', MintInv, [Next]_vars
    PROVE  MintInv'
  <1>1. CASE EditorStep
    BY <1>1, BesideKept DEF EditorStep, ReadForUpdate, WriteUpdate, ListEmpty, SeedList
  <1>2. CASE RequestStep
    BY <1>2, StartKept, CheckKept, MintUserKept, MintSplitKept, EndKept, StopKept DEF RequestStep
  <1>3. CASE Mined \/ Reverted
    BY <1>3, ChainKept
  <1>4. CASE UNCHANGED deskVars
    BY <1>4, BesideKept DEF deskVars
  <1>5. QED
    BY <1>1, <1>2, <1>3, <1>4 DEF Next, vars

\* The supply is the sum of the balances at first.
LEMMA SupplyInit ==
    ASSUME CoinInit
    PROVE  SupplyIsBalances
  <1>1. \A h \in Holders : balance[h] = 0
    BY DEF CoinInit
  <1>2. SumFunctionOnSet(balance, Holders) \in Nat
    BY <1>1, HoldersAssumption, SumNat
  <1>3. SumFunctionOnSet(balance, Holders) <= 0 * Cardinality(Holders)
    <2>1. PICK c \in Int : c = 0
      OBVIOUS
    <2>2. \A h \in Holders : balance[h] \in Int /\ balance[h] <= c
      BY <1>1, <2>1
    <2>3. SumFunctionOnSet(balance, Holders) <= c * Cardinality(Holders)
      BY <2>2, HoldersAssumption, SumBound
    <2>4. QED
      BY <2>1, <2>3
  <1>4. QED
    BY <1>2, <1>3, HoldersAssumption, FS_CardinalityType DEF CoinInit, SupplyIsBalances

\* The supply is the sum of the balances; a bank reference that no two runs
\* minted together, and no run left half way, issues what one run's rule makes of
\* the deposit, which is no more than was deposited when nothing in that rule is
\* negative; and what is recorded was issued: for any references, rules of any sign
\* whose splits add up as updateCommissionRule requires, edits of them, requests
\* and orders of mining (route.ts of apps/admin/src/app/api/admin/mint, lines
\* 22-106, commission-config.ts lines 174-205, MondegaCoin.sol lines 93-155).
THEOREM MintsAreAccounted == Spec => []MintsAccounted
  <1>1. CoinInit /\ DeskInit => TypeInv /\ SupplyIsBalances /\ MintInv
    BY TypeInit, SupplyInit, MintInvInit DEF TypeInv
  <1>2. TypeInv /\ SupplyIsBalances /\ MintInv /\ [Next]_vars
           => (TypeInv /\ SupplyIsBalances /\ MintInv)'
    BY InvNext, MintInvNext DEF Allowed, TypeInv
  <1>3. SupplyIsBalances /\ MintInv /\ TypeInv => MintsAccounted
    <2>1. MintInv /\ TypeInv => BackedByDeposit
      <3> SUFFICES ASSUME MintInv, TypeInv, NEW ref \in References, Clean(ref)
                   PROVE  \/ Issued(ref) = 0
                          \/ \E q \in Ran(ref) :
                                /\ Issued(ref) <= Legs(req[q].rule, Gross[ref])
                                /\ Proper(req[q].rule) =>
                                      Issued(ref) <= Gross[ref] + Slack(req[q].rule, Gross[ref])
        BY DEF BackedByDeposit, Clean
      <3>1. Issued(ref) = 0 \/ \E q \in Ran(ref) : Issued(ref) <= LegsOf(req[q])
        BY DEF MintInv, RefInv, Covered
      <3>2. ASSUME NEW q \in Ran(ref), Issued(ref) <= LegsOf(req[q])
            PROVE  /\ Issued(ref) <= Legs(req[q].rule, Gross[ref])
                   /\ Proper(req[q].rule) =>
                         Issued(ref) <= Gross[ref] + Slack(req[q].rule, Gross[ref])
        <4>1. CarriesOK(step[q], req[q]) /\ step[q] \notin {"idle", "refused", "seeding"}
          BY DEF TypeInv, DeskType, Ran
        <4>2. req[q].rule \in SoundRules /\ Gross[ref] \in Nat /\ req[q].ref = ref
          BY <4>1, ReferencesAssumption DEF CarriesOK, Ran
        <4>3. Issued(ref) <= Legs(req[q].rule, Gross[ref])
          BY <3>2, <4>2 DEF LegsOf
        <4>4. /\ Issued(ref) \in Int /\ Legs(req[q].rule, Gross[ref]) \in Int
              /\ Proper(req[q].rule) =>
                    Legs(req[q].rule, Gross[ref]) <= Gross[ref] + Slack(req[q].rule, Gross[ref])
          BY <4>2, IssuedNat, LegsInt, ProperLegs DEF TypeInv
        <4>5. Proper(req[q].rule) => Gross[ref] + Slack(req[q].rule, Gross[ref]) \in Int
          BY <4>2, SlackInt
        <4>6. QED
          BY <4>3, <4>4, <4>5
      <3>3. QED
        BY <3>1, <3>2
    <2>2. MintInv /\ TypeInv => RecordedIsMinted
      BY DEF MintInv, RefInv, Leaves, RecordedIsMinted, TypeInv, DeskType
    <2>3. QED
      BY <2>1, <2>2 DEF MintsAccounted
  <1>4. QED
    BY <1>1, <1>2, <1>3, PTL DEF Spec

-----------------------------------------------------------------------------
(* The scripts that deploy the contracts.                                  *)

DeployRun == [script : {"deploy", "resume", "remaining"},
              step : {"next", "waiting", "mined", "failed", "written"},
              factory : D!Factories, left : Seq(D!Codes),
              deployed : [D!Codes -> Nat], event : Nat]

\* The codes are there or still to come.
Covers(w, codes) == \A c \in codes : w.deployed[c] > 0 \/ c \in D!ToSet(w.left)

\* A run of a script, when the factories have these coins.
SoundRun(w, at) ==
    /\ w \in DeployRun
    /\ \A c \in D!Codes : w.deployed[c] > 0 => at[w.factory][c] = w.deployed[c]
    /\ w.step \in {"waiting", "mined"} => w.left # <<>>
    /\ w.step = "mined" => w.event > 0 /\ at[w.factory][Head(w.left)] = w.event
    /\ w.script = "deploy" => Covers(w, D!Codes)
    /\ w.script = "resume" => Covers(w, D!ToSet(PhaseOne))

Addresses == [D!Factories -> [D!Codes -> Nat]]

SoundFile(f, at) ==
    /\ f.factory \in D!Factories
    /\ \A c \in D!Codes : f.coin[c] > 0 => at[f.factory][c] = f.coin[c]
    /\ f.by = "deploy" => \A c \in D!Codes : f.coin[c] > 0
    /\ f.by = "resume" => \A c \in D!ToSet(PhaseOne) : f.coin[c] > 0

DeployInv ==
    /\ coins \in Addresses /\ contracts \in Nat /\ made \in Nat
    /\ run = [r \in Runs |-> run[r]]
    /\ \A r \in Runs : run[r] = D!NoRun \/ SoundRun(run[r], coins)
    /\ \A t \in pending : /\ t[1] \in Runs /\ t[2] \in D!Factories /\ t[3] \in D!Codes
                          /\ run[t[1]] # D!NoRun /\ run[t[1]].factory = t[2]
    /\ \A f \in files : SoundFile(f, coins)

\* No run of a script looks like one that has not begun.
LEMMA RunsBegin ==
    ASSUME NEW w, NEW at, SoundRun(w, at)
    PROVE  w # D!NoRun /\ w.script # "none"
  BY DEF SoundRun, DeployRun, D!NoRun

\* The codes of a list are its first one and the others.
LEMMA FirstAndRest ==
    ASSUME NEW left \in Seq(D!Codes), left # <<>>
    PROVE  /\ Head(left) \in D!Codes /\ Tail(left) \in Seq(D!Codes)
           /\ \A c \in D!ToSet(left) : c = Head(left) \/ c \in D!ToSet(Tail(left))
  <1>1. /\ Head(left) \in D!Codes /\ Tail(left) \in Seq(D!Codes)
        /\ Len(Tail(left)) = Len(left) - 1 /\ Head(left) = left[1]
        /\ \A i \in 1..Len(Tail(left)) : Tail(left)[i] = left[i + 1]
    BY HeadTailProperties
  <1>2. /\ Len(left) \in Nat /\ DOMAIN left = 1..Len(left)
        /\ DOMAIN Tail(left) = 1..Len(Tail(left))
    BY <1>1, LenProperties
  <1>3. ASSUME NEW i \in DOMAIN left
        PROVE  left[i] = Head(left) \/ left[i] \in D!ToSet(Tail(left))
    <2>1. CASE i = 1
      BY <1>1, <2>1
    <2>2. CASE i # 1
      <3>1. PICK k \in 1..Len(Tail(left)) : i = k + 1
        BY <1>1, <1>2, <2>2
      <3>2. left[i] = Tail(left)[k] /\ k \in DOMAIN Tail(left)
        BY <1>1, <1>2, <3>1
      <3>3. QED
        BY <3>2 DEF D!ToSet
    <2>3. QED
      BY <2>1, <2>2
  <1>4. QED
    BY <1>1, <1>3 DEF D!ToSet

\* The steps of a run keep it sound.
LEMMA GotoSound ==
    ASSUME NEW w, NEW at, SoundRun(w, at)
    PROVE  /\ SoundRun([w EXCEPT !.step = "failed"], at)
           /\ SoundRun([w EXCEPT !.step = "written"], at)
           /\ w.left # <<>> => SoundRun([w EXCEPT !.step = "waiting"], at)
  BY DEF SoundRun, DeployRun, Covers

LEMMA MinedSound ==
    ASSUME NEW w, NEW at, SoundRun(w, at), w.left # <<>>,
           NEW n \in Nat, n > 0, at[w.factory][Head(w.left)] = n
    PROVE  SoundRun([w EXCEPT !.step = "mined", !.event = n], at)
  BY DEF SoundRun, DeployRun, Covers

LEMMA SkipSound ==
    ASSUME NEW w, NEW at, SoundRun(w, at), w.left # <<>>, w.script = "remaining"
    PROVE  SoundRun(D!Onward(w), at)
  <1>1. Tail(w.left) \in Seq(D!Codes)
    BY FirstAndRest DEF SoundRun, DeployRun
  <1>2. QED
    BY <1>1 DEF SoundRun, DeployRun, Covers, D!Onward

LEMMA RecordSound ==
    ASSUME NEW w, NEW at, SoundRun(w, at), w.left # <<>>,
           NEW n \in Nat, n > 0, at[w.factory][Head(w.left)] = n
    PROVE  SoundRun([D!Onward(w) EXCEPT !.deployed[Head(w.left)] = n], at)
  <1>1. /\ Head(w.left) \in D!Codes /\ Tail(w.left) \in Seq(D!Codes)
        /\ \A c \in D!ToSet(w.left) : c = Head(w.left) \/ c \in D!ToSet(Tail(w.left))
    BY FirstAndRest DEF SoundRun, DeployRun
  <1>2. PICK v : v = [D!Onward(w) EXCEPT !.deployed[Head(w.left)] = n]
    OBVIOUS
  <1>3. w \in DeployRun
    BY DEF SoundRun
  <1>4. /\ v \in DeployRun /\ v.script = w.script /\ v.factory = w.factory /\ v.step = "next"
        /\ v.left = Tail(w.left) /\ v.deployed = [w.deployed EXCEPT ![Head(w.left)] = n]
    BY <1>1, <1>2, <1>3 DEF D!Onward, DeployRun
  <1>5. /\ w.deployed \in [D!Codes -> Nat]
        /\ v.deployed[Head(w.left)] = n
        /\ \A c \in D!Codes : c # Head(w.left) => v.deployed[c] = w.deployed[c]
    BY <1>1, <1>3, <1>4 DEF DeployRun
  <1>6. \A c \in D!Codes : v.deployed[c] > 0 => at[v.factory][c] = v.deployed[c]
    BY <1>4, <1>5 DEF SoundRun
  <1>7. ASSUME NEW codes \in SUBSET D!Codes, Covers(w, codes)
        PROVE  Covers(v, codes)
    BY <1>1, <1>4, <1>5, <1>7 DEF Covers
  <1>8. D!Codes \in SUBSET D!Codes /\ D!ToSet(PhaseOne) \in SUBSET D!Codes
    BY ScriptsAssumption, ElementOfSeq, LenProperties DEF D!ToSet
  <1>9. QED
    BY <1>2, <1>4, <1>6, <1>7, <1>8 DEF SoundRun

\* New coins change nothing for those that were there.
LEMMA MoreCoins ==
    ASSUME NEW at, NEW new,
           \A f \in D!Factories, c \in D!Codes : at[f][c] > 0 => new[f][c] = at[f][c]
    PROVE  /\ \A w : SoundRun(w, at) => SoundRun(w, new)
           /\ \A f : SoundFile(f, at) => SoundFile(f, new)
  <1>1. ASSUME NEW w, SoundRun(w, at)
        PROVE  SoundRun(w, new)
    <2>1. w \in DeployRun /\ w.factory \in D!Factories
      BY <1>1 DEF SoundRun, DeployRun
    <2>2. w.step = "mined" => Head(w.left) \in D!Codes
      BY <1>1, <2>1, FirstAndRest DEF SoundRun, DeployRun
    <2>3. QED
      BY <1>1, <2>1, <2>2 DEF SoundRun
  <1>2. ASSUME NEW f, SoundFile(f, at)
        PROVE  SoundFile(f, new)
    BY <1>2 DEF SoundFile
  <1>3. QED
    BY <1>1, <1>2

\* A run goes on, and may send a transaction to its factory.
LEMMA ScriptNext ==
    ASSUME DeployInv, NEW r \in Runs, NEW w, SoundRun(w, coins),
           run' = [run EXCEPT ![r] = w], UNCHANGED <<coins, contracts, files>>, made' \in Nat,
           run[r] # D!NoRun => w.factory = run[r].factory,
           pending' = pending \/ \E c \in D!Codes : pending' = pending \cup {<<r, w.factory, c>>}
    PROVE  DeployInv'
  <1>1. /\ run' = [p \in Runs |-> run'[p]] /\ run'[r] = w
        /\ \A p \in Runs \ {r} : run'[p] = run[p]
    BY DEF DeployInv
  <1>2. w # D!NoRun /\ w.factory \in D!Factories
    BY RunsBegin DEF SoundRun, DeployRun
  <1>3. \A t \in pending : /\ t[1] \in Runs /\ t[2] \in D!Factories /\ t[3] \in D!Codes
                           /\ run'[t[1]] # D!NoRun /\ run'[t[1]].factory = t[2]
    BY <1>1, <1>2 DEF DeployInv
  <1>4. \A t \in pending' : /\ t[1] \in Runs /\ t[2] \in D!Factories /\ t[3] \in D!Codes
                            /\ run'[t[1]] # D!NoRun /\ run'[t[1]].factory = t[2]
    <2>1. CASE pending' = pending
      BY <1>3, <2>1
    <2>2. ASSUME NEW c \in D!Codes, pending' = pending \cup {<<r, w.factory, c>>}
          PROVE  \A t \in pending' : /\ t[1] \in Runs /\ t[2] \in D!Factories /\ t[3] \in D!Codes
                                     /\ run'[t[1]] # D!NoRun /\ run'[t[1]].factory = t[2]
      BY <1>1, <1>2, <1>3, <2>2
    <2>3. QED
      BY <2>1, <2>2
  <1>5. QED
    BY <1>1, <1>4 DEF DeployInv

\* A script begins with nothing, or with coins its factory has.
LEMMA BeginKept ==
    ASSUME DeployInv, NEW r \in Runs, D!StartDeploy(r) \/ D!StartResume(r) \/ D!StartRemaining(r)
    PROVE  DeployInv'
  <1>1. /\ run[r] = D!NoRun /\ coins \in Addresses /\ made \in Nat /\ MaxFactories \in Nat
        /\ D!Factories = 1..MaxFactories
    BY ScriptsAssumption DEF DeployInv, D!StartDeploy, D!StartResume, D!StartRemaining, D!Factories
  <1>2. CASE D!StartDeploy(r)
    <2>1. PICK w : w = [script |-> "deploy", step |-> "next", factory |-> made + 1,
                        left |-> CoinList, deployed |-> D!Nothing, event |-> 0]
      OBVIOUS
    <2>2. made + 1 \in D!Factories
      BY <1>1, <1>2 DEF D!StartDeploy
    <2>3. w \in DeployRun
      BY <2>1, <2>2, ScriptsAssumption DEF DeployRun, D!Nothing
    <2>4. SoundRun(w, coins)
      BY <2>1, <2>3 DEF SoundRun, Covers, D!Nothing, D!Codes
    <2>5. /\ run' = [run EXCEPT ![r] = w] /\ made' \in Nat
          /\ UNCHANGED <<coins, contracts, files, pending>>
      BY <1>1, <1>2, <2>1 DEF D!StartDeploy
    <2>6. QED
      BY <1>1, <2>4, <2>5, ScriptNext
  <1>3. CASE D!StartResume(r)
    <2>1. PICK w : w = [script |-> "resume", step |-> "next", factory |-> Factory["resume"],
                        left |-> PhaseOne, deployed |-> D!Nothing, event |-> 0]
      OBVIOUS
    <2>2. w \in DeployRun
      BY <2>1, ScriptsAssumption DEF DeployRun, D!Nothing
    <2>3. SoundRun(w, coins)
      BY <2>1, <2>2 DEF SoundRun, Covers, D!Nothing
    <2>4. QED
      BY <1>1, <1>3, <2>1, <2>3, ScriptNext DEF D!StartResume
  <1>4. CASE D!StartRemaining(r)
    <2>1. PICK known : known \subseteq D!Codes
                       /\ run' = [run EXCEPT ![r] =
                            [script |-> "remaining", step |-> "next", factory |-> Factory["remaining"],
                             left |-> Remaining, event |-> 0,
                             deployed |-> [c \in D!Codes |-> IF c \in known
                                                             THEN coins[Factory["remaining"]][c] ELSE 0]]]
      <3>1. PICK told \in SUBSET {Asked} :
               run' = [run EXCEPT ![r] =
                 [script |-> "remaining", step |-> "next", factory |-> Factory["remaining"],
                  left |-> Remaining, event |-> 0,
                  deployed |-> [c \in D!Codes |->
                     IF c \in (D!Codes \ (D!ToSet(Remaining) \cup {Asked})) \cup told
                     THEN coins[Factory["remaining"]][c] ELSE 0]]]
        BY <1>4 DEF D!StartRemaining
      <3>2. (D!Codes \ (D!ToSet(Remaining) \cup {Asked})) \cup told \subseteq D!Codes
        BY ScriptsAssumption
      <3>3. QED
        BY <3>1, <3>2
    <2>2. PICK w : w = [script |-> "remaining", step |-> "next", factory |-> Factory["remaining"],
                        left |-> Remaining, event |-> 0,
                        deployed |-> [c \in D!Codes |-> IF c \in known
                                                        THEN coins[Factory["remaining"]][c] ELSE 0]]
      OBVIOUS
    <2>3. \A c \in D!Codes : coins[Factory["remaining"]][c] \in Nat
      BY <1>1, ScriptsAssumption DEF Addresses
    <2>4. w \in DeployRun
      BY <2>2, <2>3, ScriptsAssumption DEF DeployRun
    <2>5. SoundRun(w, coins)
      BY <2>2, <2>4 DEF SoundRun
    <2>6. QED
      BY <1>1, <1>4, <2>1, <2>2, <2>5, ScriptNext DEF D!StartRemaining
  <1>5. QED
    BY <1>2, <1>3, <1>4

\* A script goes on to its next coin, or stops, after a failure.
LEMMA FailKept ==
    ASSUME DeployInv, NEW r \in Runs, SoundRun(run[r], coins), run[r].left # <<>>,
           D!Fail(r), UNCHANGED <<coins, contracts, files, made>>, pending' = pending
    PROVE  DeployInv'
  <1>1. CASE run[r].script = "remaining"
    <2>1. PICK w : w = D!Onward(run[r])
      OBVIOUS
    <2>0. SoundRun(D!Onward(run[r]), coins)
      BY <1>1, SkipSound, Zenon
    <2>2. SoundRun(w, coins) /\ w.factory = run[r].factory
      BY <2>0, <2>1 DEF D!Onward
    <2>3. run' = [run EXCEPT ![r] = w] /\ made' \in Nat
      BY <1>1, <2>1 DEF D!Fail, D!Is, D!Skip, DeployInv
    <2>4. QED
      BY <2>2, <2>3, ScriptNext
  <1>2. CASE run[r].script # "remaining"
    <2>1. PICK w : w = [run[r] EXCEPT !.step = "failed"]
      OBVIOUS
    <2>0. SoundRun([run[r] EXCEPT !.step = "failed"], coins)
      BY GotoSound, Zenon
    <2>2. SoundRun(w, coins) /\ w.factory = run[r].factory
      BY <2>0, <2>1
    <2>3. run' = [run EXCEPT ![r] = w] /\ made' \in Nat
      BY <1>2, <2>1 DEF D!Fail, D!Is, D!Goto, DeployInv
    <2>4. QED
      BY <2>2, <2>3, ScriptNext
  <1>3. QED
    BY <1>1, <1>2

\* A script records the address that its factory has.
LEMMA RecordKept ==
    ASSUME DeployInv, NEW r \in Runs, SoundRun(run[r], coins), run[r].left # <<>>,
           NEW n, D!Record(r, n), coins[run[r].factory][D!Code(r)] = n, n > 0,
           UNCHANGED <<coins, contracts, files, made>>, pending' = pending
    PROVE  DeployInv'
  <1>1. n \in Nat /\ D!Code(r) = Head(run[r].left)
    <2>1. run[r].factory \in D!Factories /\ Head(run[r].left) \in D!Codes
      BY FirstAndRest DEF SoundRun, DeployRun
    <2>2. QED
      BY <2>1 DEF DeployInv, Addresses, D!Code
  <1>2. PICK w : w = [D!Onward(run[r]) EXCEPT !.deployed[Head(run[r].left)] = n]
    OBVIOUS
  <1>0. SoundRun([D!Onward(run[r]) EXCEPT !.deployed[Head(run[r].left)] = n], coins)
    <2>1. coins[run[r].factory][Head(run[r].left)] = n
      BY <1>1
    <2>2. n \in Nat
      BY <1>1
    <2>3. QED
      BY <2>1, <2>2, RecordSound, Zenon
  <1>3. SoundRun(w, coins) /\ w.factory = run[r].factory
    BY <1>0, <1>2 DEF D!Onward
  <1>4. run' = [run EXCEPT ![r] = w] /\ made' \in Nat
    BY <1>1, <1>2 DEF D!Record, DeployInv
  <1>5. QED
    BY <1>3, <1>4, ScriptNext

\* The loop of a script.
LEMMA LoopKept ==
    ASSUME DeployInv, NEW r \in Runs,
           \/ D!Existing(r) \/ D!Send(r) \/ D!SendFails(r) \/ D!TakeAddress(r) \/ D!NoAddress(r)
           \/ D!WriteFile(r) \/ D!Stop(r)
    PROVE  DeployInv'
  <1>1. /\ SoundRun(run[r], coins) /\ run[r] \in DeployRun /\ made \in Nat
        /\ run[r].factory \in D!Factories
    <2>1. run[r].script # "none"
      BY DEF D!Existing, D!Send, D!SendFails, D!TakeAddress, D!NoAddress, D!WriteFile, D!Stop, D!Step
    <2>2. SoundRun(run[r], coins)
      BY <2>1 DEF DeployInv, D!NoRun
    <2>3. QED
      BY <2>2 DEF SoundRun, DeployRun, DeployInv
  <1>2. CASE D!Existing(r)
    BY <1>1, <1>2, RecordKept DEF D!Existing
  <1>3. CASE D!Send(r)
    <2>1. PICK w : w = [run[r] EXCEPT !.step = "waiting"]
      OBVIOUS
    <2>0. SoundRun([run[r] EXCEPT !.step = "waiting"], coins)
      <3>1. run[r].left # <<>>
        BY <1>3 DEF D!Send
      <3>2. QED
        BY <1>1, <3>1, GotoSound, Zenon
    <2>2. SoundRun(w, coins) /\ w.factory = run[r].factory
      BY <2>0, <2>1
    <2>3. run' = [run EXCEPT ![r] = w] /\ D!Code(r) \in D!Codes
      BY <1>1, <1>3, <2>1, FirstAndRest DEF D!Send, D!Goto, D!Code, DeployRun
    <2>4. pending' = pending \cup {<<r, w.factory, D!Code(r)>>}
      BY <1>3, <2>2 DEF D!Send
    <2>5. QED
      BY <1>1, <1>3, <2>2, <2>3, <2>4, ScriptNext DEF D!Send
  <1>4. CASE D!SendFails(r) \/ D!NoAddress(r)
    <2>1. run[r].left # <<>>
      BY <1>1, <1>4 DEF D!SendFails, D!NoAddress, D!Step, SoundRun
    <2>2. QED
      BY <1>1, <1>4, <2>1, FailKept DEF D!SendFails, D!NoAddress
  <1>5. CASE D!TakeAddress(r)
    <2>1. /\ run[r].left # <<>> /\ run[r].event > 0
          /\ coins[run[r].factory][D!Code(r)] = run[r].event
      BY <1>1, <1>5 DEF D!TakeAddress, D!Step, SoundRun, D!Code
    <2>2. D!Record(r, run[r].event)
      BY <1>5, <2>1 DEF D!TakeAddress
    <2>3. QED
      BY <1>1, <1>5, <2>1, <2>2, RecordKept DEF D!TakeAddress
  <1>6. CASE D!Stop(r)
    <2>1. PICK w : w = [run[r] EXCEPT !.step = "failed"]
      OBVIOUS
    <2>0. SoundRun([run[r] EXCEPT !.step = "failed"], coins)
      BY <1>1, GotoSound, Zenon
    <2>2. SoundRun(w, coins) /\ w.factory = run[r].factory
      BY <2>0, <2>1
    <2>3. QED
      BY <1>1, <1>6, <2>1, <2>2, ScriptNext DEF D!Stop, D!Goto
  <1>7. CASE D!WriteFile(r)
    <2>1. PICK f : f = [by |-> run[r].script, factory |-> run[r].factory, coin |-> run[r].deployed]
      OBVIOUS
    <2>2. \A c : c \notin D!ToSet(run[r].left)
      BY <1>7 DEF D!WriteFile, D!ToSet
    <2>3. SoundFile(f, coins)
      BY <1>1, <2>1, <2>2 DEF SoundFile, SoundRun, Covers
    <2>4. PICK w : w = [run[r] EXCEPT !.step = "written"]
      OBVIOUS
    <2>0. SoundRun([run[r] EXCEPT !.step = "written"], coins)
      BY <1>1, GotoSound, Zenon
    <2>5. SoundRun(w, coins) /\ w.factory = run[r].factory
      BY <2>0, <2>4
    <2>6. /\ run' = [run EXCEPT ![r] = w] /\ files' = files \cup {f}
          /\ UNCHANGED <<coins, made, contracts, pending>>
      BY <1>7, <2>1, <2>4 DEF D!WriteFile, D!Goto
    <2>7. /\ run' = [p \in Runs |-> run'[p]] /\ run'[r] = w
          /\ \A p \in Runs \ {r} : run'[p] = run[p]
      BY <2>6 DEF DeployInv
    <2>8. w # D!NoRun
      BY <2>5, RunsBegin
    <2>9. QED
      BY <2>3, <2>5, <2>6, <2>7, <2>8 DEF DeployInv
  <1>8. QED
    BY <1>2, <1>3, <1>4, <1>5, <1>6, <1>7

\* The factory takes a transaction: the first coin of a code stays.
LEMMA FactoryKept ==
    ASSUME DeployInv, NEW r \in Runs, NEW f \in D!Factories, NEW c \in D!Codes,
           <<r, f, c>> \in pending, D!Mined(r, f, c) \/ D!Reverted(r, f, c)
    PROVE  DeployInv'
  <1>1. SoundRun(run[r], coins) /\ run[r] \in DeployRun /\ run[r].factory = f /\ made \in Nat
    BY DEF DeployInv, SoundRun
  <1>2. pending' \subseteq pending
    BY DEF D!Mined, D!Reverted
  <1>3. CASE D!Mined(r, f, c)
    <2>1. PICK n : n = contracts + 1
      OBVIOUS
    <2>2. n \in Nat /\ n > 0 /\ contracts' = n
      BY <1>3, <2>1 DEF D!Mined, DeployInv
    <2>3. /\ coins[f][c] = 0 /\ UNCHANGED <<made, files>>
          /\ coins' = [coins EXCEPT ![f] = [coins[f] EXCEPT ![c] = n]]
      BY <1>3, <2>1 DEF D!Mined, D!MayDeploy
    <2>4. /\ coins' \in Addresses /\ coins'[f][c] = n
          /\ \A g \in D!Factories, d \in D!Codes : coins[g][d] > 0 => coins'[g][d] = coins[g][d]
      BY <2>2, <2>3 DEF DeployInv, Addresses
    <2>5. /\ \A w : SoundRun(w, coins) => SoundRun(w, coins')
          /\ \A x : SoundFile(x, coins) => SoundFile(x, coins')
      <3>1. PICK new : new = coins'
        OBVIOUS
      <3>2. \A g \in D!Factories, d \in D!Codes : coins[g][d] > 0 => new[g][d] = coins[g][d]
        BY <2>4, <3>1
      <3>3. /\ \A w : SoundRun(w, coins) => SoundRun(w, new)
            /\ \A x : SoundFile(x, coins) => SoundFile(x, new)
        BY <3>2, MoreCoins, Zenon
      <3>4. QED
        BY <3>1, <3>3
    <2>6. /\ run' = [p \in Runs |-> run'[p]] /\ SoundRun(run'[r], coins')
          /\ run'[r].factory = f /\ \A p \in Runs \ {r} : run'[p] = run[p]
      <3>1. CASE ~D!Waits(r, c)
        BY <1>1, <1>3, <2>5, <3>1 DEF D!Mined, DeployInv
      <3>2. CASE D!Waits(r, c)
        <4>1. /\ run[r].left # <<>> /\ Head(run[r].left) = c
          BY <1>1, <3>2 DEF D!Waits, D!Step, D!Code, SoundRun
        <4>2. PICK w : w = [run[r] EXCEPT !.step = "mined", !.event = n]
          OBVIOUS
        <4>3. run' = [run EXCEPT ![r] = w]
          BY <1>3, <2>1, <3>2, <4>2 DEF D!Mined
        <4>4. SoundRun([run[r] EXCEPT !.step = "mined", !.event = n], coins')
          <5>1. PICK at : at = coins'
            OBVIOUS
          <5>2. SoundRun(run[r], at) /\ at[run[r].factory][Head(run[r].left)] = n
            BY <1>1, <2>4, <2>5, <4>1, <5>1
          <5>3. SoundRun([run[r] EXCEPT !.step = "mined", !.event = n], at)
            BY <2>2, <4>1, <5>2, MinedSound, Zenon
          <5>4. QED
            BY <5>1, <5>3
        <4>5. w.factory = f
          BY <1>1, <4>2
        <4>6. QED
          BY <4>2, <4>3, <4>4, <4>5 DEF DeployInv
      <3>3. QED
        BY <3>1, <3>2
    <2>7. \A p \in Runs : run'[p] = D!NoRun \/ SoundRun(run'[p], coins')
      BY <2>5, <2>6 DEF DeployInv
    <2>8. run'[r] # D!NoRun
      <3>1. PICK at : at = coins'
        OBVIOUS
      <3>2. SoundRun(run'[r], at)
        BY <2>6, <3>1
      <3>3. PICK w : w = run'[r]
        OBVIOUS
      <3>4. w # D!NoRun
        BY <3>2, <3>3, RunsBegin
      <3>5. QED
        BY <3>3, <3>4
    <2>9. \A t \in pending' : /\ t[1] \in Runs /\ t[2] \in D!Factories /\ t[3] \in D!Codes
                              /\ run'[t[1]] # D!NoRun /\ run'[t[1]].factory = t[2]
      BY <1>1, <1>2, <2>6, <2>8 DEF DeployInv
    <2>10. \A x \in files' : SoundFile(x, coins')
      BY <2>3, <2>5 DEF DeployInv
    <2>11. coins' \in Addresses /\ contracts' \in Nat /\ made' \in Nat
      BY <1>1, <2>2, <2>3, <2>4
    <2>12. QED
      BY <2>6, <2>7, <2>9, <2>10, <2>11 DEF DeployInv, SoundFile
  <1>4. CASE D!Reverted(r, f, c)
    <2>1. PICK w : run' = [run EXCEPT ![r] = w] /\ SoundRun(w, coins) /\ w.factory = f
      <3>1. CASE ~D!Waits(r, c)
        <4>1. run' = [run EXCEPT ![r] = run[r]]
          BY <1>4, <3>1 DEF D!Reverted, DeployInv
        <4>2. QED
          BY <1>1, <4>1
      <3>2. CASE D!Waits(r, c) /\ run[r].script = "remaining"
        <4>1. run[r].left # <<>>
          BY <1>1, <3>2 DEF D!Waits, D!Step, SoundRun
        <4>2. SoundRun(D!Onward(run[r]), coins)
          BY <1>1, <3>2, <4>1, SkipSound, Zenon
        <4>3. run' = [run EXCEPT ![r] = D!Onward(run[r])] /\ D!Onward(run[r]).factory = f
          BY <1>1, <1>4, <3>2 DEF D!Reverted, D!Fail, D!Is, D!Skip, D!Onward
        <4>4. QED
          BY <4>2, <4>3
      <3>3. CASE D!Waits(r, c) /\ run[r].script # "remaining"
        <4>1. PICK w : w = [run[r] EXCEPT !.step = "failed"]
          OBVIOUS
        <4>2. SoundRun([run[r] EXCEPT !.step = "failed"], coins)
          BY <1>1, GotoSound, Zenon
        <4>3. run' = [run EXCEPT ![r] = w] /\ w.factory = f
          BY <1>1, <1>4, <3>3, <4>1 DEF D!Reverted, D!Fail, D!Is, D!Goto
        <4>4. QED
          BY <4>1, <4>2, <4>3
      <3>4. QED
        BY <3>1, <3>2, <3>3
    <2>2. /\ run' = [p \in Runs |-> run'[p]] /\ run'[r] = w
          /\ \A p \in Runs \ {r} : run'[p] = run[p]
      BY <2>1 DEF DeployInv
    <2>3. w # D!NoRun /\ UNCHANGED <<coins, made, contracts, files>>
      BY <1>4, <2>1, RunsBegin DEF D!Reverted
    <2>4. \A t \in pending' : /\ t[1] \in Runs /\ t[2] \in D!Factories /\ t[3] \in D!Codes
                              /\ run'[t[1]] # D!NoRun /\ run'[t[1]].factory = t[2]
      BY <1>2, <2>1, <2>2, <2>3, <1>1 DEF DeployInv
    <2>5. QED
      BY <2>1, <2>2, <2>3, <2>4 DEF DeployInv
  <1>5. QED
    BY <1>3, <1>4

\* Whatever the scripts do, alone, together, again or stopped half way, and
\* whatever the node answers: every address of every file of addresses is, and
\* stays, the coin its factory has under that code; a file of deploy.ts names
\* every coin, and one of deploy-resume.ts each of those it was to go on with.
\* For any list of coins, scripts and factories (MondegaCoin.sol lines 207-231,
\* deploy.ts 103-133, deploy-resume.ts 67-141, deploy-remaining.ts 39-98).
THEOREM FilesAreSound == D!Spec => []FilesHold
  <1>1. D!Init => DeployInv
    <2> SUFFICES ASSUME D!Init
                 PROVE  DeployInv
      OBVIOUS
    <2>1. coins \in Addresses
      BY DEF D!Init, Addresses
    <2>2. QED
      BY <2>1 DEF D!Init, DeployInv
  <1>2. DeployInv /\ [D!Next]_(D!deployVars) => DeployInv'
    <2> SUFFICES ASSUME DeployInv, [D!Next]_(D!deployVars)
                 PROVE  DeployInv'
      OBVIOUS
    <2>1. ASSUME NEW r \in Runs, D!StartDeploy(r) \/ D!StartResume(r) \/ D!StartRemaining(r)
          PROVE  DeployInv'
      BY <2>1, BeginKept
    <2>2. ASSUME NEW r \in Runs,
                 \/ D!Existing(r) \/ D!Send(r) \/ D!SendFails(r) \/ D!TakeAddress(r) \/ D!NoAddress(r)
                 \/ D!WriteFile(r) \/ D!Stop(r)
          PROVE  DeployInv'
      BY <2>2, LoopKept
    <2>3. ASSUME NEW r \in Runs, NEW f \in D!Factories, NEW c \in D!Codes,
                 <<r, f, c>> \in pending, D!Mined(r, f, c) \/ D!Reverted(r, f, c)
          PROVE  DeployInv'
      BY <2>3, FactoryKept
    <2>4. CASE UNCHANGED D!deployVars
      BY <2>4 DEF D!deployVars, DeployInv
    <2>5. CASE D!Next
      BY <2>1, <2>2, <2>3, <2>5 DEF D!Next
    <2>6. QED
      BY <2>4, <2>5
  <1>3. DeployInv => FilesHold
    BY DEF DeployInv, SoundFile, FilesHold, D!FilesHold, D!AddressesHold, D!FilesComplete
  <1>4. QED
    BY <1>1, <1>2, <1>3, PTL DEF D!Spec

-----------------------------------------------------------------------------
(* The document of the rule, and the settings of the panel.                *)

\* The document is what the updates made of it, one after the other.
LEMMA UpdatesInit == CoinInit /\ DeskInit => UpdatesKept
  BY DEF DeskInit, UpdatesKept

LEMMA UpdatesNext ==
    ASSUME UpdatesKept, [Next]_vars
    PROVE  UpdatesKept'
  <1>1. ASSUME NEW e \in Editors, WriteUpdate(e)
        PROVE  UpdatesKept'
    BY <1>1 DEF WriteUpdate, Write, UpdatesKept
  <1>2. ASSUME Default
        PROVE  UpdatesKept'
    BY <1>2 DEF Default, Write, UpdatesKept
  <1>3. ASSUME UNCHANGED <<rule, agreed, overtaken>>
        PROVE  UpdatesKept'
    BY <1>3 DEF UpdatesKept
  <1>4. CASE EditorStep
    BY <1>1, <1>2, <1>3, <1>4 DEF EditorStep, ReadForUpdate, ListEmpty, SeedList
  <1>5. CASE RequestStep
    <2>1. \/ Default \/ UNCHANGED <<rule, agreed, overtaken>>
      BY <1>5 DEF RequestStep, Start, SeedRule, Check, MintUser, MintRefused, MintSplit, Record,
                  StopAfterMint, MintAnswerLost
    <2>2. QED
      BY <1>2, <1>3, <2>1
  <1>6. CASE Mined \/ Reverted \/ UNCHANGED deskVars
    BY <1>3, <1>6 DEF Mined, Reverted, deskVars
  <1>7. QED
    BY <1>4, <1>5, <1>6 DEF Next, vars

\* A user's own percentage, when there is a user and when it can be had.
UserOK(user) == user = T!NoUser \/ user.fee \in Int

\* The settings, as stored or as a tab has them.
CopyOK(copy) ==
    "fee" \in DOMAIN copy /\ copy.fee \in Nat /\ copy.fee <= T!MaxFee /\ UserOK(copy.user)

FormOK(w) == UserOK(w.for) /\ w.user.fee \in Int

\* Only a tab that is behind does not have what is stored.
TabsFollow ==
    /\ storage = latest
    /\ \A t \in Tabs : t \notin behind => memory[t] = T!NoSettings \/ memory[t] = storage

SettingsInv ==
    /\ memory = [t \in Tabs |-> memory[t]] /\ modal = [t \in Tabs |-> modal[t]]
    /\ overwritten \in BOOLEAN /\ rounded = FALSE
    /\ CopyOK(storage)
    /\ \A t \in Tabs : memory[t] = T!NoSettings \/ CopyOK(memory[t])
    /\ \A t \in Tabs : modal[t] = T!NoModal \/ (FormOK(modal[t]) /\ CopyOK(memory[t]))
    /\ ~overwritten => TabsFollow

\* Two decimals keep a percentage that has no more of them.
LEMMA ShownInFull ==
    ASSUME NEW fee \in Int
    PROVE  T!Shown(fee) \in Int /\ (fee % 10 = 0 => T!Shown(fee) = fee)
           /\ (fee >= 0 => T!Shown(fee) >= 0)
  BY DEF T!Shown

\* The form of a tab changes.
LEMMA FormNext ==
    ASSUME SettingsInv, NEW t \in Tabs, NEW w, modal' = [modal EXCEPT ![t] = w],
           w = T!NoModal \/ (FormOK(w) /\ CopyOK(memory[t])),
           UNCHANGED <<storage, memory, latest, behind, overwritten, rounded>>
    PROVE  SettingsInv'
  <1>1. /\ modal' = [s \in Tabs |-> modal'[s]] /\ modal'[t] = w
        /\ \A s \in Tabs \ {t} : modal'[s] = modal[s]
    BY DEF SettingsInv
  <1>2. QED
    BY <1>1 DEF SettingsInv, TabsFollow

\* A tab writes its copy with a change in it.
LEMMA CopyNext ==
    ASSUME SettingsInv, NEW t \in Tabs, NEW copy, NEW new, CopyOK(copy),
           memory' = [memory EXCEPT ![t] = copy], storage' = copy, latest' = new,
           memory[t] = latest => copy = new,
           memory[t] # T!NoSettings,
           overwritten' = (overwritten \/ t \in behind), rounded' = FALSE,
           behind' = behind \cup {s \in Tabs \ {t} : memory[s] # T!NoSettings},
           modal' = modal \/ modal' = [modal EXCEPT ![t] = T!NoModal]
    PROVE  SettingsInv'
  <1>1. /\ memory' = [s \in Tabs |-> memory'[s]] /\ memory'[t] = copy
        /\ \A s \in Tabs \ {t} : memory'[s] = memory[s]
    BY DEF SettingsInv
  <1>2. /\ modal' = [s \in Tabs |-> modal'[s]]
        /\ \A s \in Tabs : modal'[s] = modal[s] \/ modal'[s] = T!NoModal
    BY DEF SettingsInv
  <1>3. ASSUME ~overwritten'
        PROVE  TabsFollow'
    <2>1. ~overwritten /\ t \notin behind
      BY <1>3
    <2>2. memory[t] = latest
      BY <2>1 DEF SettingsInv, TabsFollow
    <2>3. QED
      BY <1>1, <2>2 DEF TabsFollow
  <1>4. overwritten' \in BOOLEAN
    BY DEF SettingsInv
  <1>5. QED
    BY <1>1, <1>2, <1>3, <1>4 DEF SettingsInv

\* The changes an administrator makes.
LEMMA SetKept ==
    ASSUME SettingsInv, NEW t \in Tabs, NEW field, NEW value, T!Set(t, field, value),
           memory[t] # T!NoSettings, CopyOK([memory[t] EXCEPT ![field] = value]), rounded' = FALSE,
           modal' = modal \/ modal' = [modal EXCEPT ![t] = T!NoModal]
    PROVE  SettingsInv'
  <1>1. PICK copy : copy = [memory[t] EXCEPT ![field] = value]
    OBVIOUS
  <1>2. PICK new : new = [latest EXCEPT ![field] = value]
    OBVIOUS
  <1>3. /\ CopyOK(copy) /\ (memory[t] = latest => copy = new)
        /\ memory' = [memory EXCEPT ![t] = copy] /\ storage' = copy /\ latest' = new
        /\ overwritten' = (overwritten \/ t \in behind)
        /\ behind' = behind \cup {s \in Tabs \ {t} : memory[s] # T!NoSettings}
    BY <1>1, <1>2 DEF T!Set
  <1>4. QED
    BY <1>3, CopyNext

\* Only two of the settings matter here.
LEMMA FieldsOK ==
    ASSUME NEW copy, CopyOK(copy), NEW value
    PROVE  /\ CopyOK([copy EXCEPT !["signedIn"] = value])
           /\ CopyOK([copy EXCEPT !["liveMode"] = value])
           /\ CopyOK([copy EXCEPT !["maintenanceMode"] = value])
           /\ CopyOK([copy EXCEPT !["bank"] = value])
           /\ CopyOK([copy EXCEPT !["fx"] = value])
           /\ value \in Nat /\ value <= T!MaxFee => CopyOK([copy EXCEPT !["fee"] = value])
           /\ UserOK(value) => CopyOK([copy EXCEPT !["user"] = value])
  BY DEF CopyOK

\* A setting that is not a percentage.
LEMMA PlainKept ==
    ASSUME SettingsInv, NEW t \in Tabs, NEW value, UNCHANGED <<modal, rounded>>,
           memory[t] # T!NoSettings,
           \/ T!Set(t, "signedIn", value) \/ T!Set(t, "liveMode", value)
           \/ T!Set(t, "maintenanceMode", value) \/ T!Set(t, "bank", value)
           \/ T!Set(t, "fx", value) \/ (UserOK(value) /\ T!Set(t, "user", value))
    PROVE  SettingsInv'
  <1>1. CopyOK(memory[t]) /\ rounded' = FALSE /\ modal' = modal
    BY DEF SettingsInv
  <1>2. PICK copy : copy = memory[t]
    OBVIOUS
  <1>3. CopyOK(copy)
    BY <1>1, <1>2
  <1>4. CASE T!Set(t, "signedIn", value)
    <2>1. CopyOK([memory[t] EXCEPT !["signedIn"] = value])
      BY <1>2, <1>3, FieldsOK
    <2>2. QED
      BY <1>1, <1>4, <2>1, SetKept, Zenon
  <1>5. CASE T!Set(t, "liveMode", value)
    <2>1. CopyOK([memory[t] EXCEPT !["liveMode"] = value])
      BY <1>2, <1>3, FieldsOK
    <2>2. QED
      BY <1>1, <1>5, <2>1, SetKept, Zenon
  <1>6. CASE T!Set(t, "maintenanceMode", value)
    <2>1. CopyOK([memory[t] EXCEPT !["maintenanceMode"] = value])
      BY <1>2, <1>3, FieldsOK
    <2>2. QED
      BY <1>1, <1>6, <2>1, SetKept, Zenon
  <1>7. CASE T!Set(t, "bank", value)
    <2>1. CopyOK([memory[t] EXCEPT !["bank"] = value])
      BY <1>2, <1>3, FieldsOK
    <2>2. QED
      BY <1>1, <1>7, <2>1, SetKept, Zenon
  <1>8. CASE T!Set(t, "fx", value)
    <2>1. CopyOK([memory[t] EXCEPT !["fx"] = value])
      BY <1>2, <1>3, FieldsOK
    <2>2. QED
      BY <1>1, <1>8, <2>1, SetKept, Zenon
  <1>9. CASE UserOK(value) /\ T!Set(t, "user", value)
    <2>1. CopyOK([memory[t] EXCEPT !["user"] = value])
      BY <1>2, <1>3, <1>9, FieldsOK
    <2>2. QED
      BY <1>1, <1>9, <2>1, SetKept, Zenon
  <1>10. QED
    BY <1>4, <1>5, <1>6, <1>7, <1>8, <1>9

\* A percentage is typed, or comes back as it was shown.
LEMMA FeesKept ==
    ASSUME SettingsInv, NEW t \in Tabs, NEW raw \in Int, T!SetFees(t, raw),
           raw >= 0 \/ raw = T!Shown(memory[t].fee)
    PROVE  SettingsInv'
  <1>1. PICK left : left = IF raw > T!MaxFee THEN T!MaxFee ELSE raw
    OBVIOUS
  <1>2. /\ memory[t] # T!NoSettings /\ CopyOK(memory[t]) /\ modal' = modal
        /\ T!Set(t, "fee", left)
        /\ rounded' = (rounded \/ (raw = T!Shown(memory[t].fee) /\ T!Rounds(memory[t].fee, left)))
    BY <1>1 DEF T!SetFees, T!AtPage, T!SignedIn, SettingsInv
  <1>3. PICK fee \in Nat : fee = memory[t].fee /\ fee <= T!MaxFee
    BY <1>2 DEF CopyOK
  <1>4. T!Shown(fee) \in Int /\ (fee % 10 = 0 => T!Shown(fee) = fee) /\ T!Shown(fee) >= 0
    BY ShownInFull
  <1>5. left \in Nat /\ left <= T!MaxFee
    BY <1>1, <1>3, <1>4 DEF T!MaxFee
  <1>6. ~(raw = T!Shown(fee) /\ T!Rounds(fee, left))
    BY <1>1, <1>3, <1>4 DEF T!Rounds, T!MaxFee
  <1>7. rounded' = FALSE
    <2>1. rounded = FALSE
      BY DEF SettingsInv
    <2>2. QED
      BY <1>2, <1>3, <1>6, <2>1
  <1>8. CopyOK([memory[t] EXCEPT !["fee"] = left])
    <2>1. PICK copy : copy = memory[t]
      OBVIOUS
    <2>2. CopyOK(copy)
      BY <1>2, <2>1
    <2>3. QED
      BY <1>5, <2>1, <2>2, FieldsOK
  <1>9. QED
    BY <1>2, <1>7, <1>8, SetKept, Zenon

\* The form writes the user it has.
LEMMA UpsertKept ==
    ASSUME SettingsInv, NEW t \in Tabs, T!UpsertUser(t)
    PROVE  SettingsInv'
  <1>1. PICK user : user = modal[t].user
    OBVIOUS
  <1>2. PICK was : was = modal[t].for
    OBVIOUS
  <1>3. /\ UserOK(was) /\ user.fee \in Int /\ CopyOK(memory[t])
        /\ T!Set(t, "user", user) /\ modal' = [modal EXCEPT ![t] = T!NoModal]
        /\ rounded' = (rounded \/ (/\ was # T!NoUser /\ was.fee # T!NoFee
                                   /\ user.fee = T!Shown(was.fee) /\ T!Rounds(was.fee, user.fee)))
    BY <1>1, <1>2 DEF T!UpsertUser, SettingsInv, FormOK
  <1>4. ~(was # T!NoUser /\ user.fee = T!Shown(was.fee) /\ T!Rounds(was.fee, user.fee))
    BY <1>3, ShownInFull DEF T!Rounds, UserOK
  <1>5. rounded' = FALSE
    BY <1>3, <1>4 DEF SettingsInv
  <1>6. CopyOK([memory[t] EXCEPT !["user"] = user])
    <2>1. PICK copy : copy = memory[t]
      OBVIOUS
    <2>2. CopyOK(copy) /\ UserOK(user)
      BY <1>3, <2>1 DEF UserOK
    <2>3. QED
      BY <2>1, <2>2, FieldsOK
  <1>7. memory[t] # T!NoSettings
    BY <1>3 DEF CopyOK, T!NoSettings
  <1>8. QED
    BY <1>3, <1>5, <1>6, <1>7, SetKept, Zenon

\* Percentages an administrator types are natural numbers, in thousandths.
LEMMA SettingsInit == T!Init => SettingsInv
  <1> SUFFICES ASSUME T!Init
               PROVE  SettingsInv
    OBVIOUS
  <1>1. CopyOK(T!Defaults)
    BY DEF CopyOK, UserOK, T!Defaults, T!MaxFee, T!NoFee
  <1>2. QED
    BY <1>1 DEF T!Init, SettingsInv, TabsFollow

\* Tabs open and close.
LEMMA TabsKept ==
    ASSUME SettingsInv, NEW t \in Tabs, T!OpenTab(t) \/ T!CloseTab(t)
    PROVE  SettingsInv'
  <1>1. CASE T!OpenTab(t)
    <2>1. /\ memory' = [memory EXCEPT ![t] = storage] /\ memory[t] = T!NoSettings
          /\ UNCHANGED <<storage, modal, latest, behind, overwritten, rounded>>
      BY <1>1 DEF T!OpenTab
    <2>2. /\ memory' = [s \in Tabs |-> memory'[s]] /\ memory'[t] = storage
          /\ \A s \in Tabs \ {t} : memory'[s] = memory[s]
      BY <2>1 DEF SettingsInv
    <2>3. TabsFollow => TabsFollow'
      BY <2>1, <2>2 DEF TabsFollow
    <2>4. QED
      BY <2>1, <2>2, <2>3 DEF SettingsInv
  <1>2. CASE T!CloseTab(t)
    <2>1. /\ memory' = [memory EXCEPT ![t] = T!NoSettings]
          /\ modal' = [modal EXCEPT ![t] = T!NoModal]
          /\ behind' = behind \ {t}
          /\ UNCHANGED <<storage, latest, overwritten, rounded>>
      BY <1>2 DEF T!CloseTab
    <2>2. /\ memory' = [s \in Tabs |-> memory'[s]] /\ memory'[t] = T!NoSettings
          /\ modal' = [s \in Tabs |-> modal'[s]] /\ modal'[t] = T!NoModal
          /\ \A s \in Tabs \ {t} : memory'[s] = memory[s] /\ modal'[s] = modal[s]
      BY <2>1 DEF SettingsInv
    <2>3. TabsFollow => TabsFollow'
      BY <2>1, <2>2 DEF TabsFollow
    <2>4. QED
      BY <2>1, <2>2, <2>3 DEF SettingsInv
  <1>3. QED
    BY <1>1, <1>2

\* The form of a user opens, is filled in and closes.
LEMMA FormKept ==
    ASSUME SettingsInv, NEW t \in Tabs,
           \/ T!OpenModal(t) \/ T!CancelModal(t)
           \/ \E status, fee : fee \in Int /\ T!TypeModal(t, [status |-> status, fee |-> fee])
    PROVE  SettingsInv'
  <1>1. UNCHANGED <<storage, memory, latest, behind, overwritten, rounded>>
    BY DEF T!OpenModal, T!CancelModal, T!TypeModal
  <1>2. PICK w : modal' = [modal EXCEPT ![t] = w] /\ (w = T!NoModal \/ (FormOK(w) /\ CopyOK(memory[t])))
    <2>1. CASE T!CancelModal(t)
      BY <2>1 DEF T!CancelModal
    <2>2. CASE T!OpenModal(t)
      <3>1. CopyOK(memory[t])
        BY <2>2 DEF T!OpenModal, T!AtPage, T!SignedIn, SettingsInv
      <3>2. PICK user \in {memory[t].user, T!NoUser} :
               modal' = [modal EXCEPT ![t] =
                 [open |-> TRUE, for |-> user,
                  user |-> IF user = T!NoUser THEN [status |-> "active", fee |-> T!NoFee]
                           ELSE [user EXCEPT !.fee = IF user.fee = T!NoFee THEN T!NoFee
                                                     ELSE T!Shown(user.fee)]]]
        BY <2>2 DEF T!OpenModal
      <3>3. PICK w : w = [open |-> TRUE, for |-> user,
                          user |-> IF user = T!NoUser THEN [status |-> "active", fee |-> T!NoFee]
                                   ELSE [user EXCEPT !.fee = IF user.fee = T!NoFee THEN T!NoFee
                                                             ELSE T!Shown(user.fee)]]
        OBVIOUS
      <3>4. UserOK(user)
        BY <3>1, <3>2 DEF CopyOK, UserOK
      <3>5. FormOK(w)
        BY <3>3, <3>4, ShownInFull DEF FormOK, UserOK, T!NoFee
      <3>6. QED
        BY <3>1, <3>2, <3>3, <3>5
    <2>3. CASE \E status, fee : fee \in Int /\ T!TypeModal(t, [status |-> status, fee |-> fee])
      <3>1. PICK status, fee : fee \in Int /\ T!TypeModal(t, [status |-> status, fee |-> fee])
        BY <2>3
      <3>2. PICK w : w = [modal[t] EXCEPT !.user = [status |-> status, fee |-> fee]]
        OBVIOUS
      <3>3. FormOK(modal[t]) /\ CopyOK(memory[t]) /\ modal' = [modal EXCEPT ![t] = w]
        BY <3>1, <3>2 DEF T!TypeModal, SettingsInv
      <3>4. FormOK(w)
        BY <3>1, <3>2, <3>3 DEF FormOK
      <3>5. QED
        BY <3>3, <3>4
    <2>4. QED
      BY <2>1, <2>2, <2>3
  <1>3. QED
    BY <1>1, <1>2, FormNext

\* Every step of a tab keeps the settings.
LEMMA PanelNext ==
    ASSUME SettingsInv, [T!Next]_(T!panelVars)
    PROVE  SettingsInv'
  <1>1. ASSUME NEW t \in Tabs,
               \/ T!Login(t) \/ T!Logout(t) \/ T!ToggleLiveMode(t) \/ T!ToggleMaintenance(t)
               \/ T!SetBankStatus(t) \/ T!Ping(t) \/ \E rate \in Rates : T!SetFXOverride(t, rate)
        PROVE  SettingsInv'
    <2>1. memory[t] # T!NoSettings /\ UNCHANGED <<modal, rounded>>
      BY <1>1 DEF T!Login, T!Logout, T!ToggleLiveMode, T!ToggleMaintenance, T!SetBankStatus, T!Ping,
                  T!SetFXOverride, T!AtPage, T!SignedIn
    <2>2. \E value : \/ T!Set(t, "signedIn", value) \/ T!Set(t, "liveMode", value)
                     \/ T!Set(t, "maintenanceMode", value) \/ T!Set(t, "bank", value)
                     \/ T!Set(t, "fx", value)
      BY <1>1 DEF T!Login, T!Logout, T!ToggleLiveMode, T!ToggleMaintenance, T!SetBankStatus, T!Ping,
                  T!SetFXOverride
    <2>3. QED
      BY <2>1, <2>2, PlainKept
  <1>2. ASSUME NEW t \in Tabs, NEW status, T!SetUserStatus(t, status) \/ T!RemoveUser(t)
        PROVE  SettingsInv'
    <2>1. memory[t] # T!NoSettings /\ UNCHANGED <<modal, rounded>> /\ CopyOK(memory[t])
      BY <1>2 DEF T!SetUserStatus, T!RemoveUser, T!AtPage, T!SignedIn, SettingsInv
    <2>2. \E value : UserOK(value) /\ T!Set(t, "user", value)
      <3>1. CASE T!RemoveUser(t)
        BY <3>1 DEF T!RemoveUser, UserOK
      <3>2. CASE T!SetUserStatus(t, status)
        <4>1. PICK user : user = [memory[t].user EXCEPT !.status = status]
          OBVIOUS
        <4>2. T!Set(t, "user", user) /\ memory[t].user # T!NoUser
          BY <3>2, <4>1 DEF T!SetUserStatus, T!NoUser
        <4>3. UserOK(user)
          BY <2>1, <4>1, <4>2 DEF CopyOK, UserOK
        <4>4. QED
          BY <4>2, <4>3
      <3>3. QED
        BY <1>2, <3>1, <3>2
    <2>3. QED
      BY <2>1, <2>2, PlainKept
  <1>3. Typed \subseteq Nat
    BY TypedAssumption
  <1>4. ASSUME NEW t \in Tabs,
               NEW raw \in Typed \cup {T!Shown(f) : f \in Typed \cup {T!Defaults.fee, T!MaxFee}},
               T!SetFees(t, raw)
        PROVE  SettingsInv'
    <2>1. raw \in Int /\ raw >= 0
      <3>1. T!Defaults.fee \in Nat /\ T!MaxFee \in Nat
        BY DEF T!Defaults, T!MaxFee
      <3>2. \A f \in Typed \cup {T!Defaults.fee, T!MaxFee} : T!Shown(f) \in Int /\ T!Shown(f) >= 0
        BY <1>3, <3>1, ShownInFull
      <3>3. QED
        BY <1>3, <3>2
    <2>2. QED
      BY <1>4, <2>1, FeesKept
  <1>5. ASSUME NEW t \in Tabs, NEW status, NEW fee \in Typed,
               T!TypeModal(t, [status |-> status, fee |-> fee])
        PROVE  SettingsInv'
    <2>1. fee \in Int
      BY <1>3
    <2>2. \E s, f : f \in Int /\ T!TypeModal(t, [status |-> s, fee |-> f])
      BY <1>5, <2>1
    <2>3. QED
      BY <2>2, FormKept, Zenon
  <1>6. ASSUME NEW t \in Tabs, T!OpenModal(t) \/ T!CancelModal(t)
        PROVE  SettingsInv'
    BY <1>6, FormKept
  <1>7. CASE UNCHANGED T!panelVars
    BY <1>7 DEF T!panelVars, SettingsInv, TabsFollow
  <1>8. CASE T!Next
    BY <1>1, <1>2, <1>4, <1>5, <1>6, <1>8, TabsKept, UpsertKept DEF T!Next
  <1>9. QED
    BY <1>7, <1>8

-----------------------------------------------------------------------------
(* The pages of the mint and of the rules.                                 *)

\* A rule as it was, or as it became after more changes.
Before(v, w) ==
    /\ v.change \in Nat /\ w.change \in Nat /\ v.change <= w.change
    /\ v.change = w.change => v.fee = w.fee

\* What was read of a country's rule.
Earlier(v, c) == Before(v, P!RuleOf(c))

LoadOK(w) ==
    /\ w.at \in {"sent", "read"} /\ w.of \in Countries
    /\ w.at = "read" => Earlier(w.rule, w.of)

MintOK(w) ==
    /\ ~w.excused => w.shown.of = w.of
    /\ w.at = "sent" => w.of \in Countries /\ (~w.excused => Earlier(w.shown.rule, w.of))
    /\ w.at \in {"charged", "shown"} /\ ~w.excused =>
          w.shown.rule.fee = w.by.fee \/ w.shown.rule.change < w.by.change

\* Until two readings cross there is one at most, and of the country selected.
OneLoad ==
    /\ \A l \in Loads : load[l] # P!NoLoad => load[l].of = country
    /\ \A l, k \in Loads : load[l] # P!NoLoad /\ load[k] # P!NoLoad => l = k

PriceInv ==
    /\ country \in Countries
    /\ \A c \in DOMAIN rules : rules[c].change \in Nat
    /\ load = [l \in Loads |-> load[l]] /\ mintOf = [m \in Mints |-> mintOf[m]]
    /\ \A l \in Loads : load[l] = P!NoLoad \/ LoadOK(load[l])
    /\ shown.of \in Countries => Earlier(shown.rule, shown.of)
    /\ ~crossed => OneLoad
    /\ ~P!Excused => shown.of = country
    /\ \A m \in Mints : mintOf[m] = P!NoMint \/ MintOK(mintOf[m])

\* Every country has its document, none has, or one was created alone.
Whole(known) == DOMAIN known = Countries \/ alone

EditInv ==
    /\ rules = <<>> \/ Whole(rules)
    /\ listing = [l \in Loads |-> listing[l]]
    /\ \A l \in Loads : listing[l].at = "read" =>
          Whole(listing[l].rules) /\ DOMAIN listing[l].rules \subseteq DOMAIN rules
    /\ list # P!NoForm => Whole(list.rules) /\ DOMAIN list.rules \subseteq DOMAIN rules
    /\ form # P!NoForm => form.of \in DOMAIN rules
    /\ save # P!NoForm => save.of \in DOMAIN rules
    /\ ~touched /\ save # P!NoForm =>
          form # P!NoForm /\ form.of = save.of /\ form.fee = save.fee
    /\ ~dropped

\* Rules only ever become later rules.
Grows == \A c : P!RuleOf(c)' = P!RuleOf(c) \/ Before(P!RuleOf(c), P!RuleOf(c)')

LEMMA RuleChange ==
    ASSUME PriceInv, NEW c
    PROVE  P!RuleOf(c).change \in Nat /\ Earlier(P!RuleOf(c), c)
  BY DEF PriceInv, P!RuleOf, P!UnsetRule, Earlier, Before

\* Reading a rule stores it as it was read.
LEMMA UsedRules ==
    ASSUME PriceInv, NEW c, P!UseRule(c)
    PROVE  /\ Grows /\ \A d \in DOMAIN rules' : rules'[d].change \in Nat
           /\ DOMAIN rules' = {c} \cup DOMAIN rules
  <1>1. DOMAIN rules' = {c} \cup DOMAIN rules
    BY DEF P!UseRule
  <1>2. \A d \in DOMAIN rules' : rules'[d] = P!RuleOf(d)
    BY DEF P!UseRule, P!RuleOf
  <1>3. \A d : P!RuleOf(d)' = P!RuleOf(d)
    BY <1>1, <1>2 DEF P!RuleOf, P!UnsetRule
  <1>4. \A d \in DOMAIN rules' : rules'[d].change \in Nat
    BY <1>2, RuleChange
  <1>5. QED
    BY <1>1, <1>3, <1>4 DEF Grows

LEMMA ListedRules ==
    ASSUME PriceInv, rules' = P!AllRules
    PROVE  Grows /\ \A d \in DOMAIN rules' : rules'[d].change \in Nat
  <1>1. CASE rules # <<>>
    BY <1>1 DEF P!AllRules, PriceInv, Grows, P!RuleOf
  <1>2. CASE rules = <<>>
    <2>1. DOMAIN rules = {}
      BY <1>2
    <2>2. rules' = [c \in Countries |-> P!UnsetRule]
      BY <1>2 DEF P!AllRules
    <2>3. QED
      BY <2>1, <2>2 DEF Grows, P!RuleOf, P!UnsetRule
  <1>3. QED
    BY <1>1, <1>2

LEMMA WrittenRules ==
    ASSUME PriceInv, NEW c, NEW fee,
           rules' = [rules EXCEPT ![c] = [fee |-> fee, change |-> rules[c].change + 1]]
    PROVE  /\ Grows /\ \A d \in DOMAIN rules' : rules'[d].change \in Nat
           /\ DOMAIN rules' = DOMAIN rules
  <1>1. DOMAIN rules' = DOMAIN rules
    OBVIOUS
  <1>2. \A d \in DOMAIN rules : d # c => rules'[d] = rules[d]
    OBVIOUS
  <1>3. c \in DOMAIN rules => rules'[c] = [fee |-> fee, change |-> rules[c].change + 1]
    OBVIOUS
  <1>4. \A d \in DOMAIN rules : rules[d].change \in Nat
    BY DEF PriceInv
  <1>5. \A d \in DOMAIN rules' : rules'[d].change \in Nat
    BY <1>1, <1>2, <1>3, <1>4
  <1>6. ASSUME NEW d
        PROVE  P!RuleOf(d)' = P!RuleOf(d) \/ Before(P!RuleOf(d), P!RuleOf(d)')
    <2>1. CASE d \in DOMAIN rules /\ d = c
      BY <2>1, <1>1, <1>3, <1>4 DEF P!RuleOf, Before
    <2>2. CASE ~(d \in DOMAIN rules /\ d = c)
      BY <2>2, <1>1, <1>2 DEF P!RuleOf, P!UnsetRule
    <2>3. QED
      BY <2>1, <2>2
  <1>7. QED
    BY <1>1, <1>5, <1>6 DEF Grows

\* What was read stays an earlier rule.
LEMMA EarlierKept ==
    ASSUME Grows, NEW v, NEW c, Earlier(v, c)
    PROVE  Earlier(v, c)'
  BY DEF Grows, Earlier, Before

LEMMA LoadStays ==
    ASSUME Grows, NEW w, LoadOK(w)
    PROVE  LoadOK(w)'
  BY EarlierKept DEF LoadOK

LEMMA MintStays ==
    ASSUME Grows, NEW w, MintOK(w)
    PROVE  MintOK(w)'
  <1>1. Earlier(w.shown.rule, w.of) => Earlier(w.shown.rule, w.of)'
    <2>1. PICK v, c : v = w.shown.rule /\ c = w.of
      OBVIOUS
    <2>2. QED
      BY <2>1, EarlierKept
  <1>2. QED
    BY <1>1 DEF MintOK

\* What is pending on the mint page is as good as it was.
PagesStand ==
    /\ Grows /\ \A c \in DOMAIN rules' : rules'[c].change \in Nat

LEMMA LoadsStand ==
    ASSUME PriceInv, PagesStand, NEW l \in Loads, load'[l] = load[l]
    PROVE  load'[l] = P!NoLoad \/ LoadOK(load[l])'
  <1>1. PICK w : w = load[l]
    OBVIOUS
  <1>2. w = P!NoLoad \/ LoadOK(w)'
    BY <1>1, LoadStays DEF PriceInv, PagesStand
  <1>3. QED
    BY <1>1, <1>2 DEF LoadOK, Earlier, P!NoLoad

LEMMA MintsStand ==
    ASSUME PriceInv, PagesStand, NEW m \in Mints, mintOf'[m] = mintOf[m]
    PROVE  mintOf'[m] = P!NoMint \/ MintOK(mintOf[m])'
  <1>1. PICK w : w = mintOf[m]
    OBVIOUS
  <1>2. w = P!NoMint \/ MintOK(w)'
    BY <1>1, MintStays DEF PriceInv, PagesStand
  <1>3. QED
    BY <1>1, <1>2 DEF MintOK, Earlier, P!NoMint

LEMMA ShownStands ==
    ASSUME PriceInv, PagesStand, shown' = shown, shown.of \in Countries
    PROVE  Earlier(shown.rule, shown.of)'
  <1>1. PICK v, c : v = shown.rule /\ c = shown.of
    OBVIOUS
  <1>2. Earlier(v, c)'
    BY <1>1, EarlierKept DEF PriceInv, PagesStand
  <1>3. QED
    BY <1>1, <1>2 DEF Earlier

\* The rules change, and nothing on the mint page.
LEMMA PageStands ==
    ASSUME PriceInv, PagesStand, UNCHANGED P!mintPage
    PROVE  PriceInv'
  <1>1. UNCHANGED <<country, shown, load, mintOf, failed, crossed>>
    BY DEF P!mintPage
  <1>2. \A l \in Loads : load'[l] = P!NoLoad \/ LoadOK(load[l])'
    BY <1>1, LoadsStand
  <1>3. \A m \in Mints : mintOf'[m] = P!NoMint \/ MintOK(mintOf[m])'
    BY <1>1, MintsStand
  <1>4. shown'.of \in Countries => Earlier(shown.rule, shown.of)'
    BY <1>1, ShownStands
  <1>5. QED
    BY <1>1, <1>2, <1>3, <1>4 DEF PriceInv, PagesStand, P!Excused, OneLoad, P!NoLoad, P!NoMint

LEMMA NoGrowth ==
    ASSUME PriceInv, UNCHANGED rules
    PROVE  PagesStand
  BY DEF PagesStand, Grows, PriceInv, P!RuleOf, P!UnsetRule

\* The country selected and the rule shown.
LEMMA LoadKept ==
    ASSUME PriceInv, NEW l \in Loads, NEW c \in Countries,
           P!ChooseCountry(c, l) \/ P!ReadRule(l) \/ P!LandRule(l) \/ P!LoseRule(l)
    PROVE  PriceInv'
  <1>1. CASE P!ChooseCountry(c, l)
    <2>1. /\ country' = c /\ load[l] = P!NoLoad /\ load' = [load EXCEPT ![l] = [at |-> "sent", of |-> c]]
          /\ crossed' = (crossed \/ \E k \in Loads : load[k] # P!NoLoad)
          /\ UNCHANGED <<rules, shown, mintOf, failed>>
      BY <1>1 DEF P!ChooseCountry
    <2>2. PagesStand
      BY <2>1, NoGrowth
    <2>3. /\ load' = [k \in Loads |-> load'[k]] /\ load'[l] = [at |-> "sent", of |-> c]
          /\ \A k \in Loads \ {l} : load'[k] = load[k]
      BY <2>1 DEF PriceInv
    <2>4. load'[l].at = "sent" /\ load'[l].of = c /\ load'[l] # P!NoLoad
      BY <2>3 DEF P!NoLoad
    <2>5. LoadOK(load[l])'
      BY <2>4 DEF LoadOK
    <2>6. \A k \in Loads : load'[k] = P!NoLoad \/ LoadOK(load[k])'
      BY <2>2, <2>3, <2>5, LoadsStand
    <2>7. \A m \in Mints : mintOf'[m] = P!NoMint \/ MintOK(mintOf[m])'
      BY <2>1, <2>2, MintsStand
    <2>8. shown'.of \in Countries => Earlier(shown.rule, shown.of)'
      BY <2>1, <2>2, ShownStands
    <2>9. ~crossed' => OneLoad'
      BY <2>1, <2>3, <2>4 DEF OneLoad, P!NoLoad
    <2>10. P!Excused'
      BY <2>4 DEF P!Excused, P!NoLoad
    <2>11. QED
      BY <2>1, <2>2, <2>3, <2>6, <2>7, <2>8, <2>9, <2>10 DEF PriceInv, PagesStand, P!NoLoad, P!NoMint
  <1>2. CASE P!ReadRule(l)
    <2>1. PICK d : d = load[l].of
      OBVIOUS
    <2>2. PICK v : v = P!RuleOf(d)
      OBVIOUS
    <2>3. /\ load[l].at = "sent" /\ load' = [load EXCEPT ![l] = [at |-> "read", of |-> d, rule |-> v]]
          /\ P!UseRule(d) /\ UNCHANGED <<country, shown, mintOf, failed, crossed>>
      BY <1>2, <2>1, <2>2 DEF P!ReadRule
    <2>4. PagesStand
      BY <2>3, UsedRules DEF PagesStand
    <2>5. /\ load' = [k \in Loads |-> load'[k]] /\ load'[l] = [at |-> "read", of |-> d, rule |-> v]
          /\ \A k \in Loads \ {l} : load'[k] = load[k]
      BY <2>3 DEF PriceInv
    <2>6. load'[l].at = "read" /\ load'[l].of = d /\ load'[l].rule = v
      BY <2>5
    <2>7. load[l] # P!NoLoad /\ d \in Countries
      BY <2>1, <2>3 DEF PriceInv, P!NoLoad, LoadOK
    <2>8. Earlier(v, d)'
      <3>1. Earlier(v, d)
        BY <2>2, RuleChange
      <3>2. QED
        BY <2>4, <3>1, EarlierKept DEF PagesStand
    <2>9. LoadOK(load[l])'
      BY <2>6, <2>7, <2>8 DEF LoadOK, Earlier
    <2>10. \A k \in Loads : load'[k] = P!NoLoad \/ LoadOK(load[k])'
      BY <2>4, <2>5, <2>9, LoadsStand
    <2>11. \A m \in Mints : mintOf'[m] = P!NoMint \/ MintOK(mintOf[m])'
      BY <2>3, <2>4, MintsStand
    <2>12. shown'.of \in Countries => Earlier(shown.rule, shown.of)'
      BY <2>3, <2>4, ShownStands
    <2>13. \A k \in Loads : (load'[k] = P!NoLoad) = (load[k] = P!NoLoad)
      BY <2>5, <2>6, <2>7 DEF P!NoLoad
    <2>14. \A k \in Loads : load[k] # P!NoLoad => load'[k].of = load[k].of
      BY <2>1, <2>5, <2>6
    <2>15. ~crossed' => OneLoad'
      BY <2>3, <2>13, <2>14 DEF PriceInv, OneLoad, P!NoLoad
    <2>16. ~P!Excused' => shown'.of = country'
      BY <2>3, <2>13 DEF PriceInv, P!Excused, P!NoLoad
    <2>17. QED
      BY <2>3, <2>4, <2>5, <2>10, <2>11, <2>12, <2>15, <2>16 DEF PriceInv, PagesStand, P!NoLoad, P!NoMint
  <1>3. CASE P!LandRule(l) \/ P!LoseRule(l)
    <2>1. /\ load' = [load EXCEPT ![l] = P!NoLoad] /\ load[l] # P!NoLoad
          /\ UNCHANGED <<rules, country, mintOf, crossed>>
      BY <1>3 DEF P!LandRule, P!LoseRule, P!NoLoad
    <2>2. PagesStand
      BY <2>1, NoGrowth
    <2>3. /\ load' = [k \in Loads |-> load'[k]] /\ load'[l] = P!NoLoad
          /\ \A k \in Loads \ {l} : load'[k] = load[k]
      BY <2>1 DEF PriceInv
    <2>4. \A k \in Loads : load'[k] = P!NoLoad \/ LoadOK(load[k])'
      BY <2>2, <2>3, LoadsStand
    <2>5. \A m \in Mints : mintOf'[m] = P!NoMint \/ MintOK(mintOf[m])'
      BY <2>1, <2>2, MintsStand
    <2>6. ~crossed' => OneLoad'
      BY <2>1, <2>3 DEF PriceInv, OneLoad, P!NoLoad
    <2>7. CASE P!LoseRule(l)
      <3>1. shown' = shown /\ failed'
        BY <2>7 DEF P!LoseRule
      <3>2. shown'.of \in Countries => Earlier(shown.rule, shown.of)'
        BY <2>2, <3>1, ShownStands
      <3>3. QED
        BY <2>1, <2>2, <2>3, <2>4, <2>5, <2>6, <3>1, <3>2
           DEF PriceInv, PagesStand, P!Excused, P!NoLoad, P!NoMint
    <2>8. CASE P!LandRule(l)
      <3>1. PICK d, v : d = load[l].of /\ v = load[l].rule
        OBVIOUS
      <3>2. shown'.of = d /\ shown'.rule = v /\ load[l].at = "read" /\ failed' = failed
        BY <2>8, <3>1 DEF P!LandRule
      <3>3. Earlier(v, d)
        BY <2>1, <3>1, <3>2 DEF PriceInv, LoadOK
      <3>4. Earlier(shown.rule, shown.of)'
        <4>1. Earlier(v, d)'
          BY <2>2, <3>3, EarlierKept DEF PagesStand
        <4>2. QED
          BY <3>2, <4>1 DEF Earlier
      <3>5. ~P!Excused' => shown'.of = country'
        BY <2>1, <3>1, <3>2 DEF PriceInv, OneLoad, P!Excused
      <3>6. QED
        BY <2>1, <2>2, <2>3, <2>4, <2>5, <2>6, <3>4, <3>5 DEF PriceInv, PagesStand, P!NoLoad, P!NoMint
    <2>9. QED
      BY <1>3, <2>7, <2>8
  <1>4. QED
    BY <1>1, <1>2, <1>3

\* A mint changes its progress; the rules perhaps grow.
LEMMA MintNext ==
    ASSUME PriceInv, PagesStand, NEW m \in Mints, NEW w, mintOf' = [mintOf EXCEPT ![m] = w],
           w = P!NoMint \/ MintOK(w)', UNCHANGED <<country, shown, load, failed, crossed>>
    PROVE  PriceInv'
  <1>1. /\ mintOf' = [k \in Mints |-> mintOf'[k]] /\ mintOf'[m] = w
        /\ \A k \in Mints \ {m} : mintOf'[k] = mintOf[k]
    BY DEF PriceInv
  <1>2. \A l \in Loads : load'[l] = P!NoLoad \/ LoadOK(load[l])'
    BY LoadsStand
  <1>3. mintOf'[m] = P!NoMint \/ MintOK(mintOf[m])'
    BY <1>1 DEF MintOK, Earlier, P!NoMint
  <1>4. \A k \in Mints : mintOf'[k] = P!NoMint \/ MintOK(mintOf[k])'
    BY <1>1, <1>3, MintsStand
  <1>5. shown'.of \in Countries => Earlier(shown.rule, shown.of)'
    BY ShownStands
  <1>6. QED
    BY <1>1, <1>2, <1>4, <1>5 DEF PriceInv, PagesStand, P!Excused, OneLoad, P!NoLoad, P!NoMint

LEMMA MintKept ==
    ASSUME PriceInv, NEW m \in Mints,
           P!Submit(m) \/ P!Charge(m) \/ P!ShowResult(m) \/ P!ShowError(m)
    PROVE  PriceInv'
  <1>1. UNCHANGED <<country, shown, load, failed, crossed>>
    BY DEF P!Submit, P!Charge, P!ShowResult, P!ShowError
  <1>2. CASE P!Submit(m)
    <2>1. PICK w : w = [at |-> "sent", of |-> country, shown |-> shown, excused |-> P!Excused]
      OBVIOUS
    <2>2. mintOf' = [mintOf EXCEPT ![m] = w] /\ rules' = rules
      BY <1>2, <2>1 DEF P!Submit
    <2>3. PagesStand
      BY <2>2, NoGrowth
    <2>4. /\ w.at = "sent" /\ w.of = country /\ w.shown = shown
          /\ ~w.excused => ~P!Excused
      BY <2>1
    <2>5. MintOK(w)
      BY <2>4 DEF MintOK, PriceInv
    <2>6. MintOK(w)'
      BY <2>3, <2>5, MintStays DEF PagesStand
    <2>7. QED
      BY <1>1, <2>2, <2>3, <2>6, MintNext
  <1>3. CASE P!Charge(m)
    <2>1. PICK was : was = mintOf[m]
      OBVIOUS
    <2>2. PICK v : v = P!RuleOf(was.of)
      OBVIOUS
    <2>3. PICK w : w = [at |-> "charged", of |-> was.of, shown |-> was.shown,
                        excused |-> was.excused, by |-> v]
      OBVIOUS
    <2>4. /\ was.at = "sent" /\ mintOf' = [mintOf EXCEPT ![m] = w] /\ P!UseRule(was.of)
      BY <1>3, <2>1, <2>2, <2>3 DEF P!Charge
    <2>5. PagesStand
      BY <2>4, UsedRules DEF PagesStand
    <2>6. MintOK(was)
      BY <2>1, <2>4 DEF PriceInv, P!NoMint
    <2>7. MintOK(w)
      <3>1. ~was.excused => Before(was.shown.rule, v)
        BY <2>2, <2>4, <2>6 DEF MintOK, Earlier
      <3>2. QED
        BY <2>3, <2>6, <3>1 DEF MintOK, Before
    <2>8. MintOK(w)'
      BY <2>5, <2>7, MintStays DEF PagesStand
    <2>9. QED
      BY <1>1, <2>4, <2>5, <2>8, MintNext
  <1>4. CASE P!ShowResult(m)
    <2>1. PICK was : was = mintOf[m]
      OBVIOUS
    <2>2. PICK w : w = [was EXCEPT !.at = "shown"]
      OBVIOUS
    <2>3. was.at = "charged" /\ mintOf' = [mintOf EXCEPT ![m] = w] /\ rules' = rules
      BY <1>4, <2>1, <2>2 DEF P!ShowResult
    <2>4. PagesStand
      BY <2>3, NoGrowth
    <2>5. MintOK(was)
      BY <2>1, <2>3 DEF PriceInv, P!NoMint
    <2>6. MintOK(w)
      BY <2>2, <2>3, <2>5 DEF MintOK
    <2>7. MintOK(w)'
      BY <2>4, <2>6, MintStays DEF PagesStand
    <2>8. QED
      BY <1>1, <2>3, <2>4, <2>7, MintNext
  <1>5. CASE P!ShowError(m)
    <2>1. mintOf' = [mintOf EXCEPT ![m] = P!NoMint] /\ rules' = rules
      BY <1>5 DEF P!ShowError
    <2>2. PagesStand
      BY <2>1, NoGrowth
    <2>3. QED
      BY <1>1, <2>1, <2>2, MintNext
  <1>6. QED
    BY <1>2, <1>3, <1>4, <1>5

LEMMA PriceInit == P!Init => PriceInv
  <1> SUFFICES ASSUME P!Init
               PROVE  PriceInv
    OBVIOUS
  <1>1. /\ rules = <<>> /\ country = FirstCountry /\ shown = P!NoRule
        /\ load = [l \in Loads |-> IF l = P!Opened THEN [at |-> "sent", of |-> FirstCountry]
                                   ELSE P!NoLoad]
        /\ mintOf = [m \in Mints |-> P!NoMint]
    BY DEF P!Init
  <1>2. DOMAIN rules = {}
    BY <1>1
  <1>3. P!Opened \in Loads
    BY PagesAssumption DEF P!Opened
  <1>4. PICK w : w = [at |-> "sent", of |-> FirstCountry]
    OBVIOUS
  <1>5. w # P!NoLoad /\ LoadOK(w) /\ w.of = FirstCountry
    BY <1>4, PagesAssumption DEF P!NoLoad, LoadOK
  <1>6. \A l \in Loads : load[l] = IF l = P!Opened THEN w ELSE P!NoLoad
    BY <1>1, <1>4
  <1>7. P!Excused
    BY <1>3, <1>5, <1>6 DEF P!Excused
  <1>8. shown.of \notin Countries
    BY <1>1, PagesAssumption DEF P!NoRule
  <1>9. OneLoad
    BY <1>1, <1>5, <1>6 DEF OneLoad
  <1>10. \A l \in Loads : load[l] = P!NoLoad \/ LoadOK(load[l])
    BY <1>5, <1>6
  <1>11. country \in Countries
    BY <1>1, PagesAssumption
  <1>12. \A m \in Mints : mintOf[m] = P!NoMint
    BY <1>1
  <1>13. /\ load = [l \in Loads |-> load[l]] /\ mintOf = [m \in Mints |-> mintOf[m]]
    BY <1>1
  <1>14. QED
    BY <1>2, <1>7, <1>8, <1>9, <1>10, <1>11, <1>12, <1>13 DEF PriceInv

\* What is shown beside the button, at every step of either page.
LEMMA PriceNext ==
    ASSUME PriceInv, [P!Next]_(P!consoleVars)
    PROVE  PriceInv'
  <1>1. ASSUME NEW l \in Loads, P!ReadList(l)
        PROVE  PriceInv'
    <2>1. rules' = P!AllRules /\ UNCHANGED P!mintPage
      BY <1>1 DEF P!ReadList
    <2>2. QED
      BY <2>1, ListedRules, PageStands DEF PagesStand
  <1>2. CASE P!WriteRule
    <2>1. UNCHANGED P!mintPage
      BY <1>2 DEF P!WriteRule
    <2>2. PICK c, fee : c = save.of /\ fee = save.fee
      OBVIOUS
    <2>3. rules' = [rules EXCEPT ![c] = [fee |-> fee, change |-> rules[c].change + 1]]
      BY <1>2, <2>2 DEF P!WriteRule
    <2>4. QED
      BY <2>1, <2>3, WrittenRules, PageStands DEF PagesStand
  <1>3. ASSUME UNCHANGED <<rules, P!mintPage>>
        PROVE  PriceInv'
    BY <1>3, NoGrowth, PageStands
  <1>4. ASSUME NEW l \in Loads, P!LandList(l) \/ P!LoseList(l) \/ P!EndSave(l)
        PROVE  PriceInv'
    BY <1>3, <1>4 DEF P!LandList, P!LoseList, P!EndSave
  <1>5. ASSUME \/ \E c \in Countries : P!Edit(c)
               \/ \E f \in Fees : P!Change(f)
               \/ P!Cancel \/ P!Save \/ P!FailSave
        PROVE  PriceInv'
    BY <1>3, <1>5 DEF P!Edit, P!Change, P!Cancel, P!Save, P!FailSave
  <1>6. ASSUME NEW l \in Loads,
               \/ \E c \in Countries : P!ChooseCountry(c, l)
               \/ P!ReadRule(l) \/ P!LandRule(l) \/ P!LoseRule(l)
        PROVE  PriceInv'
    <2>1. FirstCountry \in Countries
      BY PagesAssumption
    <2>2. QED
      BY <1>6, <2>1, LoadKept
  <1>7. CASE UNCHANGED P!consoleVars
    BY <1>3, <1>7 DEF P!consoleVars
  <1>8. CASE P!Next
    BY <1>1, <1>2, <1>4, <1>5, <1>6, <1>8, MintKept DEF P!Next
  <1>9. QED
    BY <1>7, <1>8

\* The list, its readings and the form stand when the rules only grow.
ListsStand ==
    /\ DOMAIN rules \subseteq DOMAIN rules' /\ (alone => alone')
    /\ rules' = <<>> \/ Whole(rules)'

LEMMA RulesWhole ==
    ASSUME PriceInv, EditInv, NEW c,
           \/ P!UseRule(c)
           \/ rules' = P!AllRules /\ alone' = alone
           \/ UNCHANGED <<rules, alone>>
    PROVE  ListsStand
  <1>1. CASE P!UseRule(c)
    <2>1. DOMAIN rules' = {c} \cup DOMAIN rules
      BY <1>1, UsedRules
    <2>2. alone' = (alone \/ c \notin DOMAIN rules)
      BY <1>1 DEF P!UseRule
    <2>3. rules = <<>> => DOMAIN rules = {}
      OBVIOUS
    <2>4. QED
      BY <2>1, <2>2, <2>3 DEF ListsStand, Whole, EditInv
  <1>2. CASE rules' = P!AllRules /\ alone' = alone
    <2>1. rules = <<>> => DOMAIN rules = {}
      OBVIOUS
    <2>2. CASE rules = <<>>
      BY <1>2, <2>1, <2>2 DEF P!AllRules, ListsStand, Whole
    <2>3. CASE rules # <<>>
      BY <1>2, <2>3 DEF P!AllRules, ListsStand, Whole, EditInv
    <2>4. QED
      BY <2>2, <2>3
  <1>3. CASE UNCHANGED <<rules, alone>>
    BY <1>3 DEF ListsStand, Whole, EditInv
  <1>4. QED
    BY <1>1, <1>2, <1>3

LEMMA ListsSame ==
    ASSUME EditInv, ListsStand, UNCHANGED P!rulePage
    PROVE  EditInv'
  BY DEF EditInv, ListsStand, Whole, P!rulePage, P!NoForm

\* A reading of the list.
LEMMA ListNext ==
    ASSUME PriceInv, EditInv, NEW l \in Loads, NEW w, listing' = [listing EXCEPT ![l] = w],
           w.at = "read" => Whole(w.rules)' /\ DOMAIN w.rules \subseteq DOMAIN rules',
           ListsStand, list' = list \/ (list'.rules = listing[l].rules /\ listing[l].at = "read"),
           UNCHANGED <<form, save, touched, dropped>>
    PROVE  EditInv'
  <1>1. /\ listing' = [k \in Loads |-> listing'[k]] /\ listing'[l] = w
        /\ \A k \in Loads \ {l} : listing'[k] = listing[k]
    BY DEF EditInv
  <1>2. \A k \in Loads : listing'[k].at = "read" =>
          Whole(listing[k].rules)' /\ DOMAIN listing'[k].rules \subseteq DOMAIN rules'
    BY <1>1 DEF EditInv, ListsStand, Whole
  <1>3. list' # P!NoForm => Whole(list.rules)' /\ DOMAIN list'.rules \subseteq DOMAIN rules'
    BY DEF EditInv, ListsStand, Whole
  <1>4. QED
    BY <1>1, <1>2, <1>3 DEF EditInv, ListsStand, P!NoForm

LEMMA ListKept ==
    ASSUME PriceInv, EditInv, NEW l \in Loads, P!ReadList(l) \/ P!LandList(l) \/ P!LoseList(l)
    PROVE  EditInv'
  <1>1. ListsStand
    BY RulesWhole DEF P!ReadList, P!LandList, P!LoseList
  <1>2. UNCHANGED <<form, save, touched, dropped>>
    BY DEF P!ReadList, P!LandList, P!LoseList
  <1>3. CASE P!ReadList(l)
    <2>1. PICK w : w = [at |-> "read", rules |-> P!AllRules]
      OBVIOUS
    <2>2. rules' = P!AllRules /\ listing' = [listing EXCEPT ![l] = w] /\ list' = list /\ alone' = alone
      BY <1>3, <2>1 DEF P!ReadList
    <2>3. w.rules = rules' /\ (DOMAIN rules' = Countries \/ alone')
      <3>1. rules = <<>> => DOMAIN P!AllRules = Countries
        BY DEF P!AllRules
      <3>2. rules # <<>> => DOMAIN P!AllRules = Countries \/ alone
        BY DEF P!AllRules, EditInv, Whole
      <3>3. QED
        BY <2>1, <2>2, <3>1, <3>2
    <2>4. QED
      BY <1>1, <1>2, <2>2, <2>3, ListNext DEF Whole
  <1>4. CASE P!LandList(l) \/ P!LoseList(l)
    <2>1. PICK w : w = P!NoLoad
      OBVIOUS
    <2>2. /\ listing' = [listing EXCEPT ![l] = w] /\ w.at # "read"
          /\ list' = list \/ (list'.rules = listing[l].rules /\ listing[l].at = "read")
      BY <1>4, <2>1 DEF P!LandList, P!LoseList, P!NoLoad
    <2>3. QED
      BY <1>1, <1>2, <2>2, ListNext
  <1>5. QED
    BY <1>3, <1>4

\* The form of a rule.
LEMMA FormOfRule ==
    ASSUME PriceInv, EditInv, NEW c, NEW f, P!Edit(c) \/ P!Change(f) \/ P!Cancel
    PROVE  EditInv'
  <1>1. /\ UNCHANGED <<rules, alone, list, listing, save, dropped>>
        /\ touched' = (touched \/ save # P!NoForm)
    BY DEF P!Edit, P!Change, P!Cancel, P!Saving
  <1>2. form' # P!NoForm => form'.of \in DOMAIN rules
    <2>1. CASE P!Edit(c)
      BY <2>1 DEF P!Edit, EditInv
    <2>2. CASE P!Change(f)
      BY <2>2 DEF P!Change, EditInv
    <2>3. CASE P!Cancel
      BY <2>3 DEF P!Cancel
    <2>4. QED
      BY <2>1, <2>2, <2>3
  <1>3. QED
    BY <1>1, <1>2 DEF EditInv, Whole, P!NoForm

\* A save, from the button to its answer.
LEMMA SaveKept ==
    ASSUME PriceInv, EditInv, NEW l \in Loads,
           P!Save \/ P!WriteRule \/ P!EndSave(l) \/ P!FailSave
    PROVE  EditInv'
  <1>1. CASE P!Save
    BY <1>1 DEF P!Save, EditInv, Whole, P!NoForm
  <1>2. CASE P!FailSave
    BY <1>2 DEF P!FailSave, EditInv, Whole, P!NoForm
  <1>3. CASE P!WriteRule
    <2>1. PICK c, fee : c = save.of /\ fee = save.fee
      OBVIOUS
    <2>2. /\ rules' = [rules EXCEPT ![c] = [fee |-> fee, change |-> rules[c].change + 1]]
          /\ save # P!NoForm /\ save' = [save EXCEPT !.at = "written"]
          /\ UNCHANGED <<alone, list, listing, form, touched, dropped>>
      BY <1>3, <2>1 DEF P!WriteRule, P!Saving
    <2>3. DOMAIN rules' = DOMAIN rules
      BY <2>2, WrittenRules
    <2>4. save'.of = save.of /\ save'.fee = save.fee
      BY <2>2
    <2>5. rules # <<>>
      BY <2>2 DEF EditInv
    <2>6. QED
      BY <2>2, <2>3, <2>4, <2>5 DEF EditInv, Whole, P!NoForm
  <1>4. CASE P!EndSave(l)
    <2>1. /\ listing' = [listing EXCEPT ![l] = [at |-> "sent"]] /\ form' = P!NoForm /\ save' = P!NoForm
          /\ dropped' = (dropped \/ (P!Lost /\ ~touched)) /\ save # P!NoForm
          /\ UNCHANGED <<rules, alone, list, touched>>
      BY <1>4 DEF P!EndSave, P!Saving
    <2>2. ~dropped'
      BY <2>1 DEF EditInv, P!Lost
    <2>3. /\ listing' = [k \in Loads |-> listing'[k]] /\ listing'[l] = [at |-> "sent"]
          /\ \A k \in Loads \ {l} : listing'[k] = listing[k]
      BY <2>1 DEF EditInv
    <2>4. listing'[l].at # "read"
      BY <2>3
    <2>5. QED
      BY <2>1, <2>2, <2>3, <2>4 DEF EditInv, Whole, P!NoForm
  <1>5. QED
    BY <1>1, <1>2, <1>3, <1>4

LEMMA EditInit == P!Init => EditInv
  BY DEF P!Init, EditInv, P!NoForm, P!NoLoad

LEMMA EditNext ==
    ASSUME PriceInv, EditInv, [P!Next]_(P!consoleVars)
    PROVE  EditInv'
  <1>1. ASSUME NEW c, P!UseRule(c) \/ UNCHANGED <<rules, alone>>, UNCHANGED P!rulePage
        PROVE  EditInv'
    <2>1. ListsStand
      BY <1>1, RulesWhole, Zenon
    <2>2. QED
      BY <1>1, <2>1, ListsSame
  <1>2. ASSUME NEW l \in Loads,
               \/ \E c \in Countries : P!ChooseCountry(c, l)
               \/ P!ReadRule(l) \/ P!LandRule(l) \/ P!LoseRule(l)
        PROVE  EditInv'
    <2>1. UNCHANGED P!rulePage
      BY <1>2 DEF P!ChooseCountry, P!ReadRule, P!LandRule, P!LoseRule
    <2>2. PICK c : c = load[l].of
      OBVIOUS
    <2>3. P!UseRule(c) \/ UNCHANGED <<rules, alone>>
      BY <1>2, <2>2 DEF P!ChooseCountry, P!ReadRule, P!LandRule, P!LoseRule
    <2>4. QED
      BY <1>1, <2>1, <2>3
  <1>3. ASSUME NEW m \in Mints, P!Submit(m) \/ P!Charge(m) \/ P!ShowResult(m) \/ P!ShowError(m)
        PROVE  EditInv'
    <2>1. UNCHANGED P!rulePage
      BY <1>3 DEF P!Submit, P!Charge, P!ShowResult, P!ShowError
    <2>2. PICK c : c = mintOf[m].of
      OBVIOUS
    <2>3. P!UseRule(c) \/ UNCHANGED <<rules, alone>>
      BY <1>3, <2>2 DEF P!Submit, P!Charge, P!ShowResult, P!ShowError
    <2>4. QED
      BY <1>1, <2>1, <2>3
  <1>4. CASE P!Save \/ P!WriteRule \/ P!FailSave
    <2>1. Loads # {}
      BY PagesAssumption
    <2>2. QED
      BY <1>4, <2>1, SaveKept
  <1>5. CASE UNCHANGED P!consoleVars
    BY <1>1, <1>5 DEF P!consoleVars
  <1>6. CASE P!Next
    BY <1>2, <1>3, <1>4, <1>6, ListKept, FormOfRule, SaveKept DEF P!Next
  <1>7. QED
    BY <1>5, <1>6

\* What administrators set is kept, and what they are shown when they decide is what
\* they get: in the rules and their documents (commission-config.ts), on the pages of the
\* mint and of the rules, and in the settings of the panel, as each goes on by itself.
THEOREM SettingsAreKept == Spec /\ P!Spec /\ T!Spec => []SettingsKept
  <1>1. CoinInit /\ DeskInit => UpdatesKept
    BY UpdatesInit
  <1>2. UpdatesKept /\ [Next]_vars => UpdatesKept'
    BY UpdatesNext
  <1>3. P!Init => PriceInv /\ EditInv
    BY PriceInit, EditInit
  <1>4. PriceInv /\ EditInv /\ [P!Next]_(P!consoleVars) => (PriceInv /\ EditInv)'
    BY PriceNext, EditNext
  <1>5. T!Init => SettingsInv
    BY SettingsInit
  <1>6. SettingsInv /\ [T!Next]_(T!panelVars) => SettingsInv'
    BY PanelNext
  <1>7. PriceInv => P!PriceShown
    BY DEF PriceInv, P!PriceShown, MintOK, P!NoMint
  <1>8. EditInv => P!EditsKept /\ P!ListWhole
    BY DEF EditInv, Whole, P!EditsKept, P!ListWhole
  <1>9. SettingsInv => T!SettingsKept /\ T!FeesSteady
    BY DEF SettingsInv, TabsFollow, T!SettingsKept, T!FeesSteady
  <1>10. UpdatesKept /\ PriceInv /\ EditInv /\ SettingsInv => SettingsKept
    BY <1>7, <1>8, <1>9 DEF SettingsKept
  <1>11. QED
    BY <1>1, <1>2, <1>3, <1>4, <1>5, <1>6, <1>10, PTL DEF Spec, P!Spec, T!Spec

=============================================================================
