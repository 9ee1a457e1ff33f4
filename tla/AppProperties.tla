------------------------------ MODULE AppProperties ------------------------------
(***************************************************************************)
(* What parts of the web app promise: its users, the audit of the ledger,  *)
(* card payments, the pages, the demonstration users, the browser that     *)
(* shows the ledger, the transfers between coins, the page for MiniPay,    *)
(* who becomes a user, and the forms for a withdrawal and for sending      *)
(* coins.  In these modules they share no state.  The users keep their own *)
(* names; the others are instances.                                        *)
(***************************************************************************)
EXTENDS Users, FiniteSets

CONSTANTS
    Holders, AuditAmounts, AuditOpening, Postings, Auditors, MaxSettings,      \* audit
    Payments, CardAmounts, CardOpening, MaxMoves,                              \* card payments
    PageRequests, MaxLapses,                                                   \* pages
    DemoUsers, DemoTransfers, DemoAmounts, DemoOpening, MaxMishaps,            \* demonstration
    People, Newcomers, Syncs, BrowserAmounts, Opening, MaxPostings, MaxTrades, \* browser
    Traders, Treasury, Swaps, SwapCoins, Mesoamerica, Rate, SwapAmounts,       \* swaps
    SwapOpening, SingleLimit, DailyLimit, MaxUnderWay,
    WalletAccounts, NoAccount, MiniCalls, Sends,                               \* MiniPay
    Ids, UserPhones, AdminPages, App, Client, AccessCalls, Loads, MaxCalls,    \* access
    BankAccounts, CountryOf, Country, None, WithdrawAmounts, WithdrawOpening,  \* withdrawal
    Rules, Withdrawals, MaxMovements,
    Numbers, OwnerOf, Demos, Sender, NobodyThere, Empty, SendCoins,            \* sending
    SendAmounts, LookUps, CoinTransfers

VARIABLES
    balances, entriesNet, reserve, frozen, asking, audit, settings, torn, finer,
    balance, amount, payment, seen, given, moves, spoiled,
    page, request, lapses, booked, misled,
    document, local, dirty, transfer, mishaps, disturbed,
    ledger, known, auth, signing, shown, listed, sync, form, trades,
    base, caught, stray, oneSided, between,
    purse, swap,
    config, view, address, balanceOf, successHash, screen, opening, send, told, sent,
    misinformed, clicked,
    users, call, load, rows, sentCalls, shownDeleted, mixed, alongside, revived,
    saved, fading, place, bankForm, asked, funds, shownFunds, rule, postings, faded,
    step, text, focused, info, lookUp, fields, quote, loading, sending, paidBy, astray, touched

\* Coins and amounts are whole numbers, and balances whole cents; sums and counts
\* are over finite sets.
ASSUME AuditAssumption ==
    /\ IsFiniteSet(Holders)
    /\ AuditAmounts \subseteq Nat /\ AuditOpening \in Nat /\ AuditOpening % 10 = 0
ASSUME CardAssumption == CardAmounts \subseteq Nat /\ CardOpening \in Nat
ASSUME DemoAssumption ==
    /\ IsFiniteSet(DemoUsers)
    /\ DemoAmounts \subseteq Nat /\ DemoOpening \in Nat
ASSUME BrowserAssumption == BrowserAmounts \subseteq Nat /\ Opening \in Nat
ASSUME MiniAssumption == IsFiniteSet(Sends)
ASSUME PagesAssumption == IsFiniteSet(PageRequests)
ASSUME WithdrawAssumption ==
    /\ WithdrawAmounts \subseteq Nat /\ WithdrawOpening \in Nat
    /\ Rules \subseteq [fee_permille : Int, fee_min : Int, fee_max : Int]
ASSUME SwapAssumption ==
    /\ IsFiniteSet(Traders) /\ Treasury \notin Traders
    /\ IsFiniteSet(SwapCoins) /\ Rate \in [SwapCoins -> Nat \ {0}]
    /\ IsFiniteSet(Swaps)
    /\ SwapAmounts \subseteq Nat /\ SwapOpening \in Nat
    /\ SingleLimit \in Nat /\ DailyLimit \in Nat /\ MaxUnderWay \in Nat \ {0}

R == INSTANCE Reconciliation WITH
        Amounts <- AuditAmounts, OpeningBalance <- AuditOpening, Requests <- Postings

C == INSTANCE CardPayments WITH Amounts <- CardAmounts, OpeningBalance <- CardOpening

P == INSTANCE Pages WITH Requests <- PageRequests

D == INSTANCE DemoWallet WITH
        Transfers <- DemoTransfers, Amounts <- DemoAmounts, OpeningBalance <- DemoOpening

B == INSTANCE Browser WITH Amounts <- BrowserAmounts, crossed <- between

S == INSTANCE Swap WITH
        Coins <- SwapCoins, Amounts <- SwapAmounts, OpeningBalance <- SwapOpening

M == INSTANCE MiniPay WITH
        Accounts <- WalletAccounts, Nobody <- NoAccount, Calls <- MiniCalls,
        misled <- misinformed

K == INSTANCE Access WITH Phones <- UserPhones, Pages <- AdminPages, Calls <- AccessCalls

W == INSTANCE WithdrawPage WITH
        Accounts <- BankAccounts, Amounts <- WithdrawAmounts, OpeningBalance <- WithdrawOpening,
        Requests <- Withdrawals, MaxPostings <- MaxMovements,
        form <- bankForm, shown <- shownFunds

F == INSTANCE SendPage WITH
        Phones <- Numbers, Nobody <- NobodyThere, Coins <- SendCoins, Amounts <- SendAmounts,
        Transfers <- CoinTransfers, transfer <- sending

\* An audit freezes the system for a reason.
AlarmsExplained == R!AlarmsExplained
\* What cannot be burned was spent since it was approved.
RefusedWasSpent == C!RefusedWasSpent
\* What a user means once is booked once, or sent once from his own wallet, and for the
\* recipient, the account, the amount and the fee he was shown.
DoneAsMeant == P!BookedOnce /\ M!SentOnce /\ W!WithdrawnAsMeant /\ F!SentAsMeant
\* The demonstration users' coins add up.
NothingMadeOrLost == D!NothingMadeOrLost
\* A browser shows one account, and that of whoever is signed in or connected.
OwnAccountShown == B!OwnAccountShown /\ M!OwnBalanceShown
\* Swaps, purchases and sales make no money, and swaps stay within the limits.
SwapsSound == S!SwapsSound /\ B!NothingFromNothing
\* A phone is one user's, and whoever brings a deleted user back could not know of the
\* deletion: he had read the document, or loaded the page, before it.
AccountsKept == K!PhonesOwn /\ K!RevivedUnaware

=============================================================================
