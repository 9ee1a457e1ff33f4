# Specifications of Mondega / Lentech

TLA+ models of the money paths of this repository, of its users and of its
services, the TLC configurations that
check them and the theorems TLAPS proves about them. Everything is translated
from the source; `PROJECT.json` maps each definition to its lines, lists every
component, and names the hazards the properties are for.

Paths below are relative to `src/`. `web/` stands for `apps/web/src/`.

## 1. The system

The repository holds two implementations of one product, a wallet for local
stablecoins with deposits, withdrawals, transfers and cards. The web application
(`apps/web`, Next.js routes on Firestore, tokens on Celo) is the one with a
ledger; the services (`services/*`, NestJS and Go on Postgres, Redis and Kafka)
are the older back end. They do not call each other.

| Component | State | Operations | Interacts with |
|---|---|---|---|
| Ledger, `web/lib/ledger.ts` | `len_ledger_entries`, `len_balances` | `postEntries`, one Firestore transaction: all legs or none, a leg whose id exists is skipped, a negative balance throws | called by every wallet route, the saga |
| Wallet routes, `web/app/api/wallet/*` | none of their own | deposit, withdraw, transfer: freeze check, limits, commission, posting, record, screening | ledger, saga, limits, AML, commissions |
| Withdrawal saga, `web/lib/withdrawals.ts` and the operator route | `len_withdrawals` | record, settle, fail (post a reversal, then write the document) | ledger |
| KYC limits, `web/lib/limits.ts` | none; sums the ledger | `checkLimits` | ledger |
| AML, `web/lib/aml.ts` | `len_aml_alerts` | `screenTransaction` | ledger |
| Commissions, `web/lib/commission-config.ts` | the rules, one document per country | calculate, seed, list, update a rule | routes, pages of the console |
| Exchange, `web/lib/fx-engine.ts` | fixed rates and fee tiers | quote | transfer route |
| Freeze and reconciliation, `web/lib/reconciliation.ts` | `len_system/freeze` | report, freeze, unfreeze | ledger, treasury |
| Payment webhooks, six routes | `len_processed_webhooks` | reserve or check, look up, mint or burn, complete or release | treasury client, token |
| Treasury client, `web/lib/celo-admin.ts` | the treasury's nonce | send mint, send burn, read a balance | token |
| Token, `blockchain/contracts/MondegaCoin.sol` | balances, supply cap, blacklist, roles, pause | mint, burnFrom, transfer, freeze | treasury |
| Manual mint, `web/app/api/admin/mint` | reference documents | mint net, mint splits, write reference | treasury |
| Card authorization, `web/app/api/pomelo/authorize` | none | approve when the balance covers | token |
| Transaction engine, `services/tx-engine` | Kafka offsets, Redis locks, `transactions` | consume, lock, send, wait, announce, commit | chain |
| Wallet service, `services/wallet-service` | `wallets`, `transactions`, Redis locks and cached balances | reserve, commit, transfer on chain, settle, query a balance | signer's account, chain |
| Auth service, `services/auth-service` | users, sessions, one-time codes | register, log in, refresh, log out, change and reset a PIN, 2FA, KYC | none |
| Card service, `services/card-service` | cards, card transactions | issue, freeze, authorize | Pomelo |
| Fiat bridge, `services/fiat-bridge` | virtual accounts, deposits, two queues | announce a deposit, four bank webhooks, queue a mint | banks |
| FX engine, `services/fx-engine` | rates and quotes in Redis | refresh, quote, consume | rate providers |
| Users of the web app, `web/lib/users-db.ts`, `identity.ts`, `kyb.ts` | `len_users`, KYC and KYB submissions | sign in, update, reset a PIN, submit, review | admin routes |
| Registration, `auth/register`, `admin/users`, the access page | `len_users` | create, suspend, reactivate, delete, list | Firestore |
| Pages, `web/app/(app)/{send,withdraw,add-money,bank-accounts}`, `PINConfirmModal.tsx`, `components/send/*` | the form, what is shown and under way; bank accounts in the browser | look up a recipient, quote, fill in, confirm, show the answer | wallet routes |
| Browser sessions, `web/store/*`, `login`, `register`, `layout`, `buy-tokens`, `sell-tokens` | the stores in localStorage | sign in and out, reload, fill the store, buy, sell | each other through the store |
| Demonstration wallets, `web/lib/user-db.ts`, `wallet-sync.ts` | `len_demo_users` and the browser's copy | send, credit, save, listen | each other's documents |
| MiniPay page, `web/app/minipay` | account, balance and screen | connect, read the balance, send | wallet in the browser, chain |
| Deployment scripts, `blockchain/scripts/*` | factories, files of addresses | deploy, resume, deploy the rest | factory contract |
| Compliance, `services/compliance`, and the alerts page | `aml_alerts`, the queue `compliance` | check, file, count, list, decide | officers |
| Mint and commission pages, settings of the console, `apps/admin` | the rule previewed, the list and form of the rules; settings in localStorage | preview, mint, edit, save | admin routes; tabs of one browser |
| Notification service, provider clients, mobile app, shared packages, schema | see `PROJECT.json` | | |

What is hard in it:

* **Concurrency without locks.** The routes of the web application are stateless
  and run at the same time. Only `postEntries` and `create()` are atomic;
  everything else reads in one call and writes in a later one (limits, screening,
  freeze, settle and fail, the checked webhooks).
* **Handlers that stop half way.** A withdrawal is a debit, then a document; a
  failed payout is a reversal, then a document; a webhook is a reservation, a
  mint, then a marker. A function may be killed, or an awaited call may throw,
  between any two.
* **At-least-once delivery.** Payment providers repeat a webhook until it is
  answered ok, and also while the first delivery is being handled. Kafka does the
  same to the transaction engine.
* **Rows written back.** `save()` of TypeORM, `setDoc` and `updateUser` write the
  whole row as it was read some awaits ago: reservations, counts of failures,
  locks and sessions can return to what they were.
* **Answers that come late.** The pages cancel nothing: an answer finds another
  screen, form, user or filter than the one that asked, and two answers come in any
  order.
* **Copies.** A browser keeps wallets, settings and bank accounts of its own and
  writes them back whole, from several tabs or for several users.
* **Results that are not known.** A chain call that throws may have sent its
  transaction; a hash that is returned is a transaction that was sent, not mined.

What makes each part correct: a balance is the sum of its entries and never
negative; a debit for a withdrawal is a debt with one outcome; limits and alerts
see what the ledger saw; an event is applied once, and is only acknowledged when
it was; a reservation does not outlive its handler without a cause; coins add up to
the supply and stay within the cap; wrong PINs are bounded; a quote, a deposit or
what a user confirms takes effect once, and as he was shown it; what is displayed is
the state of whoever and whatever it is displayed for; a setting that was saved stays.

## 2. Modules

```
Commission ─┬─ Wallet ── WalletProperties ─┬─ WalletMC      (TLC)
            │                │             └─ WalletProofs  (TLAPS)
            │  PayoutObligation (abstract, instantiated by WalletProperties)
Coin ───────┴─ AdminMint ── AdminMintProperties ─┬─ AdminMintMC      (TLC)
                                  │              └─ AdminMintProofs  (TLAPS)
                  Deployment, Console, Panel

Webhooks ── WebhooksProperties ─┬─ WebhooksMC      (TLC)
                                └─ WebhooksProofs  (TLAPS)
TxEngine ── TxEngineProperties ─┬─ TxEngineMC      (TLC)
                                └─ TxEngineProofs  (TLAPS)

CardService ── ServicesProperties ─┬─ ServicesMC      (TLC)
                    │              └─ ServicesProofs  (TLAPS)
      WalletService, AuthService, FiatBridge, FxEngine, Compliance
Users ── AppProperties ─┬─ AppMC      (TLC)
              │         └─ AppProofs  (TLAPS)
      Reconciliation, CardPayments, Pages, DemoWallet, Browser, Swap, MiniPay,
      Access, SendPage, WithdrawPage (with Commission)

Sums, the sums over finite sets, is used by WalletProofs, AdminMintProofs,
ServicesProofs and AppProofs.
```

A line to the right is EXTENDS; a module written below is instantiated, with constants
and variables of its own, by the one above it.

The groups share no state in the models. The web application never calls the
services, a webhook never posts to the ledger, and the services do not call each
other (`PROJECT.json`, components). Reconciliation, Swap and the modules of the pages
look at the ledger from another side than Wallet does, so each keeps only as much of
it as it needs. `treasury`, `services` and `app` check several modules in one run, in
which a behaviour is about one module, its *scene*. The properties of Wallet,
Webhooks, TxEngine and AdminMint are in their own properties module. Those of the
other modules are at the end of each module; AdminMintProperties,
ServicesProperties and AppProperties instantiate these modules, combine their
properties into what a run checks and a theorem states, and hold the assumptions on
their constants. The MC module and the proof module extend the same properties
module, so that what TLC checks on an instance is, to the definition, what is proved.

Every property with an escape ("unless ...") names the events by which the code
gives up what it promises. The events are history variables, set in the action
where the code's own step is at fault (a write over a row that was no longer what
was read, two handlers past one check, a call that throws), never from the outcome.
What remains is what the code does keep, and the mutants break exactly that.

### Commission
`calculateCommission` in integer cents: the per-mille fee, raised to `fee_min`,
capped by `fee_max`, rounded half up, the net that is left and the share of each
split, in thousandths of a percent; a split that is not positive is passed over
(`Paid`). A percentage, a bound or a share is a number of any sign, since nothing that
stores a rule keeps it from being negative. Amounts are multiples of the smallest unit
(the code rounds to cents with floating point; values below a cent are left out).

### Wallet
One module composes the ledger, the three routes, the saga, the limits, the
screening and the freeze flag, because the interesting behaviour is in how they
interleave on the same ledger.

* `Requests` are runs of a route handler. `phase[r]` is the await the handler has
  passed, `req[r]` what it parsed, read and computed so far (`credit` is the list
  of credit legs, as a function of the account). `AdmitX` is the freeze check and
  the parsing, `ApproveX` the limits and the commission, `Post`/`PostRejected`
  the Firestore transaction, `Record` the saga document, `Screen`/`ScreenFails`
  the monitoring. `Abort` is a handler killed, or stopped by a call that throws,
  between two of them; nothing that was written is undone.
* `balance`, `posted`, `compensated` are the ledger. The legs of one posting are
  written together under ids derived from the request, so the set of entries is
  two sets of requests.
* `Operators` are runs of the operator route. `job[o]` is what a run holds after
  it read the document (`SettleRead`, `FailRead`), until it writes
  (`SettleWrite`, `FailPost`, `FailWrite`).
* `acknowledged` is the only history variable: the outcomes operators were told.

Abstractions: one coin, and one window for both the day and the month (every
request of a behaviour falls in it). An account is one balance document. The KYC
level is a constant (`SingleLimit`, `DailyLimit`). Only same-coin transfers, to somebody
else: one to oneself names no counterparty, and Firestore refuses a leg with an
undefined field, so it never posts (`Storable`). Each account appears at most once among the active splits of a rule. The rule is
chosen among `Rules` at each request, so an update of the rules between two
requests is covered, and the update itself is not. The reconciliation report is
not modelled, only the flag it flips. A commit of Firestore whose answer is lost
is `Post` followed by `Abort`. `postEntries` skips a leg whose entry exists; that
matters for the reversal (`FailPost`) and not for a request, whose ref is fresh.

### PayoutObligation
What the saga promises: each withdrawal is owed once and leaves that state once,
by a payout or by a refund. `WalletProperties` maps it onto the ledger: a debt
begins with the debit entry and ends with the reversal entries or the settled
document.

### Webhooks
The six routes as one handler, since they share the same skeleton, with nine
kinds of events. `ClaimedKinds` reserve with `create()` (deposit of Cuenca,
Pomelo and Conduit, card payment, reversal, notices); `CheckedKinds` read the
marker and write it at the end (capture, refund, rejected, forced credit and
debit). Where the routes differ the action says which kind does what:
`LookUpFails` (release and error; ok for a reversal; ok and skipped for a forced
adjustment), `AfterThrow`, `CompleteFails` (the catch of a reversal also covers
the marker). `handler[h]` is the awaited call a run has reached. The chain is
`pool`, `mined`, `reverted` per event and the balance of one user; `Mine` executes
one sent transaction, in any order. A mint does not revert (the caps, the pause
and the blacklist of the token are not modelled here); a burn reverts when the
balance is too small. Nonce clashes of the treasury's sends appear as calls that
throw. The journal document some routes write is left out: nobody reads it back.

Faults are counted per kind: `crash` (the handler dies, or a read throws and
nothing catches it), `store` (a Firestore write throws, having written or not),
`rpc` (a chain call throws, having sent or not).

### TxEngine
A worker is one process of the consumer group. `job[w]` is the step of
`Consumer.Start` or `Process` it has reached, with the attempt, the nonce it read
and the result it will return. `taken` and `committed` are the two offsets Kafka
keeps per message, `locked` the keys in Redis, `status` the column in Postgres,
`nonces` the signer's account on chain: entry `n` is whichever transaction holds
nonce `n` (a pending one can be replaced by one of the same nonce).

* `LockDenied`, `StartProcessing`, `WriteResult`, `Unlock`, `Announce` and
  `Commit` each carry what the code does when the call fails; most errors are not
  looked at.
* `ReadNonce` reads the pending nonce and `SendTransaction` uses it later; another
  worker may send in between. `SendRejected` is the node refusing the nonce,
  `SendFails` a call that fails or an answer that is lost.
* `WaitMined` polls for the receipt of its own transaction, so a worker whose
  transaction was replaced waits until it is killed.
* `Crash` also stands for a shutdown: `main` cancels the context, every later call
  fails, and the process ends without waiting for `Process`.

Abstractions: each message has a partition of its own; balance caches, gas and
messages that do not parse are left out; `inFlight` never holds the message of
another call, as a consumer handles one message at a time. A lost partition does
not stop a worker from finishing what it started. A transaction whose answer was
lost counts as pending at the node like any other. (At this commit `engine.go`
uses `types.Transaction` without importing the package; the model is of the code
with that import.)

### Coin
MondegaCoin with what it inherits: every action is a call that did not revert.
`MayMove` is `_update`, the hook of every movement; `WithinCap` the requirement of
`mint` under checked arithmetic. Roles are pairs of role and address; the admin
role grants and revokes each of them. A pause is one action, since `pause` reverts
when paused and `unpause` when not. `MondegaFactory` is in Deployment.

### AdminMint
The mint route of the admin panel over Coin and Commission. `step[q]` is where a
run of the route is: rule read or created, reference looked up (`Check`), user's
coins sent (`MintUser`), each split sent or noted as failed (`MintSplit`),
reference written (`Record`). `mempool` holds the treasury's accepted transactions
in nonce order; `Mined` and `Reverted` are what the contract makes of the first.
The node estimates a call before it accepts it, hence `CanMint` in `MintUser`.
Editors are runs of the routes that write the rule, which merge into what they
read; `agreed` is the rule had every update been applied in turn. Of an update only the
sum of its active splits is looked at (`SplitsValid`, to 0.01 %), so that rules with a
negative percentage or with splits of 150 and -50 are in the model; `Proper` are those
without. A run that was turned away ends as "refused". `StopAfterMint`
and `MintAnswerLost` are a restart and a lost answer. One country, one token.

### WalletService
`initiateTransfer`, `executeOnChain` and `getBalance`, one action per awaited call.
The execution is started inside the database transaction and not waited for, so
`Check` starts it and `Commit` or `Rollback` come whenever they come. `row` is
written from what was read (`call[t].read`, `exec[t].read`, `query[g].read`);
`lost` are the wallets for which that was no longer so. `SettleWrite` is the pair of
updates of `executeOnChain`, receiver last, also for a transfer to oneself;
`SettleThrows` is `safeSub`. Amounts are 1000 and 2000 token units, the fee 0.3 %.
Left out: creating a wallet, and the history query.

### AuthService
`Plan` says which calls an operation makes; a handler holds the row it read at the
start and goes through them, each call an action that every operation which makes
it shares (`SaveUser`, `VoidOtps`, `SaveOtp`, `FindOtp`, `UseOtp`, `SaveSession`,
`Rotate`, `Revoke`, `SaveSessions`). `SaveUser` writes the whole row but for the
lock, which `undefined` leaves alone. A PIN is the number of its changes, a session
knows which PIN opened it, and time passes for one lock, code or session at a time
(`Tick`). One telephone number.

### CardService
Rows and the issuer's own status side by side: a card is ordered and then stored, a
freeze is told to the issuer and then written, an authorization sums the day and
then records. `Break` ends a request at any of its calls.

### FiatBridge
Virtual accounts, deposits and the webhooks of the four banks. What `Resolve`
looks for afterwards is a reference or a tracking key and never a deposit's id, as
in the controllers; only CoDi names a deposit. The two queues have no consumer in
the repository, so `mints` is a bag of what was asked for.

### FxEngine
Rates that run out and are fetched again, with the fallback that is cached like any
other; quotes with the two rates they lock; `consumeQuote` as a read and a delete.

### Users
One user's document and his two submissions. `Write` replaces the document by what
`Read` saw with the updates over it; a sign-in reads once and writes its count
later; a review writes the submission first. `undone` counts what such writes took
back. Locks are numbered, so that a new lock can be told from an old one.
`createUser` is in Access; a token is good for 24 hours whatever is done to its user
and reads nothing, so tokens are left out.

### Reconciliation
The audit reads balances, entries and reserves one by one and freezes on a
difference of more than a cent. Amounts are in tenths of a cent, because a request
may be finer than a cent and `postEntries` rounds the balance and the entry each on
its own. A posting is a function from the accounts it names to their legs (`Post`),
since no route names an account twice in one posting here. `finer` counts the debits
finer than a cent (`Finer`), which the balance and the entry may round apart; what is
credited was rounded before. Deposits and withdrawals look at the freeze, transfers do
not.

### CardPayments
Authorization by balance, capture by burn, refund by mint, for one user's coins.
`spoiled` are the payments since whose look at the balance coins left. Repeated
webhooks are the subject of Webhooks.

### Pages
The three pages that move money and the PIN dialogue: what is disabled while a
request is under way, what an error looks like, what a page forgets when it is
left. The route is `Refuse`, `Book` or `BookAndFail` (an error after the posting,
which Wallet explains).

### WithdrawPage
The form of a withdrawal, for a user of the ledger: the bank accounts of the browser
and the page that keeps them, where a removal waits for a timer that fires wherever
the user is by then; the steps; the request as posted (`Confirm`), booked at the rule
of the moment (`Book`, from Commission), and the voucher, which is made from the form
as it is when the answer comes. Amounts in cents; an account is its country.

### SendPage
The form for sending, for a user of the ledger. A number is looked up when its field
is left (`Blur`); `Land` is the answer, whatever is in the field and on the screen by
then. `Confirm` posts whoever was found last, the coins of the form and the amount of
the quote. For the route nobody means the sender, and a posting to the sender fails, as
its legs have no counterparty (`Bookable`); the page shows an error. `astray` marks
a recipient found for another number, `touched` a form that changed under way.

### DemoWallet
Demonstration users keep their balances in the browser and in one document each. A
transfer saves the sender's copy, reads the recipient's document and replaces it;
a timer saves the copy again; the listener takes over what somebody else wrote.

### Browser
The stores that stay in localStorage when one user signs out and the next signs in.
`sync[s]` is a call of `syncFromBackend` with the token it was made with; it fills
wallets and transactions in two steps, for whoever is signed in then. Purchases and
sales change the store alone, in fractions of a cent that are rounded
(`buyTokens`, `sellTokens`), and compare the amount when it is confirmed, not when
the PIN is given.

### Swap
The transfer route between coins: single and daily limit over all coins in USD, quote
with the fee tier of the pair, debit, credit and the treasury's fee, each rounded on
its own. Users change coins with each other, so that coins can go there and back; a
swap with oneself is admitted, and its posting always fails (`Bookable`). `UsdOut` is
what the limits count of a posted swap, `Windfall` what one can bring those who make it:
both roundings, less its fee. Rates are integers, in units of 0.002 cents of a USD.

### MiniPay
One account at a time of a wallet in the browser, calls to connect or read a balance
(`opening`), and payments under way (`send`), each answered on whichever screen is
there. `misled` counts what the page did not report, or reported as failed.

### Access
Who is a user: `createUser` looks for the phone in one call and writes in another, for
the registration, the access page or another client, with the fields each of them
gives; Firestore refuses a document with an undefined field. Two pages act on the
rows they last received, and lists arrive in any order. Every other caller of
`updateUser` (the reviews and submissions of KYC and KYB, the homologation, the patch of
the users' route) gives no status and writes back the one it read (`UpdateFields`,
`ReadStatus`, `Kept`). `revived` are the users brought back by somebody who could have
known that they were deleted: a page that had shown it, or an update begun after it.

### Console
The mint page with the rule it previews, and the page of the rules with its list, its
form and a save under way, beside the routes that read, seed and write the rules.
AdminMint has the inside of the mint; here it is charged in one step (`by` is the
rule it was charged with). `rules` has the countries whose document exists; using a
rule adds the country's document (`UseRule`).

### Panel
The settings of the console in two tabs: `memory[t]` is a tab's copy, `storage` what
localStorage holds, `latest` what the administrator last set. Percentages go through
a field of two decimals.

### Deployment
The factories (`coins`: what each has per code), and runs of the three scripts: a
transaction sent is mined later or never awaited (`Stop`), a node may answer from an
older block, an error ends a run or, in `deploy-remaining.ts`, is passed over;
`Onward` takes the next coin of the list, with an address (`Record`) or without
(`Skip`). A file of addresses is written at the end.

### Compliance
The check of a transaction up to its alert and the job queued for it, the counts of the
dashboard made side by side, and officers whose lists are asked for on every change of
the filter and after every decision, and come in any order. After a decision the list is
asked for with the filter of the click, whichever is chosen by then (`Told`); so what is
shown fits the filter it was last asked for with, and not always the one on the screen.

## 3. Runs

Each `<module>_<run>.cfg` is one run. Deadlock is not checked: every behaviour
ends when the bounded requests, deliveries and messages have been handled.

| Run | Module | Instance | Checks |
|---|---|---|---|
| `saga` | WalletMC | 2 requests, 2 operators, 1 fault, 1 freeze flip, 2 rules; or 3 requests of one customer, 2 in flight, 1 operator, 1 rule, no fault or freeze | `BalancesDerived`, `DocumentsMatchLedger`, `DebitsTracked`, `DailyOvershootBounded`, `StructuringDetected` |
| `serial` | WalletMC | 2 requests, 1 operator, no fault, fair | `SettledNotRefunded`, `ImplementsObligation`, `ObligationsGetRecorded` |
| `outcomes` | WalletMC | 1 request, 2 operators | violates `OneOutcome` |
| `faults` | WebhooksMC | 3 events (payment, reversal, forced debit), 2 handlers, one fault of each kind | `AppliedOnce`, `SendsBounded`, `NoOrphanReservation` |
| `retried` | WebhooksMC | 5 events, 1 handler, no fault, fair | `DepositsApplied` |
| `resent` | WebhooksMC | 1 deposit, one failing chain call | violates `EveryKindOnce` |
| `acked` | WebhooksMC | 2 events, 2 handlers, no fault | violates `AckedIsApplied` |
| `engine` | TxEngineMC | 2 transfers, 2 workers, 2 attempts; one crash, lost answer, expiry, rebalance | `ExecutedAlone`, `PaidOnce` |
| `answers` | TxEngineMC | the same; one refused call, revert, failed write, rebalance; fair | `AnswersTrue` (completed means paid, committed means decided), `EveryTransferAnswered` |
| `treasury` | AdminMintMC | coin: 3 addresses, amounts 0, 2, 9, cap 6; 3 contract calls, or 1 beside 2 runs of the route for a deposit of 5, or none beside 1 run and 2 editors with 4 updates, two of them with something negative; 1 stop. scripts: 3 coins, 3 runs, 2 factories, 2 mishaps. mintPage, rulesPage: 2 countries, 2 readings, 1 mint, 1 save. settings: 2 tabs, 3 changes | `MintsAccounted`, `SupplyWithinCap`, `FrozenBalances`, `FilesHold`, `SettingsKept` |
| `services` | ServicesMC | wallets: 2 wallets, 2 transfers, 1 mishap, or 1 transfer and 1 query; auth: 2 handlers, 5 requests, 1 expiry, 1 abort, 6 groups of operations; cards: 2 requests at a time of 5, 2 cards, limit 5; deposits: 2 deposits, 3 webhook calls, 1 stop; quotes: 2 clients, 2 quotes; checks: 2 checks of 4 transactions, 1 mishap; console: 2 officers, up to 3 lists, 1 alert | `ReservedIsExplained`, `LockExclusive`, `GuessesBounded`, `NoSessionOfOldPIN`, `OverspendIsLate`, `StatusesAgree`, `MintQueuedOnce`, `QuoteUsedOnce`, `AlertsHandled` |
| `app` | AppMC | signIn: 2 requests at a time of 5, 2 attempts; standing: 2 at a time of 3, 1 failing write; audit: 2 holders, 2 requests, 1 auditor; cards: 3 payments, 1 other movement; pages: 3 requests, 1 lapse; demo: 2 users, 3 transfers, 1 mishap; people: 2 users of a browser, 2 calls; exchange: 1 user, 2 trades, 1 posting; swaps: 2 users, 4 coins, 3 requests, 2 at a time; minipay: 2 accounts, 2 calls, 3 presses; newUsers, oldUser: 1 phone, 2 ids, 2 pages, 3 calls, updates of other fields among them; withdrawal: 2 accounts, 1 request, 1 other posting, 1 change of the rule; sending: 3 numbers, 2 look-ups, 1 transfer | `LockoutHolds`, `StatusFollowsSubmission`, `RefusedWasSpent`, `DoneAsMeant`, `NothingMadeOrLost`, `OwnAccountShown`, `SwapsSound`, `AccountsKept`, `AlarmsExplained` |

Where a property of these three runs spans several modules, its parts are the
properties at the end of the modules or of AdminMintProperties: `MintsAccounted` is `SupplyIsBalances`,
`BackedByDeposit` and `RecordedIsMinted`; `SettingsKept` is `UpdatesKept` of the route,
`PriceShown`, `EditsKept` and `ListWhole` of Console, and `SettingsKept` and
`FeesSteady` of Panel; `DoneAsMeant` is `BookedOnce` of Pages, `SentOnce` of MiniPay,
`WithdrawnAsMeant` and `SentAsMeant`; `OwnAccountShown` has MiniPay's
`OwnBalanceShown` beside it; `SwapsSound` is `SwapsKeepWorth`, `OnlySmallSwapsPay` and
`DailyLimitInUSD` of Swap and `NothingFromNothing` of Browser.

What they show, and why the bounds are enough:

* **saga**, two requests. Two requests of any kind on three accounts, one of them both a
  customer and a fee recipient, reach every pair of overlapping postings, a
  reversal against a fee already spent, and every point where a handler can stop.
  The balances are small enough for refused postings. Amounts 2 and 4 with a
  single limit of 4 and a daily limit of 6 sit on both sides of each limit.
* **saga**, three requests. Three are what the structuring rule asks for; two in
  flight are enough for each to miss the other. All are of one customer, as limits and
  alerts are counted per customer, and nothing fails or is frozen, as neither adds to
  what they see.
  `DailyOvershootBounded` bounds what the code lets through rather than claiming the
  limit is exact.
* **serial.** The promise of the saga where the code keeps it: one operator call
  at a time, nothing stopped. `ImplementsObligation` is checked as a refinement.
* **faults.** The bound on the number of sends is stated against the faults that
  happened, so one fault of each kind exercises every combination once; two
  handlers are enough for two deliveries of one event to overlap. The three events
  are one of each way the routes treat an error: a payment keeps its reservation when
  the marker cannot be written, a reversal releases it, and a forced debit reserves
  nothing, so that each of two handlers may send it.
* **retried.** Providers repeat until they hear ok, and a wallet may be linked
  only later; deposits still get minted. What fails and what overlaps is in `faults`
  and `acked`.
* **engine**, **answers.** Two workers are enough for a message to move from one
  to the other while the first is busy; two transfers are enough for two nonces
  to clash. The faults are split between the runs to keep each within memory:
  those that repeat work in the first, those that lose an answer or a write in
  the second.
* **treasury.** Three calls are enough to mint, change a role, cap, pause or
  blacklist, and move or burn; 9 is also the largest number, so that the sum of two
  amounts overflows. Two runs for one reference are what it takes to mint twice,
  and a call in between to make an accepted transaction revert. The updates give the
  fee in two halves; are refused for splits of 200 %; have splits of 150 and -50 % of a
  fee of 60 %, of which more is minted than was deposited; and make the fee negative.
  Three runs of the scripts and two factories are enough for one that stops, one that
  goes on with the wrong factory and one that deploys again. Two readings cross, and
  three changes in two tabs are a change, one behind it and one after.
* **services.** Two requests at a time are enough for a read, a foreign write and a
  write; the counts leave room for what comes before (a login before a revocation)
  and after (a third guess). The operations of the auth service meet in the groups
  that touch the same columns or rows: register and verify, sessions and PIN, guesses
  and each way to set them back, 2FA, KYC. Groups keep the run within minutes; a
  race of more than two operations on a user is out of its reach. The four
  transactions of the checks are each caught by a rule of its own or by none. Three
  lists of an officer are the first one, the one of another filter and the one after a
  decision made under the first, in any order.
* **app.** Two attempts and five requests reach a lock, its end and the next lock.
  The amounts of the audit, 1.5 and 2 cents on a balance of 3, make half cents that
  may be rounded either way. Three payments of 1 or 2 coins on a balance of 3 make
  pairs that fit and pairs that do not. Rates of 65, 25, 1 and 500 and amounts of 4
  and 1994 tenths of a cent give swaps that round to nothing, swaps that debit nothing
  and credit something, and swaps there and back whose fees outweigh the roundings;
  two of the larger ones pass the limits together. A third request goes back in coins
  of the first two, again to the other, or from the first user to himself. A withdrawal of
  0.50 is below the minimum fee, 3.00 above the balance of 2.00; a second posting and
  a changed rule come at any point. Three numbers are one that is somebody's, the
  sender's own and one the page knows; two look-ups cross. Two trades are a purchase
  undone by a sale, or a sale the store was filled under.
* **outcomes**, **resent** and **acked** are the three places where the repository states a
  property in words and the code does not have it. `outcomes`: two operators read
  `pending_payout`, one settles, the other fails the same withdrawal, and both are
  told it worked, although the second call should be answered "ya resuelto".
  `resent`: `mintToken` throws after its transaction was sent, the catch releases
  the reservation "so that the provider's retry can process it", and the retry
  mints again. `acked`: a second delivery finds the event reserved and is answered ok
  as a duplicate; the look-up of the first one then fails and releases the event for a
  retry that the provider has no more reason to make.

Types are not checked by a run of their own: `TypeOK` of Wallet, Webhooks and
TxEngine is a theorem, and each other proof carries its own type invariant.

Symmetry is used in `saga`, `faults`, `treasury`, `services` and `app`, which check safety
only; it permutes model values that play the same part in each scene. The other runs are
small enough without it, and it is not sound for the liveness properties of `serial`,
`retried` and `answers`. `treasury`,
`services` and `app` use scenes so that the components' states are not
multiplied, which would show nothing as they share none.

### Fairness

* Wallet: weak fairness of the steps of a handler or an operator call that has
  started; the runtime keeps scheduling a function until it is killed, and a kill
  is `Abort`, bounded by `MaxFaults`. None on `Admit`, `SettleRead`, `FailRead`:
  nobody has to send a request.
* Webhooks: strong fairness of a delivery that has not been answered ok (a
  provider repeats it however often the handlers are busy with other events), weak
  fairness of the steps of a handler and of mining. The documents of the providers
  are not in the repository; the routes rely on the retry (`conduit/deposit`,
  `webhook-idempotency.ts`).
* TxEngine: weak fairness of fetching and of each worker's loop, and of mining.
  None on `Expire`: the answer to a transfer must not depend on a lock running out.

* Coin, AdminMint and the modules of `services` and `app`: none. Their properties
  are safety; what one would like to happen there eventually (a mint recorded, a
  reservation released, a setting shared) the code does not make happen, since nothing
  retries.

## 4. Proofs

The theorems hold for every value of the constants that the modules' `ASSUME`s
allow. `tlapm` checks seven modules to the last leaf: Sums and the six whose name ends
in `Proofs`. Every safety invariant and action property that a passing run checks is
the conclusion of a theorem; `PROJECT.json` lists which.

Each proof has the same shape: a type invariant of what the actions read, an inductive
strengthening with a comment of its own, one lemma per action (or per group that
changes the same variables), one that puts them together over `Next`, and a theorem
that ends in a temporal step. Where a module is instantiated the actions are those of
the instance, so the names in the proofs have its prefix.

**Sums.** What the sums of the community modules do when one summand changes, when an
element comes or goes, when summands are compared or bounded, and what the cardinality
of a set is then. Facts about all finite sets that would take an induction are proved by
taking a minimal set that is an exception, which exists because strict inclusion among
the subsets of a finite set is well-founded (`MinimalSubset`, from the library's
theorems): without one of its elements it is no exception. The folds are functions of the community modules, so no recursive
operator is involved.

**WalletProofs.**

* `TypeCorrect`: types, and no negative balance, for any rules, amounts, numbers of
  requests and operators. The strengthening says what each phase of a handler has
  already parsed.
* `DocumentsAgree` and `OnlyFaultsLoseObligations` follow from `LedgerInv`: which
  phases may have posted, and that an operator only holds a document that exists. The
  last two are needed together, since an operator's write is only right because of what
  it read before.
* `BalancesFollowEntries`: a balance is its opening and the sum of its legs. A posting
  adds one request to the sum and a reversal takes its legs back, each on every account
  at once.
* `OvershootIsBounded`: the amounts of a customer that were posted or approved pass the
  daily limit by what the other requests in flight may carry (`LimitInv`). The property
  alone is not inductive, as a posting spends what was approved some awaits before; the
  approved ones are in the sum, so that a posting changes nothing and only an approval
  must be looked at.
* `StructuringIsDetected`, for `MaxFaults = 0`: the last of the outgoing operations to be
  screened sees all that the ledger has, so that once each of them was answered the
  alert is there. Beyond `LedgerInv` it needs only that the ledger is finite: no step but
  the screening of the last answer can make the premise true.
* `SerialSettledNotRefunded`, `SerialOneOutcome` and `SerialImplementsObligation`, under
  `OneOperator` (any two operators are the same) and `MaxFaults = 0`. The inductive
  invariant `SerialInv` says that a reversal whose document is not closed is held by
  the operator, and that what an operator works on is still pending. The refinement of
  PayoutObligation has one lemma per kind of step: owe, settle, refund, stutter.

**WebhooksProofs.** `TypeCorrect`, and `ClaimedEventsAppliedOnce`: deposits and
card payments are sent once plus once per chain call that threw, with any number
of handlers, deliveries, crashes and store faults. `OnceInv`: at most one handler
holds a claimed event, it holds it only while the marker says processing, and
what was sent before the event is free again was sent by a call that threw.
`ReservationsReleased`: a step of one handler can leave only its own event
reserved by nobody, so the orphans are counted against the crashes and failed
writes; what ends a handler without either is a release or a checked route, and
those never reserve. `SendsAreBounded` has the kinds the first theorem leaves out, with
any number of handlers, deliveries and faults: a reversal by `OnceInv` again, and the
checked kinds, whose marker is only read before and written after, by `CheckedInv`.
Until the marker is written, each sending has a handler that will still write it or
a mishap; from then on only the handlers that looked before can send, so what was
sent and those handlers together are no more than the handlers and the mishaps.

**TxEngineProofs.** `TypeCorrect`, and `LockExcludes`: at most one worker
executes a transfer, plus one per expiry, for any finite set of workers. The
property is not inductive because a worker whose lock ran out deletes the key of
its successor. `LockInv` counts the workers against the expiries and the key
together, whoever set it, so that such a deletion gives up both at once.
`TransfersPaidOnce` is an amortized argument: `OnceInv` adds to the entries that
may pay a transfer the workers that may still send it and the delivery still due;
a revert or a retry moves a chance from one term to another, and only a lost
answer, a crash or a rebalance adds one. `AnswersAreTrue`: `PaidInv` ties what a
waiting worker waits for to its own transfer, and `LeftInv` counts the undecided
transfers already when a result fails to be written or a key is left behind,
before the offset is committed.

**AdminMintProofs.**

* `SupplyCapped` and `FrozenKept`, for any holders, amounts, rules, editors and runs.
  Each contract call is shown to be `Allowed`: it keeps the cap and the frozen
  balances. The cap alone is not inductive without types of the numbers, and a mint
  takes its amount from the treasury's queue, so the invariant carries what the queue,
  the runs and the editors hold. Rules are whole numbers of any sign; that only natural
  numbers are minted follows from what the route passes over.
* `MintsAreAccounted`: `SupplyIsBalances` is a sum in which a call changes one summand,
  or two that cancel. `MintInv` has, for each reference: as long as it is clean, one
  run's rule covers the coins of the reference, those in the queue and those minted,
  counting what that run may still send; and a run past its first mint has left coins or
  a transaction that reverted. So a reference issues at most what that rule makes of the
  deposit (`Legs`), whatever the rule; `ProperLegs` compares that with the deposit itself,
  for a rule without a negative part: no more, up to half a cent for each split. It needs
  that the splits sum to 100 within 0.01, which `updateCommissionRule` checks. That
  rules are only assumed to be whole numbers, with the default's splits summing to
  100, is `RulesAssumption`.
* `FilesAreSound` (`DeployInv`): what a run has collected is true of its own factory and
  remains so, since a factory never deploys a code twice and scripts only go forward in
  their lists.
* `SettingsAreKept` joins three invariants. `UpdatesKept`: what an editor holds is the
  rule as agreed, or a later writer is overtaken. `PriceInv`: the rules only grow, so what
  a page has read of a country is its rule or an earlier one, and until two readings
  cross one at most is under way, of the country selected. `EditInv`: lists that were
  read are whole or a rule was created alone, and a form that was not touched holds what
  is being saved. `SettingsInv`: only a tab that is behind differs from what is stored.

**ServicesProofs.**

* `QuotesServeOnce` (`FxInv`): a quote that two requests never shared is held by one, and
  by none once used. `MintsQueuedOnce` (`FiatInv`): unless two calls found a deposit
  pending, at most one works on it, and none once its mint is queued; a deposit marked
  without a mint is still being queued, or a call stopped.
* `ReservationsExplained` and `LocksExclude` (`WalletInv`): what is reserved is a sum over
  the transfers that were committed and not settled; the sum changes with `Commit` and
  `SettleWrite` by the amounts these write, provided that the row is the one that was
  read, which is what `lost` records. `LockHeld`: until a key of Redis runs out, who is
  past the lock has it.
* `GuessesAreBounded` and `NewPINEndsSessions` (`AuthInv`): each time the count of wrong
  PINs starts again without a right or new PIN, a lock ran out or a row was overwritten,
  and either is worth at most `MAX_PIN_ATTEMPTS`; `Spent` is what the row still stands
  for. A session of an earlier PIN is revoked, unless a request is between
  its last two calls, one died there, or a row was overwritten.
* `AlertsAreHandled` (`AlertsInv`): numbers order the lists an officer asked for, so that
  the newest, whether it is under way or shown, fits the filter it was asked for with,
  which is that of the click after a decision, and knows what he decided.
* `LimitHolds`: the invariant adds that what a request has compared, `sum + amount`, is
  within the limit. `AgreementHolds`: a card differs from the issuer only while a request
  holds it, or after a call threw. `AgreeInv` counts the differing cards nobody holds
  against the failures, and needs that at most one request holds a card whose status was
  not changed by two at a time.

**AppProofs.**

* `WrongPINsAreLocked`: what was not taken back is in the document's count, and whoever
  may try finds an answer still allowed (`CountInv`); a stale answer has to be paid for in
  `undone`. `StandingFollows`: an uncrossed submission is the only request between its two
  writes, or the status is already its own (`StandingInv`).
* `RefusalsExplained`: as long as a payment is not spoiled, the balance is at least what it
  has read, and an approved amount is at most that.
* `DemoCoinsAddUp`: `CoinsKept`, the coins in the documents and those under way, is one
  sum that every step keeps until a document is disturbed; `DemoInv` has what a browser's
  copy may lag behind.
* `AccountsStayKept` (`PhoneInv`, `DeletedInv`, `KnewInv`): two creations of a phone that
  are both past the look-up were alongside; a page of single lists that has shown a user
  deleted offers nothing that brings him back; and an update that was sent after the
  deletion reads, and writes back, that he is deleted, as long as he is.
* `BrowserShowsOwn` (`BrowserInv`, and `MiniInv` for the MiniPay page): between its wallets
  and its transactions a call is for whose wallets are shown, unless another came between;
  a confirmed trade is covered as long as nothing fills the store.
* `MeantOnceDoneAsMeant` joins four: `PagesInv` and `PaidInv` count what was or may be booked
  against what was misreported and what the page still waits for; `WithdrawInv` and
  `SendInv` carry what a request under way was made from, so that the voucher and the
  posting can be compared with what was on the screen. The proof of `SendInv` found that
  `ReachesWhomTyped` had been stated too strongly: a number of the demonstration directory
  can be the sender's own, whose name is then shown for it. The property says so now.
* `SwapsMakeNothing`: `WorthKept` bounds the change in value by the roundings of the swaps
  posted, `Slack`, in both directions, for any positive rates; the heart of it is a lemma
  on the integer arithmetic of one quote. What the users have together, without the
  treasury, grows at most by the `Windfall` of each swap, which is nothing for one whose
  fee is worth its roundings. `OutflowBounded` counts, as `LimitInv` does, what
  is under way with what was sent.
* `FreezesAreExplained` (`AuditInv`): the sum of the balances and that of the entries are
  apart by at most a cent for each debit finer than a cent, and an audit that no posting
  disturbed has read what there is.

### What the constants are assumed to be

Each assumption is named, stands in the module that declares the constants (for
instantiated modules, in the properties module), and is evaluated by TLC on every run.

* Amounts and balances are whole numbers of the smallest unit the code handles, and zero
  or more: every route refuses other amounts (`AccountsAssumption`, `NumbersAssumption`
  with its 256 bits, `CardAssumption`, `DemoAssumption`, `BrowserAssumption`,
  `WithdrawAssumption`, `WalletServiceAssumption`, `CardServiceAssumption`). Opening
  balances of the audit are whole cents, which is what `postEntries` leaves
  (`AuditAssumption`).
* Rules are whole numbers of any sign (`RulesAssumption` of Wallet and of AdminMint,
  `WithdrawAssumption`); only the shares of AdminMint's default sum to 100.
* What is summed over or counted is finite: the recipients of a rule, the holders of a
  coin or of an account in an audit, requests of a page, users of the demonstration,
  swaps and their coins, checks, workers. All of them are rows or calls of a finite run.
* Numbers of attempts are positive (`MAX_PIN_ATTEMPTS`, `MaxRetries`), rates are positive
  (fixed in the code), limits natural numbers; the treasury is not a trader.
* Names do not collide: the mark of an unlocked wallet is no transfer, "none" is neither a
  filter nor a country, scripts name coins of the list (`ScriptsAssumption`), what an
  administrator types is a percentage (`TypedAssumption`), and a page can read a rule
  (`PagesAssumption`).

No theorem assumes a bound on the number of requests, faults, workers or messages other
than that it is a natural number.

### What is left to TLC

* Liveness, which needs fairness and `ENABLED`: `ObligationsGetRecorded`,
  `DepositsApplied`, `EveryTransferAnswered`.
* The three violations, `OneOutcome`, `EveryKindOnce` and `AckedIsApplied`.
* `SettledNotRefunded` and `ImplementsObligation` are proved as the run `serial` checks
  them: one operator, and nothing that fails. With faults they do not hold (section 5).

Inductive theorems over data of the library that take an operator as a parameter cannot
be used by the installed provers, and no recursive operator is declared in any module.

## 5. Known gaps

Where the code does less than one might expect. The models do what the code does,
so these behaviours are in them; the properties are stated so as to hold beside
them (`1 + faults[...]`, "unless its handler was stopped").

* A withdrawal whose handler stops after the posting keeps its debit and has no
  document, so no operator sees it (`withdraw/route.ts:65`).
* A refund whose document write fails leaves `pending_payout`; it can still be
  settled, after the user got the money back (`withdrawals.ts:91`).
* A refund debits the fee from the partner who received it; if it was spent, the
  whole reversal is refused (`withdrawals.ts:83`).
* With `fee_min` above the amount, the net is zero or negative and the posting
  goes on (`commission-config.ts:227`); the withdrawal page shows a net of 0 and lets
  the user confirm (`withdraw/page.tsx:261`).
* Requests that overlap pass the daily limit together (`limits.ts:62`).
* The screening counts the operation it screens twice, once from the ledger it is
  already in, so the structuring alert is one operation early (`aml.ts:63`).
* The freeze flag is read once, at the start of a request; one past that point
  posts after the freeze (`withdraw/route.ts:24`). A transfer never looks at it.
* A minted reversal of a card payment is released when the marker cannot be
  written, and can be minted again (`cuenca/card-payment/route.ts:41`).
* Two deliveries of a capture that overlap both find no marker and both burn
  (`pomelo/transactions/route.ts:41`).
* A repeated delivery is answered ok while the first is still running and may fail
  (`cuenca/deposit/route.ts:33`; run `acked`); so is one whose `create()` failed for any other
  reason than a duplicate (`webhook-idempotency.ts:23`).
* The card webhooks read the balance before the burn; what is spent in between makes
  the burn revert (`cuenca/card-payment/route.ts:72`).
* A payment is marked done when its burn was sent; a burn that reverts is not
  noticed (`celo-admin.ts:176`). A forced debit that cannot be burned is logged
  and marked (`pomelo/adjustments/route.ts:67`).
* A message delivered again while the key of a dead worker is in Redis is
  announced as failed and committed, whatever happened on chain (`engine.go:109`).
* A worker whose pending transaction was replaced waits for its receipt for ever
  (`engine.go:234`).

In the web application, found with the newer modules:

* Two mint requests for one bank reference that are past its look-up together mint
  it twice; one that stops after its first mint leaves a reference that can be
  minted again (`admin/mint/route.ts:122`).
* The mint page says that one reference cannot be minted twice
  (`apps/admin/src/app/mint/page.tsx:352`); the document's id has the country in it, so
  a deposit entered under another country is minted again (`admin/mint/route.ts:120`).
* Two administrators, or one and the seeding of the list, lose an update of a rule
  (`commission-config.ts:172`). The list seeds an empty collection only: once a rule
  was created by its use, the others are missing until they are used (line 154).
* `MondegaCoin.sol:11` says "Burnable only by the Mondega treasury"; the inherited
  `ERC20Burnable` lets every holder burn his own coins.
* An amount finer than a cent is never refused. Its balance and its entry are
  rounded separately, so two such debits can trip the audit; a transfer of 0.015
  may credit more than it debits (`ledger.ts:102`).
* An audit that overlaps a posting may freeze the system (`reconciliation.ts:72`).
* A reversal mints again even if the payment was never burned
  (`pomelo/transactions/route.ts:72`).
* `updateUser` writes back what it read: a lock, a count or a reset PIN that came
  in between is gone (`users-db.ts:178`). A PIN reset does not lift the lock.
* "phone único" (`users-db.ts:9`) is a check and a later write. The register route
  passes `undefined` for two fields, which Firestore Admin refuses as it is set up,
  so `createUser` throws for the registration and for the access page (`users-db.ts:132`).
* `reviewKyc` and `reviewKyb` are called by no route; a KYC approval after a KYB one
  takes the level from 3 to 2.
* A token is good for 24 hours whatever becomes of its user, and the PIN asked for
  in the dialogue is not sent to the routes of a real user.
* The dialogue of the withdrawal says that the PIN was wrong for any error, also one
  that follows the posting; the user who tries again withdraws twice
  (`withdraw/page.tsx:307`).
* The PIN dialogue says "PIN incorrecto" for any error (`PINConfirmModal.tsx:36`), can
  be closed while the request is under way, and leaves the form behind it open: the
  voucher is made from what the form holds when the answer comes
  (`withdraw/page.tsx:661`, `send/page.tsx:335`).
* "sin toUserId (o == emisor) → swap a sí mismo (cambia su propio portafolio)"
  (`transfer/route.ts:8`) never posts: the legs' `counterparty` is `undefined` (line 68),
  which Firestore Admin refuses as it is set up (`firebase-admin.ts:70`), and the answer
  is an error. So a recipient who was not found, for whom the page sends no `toUserId`,
  gets nothing, and the user is not told why.
* A look-up that is answered late names another recipient
  than the one in the field, and coins go to him (`RecipientInput.tsx:50`).
* A swap so small that its debit rounds to nothing still credits what it is worth:
  0.004 QUETZA becomes 0.27 CORI, as often as two users make it, and counts as no
  outflow (`transfer/route.ts:48`, `ledger.ts:105`). `OnlySmallSwapsPay` says that no
  larger swap pays.
* A rule with a negative fee, or with active splits of 150 and -50, is accepted
  (`commission-config.ts:183`); the negative split is passed over at the mint
  (`admin/mint/route.ts:162`), and more is minted than was deposited.
* A deleted user is active again when an update of other fields that had read him
  before writes afterwards, also when every page has shown him deleted
  (`users-db.ts:168`). A patch of a phone does not look for another user who has it
  (`admin/users/route.ts:96`); no page sends one.
* A withdrawal of a demonstration user takes from the fiat balance, which is always
  folded into the coin's, so nothing is deducted (`withdraw/page.tsx:326`).
* Of the account a withdrawal goes to the server keeps the bank's name and the last
  four digits (`withdraw/route.ts:44`). "Se sincronizan en todos tus dispositivos"
  (`bank-accounts/page.tsx:276`) is so for demonstration users only; the accounts of
  one user are there for the next who signs in.
* Signing out leaves the wallets in the browser, and a call made before it fills the
  store of the next user (`wallet-sync.ts:78`).
* On the MiniPay page the success screen is behind the form (`page.tsx:503`), a payment
  is called confirmed when there is a hash (line 390), and a press of Conectar does
  not disable the button (line 469).
* The tabs of the console write their whole copy of the settings over each other's
  (`apps/admin/src/store/admin.store.ts:224`), and a percentage of three decimals
  loses the third when its field is left (`apps/admin/src/app/page.tsx:355`).
* A list asked for earlier can replace a later one, on the access page and on the
  alerts page; a user deleted meanwhile can be taken back (`access/page.tsx:96`).
  After a decision the alerts page asks with the filter of the click, so that rows
  of an earlier filter can be what it shows last (`alerts/page.tsx:60`).
* A script that stops leaves coins in a factory no file names (`deploy.ts:130`), and
  `deploy-remaining.ts:94` passes over a coin it could not make.
* A demonstration user's document is replaced whole by three writers, who drop what
  the others wrote and, in `creditTransfer`, the bank accounts (`user-db.ts:99`).

In the services:

* "Acquire distributed lock to prevent double-spend" (`wallet.service.ts:163`): the
  row is read before the lock. A failed transfer keeps its reservation, a completed
  one its fee; a transfer whose commit was rolled back is executed all the same.
* Wrong PINs that overlap are counted once; `pinLockedUntil = undefined` is not
  saved, so a reset or a right PIN does not lift a lock (`auth.service.ts:361`).
  "Track failed attempts per OTP" (`otp-code.entity.ts:26`) is not done, access
  tokens are not checked against sessions, and the second factor is never asked for.
* A quote "can only be used once" (`fx-engine.service.ts:323`), unless two requests
  read it before one deletes it.
* The webhooks of Guatemala, Honduras and Mexico never match a deposit's id, so no
  deposit of theirs is minted; `total_deposited` counts repetitions; the two queues
  have no consumer (`fiat-bridge.controller.ts:124`).
* Authorizations that overlap pass the daily limit of a card; a freeze that stops
  half way leaves a card that only its issuer or only its row believes to be active.
* The jobs of the compliance service go to a queue from which nobody takes
  (`aml.service.ts:275`; the notification service has a handler for them in the queue
  'notifications', `notification.service.ts:25`). `resolveAlert` decides an alert
  whatever its status is (`aml.service.ts:317`), so of two officers the last one wins.
* The totals of a day and the velocity the rules 3 and 7 ask for are always zero
  (`aml.service.ts:197`).

## 6. Not modelled

`PROJECT.json` lists every component with its status. Left out for good:

* provider clients and SDK set-up, tables of rails and settlement, shared packages,
  the database schema and the seeding scripts: input, output, types and one-shot
  inserts;
* the notification service: its workers hand what they take from a queue to a provider
  and keep no state;
* the pitch, the lists of transactions and the dashboards, which only display. They are
  much of the repository's lines and have no state that outlives a click;
* the mobile application, of which only a store and screens without calls exist.

Left out for now: the pages of the console that review submissions and list users
(`kyc-review`, `users`), over routes and operations that are modelled; the form that
resets a PIN on the access page; the branches of the sending and withdrawal pages for
demonstration users, beyond what they do to the coins (DemoWallet); the splits of a
rule on its page; the screening of a wallet and the texts of the reports in the
compliance service; creating a wallet in the wallet service.

## 7. Plan

1. Abstract specifications: a bank reference that is minted once (AdminMint) and a
   reservation that is spent or released (WalletService), each implemented where
   nothing overlaps; a payment a user means, implemented by Pages with the route.
2. The pages of the console that are left, once their routes are called by something
   (`reviewKyc` and `reviewKyb` are called by nobody).
3. SendPage over Swap, so that the quote the page shows is compared with what the route
   books at the rates of the server.

Proofs to add: `SettledNotRefunded` up to the number of faults and of operators that
were past one document, instead of none; that TxEngine implements an abstract queue of
transfers, up to its faults; the refinements of 1., once they are stated.
