--------------------------- MODULE ServicesProperties ---------------------------
(***************************************************************************)
(* What the services promise: the wallet service, the auth service, the    *)
(* card service, the fiat bridge, the FX engine and the compliance service *)
(* with its officers' page.  They share no state and do not call each      *)
(* other.  The card service keeps its own names; the others are instances. *)
(***************************************************************************)
EXTENDS CardService

CONSTANTS
    Wallets, Transfers, Readers, Units, OpeningUnits, MaxMishaps,    \* wallet service
    Handlers, MAX_PIN_ATTEMPTS, MaxCalls, MaxTicks, MaxAborts,       \* auth service
    Users, Countries, Deposits, Providers, Hooks, MaxStops,          \* fiat bridge
    Fiats, Clients, MaxQuotes,                                       \* FX engine
    Checks, Officers, Transactions, Filters, MaxFailures, MaxAsks    \* compliance

VARIABLES
    row, status, paid, received, lock, cache, call, exec, query, settled, lost, faults, expired,
    user, sessions, otps, handler, calls, ticks, aborts, guesses, unlocks, overlaps,
    accounts, deposited, deposit, task, hook, mints, payouts, stopped, doubled,
    rates, quotes, client, refreshed, used, shared,
    check, alert, queue, figures, page, post, decided, mishaps

W == INSTANCE WalletService
A == INSTANCE AuthService
F == INSTANCE FiatBridge
X == INSTANCE FxEngine
M == INSTANCE Compliance WITH MaxMishaps <- MaxFailures

\* Amounts are whole token units, and no transfer is named as the lock of
\* nobody.
ASSUME WalletServiceAssumption ==
    /\ W!Nobody \notin Transfers
    /\ Units \subseteq Nat /\ OpeningUnits \in Nat

\* There are finitely many alerts, and no filter asks for what was not filed.
ASSUME ComplianceAssumption == IsFiniteSet(Checks) /\ "none" \notin Filters

\* A PIN may be tried at all.
ASSUME AuthServiceAssumption == MAX_PIN_ATTEMPTS \in Nat \ {0}

\* Reservations are those of the recorded transfers that are not completed.
ReservedIsExplained == W!ReservedIsExplained
\* One transfer of a wallet at a time is between the lock and its release.
LockExclusive == W!LockExclusive
\* Wrong PINs are answered a bounded number of times.
GuessesBounded == A!GuessesBounded
\* A new PIN ends the sessions of the old one.
NoSessionOfOldPIN == A!NoSessionOfOldPIN
\* A processing deposit has one mint queued.
MintQueuedOnce == F!MintQueuedOnce
\* A quote serves one exchange.
QuoteUsedOnce == X!QuoteUsedOnce
\* Alerts are filed, counted, listed and decided.
AlertsHandled == M!AlertsHandled

=============================================================================
