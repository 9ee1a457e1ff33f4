--------------------------------- MODULE Swap ---------------------------------
(***************************************************************************)
(* The transfer route of the web app between coins                         *)
(* (app/api/wallet/transfer/route.ts): the quote of lib/fx-engine.ts, the  *)
(* limits of lib/limits.ts over all coins of a user, and the legs that are *)
(* posted.  Module Wallet has the rest of the route, on one coin.          *)
(*                                                                         *)
(* What a request carries is not rounded, so amounts are in tenths of a    *)
(* cent; balances and entries are in cents.  A swap has no contra account: *)
(* it takes one coin away and makes another, at fixed rates.               *)
(***************************************************************************)
EXTENDS Integers, FiniteSets, Functions

CONSTANTS
    Traders, Treasury,
    Coins, Mesoamerica,  \* coins of one bloc among themselves pay the least
    Rate,                \* USD_RATES: what a cent of each coin is worth
    Swaps,               \* requests
    Amounts,
    OpeningBalance,      \* of each trader in each coin
    SingleLimit, DailyLimit,
    MaxUnderWay          \* bound: requests handled at the same time

VARIABLES
    purse,     \* len_balances, by owner and coin
    swap       \* per request: what it says, and how far it has come

swapVars == <<purse, swap>>

NoSwap == [step |-> "none"]

Init ==
    /\ purse = [k \in (Traders \cup {Treasury}) \X Coins |->
                  IF k[1] = Treasury THEN 0 ELSE OpeningBalance]
    /\ swap = [s \in Swaps |-> NoSwap]

-----------------------------------------------------------------------------
(* Arithmetic.                                                             *)

\* Math.round of n / d.
Rounded(n, d) == (2 * n + d) \div (2 * d)

\* getFee, in thousandths.
FeePermille(from, to) ==
    CASE from = to -> 0
      [] from # to /\ {from, to} \subseteq Mesoamerica -> 3
      [] from # to /\ ~({from, to} \subseteq Mesoamerica) /\ "MEXCOIN" \in {from, to} -> 5
      [] OTHER -> 8

\* Mutant: toAmountGross for toAmount.
ToAmountGross(from, to, amount) == Rounded(amount * Rate[from], 10 * Rate[to])

\* What is credited: the amount less the fee, through USD.
ToAmount(from, to, amount) ==
    Rounded(amount * (1000 - FeePermille(from, to)) * Rate[from], 10000 * Rate[to])

FeeAmount(from, to, amount) == Rounded(amount * FeePermille(from, to), 10000)

\* round2 of an entry, and of a balance that is debited.
Cents(amount) == Rounded(amount, 10)

Less(balance, amount) == Rounded(10 * balance - amount, 10)

-----------------------------------------------------------------------------
(* checkLimits, in USD.                                                    *)

Posted == {s \in Swaps : swap[s].step = "posted"}

UsdOut == [s \in Posted |-> 10 * Cents(swap[s].amount) * Rate[swap[s].from]]

PostedOf(u) == {s \in Posted : swap[s].by = u}

\* Mutant: the debits of the coin that is sent.
OutflowOfCoin(u, coin) == SumFunctionOnSet(UsdOut, {s \in PostedOf(u) : swap[s].from = coin})

\* sumOutflowUSD: every debit of the user; the whole behaviour is one window.
OutflowUSD(u, coin) == SumFunctionOnSet(UsdOut, PostedOf(u))

WithinLimits(u, coin, amount) ==
    /\ amount * Rate[coin] <= SingleLimit
    /\ OutflowUSD(u, coin) + amount * Rate[coin] <= DailyLimit

-----------------------------------------------------------------------------
UnderWay == {s \in Swaps : swap[s].step = "admitted"}

Goto(s, step) == swap' = [swap EXCEPT ![s].step = step]

\* A request is quoted and compared with the limits; one that would credit
\* nothing is refused, as is one that passes a limit.
Admit(s, u, v, from, to, amount) ==
    /\ swap[s].step = "none"
    /\ Cardinality(UnderWay) < MaxUnderWay
    /\ ToAmount(from, to, amount) > 0
    /\ WithinLimits(u, from, amount)
    /\ swap' = [swap EXCEPT ![s] =
                  [step |-> "admitted", by |-> u, to |-> v, from |-> from, into |-> to, amount |-> amount,
                   credit |-> ToAmount(from, to, amount), fee |-> FeeAmount(from, to, amount)]]
    /\ UNCHANGED purse

\* postEntries: the debit, the credit and the fee, in this order, or nothing.
Out(s) == <<swap[s].by, swap[s].from>>
Into(s) == <<swap[s].to, swap[s].into>>
Fees(s) == <<Treasury, swap[s].from>>

Covers(s) == Less(purse[Out(s)], swap[s].amount) >= 0

\* Legs to oneself name no counterparty, and the store refuses a field without a value.
Bookable(s) == swap[s].to # swap[s].by

Post(s) ==
    /\ swap[s].step = "admitted" /\ Bookable(s) /\ Covers(s)
    /\ LET debited  == [purse EXCEPT ![Out(s)] = Less(@, swap[s].amount)]
           credited == [debited EXCEPT ![Into(s)] = @ + swap[s].credit]
       IN  purse' = [credited EXCEPT ![Fees(s)] = @ + swap[s].fee]
    /\ Goto(s, "posted")

\* INSUFFICIENT_FUNDS, or a transaction that fails, as one of legs to oneself always does.
PostFails(s) ==
    /\ swap[s].step = "admitted"
    /\ Goto(s, "refused")
    /\ UNCHANGED purse

Next ==
    \E s \in Swaps :
        \/ \E u, v \in Traders, from, to \in Coins, amount \in Amounts :
              Admit(s, u, v, from, to, amount)
        \/ Post(s) \/ PostFails(s)

Spec == Init /\ [][Next]_swapVars

-----------------------------------------------------------------------------
(* What a swap may make of a user's money.                                 *)

\* Everything in the purses, in USD, in units of a hundredth of a rate.
Worth == SumFunctionOnSet([k \in DOMAIN purse |-> purse[k] * Rate[k[2]]], DOMAIN purse)

Held == Traders \X Coins

TradersWorth == SumFunctionOnSet([k \in Held |-> purse[k] * Rate[k[2]]], Held)

OpeningWorth == SumFunctionOnSet([k \in Held |-> OpeningBalance * Rate[k[2]]], Held)

\* A swap makes or loses no more than it rounds: half a cent of the coin that
\* is debited, half a cent of it for the fee, half a cent of the coin that is
\* credited (fx-engine.ts lines 69-78, transfer/route.ts lines 48-50,
\* ledger.ts lines 105-112).
SwapsKeepWorth ==
    LET gain  == Worth - OpeningWorth
        slack == SumFunctionOnSet([s \in Posted |-> 2 * Rate[swap[s].from] + Rate[swap[s].into]],
                                  Posted)
    IN  2 * gain <= slack /\ -2 * gain <= slack

\* Twice the most a swap can bring those who make it, both roundings in their favour,
\* and less its fee: nothing once the fee is worth as much as the roundings.
Windfall(s) ==
    LET most  == Rate[swap[s].from] + Rate[swap[s].into]
        price == (swap[s].amount * FeePermille(swap[s].from, swap[s].into) * Rate[swap[s].from]) \div 5000
    IN  IF price >= most THEN 0 ELSE most - price

\* Changing coins and changing them back, through however many users and coins, earns
\* their owners nothing when the fee of each swap is worth its roundings.  Smaller ones
\* may earn what they round, as often as they are made, and no more: the route refuses
\* only what would credit nothing (transfer/route.ts lines 48-51, 64-83).
OnlySmallSwapsPay ==
    2 * (TradersWorth - OpeningWorth)
      <= SumFunctionOnSet([s \in Posted |-> Windfall(s)], Posted)

\* What a user sends away in all coins together passes the daily limit only by
\* what requests handled at the same time carry, and by the rounding of their
\* entries (limits.ts lines 30-70).
DailyLimitInUSD ==
    \A u \in Traders :
        SumFunctionOnSet(UsdOut, PostedOf(u))
          <= DailyLimit + (MaxUnderWay - 1) * SingleLimit
            + SumFunctionOnSet([s \in Posted |-> 5 * Rate[swap[s].from]], Posted)

\* However coins are changed into one another, the sums hold and so do the limits.
SwapsSound == SwapsKeepWorth /\ OnlySmallSwapsPay /\ DailyLimitInUSD

=============================================================================
