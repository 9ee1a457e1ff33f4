------------------------------ MODULE FxEngine ------------------------------
(***************************************************************************)
(* The FX engine (services/fx-engine): exchange rates in Redis, refreshed  *)
(* every minute, and quotes that lock a rate for 30 seconds and are good   *)
(* for one exchange.                                                       *)
(*                                                                         *)
(* Keys of Redis run out at any time.  Of a rate nothing matters but       *)
(* whether a provider told it or it is the number in the program, so the   *)
(* conversion is left to the two rates and the fee to the schedule.        *)
(***************************************************************************)
EXTENDS Integers, Sequences

CONSTANTS
    Fiats,         \* currencies with a rate; USD, whose rate is fixed, apart
    Clients,       \* requests of createQuote and consumeQuote
    MaxQuotes      \* bound: quotes made

VARIABLES
    rates,     \* fx:rate:usd:<fiat> in Redis
    quotes,    \* fx:quote:<id>: the two rates of each quote, and whether it is there
    client,    \* what each request does next and has read
    refreshed, \* the currencies the running refreshAllRates has still to do
    used,      \* history: quotes handed out, in order
    shared     \* history: quotes two requests had read before one deleted them

fxVars == <<rates, quotes, client, refreshed, used, shared>>

\* FALLBACK_RATES when none of the three providers answered; it is cached too.
Fetched == {"told", "fallback"}

Init ==
    /\ rates = [f \in Fiats |-> "none"]
    /\ quotes = <<>>
    /\ client = [c \in Clients |-> [step |-> "idle"]]
    /\ refreshed = {}
    /\ used = <<>> /\ shared = {}

-----------------------------------------------------------------------------
(* refreshAllRates, one currency after the other.                          *)

StartRefresh ==
    /\ refreshed = {}
    /\ refreshed' = Fiats
    /\ UNCHANGED <<rates, quotes, client, used, shared>>

Refresh(f) ==
    /\ f \in refreshed
    /\ refreshed' = refreshed \ {f}
    /\ \E rate \in Fetched : rates' = [rates EXCEPT ![f] = rate]
    /\ UNCHANGED <<quotes, client, used, shared>>

-----------------------------------------------------------------------------
(* createQuote: convert asks for the rate of one currency and then of the  *)
(* other; one that is not cached is fetched at once.                       *)

GetRate(f, rate) ==
    /\ rates[f] # "none" => rate = rates[f]
    /\ rates' = [rates EXCEPT ![f] = rate]

ConvertFrom(c, f, g) ==
    /\ client[c].step = "idle"
    /\ Len(quotes) < MaxQuotes
    /\ \E rate \in Fetched :
          /\ GetRate(f, rate)
          /\ client' = [client EXCEPT ![c] = [step |-> "converting", from |-> rate, to |-> g]]
    /\ UNCHANGED <<quotes, refreshed, used, shared>>

ConvertTo(c) ==
    /\ client[c].step = "converting"
    /\ \E rate \in Fetched :
          /\ GetRate(client[c].to, rate)
          /\ client' = [client EXCEPT ![c] =
                [step |-> "storing", quote |-> [from |-> client[c].from, to |-> rate]]]
    /\ UNCHANGED <<quotes, refreshed, used, shared>>

StoreQuote(c) ==
    /\ client[c].step = "storing" /\ Len(quotes) < MaxQuotes
    /\ quotes' = Append(quotes, [locked |-> client[c].quote, live |-> TRUE])
    /\ client' = [client EXCEPT ![c] = [step |-> "idle"]]
    /\ UNCHANGED <<rates, refreshed, used, shared>>

-----------------------------------------------------------------------------
(* consumeQuote: get, and then del.                                        *)

GetQuote(c, q) ==
    /\ client[c].step = "idle"
    /\ quotes[q].live
    /\ client' = [client EXCEPT ![c] = [step |-> "deleting", quote |-> q]]
    /\ shared' = IF \E d \in Clients : client[d].step = "deleting" /\ client[d].quote = q
                 THEN shared \cup {q} ELSE shared
    /\ UNCHANGED <<rates, quotes, refreshed, used>>

\* Mutant: the quote is left to run out.
HandOutOnly(c) ==
    /\ client[c].step = "deleting"
    /\ used' = Append(used, client[c].quote)
    /\ client' = [client EXCEPT ![c] = [step |-> "idle"]]
    /\ UNCHANGED <<rates, quotes, refreshed, shared>>

DeleteQuote(c) ==
    /\ client[c].step = "deleting"
    /\ quotes' = [quotes EXCEPT ![client[c].quote].live = FALSE]
    /\ used' = Append(used, client[c].quote)
    /\ client' = [client EXCEPT ![c] = [step |-> "idle"]]
    /\ UNCHANGED <<rates, refreshed, shared>>

-----------------------------------------------------------------------------
(* The 120 seconds of a rate and the 30 of a quote are over.               *)

RateExpires(f) ==
    /\ rates' = [rates EXCEPT ![f] = "none"]
    /\ UNCHANGED <<quotes, client, refreshed, used, shared>>

QuoteExpires(q) ==
    /\ quotes' = [quotes EXCEPT ![q].live = FALSE]
    /\ UNCHANGED <<rates, client, refreshed, used, shared>>

Next ==
    \/ StartRefresh
    \/ \E f \in Fiats : Refresh(f) \/ RateExpires(f)
    \/ \E q \in DOMAIN quotes : QuoteExpires(q)
    \/ \E c \in Clients :
          \/ \E f, g \in Fiats : f # g /\ ConvertFrom(c, f, g)
          \/ ConvertTo(c) \/ StoreQuote(c) \/ DeleteQuote(c)
          \/ \E q \in DOMAIN quotes : GetQuote(c, q)

Spec == Init /\ [][Next]_fxVars

-----------------------------------------------------------------------------
(* What the FX engine keeps true of its quotes.                            *)

\* A quote serves one exchange, unless two requests had both read it before one
\* of them deleted it (fx-engine.service.ts lines 313-327: "so it can only be
\* used once").
QuoteUsedOnce ==
    \A i, j \in DOMAIN used : i # j /\ used[i] = used[j] => used[i] \in shared

=============================================================================
