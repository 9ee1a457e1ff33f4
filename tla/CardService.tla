----------------------------- MODULE CardService -----------------------------
(***************************************************************************)
(* The card service (services/card-service): cards of one user and type at *)
(* the issuer Pomelo, freezing them, and authorizing payments against the  *)
(* day's spending limit.                                                   *)
(*                                                                         *)
(* A request reads rows, calls Pomelo and writes rows in calls that others *)
(* come between.  Pomelo repeats an authorization it got no answer to; its *)
(* access token, and requests that only read, are left out.                *)
(***************************************************************************)
EXTENDS Integers, Sequences, FiniteSets

CONSTANTS
    Requests,        \* requests that can be in progress
    Amounts,         \* of authorizations, in whole dollars
    SpendingLimit,   \* spendingLimitDailyUSD
    MaxCards,        \* bound: cards issued
    MaxRequests,     \* bound: requests that are begun
    MaxBreaks        \* bound: calls that throw

\* Amounts and the limit are whole dollars.
ASSUME CardServiceAssumption == Amounts \subseteq Nat /\ SpendingLimit \in Nat

VARIABLES
    cards,    \* table cards: column status of each, in order of issue
    issuer,   \* status of each card at Pomelo, in the same order or ahead of it
    today,    \* what was authorized today, per card (table card_transactions)
    request,  \* what each request does next and what it has read
    begun, breaks,
    late,     \* history: amounts recorded after the day's sum had changed
    crossed   \* history: cards whose status two requests changed at a time

cardVars == <<cards, issuer, today, request, begun, breaks, late, crossed>>

NoRequest == [step |-> "none"]

Init ==
    /\ cards = <<>> /\ issuer = <<>> /\ today = <<>>
    /\ request = [r \in Requests |-> NoRequest]
    /\ begun = 0 /\ breaks = 0 /\ late = 0 /\ crossed = {}

Do(r, with) == request' = [request EXCEPT ![r] = with]
Begin(r)    == request[r] = NoRequest /\ begun < MaxRequests /\ begun' = begun + 1
At(r, step) == request[r].step = step

-----------------------------------------------------------------------------
(* issueCard.                                                              *)

\* No active card of this type was found.
Issue(r) ==
    /\ Begin(r)
    /\ \A c \in DOMAIN cards : cards[c] # "active"
    /\ Do(r, [step |-> "ordering"])
    /\ UNCHANGED <<cards, issuer, today, breaks, late, crossed>>

\* Pomelo makes the card; the row follows in a later call.
OrderCard(r) ==
    /\ At(r, "ordering")
    /\ Len(issuer) < MaxCards
    /\ issuer' = Append(issuer, "ACTIVE")
    /\ cards' = Append(cards, "none") /\ today' = Append(today, 0)
    /\ Do(r, [step |-> "storing", card |-> Len(issuer')])
    /\ UNCHANGED <<begun, breaks, late, crossed>>

StoreCard(r) ==
    /\ At(r, "storing")
    /\ cards' = [cards EXCEPT ![request[r].card] = "active"]
    /\ Do(r, NoRequest)
    /\ UNCHANGED <<issuer, today, begun, breaks, late, crossed>>

-----------------------------------------------------------------------------
(* setStatus.                                                              *)

\* Requests about to write the status of card c.
Setting(c) == {r \in Requests : request[r].step \in {"patching", "updating"} /\ request[r].card = c}

SetStatus(r, c, action) ==
    /\ Begin(r)
    /\ cards[c] \in {"active", "frozen"}
    /\ Do(r, [step |-> "patching", card |-> c, action |-> action])
    /\ crossed' = IF Setting(c) # {} THEN crossed \cup {c} ELSE crossed
    /\ UNCHANGED <<cards, issuer, today, breaks, late>>

\* Mutant: Pomelo is not told that the card is active again.
PatchFreeze(r) ==
    /\ At(r, "patching")
    /\ issuer' = [issuer EXCEPT ![request[r].card] =
                     IF request[r].action = "freeze" THEN "BLOCKED" ELSE @]
    /\ request' = [request EXCEPT ![r].step = "updating"]
    /\ UNCHANGED <<cards, today, begun, breaks, late, crossed>>

Patch(r) ==
    /\ At(r, "patching")
    /\ issuer' = [issuer EXCEPT ![request[r].card] =
                     IF request[r].action = "freeze" THEN "BLOCKED" ELSE "ACTIVE"]
    /\ request' = [request EXCEPT ![r].step = "updating"]
    /\ UNCHANGED <<cards, today, begun, breaks, late, crossed>>

UpdateStatus(r) ==
    /\ At(r, "updating")
    /\ cards' = [cards EXCEPT ![request[r].card] =
                    IF request[r].action = "freeze" THEN "frozen" ELSE "active"]
    /\ Do(r, NoRequest)
    /\ UNCHANGED <<issuer, today, begun, breaks, late, crossed>>

-----------------------------------------------------------------------------
(* handlePomeloAuthorization.                                              *)

\* An authorization of a card that is not active is rejected.
Authorize(r, c, amount) ==
    /\ Begin(r)
    /\ cards[c] = "active"
    /\ Do(r, [step |-> "summing", card |-> c, amount |-> amount])
    /\ UNCHANGED <<cards, issuer, today, breaks, late, crossed>>

\* Mutant: the new amount is not part of the sum.
WithinLimitBefore(r) == today[request[r].card] <= SpendingLimit

WithinLimit(r) == today[request[r].card] + request[r].amount <= SpendingLimit

\* The day's sum is read and compared.
SumToday(r) ==
    /\ At(r, "summing")
    /\ IF WithinLimit(r)
       THEN Do(r, [step |-> "recording", card |-> request[r].card,
                   amount |-> request[r].amount, sum |-> today[request[r].card]])
       ELSE Do(r, NoRequest)
    /\ UNCHANGED <<cards, issuer, today, begun, breaks, late, crossed>>

\* The authorization is recorded and Pomelo told APPROVED.
RecordAuthorization(r) ==
    /\ At(r, "recording")
    /\ LET c == request[r].card IN
          /\ today' = [today EXCEPT ![c] = @ + request[r].amount]
          /\ late' = IF today[c] # request[r].sum THEN late + request[r].amount ELSE late
    /\ Do(r, NoRequest)
    /\ UNCHANGED <<cards, issuer, begun, breaks, crossed>>

-----------------------------------------------------------------------------
\* A call throws: the request ends where it is.
Break(r) ==
    /\ request[r] # NoRequest /\ breaks < MaxBreaks
    /\ breaks' = breaks + 1
    /\ Do(r, NoRequest)
    /\ UNCHANGED <<cards, issuer, today, begun, late, crossed>>

\* The sum starts again at midnight.
Midnight ==
    /\ \E c \in DOMAIN today : today[c] > 0
    /\ today' = [c \in DOMAIN today |-> 0]
    /\ UNCHANGED <<cards, issuer, request, begun, breaks, late, crossed>>

Next ==
    \/ \E r \in Requests :
          \/ Issue(r) \/ OrderCard(r) \/ StoreCard(r) \/ Patch(r) \/ UpdateStatus(r)
          \/ SumToday(r) \/ RecordAuthorization(r) \/ Break(r)
          \/ \E c \in DOMAIN cards :
                \/ \E action \in {"freeze", "unfreeze"} : SetStatus(r, c, action)
                \/ \E amount \in Amounts : Authorize(r, c, amount)
    \/ Midnight

Spec == Init /\ [][Next]_cardVars

-----------------------------------------------------------------------------
(* What the card service keeps true of limits and statuses.                *)

\* What a card spends in a day passes its limit by no more than the amounts
\* that were compared with a sum another authorization had changed before they
\* were recorded (card.service.ts lines 301-320).
OverspendIsLate == \A c \in DOMAIN cards : today[c] <= SpendingLimit + late

\* With no request in progress the row and the issuer agree on which cards can
\* pay, each call that threw leaves at most one card on which they do not, and
\* so do two changes of a card's status that came at a time (lines 226-236;
\* for a card that has no row, lines 134-159).
StatusesAgree ==
    (\A r \in Requests : request[r] = NoRequest) =>
        Cardinality({c \in DOMAIN cards \ crossed :
                        (cards[c] = "active") # (issuer[c] = "ACTIVE")}) <= breaks

=============================================================================
