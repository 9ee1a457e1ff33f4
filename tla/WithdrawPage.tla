---------------------------- MODULE WithdrawPage ----------------------------
(***************************************************************************)
(* The withdrawal of a user of the ledger as he sees it: the page that     *)
(* keeps his bank accounts (app/(app)/bank-accounts), the steps of the     *)
(* withdrawal (app/(app)/withdraw) and the accounts themselves, which stay *)
(* in the browser (store/bank.store.ts) whoever signs out and in.          *)
(*                                                                         *)
(* The page goes on while its request is under way: the dialogue can be    *)
(* closed and the form changed, and the answer shows the voucher, which    *)
(* is made from the form.  The server books with the rule in force         *)
(* (module Commission) against a balance that others change as well.       *)
(* Whether a confirmed withdrawal is confirmed again is module Pages'.     *)
(***************************************************************************)
EXTENDS Commission

CONSTANTS
    Accounts, CountryOf,   \* bank accounts, and the country of each
    Country,               \* the user's
    None,
    Amounts,               \* what is typed, in cents
    OpeningBalance,
    Rules,                 \* what an administrator may make of the rule
    Requests,
    MaxPostings            \* bound: other movements of the balance

VARIABLES
    saved,      \* the accounts in this browser
    fading,     \* the accounts whose removal waits for the timer of the accounts page
    place,      \* the page: "accounts", "withdraw" or "elsewhere"
    form,       \* the withdrawal page's state
    asked,      \* per request: what was posted and what became of it
    funds,      \* the ledger's balance
    shown,      \* the balance the browser shows, and the postings it knows of
    rule,
    postings,   \* postings to the balance so far
    faded       \* history: accounts the timer removed

withdrawPageVars == <<saved, fading, place, form, asked, funds, shown, rule, postings, faded>>

-----------------------------------------------------------------------------
(* What the page expects to be charged.                                    *)

\* Mutant: the minimum is forgotten.
EstimateWithoutMinimum == [fee_permille |-> 15, fee_min |-> 0, fee_max |-> 0]

\* 1.5 %, and at least 1.00 in Guatemala and 5.00 elsewhere.
Estimate == [fee_permille |-> 15, fee_min |-> IF Country = "GT" THEN 100 ELSE 500, fee_max |-> 0]

EstNet(cents) == IF Net(Estimate, cents) < 0 THEN 0 ELSE Net(Estimate, cents)

\* The rule a collection without rules is given.
Seeded == [fee_permille |-> 15, fee_min |-> IF Country = "GT" THEN 100 ELSE 500, fee_max |-> 0]

-----------------------------------------------------------------------------
(* The pages.                                                              *)

\* knew and of are history: the postings known when the amount was accepted, and the
\* request whose answer showed the voucher; touched, whether the form changed since.
NewForm ==
    [step |-> "accounts", selected |-> None, cents |-> 0, dialogue |-> FALSE,
     loading |-> FALSE, knew |-> 0, of |-> None, touched |-> FALSE]

Unsent == [at |-> "unsent", awaited |-> FALSE]

\* Accounts of users before him may be there.
Init ==
    /\ saved \in SUBSET Accounts /\ fading = {} /\ faded = {}
    /\ place = "elsewhere" /\ form = NewForm
    /\ asked = [r \in Requests |-> Unsent]
    /\ funds = OpeningBalance /\ shown = [cents |-> OpeningBalance, postings |-> 0]
    /\ rule = Seeded /\ postings = 0

server == <<funds, rule, postings>>
kept   == <<saved, fading, faded>>

Mine == {a \in saved : CountryOf[a] = Country}

OpenAccounts ==
    /\ place = "elsewhere" /\ place' = "accounts"
    /\ UNCHANGED <<kept, form, asked, shown, server>>

OpenWithdraw ==
    /\ place \in {"elsewhere", "accounts"} /\ place' = "withdraw"
    /\ form' = NewForm
    /\ UNCHANGED <<kept, asked, shown, server>>

\* A page is left; nobody waits for the request any more.
Leave ==
    /\ place # "elsewhere" /\ ~form.dialogue
    /\ place' = "elsewhere" /\ form' = NewForm
    /\ asked' = [r \in Requests |-> [asked[r] EXCEPT !.awaited = FALSE]]
    /\ UNCHANGED <<kept, shown, server>>

\* The dashboard reads the balance.
Refresh ==
    /\ place = "elsewhere"
    /\ shown' = [cents |-> funds, postings |-> postings]
    /\ UNCHANGED <<kept, place, form, asked, server>>

-----------------------------------------------------------------------------
(* The accounts.                                                           *)

\* Mutant: every account in the browser is offered.
AnyAccount(a) == a \in saved

Offered(a) == a \in Mine

\* Both pages have the same form, for an account of his country.
Save(a) ==
    /\ CountryOf[a] = Country /\ a \notin saved \cup fading
    /\ saved' = saved \cup {a}
    /\ UNCHANGED <<fading, faded>>

AddThere(a) ==
    /\ place = "accounts"
    /\ Save(a)
    /\ UNCHANGED <<place, form, asked, shown, server>>

AddHere(a) ==
    /\ place = "withdraw" /\ form.step = "add"
    /\ Save(a)
    /\ form' = [form EXCEPT !.step = "accounts"]
    /\ UNCHANGED <<place, asked, shown, server>>

\* The accounts page fades the account out first, those of other countries too.
DeleteThere(a) ==
    /\ place = "accounts" /\ a \in saved
    /\ fading' = fading \cup {a}
    /\ UNCHANGED <<saved, faded, place, form, asked, shown, server>>

\* The timer fires wherever the user is by then.
FadeOut(a) ==
    /\ a \in fading
    /\ saved' = saved \ {a} /\ fading' = fading \ {a} /\ faded' = faded \cup {a}
    /\ UNCHANGED <<place, form, asked, shown, server>>

-----------------------------------------------------------------------------
(* The steps.                                                              *)

\* At a step of the page, with no dialogue over it.
On(step) == place = "withdraw" /\ form.step = step /\ ~form.dialogue

\* What the form becomes by the user's hand.
Set(new) ==
    /\ form' = [new EXCEPT !.touched =
                   @ \/ (form.loading /\ <<new.selected, new.cents>> # <<form.selected, form.cents>>)]
    /\ UNCHANGED <<place, asked, shown, server>>

Choose(a) ==
    /\ On("accounts") /\ Offered(a)
    /\ Set([form EXCEPT !.selected = a])
    /\ UNCHANGED kept

\* Mutant: the account stays selected.
DeleteOnly(a) ==
    /\ On("accounts") /\ Offered(a)
    /\ saved' = saved \ {a}
    /\ Set(form)
    /\ UNCHANGED <<fading, faded>>

Delete(a) ==
    /\ On("accounts") /\ Offered(a)
    /\ saved' = saved \ {a}
    /\ Set([form EXCEPT !.selected = IF @ = a THEN None ELSE @])
    /\ UNCHANGED <<fading, faded>>

NewAccount ==
    /\ On("accounts")
    /\ Set([form EXCEPT !.step = "add"])
    /\ UNCHANGED kept

Continue ==
    /\ On("accounts") /\ form.selected # None /\ shown.cents > 0
    /\ Set([form EXCEPT !.step = "amount"])
    /\ UNCHANGED kept

\* The amount is typed, or all there is.
Type(cents) ==
    /\ On("amount")
    /\ cents \in Amounts \cup {shown.cents}
    /\ Set([form EXCEPT !.cents = cents])
    /\ UNCHANGED kept

\* Mutant: the amount is not compared with the balance.
AmountNextAny ==
    /\ On("amount") /\ form.cents > 0
    /\ Set([form EXCEPT !.step = "confirm", !.knew = shown.postings])
    /\ UNCHANGED kept

\* handleAmountNext is the only place where isValid is asked for.
AmountNext ==
    /\ On("amount") /\ form.cents > 0 /\ form.cents <= shown.cents
    /\ Set([form EXCEPT !.step = "confirm", !.knew = shown.postings])
    /\ UNCHANGED kept

\* goBack, Cancelar, Cambiar and Modificar monto.
Back ==
    /\ On("add") \/ On("amount") \/ On("confirm")
    /\ Set([form EXCEPT !.step = IF @ = "confirm" THEN "amount" ELSE "accounts"])
    /\ UNCHANGED kept

OpenDialogue ==
    /\ On("confirm")
    /\ Set([form EXCEPT !.dialogue = TRUE])
    /\ UNCHANGED kept

\* The request goes on.
CloseDialogue ==
    /\ form.dialogue
    /\ Set([form EXCEPT !.dialogue = FALSE])
    /\ UNCHANGED kept

-----------------------------------------------------------------------------
(* The request.                                                            *)

Post(r) ==
    asked' = [asked EXCEPT ![r] =
       [at |-> "asked", awaited |-> TRUE, account |-> form.selected, cents |-> form.cents,
        promised |-> EstNet(form.cents), kept |-> form.selected \in saved, knew |-> form.knew,
        outrun |-> FALSE, net |-> 0, by |-> rule]]

MayConfirm(r) == form.dialogue /\ ~form.loading /\ asked[r] = Unsent

\* Mutant: the form is cleared when the request is sent.
ConfirmAndClear(r) ==
    /\ MayConfirm(r) /\ Post(r)
    /\ form' = [form EXCEPT !.loading = TRUE, !.touched = FALSE, !.cents = 0]
    /\ UNCHANGED <<kept, place, shown, server>>

\* handleExecute, with the form as it is at the click.
Confirm(r) ==
    /\ MayConfirm(r) /\ Post(r)
    /\ form' = [form EXCEPT !.loading = TRUE, !.touched = FALSE]
    /\ UNCHANGED <<kept, place, shown, server>>

pageOnly == <<kept, place, form, shown>>

Book(r) ==
    /\ asked[r].at = "asked" /\ asked[r].cents <= funds
    /\ funds' = funds - asked[r].cents /\ postings' = postings + 1
    /\ asked' = [asked EXCEPT ![r] = [@ EXCEPT !.at = "booked", !.by = rule,
                                              !.net = Net(rule, asked[r].cents)]]
    /\ UNCHANGED <<pageOnly, rule>>

\* Refused for lack of funds; outrun is history.
Short(r) ==
    /\ asked[r].at = "asked" /\ asked[r].cents > funds
    /\ asked' = [asked EXCEPT ![r] = [@ EXCEPT !.at = "short", !.outrun = postings > asked[r].knew]]
    /\ UNCHANGED <<pageOnly, server>>

\* Refused for another reason: a limit, a freeze, an error.
Refuse(r) ==
    /\ asked[r].at = "asked"
    /\ asked' = [asked EXCEPT ![r].at = "refused"]
    /\ UNCHANGED <<pageOnly, server>>

\* A movement of the user's from elsewhere.
OtherPosting(cents) ==
    /\ postings < MaxPostings /\ cents <= funds
    /\ funds' = funds - cents /\ postings' = postings + 1
    /\ UNCHANGED <<pageOnly, asked, rule>>

EditRule(new) ==
    /\ new # rule /\ rule' = new
    /\ UNCHANGED <<pageOnly, asked, funds, postings>>

\* syncFromBackend, before the voucher, which is shown also when it fails.
Sync(r) ==
    /\ asked[r].at = "booked"
    /\ asked' = [asked EXCEPT ![r].at = "synced"]
    /\ \/ shown' = [cents |-> funds, postings |-> postings]
       \/ UNCHANGED shown
    /\ UNCHANGED <<kept, place, form, server>>

Voucher == [account |-> form.selected, cents |-> form.cents]

\* Whatever step the page is at by now.
Succeed(r) ==
    /\ asked[r].at = "synced" /\ asked[r].awaited
    /\ asked' = [asked EXCEPT ![r].awaited = FALSE]
    /\ form' = [form EXCEPT !.step = "success", !.loading = FALSE, !.dialogue = FALSE, !.of = r]
    /\ UNCHANGED <<kept, place, shown, server>>

\* An error is shown in the dialogue if it is still open; an answer may also be lost.
Fail(r) ==
    /\ asked[r].at \in {"short", "refused", "booked"} /\ asked[r].awaited
    /\ asked' = [asked EXCEPT ![r].awaited = FALSE]
    /\ form' = [form EXCEPT !.loading = FALSE]
    /\ UNCHANGED <<kept, place, shown, server>>

Next ==
    \/ OpenAccounts \/ OpenWithdraw \/ Leave \/ Refresh
    \/ \E a \in Accounts :
          \/ AddThere(a) \/ DeleteThere(a) \/ FadeOut(a)
          \/ AddHere(a) \/ Choose(a) \/ Delete(a)
    \/ NewAccount \/ Continue \/ AmountNext \/ Back \/ OpenDialogue \/ CloseDialogue
    \/ \E cents \in Amounts \cup {shown.cents} : Type(cents)
    \/ \E cents \in Amounts : OtherPosting(cents)
    \/ \E new \in Rules : EditRule(new)
    \/ \E r \in Requests :
          Confirm(r) \/ Book(r) \/ Short(r) \/ Refuse(r) \/ Sync(r) \/ Succeed(r) \/ Fail(r)

Spec == Init /\ [][Next]_withdrawPageVars

-----------------------------------------------------------------------------
(* What the user gets.                                                     *)

Sent == {r \in Requests : asked[r].at # "unsent"}

\* The money goes to an account of his country that was still saved when he confirmed,
\* unless the timer of the other page removed it after he had chosen it
\* (bank-accounts/page.tsx lines 168-174, withdraw/page.tsx lines 412-415).
PaidToSaved ==
    \A r \in Sent : CountryOf[asked[r].account] = Country
                    /\ (asked[r].kept \/ asked[r].account \in faded)

\* What is booked leaves what the page promised, as long as the rule is the seeded one;
\* below the minimum fee the page promises nothing and less than nothing is booked
\* (withdraw/page.tsx lines 260-261, commission-config.ts line 232).
NetAsPromised ==
    \A r \in Sent : asked[r].at \in {"booked", "synced"} /\ asked[r].by = Seeded =>
                       asked[r].net = asked[r].promised \/ asked[r].net < 0

\* A withdrawal the page accepted is refused for lack of funds only when something was
\* booked that the page had not seen (withdraw/page.tsx lines 258, 278).
ShortWasOutrun == \A r \in Sent : asked[r].at = "short" => asked[r].outrun

\* The voucher names the account and the amount that were posted, unless the user
\* changed the form while the request was under way (withdraw/page.tsx lines 351-357,
\* 661-683).
VoucherTells ==
    form.step = "success" =>
       form.touched \/ Voucher = [account |-> asked[form.of].account, cents |-> asked[form.of].cents]

WithdrawnAsMeant == PaidToSaved /\ NetAsPromised /\ ShortWasOutrun /\ VoucherTells

=============================================================================
