-------------------------------- MODULE Browser --------------------------------
(***************************************************************************)
(* One browser that several users of the ledger sign in with: what its     *)
(* stores keep from one to the next (store/auth.store.ts and               *)
(* store/wallet.store.ts, both kept in localStorage), what fills them      *)
(* (syncFromBackend of lib/wallet-sync.ts) and the pages that buy and sell *)
(* coins against the store alone.                                          *)
(*                                                                         *)
(* A call of syncFromBackend takes the token of whoever is signed in when  *)
(* it is made and fills the store when it is answered, whoever is signed   *)
(* in then.  Signing out empties the one store and not the other.  One     *)
(* country, so one coin; amounts in hundredths.                            *)
(***************************************************************************)
EXTENDS Integers

CONSTANTS
    People, Newcomers,   \* those of them who have yet to register
    Syncs,               \* calls of syncFromBackend
    Amounts, Opening,
    MaxPostings,         \* bound: what else is booked for each
    MaxTrades            \* bound: purchases and sales confirmed

VARIABLES
    ledger,    \* per person: coins at the server, and how often they changed
    known,     \* people with an account
    auth,      \* who is signed in
    signing,   \* people whose sign-in or registration is not answered yet
    shown,     \* wallets of the store: whose, coins, fiat
    listed,    \* whose transactions the store has
    sync,
    form,      \* the purchase or sale on the screen
    trades,    \* those confirmed
    base,      \* history: coins the store was last filled with; what is there
               \* after a trade confirmed before that
    caught,    \* history: filled for this user since he signed in
    stray,     \* history: filled for somebody else since he signed in
    oneSided,  \* history: filled last with wallets and no transactions
    crossed    \* history: that happened between the wallets and the
               \* transactions of a call for somebody else

accounts == <<ledger, known>>
store    == <<shown, listed>>
screen   == <<form, trades>>
history  == <<base, caught, stray, oneSided, crossed>>

browserVars == <<accounts, auth, signing, store, sync, screen, history>>

Nobody == "nobody"
Idle   == [of |-> Nobody, balance |-> "none", coins |-> 0, list |-> "none"]
NoForm == [step |-> "none"]

Init ==
    /\ ledger = [u \in People |-> [coins |-> IF u \in Newcomers THEN 0 ELSE Opening, posted |-> 0]]
    /\ known = People \ Newcomers
    /\ auth = Nobody /\ signing = {}
    /\ shown = [of |-> Nobody, coins |-> 0, fiat |-> 0] /\ listed = Nobody
    /\ sync = [s \in Syncs |-> Idle]
    /\ form = NoForm /\ trades = 0
    /\ base = 0 /\ caught = FALSE /\ stray = FALSE
    /\ oneSided = FALSE /\ crossed = FALSE

\* setWallets, through foldFiatIntoCoin: what was fiat becomes coins.
Fill(u, coins) ==
    /\ shown' = [of |-> u, coins |-> coins, fiat |-> 0]
    /\ base' = coins
    /\ form' = IF form = NoForm THEN form ELSE [form EXCEPT !.stale = TRUE]
    /\ crossed' = \E s \in Syncs : sync[s].balance = "shown" /\ sync[s].of # u

-----------------------------------------------------------------------------
(* The pages that sign in and register, and the settings' sign-out.        *)

Submit(u) ==
    /\ auth = Nobody
    /\ signing' = signing \cup {u}
    /\ UNCHANGED <<accounts, auth, store, sync, screen, history>>

\* Refused, or never answered.
Denied(u) ==
    /\ signing' = signing \ {u}
    /\ UNCHANGED <<accounts, auth, store, sync, screen, history>>

Ask(s, u) ==
    /\ sync[s] = Idle
    /\ sync' = [sync EXCEPT ![s] = [Idle EXCEPT !.of = u, !.balance = "asked", !.list = "asked"]]

SignedIn(u, s) ==
    /\ u \in signing \cap known
    /\ signing' = signing \ {u}
    /\ auth' = u /\ caught' = FALSE /\ stray' = FALSE
    /\ Ask(s, u)
    /\ UNCHANGED <<accounts, store, screen, base, oneSided, crossed>>

\* Mutant: the stores are left for the dashboard to fill.
RegisteredUnfilled(u) ==
    /\ u \in signing \ known
    /\ signing' = signing \ {u} /\ known' = known \cup {u}
    /\ auth' = u /\ caught' = TRUE /\ stray' = FALSE
    /\ UNCHANGED <<ledger, sync, store, screen, base, oneSided, crossed>>

\* Mutant: the transactions are not emptied.
RegisteredListKept(u) ==
    /\ u \in signing \ known
    /\ signing' = signing \ {u} /\ known' = known \cup {u}
    /\ auth' = u /\ caught' = TRUE /\ stray' = FALSE
    /\ Fill(u, 0) /\ oneSided' = FALSE
    /\ UNCHANGED <<ledger, sync, listed, trades>>

Registered(u) ==
    /\ u \in signing \ known
    /\ signing' = signing \ {u} /\ known' = known \cup {u}
    /\ auth' = u /\ caught' = TRUE /\ stray' = FALSE
    /\ Fill(u, 0) /\ listed' = u /\ oneSided' = FALSE
    /\ UNCHANGED <<ledger, sync, trades>>

\* A purchase or sale under way goes on, as do the calls.
SignOut ==
    /\ auth # Nobody
    /\ auth' = Nobody
    /\ form' = IF form.step = "confirmed" THEN NoForm ELSE form
    /\ UNCHANGED <<accounts, signing, store, sync, trades, history>>

\* The page is loaded again: what was under way is gone, the stores are not.
Reload ==
    /\ signing' = {} /\ sync' = [s \in Syncs |-> Idle] /\ form' = NoForm
    /\ UNCHANGED <<accounts, auth, store, history, trades>>

-----------------------------------------------------------------------------
(* syncFromBackend, called by the frame of the pages, by the dashboard and *)
(* after an operation.                                                     *)

Call(s) ==
    /\ auth # Nobody
    /\ Ask(s, auth)
    /\ UNCHANGED <<accounts, auth, signing, store, screen, history>>

\* The balance and the transactions are asked for at once and read apart; a
\* route can refuse and a call can fail.
ReadBalance(s) ==
    /\ sync[s].balance = "asked"
    /\ \E answer \in {"told", "refused"} :
          sync' = [sync EXCEPT ![s].balance = answer, ![s].coins = ledger[sync[s].of].coins]
    /\ UNCHANGED <<accounts, auth, signing, store, screen, history>>

ReadList(s) ==
    /\ sync[s].list = "asked"
    /\ \E answer \in {"told", "refused", "failed"} : sync' = [sync EXCEPT ![s].list = answer]
    /\ UNCHANGED <<accounts, auth, signing, store, screen, history>>

\* Both are here.  A list that failed throws the balance away.
Answered(s) == sync[s].of # Nobody /\ sync[s].balance # "asked" /\ sync[s].list # "asked"

Fills(s) == sync[s].balance = "told" /\ sync[s].list # "failed"

LandBalance(s) ==
    /\ Answered(s) /\ Fills(s)
    /\ Fill(sync[s].of, sync[s].coins)
    /\ oneSided' = TRUE
    /\ caught' = (caught \/ sync[s].of = auth)
    /\ stray' = (stray \/ sync[s].of # auth)
    /\ sync' = [sync EXCEPT ![s].balance = "shown"]
    /\ UNCHANGED <<accounts, auth, signing, listed, trades>>

\* The transactions are parsed after the wallets were set.
LandList(s) ==
    /\ sync[s].balance = "shown" /\ sync[s].list = "told"
    /\ listed' = sync[s].of
    /\ oneSided' = FALSE
    /\ sync' = [sync EXCEPT ![s] = Idle]
    /\ UNCHANGED <<accounts, auth, signing, shown, screen, base, caught, stray, crossed>>

\* A refused list, or one that cannot be parsed, leaves the one there was.
NoList(s) ==
    /\ sync[s].balance = "shown"
    /\ sync' = [sync EXCEPT ![s] = Idle]
    /\ UNCHANGED <<accounts, auth, signing, store, screen, history>>

LandInVain(s) ==
    /\ Answered(s) /\ ~Fills(s) /\ sync[s].balance # "shown"
    /\ sync' = [sync EXCEPT ![s] = Idle]
    /\ UNCHANGED <<accounts, auth, signing, store, screen, history>>

-----------------------------------------------------------------------------
(* The pages buy-tokens and sell-tokens: the amount is compared when it is *)
(* confirmed, the store is changed 400 milliseconds after the PIN.         *)

OnHand(kind) == IF kind = "buy" THEN shown.fiat ELSE shown.coins

\* Mutant: any amount will do.
ValidAny(kind, amount) == amount > 0

Valid(kind, amount) == amount <= OnHand(kind)

Confirm(kind, amount) ==
    /\ auth # Nobody /\ form = NoForm
    /\ trades < MaxTrades
    /\ Valid(kind, amount)
    /\ form' = [step |-> "confirmed", kind |-> kind, amount |-> amount, stale |-> FALSE]
    /\ trades' = trades + 1
    /\ UNCHANGED <<accounts, auth, signing, store, sync, history>>

\* Modificar, or another page.
Leave ==
    /\ form.step = "confirmed"
    /\ form' = NoForm
    /\ UNCHANGED <<accounts, auth, signing, store, sync, trades, history>>

EnterPIN ==
    /\ form.step = "confirmed"
    /\ form' = [form EXCEPT !.step = "executing"]
    /\ UNCHANGED <<accounts, auth, signing, store, sync, trades, history>>

Positive(n) == IF n > 0 THEN n ELSE 0

\* toFixed(2) of the fiat and what is left of a sale after half a per cent; the
\* amounts have no net that ends on half a hundredth.
WithProceeds(fiat, amount) == (1000 * fiat + 995 * amount + 500) \div 1000

\* buyTokens, without a fee.
Buy ==
    /\ form.step = "executing" /\ form.kind = "buy"
    /\ shown' = IF shown.of = Nobody THEN shown
                ELSE [shown EXCEPT !.coins = @ + form.amount, !.fiat = Positive(@ - form.amount)]
    /\ form' = NoForm
    /\ base' = IF form.stale THEN shown'.coins + shown'.fiat ELSE base
    /\ UNCHANGED <<accounts, auth, signing, listed, sync, caught, stray, oneSided, crossed, trades>>

Sell ==
    /\ form.step = "executing" /\ form.kind = "sell"
    /\ shown' = IF shown.of = Nobody THEN shown
                ELSE [shown EXCEPT !.coins = Positive(@ - form.amount),
                                   !.fiat = WithProceeds(@, form.amount)]
    /\ form' = NoForm
    /\ base' = IF form.stale THEN shown'.coins + shown'.fiat ELSE base
    /\ UNCHANGED <<accounts, auth, signing, listed, sync, caught, stray, oneSided, crossed, trades>>

-----------------------------------------------------------------------------
\* Anything that is booked for a person, by himself elsewhere or by another.
Book(u, n) ==
    /\ u \in known /\ ledger[u].posted < MaxPostings /\ ledger[u].coins + n >= 0
    /\ ledger' = [ledger EXCEPT ![u] = [coins |-> @.coins + n, posted |-> @.posted + 1]]
    /\ UNCHANGED <<known, auth, signing, store, sync, screen, history>>

Next ==
    \/ \E u \in People :
          \/ Submit(u) \/ Denied(u) \/ Registered(u)
          \/ \E s \in Syncs : SignedIn(u, s)
          \/ \E n \in Amounts : Book(u, n) \/ Book(u, -n)
    \/ \E s \in Syncs : Call(s) \/ ReadBalance(s) \/ ReadList(s) \/ LandBalance(s)
                      \/ LandList(s) \/ NoList(s) \/ LandInVain(s)
    \/ \E kind \in {"buy", "sell"}, amount \in Amounts : Confirm(kind, amount)
    \/ SignOut \/ Reload \/ Leave \/ EnterPIN \/ Buy \/ Sell

Spec == Init /\ [][Next]_browserVars

-----------------------------------------------------------------------------
(* Whose money a browser shows, and how much.                              *)

\* Who is signed in sees his own wallets, unless none of his calls has filled the
\* store yet or a call made for the user before him filled it late
\* (wallet-sync.ts lines 70-88 against auth.store.ts lines 45-49 and
\* register/page.tsx lines 138-142).
OwnMoneyShown == auth # Nobody /\ shown.of # auth => ~caught \/ stray

\* The transactions beside the wallets are the same user's, unless those of the
\* call that filled the wallets are not there, or it came between the wallets and
\* the transactions of a call for somebody else (wallet-sync.ts lines 78-83).
HistoryFits == shown.of # listed => oneSided \/ crossed

\* A browser shows one user's account, as a whole, and his own.
OwnAccountShown == OwnMoneyShown /\ HistoryFits

\* What purchases and sales make of a wallet is worth no more than the coins it
\* was filled with, unless the store was filled between the confirmation of one
\* and its PIN: then the deduction stops at zero and the proceeds do not
\* (sell-tokens/page.tsx lines 36-51, wallet.store.ts lines 101-111, 148-209).
NothingFromNothing == shown.coins + shown.fiat <= base

=============================================================================
