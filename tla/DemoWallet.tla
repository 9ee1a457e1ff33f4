------------------------------ MODULE DemoWallet ------------------------------
(***************************************************************************)
(* The demonstration users of the web app, whose balances the pages keep:  *)
(* each has a document of len_demo_users (lib/user-db.ts), a copy of it in *)
(* his browser (store/wallet.store.ts) and what keeps the two together     *)
(* (lib/wallet-sync.ts).                                                   *)
(*                                                                         *)
(* A transfer deducts from the browser's copy, saves it, then reads and    *)
(* writes the recipient's document, who is told by the listener.  A save   *)
(* replaces the document whatever it has become.  One coin; the purchase   *)
(* and sale of coins are left out.                                         *)
(***************************************************************************)
EXTENDS Integers, Functions

CONSTANTS
    DemoUsers,
    Transfers,
    Amounts,
    OpeningBalance,
    MaxMishaps      \* bound: writes that fail, pages that are reloaded

VARIABLES
    document,   \* per user: coins, transfers received, who wrote it last
    local,      \* per user: coins, transfers received
    dirty,      \* users with a save scheduled
    transfer,   \* per transfer: who to whom, how much, and how far
    mishaps,
    disturbed   \* history: has one of the events of NothingMadeOrLost happened?

demoVars == <<document, local, dirty, transfer, mishaps, disturbed>>

Init ==
    /\ document = [u \in DemoUsers |-> [coins |-> OpeningBalance, received |-> {}, by |-> "owner"]]
    /\ local = [u \in DemoUsers |-> [coins |-> OpeningBalance, received |-> {}]]
    /\ dirty = {}
    /\ transfer = [t \in Transfers |-> [step |-> "none"]]
    /\ mishaps = 0 /\ disturbed = FALSE

At(t, step) == transfer[t].step = step

Mishap == mishaps < MaxMishaps /\ mishaps' = mishaps + 1

Positive(n) == IF n > 0 THEN n ELSE 0

\* Transfers in the document that the copy does not know.
Unseen(u) == document[u].received \ local[u].received

\* saveUserSnapshot replaces the document.
Saved(copy) == [coins |-> copy.coins, received |-> copy.received, by |-> "owner"]

-----------------------------------------------------------------------------
(* executeTransfer of the send page, for a demonstration user.             *)

\* Mutant: the copy is not saved before the recipient is credited.
FlushLater(u, copy) == UNCHANGED document

Flush(u, copy) == document' = [document EXCEPT ![u] = Saved(copy)]

\* recordTransfer, with no regard to the balance but that it stops at zero, and
\* the save, in one go.
Send(t, u, v, n) ==
    /\ At(t, "none") /\ u # v
    /\ \A s \in Transfers : ~At(s, "none") /\ transfer[s].from = u => At(s, "done")
    /\ LET copy == [local[u] EXCEPT !.coins = Positive(@ - n)] IN
          /\ local' = [local EXCEPT ![u] = copy]
          /\ Flush(u, copy)
    /\ dirty' = dirty \cup {u}
    /\ transfer' = [transfer EXCEPT ![t] = [step |-> "saved", from |-> u, to |-> v, amount |-> n]]
    /\ disturbed' = (disturbed \/ n > local[u].coins \/ Unseen(u) # {})
    /\ UNCHANGED mishaps

\* The save fails silently, and the transfer goes on.
SendUnsaved(t, u, v, n) ==
    /\ At(t, "none") /\ u # v /\ Mishap
    /\ \A s \in Transfers : ~At(s, "none") /\ transfer[s].from = u => At(s, "done")
    /\ local' = [local EXCEPT ![u].coins = Positive(@ - n)]
    /\ dirty' = dirty \cup {u}
    /\ transfer' = [transfer EXCEPT ![t] = [step |-> "saved", from |-> u, to |-> v, amount |-> n]]
    /\ disturbed' = TRUE
    /\ UNCHANGED document

\* creditTransfer reads the recipient's document ...
ReadRecipient(t) ==
    /\ At(t, "saved")
    /\ transfer' = [transfer EXCEPT ![t] =
                       [step |-> "read", from |-> @.from, to |-> @.to, amount |-> @.amount,
                        seen |-> document[@.to]]]
    /\ UNCHANGED <<document, local, dirty, mishaps, disturbed>>

\* ... and replaces it by what it read with the amount added.
Credit(t) ==
    /\ At(t, "read")
    /\ LET v == transfer[t].to  seen == transfer[t].seen IN
          /\ document' = [document EXCEPT ![v] =
                [coins |-> seen.coins + transfer[t].amount,
                 received |-> seen.received \cup {t}, by |-> "system"]]
          /\ disturbed' = (disturbed \/ document[v] # seen)
    /\ transfer' = [transfer EXCEPT ![t].step = "done"]
    /\ UNCHANGED <<local, dirty, mishaps>>

\* A call of creditTransfer fails; the page says that the money was sent.
CreditFails(t) ==
    /\ transfer[t].step \in {"saved", "read"} /\ Mishap
    /\ transfer' = [transfer EXCEPT ![t].step = "done"]
    /\ disturbed' = TRUE
    /\ UNCHANGED <<document, local, dirty>>

-----------------------------------------------------------------------------
(* wallet-sync.                                                            *)

\* The save that was scheduled a second and a half ago; it may fail silently.
SaveScheduled(u) ==
    /\ u \in dirty
    /\ dirty' = dirty \ {u}
    /\ document' = [document EXCEPT ![u] = Saved(local[u])]
    /\ disturbed' = (disturbed \/ Unseen(u) # {})
    /\ UNCHANGED <<local, transfer, mishaps>>

SaveFails(u) ==
    /\ u \in dirty /\ Mishap
    /\ dirty' = dirty \ {u}
    /\ UNCHANGED <<document, local, transfer, disturbed>>

\* The listener: a document somebody else wrote, with a transfer that is new
\* here, replaces the copy.
Listen(u) ==
    /\ document[u].by = "system" /\ Unseen(u) # {}
    /\ local' = [local EXCEPT ![u] = [coins |-> document[u].coins, received |-> document[u].received]]
    /\ UNCHANGED <<document, dirty, transfer, mishaps, disturbed>>

\* The page is loaded again: syncFromFirestore takes the document, and what the
\* page was doing is over.
Reload(u) ==
    /\ Mishap
    /\ local' = [local EXCEPT ![u] = [coins |-> document[u].coins, received |-> document[u].received]]
    /\ dirty' = dirty \ {u}
    /\ transfer' = [t \in Transfers |->
                       IF transfer[t].step \in {"saved", "read"} /\ transfer[t].from = u
                       THEN [transfer[t] EXCEPT !.step = "done"] ELSE transfer[t]]
    /\ disturbed' = (disturbed \/ transfer' # transfer)
    /\ UNCHANGED document

Next ==
    \/ \E t \in Transfers :
          \/ \E u, v \in DemoUsers, n \in Amounts : Send(t, u, v, n) \/ SendUnsaved(t, u, v, n)
          \/ ReadRecipient(t) \/ Credit(t) \/ CreditFails(t)
    \/ \E u \in DemoUsers : SaveScheduled(u) \/ SaveFails(u) \/ Listen(u) \/ Reload(u)

Spec == Init /\ [][Next]_demoVars

-----------------------------------------------------------------------------
(* What the pages keep of the demonstration users' coins.                  *)

\* Transfers that are saved by the sender and not yet with the recipient.
UnderWay == {t \in Transfers : transfer[t].step \in {"saved", "read"}}

\* The documents and the transfers under way hold the coins there were, except
\* after: a transfer of more than the sender had; a save over a transfer its
\* browser did not know of; a credit over a document that was no longer what was
\* read; a save or a credit of a transfer that failed; a page loaded again in
\* the middle of one (send/page.tsx lines 99-156, user-db.ts lines 35-108).
NothingMadeOrLost ==
    ~disturbed =>
        SumFunctionOnSet([u \in DemoUsers |-> document[u].coins], DemoUsers)
          + SumFunctionOnSet([t \in UnderWay |-> transfer[t].amount], UnderWay)
        = SumFunctionOnSet([u \in DemoUsers |-> OpeningBalance], DemoUsers)

=============================================================================
