-------------------------------- MODULE Pages --------------------------------
(***************************************************************************)
(* The pages on which a user of the ledger sends, withdraws or adds money  *)
(* (app/(app)/send, withdraw and add-money), and the dialogue that asks    *)
(* for the PIN (components/ui/PINConfirmModal.tsx).                        *)
(*                                                                         *)
(* On each page the user means to do one thing: he confirms until he is    *)
(* told that it was done.  A page keeps its state until it is left; the    *)
(* request goes on.  The route may book the operation and still answer     *)
(* with an error, for what follows the booking can fail (module Wallet),   *)
(* and an answer may be lost.                                              *)
(***************************************************************************)
EXTENDS Integers

CONSTANTS
    Requests,
    MaxLapses      \* bound: answers lost, errors after a booking, pages left

PageNames == {"send", "withdraw", "deposit"}

VARIABLES
    page,       \* per page: is the dialogue open, a request under way, and what was told
    request,    \* per request: its page, whether that page still waits for it, its progress
    lapses,
    booked,     \* history: bookings of each page's operation
    misled      \* history: bookings the user was told had failed, or was told nothing of

pageVars == <<page, request, lapses, booked, misled>>

\* add-money has a button and no dialogue.
Fresh(k) == [dialogue |-> k = "deposit", loading |-> FALSE, told |-> "nothing"]

NoRequest == [at |-> "unsent", page |-> "none", awaited |-> FALSE]

Init ==
    /\ page = [k \in PageNames |-> Fresh(k)]
    /\ request = [r \in Requests |-> NoRequest]
    /\ lapses = 0
    /\ booked = [k \in PageNames |-> 0] /\ misled = [k \in PageNames |-> 0]

Lose == lapses < MaxLapses /\ lapses' = lapses + 1

\* The request the page is waiting for.
Awaits(k, r) == request[r].page = k /\ request[r].awaited

-----------------------------------------------------------------------------
(* The dialogue.                                                           *)

OpenDialogue(k) ==
    /\ ~page[k].dialogue /\ page[k].told # "done"
    /\ page' = [page EXCEPT ![k].dialogue = TRUE]
    /\ UNCHANGED <<request, lapses, booked, misled>>

\* Cancelar, or a click beside it; the request goes on.
CloseDialogue(k) ==
    /\ page[k].dialogue /\ k # "deposit"
    /\ page' = [page EXCEPT ![k].dialogue = FALSE]
    /\ UNCHANGED <<request, lapses, booked, misled>>

\* Mutant: the button is not disabled while a request is under way.
MayConfirmTwice(k) == page[k].dialogue /\ page[k].told # "done"

\* The button; the user does not repeat what he was told is done.
MayConfirm(k) == page[k].dialogue /\ ~page[k].loading /\ page[k].told # "done"

\* executeTransfer, handleExecute or simulateDeposit begins: loading is set
\* before the request is sent.
Confirm(k, r) ==
    /\ MayConfirm(k)
    /\ request[r] = NoRequest
    /\ page' = [page EXCEPT ![k].loading = TRUE, ![k].told = "nothing"]
    /\ request' = [request EXCEPT ![r] = [at |-> "sent", page |-> k, awaited |-> TRUE]]
    /\ UNCHANGED <<lapses, booked, misled>>

-----------------------------------------------------------------------------
(* The route.                                                              *)

Answered(r, answer) == request' = [request EXCEPT ![r].at = answer]

\* Limits, balance or the freeze refuse it.
Refuse(r) ==
    /\ request[r].at = "sent"
    /\ Answered(r, "refused")
    /\ UNCHANGED <<page, lapses, booked, misled>>

Book(r) ==
    /\ request[r].at = "sent"
    /\ booked' = [booked EXCEPT ![request[r].page] = @ + 1]
    /\ Answered(r, "booked")
    /\ UNCHANGED <<page, lapses, misled>>

\* A step after the booking fails, and the route answers 500.
BookAndFail(r) ==
    /\ request[r].at = "sent" /\ Lose
    /\ booked' = [booked EXCEPT ![request[r].page] = @ + 1]
    /\ misled' = [misled EXCEPT ![request[r].page] = @ + 1]
    /\ Answered(r, "refused")
    /\ UNCHANGED page

-----------------------------------------------------------------------------
(* The answer.                                                             *)

\* What a page does of an error: the dialogue of the withdrawal stays open and
\* says that the PIN was wrong, that of a transfer closes.
Fail(k) == [page[k] EXCEPT !.loading = FALSE, !.told = "failed",
                           !.dialogue = IF k = "send" THEN FALSE ELSE @]

Finish(k, r, next) ==
    /\ page' = [page EXCEPT ![k] = next]
    /\ request' = [request EXCEPT ![r].at = "over", ![r].awaited = FALSE]

ShowFailure(k, r) ==
    /\ Awaits(k, r) /\ request[r].at = "refused"
    /\ Finish(k, r, Fail(k))
    /\ UNCHANGED <<lapses, booked, misled>>

\* The answer does not arrive: for the page an error like any other.
ShowLost(k, r) ==
    /\ Awaits(k, r) /\ request[r].at \in {"refused", "booked"} /\ Lose
    /\ Finish(k, r, Fail(k))
    /\ misled' = [misled EXCEPT ![k] = IF request[r].at = "booked" THEN @ + 1 ELSE @]
    /\ UNCHANGED booked

\* The page is still loading while syncFromBackend reads balances and history.
Sync(k, r) ==
    /\ Awaits(k, r) /\ request[r].at = "booked"
    /\ Answered(r, "syncing")
    /\ UNCHANGED <<page, lapses, booked, misled>>

\* Success is shown once they are read, or cannot be.
ShowSuccess(k, r) ==
    /\ Awaits(k, r) /\ request[r].at = "syncing"
    /\ Finish(k, r, [dialogue |-> FALSE, loading |-> FALSE, told |-> "done"])
    /\ UNCHANGED <<lapses, booked, misled>>

\* The page is left and opened again: it knows nothing of what is under way.
Leave(k) ==
    /\ page[k].told # "done" /\ Lose
    /\ page' = [page EXCEPT ![k] = Fresh(k)]
    /\ request' = [r \in Requests |-> IF Awaits(k, r) THEN [request[r] EXCEPT !.awaited = FALSE]
                                                      ELSE request[r]]
    /\ misled' = [misled EXCEPT ![k] = IF page[k].loading THEN @ + 1 ELSE @]
    /\ UNCHANGED booked

Next ==
    \E k \in PageNames :
        \/ OpenDialogue(k) \/ CloseDialogue(k) \/ Leave(k)
        \/ \E r \in Requests :
              \/ Confirm(k, r)
              \/ ShowFailure(k, r) \/ ShowLost(k, r) \/ Sync(k, r) \/ ShowSuccess(k, r)
              \/ request[r].page = k /\ (Refuse(r) \/ Book(r) \/ BookAndFail(r))

Spec == Init /\ [][Next]_pageVars

-----------------------------------------------------------------------------
(* What a user who means one operation gets.                               *)

\* The operation the user means is booked once; more often only as many times as
\* he was told that a booked one had failed or left the page while one was under
\* way (send/page.tsx lines 60-97, withdraw/page.tsx lines 283-312,
\* add-money/page.tsx lines 88-110): the routes know no key by which a second
\* request could be told from a repetition.
BookedOnce == \A k \in PageNames : booked[k] <= 1 + misled[k]

=============================================================================
