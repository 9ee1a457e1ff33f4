------------------------------ MODULE Webhooks ------------------------------
(***************************************************************************)
(* The payment webhooks of apps/web (conduit, cuenca, pomelo) and the      *)
(* on-chain token they mint and burn.                                      *)
(*                                                                         *)
(* A provider delivers an event at least once: again after an error, again *)
(* while an earlier delivery is still being handled, and sometimes again   *)
(* after it was answered ok.  A handler is one run of a webhook route; each *)
(* awaited call is a step of its own.  Two patterns keep an event from     *)
(* being applied twice:                                                    *)
(*   - the claimed kinds reserve the event with create() before they mint  *)
(*     or burn, and delete the reservation when they fail                  *)
(*     (lib/webhook-idempotency.ts);                                       *)
(*   - the checked kinds read the marker first and write it at the end     *)
(*     (pomelo/transactions, pomelo/adjustments).                          *)
(*                                                                         *)
(* All events concern the wallet of one user.  The journal document that   *)
(* some routes write next to the marker is left out: no route reads it     *)
(* back to decide anything.                                                *)
(***************************************************************************)
EXTENDS Integers, FiniteSets

CONSTANTS
    Events,       \* the events the providers send
    KindOf,       \* the kind of each event
    Amount,       \* the amount of each event, in cents
    OpeningCoins, \* the user's tokens at the start
    Handlers,     \* route handlers that may run at the same time
    MaxFaults,    \* bound: how many faults of each kind happen
    MaxRepeats    \* bound: deliveries of events already answered ok

\* deposit: cuenca/deposit, pomelo/deposit, conduit/deposit; notice: the conduit
\* events that only get acknowledged; payment, reversal: cuenca/card-payment.
ClaimedKinds == {"deposit", "notice", "payment", "reversal"}

\* capture, refund, rejected: pomelo/transactions; the rest pomelo/adjustments.
CheckedKinds == {"capture", "refund", "rejected", "forced_credit", "forced_debit"}

BurnKinds == {"payment", "capture", "forced_debit"}
NoteKinds == {"notice", "rejected"}

\* crash: a handler dies, or a read throws and nothing catches it; store: a
\* write to Firestore throws; rpc: a transaction is refused or lost by the node.
FaultKinds == {"crash", "store", "rpc"}

ASSUME EventsAssumption ==
    /\ KindOf \in [Events -> ClaimedKinds \cup CheckedKinds]
    /\ Amount \in [Events -> Nat \ {0}]
    /\ OpeningCoins \in Nat

ASSUME FaultsAssumption ==
    /\ MaxFaults \in [FaultKinds -> Nat]
    /\ MaxRepeats \in Nat

ASSUME HandlersAssumption == IsFiniteSet(Handlers)

VARIABLES
    marker,   \* len_processed_webhooks
    wallet,   \* events whose user can be served: exists, has a Celo wallet
    handler,  \* what each handler is doing
    pool,     \* transactions sent to the chain and not mined yet, per event
    mined,    \* transactions mined, per event
    reverted, \* transactions reverted by the contract, per event
    coins,    \* the user's token balance on chain
    acked,    \* events the provider was answered ok for
    faults,   \* faults so far, per kind
    repeats   \* deliveries of acked events so far

chainVars == <<pool, mined, reverted, coins>>
boundVars == <<faults, repeats>>

vars == <<marker, wallet, handler, chainVars, acked, boundVars>>

Kind(e)  == KindOf[e]
Claimed(e) == KindOf[e] \in ClaimedKinds
Burns(e) == KindOf[e] \in BurnKinds

Idle  == [step |-> "idle"]
Steps == {"claimed", "found", "covered", "sent", "releasing", "dropping"}

\* Transactions that were sent for an event.
Sent(e) == pool[e] + mined[e] + reverted[e]

Init ==
    /\ marker = [e \in Events |-> "absent"]
    /\ wallet = {}
    /\ handler = [h \in Handlers |-> Idle]
    /\ pool = [e \in Events |-> 0]
    /\ mined = [e \in Events |-> 0]
    /\ reverted = [e \in Events |-> 0]
    /\ coins = OpeningCoins
    /\ acked = {}
    /\ faults = [kind \in FaultKinds |-> 0]
    /\ repeats = 0

Goto(h, step, e) == handler' = [handler EXCEPT ![h] = [step |-> step, event |-> e]]
Leave(h)         == handler' = [handler EXCEPT ![h] = Idle]
Ack(e)           == acked' = acked \cup {e}
Mark(e, value)   == marker' = [marker EXCEPT ![e] = value]
Send(e)          == pool' = [pool EXCEPT ![e] = @ + 1]

\* h is at one of the given steps, with event e.
At(h, steps, e) ==
    handler[h].step \in steps /\ handler[h].event = e

Fault(kind) ==
    /\ faults[kind] < MaxFaults[kind]
    /\ faults' = [faults EXCEPT ![kind] = @ + 1]

-----------------------------------------------------------------------------
(* The first call of a handler: is this event new?                         *)

\* The provider delivers e to an idle handler.
Delivered(h, e) ==
    /\ handler[h] = Idle
    /\ \/ e \notin acked /\ UNCHANGED repeats
       \/ /\ e \in acked
          /\ repeats < MaxRepeats
          /\ repeats' = repeats + 1

\* Mutant: the event is reserved with set() instead of create().
ReserveAnyway(h, e) ==
    /\ Delivered(h, e)
    /\ Claimed(e)
    /\ Mark(e, "processing")
    /\ Goto(h, "claimed", e)
    /\ UNCHANGED <<wallet, chainVars, acked, faults>>

\* reserveWebhookEvent: create() succeeds for one delivery only.
Reserve(h, e) ==
    /\ Delivered(h, e)
    /\ Claimed(e)
    /\ marker[e] = "absent"
    /\ Mark(e, "processing")
    /\ Goto(h, "claimed", e)
    /\ UNCHANGED <<wallet, chainVars, acked, faults>>

\* Mutant: the marker is not looked at.
CheckNothing(h, e) ==
    /\ Delivered(h, e)
    /\ ~Claimed(e)
    /\ Goto(h, "claimed", e)
    /\ UNCHANGED <<marker, wallet, chainVars, acked, faults>>

\* The checked routes read the marker with get().
Check(h, e) ==
    /\ Delivered(h, e)
    /\ ~Claimed(e)
    /\ marker[e] = "absent"
    /\ Goto(h, "claimed", e)
    /\ UNCHANGED <<marker, wallet, chainVars, acked, faults>>

\* The marker exists: already_processed.
Duplicate(h, e) ==
    /\ Delivered(h, e)
    /\ marker[e] # "absent"
    /\ Ack(e)
    /\ UNCHANGED <<marker, wallet, handler, chainVars, faults>>

\* create() fails for another reason, before or after it wrote: also "duplicate".
ReserveFails(h, e) ==
    /\ Delivered(h, e)
    /\ Claimed(e)
    /\ marker[e] = "absent"
    /\ Fault("store")
    /\ UNCHANGED marker \/ Mark(e, "processing")
    /\ Ack(e)
    /\ UNCHANGED <<wallet, handler, chainVars>>

-----------------------------------------------------------------------------
(* Serving the event.                                                      *)

\* The user is found and can be served.
LookUp(h, e) ==
    /\ At(h, {"claimed"}, e)
    /\ Kind(e) \notin NoteKinds
    /\ e \in wallet
    /\ Goto(h, "found", e)
    /\ UNCHANGED <<marker, wallet, chainVars, acked, boundVars>>

\* The user cannot be served.  The claimed routes release the event and answer
\* an error, a reversal answers ok; pomelo/adjustments answers ok, skipped.
LookUpFails(h, e) ==
    /\ At(h, {"claimed"}, e)
    /\ Kind(e) \notin NoteKinds
    /\ e \notin wallet
    /\ \/ /\ Claimed(e)
          /\ Goto(h, IF Kind(e) = "reversal" THEN "dropping" ELSE "releasing", e)
          /\ UNCHANGED acked
       \/ /\ ~Claimed(e)
          /\ Leave(h)
          /\ IF Kind(e) \in {"forced_credit", "forced_debit"} THEN Ack(e) ELSE UNCHANGED acked
    /\ UNCHANGED <<marker, wallet, chainVars, boundVars>>

\* A purchase reads the balance on chain before it burns.
ReadBalance(h, e) ==
    /\ At(h, {"found"}, e)
    /\ Kind(e) \in {"payment", "capture"}
    /\ \/ coins >= Amount[e] /\ Goto(h, "covered", e)
       \/ coins < Amount[e] /\ Claimed(e) /\ Goto(h, "releasing", e)
       \/ coins < Amount[e] /\ ~Claimed(e) /\ Leave(h)
    /\ UNCHANGED <<marker, wallet, chainVars, acked, boundVars>>

\* The next call mints or burns.
Ready(h, e) ==
    IF Kind(e) \in {"payment", "capture"} THEN At(h, {"covered"}, e) ELSE At(h, {"found"}, e)

\* mintToken / burnToken: writeContract returns the hash of a transaction that
\* was sent, not mined.  The node refuses to send a burn that would revert.
Transact(h, e) ==
    /\ Ready(h, e)
    /\ Burns(e) => coins >= Amount[e]
    /\ Send(e)
    /\ Goto(h, "sent", e)
    /\ UNCHANGED <<marker, wallet, mined, reverted, coins, acked, boundVars>>

\* What the routes do when the call throws: release and answer an error; answer
\* an error; or, for a forced debit, log it and go on.
AfterThrow(h, e) ==
    \/ Claimed(e) /\ Goto(h, "releasing", e)
    \/ ~Claimed(e) /\ Kind(e) # "forced_debit" /\ Leave(h)
    \/ Kind(e) = "forced_debit" /\ Goto(h, "sent", e)

TransactRefused(h, e) ==
    /\ Ready(h, e)
    /\ Burns(e) /\ coins < Amount[e]
    /\ AfterThrow(h, e)
    /\ UNCHANGED <<marker, wallet, chainVars, acked, boundVars>>

\* The call throws although the transaction may have reached the chain.
TransactFails(h, e) ==
    /\ Ready(h, e)
    /\ Fault("rpc")
    /\ UNCHANGED pool \/ ((Burns(e) => coins >= Amount[e]) /\ Send(e))
    /\ AfterThrow(h, e)
    /\ UNCHANGED <<marker, wallet, mined, reverted, coins, acked, repeats>>

\* The last write of a handler.
Finishing(h, e) ==
    \/ At(h, {"sent"}, e)
    \/ At(h, {"claimed"}, e) /\ Kind(e) \in NoteKinds

\* completeWebhookEvent, or eventRef.set() of the checked routes; then the
\* answer ok.
Complete(h, e) ==
    /\ Finishing(h, e)
    /\ Mark(e, "done")
    /\ Ack(e)
    /\ Leave(h)
    /\ UNCHANGED <<wallet, chainVars, boundVars>>

\* The write throws, having written or not: an error is answered.  Only in the
\* reversal of card-payment does the catch of the mint also cover this call.
CompleteFails(h, e) ==
    /\ Finishing(h, e)
    /\ Fault("store")
    /\ UNCHANGED marker \/ Mark(e, "done")
    /\ IF Kind(e) = "reversal" THEN Goto(h, "releasing", e) ELSE Leave(h)
    /\ UNCHANGED <<wallet, chainVars, acked, repeats>>

\* Mutant: the reservation is kept when the event could not be served.
ReleaseForgets(h, e) ==
    /\ At(h, {"releasing", "dropping"}, e)
    /\ IF handler[h].step = "dropping" THEN Ack(e) ELSE UNCHANGED acked
    /\ Leave(h)
    /\ UNCHANGED <<marker, wallet, chainVars, boundVars>>

\* releaseWebhookEvent deletes the marker; then the answer.
Release(h, e) ==
    /\ At(h, {"releasing", "dropping"}, e)
    /\ Mark(e, "absent")
    /\ IF handler[h].step = "dropping" THEN Ack(e) ELSE UNCHANGED acked
    /\ Leave(h)
    /\ UNCHANGED <<wallet, chainVars, boundVars>>

\* The delete throws; the error is swallowed.
ReleaseFails(h, e) ==
    /\ At(h, {"releasing", "dropping"}, e)
    /\ Fault("store")
    /\ IF handler[h].step = "dropping" THEN Ack(e) ELSE UNCHANGED acked
    /\ Leave(h)
    /\ UNCHANGED <<marker, wallet, chainVars, repeats>>

Crash(h) ==
    /\ handler[h] # Idle
    /\ Fault("crash")
    /\ Leave(h)
    /\ UNCHANGED <<marker, wallet, chainVars, acked, repeats>>

-----------------------------------------------------------------------------
(* The environment: the user's wallet and the chain.                       *)

LinkWallet(e) ==
    /\ e \notin wallet
    /\ wallet' = wallet \cup {e}
    /\ UNCHANGED <<marker, handler, chainVars, acked, boundVars>>

\* The contract executes a transaction; a burn of more than the balance reverts.
Mine(e) ==
    /\ pool[e] > 0
    /\ pool' = [pool EXCEPT ![e] = @ - 1]
    /\ \/ /\ Burns(e) /\ coins < Amount[e]
          /\ reverted' = [reverted EXCEPT ![e] = @ + 1]
          /\ UNCHANGED <<mined, coins>>
       \/ /\ Burns(e) => coins >= Amount[e]
          /\ mined' = [mined EXCEPT ![e] = @ + 1]
          /\ coins' = IF Burns(e) THEN coins - Amount[e] ELSE coins + Amount[e]
          /\ UNCHANGED reverted
    /\ UNCHANGED <<marker, wallet, handler, acked, boundVars>>

-----------------------------------------------------------------------------
Deliver(h, e) == Reserve(h, e) \/ Check(h, e) \/ Duplicate(h, e)

Serve(h, e) ==
    \/ LookUp(h, e) \/ LookUpFails(h, e) \/ ReadBalance(h, e)
    \/ Transact(h, e) \/ TransactRefused(h, e)
    \/ Complete(h, e) \/ Release(h, e)

Fail(h, e) ==
    \/ ReserveFails(h, e) \/ TransactFails(h, e)
    \/ CompleteFails(h, e) \/ ReleaseFails(h, e)

Next ==
    \/ \E h \in Handlers, e \in Events : Deliver(h, e) \/ Serve(h, e) \/ Fail(h, e)
    \/ \E h \in Handlers : Crash(h)
    \/ \E e \in Events : LinkWallet(e) \/ Mine(e)

Spec == Init /\ [][Next]_vars

\* A provider repeats a delivery until it is answered ok, however often the
\* handlers are busy with other events; a handler that runs is scheduled until
\* it ends; the chain mines what it accepted.
Fairness ==
    /\ \A e \in Events : SF_vars(e \notin acked /\ \E h \in Handlers : Deliver(h, e))
    /\ \A h \in Handlers, e \in Events : WF_vars(Serve(h, e))
    /\ \A e \in Events : WF_vars(Mine(e))

FairSpec == Spec /\ Fairness

=============================================================================
