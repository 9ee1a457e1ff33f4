------------------------- MODULE WebhooksProperties -------------------------
(***************************************************************************)
(* What the providers, the users and the token rely on.                    *)
(***************************************************************************)
EXTENDS Webhooks

Job == {Idle} \cup [step : Steps, event : Events]

\* Every variable has its type; the token balance never goes below zero.
TypeOK ==
    /\ marker \in [Events -> {"absent", "processing", "done"}]
    /\ wallet \subseteq Events
    /\ handler \in [Handlers -> Job]
    /\ pool \in [Events -> Nat]
    /\ mined \in [Events -> Nat]
    /\ reverted \in [Events -> Nat]
    /\ coins \in Nat
    /\ acked \subseteq Events
    /\ faults \in [FaultKinds -> Nat]
    /\ \A kind \in FaultKinds : faults[kind] <= MaxFaults[kind]
    /\ repeats \in 0..MaxRepeats

\* Some handler is working on e.
Busy(e) == \E h \in Handlers : At(h, Steps, e)

\* A deposit or a card payment is sent to the chain once, and once more only for
\* a call to the chain that threw after it sent: deliveries that repeat or
\* overlap, handlers that die and writes to Firestore that fail add nothing
\* (lib/webhook-idempotency.ts).
AppliedOnce ==
    \A e \in Events :
        Kind(e) \in {"deposit", "payment"} => Sent(e) <= 1 + faults["rpc"]

\* What may make an event be sent again, per kind: a call to the chain that
\* threw; a marker that could not be written, where that releases the event
\* (the reversal) or leaves it unmarked (the checked kinds); and, for the checked
\* kinds, a handler that died before it wrote the marker.
Mishaps(e) ==
    faults["rpc"]
        + (IF Kind(e) = "reversal" \/ ~Claimed(e) THEN faults["store"] ELSE 0)
        + (IF Claimed(e) THEN 0 ELSE faults["crash"])

\* The kinds AppliedOnce does not speak of.  A reversal is sent once, an event
\* of pomelo/transactions and pomelo/adjustments, which read the marker first and
\* write it last, once by each handler that can overlap; and once more at most for
\* each mishap: deliveries that come later add nothing.
SendsBounded ==
    \A e \in Events :
        Kind(e) \notin {"deposit", "payment"} =>
            Sent(e) <= (IF Claimed(e) THEN 1 ELSE Cardinality(Handlers)) + Mishaps(e)

\* No event of any kind is sent to the chain twice.
EveryKindOnce == \A e \in Events : Sent(e) <= 1

\* The provider is answered ok only for events that were sent to the chain or
\* that a handler is still working on: after an ok it stops retrying, and the
\* reservation is released "para permitir un reintento" (webhook-idempotency.ts:34).
\* (The kinds the routes skip with an ok are not meant.)
AckedIsApplied ==
    \A e \in acked :
        Kind(e) \in {"deposit", "payment", "capture", "refund"} => Sent(e) > 0 \/ Busy(e)

\* A reservation outlives its handler only when the handler died or a write to
\* Firestore failed: a call to the chain that throws leaves no event reserved by
\* nobody, and each such fault at most one.
NoOrphanReservation ==
    Cardinality({e \in Events : marker[e] = "processing" /\ ~Busy(e)})
        <= faults["crash"] + faults["store"]

\* Once the user can be served, every deposit reaches the chain.
DepositsApplied ==
    \A e \in Events : (Kind(e) = "deposit" /\ e \in wallet) ~> (mined[e] > 0)

=============================================================================
