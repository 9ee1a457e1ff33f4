------------------------- MODULE TxEngineProperties -------------------------
(***************************************************************************)
(* What the users of the transaction engine rely on.                       *)
(***************************************************************************)
EXTENDS TxEngine

Job == {Idle} \cup [step : Steps, tx : Txs, attempt : 1..MaxRetries, nonce : Nat,
                    result : Results]

Entry == [tx : Txs, by : Workers, fate : Fates]

\* Every variable has its type; a worker waits only for a nonce that was used.
TypeOK ==
    /\ assigned \in [Txs -> Workers]
    /\ taken \subseteq Txs
    /\ committed \subseteq Txs
    /\ announced \subseteq Txs \X Results
    /\ status \in [Txs -> Statuses]
    /\ locked \subseteq Txs
    /\ job \in [Workers -> Job]
    /\ nonces \in Seq(Entry)
    /\ faults \in [FaultKinds -> Nat]
    /\ \A kind \in FaultKinds : faults[kind] <= MaxFaults[kind]
    /\ \A w \in Workers : At(w, {"waiting"}) => job[w].nonce \in DOMAIN nonces

\* A transfer is executed by one worker at a time, and by one more for each lock
\* that ran out (engine.go: the lock is there to "prevent concurrent processing
\* of same tx").  A worker whose lock ran out deletes the key of its successor,
\* yet that lets in no more workers than the expiry already did.
ExecutedAlone ==
    \A t \in Txs : Cardinality(Executing(t)) <= 1 + faults["expiry"]

\* A transfer is paid once, and once more at most for each answer of the node
\* that was lost, and for each time the message was delivered again: after a
\* crash, or a rebalance.  Retries, reverts, refused calls and replaced
\* transactions pay nothing twice.
PaidOnce ==
    \A t \in Txs :
        Cardinality(Paid(t))
            <= 1 + faults["lost"] + faults["crash"] + faults["rebalance"]

\* What is announced or recorded as completed was paid on chain.
CompletedIsPaid ==
    \A t \in Txs :
        status[t] = "completed" \/ <<t, "completed">> \in announced => Paid(t) # {}

\* A message whose offset is committed was decided: the table says completed or
\* failed, or a worker is still executing it.  Each crash leaves at most one
\* transfer behind, by the key that outlives it, and so does each failed write.
CommittedIsDecided ==
    Cardinality({t \in committed : status[t] \notin Results /\ Executing(t) = {}})
        <= faults["crash"] + faults["store"]

\* What the table and the topics say of a transfer can be relied on.
AnswersTrue == CompletedIsPaid /\ CommittedIsDecided

\* The worker waits for a transaction that another one replaced.
Stuck(w) == At(w, {"waiting"}) /\ nonces[job[w].nonce].by # w

\* Every transfer is eventually dealt with: its message stays fetched or
\* committed and no worker holds it, unless a worker is stuck behind a replaced
\* transaction, the one that holds it or the one its partition belongs to.
EveryTransferAnswered ==
    \A t \in Txs :
        <>[](\/ /\ t \in taken \cup committed
                /\ \A w \in Workers : job[w] # Idle /\ job[w].tx = t => Stuck(w)
             \/ Stuck(assigned[t]))

=============================================================================
