------------------------------ MODULE TxEngine ------------------------------
(***************************************************************************)
(* The transaction engine (services/tx-engine): workers of one consumer    *)
(* group take transfers from the topic tx-execute, send them to the chain  *)
(* from one signing account, announce the result and commit the offset.    *)
(*                                                                         *)
(* A worker is one process.  Consumer.Start handles one message at a time, *)
(* so the map inFlight of the engine never holds the message of another    *)
(* call and is left out; the lock in Redis is the guard between processes. *)
(* Each transfer is one message in a partition of its own: the order of    *)
(* messages within a partition plays no part.  Balance caches, gas and     *)
(* invalid messages are left out.                                          *)
(***************************************************************************)
EXTENDS Integers, Sequences, FiniteSets

CONSTANTS
    Txs,        \* the transfers that were queued
    Workers,    \* engine processes
    MaxRetries, \* attempts per delivery (engine.MaxRetries)
    MaxFaults   \* bound: how many faults of each kind happen

\* crash: a process is killed and restarted.  lost: the answer of the node to a
\* send is lost.  refused: a call to the node fails and nothing was sent.
\* revert: the contract reverts a transfer.  expiry: a lock runs out while its
\* worker is still busy.  store: a write to Postgres, Redis or Kafka fails.
\* rebalance: Kafka gives a partition to another worker.
FaultKinds == {"crash", "lost", "refused", "revert", "expiry", "store", "rebalance"}

ASSUME BoundsAssumption ==
    /\ IsFiniteSet(Workers)
    /\ MaxRetries \in Nat \ {0}
    /\ MaxFaults \in [FaultKinds -> Nat]

VARIABLES
    assigned,  \* the worker each message's partition belongs to
    taken,     \* messages their partition's worker has fetched
    committed, \* messages whose offset is committed
    announced, \* results published on tx-completed and tx-failed
    status,    \* column status of table transactions
    locked,    \* transfers with a key txlock in Redis
    job,       \* what each worker is doing
    nonces,    \* the signer's transactions: entry n has nonce n
    faults     \* faults so far, per kind

kafkaVars == <<assigned, taken, committed, announced>>

vars == <<kafkaVars, status, locked, job, nonces, faults>>

Results  == {"completed", "failed"}
Statuses == {"pending", "processing"} \cup Results
Fates    == {"pool", "ok", "reverted"}

Idle  == [step |-> "idle"]
Steps == {"fetched", "locked", "trying", "signed", "waiting",
          "deciding", "unlocking", "announcing", "committing"}

\* The steps of Process in which the worker relies on the lock.
Guarded == {"locked", "trying", "signed", "waiting", "deciding", "unlocking"}

At(w, steps) == job[w].step \in steps

Executing(t) == {w \in Workers : At(w, Guarded) /\ job[w].tx = t}

\* The entries that paid transfer t.
Paid(t) == {n \in DOMAIN nonces : nonces[n].tx = t /\ nonces[n].fate = "ok"}

Init ==
    /\ assigned \in [Txs -> Workers]
    /\ taken = {} /\ committed = {} /\ announced = {}
    /\ status = [t \in Txs |-> "pending"]
    /\ locked = {}
    /\ job = [w \in Workers |-> Idle]
    /\ nonces = <<>>
    /\ faults = [kind \in FaultKinds |-> 0]

Fault(kind) ==
    /\ faults[kind] < MaxFaults[kind]
    /\ faults' = [faults EXCEPT ![kind] = @ + 1]

Goto(w, step) == job' = [job EXCEPT ![w].step = step]

\* Process is about to return the result.
Return(w, step, result) == job' = [job EXCEPT ![w].step = step, ![w].result = result]

-----------------------------------------------------------------------------
(* Consumer.Start                                                          *)

\* Mutant: ReadMessage, which commits at once, instead of FetchMessage.
FetchAndCommit(w, t) ==
    /\ job[w] = Idle
    /\ assigned[t] = w /\ t \notin taken \cup committed
    /\ taken' = taken \cup {t}
    /\ committed' = committed \cup {t}
    /\ job' = [job EXCEPT ![w] =
                 [step |-> "fetched", tx |-> t, attempt |-> 1, nonce |-> 0, result |-> "failed"]]
    /\ UNCHANGED <<assigned, announced, status, locked, nonces, faults>>

Fetch(w, t) ==
    /\ job[w] = Idle
    /\ assigned[t] = w /\ t \notin taken \cup committed
    /\ taken' = taken \cup {t}
    /\ job' = [job EXCEPT ![w] =
                 [step |-> "fetched", tx |-> t, attempt |-> 1, nonce |-> 0, result |-> "failed"]]
    /\ UNCHANGED <<assigned, committed, announced, status, locked, nonces, faults>>

\* The result is published; an error of the write is not looked at.
Announce(w) ==
    /\ At(w, {"announcing"})
    /\ \/ /\ announced' = announced \cup {<<job[w].tx, job[w].result>>}
          /\ UNCHANGED faults
       \/ Fault("store") /\ UNCHANGED announced
    /\ Goto(w, "committing")
    /\ UNCHANGED <<assigned, taken, committed, status, locked, nonces>>

\* The offset is committed whatever the result.  A commit by a worker that has
\* lost the partition may be rejected; an error is logged and the worker goes on.
Commit(w) ==
    /\ At(w, {"committing"})
    /\ \/ committed' = committed \cup {job[w].tx} /\ UNCHANGED faults
       \/ assigned[job[w].tx] # w /\ UNCHANGED <<committed, faults>>
       \/ Fault("store") /\ UNCHANGED committed
    /\ job' = [job EXCEPT ![w] = Idle]
    /\ UNCHANGED <<assigned, taken, announced, status, locked, nonces>>

-----------------------------------------------------------------------------
(* Engine.Process                                                          *)

\* Mutant: SETNX is replaced by SET.
LockAlways(w) ==
    /\ At(w, {"fetched"})
    /\ locked' = locked \cup {job[w].tx}
    /\ Goto(w, "locked")
    /\ UNCHANGED <<kafkaVars, status, nonces, faults>>

Lock(w) ==
    /\ At(w, {"fetched"})
    /\ job[w].tx \notin locked
    /\ locked' = locked \cup {job[w].tx}
    /\ Goto(w, "locked")
    /\ UNCHANGED <<kafkaVars, status, nonces, faults>>

\* Mutant: a lock that is taken is polled until it is free.
LockPolls(w) ==
    /\ At(w, {"fetched"})
    /\ Fault("store")
    /\ Return(w, "announcing", "failed")
    /\ UNCHANGED <<kafkaVars, status, locked, nonces>>

\* The lock is taken, or Redis fails, after it set the key or before: the result
\* is "failed", nothing is written to the table and the key is not deleted.
LockDenied(w) ==
    /\ At(w, {"fetched"})
    /\ \/ job[w].tx \in locked /\ UNCHANGED <<locked, faults>>
       \/ Fault("store") /\ locked' \in {locked, locked \cup {job[w].tx}}
    /\ Return(w, "announcing", "failed")
    /\ UNCHANGED <<kafkaVars, status, nonces>>

\* updateStatus(processing).  Its error ends the call.
StartProcessing(w) ==
    /\ At(w, {"locked"})
    /\ \/ /\ status' = [status EXCEPT ![job[w].tx] = "processing"]
          /\ Goto(w, "trying")
          /\ UNCHANGED faults
       \/ /\ Fault("store")
          /\ Return(w, "unlocking", "failed")
          /\ UNCHANGED status
    /\ UNCHANGED <<kafkaVars, locked, nonces>>

\* executeOnChain reads the next nonce of the signer, pending ones included.
ReadNonce(w) ==
    /\ At(w, {"trying"})
    /\ job' = [job EXCEPT ![w].step = "signed", ![w].nonce = Len(nonces) + 1]
    /\ UNCHANGED <<kafkaVars, status, locked, nonces, faults>>

\* An attempt fails: the next one, or the end of the loop.
AttemptFails(w) ==
    IF job[w].attempt < MaxRetries
    THEN job' = [job EXCEPT ![w].step = "trying", ![w].attempt = @ + 1]
    ELSE Return(w, "deciding", "failed")

\* The node takes the transaction: under a new nonce, or in place of a pending
\* one of the same nonce, when it pays more for gas.
Accept(w) ==
    LET n == job[w].nonce
        entry == [tx |-> job[w].tx, by |-> w, fate |-> "pool"]
    IN \/ n = Len(nonces) + 1 /\ nonces' = Append(nonces, entry)
       \/ n \in DOMAIN nonces /\ nonces[n].fate = "pool" /\ nonces' = [nonces EXCEPT ![n] = entry]

SendTransaction(w) ==
    /\ At(w, {"signed"})
    /\ Accept(w)
    /\ Goto(w, "waiting")
    /\ UNCHANGED <<kafkaVars, status, locked, faults>>

\* The nonce was used since it was read: too low, or the replacement pays too little.
SendRejected(w) ==
    /\ At(w, {"signed"})
    /\ job[w].nonce \in DOMAIN nonces
    /\ AttemptFails(w)
    /\ UNCHANGED <<kafkaVars, status, locked, nonces, faults>>

\* The node cannot be reached, or its answer is lost after it took the transaction.
SendFails(w) ==
    /\ At(w, {"trying", "signed"})
    /\ \/ Fault("refused") /\ UNCHANGED nonces
       \/ At(w, {"signed"}) /\ Fault("lost") /\ Accept(w)
    /\ AttemptFails(w)
    /\ UNCHANGED <<kafkaVars, status, locked>>

\* The transaction the worker waits for is mined.
Receipt(w) ==
    /\ At(w, {"waiting"})
    /\ nonces[job[w].nonce].by = w
    /\ nonces[job[w].nonce].fate # "pool"

\* Mutant: the loop goes on after a successful attempt.
WaitAndRepeat(w) ==
    /\ Receipt(w)
    /\ AttemptFails(w)
    /\ UNCHANGED <<kafkaVars, status, locked, nonces, faults>>

\* Mutant: the status of the receipt is not looked at.
WaitAnyReceipt(w) ==
    /\ Receipt(w)
    /\ Return(w, "deciding", "completed")
    /\ UNCHANGED <<kafkaVars, status, locked, nonces, faults>>

\* bind.WaitMined polls for the receipt of this very transaction.  If another
\* worker's transaction took its nonce, it waits for ever.
WaitMined(w) ==
    /\ Receipt(w)
    /\ IF nonces[job[w].nonce].fate = "ok"
       THEN Return(w, "deciding", "completed")
       ELSE AttemptFails(w)
    /\ UNCHANGED <<kafkaVars, status, locked, nonces, faults>>

\* updateStatus(failed) or updateStatusWithHash; their errors are not looked at.
WriteResult(w) ==
    /\ At(w, {"deciding"})
    /\ \/ status' = [status EXCEPT ![job[w].tx] = job[w].result] /\ UNCHANGED faults
       \/ Fault("store") /\ UNCHANGED status
    /\ Goto(w, "unlocking")
    /\ UNCHANGED <<kafkaVars, locked, nonces>>

\* The deferred Del, whoever holds the key by now; its error is not looked at.
Unlock(w) ==
    /\ At(w, {"unlocking"})
    /\ \/ locked' = locked \ {job[w].tx} /\ UNCHANGED faults
       \/ Fault("store") /\ UNCHANGED locked
    /\ Goto(w, "announcing")
    /\ UNCHANGED <<kafkaVars, status, nonces>>

-----------------------------------------------------------------------------
(* The environment                                                         *)

\* The next transaction in the order of nonces is mined.
Mine ==
    \E n \in DOMAIN nonces :
        /\ nonces[n].fate = "pool"
        /\ \A m \in 1..(n - 1) : nonces[m].fate # "pool"
        /\ \/ nonces' = [nonces EXCEPT ![n].fate = "ok"] /\ UNCHANGED faults
           \/ Fault("revert") /\ nonces' = [nonces EXCEPT ![n].fate = "reverted"]
        /\ UNCHANGED <<kafkaVars, status, locked, job>>

\* LockTTL is over.  Nothing renews the key: it is a fault when its worker is busy.
Expire(t) ==
    /\ t \in locked
    /\ locked' = locked \ {t}
    /\ IF Executing(t) # {} THEN Fault("expiry") ELSE UNCHANGED faults
    /\ UNCHANGED <<kafkaVars, status, job, nonces>>

\* The process dies and starts again from the committed offsets.
Crash(w) ==
    /\ job[w] # Idle
    /\ Fault("crash")
    /\ job' = [job EXCEPT ![w] = Idle]
    /\ taken' = taken \ {t \in Txs : assigned[t] = w}
    /\ UNCHANGED <<assigned, committed, announced, status, locked, nonces>>

\* Another worker gets the partition and starts from its committed offset.
Rebalance(t, w) ==
    /\ assigned[t] # w
    /\ Fault("rebalance")
    /\ assigned' = [assigned EXCEPT ![t] = w]
    /\ taken' = taken \ {t}
    /\ UNCHANGED <<committed, announced, status, locked, job, nonces>>

-----------------------------------------------------------------------------
Work(w) ==
    \/ Lock(w) \/ LockDenied(w) \/ StartProcessing(w)
    \/ ReadNonce(w) \/ SendTransaction(w) \/ SendRejected(w) \/ SendFails(w) \/ WaitMined(w)
    \/ WriteResult(w) \/ Unlock(w) \/ Announce(w) \/ Commit(w)

Next ==
    \/ \E w \in Workers, t \in Txs : Fetch(w, t) \/ Rebalance(t, w)
    \/ \E w \in Workers : Work(w) \/ Crash(w)
    \/ \E t \in Txs : Expire(t)
    \/ Mine

Spec == Init /\ [][Next]_vars

\* A live process keeps running its loop and the chain keeps mining.
Fairness ==
    /\ \A w \in Workers : WF_vars(Work(w)) /\ WF_vars(\E t \in Txs : Fetch(w, t))
    /\ WF_vars(Mine)

FairSpec == Spec /\ Fairness

=============================================================================
