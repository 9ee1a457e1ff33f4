--------------------------- MODULE TxEngineProofs ---------------------------
(***************************************************************************)
(* Proofs about the transaction engine for any transfers, any finite set   *)
(* of workers and any number of retries and faults.                        *)
(***************************************************************************)
EXTENDS TxEngineProperties, FiniteSetTheorems, TLAPS

\* Every step is a step of a worker, of a message, or of the chain.
LEMMA NextCases ==
    ASSUME Next
    PROVE  \/ \E w \in Workers, t \in Txs : Fetch(w, t) \/ Rebalance(t, w)
           \/ \E w \in Workers :
              \/ Lock(w) \/ LockDenied(w) \/ StartProcessing(w)
              \/ ReadNonce(w) \/ SendTransaction(w) \/ SendRejected(w) \/ SendFails(w)
              \/ WaitMined(w) \/ WriteResult(w) \/ Unlock(w) \/ Announce(w) \/ Commit(w)
              \/ Crash(w)
           \/ \E t \in Txs : Expire(t)
           \/ Mine
  BY DEF Next, Work

-----------------------------------------------------------------------------
(* Type correctness.                                                       *)

\* The parts of TypeOK.
JobsOK   == job \in [Workers -> Job]
ChainOK  == nonces \in Seq(Entry)
FaultsOK == /\ faults \in [FaultKinds -> Nat]
            /\ \A kind \in FaultKinds : faults[kind] <= MaxFaults[kind]
WaitsOK  == \A w \in Workers : At(w, {"waiting"}) => job[w].nonce \in DOMAIN nonces

\* A step counts at most one fault.
LEMMA FaultNext ==
    ASSUME [Next]_vars
    PROVE  faults' = faults \/ \E kind \in FaultKinds : Fault(kind)
  <1>1. ASSUME NEW w \in Workers,
               \/ Lock(w) \/ ReadNonce(w) \/ SendTransaction(w) \/ SendRejected(w)
               \/ WaitMined(w)
        PROVE  faults' = faults
    BY <1>1 DEF Lock, ReadNonce, SendTransaction, SendRejected, WaitMined
  <1>2. ASSUME NEW w \in Workers,
               \/ LockDenied(w) \/ StartProcessing(w) \/ SendFails(w) \/ WriteResult(w)
               \/ Unlock(w) \/ Announce(w) \/ Commit(w) \/ Crash(w)
        PROVE  faults' = faults \/ \E kind \in FaultKinds : Fault(kind)
    BY <1>2, Zenon DEF LockDenied, StartProcessing, SendFails, WriteResult, Unlock, Announce,
                       Commit, Crash, FaultKinds
  <1>3. ASSUME NEW w \in Workers, NEW t \in Txs, Fetch(w, t) \/ Rebalance(t, w)
        PROVE  faults' = faults \/ \E kind \in FaultKinds : Fault(kind)
    BY <1>3, Zenon DEF Fetch, Rebalance, FaultKinds
  <1>4. ASSUME NEW t \in Txs, Expire(t)
        PROVE  faults' = faults \/ \E kind \in FaultKinds : Fault(kind)
    BY <1>4, Zenon DEF Expire, FaultKinds
  <1>5. CASE Mine
    BY <1>5, Zenon DEF Mine, FaultKinds
  <1>6. CASE UNCHANGED vars
    BY <1>6 DEF vars
  <1>7. QED
    BY <1>1, <1>2, <1>3, <1>4, <1>5, <1>6, NextCases

\* A fault is counted within the bound of its kind, and no count goes down.
LEMMA FaultCount ==
    ASSUME FaultsOK, [Next]_vars
    PROVE  /\ FaultsOK'
           /\ \A kind \in FaultKinds : faults[kind] <= faults'[kind]
  <1>1. CASE faults' = faults
    BY <1>1 DEF FaultsOK
  <1>2. ASSUME NEW kind \in FaultKinds, Fault(kind)
        PROVE  FaultsOK' /\ \A k \in FaultKinds : faults[k] <= faults'[k]
    <2>1. /\ faults' = [faults EXCEPT ![kind] = faults[kind] + 1]
          /\ faults[kind] < MaxFaults[kind]
      BY <1>2 DEF Fault
    <2>2. MaxFaults[kind] \in Nat /\ faults[kind] \in Nat
      BY BoundsAssumption DEF FaultsOK
    <2>3. faults' \in [FaultKinds -> Nat]
      BY <2>1, <2>2 DEF FaultsOK
    <2>4. \A k \in FaultKinds : faults'[k] <= MaxFaults[k] /\ faults[k] <= faults'[k]
      BY <2>1, <2>2 DEF FaultsOK
    <2>5. QED
      BY <2>3, <2>4 DEF FaultsOK
  <1>3. QED
    BY <1>1, <1>2, FaultNext

\* What a busy worker's job looks like.
LEMMA BusyJob ==
    ASSUME JobsOK, NEW w \in Workers, At(w, Steps)
    PROVE  job[w] \in [step : Steps, tx : Txs, attempt : 1..MaxRetries, nonce : Nat,
                       result : Results]
  BY DEF JobsOK, Job, At, Idle, Steps

\* Moving on, returning and failing an attempt keep the jobs well typed, leave
\* the other workers alone, and lead to no waiting.
LEMMA JobMoves ==
    ASSUME JobsOK, NEW w \in Workers, At(w, Steps),
           \/ \E step \in Steps \ {"waiting"} : Goto(w, step)
           \/ \E step \in Steps \ {"waiting"}, result \in Results : Return(w, step, result)
           \/ AttemptFails(w)
           \/ job' = [job EXCEPT ![w] = Idle]
    PROVE  /\ JobsOK'
           /\ \A v \in Workers : job'[v].step = "waiting" => job'[v] = job[v]
  <1>1. job[w] \in [step : Steps, tx : Txs, attempt : 1..MaxRetries, nonce : Nat,
                    result : Results]
    BY BusyJob
  <1>2. CASE \E step \in Steps \ {"waiting"} : Goto(w, step)
    BY <1>1, <1>2 DEF JobsOK, Job, Goto
  <1>3. CASE \E step \in Steps \ {"waiting"}, result \in Results : Return(w, step, result)
    <2>1. PICK step \in Steps \ {"waiting"}, result \in Results : Return(w, step, result)
      BY <1>3
    <2>2. job' = [job EXCEPT ![w] = [job[w] EXCEPT !.step = step, !.result = result]]
      BY <2>1 DEF Return, JobsOK
    <2>3. [job[w] EXCEPT !.step = step, !.result = result] \in Job
      BY <1>1 DEF Job
    <2>4. QED
      BY <2>2, <2>3 DEF JobsOK
  <1>4. CASE AttemptFails(w)
    <2>1. CASE Return(w, "deciding", "failed")
      BY <1>1, <2>1 DEF JobsOK, Job, Return, Steps, Results
    <2>2. CASE /\ job[w].attempt < MaxRetries
               /\ job' = [job EXCEPT ![w].step = "trying", ![w].attempt = @ + 1]
      <3>1. job[w].attempt + 1 \in 1..MaxRetries
        BY <1>1, <2>2, BoundsAssumption
      <3>2. job' = [job EXCEPT ![w] = [job[w] EXCEPT !.step = "trying", !.attempt = @ + 1]]
        BY <2>2 DEF JobsOK
      <3>3. [job[w] EXCEPT !.step = "trying", !.attempt = @ + 1] \in Job
        BY <1>1, <3>1 DEF Job, Steps
      <3>4. QED
        BY <3>2, <3>3 DEF JobsOK
    <2>3. QED
      BY <1>4, <2>1, <2>2 DEF AttemptFails
  <1>5. CASE job' = [job EXCEPT ![w] = Idle]
    BY <1>5 DEF JobsOK, Job, Idle
  <1>6. QED
    BY <1>2, <1>3, <1>4, <1>5

\* Accepting a transaction appends an entry or replaces one.
LEMMA AcceptType ==
    ASSUME JobsOK, ChainOK, NEW w \in Workers, At(w, Steps), Accept(w)
    PROVE  /\ ChainOK'
           /\ DOMAIN nonces \subseteq DOMAIN nonces'
           /\ job[w].nonce \in DOMAIN nonces'
  <1>1. /\ job[w].tx \in Txs /\ job[w].nonce \in Nat
    BY BusyJob
  <1>2. PICK entry \in Entry :
           \/ job[w].nonce = Len(nonces) + 1 /\ nonces' = Append(nonces, entry)
           \/ job[w].nonce \in DOMAIN nonces /\ nonces' = [nonces EXCEPT ![job[w].nonce] = entry]
    <2>1. [tx |-> job[w].tx, by |-> w, fate |-> "pool"] \in Entry
      BY <1>1 DEF Entry, Fates
    <2>2. QED
      BY <2>1 DEF Accept
  <1>3. QED
    BY <1>2 DEF ChainOK

\* A step that takes no worker to "waiting" and forgets no nonce.
LEMMA WaitsStay ==
    ASSUME WaitsOK, DOMAIN nonces \subseteq DOMAIN nonces',
           \A v \in Workers : job'[v].step = "waiting" => job'[v] = job[v]
    PROVE  WaitsOK'
  BY DEF WaitsOK, At

\* The initial state is well typed.
LEMMA TypeInit == Init => TypeOK
  BY BoundsAssumption DEF Init, TypeOK, Job, Idle, At, FaultKinds, Statuses

\* Every step keeps the state well typed.
LEMMA TypeNext == TypeOK /\ [Next]_vars => TypeOK'
  <1> SUFFICES ASSUME TypeOK, [Next]_vars PROVE TypeOK'
    OBVIOUS
  <1>0. JobsOK /\ ChainOK /\ FaultsOK /\ WaitsOK /\ FaultsOK'
    BY FaultCount DEF TypeOK, JobsOK, ChainOK, FaultsOK, WaitsOK
  <1>a. ASSUME assigned' \in [Txs -> Workers], taken' \subseteq Txs, committed' \subseteq Txs,
               announced' \subseteq Txs \X Results, status' \in [Txs -> Statuses],
               locked' \subseteq Txs, JobsOK', ChainOK', WaitsOK'
        PROVE  TypeOK'
    BY <1>0, <1>a DEF TypeOK, JobsOK, ChainOK, FaultsOK, WaitsOK
  <1>1. ASSUME NEW w \in Workers, NEW t \in Txs, Fetch(w, t)
        PROVE  TypeOK'
    <2>1. JobsOK' /\ WaitsOK'
      BY <1>0, <1>1, BoundsAssumption DEF Fetch, JobsOK, Job, Steps, Results, WaitsOK, At
    <2>2. QED
      BY <1>0, <1>1, <1>a, <2>1 DEF Fetch, TypeOK, ChainOK
  <1>2. ASSUME NEW w \in Workers, NEW t \in Txs, Rebalance(t, w)
        PROVE  TypeOK'
    BY <1>0, <1>2, <1>a DEF Rebalance, TypeOK, JobsOK, ChainOK, WaitsOK, At
  <1>3. ASSUME NEW w \in Workers,
               \/ Lock(w) \/ LockDenied(w) \/ StartProcessing(w) \/ SendRejected(w)
               \/ WaitMined(w) \/ WriteResult(w) \/ Unlock(w) \/ Announce(w) \/ Commit(w)
        PROVE  TypeOK'
    <2>1. At(w, Steps)
      BY <1>3 DEF Lock, LockDenied, StartProcessing, SendRejected, WaitMined, Receipt,
                  WriteResult, Unlock, Announce, Commit, At, Steps
    <2>2. \/ \E step \in Steps \ {"waiting"} : Goto(w, step)
          \/ \E step \in Steps \ {"waiting"}, result \in Results : Return(w, step, result)
          \/ AttemptFails(w)
          \/ job' = [job EXCEPT ![w] = Idle]
      <3>1. CASE Lock(w) \/ WriteResult(w) \/ Unlock(w) \/ Announce(w)
        BY <3>1 DEF Lock, WriteResult, Unlock, Announce, Steps
      <3>2. CASE LockDenied(w) \/ StartProcessing(w)
        BY <3>2 DEF LockDenied, StartProcessing, Steps, Results
      <3>3. CASE SendRejected(w) \/ WaitMined(w) \/ Commit(w)
        BY <3>3 DEF SendRejected, WaitMined, Commit, Steps, Results
      <3>4. QED
        BY <1>3, <3>1, <3>2, <3>3
    <2>3. JobsOK' /\ \A v \in Workers : job'[v].step = "waiting" => job'[v] = job[v]
      BY <1>0, <2>1, <2>2, JobMoves
    <2>4. UNCHANGED <<assigned, taken, nonces>>
      BY <1>3 DEF Lock, LockDenied, StartProcessing, SendRejected, WaitMined, WriteResult,
                  Unlock, Announce, Commit, kafkaVars
    <2>5. ChainOK' /\ WaitsOK'
      BY <1>0, <2>3, <2>4, WaitsStay DEF ChainOK
    <2>6. job[w].tx \in Txs /\ job[w].result \in Results
      BY <1>0, <2>1, BusyJob
    <2>7. committed' \subseteq Txs /\ announced' \subseteq Txs \X Results
      BY <1>3, <2>6 DEF Lock, LockDenied, StartProcessing, SendRejected, WaitMined, WriteResult,
                  Unlock, Announce, Commit, kafkaVars, TypeOK
    <2>8. status' \in [Txs -> Statuses] /\ locked' \subseteq Txs
      BY <1>3, <2>6 DEF Lock, LockDenied, StartProcessing, SendRejected, WaitMined, WriteResult,
                  Unlock, Announce, Commit, TypeOK, Statuses
    <2>9. QED
      BY <1>a, <2>3, <2>4, <2>5, <2>7, <2>8 DEF TypeOK
  <1>4. ASSUME NEW w \in Workers, ReadNonce(w)
        PROVE  TypeOK'
    <2>1. At(w, Steps) /\ job' = [job EXCEPT ![w].step = "signed", ![w].nonce = Len(nonces) + 1]
      BY <1>4 DEF ReadNonce, At, Steps
    <2>2. job[w] \in [step : Steps, tx : Txs, attempt : 1..MaxRetries, nonce : Nat,
                      result : Results]
      BY <1>0, <2>1, BusyJob
    <2>3. Len(nonces) + 1 \in Nat
      BY <1>0 DEF ChainOK
    <2>4. [job[w] EXCEPT !.step = "signed", !.nonce = Len(nonces) + 1] \in Job
      BY <2>2, <2>3 DEF Job, Steps
    <2>5. job' = [job EXCEPT ![w] = [job[w] EXCEPT !.step = "signed", !.nonce = Len(nonces) + 1]]
      BY <1>0, <2>1 DEF JobsOK
    <2>6. JobsOK' /\ \A v \in Workers : job'[v].step = "waiting" => job'[v] = job[v]
      BY <1>0, <2>2, <2>4, <2>5 DEF JobsOK
    <2>7. WaitsOK'
      BY <1>0, <1>4, <2>6, WaitsStay DEF ReadNonce
    <2>8. QED
      BY <1>0, <1>4, <1>a, <2>6, <2>7 DEF ReadNonce, kafkaVars, TypeOK, ChainOK
  <1>5. ASSUME NEW w \in Workers, SendTransaction(w)
        PROVE  TypeOK'
    <2>1. At(w, Steps) /\ Accept(w) /\ job' = [job EXCEPT ![w].step = "waiting"]
      BY <1>5 DEF SendTransaction, Goto, At, Steps
    <2>2. /\ ChainOK'
          /\ DOMAIN nonces \subseteq DOMAIN nonces'
          /\ job[w].nonce \in DOMAIN nonces'
      BY <1>0, <2>1, AcceptType
    <2>3. job[w] \in [step : Steps, tx : Txs, attempt : 1..MaxRetries, nonce : Nat,
                      result : Results]
      BY <1>0, <2>1, BusyJob
    <2>4. JobsOK'
      BY <1>0, <2>1, <2>3 DEF JobsOK, Job, Steps
    <2>5. WaitsOK'
      BY <1>0, <2>1, <2>2, <2>3 DEF WaitsOK, At, JobsOK
    <2>6. QED
      BY <1>5, <1>a, <2>2, <2>4, <2>5 DEF SendTransaction, kafkaVars, TypeOK
  <1>6. ASSUME NEW w \in Workers, SendFails(w)
        PROVE  TypeOK'
    <2>1. At(w, Steps) /\ AttemptFails(w) /\ (UNCHANGED nonces \/ Accept(w))
      BY <1>6 DEF SendFails, At, Steps
    <2>2. ChainOK' /\ DOMAIN nonces \subseteq DOMAIN nonces'
      BY <1>0, <2>1, AcceptType DEF ChainOK
    <2>3. JobsOK' /\ \A v \in Workers : job'[v].step = "waiting" => job'[v] = job[v]
      BY <1>0, <2>1, JobMoves
    <2>4. WaitsOK'
      BY <1>0, <2>2, <2>3, WaitsStay
    <2>5. QED
      BY <1>6, <1>a, <2>2, <2>3, <2>4 DEF SendFails, kafkaVars, TypeOK
  <1>7. ASSUME NEW w \in Workers, Crash(w)
        PROVE  TypeOK'
    <2>1. JobsOK' /\ \A v \in Workers : job'[v].step = "waiting" => job'[v] = job[v]
      BY <1>0, <1>7 DEF Crash, JobsOK, Job, Idle
    <2>2. WaitsOK'
      BY <1>0, <1>7, <2>1, WaitsStay DEF Crash
    <2>3. QED
      BY <1>0, <1>7, <1>a, <2>1, <2>2 DEF Crash, TypeOK, ChainOK
  <1>8. ASSUME NEW t \in Txs, Expire(t)
        PROVE  TypeOK'
    BY <1>0, <1>8, <1>a DEF Expire, kafkaVars, TypeOK, JobsOK, ChainOK, WaitsOK, At
  <1>9. CASE Mine
    <2>1. PICK n \in DOMAIN nonces, fate \in Fates : nonces' = [nonces EXCEPT ![n].fate = fate]
      BY <1>9 DEF Mine, Fates
    <2>2. nonces[n] \in Entry
      BY <1>0, <2>1 DEF ChainOK
    <2>3. [nonces[n] EXCEPT !.fate = fate] \in Entry
      BY <2>1, <2>2 DEF Entry
    <2>4. nonces' = [nonces EXCEPT ![n] = [nonces[n] EXCEPT !.fate = fate]]
      BY <1>0, <2>1 DEF ChainOK
    <2>5. ChainOK' /\ DOMAIN nonces' = DOMAIN nonces
      BY <1>0, <2>1, <2>3, <2>4 DEF ChainOK
    <2>6. WaitsOK'
      BY <1>0, <1>9, <2>5 DEF Mine, WaitsOK, At
    <2>7. QED
      BY <1>0, <1>9, <1>a, <2>5, <2>6 DEF Mine, kafkaVars, TypeOK, JobsOK
  <1>10. CASE UNCHANGED vars
    BY <1>0, <1>10, <1>a DEF vars, kafkaVars, TypeOK, JobsOK, ChainOK, WaitsOK, At
  <1>11. QED
    BY <1>1, <1>2, <1>3, <1>4, <1>5, <1>6, <1>7, <1>8, <1>9, <1>10, NextCases

\* Every variable keeps its type, and a worker waits only for a nonce in use.
THEOREM TypeCorrect == Spec => []TypeOK
  BY TypeInit, TypeNext, PTL DEF Spec

-----------------------------------------------------------------------------
(* Mutual exclusion.                                                       *)

\* One worker beyond the lock runs out per expiry; the key in Redis, whoever
\* set it, accounts for one more.  Unlock gives up both at once.
LockInv ==
    \A t \in Txs :
        Cardinality(Executing(t)) <= faults["expiry"] + (IF t \in locked THEN 1 ELSE 0)

\* Nobody is executing at the start.
LEMMA LockInit == Init => LockInv
  <1> SUFFICES ASSUME Init PROVE LockInv
    OBVIOUS
  <1>1. \A t \in Txs : Executing(t) = {}
    BY DEF Init, Executing, At, Guarded, Idle
  <1>2. faults["expiry"] = 0 /\ locked = {}
    BY DEF Init, FaultKinds
  <1>3. QED
    BY <1>1, <1>2, FS_EmptySet DEF LockInv

\* The workers that execute a transfer can be counted.
LEMMA ExecutingFinite ==
    ASSUME NEW t
    PROVE  IsFiniteSet(Executing(t)) /\ Cardinality(Executing(t)) \in Nat
  BY BoundsAssumption, FS_Subset, FS_CardinalityType DEF Executing

\* A step after which no more workers execute t than before, t keeps its key
\* and no expiry is forgotten.
LEMMA QuietLock ==
    ASSUME LockInv, FaultsOK, FaultsOK', NEW t \in Txs,
           faults["expiry"] <= faults'["expiry"],
           Executing(t)' \subseteq Executing(t), t \in locked => t \in locked'
    PROVE  Cardinality(Executing(t)') <= faults'["expiry"] + (IF t \in locked' THEN 1 ELSE 0)
  <1>1. Cardinality(Executing(t)') <= Cardinality(Executing(t))
    BY ExecutingFinite, FS_Subset
  <1>2. Cardinality(Executing(t)) \in Nat /\ Cardinality(Executing(t)') \in Nat
    BY ExecutingFinite, FS_Subset, FS_CardinalityType
  <1>3. faults["expiry"] \in Nat /\ faults'["expiry"] \in Nat
    BY DEF FaultsOK, FaultKinds
  <1>4. Cardinality(Executing(t)) <= faults["expiry"] + (IF t \in locked THEN 1 ELSE 0)
    BY DEF LockInv
  <1>5. QED
    BY <1>1, <1>2, <1>3, <1>4

\* Moving on, returning and failing an attempt keep the transfer.
LEMMA SameTx ==
    ASSUME JobsOK, NEW w \in Workers, At(w, Steps),
           \/ \E step \in Steps : Goto(w, step)
           \/ \E step \in Steps, result \in Results : Return(w, step, result)
           \/ AttemptFails(w)
    PROVE  job'[w].tx = job[w].tx /\ \A v \in Workers \ {w} : job'[v] = job[v]
  <1>1. job[w] \in [step : Steps, tx : Txs, attempt : 1..MaxRetries, nonce : Nat,
                    result : Results]
    BY BusyJob
  <1>2. CASE \E step \in Steps : Goto(w, step)
    BY <1>1, <1>2 DEF JobsOK, Goto
  <1>3. ASSUME NEW step, NEW result, Return(w, step, result)
        PROVE  job'[w].tx = job[w].tx /\ \A v \in Workers \ {w} : job'[v] = job[v]
    BY <1>1, <1>3 DEF JobsOK, Return
  <1>4. CASE job' = [job EXCEPT ![w].step = "trying", ![w].attempt = @ + 1]
    BY <1>1, <1>4 DEF JobsOK
  <1>5. QED
    BY <1>2, <1>3, <1>4 DEF AttemptFails

\* So does reading the nonce.
LEMMA SameTxSigned ==
    ASSUME JobsOK, NEW w \in Workers, At(w, Steps),
           job' = [job EXCEPT ![w].step = "signed", ![w].nonce = Len(nonces) + 1]
    PROVE  job'[w].tx = job[w].tx /\ \A v \in Workers \ {w} : job'[v] = job[v]
  <1>1. job[w] \in [step : Steps, tx : Txs, attempt : 1..MaxRetries, nonce : Nat,
                    result : Results]
    BY BusyJob
  <1>2. QED
    BY <1>1 DEF JobsOK

\* A worker that changes its job without taking a lock executes at most what it
\* executed before, and so do the others.
LEMMA NoNewWorker ==
    ASSUME NEW w \in Workers, NEW t \in Txs,
           \A v \in Workers \ {w} : job'[v] = job[v],
           At(w, Guarded)' => At(w, Guarded) /\ job'[w].tx = job[w].tx
    PROVE  Executing(t)' \subseteq Executing(t)
  BY DEF Executing, At

\* Every step keeps LockInv.
LEMMA LockNext ==
    ASSUME TypeOK, LockInv, [Next]_vars
    PROVE  LockInv'
  <1>0. JobsOK /\ FaultsOK /\ FaultsOK' /\ faults["expiry"] <= faults'["expiry"]
    BY FaultCount DEF TypeOK, JobsOK, FaultsOK, FaultKinds
  <1> SUFFICES ASSUME NEW t \in Txs
               PROVE  Cardinality(Executing(t)')
                        <= faults'["expiry"] + (IF t \in locked' THEN 1 ELSE 0)
    BY DEF LockInv
  <1>1. ASSUME NEW w \in Workers,
               \/ LockDenied(w) \/ StartProcessing(w) \/ ReadNonce(w) \/ SendTransaction(w)
               \/ SendRejected(w) \/ SendFails(w) \/ WaitMined(w) \/ WriteResult(w)
               \/ Announce(w) \/ Commit(w) \/ Crash(w)
        PROVE  locked \subseteq locked' /\ Executing(t)' \subseteq Executing(t)
    <2>1. locked \subseteq locked'
      BY <1>1 DEF LockDenied, StartProcessing, ReadNonce, SendTransaction, SendRejected,
                  SendFails, WaitMined, WriteResult, Announce, Commit, Crash
    <2>2. /\ \A v \in Workers \ {w} : job'[v] = job[v]
          /\ At(w, Guarded)' => At(w, Guarded) /\ job'[w].tx = job[w].tx
      <3>1. CASE \/ StartProcessing(w) \/ SendTransaction(w) \/ SendRejected(w) \/ SendFails(w)
                 \/ WaitMined(w) \/ WriteResult(w)
        <4>1. \/ \E step \in Steps : Goto(w, step)
              \/ \E step \in Steps, result \in Results : Return(w, step, result)
              \/ AttemptFails(w)
          BY <3>1 DEF StartProcessing, SendTransaction, SendRejected, SendFails, WaitMined,
                      WriteResult, Steps, Results
        <4>2. At(w, Guarded)
          BY <3>1 DEF StartProcessing, SendTransaction, SendRejected, SendFails, WaitMined,
                      Receipt, WriteResult, At, Guarded
        <4>3. QED
          BY <1>0, <4>1, <4>2, SameTx DEF Guarded, At, Steps
      <3>2. CASE ReadNonce(w)
        BY <1>0, <3>2, SameTxSigned DEF ReadNonce, At, Guarded, Steps
      <3>3. CASE LockDenied(w) \/ Announce(w)
        <4>1. \E step \in {"announcing", "committing"} :
                 Goto(w, step) \/ Return(w, step, "failed")
          BY <3>3 DEF LockDenied, Announce
        <4>2. At(w, Steps)
          BY <3>3 DEF LockDenied, Announce, At, Steps
        <4>3. job'[w].step \notin Guarded /\ \A v \in Workers \ {w} : job'[v] = job[v]
          BY <1>0, <4>1, <4>2, BusyJob DEF Goto, Return, Guarded, JobsOK
        <4>4. QED
          BY <4>3 DEF At
      <3>4. CASE Commit(w) \/ Crash(w)
        BY <1>0, <3>4 DEF Commit, Crash, At, Guarded, JobsOK, Idle
      <3>5. QED
        BY <1>1, <3>1, <3>2, <3>3, <3>4
    <2>3. QED
      BY <2>1, <2>2, NoNewWorker
  <1>2. ASSUME NEW w \in Workers, NEW x \in Txs, Fetch(w, x) \/ Rebalance(x, w)
        PROVE  UNCHANGED locked /\ Executing(t)' \subseteq Executing(t)
    BY <1>0, <1>2 DEF Fetch, Rebalance, Executing, At, Guarded, JobsOK
  <1>3. CASE Mine \/ UNCHANGED vars
    BY <1>0, <1>3, QuietLock DEF Mine, kafkaVars, vars, Executing, At
  <1>4. ASSUME NEW w \in Workers, Lock(w)
        PROVE  Cardinality(Executing(t)') <= faults'["expiry"] + (IF t \in locked' THEN 1 ELSE 0)
    <2>1. /\ locked' = locked \cup {job[w].tx} /\ job[w].tx \notin locked
          /\ job' = [job EXCEPT ![w].step = "locked"]
          /\ At(w, {"fetched"})
      BY <1>4 DEF Lock, Goto
    <2>2. CASE job[w].tx = t
      <3>1. Executing(t)' = Executing(t) \cup {w} /\ w \notin Executing(t)
        BY <1>0, <2>1, <2>2 DEF Executing, At, Guarded, JobsOK
      <3>2. Cardinality(Executing(t)') = Cardinality(Executing(t)) + 1
        BY <3>1, ExecutingFinite, FS_AddElement
      <3>3. Cardinality(Executing(t)) <= faults["expiry"]
        BY <1>0, <2>1, <2>2 DEF LockInv, FaultsOK, FaultKinds
      <3>4. QED
        BY <1>0, <2>1, <2>2, <3>2, <3>3, ExecutingFinite DEF FaultsOK, FaultKinds
    <2>3. CASE job[w].tx # t
      <3>1. Executing(t)' \subseteq Executing(t)
        BY <1>0, <2>1, <2>3 DEF Executing, At, JobsOK
      <3>2. QED
        BY <1>0, <2>1, <3>1, QuietLock
    <2>4. QED
      BY <2>2, <2>3
  <1>5. ASSUME NEW w \in Workers, Unlock(w)
        PROVE  Cardinality(Executing(t)') <= faults'["expiry"] + (IF t \in locked' THEN 1 ELSE 0)
    <2>1. /\ locked' = locked \ {job[w].tx} \/ UNCHANGED locked
          /\ job' = [job EXCEPT ![w].step = "announcing"]
          /\ At(w, {"unlocking"})
      BY <1>5 DEF Unlock, Goto
    <2>2. CASE job[w].tx = t
      <3>1. Executing(t)' = Executing(t) \ {w} /\ w \in Executing(t)
        BY <1>0, <2>1, <2>2 DEF Executing, At, Guarded, JobsOK
      <3>2. Cardinality(Executing(t)') = Cardinality(Executing(t)) - 1
        BY <3>1, ExecutingFinite, FS_RemoveElement
      <3>3. Cardinality(Executing(t)) <= faults["expiry"] + 1
        BY <1>0, ExecutingFinite DEF LockInv, FaultsOK, FaultKinds
      <3>4. QED
        BY <1>0, <2>1, <2>2, <3>2, <3>3, ExecutingFinite DEF FaultsOK, FaultKinds
    <2>3. CASE job[w].tx # t
      <3>1. Executing(t)' \subseteq Executing(t)
        BY <1>0, <2>1, <2>3 DEF Executing, At, JobsOK
      <3>2. QED
        BY <1>0, <2>1, <2>3, <3>1, QuietLock
    <2>4. QED
      BY <2>2, <2>3
  <1>6. ASSUME NEW x \in Txs, Expire(x)
        PROVE  Cardinality(Executing(t)') <= faults'["expiry"] + (IF t \in locked' THEN 1 ELSE 0)
    <2>1. Executing(t)' = Executing(t) /\ locked' = locked \ {x}
      BY <1>6 DEF Expire, Executing, At
    <2>2. CASE x # t
      BY <1>0, <2>1, <2>2, QuietLock
    <2>3. CASE x = t /\ Executing(t) = {}
      BY <1>0, <2>1, <2>3, FS_EmptySet DEF FaultsOK, FaultKinds
    <2>4. CASE x = t /\ Executing(t) # {}
      <3>1. faults' = [faults EXCEPT !["expiry"] = faults["expiry"] + 1]
        BY <1>6, <2>4 DEF Expire, Fault
      <3>2. faults'["expiry"] = faults["expiry"] + 1
        BY <1>0, <3>1 DEF FaultsOK, FaultKinds
      <3>3. Cardinality(Executing(t)) <= faults["expiry"] + 1
        BY <1>0, ExecutingFinite DEF LockInv, FaultsOK, FaultKinds
      <3>4. QED
        BY <1>0, <2>1, <2>4, <3>2, <3>3, ExecutingFinite DEF FaultsOK, FaultKinds
    <2>5. QED
      BY <2>2, <2>3, <2>4
  <1>7. QED
    BY <1>0, <1>1, <1>2, <1>3, <1>4, <1>5, <1>6, NextCases, QuietLock

\* A transfer is executed by one worker at a time, and by one more for each lock
\* that ran out under its worker, for any number of workers, deliveries and
\* faults (engine.go, Process).
THEOREM LockExcludes == Spec => []ExecutedAlone
  <1>1. TypeOK /\ LockInv /\ [Next]_vars => LockInv'
    BY LockNext
  <1>2. TypeOK /\ LockInv => ExecutedAlone
    BY ExecutingFinite DEF LockInv, ExecutedAlone, TypeOK, FaultKinds
  <1>3. QED
    BY LockInit, <1>1, <1>2, TypeCorrect, PTL DEF Spec

-----------------------------------------------------------------------------
(* How a worker's job moves.                                               *)

\* Moving on keeps everything but the step.
LEMMA GotoFacts ==
    ASSUME JobsOK, NEW w \in Workers, At(w, Steps), NEW step \in Steps, Goto(w, step)
    PROVE  /\ job'[w].step = step /\ job'[w].tx = job[w].tx
           /\ job'[w].result = job[w].result /\ job'[w].nonce = job[w].nonce
           /\ \A v \in Workers \ {w} : job'[v] = job[v]
  <1>1. job[w] \in [step : Steps, tx : Txs, attempt : 1..MaxRetries, nonce : Nat,
                    result : Results]
    BY BusyJob
  <1>2. QED
    BY <1>1 DEF JobsOK, Goto

\* Returning sets the step and the result.
LEMMA ReturnFacts ==
    ASSUME JobsOK, NEW w \in Workers, At(w, Steps), NEW step \in Steps,
           NEW result \in Results, Return(w, step, result)
    PROVE  /\ job'[w].step = step /\ job'[w].result = result /\ job'[w].tx = job[w].tx
           /\ \A v \in Workers \ {w} : job'[v] = job[v]
  <1>1. job[w] \in [step : Steps, tx : Txs, attempt : 1..MaxRetries, nonce : Nat,
                    result : Results]
    BY BusyJob
  <1>2. QED
    BY <1>1 DEF JobsOK, Return

\* After a failed attempt there is another one, or the result is failed.
LEMMA AttemptFacts ==
    ASSUME JobsOK, NEW w \in Workers, At(w, Steps), AttemptFails(w)
    PROVE  /\ job'[w].tx = job[w].tx
           /\ \/ job'[w].step = "trying" /\ job'[w].result = job[w].result
              \/ job'[w].step = "deciding" /\ job'[w].result = "failed"
           /\ \A v \in Workers \ {w} : job'[v] = job[v]
  <1>1. job[w] \in [step : Steps, tx : Txs, attempt : 1..MaxRetries, nonce : Nat,
                    result : Results]
    BY BusyJob
  <1>2. CASE Return(w, "deciding", "failed")
    BY <1>2, ReturnFacts DEF Steps, Results
  <1>3. CASE job' = [job EXCEPT ![w].step = "trying", ![w].attempt = @ + 1]
    BY <1>1, <1>3 DEF JobsOK
  <1>4. QED
    BY <1>2, <1>3 DEF AttemptFails

\* Reading the nonce keeps the transfer and the result.
LEMMA ReadFacts ==
    ASSUME JobsOK, NEW w \in Workers, ReadNonce(w)
    PROVE  /\ job'[w].step = "signed" /\ job'[w].tx = job[w].tx
           /\ job'[w].result = job[w].result
           /\ \A v \in Workers \ {w} : job'[v] = job[v]
  <1>1. At(w, Steps)
    BY DEF ReadNonce, At, Steps
  <1>2. job[w] \in [step : Steps, tx : Txs, attempt : 1..MaxRetries, nonce : Nat,
                    result : Results]
    BY <1>1, BusyJob
  <1>3. QED
    BY <1>2 DEF JobsOK, ReadNonce

-----------------------------------------------------------------------------
(* What is called completed was paid.                                      *)

\* A worker that is to say completed has seen the payment, and the transaction
\* it waits for, unless another one replaced it, is that of its transfer.
PaidInv ==
    /\ \A w \in Workers : At(w, Steps) /\ job[w].result = "completed" => Paid(job[w].tx) # {}
    /\ \A w \in Workers :
          At(w, {"waiting"}) /\ nonces[job[w].nonce].by = w
              => nonces[job[w].nonce].tx = job[w].tx
    /\ CompletedIsPaid

\* The chain stays, takes a transaction that worker v has signed, or mines.
ChainStep(v) == UNCHANGED nonces \/ (At(v, {"signed"}) /\ Accept(v)) \/ Mine

\* What paid stays on the chain; a waiting worker's own transaction keeps its
\* transfer, until the transaction of another worker replaces it.
LEMMA ChainNext ==
    ASSUME TypeOK, NEW v \in Workers, ChainStep(v)
    PROVE  /\ \A t \in Txs : Paid(t) # {} => Paid(t)' # {}
           /\ \A w \in Workers :
                 At(w, {"waiting"}) /\ nonces'[job[w].nonce].by = w
                     => /\ nonces[job[w].nonce].by = w
                        /\ nonces'[job[w].nonce].tx = nonces[job[w].nonce].tx
  <1>0. /\ nonces \in Seq(Entry)
        /\ \A w \in Workers : At(w, {"waiting"}) => job[w].nonce \in DOMAIN nonces
    BY DEF TypeOK
  <1>1. CASE UNCHANGED nonces
    BY <1>1 DEF Paid
  <1>2. CASE At(v, {"signed"}) /\ Accept(v)
    <2>1. PICK n, entry : /\ n = job[v].nonce
                          /\ entry = [tx |-> job[v].tx, by |-> v, fate |-> "pool"]
      OBVIOUS
    <2>2. \/ n = Len(nonces) + 1 /\ nonces' = Append(nonces, entry)
          \/ n \in DOMAIN nonces /\ nonces[n].fate = "pool" /\ nonces' = [nonces EXCEPT ![n] = entry]
      BY <1>2, <2>1 DEF Accept
    <2>3. /\ \A m \in DOMAIN nonces : m \in DOMAIN nonces' /\ (m # n => nonces'[m] = nonces[m])
          /\ n \in DOMAIN nonces => nonces[n].fate = "pool" /\ nonces'[n] = entry
      BY <1>0, <2>2
    <2>4. \A t \in Txs : Paid(t) \subseteq Paid(t)'
      BY <2>3 DEF Paid
    <2>5. ASSUME NEW w \in Workers, At(w, {"waiting"}), nonces'[job[w].nonce].by = w
          PROVE  job[w].nonce # n
      <3>1. w # v
        BY <1>2, <2>5 DEF At
      <3>2. QED
        BY <1>0, <2>1, <2>3, <2>5, <3>1
    <2>6. QED
      BY <1>0, <2>3, <2>4, <2>5
  <1>3. CASE Mine
    <2>1. PICK n \in DOMAIN nonces, fate \in Fates :
             nonces[n].fate = "pool" /\ nonces' = [nonces EXCEPT ![n].fate = fate]
      BY <1>3 DEF Mine, Fates
    <2>2. nonces[n] \in Entry
      BY <1>0, <2>1
    <2>3. /\ \A m \in DOMAIN nonces : m \in DOMAIN nonces' /\ (m # n => nonces'[m] = nonces[m])
          /\ nonces'[n].tx = nonces[n].tx /\ nonces'[n].by = nonces[n].by
      BY <1>0, <2>1, <2>2 DEF Entry
    <2>4. \A t \in Txs : Paid(t) \subseteq Paid(t)'
      BY <2>1, <2>3 DEF Paid
    <2>5. QED
      BY <1>0, <2>3, <2>4
  <1>4. QED
    BY <1>1, <1>2, <1>3 DEF ChainStep

\* A step after which whoever is to say completed either was to say it before
\* or names a paid transfer, and the waiting are those that waited before or
\* one whose transaction is its own.
LEMMA PaidStep ==
    ASSUME TypeOK, PaidInv, NEW v \in Workers, ChainStep(v),
           \A w \in Workers :
              At(w, Steps)' /\ job'[w].result = "completed" =>
                 \/ Paid(job'[w].tx) # {} /\ job'[w].tx \in Txs
                 \/ At(w, Steps) /\ job[w].result = "completed" /\ job'[w].tx = job[w].tx,
           \A w \in Workers :
              At(w, {"waiting"})' =>
                 \/ nonces'[job'[w].nonce].tx = job'[w].tx
                 \/ At(w, {"waiting"}) /\ job'[w] = job[w],
           \A t \in Txs :
              status'[t] = "completed" \/ <<t, "completed">> \in announced'
                 => \/ status[t] = "completed" \/ <<t, "completed">> \in announced
                    \/ Paid(t) # {}
    PROVE  PaidInv'
  <1>1. \A t \in Txs : Paid(t) # {} => Paid(t)' # {}
    BY ChainNext
  <1>2. ASSUME NEW w \in Workers, At(w, Steps)', job'[w].result = "completed"
        PROVE  Paid(job[w].tx)' # {}
    <2>1. CASE Paid(job'[w].tx) # {} /\ job'[w].tx \in Txs
      BY <1>1, <2>1 DEF Paid
    <2>2. CASE At(w, Steps) /\ job[w].result = "completed" /\ job'[w].tx = job[w].tx
      <3>1. job[w].tx \in Txs
        BY <2>2, BusyJob DEF TypeOK, JobsOK
      <3>2. Paid(job[w].tx) # {}
        BY <2>2 DEF PaidInv
      <3>3. PICK t \in Txs : t = job[w].tx
        BY <3>1
      <3>4. Paid(t)' # {} /\ t = job'[w].tx
        BY <1>1, <2>2, <3>2, <3>3
      <3>5. QED
        BY <3>4 DEF Paid
    <2>3. QED
      BY <1>2, <2>1, <2>2
  <1>3. ASSUME NEW w \in Workers, At(w, {"waiting"})', nonces'[job'[w].nonce].by = w
        PROVE  nonces'[job'[w].nonce].tx = job'[w].tx
    BY <1>3, ChainNext DEF PaidInv
  <1>4. CompletedIsPaid'
    BY <1>1 DEF PaidInv, CompletedIsPaid
  <1>5. QED
    BY <1>2, <1>3, <1>4 DEF PaidInv

\* Every step keeps PaidInv.
LEMMA PaidNext ==
    ASSUME TypeOK, PaidInv, [Next]_vars
    PROVE  PaidInv'
  <1>0. JobsOK /\ WaitsOK /\ nonces \in Seq(Entry)
    BY DEF TypeOK, JobsOK, WaitsOK
  <1>1. ASSUME NEW w \in Workers, NEW t \in Txs, Fetch(w, t) \/ Rebalance(t, w)
        PROVE  PaidInv'
    <2>1. UNCHANGED <<nonces, status, announced>>
      BY <1>1 DEF Fetch, Rebalance
    <2>2. \A v \in Workers : job'[v] = job[v] \/ (job'[v].step = "fetched" /\ job'[v].result = "failed")
      BY <1>0, <1>1 DEF Fetch, Rebalance, JobsOK
    <2>3. QED
      BY <2>1, <2>2, PaidStep DEF ChainStep, At
  <1>2. ASSUME NEW w \in Workers,
               \/ Lock(w) \/ LockDenied(w) \/ StartProcessing(w) \/ SendRejected(w)
               \/ SendFails(w) \/ WriteResult(w) \/ Unlock(w) \/ Announce(w)
        PROVE  PaidInv'
    <2>1. At(w, Steps \ {"waiting"})
      BY <1>2 DEF Lock, LockDenied, StartProcessing, SendRejected, SendFails, WriteResult,
                  Unlock, Announce, At, Steps
    <2>2. At(w, Steps)
      BY <2>1 DEF At
    <2>3. \/ \E step \in Steps \ {"waiting"} : Goto(w, step)
          \/ \E step \in Steps \ {"waiting"} : Return(w, step, "failed")
          \/ AttemptFails(w)
      BY <1>2 DEF Lock, LockDenied, StartProcessing, SendRejected, SendFails, WriteResult,
                  Unlock, Announce, Steps
    <2>4. /\ job'[w].tx = job[w].tx /\ job'[w].step # "waiting"
          /\ job'[w].result = job[w].result \/ job'[w].result = "failed"
          /\ \A v \in Workers \ {w} : job'[v] = job[v]
      BY <1>0, <2>2, <2>3, GotoFacts, ReturnFacts, AttemptFacts DEF Results
    <2>5. ChainStep(w)
      BY <1>2 DEF Lock, LockDenied, StartProcessing, SendRejected, SendFails, WriteResult,
                  Unlock, Announce, ChainStep
    <2>6. job[w].result = "completed" => Paid(job[w].tx) # {}
      BY <2>2 DEF PaidInv
    <2>7. \/ UNCHANGED <<status, announced>>
          \/ status' = [status EXCEPT ![job[w].tx] = "processing"] /\ UNCHANGED announced
          \/ status' = [status EXCEPT ![job[w].tx] = job[w].result] /\ UNCHANGED announced
          \/ announced' = announced \cup {<<job[w].tx, job[w].result>>} /\ UNCHANGED status
      BY <1>2 DEF Lock, LockDenied, StartProcessing, SendRejected, SendFails, WriteResult,
                  Unlock, Announce, kafkaVars
    <2>8. \A t \in Txs :
             status'[t] = "completed" \/ <<t, "completed">> \in announced'
                => \/ status[t] = "completed" \/ <<t, "completed">> \in announced
                   \/ Paid(t) # {}
      BY <2>6, <2>7 DEF TypeOK
    <2>9. \A v \in Workers : At(v, {"waiting"})' => At(v, {"waiting"}) /\ job'[v] = job[v]
      BY <2>4 DEF At
    <2>10. \A v \in Workers :
              At(v, Steps)' /\ job'[v].result = "completed" =>
                 At(v, Steps) /\ job[v].result = "completed" /\ job'[v].tx = job[v].tx
      BY <2>2, <2>4 DEF At
    <2>11. QED
      BY <2>5, <2>8, <2>9, <2>10, PaidStep
  <1>3. ASSUME NEW w \in Workers, ReadNonce(w)
        PROVE  PaidInv'
    <2>1. At(w, Steps) /\ UNCHANGED <<nonces, status, announced>>
      BY <1>3 DEF ReadNonce, At, Steps, kafkaVars
    <2>2. QED
      BY <1>0, <1>3, <2>1, ReadFacts, PaidStep DEF ChainStep, At
  <1>4. ASSUME NEW w \in Workers, SendTransaction(w)
        PROVE  PaidInv'
    <2>1. /\ At(w, {"signed"}) /\ At(w, Steps) /\ Accept(w) /\ Goto(w, "waiting")
          /\ UNCHANGED <<status, announced>>
      BY <1>4 DEF SendTransaction, At, Steps, kafkaVars
    <2>2. /\ job'[w].step = "waiting" /\ job'[w].tx = job[w].tx
          /\ job'[w].result = job[w].result /\ job'[w].nonce = job[w].nonce
          /\ \A v \in Workers \ {w} : job'[v] = job[v]
      BY <1>0, <2>1, GotoFacts DEF Steps
    <2>3. nonces'[job[w].nonce].tx = job[w].tx
      <3>1. PICK n, entry : /\ n = job[w].nonce /\ entry.tx = job[w].tx
                            /\ entry = [tx |-> job[w].tx, by |-> w, fate |-> "pool"]
        OBVIOUS
      <3>2. \/ n = Len(nonces) + 1 /\ nonces' = Append(nonces, entry)
            \/ n \in DOMAIN nonces /\ nonces' = [nonces EXCEPT ![n] = entry]
        BY <2>1, <3>1 DEF Accept
      <3>3. nonces'[n] = entry
        BY <1>0, <3>2
      <3>4. QED
        BY <3>1, <3>3
    <2>4. \A v \in Workers : At(v, {"waiting"})' =>
             \/ nonces'[job'[v].nonce].tx = job'[v].tx
             \/ At(v, {"waiting"}) /\ job'[v] = job[v]
      BY <2>2, <2>3 DEF At
    <2>5. \A v \in Workers :
             At(v, Steps)' /\ job'[v].result = "completed" =>
                At(v, Steps) /\ job[v].result = "completed" /\ job'[v].tx = job[v].tx
      BY <2>1, <2>2 DEF At
    <2>6. QED
      BY <2>1, <2>4, <2>5, PaidStep DEF ChainStep
  <1>5. ASSUME NEW w \in Workers, WaitMined(w)
        PROVE  PaidInv'
    <2>1. /\ At(w, {"waiting"}) /\ At(w, Steps) /\ nonces[job[w].nonce].by = w
          /\ UNCHANGED <<nonces, status, announced>>
      BY <1>5 DEF WaitMined, Receipt, At, Steps, kafkaVars
    <2>2. job[w].tx \in Txs /\ job[w].nonce \in DOMAIN nonces
      BY <1>0, <2>1, BusyJob DEF WaitsOK
    <2>3. /\ job'[w].tx = job[w].tx /\ job'[w].step # "waiting"
          /\ \A v \in Workers \ {w} : job'[v] = job[v]
          /\ \/ job'[w].result \in {job[w].result, "failed"}
             \/ nonces[job[w].nonce].fate = "ok"
      BY <1>0, <1>5, <2>1, ReturnFacts, AttemptFacts DEF WaitMined, Steps, Results
    <2>4. nonces[job[w].nonce].fate = "ok" => Paid(job[w].tx) # {}
      <3>1. nonces[job[w].nonce].tx = job[w].tx
        BY <2>1 DEF PaidInv
      <3>2. QED
        BY <2>2, <3>1 DEF Paid
    <2>5. \A v \in Workers : At(v, {"waiting"})' => At(v, {"waiting"}) /\ job'[v] = job[v]
      BY <2>3 DEF At
    <2>6. \A v \in Workers :
             At(v, Steps)' /\ job'[v].result = "completed" =>
                \/ Paid(job'[v].tx) # {} /\ job'[v].tx \in Txs
                \/ At(v, Steps) /\ job[v].result = "completed" /\ job'[v].tx = job[v].tx
      BY <2>1, <2>2, <2>3, <2>4 DEF At
    <2>7. QED
      BY <2>1, <2>5, <2>6, PaidStep DEF ChainStep
  <1>6. ASSUME NEW w \in Workers, Commit(w) \/ Crash(w)
        PROVE  PaidInv'
    <2>1. UNCHANGED <<nonces, status, announced>> /\ job' = [job EXCEPT ![w] = Idle]
      BY <1>6 DEF Commit, Crash
    <2>2. \A v \in Workers : job'[v] = job[v] \/ job'[v] = Idle
      BY <1>0, <2>1 DEF JobsOK
    <2>3. QED
      BY <2>1, <2>2, PaidStep DEF ChainStep, At, Idle, Steps
  <1>7. ASSUME UNCHANGED <<nonces, job, status, announced>>
        PROVE  PaidInv'
    BY <1>7 DEF PaidInv, CompletedIsPaid, Paid, At
  <1>8. CASE Mine
    <2>1. UNCHANGED <<job, status, announced>>
      BY <1>8 DEF Mine, kafkaVars
    <2>2. CASE Workers = {}
      <3>1. \A t \in Txs : Paid(t) # {} => Paid(t)' # {}
        <4>1. DOMAIN nonces = {}
          BY <1>0, <2>2 DEF Entry
        <4>2. QED
          BY <4>1 DEF Paid
      <3>2. QED
        BY <2>1, <2>2, <3>1 DEF PaidInv, CompletedIsPaid
    <2>3. ASSUME NEW v \in Workers
          PROVE  PaidInv'
      BY <1>8, <2>1, <2>3, PaidStep DEF ChainStep, At
    <2>4. QED
      BY <2>2, <2>3
  <1>9. ASSUME NEW t \in Txs, Expire(t)
        PROVE  UNCHANGED <<nonces, job, status, announced>>
    BY <1>9 DEF Expire, kafkaVars
  <1>10. QED
    BY <1>1, <1>2, <1>3, <1>4, <1>5, <1>6, <1>7, <1>8, <1>9, NextCases DEF vars, kafkaVars

-----------------------------------------------------------------------------
(* What is committed was decided.                                          *)

\* The steps at which a worker will still write a result, and those after it.
Before == Guarded \ {"unlocking"}
After  == {"unlocking", "announcing", "committing"}

On(w, steps, t) == At(w, steps) /\ job[w].tx = t

\* Transfers without a result that nobody will decide, once their message is
\* committed: it is, or is about to be, or a key nobody works under keeps the
\* next worker from executing it.
LeftBehind ==
    {t \in Txs :
        /\ status[t] \notin Results
        /\ \A w \in Workers : ~On(w, Before, t)
        /\ t \in locked \cup committed \/ \E w \in Workers : On(w, After, t)}

\* The faults that can leave a transfer behind.
Losses == faults["crash"] + faults["store"]

LeftInv == IsFiniteSet(LeftBehind) /\ Cardinality(LeftBehind) <= Losses

\* A step that leaves no further transfer behind.
LEMMA LeftKept ==
    ASSUME LeftInv, Losses \in Nat, Losses' \in Nat, Losses <= Losses',
           LeftBehind' \subseteq LeftBehind
    PROVE  LeftInv'
  <1>1. /\ IsFiniteSet(LeftBehind') /\ Cardinality(LeftBehind') <= Cardinality(LeftBehind)
        /\ Cardinality(LeftBehind) \in Nat /\ Cardinality(LeftBehind') \in Nat
    BY FS_Subset, FS_CardinalityType DEF LeftInv
  <1>2. QED
    BY <1>1 DEF LeftInv

\* A fault that may leave one more behind.
LEMMA OneLeftMore ==
    ASSUME LeftInv, Losses \in Nat, Losses' = Losses + 1,
           NEW t, LeftBehind' \subseteq LeftBehind \cup {t}
    PROVE  LeftInv'
  <1>1. IsFiniteSet(LeftBehind) /\ Cardinality(LeftBehind) <= Losses
    BY DEF LeftInv
  <1>2. IsFiniteSet(LeftBehind \cup {t}) /\ Cardinality(LeftBehind) \in Nat
    BY <1>1, FS_AddElement, FS_CardinalityType
  <1>3. /\ t \in LeftBehind => Cardinality(LeftBehind \cup {t}) = Cardinality(LeftBehind)
        /\ t \notin LeftBehind => Cardinality(LeftBehind \cup {t}) = Cardinality(LeftBehind) + 1
    BY <1>1, FS_AddElement
  <1>4. /\ IsFiniteSet(LeftBehind')
        /\ Cardinality(LeftBehind') <= Cardinality(LeftBehind \cup {t})
        /\ Cardinality(LeftBehind') \in Nat
    BY <1>2, FS_Subset, FS_CardinalityType
  <1>5. QED
    BY <1>1, <1>2, <1>3, <1>4 DEF LeftInv

\* The faults that leave something behind are numbers that never go down.
LEMMA LossesGrow ==
    ASSUME TypeOK, [Next]_vars
    PROVE  /\ Losses \in Nat /\ Losses' \in Nat /\ Losses <= Losses'
           /\ Fault("crash") \/ Fault("store") => Losses' = Losses + 1
  <1>1. faults \in [FaultKinds -> Nat]
    BY DEF TypeOK
  <1>2. faults["crash"] \in Nat /\ faults["store"] \in Nat
    BY <1>1 DEF FaultKinds
  <1>3. ASSUME NEW kind \in FaultKinds, Fault(kind)
        PROVE  /\ faults'["crash"] = IF kind = "crash" THEN faults["crash"] + 1 ELSE faults["crash"]
               /\ faults'["store"] = IF kind = "store" THEN faults["store"] + 1 ELSE faults["store"]
    BY <1>1, <1>3 DEF Fault, FaultKinds
  <1>4. Fault("crash") \/ Fault("store") => Losses' = Losses + 1
    BY <1>2, <1>3 DEF Losses, FaultKinds
  <1>5. CASE faults' = faults
    BY <1>2, <1>4, <1>5 DEF Losses
  <1>6. ASSUME NEW kind \in FaultKinds, Fault(kind)
        PROVE  Losses' \in Nat /\ Losses <= Losses'
    BY <1>2, <1>3, <1>6 DEF Losses
  <1>7. QED
    BY <1>2, <1>4, <1>5, <1>6, FaultNext DEF Losses

\* A step of a worker for a transfer can leave that transfer behind, no other.
LEMMA OthersLeft ==
    ASSUME NEW w \in Workers, NEW t \in Txs, job[w].tx = t, At(w, Steps),
           At(w, Steps)' => job'[w].tx = t,
           \A v \in Workers \ {w} : job'[v] = job[v],
           \A x \in Txs \ {t} :
              status'[x] = status[x] /\ (x \in locked' \cup committed' => x \in locked \cup committed)
    PROVE  LeftBehind' \subseteq LeftBehind \cup {t}
  <1>1. Before \subseteq Steps /\ After \subseteq Steps
    BY DEF Before, After, Guarded, Steps
  <1>2. ASSUME NEW x \in Txs \ {t}, NEW v \in Workers
        PROVE  /\ On(v, Before, x)' <=> On(v, Before, x)
               /\ On(v, After, x)' <=> On(v, After, x)
    BY <1>1 DEF On, At
  <1>3. QED
    BY <1>2 DEF LeftBehind

\* Every step keeps LeftInv.
LEMMA LeftNext ==
    ASSUME TypeOK, LeftInv, [Next]_vars
    PROVE  LeftInv'
  <1>0. /\ Losses \in Nat /\ Losses' \in Nat /\ Losses <= Losses'
        /\ Fault("crash") \/ Fault("store") => Losses' = Losses + 1
        /\ JobsOK
    BY LossesGrow DEF TypeOK, JobsOK
  <1>1. ASSUME NEW w \in Workers,
               \/ Lock(w) \/ LockDenied(w) \/ StartProcessing(w) \/ ReadNonce(w)
               \/ SendTransaction(w) \/ SendRejected(w) \/ SendFails(w) \/ WaitMined(w)
               \/ WriteResult(w) \/ Unlock(w) \/ Announce(w) \/ Commit(w) \/ Crash(w)
        PROVE  /\ At(w, Steps) /\ job[w].tx \in Txs
               /\ At(w, Steps)' => job'[w].tx = job[w].tx
               /\ \A v \in Workers \ {w} : job'[v] = job[v]
               /\ LeftBehind' \subseteq LeftBehind \cup {job[w].tx}
    <2>1. At(w, Steps)
      <3>1. CASE Crash(w)
        BY <1>0, <3>1 DEF Crash, JobsOK, Job, At
      <3>2. CASE ~Crash(w)
        BY <1>1, <3>2 DEF Lock, LockDenied, StartProcessing, ReadNonce, SendTransaction,
           SendRejected, SendFails, WaitMined, Receipt, WriteResult, Unlock, Announce, Commit,
           At, Steps
      <3>3. QED
        BY <3>1, <3>2
    <2>2. job[w].tx \in Txs
      BY <1>0, <2>1, BusyJob
    <2>3. \/ \E step \in Steps : Goto(w, step)
          \/ \E step \in Steps, result \in Results : Return(w, step, result)
          \/ AttemptFails(w) \/ ReadNonce(w) \/ job' = [job EXCEPT ![w] = Idle]
      BY <1>1 DEF Lock, LockDenied, StartProcessing, SendTransaction, SendRejected, SendFails,
                  WaitMined, WriteResult, Unlock, Announce, Commit, Crash, Steps, Results
    <2>4. /\ At(w, Steps)' => job'[w].tx = job[w].tx
          /\ \A v \in Workers \ {w} : job'[v] = job[v]
      <3>1. CASE job' = [job EXCEPT ![w] = Idle]
        BY <1>0, <3>1 DEF JobsOK, At, Idle, Steps
      <3>2. CASE job' # [job EXCEPT ![w] = Idle]
        BY <1>0, <2>1, <2>3, <3>2, GotoFacts, ReturnFacts, AttemptFacts, ReadFacts
      <3>3. QED
        BY <3>1, <3>2
    <2>5. /\ status' = status \/ \E s : status' = [status EXCEPT ![job[w].tx] = s]
          /\ locked' \subseteq locked \cup {job[w].tx}
          /\ committed' \subseteq committed \cup {job[w].tx}
      BY <1>1 DEF Lock, LockDenied, StartProcessing, ReadNonce, SendTransaction, SendRejected,
                  SendFails, WaitMined, WriteResult, Unlock, Announce, Commit, Crash, kafkaVars
    <2>6. \A x \in Txs \ {job[w].tx} : status'[x] = status[x]
      BY <2>5 DEF TypeOK
    <2>7. LeftBehind' \subseteq LeftBehind \cup {job[w].tx}
      BY <2>1, <2>2, <2>4, <2>5, <2>6, OthersLeft
    <2>8. QED
      BY <2>1, <2>2, <2>4, <2>7
  <1>2. ASSUME NEW w \in Workers, Lock(w)
        PROVE  job[w].tx \notin LeftBehind'
    <2>1. job'[w].step = "locked" /\ job'[w].tx = job[w].tx
      BY <1>0, <1>1, <1>2, GotoFacts DEF Lock, Steps
    <2>2. QED
      BY <2>1 DEF LeftBehind, On, At, Before, Guarded
  <1>3. ASSUME NEW w \in Workers, LockDenied(w), ~Fault("store")
        PROVE  LeftBehind' \subseteq LeftBehind
    <2>1. /\ At(w, {"fetched"}) /\ job[w].tx \in locked
          /\ UNCHANGED <<status, locked, committed>>
      BY <1>3 DEF LockDenied, kafkaVars
    <2>a. PICK t \in Txs : t = job[w].tx
      BY <1>1, <1>3
    <2>2. \A v \in Workers : On(v, Before, t) => On(v, Before, t)'
      BY <1>1, <1>3, <2>1 DEF On, At, Before, Guarded
    <2>3. job[w].tx \in LeftBehind' => job[w].tx \in LeftBehind
      BY <2>1, <2>a, <2>2 DEF LeftBehind
    <2>4. QED
      BY <1>1, <1>3, <2>3
  <1>4. ASSUME NEW w \in Workers, StartProcessing(w), ~Fault("store")
        PROVE  job[w].tx \notin LeftBehind'
    <2>1. job'[w].step = "trying" /\ job'[w].tx = job[w].tx
      BY <1>0, <1>1, <1>4, GotoFacts DEF StartProcessing, Steps
    <2>2. QED
      BY <2>1 DEF LeftBehind, On, At, Before, Guarded
  <1>5. ASSUME NEW w \in Workers,
               \/ ReadNonce(w) \/ SendTransaction(w) \/ SendRejected(w) \/ SendFails(w)
               \/ WaitMined(w)
        PROVE  job[w].tx \notin LeftBehind'
    <2>1. \/ Goto(w, "waiting") \/ Return(w, "deciding", "completed")
          \/ AttemptFails(w) \/ ReadNonce(w)
      BY <1>5 DEF SendTransaction, SendRejected, SendFails, WaitMined
    <2>2. job'[w].step \in Before /\ job'[w].tx = job[w].tx
      BY <1>0, <1>1, <1>5, <2>1, GotoFacts, ReturnFacts, AttemptFacts, ReadFacts
         DEF Steps, Results, Before, Guarded
    <2>3. QED
      BY <2>2 DEF LeftBehind, On, At
  <1>6. ASSUME NEW w \in Workers, WriteResult(w), ~Fault("store")
        PROVE  job[w].tx \notin LeftBehind'
    <2>1. status' = [status EXCEPT ![job[w].tx] = job[w].result] /\ job[w].result \in Results
      BY <1>0, <1>1, <1>6, BusyJob DEF WriteResult
    <2>2. status'[job[w].tx] \in Results
      BY <1>1, <1>6, <2>1 DEF TypeOK
    <2>3. QED
      BY <2>2 DEF LeftBehind
  <1>7. ASSUME NEW w \in Workers, Unlock(w) \/ Announce(w) \/ Commit(w)
        PROVE  LeftBehind' \subseteq LeftBehind
    <2>1. /\ On(w, After, job[w].tx) /\ ~At(w, Before) /\ status' = status
      BY <1>7 DEF Unlock, Announce, Commit, On, At, After, Before, Guarded, kafkaVars
    <2>a. PICK t \in Txs : t = job[w].tx
      BY <1>1, <1>7
    <2>2. \A v \in Workers : On(v, Before, t) => On(v, Before, t)'
      BY <1>1, <1>7, <2>1 DEF On, At
    <2>3. job[w].tx \in LeftBehind' => job[w].tx \in LeftBehind
      BY <2>1, <2>a, <2>2 DEF LeftBehind
    <2>4. QED
      BY <1>1, <1>7, <2>3
  <1>8. ASSUME NEW w \in Workers,
               \/ Crash(w)
               \/ (LockDenied(w) \/ StartProcessing(w) \/ WriteResult(w)) /\ Fault("store")
        PROVE  LeftInv'
    BY <1>0, <1>1, <1>8, OneLeftMore DEF Crash
  <1>9. ASSUME NEW w \in Workers, NEW t \in Txs, Fetch(w, t)
        PROVE  LeftBehind' \subseteq LeftBehind
    <2>1. /\ UNCHANGED <<status, locked, committed>>
          /\ \A v \in Workers \ {w} : job'[v] = job[v]
          /\ job[w] = Idle /\ job'[w].step = "fetched"
      BY <1>0, <1>9 DEF Fetch, JobsOK
    <2>2. \A v \in Workers, x \in Txs :
             (On(v, Before, x) => On(v, Before, x)') /\ (On(v, After, x)' => On(v, After, x))
      BY <2>1 DEF On, At, Before, After, Guarded, Idle
    <2>3. QED
      BY <2>1, <2>2 DEF LeftBehind
  <1>10. ASSUME UNCHANGED <<job, status, committed>>, locked' \subseteq locked
         PROVE  LeftBehind' \subseteq LeftBehind
    BY <1>10 DEF LeftBehind, On, At
  <1>11. ASSUME \/ \E w \in Workers, t \in Txs : Rebalance(t, w)
                \/ \E t \in Txs : Expire(t)
                \/ Mine \/ UNCHANGED vars
         PROVE  UNCHANGED <<job, status, committed>> /\ locked' \subseteq locked
    BY <1>11 DEF Rebalance, Expire, Mine, vars, kafkaVars
  <1>12. LeftBehind' \subseteq LeftBehind => LeftInv'
    BY <1>0, LeftKept
  <1>13. ASSUME NEW w \in Workers,
                \/ Lock(w) \/ LockDenied(w) \/ StartProcessing(w) \/ ReadNonce(w)
                \/ SendTransaction(w) \/ SendRejected(w) \/ SendFails(w) \/ WaitMined(w)
                \/ WriteResult(w) \/ Unlock(w) \/ Announce(w) \/ Commit(w) \/ Crash(w)
         PROVE  LeftInv'
    <2>1. job[w].tx \notin LeftBehind' => LeftBehind' \subseteq LeftBehind
      BY <1>1, <1>13
    <2>2. QED
      BY <1>2, <1>3, <1>4, <1>5, <1>6, <1>7, <1>8, <1>12, <1>13, <2>1
  <1>14. QED
    BY <1>9, <1>10, <1>11, <1>12, <1>13, NextCases

\* What is announced or recorded as completed was paid on chain, and what is
\* committed was decided, but for one transfer per crash and per failed write,
\* for any number of workers, retries, expiries and partitions that move
\* (engine.go, Process; consumer.go, Start).
THEOREM AnswersAreTrue == Spec => []AnswersTrue
  <1>1. Init => PaidInv
    BY DEF Init, PaidInv, CompletedIsPaid, At, Steps, Idle
  <1>2. Init => LeftInv
    <2>1. Init => LeftBehind = {} /\ Losses = 0
      BY DEF Init, LeftBehind, On, At, After, Idle, Losses, FaultKinds
    <2>2. QED
      BY <2>1, FS_EmptySet DEF LeftInv
  <1>3. TypeOK /\ PaidInv /\ LeftInv /\ [Next]_vars => (PaidInv /\ LeftInv)'
    BY PaidNext, LeftNext
  <1>4. TypeOK /\ PaidInv /\ LeftInv => AnswersTrue
    <2>1. ASSUME TypeOK, LeftInv
          PROVE  CommittedIsDecided
      <3>1. PICK S : S = {t \in committed : status[t] \notin Results /\ Executing(t) = {}}
        OBVIOUS
      <3>2. S \subseteq LeftBehind
        BY <2>1, <3>1 DEF LeftBehind, Executing, On, At, Before, TypeOK
      <3>3. /\ Cardinality(S) <= Cardinality(LeftBehind)
            /\ Cardinality(S) \in Nat /\ Cardinality(LeftBehind) \in Nat
        BY <2>1, <3>2, FS_Subset, FS_CardinalityType DEF LeftInv
      <3>4. Losses \in Nat
        BY <2>1 DEF TypeOK, Losses, FaultKinds
      <3>5. QED
        BY <2>1, <3>1, <3>3, <3>4 DEF LeftInv, CommittedIsDecided, Losses
    <2>2. QED
      BY <2>1 DEF PaidInv, AnswersTrue
  <1>5. QED
    BY <1>1, <1>2, <1>3, <1>4, TypeCorrect, PTL DEF Spec

-----------------------------------------------------------------------------
(* A transfer is paid once.                                                *)

\* The entries that pay transfer t, or may come to.
Live(t) == {n \in DOMAIN nonces : nonces[n].tx = t /\ nonces[n].fate # "reverted"}

\* The workers that may still send t: before the sending, or waiting for a
\* transaction of their own that was reverted.
Sending(w, t) ==
    /\ job[w].tx = t
    /\ \/ At(w, {"fetched", "locked", "trying", "signed"})
       \/ /\ At(w, {"waiting"})
          /\ nonces[job[w].nonce].by = w /\ nonces[job[w].nonce].fate = "reverted"

Senders(t) == {w \in Workers : At(w, Steps) /\ Sending(w, t)}

\* The message is to be delivered, for the first time or again.
Due(t) == IF t \in taken \cup committed THEN 0 ELSE 1

\* Every further chance to pay t came with a fault.
Chances == 1 + faults["lost"] + faults["crash"] + faults["rebalance"]

OnceInv == \A t \in Txs : Cardinality(Live(t)) + Cardinality(Senders(t)) + Due(t) <= Chances

\* How a finite set grows and shrinks.
LEMMA CountSteps ==
    ASSUME NEW S, IsFiniteSet(S), NEW T, NEW x
    PROVE  /\ Cardinality(S) \in Nat
           /\ T \subseteq S => Cardinality(T) \in Nat /\ Cardinality(T) <= Cardinality(S)
           /\ T \subseteq S \cup {x} =>
                 Cardinality(T) \in Nat /\ Cardinality(T) <= Cardinality(S) + 1
           /\ T \subseteq S \ {x} /\ x \in S =>
                 Cardinality(T) \in Nat /\ Cardinality(T) + 1 <= Cardinality(S)
  <1>1. Cardinality(S) \in Nat
    BY FS_CardinalityType
  <1>2. ASSUME T \subseteq S
        PROVE  Cardinality(T) \in Nat /\ Cardinality(T) <= Cardinality(S)
    BY <1>2, FS_Subset, FS_CardinalityType
  <1>3. ASSUME T \subseteq S \cup {x}
        PROVE  Cardinality(T) \in Nat /\ Cardinality(T) <= Cardinality(S) + 1
    <2>1. IsFiniteSet(S \cup {x})
      BY FS_AddElement
    <2>2. /\ x \in S => Cardinality(S \cup {x}) = Cardinality(S)
          /\ x \notin S => Cardinality(S \cup {x}) = Cardinality(S) + 1
      BY FS_AddElement
    <2>3. Cardinality(T) \in Nat /\ Cardinality(T) <= Cardinality(S \cup {x})
      BY <1>3, <2>1, FS_Subset, FS_CardinalityType
    <2>4. QED
      BY <1>1, <2>2, <2>3
  <1>4. ASSUME T \subseteq S \ {x}, x \in S
        PROVE  Cardinality(T) \in Nat /\ Cardinality(T) + 1 <= Cardinality(S)
    <2>1. IsFiniteSet(S \ {x}) /\ Cardinality(S \ {x}) = Cardinality(S) - 1
      BY <1>4, FS_RemoveElement
    <2>2. Cardinality(T) \in Nat /\ Cardinality(T) <= Cardinality(S \ {x})
      BY <1>4, <2>1, FS_Subset, FS_CardinalityType
    <2>3. QED
      BY <1>1, <2>1, <2>2
  <1>5. QED
    BY <1>1, <1>2, <1>3, <1>4

\* Entries and workers can be counted.
LEMMA Countable ==
    ASSUME nonces \in Seq(Entry), NEW t
    PROVE  IsFiniteSet(Live(t)) /\ IsFiniteSet(Senders(t))
  <1>1. Live(t) \subseteq 1..Len(nonces) /\ Len(nonces) \in Nat
    BY DEF Live
  <1>2. IsFiniteSet(1..Len(nonces))
    BY <1>1, FS_Interval
  <1>3. QED
    BY <1>1, <1>2, BoundsAssumption, FS_Subset DEF Senders

\* The chances are a number that never goes down and rises with each fault of
\* these kinds.
LEMMA ChancesGrow ==
    ASSUME TypeOK, [Next]_vars
    PROVE  /\ Chances \in Nat /\ Chances' \in Nat /\ Chances <= Chances'
           /\ Fault("lost") \/ Fault("crash") \/ Fault("rebalance") => Chances' = Chances + 1
  <1>1. faults \in [FaultKinds -> Nat]
    BY DEF TypeOK
  <1>2. faults["lost"] \in Nat /\ faults["crash"] \in Nat /\ faults["rebalance"] \in Nat
    BY <1>1 DEF FaultKinds
  <1>3. ASSUME NEW kind \in FaultKinds, Fault(kind)
        PROVE  \A k \in FaultKinds : faults'[k] = IF k = kind THEN faults[k] + 1 ELSE faults[k]
    BY <1>1, <1>3 DEF Fault
  <1>4. Fault("lost") \/ Fault("crash") \/ Fault("rebalance") => Chances' = Chances + 1
    BY <1>2, <1>3 DEF Chances, FaultKinds
  <1>5. CASE faults' = faults
    BY <1>2, <1>4, <1>5 DEF Chances
  <1>6. ASSUME NEW kind \in FaultKinds, Fault(kind)
        PROVE  Chances' \in Nat /\ Chances <= Chances'
    <2>1. /\ faults'["lost"] \in {faults["lost"], faults["lost"] + 1}
          /\ faults'["crash"] \in {faults["crash"], faults["crash"] + 1}
          /\ faults'["rebalance"] \in {faults["rebalance"], faults["rebalance"] + 1}
      BY <1>3, <1>6 DEF FaultKinds
    <2>2. QED
      BY <1>2, <2>1 DEF Chances
  <1>7. QED
    BY <1>2, <1>4, <1>5, <1>6, FaultNext DEF Chances

\* A step of worker w that sends nothing.
LEMMA NothingSent ==
    ASSUME TypeOK, NEW w \in Workers, NEW t \in Txs, UNCHANGED nonces,
           \A v \in Workers \ {w} : job'[v] = job[v],
           w \in Senders(t)' => w \in Senders(t)
    PROVE  Live(t)' \subseteq Live(t) /\ Senders(t)' \subseteq Senders(t)
  BY DEF Live, Senders, Sending, At

\* The node takes the transaction of w: one entry more for its transfer, and
\* nobody else may send more than before.
LEMMA AcceptLive ==
    ASSUME TypeOK, NEW w \in Workers, NEW t \in Txs, At(w, {"signed"}), Accept(w),
           \A v \in Workers \ {w} : job'[v] = job[v]
    PROVE  /\ Live(t)' \subseteq Live(t) \cup (IF job[w].tx = t THEN {job[w].nonce} ELSE {})
           /\ Senders(t)' \ {w} \subseteq Senders(t)
  <1>1. PICK n, entry : /\ n = job[w].nonce
                        /\ entry = [tx |-> job[w].tx, by |-> w, fate |-> "pool"]
    OBVIOUS
  <1>2. \/ n = Len(nonces) + 1 /\ nonces' = Append(nonces, entry)
        \/ n \in DOMAIN nonces /\ nonces[n].fate = "pool" /\ nonces' = [nonces EXCEPT ![n] = entry]
    BY <1>1 DEF Accept
  <1>3. /\ DOMAIN nonces' = DOMAIN nonces \cup {n} /\ nonces'[n] = entry
        /\ \A m \in DOMAIN nonces \ {n} : nonces'[m] = nonces[m]
    <2>1. nonces \in Seq(Entry)
      BY DEF TypeOK
    <2>2. CASE n = Len(nonces) + 1 /\ nonces' = Append(nonces, entry)
      BY <2>1, <2>2
    <2>3. CASE n \in DOMAIN nonces /\ nonces' = [nonces EXCEPT ![n] = entry]
      BY <2>1, <2>3
    <2>4. QED
      BY <1>2, <2>2, <2>3
  <1>4. Live(t)' \subseteq Live(t) \cup (IF job[w].tx = t THEN {n} ELSE {})
    BY <1>1, <1>3 DEF Live
  <1>5. ASSUME NEW v \in Workers \ {w}, v \in Senders(t)'
        PROVE  v \in Senders(t)
    <2>1. At(v, {"waiting"}) => job[v].nonce \in DOMAIN nonces
      BY DEF TypeOK
    <2>2. nonces'[n].fate = "pool"
      BY <1>1, <1>3
    <2>3. QED
      BY <1>3, <1>5, <2>1, <2>2 DEF Senders, Sending, At
  <1>6. Senders(t)' \ {w} \subseteq Senders(t)
    BY <1>5 DEF Senders
  <1>7. QED
    BY <1>1, <1>4, <1>6

\* Every step keeps OnceInv.
LEMMA OnceNext ==
    ASSUME TypeOK, PaidInv, OnceInv, [Next]_vars
    PROVE  OnceInv'
  <1> SUFFICES ASSUME NEW t \in Txs
               PROVE  Cardinality(Live(t)') + Cardinality(Senders(t)') + Due(t)' <= Chances'
    BY DEF OnceInv
  <1>0. JobsOK /\ nonces \in Seq(Entry) /\ TypeOK' /\ nonces' \in Seq(Entry)
    BY TypeNext DEF TypeOK, JobsOK
  <1>a. /\ Chances \in Nat /\ Chances' \in Nat /\ Chances <= Chances'
        /\ Fault("lost") \/ Fault("crash") \/ Fault("rebalance") => Chances' = Chances + 1
    BY ChancesGrow
  <1>b. /\ IsFiniteSet(Live(t)) /\ IsFiniteSet(Senders(t))
        /\ Cardinality(Live(t)) \in Nat /\ Cardinality(Senders(t)) \in Nat
    BY <1>0, Countable, CountSteps
  <1>c. /\ Due(t) \in {0, 1} /\ Due(t)' \in {0, 1}
        /\ Cardinality(Live(t)) + Cardinality(Senders(t)) + Due(t) <= Chances
    BY DEF Due, OnceInv
  <1>d. ASSUME Live(t)' \subseteq Live(t), Senders(t)' \subseteq Senders(t),
               Due(t)' <= Due(t) \/ Chances' = Chances + 1
        PROVE  Cardinality(Live(t)') + Cardinality(Senders(t)') + Due(t)' <= Chances'
    <2>1. /\ Cardinality(Live(t)') \in Nat /\ Cardinality(Senders(t)') \in Nat
          /\ Cardinality(Live(t)') <= Cardinality(Live(t))
          /\ Cardinality(Senders(t)') <= Cardinality(Senders(t))
      BY <1>b, <1>d, CountSteps
    <2>2. QED
      BY <1>a, <1>b, <1>c, <1>d, <2>1
  <1>1. ASSUME NEW w \in Workers, NEW x \in Txs, Fetch(w, x)
        PROVE  Cardinality(Live(t)') + Cardinality(Senders(t)') + Due(t)' <= Chances'
    <2>1. /\ UNCHANGED <<nonces, committed>> /\ taken' = taken \cup {x} /\ x \notin taken \cup committed
          /\ \A v \in Workers \ {w} : job'[v] = job[v]
          /\ job'[w].tx = x
      BY <1>0, <1>1 DEF Fetch, JobsOK
    <2>2. CASE x # t
      BY <1>d, <2>1, <2>2, NothingSent DEF Senders, Sending, Due
    <2>3. CASE x = t
      <3>1. Due(t) = 1 /\ Due(t)' = 0
        BY <2>1, <2>3 DEF Due
      <3>2. Live(t)' \subseteq Live(t) /\ Senders(t)' \subseteq Senders(t) \cup {w}
        BY <2>1 DEF Live, Senders, Sending, At
      <3>3. /\ Cardinality(Live(t)') \in Nat /\ Cardinality(Senders(t)') \in Nat
            /\ Cardinality(Live(t)') <= Cardinality(Live(t))
            /\ Cardinality(Senders(t)') <= Cardinality(Senders(t)) + 1
        BY <1>b, <3>2, CountSteps
      <3>4. QED
        BY <1>a, <1>b, <1>c, <3>1, <3>3
    <2>4. QED
      BY <2>2, <2>3
  <1>2. ASSUME NEW w \in Workers,
               \/ Lock(w) \/ LockDenied(w) \/ StartProcessing(w) \/ ReadNonce(w)
               \/ SendRejected(w) \/ (SendFails(w) /\ UNCHANGED nonces)
               \/ WriteResult(w) \/ Unlock(w) \/ Announce(w) \/ Commit(w)
        PROVE  Cardinality(Live(t)') + Cardinality(Senders(t)') + Due(t)' <= Chances'
    <2>1. UNCHANGED <<nonces, taken>> /\ committed \subseteq committed'
      BY <1>2 DEF Lock, LockDenied, StartProcessing, ReadNonce, SendRejected, SendFails,
                  WriteResult, Unlock, Announce, Commit, kafkaVars
    <2>2. Due(t)' <= Due(t)
      BY <2>1 DEF Due
    <2>3. At(w, Steps \ {"waiting"}) /\ At(w, Steps)
      BY <1>2 DEF Lock, LockDenied, StartProcessing, ReadNonce, SendRejected, SendFails,
                  WriteResult, Unlock, Announce, Commit, At, Steps
    <2>4. CASE At(w, {"fetched", "locked", "trying", "signed"})
      <3>1. \/ \E step \in Steps \ {"waiting"} : Goto(w, step) \/ Return(w, step, "failed")
            \/ AttemptFails(w) \/ ReadNonce(w)
        BY <1>2, <2>4 DEF Lock, LockDenied, StartProcessing, SendRejected, SendFails,
                    WriteResult, Unlock, Announce, Commit, At, Steps
      <3>2. job'[w].tx = job[w].tx /\ \A v \in Workers \ {w} : job'[v] = job[v]
        BY <1>0, <2>3, <3>1, GotoFacts, ReturnFacts, AttemptFacts, ReadFacts DEF Results
      <3>3. w \in Senders(t)' => w \in Senders(t)
        BY <2>3, <2>4, <3>2 DEF Senders, Sending
      <3>4. QED
        BY <1>d, <2>1, <2>2, <3>2, <3>3, NothingSent
    <2>5. CASE WriteResult(w) \/ Unlock(w) \/ Announce(w)
      <3>1. \E step \in {"unlocking", "announcing", "committing"} : Goto(w, step)
        BY <2>5 DEF WriteResult, Unlock, Announce
      <3>2. /\ job'[w].step \in {"unlocking", "announcing", "committing"}
            /\ \A v \in Workers \ {w} : job'[v] = job[v]
        BY <1>0, <2>3, <3>1, GotoFacts DEF Steps
      <3>3. w \notin Senders(t)'
        BY <3>2 DEF Senders, Sending, At
      <3>4. QED
        BY <1>d, <2>1, <2>2, <3>2, <3>3, NothingSent
    <2>6. CASE Commit(w)
      <3>1. job'[w] = Idle /\ \A v \in Workers \ {w} : job'[v] = job[v]
        BY <1>0, <2>6 DEF Commit, JobsOK
      <3>2. w \notin Senders(t)'
        BY <3>1 DEF Senders, At, Idle, Steps
      <3>3. QED
        BY <1>d, <2>1, <2>2, <3>1, <3>2, NothingSent
    <2>7. QED
      BY <1>2, <2>4, <2>5, <2>6 DEF Lock, LockDenied, StartProcessing, ReadNonce,
         SendRejected, SendFails, At
  <1>3. ASSUME NEW w \in Workers, WaitMined(w)
        PROVE  Cardinality(Live(t)') + Cardinality(Senders(t)') + Due(t)' <= Chances'
    <2>1. /\ At(w, {"waiting"}) /\ At(w, Steps) /\ nonces[job[w].nonce].by = w
          /\ nonces[job[w].nonce].fate # "pool" /\ UNCHANGED <<nonces, taken, committed>>
      BY <1>3 DEF WaitMined, Receipt, At, Steps, kafkaVars
    <2>2. job[w].nonce \in DOMAIN nonces /\ nonces[job[w].nonce] \in Entry
      BY <1>0, <2>1 DEF TypeOK
    <2>3. CASE nonces[job[w].nonce].fate = "ok"
      <3>1. job'[w].step = "deciding" /\ \A v \in Workers \ {w} : job'[v] = job[v]
        BY <1>0, <1>3, <2>1, <2>3, ReturnFacts DEF WaitMined, Steps, Results
      <3>2. w \notin Senders(t)'
        BY <3>1 DEF Senders, Sending, At
      <3>3. QED
        BY <1>c, <1>d, <2>1, <3>1, <3>2, NothingSent DEF Due
    <2>4. CASE nonces[job[w].nonce].fate # "ok"
      <3>1. nonces[job[w].nonce].fate = "reverted"
        BY <2>1, <2>2, <2>4 DEF Entry, Fates
      <3>2. job'[w].tx = job[w].tx /\ \A v \in Workers \ {w} : job'[v] = job[v]
        BY <1>0, <1>3, <2>1, <2>4, AttemptFacts DEF WaitMined
      <3>3. w \in Senders(t)' => w \in Senders(t)
        BY <2>1, <3>1, <3>2 DEF Senders, Sending
      <3>4. QED
        BY <1>c, <1>d, <2>1, <3>2, <3>3, NothingSent DEF Due
    <2>5. QED
      BY <2>3, <2>4
  <1>4. ASSUME NEW w \in Workers, SendTransaction(w)
        PROVE  Cardinality(Live(t)') + Cardinality(Senders(t)') + Due(t)' <= Chances'
    <2>1. /\ At(w, {"signed"}) /\ At(w, Steps) /\ Accept(w) /\ Goto(w, "waiting")
          /\ UNCHANGED <<taken, committed>>
      BY <1>4 DEF SendTransaction, At, Steps, kafkaVars
    <2>2. /\ job'[w].step = "waiting" /\ job'[w].nonce = job[w].nonce
          /\ \A v \in Workers \ {w} : job'[v] = job[v]
      BY <1>0, <2>1, GotoFacts DEF Steps
    <2>3. nonces'[job[w].nonce].fate = "pool"
      <3>1. PICK n, entry : /\ n = job[w].nonce /\ entry.fate = "pool"
                            /\ entry = [tx |-> job[w].tx, by |-> w, fate |-> "pool"]
        OBVIOUS
      <3>2. \/ n = Len(nonces) + 1 /\ nonces' = Append(nonces, entry)
            \/ n \in DOMAIN nonces /\ nonces' = [nonces EXCEPT ![n] = entry]
        BY <2>1, <3>1 DEF Accept
      <3>3. QED
        BY <1>0, <3>1, <3>2
    <2>4. w \notin Senders(t)'
      BY <2>2, <2>3 DEF Senders, Sending, At
    <2>5. /\ Live(t)' \subseteq Live(t) \cup (IF job[w].tx = t THEN {job[w].nonce} ELSE {})
          /\ Senders(t)' \subseteq Senders(t) \ {w}
      BY <2>1, <2>2, <2>4, AcceptLive
    <2>6. CASE job[w].tx # t
      BY <1>c, <1>d, <2>1, <2>5, <2>6 DEF Due
    <2>7. CASE job[w].tx = t
      <3>1. w \in Senders(t)
        BY <2>1, <2>7 DEF Senders, Sending, At
      <3>2. /\ Cardinality(Live(t)') \in Nat /\ Cardinality(Senders(t)') \in Nat
            /\ Cardinality(Live(t)') <= Cardinality(Live(t)) + 1
            /\ Cardinality(Senders(t)') + 1 <= Cardinality(Senders(t))
        BY <1>b, <2>5, <2>7, <3>1, CountSteps
      <3>3. Due(t)' = Due(t)
        BY <2>1 DEF Due
      <3>4. QED
        BY <1>a, <1>b, <1>c, <3>2, <3>3
    <2>8. QED
      BY <2>6, <2>7
  <1>5. ASSUME NEW w \in Workers, SendFails(w), ~UNCHANGED nonces
        PROVE  Cardinality(Live(t)') + Cardinality(Senders(t)') + Due(t)' <= Chances'
    <2>1. /\ At(w, {"signed"}) /\ At(w, Steps) /\ Accept(w) /\ Fault("lost") /\ AttemptFails(w)
          /\ UNCHANGED <<taken, committed>>
      BY <1>5 DEF SendFails, At, Steps, kafkaVars
    <2>2. job'[w].tx = job[w].tx /\ \A v \in Workers \ {w} : job'[v] = job[v]
      BY <1>0, <2>1, AttemptFacts
    <2>3. w \in Senders(t)' => w \in Senders(t)
      BY <2>1, <2>2 DEF Senders, Sending, At
    <2>4. /\ Live(t)' \subseteq Live(t) \cup {job[w].nonce}
          /\ Senders(t)' \subseteq Senders(t)
      BY <2>1, <2>2, <2>3, AcceptLive
    <2>5. /\ Cardinality(Live(t)') \in Nat /\ Cardinality(Senders(t)') \in Nat
          /\ Cardinality(Live(t)') <= Cardinality(Live(t)) + 1
          /\ Cardinality(Senders(t)') <= Cardinality(Senders(t))
      BY <1>b, <2>4, CountSteps
    <2>6. Due(t)' = Due(t)
      BY <2>1 DEF Due
    <2>7. QED
      BY <1>a, <1>b, <1>c, <2>1, <2>5, <2>6
  <1>6. CASE Mine
    <2>1. PICK n \in DOMAIN nonces, fate \in {"ok", "reverted"} :
             nonces[n].fate = "pool" /\ nonces' = [nonces EXCEPT ![n].fate = fate]
      BY <1>6 DEF Mine
    <2>2. UNCHANGED <<job, taken, committed>>
      BY <1>6 DEF Mine, kafkaVars
    <2>3. nonces[n] \in Entry
      BY <1>0, <2>1
    <2>4. /\ DOMAIN nonces' = DOMAIN nonces /\ nonces'[n].tx = nonces[n].tx
          /\ nonces'[n].by = nonces[n].by /\ nonces'[n].fate = fate
          /\ \A m \in DOMAIN nonces \ {n} : nonces'[m] = nonces[m]
      BY <1>0, <2>1, <2>3 DEF Entry
    <2>5. \A w \in Workers : At(w, {"waiting"}) => job[w].nonce \in DOMAIN nonces
      BY DEF TypeOK
    <2>6. \A w \in Workers : w \in Senders(t)' =>
             \/ w \in Senders(t)
             \/ At(w, {"waiting"}) /\ job[w].nonce = n /\ nonces[n].by = w
                /\ fate = "reverted" /\ job[w].tx = t
      BY <2>2, <2>4, <2>5 DEF Senders, Sending, At
    <2>7. Due(t)' = Due(t)
      BY <2>2 DEF Due
    <2>8. Live(t)' \subseteq Live(t)
      BY <2>1, <2>4 DEF Live
    <2>9. CASE nonces[n].tx = t /\ fate = "reverted"
      <3>1. n \in Live(t) /\ Live(t)' \subseteq Live(t) \ {n}
        BY <2>1, <2>4, <2>8, <2>9 DEF Live
      <3>2. Senders(t)' \subseteq Senders(t) \cup {nonces[n].by}
        BY <2>6 DEF Senders
      <3>3. /\ Cardinality(Live(t)') \in Nat /\ Cardinality(Senders(t)') \in Nat
            /\ Cardinality(Live(t)') + 1 <= Cardinality(Live(t))
            /\ Cardinality(Senders(t)') <= Cardinality(Senders(t)) + 1
        BY <1>b, <3>1, <3>2, CountSteps
      <3>4. QED
        BY <1>a, <1>b, <1>c, <2>7, <3>3
    <2>10. CASE ~(nonces[n].tx = t /\ fate = "reverted")
      <3>1. Senders(t)' \subseteq Senders(t)
        BY <2>6, <2>10 DEF PaidInv, Senders
      <3>2. QED
        BY <1>c, <1>d, <2>7, <2>8, <3>1
    <2>11. QED
      BY <2>9, <2>10
  <1>7. ASSUME NEW w \in Workers, Crash(w)
        PROVE  Cardinality(Live(t)') + Cardinality(Senders(t)') + Due(t)' <= Chances'
    <2>1. /\ UNCHANGED nonces /\ Fault("crash") /\ job'[w] = Idle
          /\ \A v \in Workers \ {w} : job'[v] = job[v]
      BY <1>0, <1>7 DEF Crash, JobsOK
    <2>2. w \notin Senders(t)'
      BY <2>1 DEF Senders, At, Idle, Steps
    <2>3. QED
      BY <1>a, <1>d, <2>1, <2>2, NothingSent
  <1>8. ASSUME NEW w \in Workers, NEW x \in Txs, Rebalance(x, w)
        PROVE  Cardinality(Live(t)') + Cardinality(Senders(t)') + Due(t)' <= Chances'
    <2>1. UNCHANGED <<nonces, job>> /\ Fault("rebalance")
      BY <1>8 DEF Rebalance
    <2>2. QED
      BY <1>a, <1>d, <2>1 DEF Live, Senders, Sending, At
  <1>9. ASSUME UNCHANGED <<nonces, job, taken, committed>>
        PROVE  Cardinality(Live(t)') + Cardinality(Senders(t)') + Due(t)' <= Chances'
    BY <1>c, <1>d, <1>9 DEF Live, Senders, Sending, At, Due
  <1>10. ASSUME NEW x \in Txs, Expire(x)
         PROVE  UNCHANGED <<nonces, job, taken, committed>>
    BY <1>10 DEF Expire, kafkaVars
  <1>11. QED
    BY <1>1, <1>2, <1>3, <1>4, <1>5, <1>6, <1>7, <1>8, <1>9, <1>10, NextCases
       DEF vars, kafkaVars

\* A transfer is paid once, and once more at most for each answer of the node
\* that was lost, each crash and each partition that moved, for any number of
\* workers and retries: reverts, refused calls, replaced transactions, expired
\* locks and failed writes pay nothing twice (engine.go, Process and
\* executeOnChain).
THEOREM TransfersPaidOnce == Spec => []PaidOnce
  <1>1. Init => PaidInv
    BY DEF Init, PaidInv, CompletedIsPaid, At, Steps, Idle
  <1>2. Init => OnceInv
    <2>1. SUFFICES ASSUME Init, NEW t \in Txs
                   PROVE  Cardinality(Live(t)) + Cardinality(Senders(t)) + Due(t) <= Chances
      BY DEF OnceInv
    <2>2. Live(t) = {} /\ Senders(t) = {} /\ Due(t) = 1 /\ Chances = 1
      BY <2>1 DEF Init, Live, Senders, At, Idle, Steps, Due, Chances, FaultKinds
    <2>3. QED
      BY <2>2, FS_EmptySet
  <1>3. TypeOK /\ PaidInv /\ OnceInv /\ [Next]_vars => (PaidInv /\ OnceInv)'
    BY PaidNext, OnceNext
  <1>4. TypeOK /\ OnceInv => PaidOnce
    <2>1. SUFFICES ASSUME TypeOK, OnceInv, NEW t \in Txs
                   PROVE  Cardinality(Paid(t))
                            <= 1 + faults["lost"] + faults["crash"] + faults["rebalance"]
      BY DEF PaidOnce
    <2>2. Paid(t) \subseteq Live(t) /\ IsFiniteSet(Live(t)) /\ IsFiniteSet(Senders(t))
      BY <2>1, Countable DEF Paid, Live, TypeOK
    <2>3. /\ Cardinality(Paid(t)) \in Nat /\ Cardinality(Live(t)) \in Nat
          /\ Cardinality(Senders(t)) \in Nat
          /\ Cardinality(Paid(t)) <= Cardinality(Live(t))
      BY <2>2, CountSteps
    <2>4. Chances \in Nat /\ Due(t) \in Nat
      BY <2>1 DEF TypeOK, Chances, FaultKinds, Due
    <2>5. QED
      BY <2>1, <2>3, <2>4 DEF OnceInv, Chances
  <1>5. QED
    BY <1>1, <1>2, <1>3, <1>4, TypeCorrect, PTL DEF Spec

=============================================================================
