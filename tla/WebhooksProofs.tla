--------------------------- MODULE WebhooksProofs ---------------------------
(***************************************************************************)
(* Proofs about the webhooks for every set of events and handlers, every   *)
(* amount and every number of faults and repeated deliveries.              *)
(***************************************************************************)
EXTENDS WebhooksProperties, FiniteSetTheorems, TLAPS

\* Every step is a step of one handler with one event, a crash, or a step of
\* the environment.
LEMMA NextCases ==
    ASSUME Next
    PROVE  \/ \E h \in Handlers, e \in Events :
              \/ Reserve(h, e) \/ Check(h, e) \/ Duplicate(h, e)
              \/ LookUp(h, e) \/ LookUpFails(h, e) \/ ReadBalance(h, e)
              \/ Transact(h, e) \/ TransactRefused(h, e)
              \/ Complete(h, e) \/ Release(h, e)
              \/ ReserveFails(h, e) \/ TransactFails(h, e)
              \/ CompleteFails(h, e) \/ ReleaseFails(h, e)
           \/ \E h \in Handlers : Crash(h)
           \/ \E e \in Events : LinkWallet(e) \/ Mine(e)
  BY DEF Next, Deliver, Serve, Fail

-----------------------------------------------------------------------------
(* Type correctness.                                                       *)

\* The initial state is well typed.
LEMMA TypeInit == Init => TypeOK
  BY EventsAssumption, FaultsAssumption DEF Init, TypeOK, Job

\* The part of TypeOK that is about faults.
FaultsBounded ==
    /\ faults \in [FaultKinds -> Nat]
    /\ \A kind \in FaultKinds : faults[kind] <= MaxFaults[kind]

\* A fault is counted within the bound of its kind.
LEMMA FaultCount ==
    ASSUME FaultsBounded,
           faults' = faults \/ \E kind \in FaultKinds : Fault(kind)
    PROVE  FaultsBounded'
  <1>1. CASE faults' = faults
    BY <1>1 DEF FaultsBounded
  <1>2. ASSUME NEW kind \in FaultKinds, Fault(kind)
        PROVE  FaultsBounded'
    <2>1. /\ faults' = [faults EXCEPT ![kind] = faults[kind] + 1]
          /\ faults[kind] < MaxFaults[kind]
      BY <1>2 DEF Fault
    <2>2. MaxFaults[kind] \in Nat /\ faults[kind] \in Nat
      BY FaultsAssumption DEF FaultsBounded
    <2>3. faults' \in [FaultKinds -> Nat]
      BY <2>1, <2>2 DEF FaultsBounded
    <2>4. \A k \in FaultKinds : faults'[k] <= MaxFaults[k]
      BY <2>1, <2>2 DEF FaultsBounded
    <2>5. QED
      BY <2>3, <2>4 DEF FaultsBounded
  <1>3. QED
    BY <1>1, <1>2

\* A step counts at most one fault.
LEMMA FaultNext ==
    ASSUME [Next]_vars
    PROVE  faults' = faults \/ \E kind \in FaultKinds : Fault(kind)
  <1>1. ASSUME NEW h \in Handlers, NEW e \in Events,
               \/ ReserveFails(h, e) \/ TransactFails(h, e)
               \/ CompleteFails(h, e) \/ ReleaseFails(h, e)
        PROVE  \E kind \in FaultKinds : Fault(kind)
    BY <1>1, Zenon DEF ReserveFails, TransactFails, CompleteFails, ReleaseFails, FaultKinds
  <1>2. ASSUME NEW h \in Handlers, Crash(h)
        PROVE  \E kind \in FaultKinds : Fault(kind)
    BY <1>2, Zenon DEF Crash, FaultKinds
  <1>3. ASSUME NEW h \in Handlers, NEW e \in Events,
               \/ Reserve(h, e) \/ Check(h, e) \/ Duplicate(h, e)
               \/ LookUp(h, e) \/ LookUpFails(h, e) \/ ReadBalance(h, e)
               \/ Transact(h, e) \/ TransactRefused(h, e)
               \/ Complete(h, e) \/ Release(h, e)
        PROVE  faults' = faults
    BY <1>3 DEF Reserve, Check, Duplicate, LookUp, LookUpFails, ReadBalance, Transact,
                TransactRefused, Complete, Release, boundVars
  <1>4. ASSUME NEW e \in Events, LinkWallet(e) \/ Mine(e)
        PROVE  faults' = faults
    BY <1>4 DEF LinkWallet, Mine, boundVars
  <1>5. CASE UNCHANGED vars
    BY <1>5 DEF vars, boundVars
  <1>6. QED
    BY <1>1, <1>2, <1>3, <1>4, <1>5, NextCases

\* A handler that moves on or leaves has a well-typed job.
LEMMA HandlerType ==
    ASSUME handler \in [Handlers -> Job], NEW h \in Handlers, NEW e \in Events,
           \/ \E step \in Steps : Goto(h, step, e)
           \/ Leave(h)
    PROVE  handler' \in [Handlers -> Job]
  BY DEF Goto, Leave, Job

\* Every step keeps the state well typed.
LEMMA TypeNext == TypeOK /\ [Next]_vars => TypeOK'
  <1> SUFFICES ASSUME TypeOK, [Next]_vars PROVE TypeOK'
    OBVIOUS
  <1>0. FaultsBounded'
    BY FaultCount, FaultNext DEF TypeOK, FaultsBounded
  <1> USE DEF TypeOK
  <1>1. ASSUME NEW h \in Handlers, NEW e \in Events, Reserve(h, e) \/ Check(h, e)
        PROVE  TypeOK'
    <2>1. handler' \in [Handlers -> Job]
      BY <1>1, HandlerType DEF Reserve, Check, Steps
    <2>2. repeats' \in 0..MaxRepeats
      BY <1>1, FaultsAssumption DEF Reserve, Check, Delivered
    <2>3. marker' \in [Events -> {"absent", "processing", "done"}]
      BY <1>1 DEF Reserve, Check, Mark
    <2>4. QED
      BY <1>1, <2>1, <2>2, <2>3 DEF Reserve, Check, chainVars
  <1>2. ASSUME NEW h \in Handlers, NEW e \in Events, Duplicate(h, e) \/ ReserveFails(h, e)
        PROVE  TypeOK'
    <2>1. repeats' \in 0..MaxRepeats
      BY <1>2, FaultsAssumption DEF Duplicate, ReserveFails, Delivered
    <2>2. marker' \in [Events -> {"absent", "processing", "done"}]
      BY <1>2 DEF Duplicate, ReserveFails, Mark
    <2>3. QED
      BY <1>0, <1>2, <2>1, <2>2 DEF FaultsBounded, Duplicate, ReserveFails, Ack, chainVars
  <1>3. ASSUME NEW h \in Handlers, NEW e \in Events,
               LookUp(h, e) \/ LookUpFails(h, e) \/ ReadBalance(h, e)
        PROVE  TypeOK'
    <2>1. handler' \in [Handlers -> Job]
      BY <1>3, HandlerType DEF LookUp, LookUpFails, ReadBalance, Steps
    <2>2. acked' \subseteq Events
      BY <1>3 DEF LookUp, LookUpFails, ReadBalance, Ack
    <2>3. QED
      BY <1>3, <2>1, <2>2 DEF LookUp, LookUpFails, ReadBalance, chainVars, boundVars
  <1>4. ASSUME NEW h \in Handlers, NEW e \in Events,
               Transact(h, e) \/ TransactRefused(h, e) \/ TransactFails(h, e)
        PROVE  TypeOK'
    <2>1. handler' \in [Handlers -> Job]
      BY <1>4, HandlerType DEF Transact, TransactRefused, TransactFails, AfterThrow, Steps
    <2>2. pool' \in [Events -> Nat]
      BY <1>4 DEF Transact, TransactRefused, TransactFails, Send, chainVars
    <2>3. QED
      BY <1>0, <1>4, <2>1, <2>2 DEF FaultsBounded, Transact, TransactRefused, TransactFails, chainVars, boundVars
  <1>5. ASSUME NEW h \in Handlers, NEW e \in Events, Complete(h, e) \/ CompleteFails(h, e)
        PROVE  TypeOK'
    <2>1. handler' \in [Handlers -> Job]
      BY <1>5, HandlerType DEF Complete, CompleteFails, Steps
    <2>2. marker' \in [Events -> {"absent", "processing", "done"}]
      BY <1>5 DEF Complete, CompleteFails, Mark
    <2>3. QED
      BY <1>0, <1>5, <2>1, <2>2 DEF FaultsBounded, Complete, CompleteFails, Ack, chainVars, boundVars
  <1>6. ASSUME NEW h \in Handlers, NEW e \in Events, Release(h, e) \/ ReleaseFails(h, e)
        PROVE  TypeOK'
    <2>1. handler' \in [Handlers -> Job]
      BY <1>6, HandlerType DEF Release, ReleaseFails
    <2>2. marker' \in [Events -> {"absent", "processing", "done"}]
      BY <1>6 DEF Release, ReleaseFails, Mark
    <2>3. QED
      BY <1>0, <1>6, <2>1, <2>2 DEF FaultsBounded, Release, ReleaseFails, Ack, chainVars, boundVars
  <1>7. ASSUME NEW h \in Handlers, Crash(h)
        PROVE  TypeOK'
    <2>1. handler' \in [Handlers -> Job]
      BY <1>7 DEF Crash, Leave, Job
    <2>2. QED
      BY <1>0, <1>7, <2>1 DEF FaultsBounded, Crash, chainVars
  <1>8. ASSUME NEW e \in Events, Mine(e)
        PROVE  TypeOK'
    <2>1. pool' \in [Events -> Nat]
      BY <1>8 DEF Mine
    <2>2. mined' \in [Events -> Nat] /\ reverted' \in [Events -> Nat]
      BY <1>8 DEF Mine
    <2>3. coins' \in Nat
      <3>1. Amount[e] \in Nat
        BY EventsAssumption
      <3>2. CASE coins' = coins
        BY <3>2
      <3>3. CASE Burns(e) /\ coins >= Amount[e] /\ coins' = coins - Amount[e]
        BY <3>1, <3>3
      <3>4. CASE coins' = coins + Amount[e]
        BY <3>1, <3>4
      <3>5. QED
        BY <1>8, <3>2, <3>3, <3>4, Zenon DEF Mine
    <2>4. QED
      BY <1>8, <2>1, <2>2, <2>3 DEF Mine, boundVars
  <1>9. ASSUME NEW e \in Events, LinkWallet(e)
        PROVE  TypeOK'
    BY <1>9 DEF LinkWallet, chainVars, boundVars
  <1>10. CASE UNCHANGED vars
    BY <1>10 DEF vars, chainVars, boundVars
  <1>11. QED
    BY <1>1, <1>2, <1>3, <1>4, <1>5, <1>6, <1>7, <1>8, <1>9, <1>10, NextCases

\* Every variable keeps its type: in particular the user's token balance never
\* goes below zero, whatever the routes send to the chain.
THEOREM TypeCorrect == Spec => []TypeOK
  BY TypeInit, TypeNext, PTL DEF Spec

-----------------------------------------------------------------------------
(* The claimed kinds are applied once.                                     *)

Once == {e \in Events : Claimed(e)}

Holds(h, e) == At(h, Steps, e)

\* The steps before the event is sent, and those that give it back.
Unsent == Steps \ {"sent"}

\* The reservation of an event belongs to one handler, and one more sending than
\* mishaps needs the reservation: it is used up when the event is sent.
OnceInv ==
    /\ \A h \in Handlers, e \in Once : Holds(h, e) => marker[e] # "absent"
    /\ \A h, g \in Handlers, e \in Once : Holds(h, e) /\ Holds(g, e) => h = g
    /\ \A h \in Handlers, e \in Once : At(h, Unsent, e) => Sent(e) <= Mishaps(e)
    /\ \A e \in Once : Sent(e) <= 1 + Mishaps(e)
    /\ \A e \in Once : marker[e] = "absent" => Sent(e) <= Mishaps(e)

\* Nothing is reserved and nothing was sent at the start.
LEMMA OnceInit == Init => OnceInv
  BY FaultsAssumption DEF Init, OnceInv, Holds, At, Unsent, Steps, Idle, Sent, Once,
                       Mishaps, Kind, Claimed, FaultKinds

MishapsGrow ==
    \A e \in Events : Mishaps(e) \in Nat /\ Mishaps(e)' \in Nat /\ Mishaps(e) <= Mishaps(e)'

\* The count of the mishaps of an event never goes down.
LEMMA MishapsNext ==
    ASSUME TypeOK, [Next]_vars
    PROVE  MishapsGrow
  <1>1. TypeOK'
    BY TypeNext
  <1>2. \A kind \in FaultKinds : faults[kind] \in Nat /\ faults'[kind] \in Nat
    BY <1>1 DEF TypeOK
  <1>3. faults' = faults \/ \E kind \in FaultKinds : Fault(kind)
    BY FaultNext
  <1>4. \A kind \in FaultKinds : faults[kind] <= faults'[kind]
    <2>1. CASE faults' = faults
      BY <1>2, <2>1
    <2>2. ASSUME NEW k \in FaultKinds, Fault(k)
          PROVE  \A kind \in FaultKinds : faults[kind] <= faults'[kind]
      <3>1. faults' = [faults EXCEPT ![k] = faults[k] + 1]
        BY <2>2 DEF Fault
      <3>2. faults \in [FaultKinds -> Nat]
        BY DEF TypeOK
      <3>3. QED
        BY <3>1, <3>2
    <2>3. QED
      BY <1>3, <2>1, <2>2
  <1>5. QED
    BY <1>2, <1>4 DEF MishapsGrow, Mishaps, FaultKinds, Kind, Claimed

\* How often an event was sent is a number.
LEMMA SentType ==
    ASSUME TypeOK, NEW e \in Events
    PROVE  Sent(e) \in Nat
  BY DEF TypeOK, Sent

\* A call to the chain that throws is a mishap of every event.
LEMMA RpcMishap ==
    ASSUME TypeOK, Fault("rpc"), NEW e \in Events
    PROVE  Mishaps(e)' = Mishaps(e) + 1
  <1>1. faults' = [faults EXCEPT !["rpc"] = faults["rpc"] + 1]
    BY DEF Fault
  <1>2. \A kind \in FaultKinds : faults[kind] \in Nat
    BY DEF TypeOK
  <1>3. /\ faults'["rpc"] = faults["rpc"] + 1
        /\ faults'["store"] = faults["store"] /\ faults'["crash"] = faults["crash"]
    BY <1>1 DEF TypeOK, FaultKinds
  <1>4. QED
    BY <1>2, <1>3 DEF Mishaps, Kind, Claimed, FaultKinds

\* A write that fails is one of a reversal and of the checked kinds.
LEMMA StoreMishap ==
    ASSUME TypeOK, Fault("store"), NEW e \in Events, Kind(e) = "reversal" \/ ~Claimed(e)
    PROVE  Mishaps(e)' = Mishaps(e) + 1
  <1>1. faults' = [faults EXCEPT !["store"] = faults["store"] + 1]
    BY DEF Fault
  <1>2. \A kind \in FaultKinds : faults[kind] \in Nat
    BY DEF TypeOK
  <1>3. /\ faults'["store"] = faults["store"] + 1
        /\ faults'["rpc"] = faults["rpc"] /\ faults'["crash"] = faults["crash"]
    BY <1>1 DEF TypeOK, FaultKinds
  <1>4. QED
    BY <1>2, <1>3 DEF Mishaps, Kind, Claimed, FaultKinds

\* A crash is one of the checked kinds.
LEMMA CrashMishap ==
    ASSUME TypeOK, Fault("crash"), NEW e \in Events, ~Claimed(e)
    PROVE  Mishaps(e)' = Mishaps(e) + 1
  <1>1. faults' = [faults EXCEPT !["crash"] = faults["crash"] + 1]
    BY DEF Fault
  <1>2. \A kind \in FaultKinds : faults[kind] \in Nat
    BY DEF TypeOK
  <1>3. /\ faults'["crash"] = faults["crash"] + 1
        /\ faults'["rpc"] = faults["rpc"] /\ faults'["store"] = faults["store"]
    BY <1>1 DEF TypeOK, FaultKinds
  <1>4. QED
    BY <1>2, <1>3 DEF Mishaps, Kind, Claimed, FaultKinds

\* Reserving: the event was free, and h is its only holder.
LEMMA ReserveOnce ==
    ASSUME TypeOK, OnceInv, MishapsGrow, NEW h \in Handlers, NEW e \in Events, Reserve(h, e)
    PROVE  OnceInv'
  <1>1. /\ handler' = [handler EXCEPT ![h] = [step |-> "claimed", event |-> e]]
        /\ marker' = [marker EXCEPT ![e] = "processing"]
        /\ handler[h] = Idle /\ marker[e] = "absent"
        /\ UNCHANGED <<pool, mined, reverted>>
    BY DEF Reserve, Delivered, Goto, Mark, chainVars
  <1>2. e \in Once => (\A g \in Handlers : ~Holds(g, e)) /\ Sent(e) <= Mishaps(e)
    BY <1>1 DEF OnceInv
  <1>3. \A x \in Once : Sent(x) \in Nat /\ Sent(x)' = Sent(x)
    BY <1>1, SentType DEF Sent, Once
  <1>a. handler'[h].event = e /\ \A g \in Handlers \ {h} : handler'[g] = handler[g]
    BY <1>1 DEF TypeOK
  <1>4. \A g \in Handlers, x \in Once : Holds(g, x)' => Holds(g, x) \/ (g = h /\ x = e)
    BY <1>a DEF Holds, At
  <1>5. \A g \in Handlers, x \in Once :
           At(g, Unsent, x)' => At(g, Unsent, x) \/ (g = h /\ x = e)
    BY <1>a DEF At
  <1>6. \A g \in Handlers, x \in Once : Holds(g, x)' => marker'[x] # "absent"
    BY <1>1, <1>4 DEF TypeOK, OnceInv, Once
  <1>7. \A g1, g2 \in Handlers, x \in Once : Holds(g1, x)' /\ Holds(g2, x)' => g1 = g2
    BY <1>2, <1>4 DEF OnceInv
  <1>8. \A g \in Handlers, x \in Once : At(g, Unsent, x)' => Sent(x)' <= Mishaps(x)'
    BY <1>2, <1>3, <1>5 DEF OnceInv, MishapsGrow, Once
  <1>9. \A x \in Once : Sent(x)' <= 1 + Mishaps(x)'
    BY <1>3 DEF OnceInv, MishapsGrow, Once
  <1>10. \A x \in Once : marker'[x] = "absent" => Sent(x)' <= Mishaps(x)'
    BY <1>1, <1>3 DEF OnceInv, TypeOK, MishapsGrow, Once
  <1>11. QED
    BY <1>6, <1>7, <1>8, <1>9, <1>10 DEF OnceInv

\* A step that brings no handler to an event it did not hold, nor back to a
\* step before the sending, and sends nothing.
LEMMA QuietOnce ==
    ASSUME TypeOK, OnceInv, MishapsGrow,
           UNCHANGED <<pool, mined, reverted>>,
           \A h \in Handlers, x \in Once :
              Holds(h, x)' => Holds(h, x) /\ marker'[x] = marker[x],
           \A h \in Handlers, x \in Once : At(h, Unsent, x)' => At(h, Unsent, x),
           \A x \in Once : marker'[x] = "absent" => Sent(x) <= Mishaps(x)
    PROVE  OnceInv'
  <1>1. \A x \in Once : Sent(x) \in Nat /\ Sent(x)' = Sent(x)
    BY SentType DEF Sent, Once
  <1>2. \A h \in Handlers, x \in Once : Holds(h, x)' => marker'[x] # "absent"
    BY DEF OnceInv
  <1>3. \A h, g \in Handlers, x \in Once : Holds(h, x)' /\ Holds(g, x)' => h = g
    BY DEF OnceInv
  <1>4. \A h \in Handlers, x \in Once : At(h, Unsent, x)' => Sent(x)' <= Mishaps(x)'
    BY <1>1 DEF OnceInv, MishapsGrow, Once
  <1>5. \A x \in Once : /\ Sent(x)' <= 1 + Mishaps(x)'
                        /\ marker'[x] = "absent" => Sent(x)' <= Mishaps(x)'
    BY <1>1 DEF OnceInv, MishapsGrow, Once
  <1>6. QED
    BY <1>2, <1>3, <1>4, <1>5 DEF OnceInv

\* A handler that moves on without sending anything.
LEMMA MoveOnce ==
    ASSUME TypeOK, OnceInv, MishapsGrow, NEW h \in Handlers, NEW e \in Events,
           NEW step \in Steps, Goto(h, step, e),
           e \in Once => At(h, Unsent, e) /\ step # "sent",
           e \notin Once => handler[h] = Idle \/ Holds(h, e),
           UNCHANGED <<pool, mined, reverted>>,
           \A x \in Once : marker'[x] = marker[x]
    PROVE  OnceInv'
  <1>1. handler' = [handler EXCEPT ![h] = [step |-> step, event |-> e]]
    BY DEF Goto
  <1>2. \A g \in Handlers, x \in Once : Holds(g, x)' => Holds(g, x)
    BY <1>1 DEF TypeOK, Holds, At, Unsent, Steps, Idle, Once
  <1>3. \A g \in Handlers, x \in Once : At(g, Unsent, x)' => At(g, Unsent, x)
    BY <1>1 DEF TypeOK, At
  <1>4. \A x \in Once : marker'[x] = "absent" => Sent(x) <= Mishaps(x)
    BY DEF OnceInv
  <1>5. QED
    BY <1>2, <1>3, <1>4, QuietOnce

\* A handler that ends, having written the marker of its event or not.
LEMMA LeaveOnce ==
    ASSUME TypeOK, OnceInv, MishapsGrow, NEW h \in Handlers, NEW e \in Events, Leave(h),
           Holds(h, e), UNCHANGED <<pool, mined, reverted>>,
           \A x \in Once \ {e} : marker'[x] = marker[x],
           e \in Once /\ marker'[e] = "absent" => Sent(e) <= Mishaps(e)
    PROVE  OnceInv'
  <1>1. handler' = [handler EXCEPT ![h] = Idle]
    BY DEF Leave
  <1>2. \A g \in Handlers, x \in Once : Holds(g, x)' => Holds(g, x) /\ g # h
    BY <1>1 DEF TypeOK, Holds, At, Steps, Idle
  <1>3. \A g \in Handlers, x \in Once : Holds(g, x)' => x # e
    BY <1>2 DEF OnceInv
  <1>4. \A g \in Handlers, x \in Once : At(g, Unsent, x)' => At(g, Unsent, x)
    BY <1>1 DEF TypeOK, At, Unsent, Steps, Idle
  <1>5. \A x \in Once : marker'[x] = "absent" => Sent(x) <= Mishaps(x)
    BY DEF OnceInv
  <1>6. QED
    BY <1>2, <1>3, <1>4, <1>5, QuietOnce

\* A step that leaves the handlers alone and writes only absent markers.
LEMMA StayOnce ==
    ASSUME OnceInv, MishapsGrow, UNCHANGED handler,
           \A x \in Once : Sent(x) \in Nat /\ Sent(x)' = Sent(x),
           \A x \in Once : marker'[x] # marker[x] => marker[x] = "absent"
    PROVE  OnceInv'
  <1>1. \A h \in Handlers, x \in Once :
           /\ Holds(h, x)' <=> Holds(h, x)
           /\ At(h, Unsent, x)' <=> At(h, Unsent, x)
    BY DEF Holds, At
  <1>2. \A h \in Handlers, x \in Once : Holds(h, x)' => marker'[x] # "absent"
    BY <1>1 DEF OnceInv
  <1>3. \A h, g \in Handlers, x \in Once : Holds(h, x)' /\ Holds(g, x)' => h = g
    BY <1>1 DEF OnceInv
  <1>4. \A h \in Handlers, x \in Once : At(h, Unsent, x)' => Sent(x)' <= Mishaps(x)'
    BY <1>1 DEF OnceInv, MishapsGrow, Once
  <1>5. \A x \in Once : /\ Sent(x)' <= 1 + Mishaps(x)'
                        /\ marker'[x] = "absent" => Sent(x)' <= Mishaps(x)'
    BY DEF OnceInv, MishapsGrow, Once
  <1>6. QED
    BY <1>2, <1>3, <1>4, <1>5 DEF OnceInv

\* h, which held e before the sending, sends it or not and moves on.  For an
\* event of Once that h sends, more calls than before have thrown, or h is at
\* "sent".
LEMMA SendOnce ==
    ASSUME TypeOK, OnceInv, MishapsGrow, NEW h \in Handlers, NEW e \in Events,
           NEW step \in Steps, Goto(h, step, e), At(h, Unsent, e), Send(e),
           UNCHANGED <<marker, mined, reverted>>,
           e \in Once => step = "sent" \/ Mishaps(e)' = Mishaps(e) + 1
    PROVE  OnceInv'
  <1>1. /\ handler' = [handler EXCEPT ![h] = [step |-> step, event |-> e]]
        /\ pool' = [pool EXCEPT ![e] = pool[e] + 1]
    BY DEF Goto, Send
  <1>2. \A x \in Once : Sent(x) \in Nat
    BY SentType DEF Once
  <1>3. \A x \in Once : Sent(x)' = IF x = e THEN Sent(x) + 1 ELSE Sent(x)
    <2>1. \A x \in Once : pool[x] \in Nat /\ mined[x] \in Nat /\ reverted[x] \in Nat
      BY DEF TypeOK, Once
    <2>2. \A x \in Once : pool'[x] = IF x = e THEN pool[x] + 1 ELSE pool[x]
      BY <1>1 DEF TypeOK, Once
    <2>3. ASSUME NEW x \in Once
          PROVE  Sent(x)' = IF x = e THEN Sent(x) + 1 ELSE Sent(x)
      <3>1. Sent(x)' = pool'[x] + mined[x] + reverted[x]
        BY DEF Sent
      <3>2. Sent(x) = pool[x] + mined[x] + reverted[x]
        BY DEF Sent
      <3>3. /\ pool[x] \in Nat /\ mined[x] \in Nat /\ reverted[x] \in Nat
            /\ pool'[x] = IF x = e THEN pool[x] + 1 ELSE pool[x]
        BY <2>1, <2>2
      <3>4. CASE x = e
        BY <3>1, <3>2, <3>3, <3>4
      <3>5. CASE x # e
        BY <3>1, <3>2, <3>3, <3>5
      <3>6. QED
        BY <3>4, <3>5
    <2>4. QED
      BY <2>3
  <1>4. \A g \in Handlers, x \in Once : Holds(g, x)' <=> Holds(g, x)
    BY <1>1 DEF TypeOK, Holds, At, Unsent, Steps
  <1>5. \A g \in Handlers, x \in Once :
           At(g, Unsent, x)' => At(g, Unsent, x) /\ (x = e => g = h /\ step # "sent")
    <2>1. \A g \in Handlers, x \in Once : At(g, Unsent, x)' => Holds(g, x)'
      BY DEF At, Holds, Unsent
    <2>2. \A g \in Handlers : Holds(g, e) /\ e \in Once => g = h
      BY DEF OnceInv, Holds, At, Unsent
    <2>3. At(h, Unsent, e)' => step # "sent"
      BY <1>1 DEF At, TypeOK, Unsent
    <2>4. \A g \in Handlers, x \in Once : At(g, Unsent, x)' => At(g, Unsent, x)
      BY <1>1 DEF At, TypeOK
    <2>5. QED
      BY <1>4, <2>1, <2>2, <2>3, <2>4
  <1>6. e \in Once => Sent(e) <= Mishaps(e) /\ marker[e] # "absent"
    BY DEF OnceInv, Holds, At, Unsent
  <1>7. \A x \in Once : Sent(x)' <= 1 + Mishaps(x)'
    BY <1>2, <1>3, <1>6 DEF OnceInv, MishapsGrow, Once
  <1>8. \A g \in Handlers, x \in Once : At(g, Unsent, x)' => Sent(x)' <= Mishaps(x)'
    <2>1. SUFFICES ASSUME NEW g \in Handlers, NEW x \in Once, At(g, Unsent, x)'
                   PROVE  Sent(x)' <= Mishaps(x)'
      OBVIOUS
    <2>2. CASE x = e
      BY <1>2, <1>3, <1>5, <1>6, <2>1, <2>2 DEF MishapsGrow, Once
    <2>3. CASE x # e
      BY <1>2, <1>3, <1>5, <2>1, <2>3 DEF OnceInv, MishapsGrow, Once
    <2>4. QED
      BY <2>2, <2>3
  <1>9. \A x \in Once : marker'[x] = "absent" => Sent(x)' <= Mishaps(x)'
    BY <1>2, <1>3, <1>6 DEF OnceInv, MishapsGrow, Once
  <1>10. QED
    BY <1>4, <1>7, <1>8, <1>9 DEF OnceInv

\* Sending: only the holder of the event, before it was sent, can do it.
LEMMA TransactOnce ==
    ASSUME TypeOK, OnceInv, MishapsGrow, NEW h \in Handlers, NEW e \in Events, Transact(h, e)
    PROVE  OnceInv'
  <1>1. At(h, Unsent, e)
    BY DEF Transact, Ready, At, Unsent, Steps
  <1>2. QED
    BY <1>1, SendOnce DEF Transact, Steps

\* A call that throws releases the event, whether it sent or not.
LEMMA TransactFailsOnce ==
    ASSUME TypeOK, OnceInv, MishapsGrow, NEW h \in Handlers, NEW e \in Events,
           TransactFails(h, e)
    PROVE  OnceInv'
  <1>1. At(h, Unsent, e) /\ UNCHANGED <<marker, mined, reverted>>
    BY DEF TransactFails, Ready, At, Unsent, Steps
  <1>2. Holds(h, e)
    BY <1>1 DEF Holds, At, Unsent
  <1>3. Mishaps(e)' = Mishaps(e) + 1
    BY RpcMishap DEF TransactFails
  <1>4. \/ Leave(h) /\ e \notin Once
        \/ Goto(h, "releasing", e)
        \/ Goto(h, "sent", e) /\ e \notin Once
    BY DEF TransactFails, AfterThrow, Once, Kind, Claimed, ClaimedKinds
  <1>5. CASE UNCHANGED pool
    BY <1>1, <1>2, <1>4, <1>5, MoveOnce, LeaveOnce DEF Steps
  <1>6. CASE Send(e) /\ (Goto(h, "releasing", e) \/ (Goto(h, "sent", e) /\ e \notin Once))
    BY <1>1, <1>3, <1>4, <1>6, SendOnce DEF Steps
  <1>7. CASE Send(e) /\ Leave(h) /\ e \notin Once
    <2>1. \A x \in Once : Sent(x)' = Sent(x)
      BY <1>1, <1>7 DEF Send, Sent, TypeOK, Once
    <2>2. \A g \in Handlers, x \in Once :
             /\ Holds(g, x)' => Holds(g, x)
             /\ At(g, Unsent, x)' => At(g, Unsent, x)
      BY <1>7 DEF Leave, TypeOK, Holds, At, Unsent, Steps, Idle
    <2>3. \A x \in Once : Sent(x) \in Nat
      BY SentType DEF Once
    <2>4. \A g \in Handlers, x \in Once : Holds(g, x)' => marker'[x] # "absent"
      BY <1>1, <2>2 DEF OnceInv
    <2>5. \A g1, g2 \in Handlers, x \in Once : Holds(g1, x)' /\ Holds(g2, x)' => g1 = g2
      BY <2>2 DEF OnceInv
    <2>6. \A g \in Handlers, x \in Once : At(g, Unsent, x)' => Sent(x)' <= Mishaps(x)'
      BY <2>1, <2>2, <2>3 DEF OnceInv, MishapsGrow, Once
    <2>7. \A x \in Once : /\ Sent(x)' <= 1 + Mishaps(x)'
                          /\ marker'[x] = "absent" => Sent(x)' <= Mishaps(x)'
      BY <1>1, <2>1, <2>3 DEF OnceInv, MishapsGrow, Once
    <2>8. QED
      BY <2>4, <2>5, <2>6, <2>7 DEF OnceInv
  <1>8. UNCHANGED pool \/ Send(e)
    BY DEF TransactFails
  <1>9. QED
    BY <1>4, <1>5, <1>6, <1>7, <1>8

\* The marker of a reversal cannot be written: the event is given back although
\* it was sent, and one more sending is accounted for.
LEMMA ReversalOnce ==
    ASSUME TypeOK, OnceInv, MishapsGrow, NEW h \in Handlers, NEW e \in Events,
           At(h, {"sent"}, e), Goto(h, "releasing", e), Kind(e) = "reversal",
           Mishaps(e)' = Mishaps(e) + 1, UNCHANGED <<pool, mined, reverted>>,
           marker'[e] # "absent", \A x \in Once \ {e} : marker'[x] = marker[x]
    PROVE  OnceInv'
  <1>1. handler' = [handler EXCEPT ![h] = [step |-> "releasing", event |-> e]]
    BY DEF Goto
  <1>2. Holds(h, e)
    BY DEF Holds, At, Steps
  <1>3. \A g \in Handlers, x \in Once : Holds(g, x)' => Holds(g, x)
    BY <1>1, <1>2 DEF TypeOK, Holds, At
  <1>4. \A g \in Handlers, x \in Once : At(g, Unsent, x)' => At(g, Unsent, x) \/ x = e
    BY <1>1 DEF TypeOK, At
  <1>5. \A x \in Once : Sent(x) \in Nat /\ Sent(x)' = Sent(x)
    BY SentType DEF Sent, Once
  <1>6. \A g \in Handlers, x \in Once : Holds(g, x)' => marker'[x] # "absent"
    BY <1>3 DEF OnceInv
  <1>7. \A g1, g2 \in Handlers, x \in Once : Holds(g1, x)' /\ Holds(g2, x)' => g1 = g2
    BY <1>3 DEF OnceInv
  <1>8. \A g \in Handlers, x \in Once : At(g, Unsent, x)' => Sent(x)' <= Mishaps(x)'
    <2>1. SUFFICES ASSUME NEW g \in Handlers, NEW x \in Once, At(g, Unsent, x)'
                   PROVE  Sent(x)' <= Mishaps(x)'
      OBVIOUS
    <2>2. Mishaps(x) \in Nat /\ Mishaps(x)' \in Nat /\ Mishaps(x) <= Mishaps(x)'
      BY DEF MishapsGrow, Once
    <2>3. CASE x = e
      BY <1>5, <2>2, <2>3 DEF OnceInv
    <2>4. CASE x # e
      BY <1>4, <1>5, <2>1, <2>2, <2>4 DEF OnceInv
    <2>5. QED
      BY <2>3, <2>4
  <1>9. \A x \in Once : /\ Sent(x)' <= 1 + Mishaps(x)'
                        /\ marker'[x] = "absent" => Sent(x)' <= Mishaps(x)'
    BY <1>5 DEF OnceInv, MishapsGrow, Once
  <1>10. QED
    BY <1>6, <1>7, <1>8, <1>9 DEF OnceInv

\* Every step keeps OnceInv.
LEMMA OnceNext ==
    ASSUME TypeOK, OnceInv, [Next]_vars
    PROVE  OnceInv'
  <1>0. MishapsGrow
    BY MishapsNext
  <1>a. \A x \in Once : Sent(x) \in Nat
    BY SentType DEF Once
  <1>1. ASSUME NEW h \in Handlers, NEW e \in Events, Check(h, e)
        PROVE  OnceInv'
    <2>1. e \notin Once
      BY <1>1 DEF Check, Claimed, Once, Kind, ClaimedKinds
    <2>2. QED
      BY <1>0, <1>1, <2>1, MoveOnce DEF Check, Delivered, Steps, chainVars
  <1>2. ASSUME NEW h \in Handlers, NEW e \in Events, Duplicate(h, e) \/ ReserveFails(h, e)
        PROVE  OnceInv'
    <2>1. \A x \in Once : Sent(x)' = Sent(x)
      BY <1>2 DEF Duplicate, ReserveFails, Sent, chainVars
    <2>2. \A x \in Once : marker'[x] # marker[x] => marker[x] = "absent"
      BY <1>2 DEF Duplicate, ReserveFails, Mark, TypeOK, Once
    <2>3. QED
      BY <1>0, <1>a, <1>2, <2>1, <2>2, StayOnce DEF Duplicate, ReserveFails
  <1>3. ASSUME NEW h \in Handlers, NEW e \in Events,
               LookUp(h, e) \/ LookUpFails(h, e) \/ ReadBalance(h, e) \/ TransactRefused(h, e)
        PROVE  OnceInv'
    <2>1. At(h, Unsent, e) /\ UNCHANGED <<marker, pool, mined, reverted>>
      BY <1>3 DEF LookUp, LookUpFails, ReadBalance, TransactRefused, Ready, At, Unsent,
                  Steps, chainVars
    <2>2. Holds(h, e)
      BY <2>1 DEF Holds, At, Unsent
    <2>3. \/ Leave(h) /\ e \notin Once
          \/ \E step \in Steps : Goto(h, step, e) /\ (e \in Once => step # "sent")
      BY <1>3 DEF LookUp, LookUpFails, ReadBalance, TransactRefused, AfterThrow, Steps,
                  Once, Kind, Claimed, ClaimedKinds
    <2>4. QED
      BY <1>0, <2>1, <2>2, <2>3, MoveOnce, LeaveOnce
  <1>4. ASSUME NEW h \in Handlers, NEW e \in Events, Complete(h, e)
        PROVE  OnceInv'
    <2>1. Holds(h, e) /\ marker' = [marker EXCEPT ![e] = "done"]
      BY <1>4 DEF Complete, Finishing, Holds, At, Steps, Mark
    <2>2. QED
      BY <1>0, <1>4, <2>1, LeaveOnce DEF Complete, chainVars, TypeOK, Once
  <1>5. ASSUME NEW h \in Handlers, NEW e \in Events, CompleteFails(h, e)
        PROVE  OnceInv'
    <2>1. Holds(h, e) /\ (marker' = marker \/ marker' = [marker EXCEPT ![e] = "done"])
      BY <1>5 DEF CompleteFails, Finishing, Holds, At, Steps, Mark
    <2>2. UNCHANGED <<pool, mined, reverted>>
      BY <1>5 DEF CompleteFails, chainVars
    <2>3. \A x \in Once \ {e} : marker'[x] = marker[x]
      BY <2>1 DEF TypeOK, Once
    <2>4. CASE Kind(e) = "reversal"
      <3>1. /\ At(h, {"sent"}, e) /\ Goto(h, "releasing", e)
            /\ Mishaps(e)' = Mishaps(e) + 1
        BY <1>5, <2>4, StoreMishap DEF CompleteFails, Finishing, NoteKinds
      <3>2. e \in Once
        BY <2>4 DEF Once, Kind, Claimed, ClaimedKinds
      <3>3. marker'[e] # "absent"
        BY <2>1, <3>2 DEF OnceInv, TypeOK
      <3>4. QED
        BY <1>0, <2>2, <2>3, <2>4, <3>1, <3>3, ReversalOnce
    <2>5. CASE Kind(e) # "reversal"
      <3>1. Leave(h)
        BY <1>5, <2>5 DEF CompleteFails
      <3>2. e \in Once => marker'[e] # "absent"
        BY <2>1 DEF OnceInv, TypeOK
      <3>3. QED
        BY <1>0, <2>1, <2>2, <2>3, <3>1, <3>2, LeaveOnce
    <2>6. QED
      BY <2>4, <2>5
  <1>6. ASSUME NEW h \in Handlers, NEW e \in Events, Release(h, e) \/ ReleaseFails(h, e)
        PROVE  OnceInv'
    <2>1. At(h, Unsent, e) /\ Leave(h) /\ UNCHANGED <<pool, mined, reverted>>
      BY <1>6 DEF Release, ReleaseFails, At, Unsent, Steps, chainVars
    <2>2. Holds(h, e) /\ (e \in Once => Sent(e) <= Mishaps(e))
      BY <2>1 DEF OnceInv, Holds, At, Unsent
    <2>3. \A x \in Once \ {e} : marker'[x] = marker[x]
      BY <1>6 DEF Release, ReleaseFails, Mark, TypeOK, Once
    <2>4. QED
      BY <1>0, <2>1, <2>2, <2>3, LeaveOnce
  <1>7. ASSUME NEW h \in Handlers, Crash(h)
        PROVE  OnceInv'
    <2>1. PICK e \in Events : Holds(h, e)
      BY <1>7 DEF Crash, TypeOK, Job, Holds, At
    <2>2. QED
      BY <1>0, <1>7, <2>1, LeaveOnce DEF Crash, chainVars, OnceInv
  <1>8. ASSUME NEW e \in Events, Mine(e)
        PROVE  OnceInv'
    <2>1. \A x \in Events : pool[x] \in Nat /\ mined[x] \in Nat /\ reverted[x] \in Nat
      BY DEF TypeOK
    <2>2. /\ pool' = [pool EXCEPT ![e] = @ - 1]
          /\ \/ reverted' = [reverted EXCEPT ![e] = @ + 1] /\ mined' = mined
             \/ mined' = [mined EXCEPT ![e] = @ + 1] /\ reverted' = reverted
      BY <1>8 DEF Mine
    <2>3. \A x \in Once : Sent(x)' = Sent(x)
      BY <2>1, <2>2 DEF Sent, TypeOK, Once
    <2>4. QED
      BY <1>0, <1>a, <1>8, <2>3, StayOnce DEF Mine
  <1>9. ASSUME NEW e \in Events, LinkWallet(e)
        PROVE  OnceInv'
    BY <1>0, <1>a, <1>9, StayOnce DEF LinkWallet, Sent, chainVars
  <1>10. CASE UNCHANGED vars
    BY <1>0, <1>a, <1>10, StayOnce DEF vars, Sent, chainVars
  <1>11. QED
    BY <1>0, <1>1, <1>2, <1>3, <1>4, <1>5, <1>6, <1>7, <1>8, <1>9, <1>10,
       ReserveOnce, TransactOnce, TransactFailsOnce, NextCases

\* A deposit or card payment is sent once, and once more at most for each call
\* to the chain that threw: however many deliveries overlap, whichever handlers
\* die and whichever Firestore calls fail (lib/webhook-idempotency.ts).
THEOREM ClaimedEventsAppliedOnce == Spec => []AppliedOnce
  <1>1. TypeOK /\ OnceInv /\ [Next]_vars => OnceInv'
    BY OnceNext
  <1>2. TypeOK /\ OnceInv => AppliedOnce
    <2>1. SUFFICES ASSUME TypeOK, OnceInv, NEW e \in Events, Kind(e) \in {"deposit", "payment"}
                   PROVE  Sent(e) <= 1 + faults["rpc"]
      BY DEF AppliedOnce
    <2>2. e \in Once /\ Mishaps(e) = faults["rpc"] + 0 + 0
      BY <2>1 DEF Once, Mishaps, Claimed, Kind, ClaimedKinds
    <2>3. faults["rpc"] \in Nat
      BY <2>1 DEF TypeOK, FaultKinds
    <2>4. QED
      BY <2>1, <2>2, <2>3 DEF OnceInv
  <1>3. QED
    BY OnceInit, <1>1, <1>2, TypeCorrect, PTL DEF Spec

(* Reservations nobody works on.                                           *)

Orphans == {e \in Events : marker[e] = "processing" /\ ~Busy(e)}

\* The faults that can leave a reservation behind.
Losses == faults["crash"] + faults["store"]

\* Only the claimed kinds reserve: a checked route that ends early leaves nothing.
OrphanInv ==
    /\ \A e \in Events : marker[e] = "processing" => Claimed(e)
    /\ IsFiniteSet(Orphans) /\ Cardinality(Orphans) <= Losses

\* A step that leaves no further reservation behind.
LEMMA OrphansKept ==
    ASSUME OrphanInv, Losses \in Nat, Losses' \in Nat, Losses <= Losses',
           Orphans' \subseteq Orphans
    PROVE  (IsFiniteSet(Orphans) /\ Cardinality(Orphans) <= Losses)'
  <1>1. IsFiniteSet(Orphans) /\ Cardinality(Orphans) <= Losses
    BY DEF OrphanInv
  <1>2. /\ IsFiniteSet(Orphans') /\ Cardinality(Orphans') <= Cardinality(Orphans)
        /\ Cardinality(Orphans) \in Nat /\ Cardinality(Orphans') \in Nat
    BY <1>1, FS_Subset, FS_CardinalityType
  <1>3. QED
    BY <1>1, <1>2

\* A fault that may leave one more behind.
LEMMA OneOrphanMore ==
    ASSUME OrphanInv, Losses \in Nat, Losses' = Losses + 1,
           NEW e, Orphans' \subseteq Orphans \cup {e}
    PROVE  (IsFiniteSet(Orphans) /\ Cardinality(Orphans) <= Losses)'
  <1>1. IsFiniteSet(Orphans) /\ Cardinality(Orphans) <= Losses
    BY DEF OrphanInv
  <1>2. /\ IsFiniteSet(Orphans \cup {e}) /\ Cardinality(Orphans) \in Nat
        /\ Cardinality(Orphans \cup {e}) <= Cardinality(Orphans) + 1
    <2>1. IsFiniteSet(Orphans \cup {e}) /\ Cardinality(Orphans) \in Nat
      BY <1>1, FS_AddElement, FS_CardinalityType
    <2>2. /\ e \in Orphans => Cardinality(Orphans \cup {e}) = Cardinality(Orphans)
          /\ e \notin Orphans => Cardinality(Orphans \cup {e}) = Cardinality(Orphans) + 1
      BY <1>1, FS_AddElement
    <2>3. QED
      BY <2>1, <2>2
  <1>3. /\ IsFiniteSet(Orphans') /\ Cardinality(Orphans') <= Cardinality(Orphans \cup {e})
        /\ Cardinality(Orphans \cup {e}) \in Nat /\ Cardinality(Orphans') \in Nat
    BY <1>2, FS_Subset, FS_CardinalityType
  <1>4. QED
    BY <1>1, <1>2, <1>3

\* A step of one handler with one event can leave that event behind, no other.
LEMMA OthersKept ==
    ASSUME TypeOK, NEW h \in Handlers, NEW e \in Events,
           handler[h] = Idle \/ Holds(h, e),
           \A g \in Handlers \ {h} : handler'[g] = handler[g],
           \A x \in Events \ {e} : marker'[x] = marker[x]
    PROVE  Orphans' \subseteq Orphans \cup {e}
  <1>1. ASSUME NEW x \in Events \ {e}, Busy(x)
        PROVE  Busy(x)'
    <2>1. PICK g \in Handlers : At(g, Steps, x)
      BY <1>1 DEF Busy
    <2>2. g # h
      BY <2>1 DEF Holds, At, Idle, Steps
    <2>3. QED
      BY <2>1, <2>2 DEF Busy, At
  <1>2. QED
    BY <1>1 DEF Orphans

\* The faults that lose something are numbers that never go down.
LEMMA LossesGrow ==
    ASSUME TypeOK, [Next]_vars
    PROVE  /\ Losses \in Nat /\ Losses' \in Nat /\ Losses <= Losses'
           /\ Fault("crash") \/ Fault("store") => Losses' = Losses + 1
  <1>1. faults \in [FaultKinds -> Nat]
    BY DEF TypeOK
  <1>2. faults["crash"] \in Nat /\ faults["store"] \in Nat
    BY <1>1 DEF FaultKinds
  <1>3. ASSUME NEW kind \in FaultKinds, Fault(kind)
        PROVE  /\ faults'["crash"] = IF kind = "crash" THEN faults["crash"] + 1 ELSE faults["crash"]
               /\ faults'["store"] = IF kind = "store" THEN faults["store"] + 1 ELSE faults["store"]
    BY <1>1, <1>3 DEF Fault, FaultKinds
  <1>4. CASE faults' = faults
    <2>1. ~Fault("crash") /\ ~Fault("store")
      BY <1>2, <1>3, <1>4 DEF FaultKinds
    <2>2. QED
      BY <1>2, <1>4, <2>1 DEF Losses
  <1>5. ASSUME NEW kind \in FaultKinds, Fault(kind)
        PROVE  /\ Losses' \in Nat /\ Losses <= Losses'
               /\ Fault("crash") \/ Fault("store") => Losses' = Losses + 1
    <2>1. Fault("crash") \/ Fault("store") => Losses' = Losses + 1
      BY <1>2, <1>3 DEF Losses, FaultKinds
    <2>2. QED
      BY <1>2, <1>3, <1>5, <2>1 DEF Losses
  <1>6. QED
    BY <1>2, <1>4, <1>5, FaultNext DEF Losses

\* Every step keeps OrphanInv.
LEMMA OrphanNext ==
    ASSUME TypeOK, OrphanInv, [Next]_vars
    PROVE  OrphanInv'
  <1>0. /\ Losses \in Nat /\ Losses' \in Nat /\ Losses <= Losses'
        /\ Fault("crash") \/ Fault("store") => Losses' = Losses + 1
    BY LossesGrow
  <1>a. ASSUME NEW h \in Handlers, NEW e \in Events,
               \/ Reserve(h, e) \/ Check(h, e) \/ Duplicate(h, e)
               \/ LookUp(h, e) \/ LookUpFails(h, e) \/ ReadBalance(h, e)
               \/ Transact(h, e) \/ TransactRefused(h, e)
               \/ Complete(h, e) \/ Release(h, e)
               \/ ReserveFails(h, e) \/ TransactFails(h, e)
               \/ CompleteFails(h, e) \/ ReleaseFails(h, e)
        PROVE  /\ handler[h] = Idle \/ Holds(h, e)
               /\ \A g \in Handlers \ {h} : handler'[g] = handler[g]
               /\ \A x \in Events \ {e} : marker'[x] = marker[x]
               /\ marker'[e] = "processing" => marker[e] = "processing" \/ Claimed(e)
    <2>1. handler[h] = Idle \/ Holds(h, e)
      BY <1>a DEF Reserve, Check, Duplicate, ReserveFails, Delivered, LookUp, LookUpFails,
                  ReadBalance, Transact, TransactRefused, TransactFails, Ready, Complete,
                  CompleteFails, Finishing, Release, ReleaseFails, Holds, At, Steps
    <2>2. handler' = handler \/ Leave(h) \/ \E step \in Steps : Goto(h, step, e)
      BY <1>a DEF Reserve, Check, Duplicate, ReserveFails, LookUp, LookUpFails, ReadBalance,
                  Transact, TransactRefused, TransactFails, AfterThrow, Complete,
                  CompleteFails, Release, ReleaseFails, Steps
    <2>3. \/ marker' = marker \/ Mark(e, "done") \/ Mark(e, "absent")
          \/ Mark(e, "processing") /\ Claimed(e)
      BY <1>a DEF Reserve, Check, Duplicate, ReserveFails, LookUp, LookUpFails, ReadBalance,
                  Transact, TransactRefused, TransactFails, Complete, CompleteFails, Release,
                  ReleaseFails
    <2>4. QED
      BY <2>1, <2>2, <2>3 DEF Leave, Goto, Mark, TypeOK
  <1>b. ASSUME NEW h \in Handlers, NEW e \in Events,
               \/ Reserve(h, e) \/ Check(h, e) \/ Duplicate(h, e)
               \/ LookUp(h, e) \/ LookUpFails(h, e) \/ ReadBalance(h, e)
               \/ Transact(h, e) \/ TransactRefused(h, e) \/ TransactFails(h, e)
               \/ Complete(h, e) \/ Release(h, e)
        PROVE  Orphans' \subseteq Orphans
    <2>1. CASE UNCHANGED <<marker, handler>>
      BY <2>1 DEF Orphans, Busy, At
    <2>2. CASE marker' = [marker EXCEPT ![e] = "done"] \/ marker' = [marker EXCEPT ![e] = "absent"]
      BY <1>a, <1>b, <2>2, OthersKept DEF Orphans, TypeOK
    <2>3. ASSUME NEW step \in Steps, Goto(h, step, e)
          PROVE  Orphans' \subseteq Orphans
      <3>1. Busy(e)'
        BY <2>3 DEF Goto, Busy, At, TypeOK
      <3>2. QED
        BY <1>a, <1>b, <3>1, OthersKept DEF Orphans
    <2>4. CASE Leave(h) /\ UNCHANGED marker /\ ~Claimed(e)
      BY <1>a, <1>b, <2>4, OthersKept DEF Orphans, OrphanInv
    <2>5. QED
      BY <1>b, <2>1, <2>2, <2>3, <2>4 DEF Reserve, Check, Duplicate, LookUp, LookUpFails,
         ReadBalance, Transact, TransactRefused, TransactFails, AfterThrow, Claimed, Kind,
         ClaimedKinds, Complete, Release, Mark, Steps
  <1>1. ASSUME NEW h \in Handlers, NEW e \in Events,
               \/ Reserve(h, e) \/ Check(h, e) \/ Duplicate(h, e)
               \/ LookUp(h, e) \/ LookUpFails(h, e) \/ ReadBalance(h, e)
               \/ Transact(h, e) \/ TransactRefused(h, e) \/ TransactFails(h, e)
               \/ Complete(h, e) \/ Release(h, e)
        PROVE  OrphanInv'
    <2>1. \A x \in Events : marker'[x] = "processing" => Claimed(x)
      BY <1>1, <1>a DEF OrphanInv
    <2>2. QED
      BY <1>0, <1>1, <1>b, <2>1, OrphansKept DEF OrphanInv, Claimed
  <1>2. ASSUME NEW h \in Handlers, NEW e \in Events,
               ReserveFails(h, e) \/ CompleteFails(h, e) \/ ReleaseFails(h, e)
        PROVE  OrphanInv'
    <2>1. \A x \in Events : marker'[x] = "processing" => Claimed(x)
      BY <1>2, <1>a DEF OrphanInv
    <2>2. Losses' = Losses + 1
      BY <1>0, <1>2 DEF ReserveFails, CompleteFails, ReleaseFails
    <2>3. Orphans' \subseteq Orphans \cup {e}
      BY <1>2, <1>a, OthersKept
    <2>4. QED
      BY <1>0, <2>1, <2>2, <2>3, OneOrphanMore DEF OrphanInv, Claimed
  <1>3. ASSUME NEW h \in Handlers, Crash(h)
        PROVE  OrphanInv'
    <2>1. PICK e \in Events : Holds(h, e)
      BY <1>3 DEF Crash, TypeOK, Job, Holds, At
    <2>2. marker' = marker /\ \A g \in Handlers \ {h} : handler'[g] = handler[g]
      BY <1>3 DEF Crash, Leave, TypeOK
    <2>3. Orphans' \subseteq Orphans \cup {e}
      BY <2>1, <2>2, OthersKept
    <2>4. Losses' = Losses + 1
      BY <1>0, <1>3 DEF Crash
    <2>5. QED
      BY <1>0, <2>2, <2>3, <2>4, OneOrphanMore DEF OrphanInv, Claimed
  <1>4. ASSUME UNCHANGED <<marker, handler>>
        PROVE  OrphanInv'
    <2>1. Orphans' = Orphans
      BY <1>4 DEF Orphans, Busy, At
    <2>2. QED
      BY <1>0, <1>4, <2>1, OrphansKept DEF OrphanInv, Claimed
  <1>5. ASSUME NEW e \in Events, LinkWallet(e) \/ Mine(e)
        PROVE  UNCHANGED <<marker, handler>>
    BY <1>5 DEF LinkWallet, Mine
  <1>6. QED
    BY <1>1, <1>2, <1>3, <1>4, <1>5, NextCases DEF vars

\* A reservation outlives its handler only when the handler died or a write to
\* Firestore failed, each such fault leaving at most one, for any number of
\* events, handlers and faults: a call to the chain that throws leaves none
\* (lib/webhook-idempotency.ts and the routes' catch blocks).
THEOREM ReservationsReleased == Spec => []NoOrphanReservation
  <1>1. Init => OrphanInv
    <2>1. Init => Orphans = {} /\ Losses = 0
      BY DEF Init, Orphans, Losses, FaultKinds
    <2>2. Init => \A e \in Events : marker[e] # "processing"
      BY DEF Init
    <2>3. QED
      BY <2>1, <2>2, FS_EmptySet DEF OrphanInv
  <1>2. TypeOK /\ OrphanInv /\ [Next]_vars => OrphanInv'
    BY OrphanNext
  <1>3. OrphanInv => NoOrphanReservation
    BY DEF OrphanInv, NoOrphanReservation, Orphans, Losses
  <1>4. QED
    BY <1>1, <1>2, <1>3, TypeCorrect, PTL DEF Spec

-----------------------------------------------------------------------------
(* The checked kinds are sent once by each handler that can overlap.       *)

\* The handlers that are past the sending of e, and those before it.
Sending(e) == {h \in Handlers : At(h, {"sent"}, e)}
Waiting(e) == {h \in Handlers : At(h, Unsent, e)}

\* Until the marker is written, every sending of e has a handler that will still
\* write it or a mishap; from then on only the handlers that looked before can send.
CheckedInv(e) ==
    /\ \A h \in Handlers : ~At(h, {"releasing", "dropping"}, e)
    /\ marker[e] = "absent" => Sent(e) <= Cardinality(Sending(e)) + Mishaps(e)
    /\ marker[e] # "absent" =>
          Sent(e) + Cardinality(Waiting(e)) <= Cardinality(Handlers) + Mishaps(e)

\* Sets of handlers are finite, and a part is no larger than the whole.
LEMMA Counted ==
    ASSUME NEW T \in SUBSET Handlers, NEW S \in SUBSET T
    PROVE  /\ IsFiniteSet(S) /\ IsFiniteSet(T)
           /\ Cardinality(S) \in Nat /\ Cardinality(T) \in Nat /\ Cardinality(Handlers) \in Nat
           /\ Cardinality(S) <= Cardinality(T) /\ Cardinality(T) <= Cardinality(Handlers)
  <1>1. IsFiniteSet(T) /\ Cardinality(T) <= Cardinality(Handlers)
    BY HandlersAssumption, FS_Subset
  <1>2. IsFiniteSet(S) /\ Cardinality(S) <= Cardinality(T)
    BY <1>1, FS_Subset
  <1>3. QED
    BY <1>1, <1>2, HandlersAssumption, FS_CardinalityType

\* A set without one element has at most one element less.
LEMMA OneAway ==
    ASSUME NEW S, IsFiniteSet(S), NEW h
    PROVE  Cardinality(S) <= Cardinality(S \ {h}) + 1
  <1>1. Cardinality(S) \in Nat
    BY FS_CardinalityType
  <1>2. CASE h \in S
    <2>1. Cardinality(S \ {h}) = Cardinality(S) - 1
      BY <1>2, FS_RemoveElement
    <2>2. QED
      BY <1>1, <2>1
  <1>3. CASE h \notin S
    <2>1. S \ {h} = S
      BY <1>3
    <2>2. QED
      BY <1>1, <2>1
  <1>4. QED
    BY <1>2, <1>3

\* A handler is before the sending or past it, not both.
LEMMA SidesApart ==
    ASSUME NEW e \in Events
    PROVE  Cardinality(Sending(e)) + Cardinality(Waiting(e)) <= Cardinality(Handlers)
  <1>1. /\ Sending(e) \cup Waiting(e) \in SUBSET Handlers
        /\ Sending(e) \cap Waiting(e) = {}
    BY DEF Sending, Waiting, At, Unsent, Steps
  <1>2. /\ IsFiniteSet(Sending(e)) /\ IsFiniteSet(Waiting(e))
        /\ Cardinality(Sending(e)) \in Nat /\ Cardinality(Waiting(e)) \in Nat
        /\ Cardinality(Sending(e) \cup Waiting(e)) <= Cardinality(Handlers)
    BY <1>1, Counted
  <1>3. Cardinality(Sending(e) \cup Waiting(e))
            = Cardinality(Sending(e)) + Cardinality(Waiting(e)) - Cardinality({})
    BY <1>1, <1>2, FS_Union
  <1>4. QED
    BY <1>2, <1>3, FS_EmptySet

\* A step that sends nothing, takes no handler away from past the sending, and
\* brings one before it only while the marker is absent.
LEMMA CheckedQuiet ==
    ASSUME TypeOK, MishapsGrow, NEW x \in Events, CheckedInv(x),
           marker'[x] = marker[x], Sent(x)' = Sent(x),
           Sending(x) \subseteq Sending(x)',
           marker[x] # "absent" => Waiting(x)' \subseteq Waiting(x),
           \A h \in Handlers : ~At(h, {"releasing", "dropping"}, x)'
    PROVE  CheckedInv(x)'
  <1>1. Sending(x)' \in SUBSET Handlers /\ Waiting(x) \in SUBSET Handlers
    BY DEF Sending, Waiting
  <1>2. /\ Cardinality(Sending(x)) \in Nat /\ Cardinality(Sending(x)') \in Nat
        /\ Cardinality(Sending(x)) <= Cardinality(Sending(x)')
    BY <1>1, Counted
  <1>3. marker[x] # "absent" =>
           /\ Cardinality(Waiting(x)) \in Nat /\ Cardinality(Waiting(x)') \in Nat
           /\ Cardinality(Waiting(x)') <= Cardinality(Waiting(x))
    BY <1>1, Counted
  <1>4. Mishaps(x) \in Nat /\ Mishaps(x)' \in Nat /\ Mishaps(x) <= Mishaps(x)'
    BY DEF MishapsGrow
  <1>5. Sent(x) \in Nat /\ Cardinality(Handlers) \in Nat
    BY SentType, HandlersAssumption, FS_CardinalityType
  <1>6. marker'[x] = "absent" => Sent(x)' <= Cardinality(Sending(x)') + Mishaps(x)'
    BY <1>2, <1>4, <1>5 DEF CheckedInv
  <1>7. marker'[x] # "absent" =>
           Sent(x)' + Cardinality(Waiting(x)') <= Cardinality(Handlers) + Mishaps(x)'
    BY <1>3, <1>4, <1>5 DEF CheckedInv
  <1>8. QED
    BY <1>6, <1>7 DEF CheckedInv

\* A mishap of h: it may have sent, or it is lost from past the sending.
LEMMA CheckedMishap ==
    ASSUME TypeOK, NEW x \in Events, CheckedInv(x), NEW h \in Handlers,
           Mishaps(x) \in Nat, Mishaps(x)' = Mishaps(x) + 1, marker'[x] = marker[x],
           \/ Sent(x)' = Sent(x)
           \/ Sent(x)' = Sent(x) + 1 /\ Sending(x) \subseteq Sending(x)',
           Sending(x) \ {h} \subseteq Sending(x)',
           Waiting(x)' \subseteq Waiting(x),
           \A g \in Handlers : ~At(g, {"releasing", "dropping"}, x)'
    PROVE  CheckedInv(x)'
  <1>1. /\ Sending(x) \in SUBSET Handlers /\ Sending(x)' \in SUBSET Handlers
        /\ Waiting(x) \in SUBSET Handlers
    BY DEF Sending, Waiting
  <1>2. /\ IsFiniteSet(Sending(x))
        /\ Cardinality(Sending(x)) \in Nat /\ Cardinality(Sending(x)') \in Nat
        /\ Cardinality(Waiting(x)) \in Nat /\ Cardinality(Waiting(x)') \in Nat
        /\ Cardinality(Waiting(x)') <= Cardinality(Waiting(x))
    BY <1>1, Counted
  <1>3. Cardinality(Sending(x)) <= Cardinality(Sending(x) \ {h}) + 1
    BY <1>2, OneAway
  <1>4. /\ Cardinality(Sending(x) \ {h}) \in Nat
        /\ Cardinality(Sending(x) \ {h}) <= Cardinality(Sending(x)')
    BY <1>1, Counted
  <1>5. Sending(x) \subseteq Sending(x)' => Cardinality(Sending(x)) <= Cardinality(Sending(x)')
    BY <1>1, Counted
  <1>6. Sent(x) \in Nat /\ Cardinality(Handlers) \in Nat
    BY SentType, HandlersAssumption, FS_CardinalityType
  <1>7. marker'[x] = "absent" => Sent(x)' <= Cardinality(Sending(x)') + Mishaps(x)'
    BY <1>2, <1>3, <1>4, <1>5, <1>6 DEF CheckedInv
  <1>8. marker'[x] # "absent" =>
           Sent(x)' + Cardinality(Waiting(x)') <= Cardinality(Handlers) + Mishaps(x)'
    BY <1>2, <1>6 DEF CheckedInv
  <1>9. QED
    BY <1>7, <1>8 DEF CheckedInv

\* The marker is written: from now on only the handlers that wait can send.
LEMMA CheckedDone ==
    ASSUME TypeOK, MishapsGrow, NEW x \in Events, CheckedInv(x),
           marker'[x] = "done", Sent(x)' = Sent(x),
           Waiting(x)' \subseteq Waiting(x),
           \A g \in Handlers : ~At(g, {"releasing", "dropping"}, x)'
    PROVE  CheckedInv(x)'
  <1>1. Sending(x) \in SUBSET Handlers /\ Waiting(x) \in SUBSET Handlers
    BY DEF Sending, Waiting
  <1>2. /\ Cardinality(Sending(x)) \in Nat
        /\ Cardinality(Waiting(x)) \in Nat /\ Cardinality(Waiting(x)') \in Nat
        /\ Cardinality(Waiting(x)') <= Cardinality(Waiting(x))
    BY <1>1, Counted
  <1>3. Cardinality(Sending(x)) + Cardinality(Waiting(x)) <= Cardinality(Handlers)
    BY SidesApart
  <1>4. Mishaps(x) \in Nat /\ Mishaps(x)' \in Nat /\ Mishaps(x) <= Mishaps(x)'
    BY DEF MishapsGrow
  <1>5. Sent(x) \in Nat /\ Cardinality(Handlers) \in Nat
    BY SentType, HandlersAssumption, FS_CardinalityType
  <1>6. Sent(x) + Cardinality(Waiting(x)) <= Cardinality(Handlers) + Mishaps(x)
    BY <1>2, <1>3, <1>4, <1>5 DEF CheckedInv
  <1>7. Sent(x)' + Cardinality(Waiting(x)') <= Cardinality(Handlers) + Mishaps(x)'
    BY <1>2, <1>4, <1>5, <1>6
  <1>8. QED
    BY <1>7 DEF CheckedInv

\* h sends: it is past the sending now and no longer before it.
LEMMA CheckedSend ==
    ASSUME TypeOK, MishapsGrow, NEW x \in Events, CheckedInv(x),
           NEW h \in Handlers, Transact(h, x)
    PROVE  CheckedInv(x)'
  <1>1. /\ handler' = [handler EXCEPT ![h] = [step |-> "sent", event |-> x]]
        /\ pool' = [pool EXCEPT ![x] = pool[x] + 1] /\ UNCHANGED <<marker, mined, reverted>>
        /\ At(h, Unsent, x)
    BY DEF Transact, Goto, Send, Ready, At, Unsent, Steps
  <1>2. Sent(x)' = Sent(x) + 1
    <2>1. /\ pool[x] \in Nat /\ mined[x] \in Nat /\ reverted[x] \in Nat
          /\ pool'[x] = pool[x] + 1
      BY <1>1 DEF TypeOK
    <2>2. QED
      BY <1>1, <2>1 DEF Sent
  <1>3. Sending(x)' = Sending(x) \cup {h} /\ h \notin Sending(x)
    BY <1>1 DEF Sending, At, Unsent, Steps, TypeOK
  <1>4. Waiting(x)' = Waiting(x) \ {h} /\ h \in Waiting(x)
    BY <1>1 DEF Waiting, At, Unsent, Steps, TypeOK
  <1>5. /\ IsFiniteSet(Sending(x)) /\ IsFiniteSet(Waiting(x))
        /\ Cardinality(Sending(x)) \in Nat /\ Cardinality(Waiting(x)) \in Nat
    BY Counted DEF Sending, Waiting
  <1>6. Cardinality(Sending(x)') = Cardinality(Sending(x)) + 1
    BY <1>3, <1>5, FS_AddElement
  <1>7. Cardinality(Waiting(x)') = Cardinality(Waiting(x)) - 1
    BY <1>4, <1>5, FS_RemoveElement
  <1>8. Mishaps(x) \in Nat /\ Mishaps(x)' \in Nat /\ Mishaps(x) <= Mishaps(x)'
    BY DEF MishapsGrow
  <1>9. Sent(x) \in Nat /\ Cardinality(Handlers) \in Nat
    BY SentType, HandlersAssumption, FS_CardinalityType
  <1>10. \A g \in Handlers : ~At(g, {"releasing", "dropping"}, x)'
    BY <1>1 DEF CheckedInv, At, TypeOK
  <1>11. marker'[x] = "absent" => Sent(x)' <= Cardinality(Sending(x)') + Mishaps(x)'
    BY <1>1, <1>2, <1>5, <1>6, <1>8, <1>9 DEF CheckedInv
  <1>12. marker'[x] # "absent" =>
           Sent(x)' + Cardinality(Waiting(x)') <= Cardinality(Handlers) + Mishaps(x)'
    BY <1>1, <1>2, <1>5, <1>7, <1>8, <1>9 DEF CheckedInv
  <1>13. QED
    BY <1>10, <1>11, <1>12 DEF CheckedInv

\* Where a step of h with e may leave the handlers of another event, or of e.
LEMMA HandlersStep ==
    ASSUME TypeOK, NEW h \in Handlers, NEW e \in Events, NEW x \in Events,
           handler[h] = Idle \/ Holds(h, e),
           handler' = handler \/ Leave(h) \/ \E step \in Steps : Goto(h, step, e)
    PROVE  /\ x # e => /\ Sending(x)' = Sending(x) /\ Waiting(x)' = Waiting(x)
                       /\ \A g \in Handlers :
                             At(g, {"releasing", "dropping"}, x)'
                                <=> At(g, {"releasing", "dropping"}, x)
           /\ Sending(x) \ {h} \subseteq Sending(x)'
           /\ Waiting(x)' \subseteq Waiting(x) \cup {h}
           /\ Leave(h) => Waiting(x)' \subseteq Waiting(x)
           /\ Leave(h) => \A g \in Handlers :
                 At(g, {"releasing", "dropping"}, x)' => At(g, {"releasing", "dropping"}, x)
  <1>1. \A g \in Handlers \ {h} : handler'[g] = handler[g]
    BY DEF Leave, Goto, TypeOK
  <1>2. Leave(h) => handler'[h] = Idle
    BY DEF Leave, TypeOK
  <1>3. x # e => ~At(h, Steps, x) /\ ~At(h, Steps, x)'
    <2>1. handler'[h] = handler[h] \/ handler'[h] = Idle \/ handler'[h].event = e
      BY DEF Leave, Goto, TypeOK
    <2>2. QED
      BY <2>1 DEF At, Holds, Idle, Steps
  <1>4. QED
    BY <1>1, <1>2, <1>3 DEF Sending, Waiting, At, Unsent, Steps, Idle

\* A handler that moves on without a step back.
LEMMA CheckedMove ==
    ASSUME TypeOK, MishapsGrow, NEW x \in Events, CheckedInv(x), NEW h \in Handlers,
           At(h, Unsent, x), marker' = marker, Sent(x)' = Sent(x),
           Leave(h) \/ \E step \in Steps \ {"releasing", "dropping"} : Goto(h, step, x)
    PROVE  CheckedInv(x)'
  <1>1. /\ \A g \in Handlers \ {h} : handler'[g] = handler[g]
        /\ h \in Waiting(x) /\ h \notin Sending(x)
        /\ handler'[h].step \notin {"releasing", "dropping"}
    BY DEF Leave, Goto, TypeOK, Waiting, Sending, At, Unsent, Steps, Idle
  <1>2. Sending(x) \subseteq Sending(x)' /\ Waiting(x)' \subseteq Waiting(x)
    BY <1>1 DEF Sending, Waiting, At
  <1>3. \A g \in Handlers : ~At(g, {"releasing", "dropping"}, x)'
    BY <1>1 DEF CheckedInv, At
  <1>4. QED
    BY <1>2, <1>3, CheckedQuiet

\* Every step keeps it, for every event of a checked kind.
LEMMA CheckedNext ==
    ASSUME TypeOK, [Next]_vars, NEW x \in Events, ~Claimed(x), CheckedInv(x)
    PROVE  CheckedInv(x)'
  <1>0. MishapsGrow /\ Mishaps(x) \in Nat
    BY MishapsNext DEF MishapsGrow
  <1>a. \A g \in Handlers : ~At(g, {"releasing", "dropping"}, x)
    BY DEF CheckedInv
  <1>1. ASSUME NEW h \in Handlers, NEW e \in Events,
               \/ Reserve(h, e) \/ Check(h, e) \/ Duplicate(h, e)
               \/ LookUp(h, e) \/ LookUpFails(h, e) \/ ReadBalance(h, e)
               \/ Transact(h, e) \/ TransactRefused(h, e)
               \/ Complete(h, e) \/ Release(h, e)
               \/ ReserveFails(h, e) \/ TransactFails(h, e)
               \/ CompleteFails(h, e) \/ ReleaseFails(h, e),
               x # e
        PROVE  CheckedInv(x)'
    <2>1. handler[h] = Idle \/ Holds(h, e)
      BY <1>1 DEF Reserve, Check, Duplicate, Delivered, LookUp, LookUpFails, ReadBalance,
                  Transact, TransactRefused, Ready, Complete, Finishing, Release, ReserveFails,
                  TransactFails, CompleteFails, ReleaseFails, Holds, At, Steps
    <2>2. handler' = handler \/ Leave(h) \/ \E step \in Steps : Goto(h, step, e)
      BY <1>1 DEF Reserve, Check, Duplicate, LookUp, LookUpFails, ReadBalance, Transact,
                  TransactRefused, AfterThrow, Complete, Release, ReserveFails,
                  TransactFails, CompleteFails, ReleaseFails, Steps
    <2>3. /\ marker' = marker \/ \E value : Mark(e, value)
          /\ pool' = pool \/ Send(e)
          /\ UNCHANGED <<mined, reverted>>
      BY <1>1 DEF Reserve, Check, Duplicate, LookUp, LookUpFails, ReadBalance, Transact,
                  TransactRefused, Complete, Release, ReserveFails,
                  TransactFails, CompleteFails, ReleaseFails, chainVars
    <2>4. Sent(x)' = Sent(x) /\ marker'[x] = marker[x]
      BY <1>1, <2>3 DEF Mark, Send, Sent, TypeOK
    <2>5. QED
      BY <1>0, <1>1, <1>a, <2>1, <2>2, <2>4, HandlersStep, CheckedQuiet
  <1>2. ASSUME NEW h \in Handlers, Check(h, x)
        PROVE  CheckedInv(x)'
    <2>1. /\ handler' = [handler EXCEPT ![h] = [step |-> "claimed", event |-> x]]
          /\ handler[h] = Idle /\ marker[x] = "absent" /\ marker' = marker /\ Sent(x)' = Sent(x)
      BY <1>2 DEF Check, Delivered, Goto, Sent, chainVars
    <2>2. Sending(x) \subseteq Sending(x)'
      BY <2>1 DEF Sending, At, Idle, TypeOK
    <2>3. \A g \in Handlers : ~At(g, {"releasing", "dropping"}, x)'
      BY <1>a, <2>1 DEF At, TypeOK
    <2>4. QED
      BY <1>0, <2>1, <2>2, <2>3, CheckedQuiet
  <1>3. ASSUME NEW h \in Handlers,
               LookUp(h, x) \/ LookUpFails(h, x) \/ ReadBalance(h, x) \/ TransactRefused(h, x)
        PROVE  CheckedInv(x)'
    <2>1. At(h, Unsent, x) /\ marker' = marker /\ Sent(x)' = Sent(x)
      BY <1>3 DEF LookUp, LookUpFails, ReadBalance, TransactRefused, Ready, At, Unsent,
                  Steps, Sent, chainVars
    <2>2. Leave(h) \/ \E step \in Steps \ {"releasing", "dropping"} : Goto(h, step, x)
      BY <1>3 DEF LookUp, LookUpFails, ReadBalance, TransactRefused, AfterThrow, Steps
    <2>3. QED
      BY <1>0, <2>1, <2>2, CheckedMove
  <1>4. ASSUME NEW h \in Handlers, Transact(h, x)
        PROVE  CheckedInv(x)'
    BY <1>0, <1>4, CheckedSend
  <1>5. ASSUME NEW h \in Handlers, TransactFails(h, x)
        PROVE  CheckedInv(x)'
    <2>1. At(h, Unsent, x) /\ UNCHANGED <<marker, mined, reverted>>
      BY <1>5 DEF TransactFails, Ready, At, Unsent, Steps
    <2>2. Mishaps(x)' = Mishaps(x) + 1
      BY <1>5, RpcMishap DEF TransactFails
    <2>3. Leave(h) \/ Goto(h, "sent", x)
      BY <1>5 DEF TransactFails, AfterThrow
    <2>4. /\ \A g \in Handlers \ {h} : handler'[g] = handler[g]
          /\ h \in Waiting(x) /\ h \notin Sending(x)
          /\ handler'[h].step \notin {"releasing", "dropping"}
      BY <2>1, <2>3 DEF Leave, Goto, TypeOK, Waiting, Sending, At, Unsent, Steps, Idle
    <2>5. Sending(x) \subseteq Sending(x)' /\ Waiting(x)' \subseteq Waiting(x)
      BY <2>4 DEF Sending, Waiting, At
    <2>6. \A g \in Handlers : ~At(g, {"releasing", "dropping"}, x)'
      BY <1>a, <2>4 DEF At
    <2>7. Sent(x)' = Sent(x) \/ Sent(x)' = Sent(x) + 1
      <3>1. pool' = pool \/ pool' = [pool EXCEPT ![x] = pool[x] + 1]
        BY <1>5 DEF TransactFails, Send
      <3>2. pool[x] \in Nat /\ mined[x] \in Nat /\ reverted[x] \in Nat
        BY DEF TypeOK
      <3>3. pool'[x] = pool[x] \/ pool'[x] = pool[x] + 1
        BY <3>1 DEF TypeOK
      <3>4. QED
        BY <2>1, <3>2, <3>3 DEF Sent
    <2>8. QED
      BY <1>0, <2>1, <2>2, <2>5, <2>6, <2>7, CheckedMishap
  <1>6. ASSUME NEW h \in Handlers, Complete(h, x) \/ CompleteFails(h, x)
        PROVE  CheckedInv(x)'
    <2>1. /\ Holds(h, x) /\ Leave(h) /\ Sent(x)' = Sent(x)
          /\ marker' = marker \/ marker' = [marker EXCEPT ![x] = "done"]
      BY <1>6 DEF Complete, CompleteFails, Finishing, Holds, At, Steps, Mark, Sent, chainVars,
                  Claimed, ClaimedKinds, Kind
    <2>2. /\ Sending(x) \ {h} \subseteq Sending(x)' /\ Waiting(x)' \subseteq Waiting(x)
          /\ \A g \in Handlers : ~At(g, {"releasing", "dropping"}, x)'
      BY <1>a, <2>1, HandlersStep
    <2>3. CASE marker'[x] = "done"
      BY <1>0, <2>1, <2>2, <2>3, CheckedDone
    <2>4. CASE marker'[x] # "done"
      <3>1. CompleteFails(h, x) /\ marker' = marker
        BY <1>6, <2>1, <2>4 DEF Complete, Mark, TypeOK
      <3>2. Mishaps(x)' = Mishaps(x) + 1
        BY <3>1, StoreMishap DEF CompleteFails
      <3>3. QED
        BY <1>0, <2>1, <2>2, <3>1, <3>2, CheckedMishap
    <2>5. QED
      BY <2>3, <2>4
  <1>7. ASSUME NEW h \in Handlers,
               Reserve(h, x) \/ ReserveFails(h, x) \/ Release(h, x) \/ ReleaseFails(h, x)
        PROVE  FALSE
    BY <1>7, <1>a DEF Reserve, ReserveFails, Release, ReleaseFails
  <1>8. ASSUME NEW h \in Handlers, Crash(h)
        PROVE  CheckedInv(x)'
    <2>1. PICK e \in Events : Holds(h, e)
      BY <1>8 DEF Crash, TypeOK, Job, Holds, At
    <2>2. /\ Leave(h) /\ marker' = marker /\ Sent(x)' = Sent(x)
          /\ Mishaps(x)' = Mishaps(x) + 1
      BY <1>8, CrashMishap DEF Crash, Sent, chainVars
    <2>3. /\ Sending(x) \ {h} \subseteq Sending(x)' /\ Waiting(x)' \subseteq Waiting(x)
          /\ \A g \in Handlers : ~At(g, {"releasing", "dropping"}, x)'
      BY <1>a, <2>1, <2>2, HandlersStep
    <2>4. QED
      BY <1>0, <2>2, <2>3, CheckedMishap
  <1>9. ASSUME \/ handler' = handler /\ marker' = marker /\ Sent(x)' = Sent(x)
        PROVE  CheckedInv(x)'
    <2>1. /\ Sending(x)' = Sending(x) /\ Waiting(x)' = Waiting(x)
          /\ \A g \in Handlers : ~At(g, {"releasing", "dropping"}, x)'
      BY <1>9, <1>a DEF Sending, Waiting, At
    <2>2. QED
      BY <1>0, <1>9, <2>1, CheckedQuiet
  <1>10. ASSUME NEW e \in Events, Mine(e)
         PROVE  CheckedInv(x)'
    <2>1. \A y \in Events : pool[y] \in Nat /\ mined[y] \in Nat /\ reverted[y] \in Nat
      BY DEF TypeOK
    <2>2. /\ pool' = [pool EXCEPT ![e] = @ - 1]
          /\ \/ reverted' = [reverted EXCEPT ![e] = @ + 1] /\ mined' = mined
             \/ mined' = [mined EXCEPT ![e] = @ + 1] /\ reverted' = reverted
      BY <1>10 DEF Mine
    <2>3. Sent(x)' = Sent(x)
      BY <2>1, <2>2 DEF Sent, TypeOK
    <2>4. QED
      BY <1>9, <1>10, <2>3 DEF Mine
  <1>11. ASSUME (\E e \in Events : LinkWallet(e)) \/ UNCHANGED vars
         PROVE  CheckedInv(x)'
    BY <1>9, <1>11 DEF LinkWallet, vars, Sent, chainVars
  <1>12. ASSUME NEW h \in Handlers, Duplicate(h, x)
         PROVE  CheckedInv(x)'
    BY <1>9, <1>12 DEF Duplicate, Sent, chainVars
  <1>13. QED
    BY <1>1, <1>2, <1>3, <1>4, <1>5, <1>6, <1>7, <1>8, <1>10, <1>11, <1>12, NextCases

\* For any number of handlers, deliveries and faults: a reversal is sent once, and
\* an event of the checked kinds once by each handler that can overlap, plus once
\* for each mishap.  The marker protects the checked kinds only from deliveries
\* that come after it was written (pomelo/transactions and pomelo/adjustments).
THEOREM SendsAreBounded == Spec => []SendsBounded
  <1> DEFINE Checked == \A e \in Events : ~Claimed(e) => CheckedInv(e)
  <1>1. TypeOK /\ Init => Checked
    <2>1. SUFFICES ASSUME TypeOK, Init, NEW e \in Events
                   PROVE  CheckedInv(e)
      OBVIOUS
    <2>2. /\ marker[e] = "absent" /\ Sent(e) = 0
          /\ \A h \in Handlers : ~At(h, {"releasing", "dropping"}, e)
      BY <2>1 DEF Init, Sent, At, Idle
    <2>3. Mishaps(e) \in Nat
      BY <2>1 DEF TypeOK, Mishaps, FaultKinds, Kind, Claimed
    <2>4. Cardinality(Sending(e)) \in Nat
      BY Counted DEF Sending
    <2>5. QED
      BY <2>2, <2>3, <2>4 DEF CheckedInv
  <1>2. TypeOK /\ Checked /\ [Next]_vars => Checked'
    <2>1. SUFFICES ASSUME TypeOK, Checked, [Next]_vars, NEW e \in Events, ~Claimed(e)
                   PROVE  CheckedInv(e)'
      BY DEF Claimed
    <2>2. QED
      BY <2>1, CheckedNext
  <1>3. TypeOK /\ OnceInv /\ Checked => SendsBounded
    <2>1. SUFFICES ASSUME TypeOK, OnceInv, Checked, NEW e \in Events
                   PROVE  Sent(e) <= (IF Claimed(e) THEN 1 ELSE Cardinality(Handlers)) + Mishaps(e)
      BY DEF SendsBounded
    <2>2. CASE Claimed(e)
      BY <2>1, <2>2 DEF OnceInv, Once
    <2>3. CASE ~Claimed(e)
      <3>1. /\ Cardinality(Sending(e)) \in Nat /\ Cardinality(Waiting(e)) \in Nat
            /\ Cardinality(Sending(e)) <= Cardinality(Handlers)
        BY Counted DEF Sending, Waiting
      <3>2. /\ Mishaps(e) \in Nat /\ Sent(e) \in Nat /\ Cardinality(Handlers) \in Nat
        BY <2>1, SentType, HandlersAssumption, FS_CardinalityType
           DEF TypeOK, Mishaps, FaultKinds, Kind, Claimed
      <3>3. QED
        BY <2>1, <2>3, <3>1, <3>2 DEF CheckedInv
    <2>4. QED
      BY <2>2, <2>3
  <1>4. TypeOK /\ OnceInv /\ [Next]_vars => OnceInv'
    BY OnceNext
  <1> HIDE DEF Checked
  <1>5. QED
    BY OnceInit, TypeInit, <1>1, <1>2, <1>3, <1>4, TypeCorrect, PTL DEF Spec

=============================================================================
