---------------------------- MODULE WalletService ----------------------------
(***************************************************************************)
(* The wallet service (services/wallet-service): transfers between two     *)
(* wallets and the balance query.                                          *)
(*                                                                         *)
(* initiateTransfer reads the sender's row, takes the lock in Redis,       *)
(* compares and reserves, and starts executeOnChain from inside the        *)
(* database transaction, without waiting for it: both run on from there.   *)
(* Each of their awaited calls is a step.  The two statements of a         *)
(* database transaction that follow its reads are one step, its commit.    *)
(*                                                                         *)
(* A transfer moves coins of the service's own signing account, so the     *)
(* sender's coins on the chain stay where they are.                        *)
(***************************************************************************)
EXTENDS Integers, FiniteSets, Functions

CONSTANTS
    Wallets,
    Transfers,   \* calls of initiateTransfer
    Readers,     \* calls of getBalance
    Units,       \* amounts, in token units
    OpeningUnits,\* what every wallet has, in its row and on the chain
    MaxMishaps   \* bound: failed commits and calls, and keys of Redis that run out

VARIABLES
    row,      \* table wallets: balanceMondg and balanceReservedMondg
    status,   \* table transactions, "none" before the insert is committed
    paid,     \* transfers the chain has carried out
    received, \* what each wallet got on the chain
    lock,     \* lock:wallet:<address> in Redis, and who set it
    cache,    \* balance:<address> in Redis
    call,     \* where each call of initiateTransfer is, and what it has read
    exec,     \* where each executeOnChain is, and what it has read
    query,    \* the same for each call of getBalance
    settled,  \* history: transfers whose completion was committed
    lost,     \* history: wallets whose row was written from a stale read
    faults, expired

vars == <<row, status, paid, received, lock, cache, call, exec, query,
          settled, lost, faults, expired>>

Nobody  == "nobody"
NoValue == -1   \* the key is not there

\* feeUnits: 0.3 %, on whole thousands.
TransferFee(amount) == (amount \div 1000) * 3

Total(t) == call[t].amount + TransferFee(call[t].amount)

\* The initial values of everything but the queries and the faults.
InitTables ==
    /\ row = [w \in Wallets |-> [balance |-> OpeningUnits, reserved |-> 0]]
    /\ status = [t \in Transfers |-> "none"]
    /\ paid = {} /\ received = [w \in Wallets |-> 0]
    /\ lock = [w \in Wallets |-> Nobody]
    /\ cache = [w \in Wallets |-> NoValue]
    /\ call = [t \in Transfers |-> [step |-> "idle"]]
    /\ exec = [t \in Transfers |-> [step |-> "idle"]]
    /\ settled = {} /\ lost = {}
    /\ expired = 0

Init ==
    /\ InitTables
    /\ query = [g \in Readers |-> [step |-> "idle"]]
    /\ faults = 0

OnChain(w) == OpeningUnits + received[w]

\* Wallets among ws whose row is no longer what was read.
Stale(ws, read) == {w \in ws : row[w] # read[w]}

-----------------------------------------------------------------------------
(* initiateTransfer.                                                       *)

\* getWalletByUserId: the row is read here, before the lock is taken.
ReadSender(t, from, to, amount) ==
    /\ call[t].step = "idle"
    /\ call' = [call EXCEPT ![t] = [step |-> "locking", from |-> from, to |-> to,
                                    amount |-> amount, read |-> row[from]]]
    /\ UNCHANGED <<row, status, paid, received, lock, cache, exec, query, settled, lost,
                   faults, expired>>

Goto(t, step) == call' = [call EXCEPT ![t].step = step]

\* Mutant: SET without NX.
TakeLockAlways(t) ==
    /\ call[t].step = "locking"
    /\ lock' = [lock EXCEPT ![call[t].from] = t]
    /\ Goto(t, "checking")
    /\ UNCHANGED <<row, status, paid, received, cache, exec, query, settled, lost,
                   faults, expired>>

\* SET lock NX EX 30; a caller that finds it taken is refused.
TakeLock(t) ==
    /\ call[t].step = "locking"
    /\ IF lock[call[t].from] = Nobody
       THEN lock' = [lock EXCEPT ![call[t].from] = t] /\ Goto(t, "checking")
       ELSE UNCHANGED lock /\ Goto(t, "done")
    /\ UNCHANGED <<row, status, paid, received, cache, exec, query, settled, lost,
                   faults, expired>>

Covers(t) == call[t].read.balance - call[t].read.reserved >= Total(t)

\* The balance of the row read before the lock is compared; inside the
\* transaction the execution is started, and runs on before the commit.
Check(t) ==
    /\ call[t].step = "checking"
    /\ IF Covers(t)
       THEN Goto(t, "committing") /\ exec' = [exec EXCEPT ![t] = [step |-> "starting"]]
       ELSE Goto(t, "releasing") /\ UNCHANGED exec
    /\ UNCHANGED <<row, status, paid, received, lock, cache, query, settled, lost,
                   faults, expired>>

\* Mutant: the fee is not reserved.
CommitAmount(t) ==
    /\ call[t].step = "committing"
    /\ row' = [row EXCEPT ![call[t].from].reserved = call[t].read.reserved + call[t].amount]
    /\ status' = [status EXCEPT ![t] = "pending"]
    /\ lost' = lost \cup (IF row[call[t].from] # call[t].read THEN {call[t].from} ELSE {})
    /\ Goto(t, "releasing")
    /\ UNCHANGED <<paid, received, lock, cache, exec, query, settled, faults, expired>>

\* The reservation is computed from the row that was read; the transaction
\* record appears with it.
Commit(t) ==
    /\ call[t].step = "committing"
    /\ row' = [row EXCEPT ![call[t].from].reserved = call[t].read.reserved + Total(t)]
    /\ status' = [status EXCEPT ![t] = "pending"]
    /\ lost' = lost \cup (IF row[call[t].from] # call[t].read THEN {call[t].from} ELSE {})
    /\ Goto(t, "releasing")
    /\ UNCHANGED <<paid, received, lock, cache, exec, query, settled, faults, expired>>

\* The commit fails and is rolled back; the execution is running all the same.
Rollback(t) ==
    /\ call[t].step = "committing"
    /\ faults + expired < MaxMishaps
    /\ faults' = faults + 1
    /\ Goto(t, "releasing")
    /\ UNCHANGED <<row, status, paid, received, lock, cache, exec, query, settled, lost, expired>>

\* finally: GET, compare, and in a second call DEL.
CompareLock(t) ==
    /\ call[t].step = "releasing"
    /\ Goto(t, IF lock[call[t].from] = t THEN "deleting" ELSE "done")
    /\ UNCHANGED <<row, status, paid, received, lock, cache, exec, query, settled, lost,
                   faults, expired>>

DeleteLock(t) ==
    /\ call[t].step = "deleting"
    /\ lock' = [lock EXCEPT ![call[t].from] = Nobody]
    /\ Goto(t, "done")
    /\ UNCHANGED <<row, status, paid, received, cache, exec, query, settled, lost,
                   faults, expired>>

-----------------------------------------------------------------------------
(* executeOnChain.                                                         *)

\* An UPDATE of a row that is not there yet changes nothing.
SetStatus(t, value) ==
    status' = IF status[t] = "none" THEN status ELSE [status EXCEPT ![t] = value]

Proceed(t, step) == exec' = [exec EXCEPT ![t].step = step]

Process(t) ==
    /\ exec[t].step = "starting"
    /\ SetStatus(t, "processing")
    /\ Proceed(t, "sending")
    /\ UNCHANGED <<row, paid, received, lock, cache, call, query, settled, lost, faults, expired>>

\* transfer() by the signer: from here on the chain may carry it out.
SendTransfer(t) ==
    /\ exec[t].step = "sending"
    /\ Proceed(t, "sent")
    /\ UNCHANGED <<row, status, paid, received, lock, cache, call, query, settled, lost,
                   faults, expired>>

Confirming(t) ==
    /\ exec[t].step = "sent"
    /\ SetStatus(t, "confirming")
    /\ Proceed(t, "waiting")
    /\ UNCHANGED <<row, paid, received, lock, cache, call, query, settled, lost, faults, expired>>

\* The transaction is mined, whether anybody still waits for it or not.
Mine(t) ==
    /\ exec[t].step \in {"sent", "waiting", "failing", "failed"}
    /\ exec[t].step \in {"failing", "failed"} => exec[t].sent
    /\ t \notin paid
    /\ paid' = paid \cup {t}
    /\ received' = [received EXCEPT ![call[t].to] = @ + call[t].amount]
    /\ UNCHANGED <<row, status, lock, cache, call, exec, query, settled, lost, faults, expired>>

\* wait(3) returns; the transaction reads both rows ...
SettleRead(t) ==
    /\ exec[t].step = "waiting"
    /\ t \in paid
    /\ exec' = [exec EXCEPT ![t] = [step |-> "settling", read |-> row]]
    /\ UNCHANGED <<row, status, paid, received, lock, cache, call, query, settled, lost,
                   faults, expired>>

\* ... and writes them from what it read: the sender's first, and then the
\* receiver's, which is the same row when somebody pays himself.  safeSub
\* throws when the result would be negative; the fee stays reserved.
SettleWrite(t) ==
    /\ exec[t].step = "settling"
    /\ LET from == call[t].from    to == call[t].to    n == call[t].amount
           read == exec[t].read
       IN  /\ read[from].balance >= n /\ read[from].reserved >= n
           /\ row' = [row EXCEPT ![from] = [balance |-> read[from].balance - n,
                                            reserved |-> read[from].reserved - n],
                                 ![to].balance = read[to].balance + n]
           /\ lost' = lost \cup Stale({from, to}, read) \cup ({from} \cap {to})
    /\ SetStatus(t, "completed")
    /\ settled' = settled \cup {t}
    /\ Proceed(t, "invalidating")
    /\ UNCHANGED <<paid, received, lock, cache, call, query, faults, expired>>

\* safeSub throws: the transaction is rolled back and the transfer fails.
SettleThrows(t) ==
    /\ exec[t].step = "settling"
    /\ \/ exec[t].read[call[t].from].balance < call[t].amount
       \/ exec[t].read[call[t].from].reserved < call[t].amount
    /\ exec' = [exec EXCEPT ![t] = [step |-> "failing", sent |-> TRUE]]
    /\ UNCHANGED <<row, status, paid, received, lock, cache, call, query, settled, lost,
                   faults, expired>>

\* Both cache entries are deleted, both queues told.
Invalidate(t) ==
    /\ exec[t].step = "invalidating"
    /\ cache' = [cache EXCEPT ![call[t].from] = NoValue, ![call[t].to] = NoValue]
    /\ Proceed(t, "done")
    /\ UNCHANGED <<row, status, paid, received, lock, call, query, settled, lost, faults, expired>>

\* An awaited call throws: Postgres, the node (before or after it took the
\* transaction), Redis or a queue.
Throw(t) ==
    /\ faults + expired < MaxMishaps
    /\ faults' = faults + 1
    /\ \/ exec[t].step \in {"starting", "sending"} /\ \E sent \in {FALSE, exec[t].step = "sending"} :
             exec' = [exec EXCEPT ![t] = [step |-> "failing", sent |-> sent]]
       \/ /\ exec[t].step \in {"sent", "waiting", "settling", "invalidating"}
          /\ exec' = [exec EXCEPT ![t] = [step |-> "failing", sent |-> TRUE]]
    /\ UNCHANGED <<row, status, paid, received, lock, cache, call, query, settled, lost, expired>>

\* catch: FAILED, whatever was done before; nothing is released.
Fail(t) ==
    /\ exec[t].step = "failing"
    /\ SetStatus(t, "failed")
    /\ Proceed(t, "failed")
    /\ UNCHANGED <<row, paid, received, lock, cache, call, query, settled, lost, faults, expired>>

-----------------------------------------------------------------------------
(* getBalance.                                                             *)

\* A cached value is returned as it is; otherwise the chain is asked.
AskChain(g, w) ==
    /\ query[g].step = "idle"
    /\ cache[w] = NoValue
    /\ query' = [query EXCEPT ![g] = [step |-> "syncing", wallet |-> w, read |-> row[w],
                                      balance |-> OnChain(w)]]
    /\ UNCHANGED <<row, status, paid, received, lock, cache, call, exec, settled, lost,
                   faults, expired>>

\* The column of the row is set to the balance on the chain.
SyncRow(g) ==
    /\ query[g].step = "syncing"
    /\ LET w == query[g].wallet
       IN  /\ row' = [row EXCEPT ![w].balance = query[g].balance]
           /\ lost' = lost \cup (IF row[w] # query[g].read THEN {w} ELSE {})
    /\ query' = [query EXCEPT ![g].step = "caching"]
    /\ UNCHANGED <<status, paid, received, lock, cache, call, exec, settled, faults, expired>>

FillCache(g) ==
    /\ query[g].step = "caching"
    /\ cache' = [cache EXCEPT ![query[g].wallet] = query[g].balance]
    /\ query' = [query EXCEPT ![g] = [step |-> "done"]]
    /\ UNCHANGED <<row, status, paid, received, lock, call, exec, settled, lost, faults, expired>>

-----------------------------------------------------------------------------
\* A key of Redis reaches the end of its 30 seconds.
Expire(w) ==
    /\ faults + expired < MaxMishaps
    /\ expired' = expired + 1
    /\ \/ lock[w] # Nobody /\ lock' = [lock EXCEPT ![w] = Nobody] /\ UNCHANGED cache
       \/ cache[w] # NoValue /\ cache' = [cache EXCEPT ![w] = NoValue] /\ UNCHANGED lock
    /\ UNCHANGED <<row, status, paid, received, call, exec, query, settled, lost, faults>>

Next ==
    \/ \E t \in Transfers :
          \/ \E from, to \in Wallets, amount \in Units : ReadSender(t, from, to, amount)
          \/ TakeLock(t) \/ Check(t) \/ Commit(t) \/ Rollback(t) \/ CompareLock(t) \/ DeleteLock(t)
          \/ Process(t) \/ SendTransfer(t) \/ Confirming(t) \/ Mine(t)
          \/ SettleRead(t) \/ SettleWrite(t) \/ SettleThrows(t) \/ Invalidate(t)
          \/ Throw(t) \/ Fail(t)
    \/ \E g \in Readers :
          (\E w \in Wallets : AskChain(g, w)) \/ SyncRow(g) \/ FillCache(g)
    \/ \E w \in Wallets : Expire(w)

Spec == Init /\ [][Next]_vars

-----------------------------------------------------------------------------
(* What the wallet service keeps true of reservations, of its lock and of  *)
(* its records.                                                            *)

Committed(w) == {t \in Transfers : status[t] # "none" /\ call[t].from = w}
SettledOf(w) == {t \in settled : call[t].from = w}

Reserved(w) == SumFunctionOnSet([t \in Committed(w) |-> Total(t)], Committed(w))
Released(w) == SumFunctionOnSet([t \in SettledOf(w) |-> call[t].amount], SettledOf(w))

\* The reserved column of a wallet is what its recorded transfers reserved
\* less what its completed ones released, unless a transaction wrote the row
\* from an older read of it: a reservation is then gone, or back again.  It
\* holds through every failure: a transfer that fails keeps its reservation
\* and a completed one its fee, for nothing releases them (wallet.service.ts
\* lines 182-187, 267-276 and 310-316).
ReservedIsExplained ==
    \A w \in Wallets \ lost : row[w].reserved = Reserved(w) - Released(w)

\* Two transfers of one wallet are between the lock and its release together
\* only after a key of Redis ran out (line 166, and the compare and delete of
\* lines 216-219, which may delete the lock of somebody else).
LockExclusive ==
    \A t, u \in Transfers :
        /\ {call[t].step, call[u].step} \subseteq {"checking", "committing", "releasing", "deleting"}
        /\ t # u /\ call[t].from = call[u].from
        => expired > 0

=============================================================================
