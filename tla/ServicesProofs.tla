----------------------------- MODULE ServicesProofs -----------------------------
(***************************************************************************)
(* What the services promise, for any number of wallets, transfers,        *)
(* clients, deposits and requests.                                         *)
(***************************************************************************)
EXTENDS ServicesProperties, Sums, SequenceTheorems, FiniteSetTheorems, TLAPS

-----------------------------------------------------------------------------
(* The FX engine.                                                          *)

QuoteRecords == [locked : [from : X!Fetched, to : X!Fetched], live : BOOLEAN]

ClientOK(w) ==
    /\ w.step \in {"idle", "converting", "storing", "deleting"}
    /\ w.step = "converting" => w.from \in X!Fetched
    /\ w.step = "storing" => w.quote \in [from : X!Fetched, to : X!Fetched]
    /\ w.step = "deleting" => w.quote \in DOMAIN quotes

FxType ==
    /\ quotes \in Seq(QuoteRecords)
    /\ used \in Seq(DOMAIN quotes)
    /\ client = [c \in Clients |-> client[c]]
    /\ \A c \in Clients : ClientOK(client[c])

Holds(c, q) == client[c].step = "deleting" /\ client[c].quote = q

\* A quote that two requests never shared is read by one at a time, and by
\* none once it was used.
FxInv ==
    \A q \in DOMAIN quotes \ shared :
       /\ \A c, d \in Clients : Holds(c, q) /\ Holds(d, q) => c = d
       /\ \A i \in DOMAIN used : used[i] = q =>
             /\ ~quotes[q].live
             /\ \A c \in Clients : ~Holds(c, q)
       /\ \A i, j \in DOMAIN used : used[i] = q /\ used[j] = q => i = j

\* A key of Redis that runs out, or is deleted, changes no other quote.
LEMMA KeyGone ==
    ASSUME quotes \in Seq(QuoteRecords), NEW q \in DOMAIN quotes,
           quotes' = [quotes EXCEPT ![q].live = FALSE]
    PROVE  /\ quotes' \in Seq(QuoteRecords) /\ DOMAIN quotes' = DOMAIN quotes
           /\ ~quotes'[q].live
           /\ \A p \in DOMAIN quotes \ {q} : quotes'[p] = quotes[p]
  <1> DEFINE r == [quotes[q] EXCEPT !.live = FALSE]
  <1>1. quotes[q] \in QuoteRecords
    OBVIOUS
  <1>2. r \in QuoteRecords /\ ~r.live
    BY <1>1 DEF QuoteRecords
  <1>3. quotes' = [quotes EXCEPT ![q] = r]
    OBVIOUS
  <1> HIDE DEF r
  <1>4. quotes' \in Seq(QuoteRecords) /\ DOMAIN quotes' = DOMAIN quotes
    <2>1. q \in 1..Len(quotes) /\ DOMAIN quotes = 1..Len(quotes)
      OBVIOUS
    <2>2. [quotes EXCEPT ![q] = r] \in Seq(QuoteRecords) /\ Len([quotes EXCEPT ![q] = r]) = Len(quotes)
      BY <1>2, <2>1, ExceptSeq
    <2> QED
      BY <1>3, <2>1, <2>2
  <1>5. \A p \in DOMAIN quotes : quotes'[p] = IF p = q THEN r ELSE quotes[p]
    BY <1>3
  <1> QED
    BY <1>2, <1>4, <1>5

\* Nothing was asked for yet.
LEMMA FxInit ==
    ASSUME X!Init
    PROVE  FxType /\ FxInv
  <1>1. quotes = << >> /\ used = << >> /\ DOMAIN quotes = {} /\ DOMAIN used = {}
    BY DEF X!Init
  <1>2. FxType
    BY <1>1 DEF X!Init, FxType, ClientOK
  <1> QED
    BY <1>1, <1>2 DEF FxInv

\* A request that neither reads nor hands out a quote, while the quotes that
\* are there can only run out and another may be stored.
LEMMA FxOther ==
    ASSUME FxType, FxInv, UNCHANGED <<used, shared>>,
           quotes' \in Seq(QuoteRecords), DOMAIN quotes \subseteq DOMAIN quotes',
           \A q \in DOMAIN quotes : quotes'[q].live => quotes[q].live,
           client' = [c \in Clients |-> client'[c]],
           \A c \in Clients : \/ client'[c] = client[c]
                              \/ client'[c].step # "deleting" /\ ClientOK(client'[c])
    PROVE  (FxType /\ FxInv)'
  <1>1. FxType'
    <2>1. used' \in Seq(DOMAIN quotes')
      BY DEF FxType
    <2>2. \A c \in Clients : ClientOK(client[c])'
      BY DEF FxType, ClientOK
    <2> QED
      BY <2>1, <2>2 DEF FxType
  <1>2. \A c \in Clients : \A q : Holds(c, q)' => Holds(c, q)
    BY DEF Holds
  <1>3. \A i \in DOMAIN used : used[i] \in DOMAIN quotes
    BY DEF FxType
  <1>4. \A c \in Clients : \A q : Holds(c, q) => q \in DOMAIN quotes
    BY DEF Holds, FxType, ClientOK
  <1> QED
    BY <1>1, <1>2, <1>3, <1>4 DEF FxInv

\* A request reads a quote, which another may be about to delete.
LEMMA FxGet ==
    ASSUME FxType, FxInv, NEW c \in Clients, NEW q \in DOMAIN quotes, X!GetQuote(c, q)
    PROVE  (FxType /\ FxInv)'
  <1>1. /\ client' = [client EXCEPT ![c] = [step |-> "deleting", quote |-> q]]
        /\ quotes[q].live
        /\ quotes' = quotes /\ used' = used
    BY DEF X!GetQuote
  <1>2. FxType'
    BY <1>1 DEF FxType, ClientOK
  <1>3. \A d \in Clients : \A p : Holds(d, p)' <=> IF d = c THEN p = q ELSE Holds(d, p)
    BY <1>1 DEF Holds, FxType
  <1>4. \A i \in DOMAIN used : q \notin shared => used[i] # q
    BY <1>1 DEF FxInv
  <1>5. /\ shared \subseteq shared'
        /\ q \notin shared' => \A d \in Clients : ~Holds(d, q)
    BY DEF X!GetQuote, Holds
  <1> QED
    BY <1>1, <1>2, <1>3, <1>4, <1>5 DEF FxInv

\* It deletes the quote and goes on to the exchange.
LEMMA FxDelete ==
    ASSUME FxType, FxInv, NEW c \in Clients, X!DeleteQuote(c)
    PROVE  (FxType /\ FxInv)'
  <1> DEFINE q == client[c].quote
  <1>1. /\ client[c].step = "deleting" /\ q \in DOMAIN quotes
        /\ quotes' = [quotes EXCEPT ![q].live = FALSE]
        /\ used' = Append(used, q)
        /\ client' = [client EXCEPT ![c] = [step |-> "idle"]]
        /\ shared' = shared
    BY DEF X!DeleteQuote, FxType, ClientOK
  <1> HIDE DEF q
  <1>2. /\ quotes' \in Seq(QuoteRecords) /\ DOMAIN quotes' = DOMAIN quotes
        /\ \A p \in DOMAIN quotes : quotes'[p].live => quotes[p].live /\ p # q
    BY <1>1, KeyGone DEF FxType
  <1>3. /\ DOMAIN used' = DOMAIN used \cup {Len(used) + 1}
        /\ used'[Len(used) + 1] = q
        /\ \A i \in DOMAIN used : used'[i] = used[i] /\ i # Len(used) + 1
    BY <1>1 DEF FxType
  <1>4. FxType'
    <2>1. used' \in Seq(DOMAIN quotes')
      BY <1>1, <1>2 DEF FxType
    <2>2. \A d \in Clients : ClientOK(client[d])'
      BY <1>1, <1>2 DEF FxType, ClientOK
    <2> QED
      BY <1>1, <1>2, <2>1, <2>2 DEF FxType
  <1>5. Holds(c, q) /\ \A d \in Clients : \A p : Holds(d, p)' <=> d # c /\ Holds(d, p)
    BY <1>1 DEF Holds, FxType, q
  <1>6. \A i \in DOMAIN used : q \notin shared => used[i] # q
    BY <1>1, <1>5 DEF FxInv
  <1> QED
    BY <1>1, <1>2, <1>3, <1>4, <1>5, <1>6 DEF FxInv

\* Every step of the FX engine.
LEMMA FxNext ==
    ASSUME FxType, FxInv, [X!Next]_(X!fxVars)
    PROVE  (FxType /\ FxInv)'
  <1>1. CASE UNCHANGED X!fxVars
    BY <1>1, FxOther DEF X!fxVars, FxType
  <1>2. CASE X!StartRefresh \/ \E f \in Fiats : X!Refresh(f) \/ X!RateExpires(f)
    BY <1>2, FxOther DEF X!StartRefresh, X!Refresh, X!RateExpires, FxType
  <1>3. ASSUME NEW q \in DOMAIN quotes, X!QuoteExpires(q)
        PROVE  (FxType /\ FxInv)'
    <2>1. quotes' \in Seq(QuoteRecords) /\ DOMAIN quotes' = DOMAIN quotes
      BY <1>3, KeyGone DEF X!QuoteExpires, FxType
    <2>2. \A p \in DOMAIN quotes : quotes'[p].live => quotes[p].live
      BY <1>3, KeyGone DEF X!QuoteExpires, FxType
    <2> QED
      BY <1>3, <2>1, <2>2, FxOther DEF X!QuoteExpires, FxType
  <1>4. ASSUME NEW c \in Clients,
               NEW w, client' = [client EXCEPT ![c] = w], ClientOK(w), w.step # "deleting",
               UNCHANGED <<quotes, used, shared>>
        PROVE  (FxType /\ FxInv)'
    BY <1>4, FxOther DEF FxType
  <1>5. ASSUME NEW c \in Clients, NEW f \in Fiats, NEW g \in Fiats, X!ConvertFrom(c, f, g)
        PROVE  (FxType /\ FxInv)'
    <2>1. PICK rate \in X!Fetched :
             client' = [client EXCEPT ![c] = [step |-> "converting", from |-> rate, to |-> g]]
      BY <1>5 DEF X!ConvertFrom
    <2>2. UNCHANGED <<quotes, used, shared>>
      BY <1>5 DEF X!ConvertFrom
    <2> DEFINE w == [step |-> "converting", from |-> rate, to |-> g]
    <2>3. ClientOK(w) /\ w.step # "deleting" /\ client' = [client EXCEPT ![c] = w]
      BY <2>1 DEF ClientOK
    <2> HIDE DEF w
    <2> QED
      BY <1>4, <2>2, <2>3
  <1>6. ASSUME NEW c \in Clients, X!ConvertTo(c)
        PROVE  (FxType /\ FxInv)'
    <2>1. PICK rate \in X!Fetched :
             client' = [client EXCEPT ![c] =
                [step |-> "storing", quote |-> [from |-> client[c].from, to |-> rate]]]
      BY <1>6 DEF X!ConvertTo
    <2>2. UNCHANGED <<quotes, used, shared>> /\ client[c].from \in X!Fetched
      BY <1>6 DEF X!ConvertTo, FxType, ClientOK
    <2> DEFINE w == [step |-> "storing", quote |-> [from |-> client[c].from, to |-> rate]]
    <2>3. ClientOK(w) /\ w.step # "deleting" /\ client' = [client EXCEPT ![c] = w]
      BY <2>1, <2>2 DEF ClientOK
    <2> HIDE DEF w
    <2> QED
      BY <1>4, <2>2, <2>3
  <1>7. ASSUME NEW c \in Clients, X!StoreQuote(c)
        PROVE  (FxType /\ FxInv)'
    <2>1. /\ quotes' = Append(quotes, [locked |-> client[c].quote, live |-> TRUE])
          /\ [locked |-> client[c].quote, live |-> TRUE] \in QuoteRecords
          /\ client' = [client EXCEPT ![c] = [step |-> "idle"]]
      BY <1>7 DEF X!StoreQuote, FxType, ClientOK, QuoteRecords
    <2>2. /\ quotes' \in Seq(QuoteRecords) /\ DOMAIN quotes \subseteq DOMAIN quotes'
          /\ \A q \in DOMAIN quotes : quotes'[q] = quotes[q]
      BY <2>1 DEF FxType
    <2>3. ClientOK([step |-> "idle"])
      BY DEF ClientOK
    <2> QED
      BY <1>7, <2>1, <2>2, <2>3, FxOther DEF X!StoreQuote, FxType
  <1> QED
    BY <1>1, <1>2, <1>3, <1>5, <1>6, <1>7, FxGet, FxDelete DEF X!Next

\* However many requests ask for quotes and consume them, and whenever keys run
\* out, a quote is used twice only when two requests had both read it.
THEOREM QuotesServeOnce == X!Spec => []QuoteUsedOnce
  <1>1. X!Init => FxType /\ FxInv
    BY FxInit
  <1>2. FxType /\ FxInv /\ [X!Next]_(X!fxVars) => (FxType /\ FxInv)'
    BY FxNext
  <1>3. FxType /\ FxInv => QuoteUsedOnce
    BY DEF FxType, FxInv, QuoteUsedOnce, X!QuoteUsedOnce
  <1> QED
    BY <1>1, <1>2, <1>3, PTL DEF X!Spec

-----------------------------------------------------------------------------
(* The fiat bridge.                                                        *)

Works(h, d) == hook[h].step \in {"marking", "queueing"} /\ hook[h].id = d

DepositRows == [status : {"none"}]
               \cup [status : {"pending", "processing"}, provider : Providers, referenced : BOOLEAN]

HookStates == [step : {"idle", "done"}]
              \cup [step : {"looking"}, id : Deposits \cup F!Account \cup {F!Tracking}]
              \cup [step : {"marking", "queueing"}, id : Deposits]

FiatType ==
    /\ deposit \in [Deposits -> DepositRows]
    /\ mints \in [Deposits -> Nat]
    /\ hook \in [Hooks -> HookStates]
    /\ stopped \in Nat

\* Before a deposit is marked nothing is queued for it.  When no two calls
\* found it pending, at most one works on it, and none once its mint is queued.
FiatOne(d) ==
    /\ deposit[d].status \in {"none", "pending"} => mints[d] = 0 /\ F!Queueing(d) = {}
    /\ deposit[d].status = "none" => \A h \in Hooks : ~Works(h, d)
    /\ deposit[d].status = "processing" /\ mints[d] = 0 => F!Queueing(d) # {} \/ stopped > 0
    /\ d \notin doubled =>
          /\ \A h, g \in Hooks : Works(h, d) /\ Works(g, d) => h = g
          /\ \A h \in Hooks : Works(h, d) => mints[d] = 0
          /\ \A h \in Hooks : Works(h, d) /\ hook[h].step = "marking"
                                => deposit[d].status = "pending"
          /\ mints[d] <= 1

FiatInv == \A d \in Deposits : FiatOne(d)

\* A step that neither finds, marks nor queues: rows of new deposits may come
\* and references be filled in.
LEMMA FiatOther ==
    ASSUME FiatType, FiatInv, UNCHANGED <<hook, mints, stopped, doubled>>,
           deposit' \in [Deposits -> DepositRows],
           \A d \in Deposits : \/ deposit'[d].status = deposit[d].status
                               \/ deposit[d].status = "none" /\ deposit'[d].status = "pending"
    PROVE  (FiatType /\ FiatInv)'
  <1>1. FiatType'
    BY DEF FiatType
  <1> QED
    BY <1>1 DEF FiatInv, FiatOne, Works, F!Queueing

\* A call takes a step that leaves no trace but its own.
LEMMA FiatCall ==
    ASSUME FiatType, FiatInv, UNCHANGED <<deposit, mints, stopped, doubled>>,
           NEW h \in Hooks, NEW w, hook' = [hook EXCEPT ![h] = w],
           hook[h].step \notin {"marking", "queueing"}, w \in HookStates, w.step \notin {"marking", "queueing"}
    PROVE  (FiatType /\ FiatInv)'
  <1>1. FiatType'
    BY DEF FiatType
  <1>2. \A g \in Hooks : \A d : Works(g, d)' <=> Works(g, d)
    BY DEF Works, FiatType
  <1>3. \A d : F!Queueing(d)' = F!Queueing(d)
    BY DEF F!Queueing, FiatType
  <1>4. \A g \in Hooks : \A d : Works(g, d) => hook'[g] = hook[g]
    BY DEF Works, FiatType
  <1> QED
    BY <1>1, <1>2, <1>3, <1>4 DEF FiatInv, FiatOne

\* The deposit is looked up; two calls may find it pending.
LEMMA FiatFind ==
    ASSUME FiatType, FiatInv, NEW h \in Hooks, F!FindDeposit(h)
    PROVE  (FiatType /\ FiatInv)'
  <1> DEFINE id == hook[h].id
             w == [step |-> "done"]
             marks == [hook[h] EXCEPT !.step = "marking"]
  <1>1. CASE ~F!Accepts(id)
    <2>1. /\ hook' = [hook EXCEPT ![h] = w]
          /\ UNCHANGED <<deposit, mints, stopped, doubled>> /\ hook[h].step = "looking"
      BY <1>1 DEF F!FindDeposit
    <2>2. w.step = "done" /\ w \in HookStates
      BY DEF HookStates
    <2> HIDE DEF w
    <2> QED
      BY <2>1, <2>2, FiatCall
  <1>2. CASE F!Accepts(id)
    <2>1. /\ hook[h].step = "looking" /\ id \in Deposits /\ deposit[id].status = "pending"
          /\ hook' = [hook EXCEPT ![h].step = "marking"]
          /\ doubled \subseteq doubled' /\ doubled' \subseteq doubled \cup {id}
          /\ id \notin doubled' => \A g \in Hooks : ~(hook[g].step = "marking" /\ hook[g].id = id)
          /\ UNCHANGED <<deposit, mints, stopped>>
      BY <1>2 DEF F!FindDeposit, F!Accepts
    <2> HIDE DEF id
    <2>2. FiatType'
      BY <2>1 DEF FiatType, HookStates, DepositRows, id
    <2>3. /\ \A g \in Hooks : \A d : Works(g, d)' <=> IF g = h THEN d = id ELSE Works(g, d)
          /\ \A g \in Hooks \ {h} : hook'[g] = hook[g]
      BY <2>1 DEF Works, FiatType, HookStates, DepositRows, id
    <2>4. \A d : F!Queueing(d)' = F!Queueing(d)
      BY <2>1 DEF F!Queueing, FiatType, HookStates, DepositRows
    <2>5. F!Queueing(id) = {} /\ mints[id] = 0
      BY <2>1 DEF FiatInv, FiatOne
    <2>6. id \notin doubled' => \A g \in Hooks : ~Works(g, id)
      BY <2>1, <2>5 DEF Works, F!Queueing
    <2>7. ~Works(h, id)
      BY <2>1 DEF Works
    <2> QED
      BY <2>1, <2>2, <2>3, <2>4, <2>5, <2>6, <2>7 DEF FiatInv, FiatOne
  <1> QED
    BY <1>1, <1>2

\* The row says processing.
LEMMA FiatMark ==
    ASSUME FiatType, FiatInv, NEW h \in Hooks, F!MarkProcessing(h)
    PROVE  (FiatType /\ FiatInv)'
  <1>1. PICK id \in Deposits : hook[h] = [step |-> "marking", id |-> id]
    BY DEF F!MarkProcessing, FiatType, HookStates
  <1>2. /\ deposit' = [deposit EXCEPT ![id].status = "processing"]
        /\ hook' = [hook EXCEPT ![h] = [step |-> "queueing", id |-> id]]
        /\ UNCHANGED <<mints, stopped, doubled>>
    <2>1. [hook[h] EXCEPT !.step = "queueing"] = [step |-> "queueing", id |-> id]
      BY <1>1
    <2> QED
      BY <1>1, <2>1 DEF F!MarkProcessing
  <1>3. /\ \A g \in Hooks : \A d : Works(g, d)' <=> Works(g, d)
        /\ \A g \in Hooks \ {h} : hook'[g] = hook[g]
        /\ Works(h, id) /\ hook'[h].step = "queueing"
    BY <1>1, <1>2 DEF Works, FiatType
  <1>4. h \in F!Queueing(id)' /\ \A d \in Deposits \ {id} : F!Queueing(d)' = F!Queueing(d)
    BY <1>1, <1>2 DEF F!Queueing, FiatType
  <1>5. deposit[id].status # "none"
    BY <1>3 DEF FiatInv, FiatOne
  <1>6. deposit[id] \in [status : {"pending", "processing"}, provider : Providers, referenced : BOOLEAN]
    BY <1>5 DEF FiatType, DepositRows
  <1>7. /\ deposit' \in [Deposits -> DepositRows]
        /\ deposit'[id].status = "processing"
        /\ \A d \in Deposits \ {id} : deposit'[d] = deposit[d]
    BY <1>2, <1>6 DEF FiatType, DepositRows
  <1>8. FiatType'
    BY <1>2, <1>7 DEF FiatType, HookStates
  <1>9. id \notin doubled => mints[id] = 0 /\ \A g \in Hooks : Works(g, id) => g = h
    BY <1>3 DEF FiatInv, FiatOne
  <1>10. FiatOne(id)'
    BY <1>2, <1>3, <1>4, <1>7, <1>9 DEF FiatOne
  <1>11. \A d \in Deposits \ {id} : ~Works(h, d)
    BY <1>1 DEF Works
  <1>12. \A d \in Deposits \ {id} : FiatOne(d)'
    BY <1>2, <1>3, <1>4, <1>7, <1>11 DEF FiatInv, FiatOne
  <1> QED
    BY <1>8, <1>10, <1>12 DEF FiatInv

\* The mint is queued and the call answered.
LEMMA FiatQueue ==
    ASSUME FiatType, FiatInv, NEW h \in Hooks, F!QueueMint(h)
    PROVE  (FiatType /\ FiatInv)'
  <1>1. PICK id \in Deposits : hook[h] = [step |-> "queueing", id |-> id]
    BY DEF F!QueueMint, FiatType, HookStates
  <1>2. /\ mints' = [mints EXCEPT ![id] = @ + 1]
        /\ hook' = [hook EXCEPT ![h] = [step |-> "done"]]
        /\ UNCHANGED <<deposit, stopped, doubled>>
    BY <1>1 DEF F!QueueMint
  <1>3. /\ \A g \in Hooks : \A d : Works(g, d)' <=> g # h /\ Works(g, d)
        /\ \A g \in Hooks \ {h} : hook'[g] = hook[g]
        /\ Works(h, id)
    BY <1>1, <1>2 DEF Works, FiatType
  <1>4. /\ h \in F!Queueing(id)
        /\ \A d \in Deposits \ {id} : F!Queueing(d)' = F!Queueing(d)
    BY <1>1, <1>2 DEF F!Queueing, FiatType
  <1>5. /\ mints[id] \in Nat /\ mints'[id] = mints[id] + 1
        /\ \A d \in Deposits \ {id} : mints'[d] = mints[d]
    BY <1>2 DEF FiatType
  <1>6. FiatType'
    BY <1>2, <1>5 DEF FiatType, HookStates
  <1>7. deposit[id].status \notin {"none", "pending"}
    BY <1>4 DEF FiatInv, FiatOne
  <1>8. id \notin doubled => mints[id] = 0 /\ \A g \in Hooks : Works(g, id) => g = h
    BY <1>3 DEF FiatInv, FiatOne
  <1>9. FiatOne(id)'
    BY <1>2, <1>3, <1>5, <1>7, <1>8 DEF FiatOne
  <1>10. \A d \in Deposits \ {id} : ~Works(h, d)
    BY <1>1 DEF Works
  <1>11. \A d \in Deposits \ {id} : FiatOne(d)'
    BY <1>2, <1>3, <1>4, <1>5, <1>10 DEF FiatInv, FiatOne
  <1> QED
    BY <1>6, <1>9, <1>11 DEF FiatInv

\* A call throws.
LEMMA FiatStop ==
    ASSUME FiatType, FiatInv, NEW h \in Hooks, F!Stop(h)
    PROVE  (FiatType /\ FiatInv)'
  <1>1. /\ stopped \in Nat /\ stopped' = stopped + 1
        /\ hook' = [hook EXCEPT ![h] = [step |-> "idle"]]
        /\ UNCHANGED <<deposit, mints, doubled>>
    BY DEF F!Stop, FiatType, HookStates, DepositRows
  <1>2. FiatType'
    BY <1>1 DEF FiatType, HookStates, DepositRows
  <1>3. /\ \A g \in Hooks : \A d : Works(g, d)' <=> g # h /\ Works(g, d)
        /\ \A g \in Hooks \ {h} : hook'[g] = hook[g]
    BY <1>1 DEF Works, FiatType, HookStates, DepositRows
  <1>4. \A d \in Deposits : F!Queueing(d)' \subseteq F!Queueing(d)
    BY <1>1 DEF F!Queueing, FiatType, HookStates, DepositRows
  <1>5. stopped' > 0
    BY <1>1
  <1> QED
    BY <1>1, <1>2, <1>3, <1>4, <1>5 DEF FiatInv, FiatOne

\* Every step of the fiat bridge.
LEMMA FiatNext ==
    ASSUME FiatType, FiatInv, [F!Next]_(F!fiatVars)
    PROVE  (FiatType /\ FiatInv)'
  <1>1. CASE UNCHANGED F!fiatVars
    BY <1>1, FiatOther DEF F!fiatVars, FiatType
  <1>2. CASE F!Withdraw \/ \E a \in F!Account : F!FindNoAccount(a) \/ F!CreateAccount(a)
    BY <1>2, FiatOther DEF F!Withdraw, F!FindNoAccount, F!CreateAccount, FiatType
  <1>3. ASSUME NEW d \in Deposits, F!SaveReference(d)
        PROVE  (FiatType /\ FiatInv)'
    <2>1. \A e \in Deposits : deposit'[e].status = deposit[e].status
      BY <1>3 DEF F!SaveReference, FiatType, DepositRows
    <2>2. deposit' \in [Deposits -> DepositRows]
      BY <1>3 DEF F!SaveReference, FiatType, DepositRows
    <2> QED
      BY <1>3, <2>1, <2>2, FiatOther DEF F!SaveReference
  <1>4. ASSUME NEW d \in Deposits, NEW provider \in Providers, F!SaveDeposit(d, provider)
        PROVE  (FiatType /\ FiatInv)'
    <2>1. deposit' \in [Deposits -> DepositRows]
      BY <1>4 DEF F!SaveDeposit, FiatType, DepositRows
    <2>2. \A e \in Deposits : \/ deposit'[e].status = deposit[e].status
                              \/ deposit[e].status = "none" /\ deposit'[e].status = "pending"
      BY <1>4 DEF F!SaveDeposit, FiatType
    <2> QED
      BY <1>4, <2>1, <2>2, FiatOther DEF F!SaveDeposit
  <1>5. ASSUME NEW h \in Hooks, NEW a \in F!Account, F!Resolve(h, a)
        PROVE  (FiatType /\ FiatInv)'
    <2> DEFINE w == [step |-> "looking", id |-> IF a[2] = "MX" THEN F!Tracking ELSE a]
    <2>1. hook' = [hook EXCEPT ![h] = w] /\ w.step = "looking" /\ w \in HookStates
      BY <1>5 DEF F!Resolve, F!Lookup, HookStates
    <2> HIDE DEF w
    <2> QED
      BY <1>5, <2>1, FiatCall DEF F!Resolve
  <1>6. ASSUME NEW h \in Hooks, NEW d \in Deposits, F!CoDi(h, d)
        PROVE  (FiatType /\ FiatInv)'
    <2> DEFINE w == [step |-> "looking", id |-> d]
    <2>1. hook' = [hook EXCEPT ![h] = w] /\ w.step = "looking" /\ w \in HookStates
      BY <1>6 DEF F!CoDi, F!Lookup, HookStates
    <2> HIDE DEF w
    <2> QED
      BY <1>6, <2>1, FiatCall DEF F!CoDi
  <1> QED
    BY <1>1, <1>2, <1>3, <1>4, <1>5, <1>6, FiatFind, FiatMark, FiatQueue, FiatStop DEF F!Next

\* However often the banks deliver again and whichever calls throw, a deposit
\* has one mint queued, unless two calls had both found it pending; and a
\* deposit that says processing without one is about to have it, or a call
\* had thrown.
THEOREM MintsQueuedOnce == F!Spec => []MintQueuedOnce
  <1>1. F!Init => FiatType /\ FiatInv
    <2> SUFFICES ASSUME F!Init PROVE FiatType /\ FiatInv
      OBVIOUS
    <2>1. FiatType
      BY DEF F!Init, FiatType, DepositRows, HookStates
    <2>2. \A d \in Deposits : deposit[d].status = "none" /\ mints[d] = 0 /\ F!Queueing(d) = {}
      BY DEF F!Init, F!Queueing
    <2>3. \A h \in Hooks, d \in Deposits : ~Works(h, d)
      BY DEF F!Init, Works
    <2> QED
      BY <2>1, <2>2, <2>3 DEF FiatInv, FiatOne
  <1>2. FiatType /\ FiatInv /\ [F!Next]_(F!fiatVars) => (FiatType /\ FiatInv)'
    BY FiatNext
  <1>3. FiatType /\ FiatInv => MintQueuedOnce
    BY DEF FiatType, FiatInv, FiatOne, MintQueuedOnce, F!MintQueuedOnce
  <1> QED
    BY <1>1, <1>2, <1>3, PTL DEF F!Spec

-----------------------------------------------------------------------------
(* The wallet service.                                                     *)

\* The sum of an instance is the sum.
LEMMA WalletSum ==
    ASSUME NEW f, NEW S
    PROVE  W!SumFunctionOnSet(f, S) = SumFunctionOnSet(f, S)
  BY DEF W!SumFunctionOnSet, W!FoldFunctionOnSet, W!MapThenFoldSet,
         SumFunctionOnSet, FoldFunctionOnSet, MapThenFoldSet

Rows == [balance : Int, reserved : Int]

CallStates ==
    [step : {"idle"}]
    \cup [step : {"locking", "checking", "committing", "releasing", "deleting", "done"},
          from : Wallets, to : Wallets, amount : Units, read : Rows]

ExecSteps == {"idle", "starting", "sending", "sent", "waiting", "invalidating", "failing",
              "failed", "done"}

ExecStates ==
    [step : ExecSteps]
    \cup [step : ExecSteps \cup {"settling"}, read : [Wallets -> Rows]]
    \cup [step : ExecSteps, sent : BOOLEAN]

QueryStates ==
    [step : {"idle", "done"}]
    \cup [step : {"syncing", "caching"}, wallet : Wallets, read : Rows, balance : Int]

Begun == {t \in Transfers : call[t].step # "idle"}

WalletType ==
    /\ row \in [Wallets -> Rows]
    /\ status = [t \in Transfers |-> status[t]]
    /\ received \in [Wallets -> Int]
    /\ lock = [w \in Wallets |-> lock[w]]
    /\ call \in [Transfers -> CallStates]
    /\ exec \in [Transfers -> ExecStates]
    /\ query \in [Readers -> QueryStates]
    /\ settled \subseteq Transfers
    /\ expired \in Nat
    /\ IsFiniteSet(Begun)

\* A transfer is recorded by its commit, executed from the step before it, and
\* completed once.
WalletOrder ==
    \A t \in Transfers :
        /\ status[t] # "none" => call[t].step \in {"releasing", "deleting", "done"}
        /\ exec[t].step # "idle" => call[t].step \notin {"idle", "locking", "checking"}
        /\ t \in settled => exec[t].step \in {"invalidating", "done", "failing", "failed"}

Locked(t) == call[t].step \in {"checking", "committing", "releasing", "deleting"}

\* As long as no key ran out, who is past the lock has it.
LockHeld == expired = 0 => \A t \in Transfers : Locked(t) => lock[call[t].from] = t

\* What a call of initiateTransfer keeps of itself.
CallGoes(t) ==
    /\ call'[t].step # "idle"
    /\ call'[t].from = call[t].from /\ call'[t].to = call[t].to
    /\ call'[t].amount = call[t].amount /\ call'[t].read = call[t].read

\* Amounts are integers.
LEMMA AmountInt == \A n \in Units : n \in Int
  BY WalletServiceAssumption

\* One call takes its next step.
LEMMA Going ==
    ASSUME WalletType, NEW t \in Transfers, call[t].step # "idle",
           NEW step \in {"locking", "checking", "committing", "releasing", "deleting", "done"},
           W!Goto(t, step)
    PROVE  /\ call' \in [Transfers -> CallStates]
           /\ call'[t].step = step /\ CallGoes(t)
           /\ \A u \in Transfers \ {t} : call'[u] = call[u]
           /\ Begun' = Begun
  <1>1. call[t] \in [step : {"locking", "checking", "committing", "releasing", "deleting", "done"},
                     from : Wallets, to : Wallets, amount : Units, read : Rows]
    BY DEF WalletType, CallStates
  <1> DEFINE c == [call[t] EXCEPT !.step = step]
  <1>2. /\ c \in CallStates /\ c.step = step
        /\ c.from = call[t].from /\ c.to = call[t].to
        /\ c.amount = call[t].amount /\ c.read = call[t].read
    BY <1>1 DEF CallStates
  <1>3. call' = [call EXCEPT ![t] = c]
    BY DEF W!Goto
  <1> HIDE DEF c
  <1>4. call' \in [Transfers -> CallStates] /\ call'[t] = c /\ \A u \in Transfers \ {t} : call'[u] = call[u]
    BY <1>2, <1>3 DEF WalletType
  <1> QED
    BY <1>2, <1>4 DEF CallGoes, Begun

\* One execution takes its next step.
LEMMA Proceeding ==
    ASSUME WalletType, NEW t \in Transfers, NEW step \in ExecSteps, W!Proceed(t, step)
    PROVE  /\ exec' \in [Transfers -> ExecStates] /\ exec'[t].step = step
           /\ \A u \in Transfers \ {t} : exec'[u] = exec[u]
  <1> DEFINE e == [exec[t] EXCEPT !.step = step]
  <1>1. exec[t] \in ExecStates
    BY DEF WalletType
  <1>2. e \in ExecStates /\ e.step = step
    <2>1. CASE exec[t] \in [step : ExecSteps]
      BY <2>1 DEF ExecStates
    <2>2. CASE exec[t] \in [step : ExecSteps \cup {"settling"}, read : [Wallets -> Rows]]
      BY <2>2 DEF ExecStates
    <2>3. CASE exec[t] \in [step : ExecSteps, sent : BOOLEAN]
      BY <2>3 DEF ExecStates
    <2> QED
      BY <1>1, <2>1, <2>2, <2>3 DEF ExecStates
  <1>3. exec' = [exec EXCEPT ![t] = e]
    BY DEF W!Proceed
  <1> HIDE DEF e
  <1> QED
    BY <1>2, <1>3 DEF WalletType

\* The sums of a wallet are over transfers that exist.
LEMMA SumsOfWallet ==
    ASSUME WalletType, WalletOrder, NEW w
    PROVE  /\ W!Committed(w) \subseteq Begun /\ IsFiniteSet(W!Committed(w))
           /\ W!SettledOf(w) \subseteq Begun /\ IsFiniteSet(W!SettledOf(w))
           /\ \A t \in Begun : call[t].amount \in Int /\ W!Total(t) \in Int
           /\ W!Reserved(w) \in Int /\ W!Released(w) \in Int
  <1>1. W!Committed(w) \subseteq Begun /\ W!SettledOf(w) \subseteq Begun
    BY DEF W!Committed, W!SettledOf, Begun, WalletType, WalletOrder
  <1>2. IsFiniteSet(W!Committed(w)) /\ IsFiniteSet(W!SettledOf(w))
    BY <1>1, FS_Subset DEF WalletType
  <1>3. \A t \in Begun : call[t].amount \in Int /\ W!Total(t) \in Int
    <2> SUFFICES ASSUME NEW t \in Begun
                 PROVE  call[t].amount \in Int /\ W!Total(t) \in Int
      OBVIOUS
    <2>1. call[t].amount \in Units
      BY DEF Begun, WalletType, CallStates
    <2>2. call[t].amount \in Int
      BY <2>1, AmountInt, Zenon
    <2>3. \A n \in Int : n + (n \div 1000) * 3 \in Int
      OBVIOUS
    <2> QED
      BY <2>2, <2>3 DEF W!Total, W!TransferFee
  <1>4. W!Reserved(w) \in Int
    <2> DEFINE Part == [t \in W!Committed(w) |-> W!Total(t)]
    <2>1. \A t \in W!Committed(w) : Part[t] \in Int
      BY <1>1, <1>3
    <2> HIDE DEF Part
    <2>2. SumFunctionOnSet(Part, W!Committed(w)) \in Int
      BY <1>2, <2>1, SumInt
    <2> QED
      BY <2>2, WalletSum DEF W!Reserved, Part
  <1>5. W!Released(w) \in Int
    <2> DEFINE Part == [t \in W!SettledOf(w) |-> call[t].amount]
    <2>1. \A t \in W!SettledOf(w) : Part[t] \in Int
      BY <1>1, <1>3
    <2> HIDE DEF Part
    <2>2. SumFunctionOnSet(Part, W!SettledOf(w)) \in Int
      BY <1>2, <2>1, SumInt
    <2> QED
      BY <2>2, WalletSum DEF W!Released, Part
  <1> QED
    BY <1>1, <1>2, <1>3, <1>4, <1>5

\* The sum of what is reserved changes with the recorded transfers only ...
LEMMA ReservedKept ==
    ASSUME WalletType, WalletOrder, NEW w,
           W!Committed(w)' = W!Committed(w), \A t \in W!Committed(w) : CallGoes(t)
    PROVE  W!Reserved(w)' = W!Reserved(w)
  <1>1. \A t \in W!Committed(w) : W!Total(t)' = W!Total(t)
    BY DEF W!Total, CallGoes
  <1> QED
    BY <1>1 DEF W!Reserved

\* ... and what is released with the completed ones.
LEMMA ReleasedKept ==
    ASSUME WalletType, WalletOrder, NEW w,
           W!SettledOf(w)' = W!SettledOf(w), \A t \in W!SettledOf(w) : CallGoes(t)
    PROVE  W!Released(w)' = W!Released(w)
  BY DEF W!Released, CallGoes

\* Both stay as they are when no transfer is recorded or completed; then it is
\* enough that no reserved column changes.
LEMMA ReservationsKept ==
    ASSUME WalletType, WalletOrder, W!ReservedIsExplained,
           lost \subseteq lost', settled' = settled,
           \A w \in Wallets : row'[w].reserved = row[w].reserved,
           \A t \in Transfers : status'[t] = "none" <=> status[t] = "none",
           \A t \in Transfers : call[t].step # "idle" => CallGoes(t)
    PROVE  W!ReservedIsExplained'
  <1> SUFFICES ASSUME NEW w \in Wallets, w \notin lost'
               PROVE  row'[w].reserved = W!Reserved(w)' - W!Released(w)'
    BY DEF W!ReservedIsExplained
  <1>1. \A t \in Transfers : status[t] # "none" \/ t \in settled => CallGoes(t)
    BY DEF WalletOrder
  <1>2. W!Committed(w)' = W!Committed(w) /\ W!SettledOf(w)' = W!SettledOf(w)
    BY <1>1 DEF W!Committed, W!SettledOf, CallGoes, WalletType
  <1>3. \A t \in W!Committed(w) \cup W!SettledOf(w) : CallGoes(t)
    BY <1>1 DEF W!Committed, W!SettledOf, WalletType
  <1> QED
    BY <1>2, <1>3, ReservedKept, ReleasedKept DEF W!ReservedIsExplained

WalletInv == WalletType /\ WalletOrder /\ LockHeld /\ W!ReservedIsExplained

\* The row is read; the call exists from here on.
LEMMA StepReadSender ==
    ASSUME WalletInv, NEW t \in Transfers, NEW from \in Wallets, NEW to \in Wallets,
           NEW amount \in Units, W!ReadSender(t, from, to, amount)
    PROVE  WalletInv'
  <1> USE DEF WalletInv
  <1> DEFINE c == [step |-> "locking", from |-> from, to |-> to, amount |-> amount,
                   read |-> row[from]]
  <1>1. /\ call[t].step = "idle" /\ call' = [call EXCEPT ![t] = c]
        /\ UNCHANGED <<row, status, received, lock, exec, query, settled, lost, expired>>
    BY DEF W!ReadSender
  <1>2. c \in CallStates /\ c.step = "locking"
    BY DEF CallStates, WalletType
  <1> HIDE DEF c
  <1>3. /\ call' \in [Transfers -> CallStates] /\ call'[t].step = "locking"
        /\ \A u \in Transfers \ {t} : call'[u] = call[u]
    BY <1>1, <1>2 DEF WalletType
  <1>4. WalletType'
    <2>1. Begun' = Begun \cup {t}
      BY <1>1, <1>3 DEF Begun
    <2>2. IsFiniteSet(Begun)'
      BY <2>1, FS_AddElement DEF WalletType
    <2> QED
      BY <1>1, <1>3, <2>2 DEF WalletType
  <1>5. WalletOrder'
    BY <1>1, <1>3 DEF WalletOrder
  <1>6. LockHeld'
    BY <1>1, <1>3 DEF LockHeld, Locked
  <1>7. \A u \in Transfers : call[u].step # "idle" => CallGoes(u)
    BY <1>1, <1>3 DEF CallGoes
  <1> QED
    BY <1>1, <1>4, <1>5, <1>6, <1>7, ReservationsKept

\* A call goes on without having written a row or started its execution.
LEMMA StepCall ==
    ASSUME WalletInv, NEW t \in Transfers, call[t].step # "idle",
           NEW step \in {"checking", "committing", "releasing", "deleting", "done"},
           W!Goto(t, step),
           status[t] # "none" => step \in {"releasing", "deleting", "done"},
           exec[t].step # "idle" => step # "checking",
           LockHeld',
           lock' = [w \in Wallets |-> lock'[w]],
           UNCHANGED <<row, status, received, exec, query, settled, lost, expired>>
    PROVE  WalletInv'
  <1> USE DEF WalletInv
  <1>1. /\ call' \in [Transfers -> CallStates]
        /\ call'[t].step = step /\ CallGoes(t)
        /\ \A u \in Transfers \ {t} : call'[u] = call[u]
        /\ Begun' = Begun
    BY Going
  <1>2. WalletType'
    BY <1>1 DEF WalletType
  <1>3. WalletOrder'
    BY <1>1 DEF WalletOrder
  <1>4. \A u \in Transfers : call[u].step # "idle" => CallGoes(u)
    BY <1>1 DEF CallGoes
  <1> QED
    BY <1>2, <1>3, <1>4, ReservationsKept

\* The lock: SET NX, the comparison and DEL.
LEMMA StepLock ==
    ASSUME WalletInv, NEW t \in Transfers,
           W!TakeLock(t) \/ W!CompareLock(t) \/ W!DeleteLock(t)
    PROVE  WalletInv'
  <1> USE DEF WalletInv
  <1>1. /\ call[t].step \in {"locking", "releasing", "deleting"}
        /\ UNCHANGED <<row, status, received, exec, query, settled, lost, expired>>
        /\ exec[t].step # "idle" => call[t].step # "locking"
        /\ status[t] # "none" => call[t].step # "locking"
    BY DEF W!TakeLock, W!CompareLock, W!DeleteLock, WalletOrder
  <1>2. call[t].from \in Wallets
    BY <1>1 DEF WalletType, CallStates
  <1>3. CASE W!TakeLock(t) /\ lock[call[t].from] = W!Nobody
    <2>1. W!Goto(t, "checking") /\ lock' = [lock EXCEPT ![call[t].from] = t]
      BY <1>3 DEF W!TakeLock
    <2>2. /\ CallGoes(t) /\ call'[t].step = "checking"
          /\ \A u \in Transfers \ {t} : call'[u] = call[u]
      BY <1>1, <2>1, Going
    <2>3. lock' = [w \in Wallets |-> lock'[w]] /\ lock'[call[t].from] = t
      BY <1>2, <2>1 DEF WalletType
    <2>4. LockHeld'
      <3> SUFFICES ASSUME expired = 0, NEW u \in Transfers, u # t, Locked(u)
                   PROVE  lock'[call[u].from] = u
        BY <1>1, <2>2, <2>3 DEF LockHeld, Locked, CallGoes
      <3>1. lock[call[u].from] = u
        BY DEF LockHeld
      <3>2. call[u].from # call[t].from
        BY <1>3, <3>1, WalletServiceAssumption
      <3> QED
        BY <2>1, <3>1, <3>2 DEF WalletType
    <2> QED
      BY <1>1, <1>3, <2>1, <2>3, <2>4, StepCall DEF W!TakeLock
  <1>4. CASE W!TakeLock(t) /\ lock[call[t].from] # W!Nobody
    <2>1. W!Goto(t, "done") /\ lock' = lock
      BY <1>4 DEF W!TakeLock
    <2>2. LockHeld'
      BY <1>1, <2>1, Going DEF LockHeld, Locked
    <2> QED
      BY <1>1, <2>1, <2>2, StepCall DEF WalletType
  <1>5. CASE W!CompareLock(t)
    <2>1. PICK step \in {"deleting", "done"} : W!Goto(t, step)
      BY <1>5 DEF W!CompareLock
    <2>2. lock' = lock /\ call[t].step = "releasing"
      BY <1>5 DEF W!CompareLock
    <2>3. /\ CallGoes(t) /\ call'[t].step = step
          /\ \A u \in Transfers \ {t} : call'[u] = call[u]
      BY <2>1, <2>2, Going
    <2>4. LockHeld'
      BY <1>1, <2>2, <2>3 DEF LockHeld, Locked, CallGoes
    <2> QED
      BY <1>1, <2>1, <2>2, <2>4, StepCall DEF WalletType
  <1>6. CASE W!DeleteLock(t)
    <2>1. /\ W!Goto(t, "done") /\ call[t].step = "deleting"
          /\ lock' = [lock EXCEPT ![call[t].from] = W!Nobody]
      BY <1>6 DEF W!DeleteLock
    <2>2. /\ CallGoes(t) /\ call'[t].step = "done"
          /\ \A u \in Transfers \ {t} : call'[u] = call[u]
      BY <2>1, Going
    <2>3. LockHeld'
      <3> SUFFICES ASSUME expired = 0, NEW u \in Transfers, u # t, Locked(u)
                   PROVE  lock'[call[u].from] = u
        BY <1>1, <2>2 DEF LockHeld, Locked
      <3>1. lock[call[u].from] = u /\ lock[call[t].from] = t
        BY <2>1 DEF LockHeld, Locked
      <3> QED
        BY <2>1, <3>1 DEF WalletType
    <2> QED
      BY <1>1, <2>1, <2>3, StepCall DEF WalletType
  <1> QED
    BY <1>3, <1>4, <1>5, <1>6

\* The commit fails.
LEMMA StepRollback ==
    ASSUME WalletInv, NEW t \in Transfers, W!Rollback(t)
    PROVE  WalletInv'
  <1> USE DEF WalletInv
  <1>1. /\ call[t].step = "committing" /\ W!Goto(t, "releasing") /\ lock' = lock
        /\ UNCHANGED <<row, status, received, exec, query, settled, lost, expired>>
    BY DEF W!Rollback
  <1>2. LockHeld'
    BY <1>1, Going DEF LockHeld, Locked, CallGoes
  <1> QED
    BY <1>1, <1>2, StepCall DEF WalletType

\* A step that touches no call, no reservation and nobody's completion.
LEMMA StepBeside ==
    ASSUME WalletInv, call' = call, settled' = settled, lost \subseteq lost',
           row' \in [Wallets -> Rows],
           \A w \in Wallets : row'[w].reserved = row[w].reserved,
           status' = [t \in Transfers |-> status'[t]],
           \A t \in Transfers : status'[t] = "none" <=> status[t] = "none",
           received' \in [Wallets -> Int],
           lock' = [w \in Wallets |-> lock'[w]], expired' \in Nat, LockHeld',
           exec' \in [Transfers -> ExecStates],
           \A t \in Transfers : exec[t].step = "idle" => exec'[t].step = "idle",
           \A t \in settled : exec'[t].step \in {"invalidating", "done", "failing", "failed"},
           query' \in [Readers -> QueryStates]
    PROVE  WalletInv'
  <1> USE DEF WalletInv
  <1>1. WalletType'
    BY DEF WalletType, Begun
  <1>2. WalletOrder'
    BY DEF WalletOrder
  <1>3. W!ReservedIsExplained'
    BY ReservationsKept DEF CallGoes
  <1> QED
    BY <1>1, <1>2, <1>3

\* The balance suffices, and the execution starts before the commit; or not.
LEMMA StepCheck ==
    ASSUME WalletInv, NEW t \in Transfers, W!Check(t)
    PROVE  WalletInv'
  <1> USE DEF WalletInv
  <1>1. /\ call[t].step = "checking" /\ lock' = lock
        /\ UNCHANGED <<row, status, received, query, settled, lost, expired>>
    BY DEF W!Check
  <1>2. PICK step \in {"committing", "releasing"} : W!Goto(t, step)
    BY DEF W!Check
  <1>3. /\ call' \in [Transfers -> CallStates]
        /\ call'[t].step = step /\ CallGoes(t)
        /\ \A u \in Transfers \ {t} : call'[u] = call[u]
        /\ Begun' = Begun
    BY <1>1, <1>2, Going
  <1>4. LockHeld'
    BY <1>1, <1>3 DEF LockHeld, Locked, CallGoes
  <1>5. exec' = exec \/ exec' = [exec EXCEPT ![t] = [step |-> "starting"]]
    BY DEF W!Check
  <1>6. exec' \in [Transfers -> ExecStates] /\ \A u \in Transfers \ {t} : exec'[u] = exec[u]
    <2>1. [step |-> "starting"] \in ExecStates
      BY DEF ExecStates, ExecSteps
    <2> QED
      BY <1>5, <2>1 DEF WalletType
  <1>7. t \notin settled
    BY <1>1 DEF WalletOrder
  <1>8. WalletType'
    BY <1>1, <1>3, <1>6 DEF WalletType
  <1>9. WalletOrder'
    BY <1>1, <1>3, <1>6, <1>7 DEF WalletOrder
  <1>10. \A u \in Transfers : call[u].step # "idle" => CallGoes(u)
    BY <1>3 DEF CallGoes
  <1> QED
    BY <1>1, <1>4, <1>8, <1>9, <1>10, ReservationsKept

\* The statuses of executeOnChain; no row of the table is made.
LEMMA Marking ==
    ASSUME WalletType, NEW t \in Transfers, NEW value, value # "none", W!SetStatus(t, value)
    PROVE  /\ status' = [u \in Transfers |-> status'[u]]
           /\ \A u \in Transfers : status'[u] = "none" <=> status[u] = "none"
  BY DEF W!SetStatus, WalletType

\* executeOnChain, and the chain, before the completion.
LEMMA StepExecute ==
    ASSUME WalletInv, NEW t \in Transfers,
           \/ W!Process(t) \/ W!SendTransfer(t) \/ W!Confirming(t) \/ W!Mine(t)
           \/ W!Invalidate(t) \/ W!Fail(t)
    PROVE  WalletInv'
  <1>0. WalletType /\ WalletOrder /\ LockHeld /\ W!ReservedIsExplained
    BY DEF WalletInv
  <1>1. /\ UNCHANGED <<row, lock, call, query, settled, lost, expired>>
        /\ exec[t].step # "idle"
    BY <1>0 DEF W!Process, W!SendTransfer, W!Confirming, W!Mine, W!Invalidate, W!Fail
  <1>2. /\ status' = [u \in Transfers |-> status'[u]]
        /\ \A u \in Transfers : status'[u] = "none" <=> status[u] = "none"
    BY <1>0, Marking DEF W!Process, W!SendTransfer, W!Confirming, W!Mine, W!Invalidate, W!Fail, WalletType
  <1>3. received' \in [Wallets -> Int]
    <2>1. CASE W!Mine(t)
      <3>1. call[t].step # "idle"
        BY <1>0, <1>1 DEF WalletOrder
      <3>2. call[t].amount \in Units
        BY <1>0, <3>1 DEF WalletType, CallStates
      <3>3. PICK n \in Int : received' = [received EXCEPT ![call[t].to] = @ + n]
        BY <2>1, <3>2, AmountInt, Zenon DEF W!Mine
      <3>4. received \in [Wallets -> Int]
        BY <1>0 DEF WalletType
      <3> QED
        <4>1. DOMAIN received' = Wallets
          BY <3>3, <3>4
        <4>2. \A w \in Wallets : received[w] \in Int
          BY <3>4
        <4>3. \A w \in Wallets : received'[w] = IF w = call[t].to THEN received[w] + n ELSE received[w]
          BY <3>3, <3>4
        <4>4. \A w \in Wallets : received'[w] \in Int
          BY <4>2, <4>3
        <4>5. received' = [w \in Wallets |-> received'[w]]
          BY <3>3, <3>4
        <4> QED BY <4>4, <4>5
    <2> QED
      BY <1>0, <2>1 DEF W!Process, W!SendTransfer, W!Confirming, W!Invalidate, W!Fail, WalletType
  <1>4. PICK step \in ExecSteps : exec' = exec \/ (W!Proceed(t, step) /\ (t \in settled => step \in {"done", "failed"}))
    <2>1. CASE W!Mine(t)
      BY <1>0, <2>1 DEF W!Mine, ExecSteps
    <2> QED
      BY <1>0, <2>1 DEF W!Process, W!SendTransfer, W!Confirming, W!Invalidate, W!Fail, ExecSteps, WalletOrder
  <1>5. /\ exec' \in [Transfers -> ExecStates]
        /\ \A u \in Transfers : exec[u].step = "idle" => exec'[u].step = "idle"
        /\ \A u \in settled : exec'[u].step \in {"invalidating", "done", "failing", "failed"}
    <2>1. CASE exec' = exec
      BY <1>0, <2>1 DEF WalletType, WalletOrder
    <2>2. CASE W!Proceed(t, step) /\ (t \in settled => step \in {"done", "failed"})
      <3>1. /\ exec' \in [Transfers -> ExecStates] /\ exec'[t].step = step
            /\ \A u \in Transfers \ {t} : exec'[u] = exec[u]
        BY <1>0, <2>2, Proceeding
      <3> QED
        BY <1>1, <1>0, <2>2, <3>1 DEF WalletType, WalletOrder
    <2> QED
      BY <1>4, <2>1, <2>2
  <1>6. /\ row' \in [Wallets -> Rows] /\ query' \in [Readers -> QueryStates]
        /\ \A w \in Wallets : row'[w].reserved = row[w].reserved
    BY <1>0, <1>1 DEF WalletType
  <1>7. /\ lock' = [w \in Wallets |-> lock'[w]] /\ expired' \in Nat
        /\ LockHeld'
    BY <1>0, <1>1 DEF WalletType, LockHeld, Locked
  <1>8. call' = call /\ settled' = settled /\ lost \subseteq lost'
    BY <1>1
  <1> QED
    BY <1>2, <1>3, <1>5, <1>6, <1>7, <1>8, StepBeside

\* The completion reads the rows, or an awaited call throws.
LEMMA StepAside ==
    ASSUME WalletInv, NEW t \in Transfers,
           W!SettleRead(t) \/ W!SettleThrows(t) \/ W!Throw(t)
    PROVE  WalletInv'
  <1> USE DEF WalletInv
  <1>1. /\ UNCHANGED <<row, status, received, lock, call, query, settled, lost, expired>>
        /\ exec[t].step \in {"starting", "sending", "sent", "waiting", "settling", "invalidating"}
    BY DEF W!SettleRead, W!SettleThrows, W!Throw
  <1>2. PICK e \in ExecStates :
           /\ exec' = [exec EXCEPT ![t] = e]
           /\ e.step \in {"settling", "failing"}
           /\ t \in settled => e.step = "failing"
    <2>1. CASE W!SettleRead(t)
      <3> DEFINE e == [step |-> "settling", read |-> row]
      <3>1. e \in ExecStates /\ e.step = "settling"
        BY DEF ExecStates, WalletType
      <3>2. t \notin settled /\ exec' = [exec EXCEPT ![t] = e]
        BY <2>1 DEF W!SettleRead, WalletOrder
      <3> HIDE DEF e
      <3> QED
        BY <3>1, <3>2
    <2>2. CASE W!SettleThrows(t) \/ W!Throw(t)
      <3>1. PICK sent \in BOOLEAN : exec' = [exec EXCEPT ![t] = [step |-> "failing", sent |-> sent]]
        <4>1. CASE W!SettleThrows(t)
          BY <4>1 DEF W!SettleThrows
        <4>2. CASE W!Throw(t)
          <5>1. CASE exec[t].step \in {"starting", "sending"}
            BY <4>2, <5>1 DEF W!Throw
          <5>2. CASE exec[t].step \in {"sent", "waiting", "settling", "invalidating"}
            BY <4>2, <5>2 DEF W!Throw
          <5> QED
            BY <1>1, <5>1, <5>2
        <4> QED
          BY <2>2, <4>1, <4>2
      <3> DEFINE e == [step |-> "failing", sent |-> sent]
      <3>2. e \in ExecStates /\ e.step = "failing"
        BY DEF ExecStates, ExecSteps
      <3> HIDE DEF e
      <3> QED
        BY <3>1, <3>2 DEF e
    <2> QED
      BY <2>1, <2>2
  <1>3. /\ exec' \in [Transfers -> ExecStates]
        /\ \A u \in Transfers : exec[u].step = "idle" => exec'[u].step = "idle"
        /\ \A u \in settled : exec'[u].step \in {"invalidating", "done", "failing", "failed"}
    <2>1. exec' \in [Transfers -> ExecStates] /\ exec'[t] = e
          /\ \A u \in Transfers \ {t} : exec'[u] = exec[u]
      BY <1>2 DEF WalletType
    <2> QED
      BY <1>1, <1>2, <2>1 DEF WalletType, WalletOrder
  <1>4. /\ row' \in [Wallets -> Rows] /\ query' \in [Readers -> QueryStates]
        /\ \A w \in Wallets : row'[w].reserved = row[w].reserved
        /\ status' = [u \in Transfers |-> status'[u]] /\ received' \in [Wallets -> Int]
    BY <1>1 DEF WalletType
  <1>5. /\ lock' = [w \in Wallets |-> lock'[w]] /\ expired' \in Nat
        /\ LockHeld'
    BY <1>1 DEF WalletType, LockHeld, Locked
  <1>6. /\ call' = call /\ settled' = settled /\ lost \subseteq lost'
        /\ \A u \in Transfers : status'[u] = "none" <=> status[u] = "none"
    BY <1>1
  <1> QED
    BY <1>3, <1>4, <1>5, <1>6, StepBeside

\* A balance is asked for.
LEMMA StepQuery ==
    ASSUME WalletInv, NEW g \in Readers,
           (\E w \in Wallets : W!AskChain(g, w)) \/ W!SyncRow(g) \/ W!FillCache(g)
    PROVE  WalletInv'
  <1> USE DEF WalletInv
  <1>1. /\ UNCHANGED <<status, received, lock, call, exec, settled, expired>>
        /\ lost \subseteq lost'
    BY DEF W!AskChain, W!SyncRow, W!FillCache
  <1>2. row' \in [Wallets -> Rows] /\ \A w \in Wallets : row'[w].reserved = row[w].reserved
    <2>1. CASE W!SyncRow(g)
      <3>1. query[g].balance \in Int /\ query[g].wallet \in Wallets
        BY <2>1 DEF W!SyncRow, WalletType, QueryStates
      <3>2. PICK w \in Wallets, n \in Int : row' = [row EXCEPT ![w].balance = n]
        BY <2>1, <3>1 DEF W!SyncRow
      <3> DEFINE r == [row[w] EXCEPT !.balance = n]
      <3>3. row[w] \in Rows /\ r \in Rows /\ r.reserved = row[w].reserved
        BY DEF WalletType, Rows
      <3>4. row' = [row EXCEPT ![w] = r]
        BY <3>2
      <3> HIDE DEF r
      <3> QED
        BY <3>3, <3>4 DEF WalletType
    <2> QED
      BY <2>1 DEF W!AskChain, W!FillCache, WalletType
  <1>3. query' \in [Readers -> QueryStates]
    <2>1. ASSUME NEW w \in Wallets, W!AskChain(g, w)
          PROVE  query' \in [Readers -> QueryStates]
      <3> DEFINE q == [step |-> "syncing", wallet |-> w, read |-> row[w], balance |-> W!OnChain(w)]
      <3>1. q \in QueryStates
        BY WalletServiceAssumption DEF QueryStates, WalletType, W!OnChain
      <3>2. query' = [query EXCEPT ![g] = q]
        BY <2>1 DEF W!AskChain
      <3> HIDE DEF q
      <3> QED
        BY <3>1, <3>2 DEF WalletType
    <2>2. CASE W!SyncRow(g)
      <3> DEFINE q == [query[g] EXCEPT !.step = "caching"]
      <3>1. query[g] \in [step : {"syncing", "caching"}, wallet : Wallets, read : Rows, balance : Int]
        BY <2>2 DEF W!SyncRow, WalletType, QueryStates
      <3>2. q \in QueryStates
        BY <3>1 DEF QueryStates
      <3>3. query' = [query EXCEPT ![g] = q]
        BY <2>2 DEF W!SyncRow
      <3> HIDE DEF q
      <3> QED
        BY <3>2, <3>3 DEF WalletType
    <2>3. CASE W!FillCache(g)
      <3>1. [step |-> "done"] \in QueryStates
        BY DEF QueryStates
      <3> QED
        BY <2>3, <3>1 DEF W!FillCache, WalletType
    <2> QED
      BY <2>1, <2>2, <2>3
  <1>4. /\ status' = [t \in Transfers |-> status'[t]] /\ received' \in [Wallets -> Int]
        /\ exec' \in [Transfers -> ExecStates]
        /\ \A t \in settled : exec'[t].step \in {"invalidating", "done", "failing", "failed"}
    BY <1>1 DEF WalletType, WalletOrder
  <1>5. /\ lock' = [w \in Wallets |-> lock'[w]] /\ expired' \in Nat
        /\ LockHeld'
    BY <1>1 DEF WalletType, LockHeld, Locked
  <1>6. /\ call' = call /\ settled' = settled /\ lost \subseteq lost'
        /\ \A t \in Transfers : status'[t] = "none" <=> status[t] = "none"
        /\ \A t \in Transfers : exec[t].step = "idle" => exec'[t].step = "idle"
    BY <1>1
  <1> QED
    BY <1>2, <1>3, <1>4, <1>5, <1>6, StepBeside

\* A key of Redis runs out.
LEMMA StepExpire ==
    ASSUME WalletInv, NEW w \in Wallets, W!Expire(w)
    PROVE  WalletInv'
  <1> USE DEF WalletInv
  <1>1. /\ UNCHANGED <<row, status, received, call, exec, query, settled, lost>>
        /\ expired' \in Nat /\ expired' # 0 /\ lock' = [v \in Wallets |-> lock'[v]]
    <2>1. expired \in Nat /\ expired' = expired + 1
      BY DEF W!Expire, WalletType
    <2> QED
      BY <2>1 DEF W!Expire, WalletType
  <1>2. /\ LockHeld'
        /\ row' \in [Wallets -> Rows] /\ query' \in [Readers -> QueryStates]
        /\ status' = [t \in Transfers |-> status'[t]] /\ received' \in [Wallets -> Int]
        /\ exec' \in [Transfers -> ExecStates]
        /\ \A t \in settled : exec'[t].step \in {"invalidating", "done", "failing", "failed"}
    BY <1>1 DEF WalletType, WalletOrder, LockHeld
  <1> QED
    BY <1>1, <1>2, StepBeside

\* The commit: the reservation and the record appear together.
LEMMA StepCommit ==
    ASSUME WalletInv, NEW t \in Transfers, W!Commit(t)
    PROVE  WalletInv'
  <1>0. WalletType /\ WalletOrder /\ LockHeld /\ W!ReservedIsExplained
    BY DEF WalletInv
  <1>1. /\ call[t].step = "committing" /\ W!Goto(t, "releasing")
        /\ status' = [status EXCEPT ![t] = "pending"]
        /\ UNCHANGED <<received, lock, exec, query, settled, expired>>
    BY DEF W!Commit
  <1>2. call[t] \in [step : {"committing"}, from : Wallets, to : Wallets, amount : Units, read : Rows]
    BY <1>0, <1>1 DEF WalletType, CallStates
  <1>3. PICK from \in Wallets : from = call[t].from
    BY <1>2
  <1>4. t \in Begun /\ W!Total(t) \in Int
    BY <1>0, <1>1, SumsOfWallet DEF Begun
  <1> DEFINE r == [row[from] EXCEPT !.reserved = call[t].read.reserved + W!Total(t)]
  <1>5. row' = [row EXCEPT ![from] = r]
    BY <1>3 DEF W!Commit
  <1>6. r \in Rows /\ r.reserved = call[t].read.reserved + W!Total(t)
    <2>1. row[from] \in Rows /\ call[t].read \in Rows
      BY <1>0, <1>2 DEF WalletType
    <2>2. call[t].read.reserved + W!Total(t) \in Int
      BY <1>4, <2>1 DEF Rows
    <2> QED
      BY <2>1, <2>2 DEF Rows
  <1> HIDE DEF r
  <1>7. /\ row' \in [Wallets -> Rows] /\ row'[from] = r
        /\ \A w \in Wallets \ {from} : row'[w] = row[w]
    BY <1>0, <1>5, <1>6 DEF WalletType
  <1>8. /\ call' \in [Transfers -> CallStates]
        /\ call'[t].step = "releasing" /\ CallGoes(t)
        /\ \A u \in Transfers \ {t} : call'[u] = call[u]
        /\ Begun' = Begun
    BY <1>0, <1>1, Going
  <1>9. WalletType'
    BY <1>0, <1>1, <1>7, <1>8 DEF WalletType
  <1>10. WalletOrder'
    BY <1>0, <1>1, <1>8 DEF WalletOrder, WalletType
  <1>11. LockHeld'
    BY <1>0, <1>1, <1>8 DEF LockHeld, Locked, CallGoes
  <1>12. status[t] = "none"
    BY <1>0, <1>1 DEF WalletOrder
  <1>13. \A u \in Begun : CallGoes(u)
    BY <1>8 DEF CallGoes, Begun
  <1>14. ASSUME NEW w \in Wallets, w \notin lost'
         PROVE  row'[w].reserved = W!Reserved(w)' - W!Released(w)'
    <2>1. w \notin lost /\ row[w].reserved = W!Reserved(w) - W!Released(w)
      BY <1>0, <1>14 DEF W!Commit, W!ReservedIsExplained
    <2>2. W!SettledOf(w)' = W!SettledOf(w)
      BY <1>0, <1>1, <1>8 DEF W!SettledOf, CallGoes, WalletType
    <2>3. W!Released(w)' = W!Released(w)
      BY <1>0, <1>13, <2>2, ReleasedKept, SumsOfWallet
    <2>4. CASE w # from
      <3>1. W!Committed(w)' = W!Committed(w)
        BY <1>0, <1>1, <1>3, <1>8, <2>4 DEF W!Committed, CallGoes, WalletType
      <3>2. W!Reserved(w)' = W!Reserved(w)
        BY <1>0, <1>13, <3>1, ReservedKept, SumsOfWallet
      <3> QED
        BY <1>7, <2>1, <2>3, <2>4, <3>2
    <2>5. CASE w = from
      <3>1. row[w] = call[t].read
        BY <1>3, <1>14, <2>5 DEF W!Commit
      <3>2. W!Committed(w)' = W!Committed(w) \cup {t} /\ t \notin W!Committed(w)
        BY <1>0, <1>1, <1>3, <1>8, <1>12, <2>5 DEF W!Committed, CallGoes, WalletType
      <3> DEFINE Part == [u \in W!Committed(w) |-> W!Total(u)]
                 Later == [u \in W!Committed(w)' |-> W!Total(u)']
      <3>3. \A u \in W!Committed(w) : Part[u] \in Int
        BY <1>0, SumsOfWallet
      <3>4. /\ \A u \in W!Committed(w) : Later[u] = Part[u]
            /\ Later[t] = W!Total(t)
        BY <1>0, <1>4, <1>13, <3>2, SumsOfWallet DEF W!Total, CallGoes
      <3> HIDE DEF Part, Later
      <3>5. SumFunctionOnSet(Later, W!Committed(w) \cup {t}) = SumFunctionOnSet(Part, W!Committed(w)) + Later[t]
        BY <1>0, <1>4, <3>2, <3>3, <3>4, SumGrow, SumsOfWallet
      <3>6. W!Reserved(w)' = SumFunctionOnSet(Later, W!Committed(w)')
        BY WalletSum DEF W!Reserved, Later
      <3>7. W!Reserved(w) = SumFunctionOnSet(Part, W!Committed(w))
        BY WalletSum DEF W!Reserved, Part
      <3>8. W!Reserved(w)' = W!Reserved(w) + W!Total(t)
        BY <3>2, <3>4, <3>5, <3>6, <3>7
      <3>9. W!Reserved(w) \in Int /\ W!Released(w) \in Int
        BY <1>0, SumsOfWallet
      <3> QED
        BY <1>4, <1>6, <1>7, <2>1, <2>3, <2>5, <3>1, <3>8, <3>9
    <2> QED
      BY <2>4, <2>5
  <1> QED
    BY <1>9, <1>10, <1>11, <1>14 DEF WalletInv, W!ReservedIsExplained

\* The completion: both rows are written from what was read of them.
LEMMA StepSettle ==
    ASSUME WalletInv, NEW t \in Transfers, W!SettleWrite(t)
    PROVE  WalletInv'
  <1>0. WalletType /\ WalletOrder /\ LockHeld /\ W!ReservedIsExplained
    BY DEF WalletInv
  <1>1. /\ exec[t].step = "settling" /\ W!Proceed(t, "invalidating")
        /\ W!SetStatus(t, "completed") /\ settled' = settled \cup {t}
        /\ UNCHANGED <<received, lock, call, query, expired>>
    BY DEF W!SettleWrite
  <1>2. t \notin settled /\ t \in Begun /\ call[t].amount \in Int
    BY <1>0, <1>1, SumsOfWallet DEF WalletOrder, Begun
  <1>3. call[t].from \in Wallets /\ call[t].to \in Wallets
    BY <1>0, <1>2 DEF WalletType, CallStates, Begun
  <1>4. exec[t].read \in [Wallets -> Rows]
    BY <1>0, <1>1 DEF WalletType, ExecStates, ExecSteps
  <1>5. PICK from \in Wallets, to \in Wallets, n \in Int, read \in [Wallets -> Rows] :
           from = call[t].from /\ to = call[t].to /\ n = call[t].amount /\ read = exec[t].read
    BY <1>2, <1>3, <1>4
  <1> DEFINE r == [balance |-> read[from].balance - n, reserved |-> read[from].reserved - n]
             mid == [row EXCEPT ![from] = r]
             q == [mid[to] EXCEPT !.balance = read[to].balance + n]
  <1>6. row' = [mid EXCEPT ![to] = q]
    BY <1>5 DEF W!SettleWrite
  <1>7. r \in Rows /\ r.reserved = read[from].reserved - n
    BY <1>5 DEF Rows
  <1> HIDE DEF r
  <1>8. mid \in [Wallets -> Rows] /\ mid[from] = r /\ \A w \in Wallets \ {from} : mid[w] = row[w]
    BY <1>0, <1>7 DEF WalletType
  <1> HIDE DEF mid
  <1>9. q \in Rows /\ q.reserved = mid[to].reserved
    BY <1>5, <1>8 DEF Rows
  <1> HIDE DEF q
  <1>10. /\ row' \in [Wallets -> Rows]
         /\ \A w \in Wallets : row'[w].reserved = mid[w].reserved
    BY <1>6, <1>8, <1>9
  <1>11. /\ exec' \in [Transfers -> ExecStates] /\ exec'[t].step = "invalidating"
         /\ \A u \in Transfers \ {t} : exec'[u] = exec[u]
    BY <1>0, <1>1, Proceeding DEF ExecSteps
  <1>12. /\ status' = [u \in Transfers |-> status'[u]]
         /\ \A u \in Transfers : status'[u] = "none" <=> status[u] = "none"
    BY <1>0, <1>1, Marking
  <1>13. WalletType'
    BY <1>0, <1>1, <1>10, <1>11, <1>12 DEF WalletType, Begun
  <1>14. WalletOrder'
    BY <1>0, <1>1, <1>11, <1>12 DEF WalletOrder
  <1>15. LockHeld'
    BY <1>0, <1>1 DEF LockHeld, Locked
  <1>16. \A u \in Begun : CallGoes(u)
    BY <1>1 DEF CallGoes, Begun
  <1>17. ASSUME NEW w \in Wallets, w \notin lost'
         PROVE  row'[w].reserved = W!Reserved(w)' - W!Released(w)'
    <2>1. w \notin lost /\ row[w].reserved = W!Reserved(w) - W!Released(w)
      BY <1>0, <1>17 DEF W!SettleWrite, W!ReservedIsExplained
    <2>2. W!Committed(w)' = W!Committed(w)
      BY <1>0, <1>1, <1>12 DEF W!Committed
    <2>3. W!Reserved(w)' = W!Reserved(w)
      BY <1>0, <1>16, <2>2, ReservedKept, SumsOfWallet
    <2>4. CASE w # from
      <3>1. W!SettledOf(w)' = W!SettledOf(w)
        BY <1>1, <1>5, <2>4 DEF W!SettledOf
      <3>2. W!Released(w)' = W!Released(w)
        BY <1>0, <1>16, <3>1, ReleasedKept, SumsOfWallet
      <3> QED
        BY <1>8, <1>10, <2>1, <2>3, <2>4, <3>2
    <2>5. CASE w = from
      <3>1. row[w] = read[w]
        BY <1>5, <1>17, <2>5 DEF W!SettleWrite, W!Stale
      <3>2. W!SettledOf(w)' = W!SettledOf(w) \cup {t} /\ t \notin W!SettledOf(w)
        BY <1>1, <1>2, <1>5, <2>5 DEF W!SettledOf
      <3> DEFINE Part == [u \in W!SettledOf(w) |-> call[u].amount]
                 Later == [u \in W!SettledOf(w)' |-> call'[u].amount]
      <3>3. \A u \in W!SettledOf(w) : Part[u] \in Int
        BY <1>0, SumsOfWallet
      <3>4. /\ \A u \in W!SettledOf(w) : Later[u] = Part[u]
            /\ Later[t] = n
        BY <1>1, <1>5, <3>2
      <3> HIDE DEF Part, Later
      <3>5. SumFunctionOnSet(Later, W!SettledOf(w) \cup {t}) = SumFunctionOnSet(Part, W!SettledOf(w)) + Later[t]
        <4>1. IsFiniteSet(W!SettledOf(w)) /\ t \notin W!SettledOf(w) /\ Later[t] \in Int
          BY <1>0, <3>2, <3>4, SumsOfWallet
        <4> QED
          BY <3>3, <3>4, <4>1, SumGrow
      <3>6. W!Released(w)' = SumFunctionOnSet(Later, W!SettledOf(w)')
        BY WalletSum DEF W!Released, Later
      <3>7. W!Released(w) = SumFunctionOnSet(Part, W!SettledOf(w))
        BY WalletSum DEF W!Released, Part
      <3>8. W!Released(w)' = W!Released(w) + n
        BY <3>2, <3>4, <3>5, <3>6, <3>7
      <3>9. W!Reserved(w) \in Int /\ W!Released(w) \in Int
        BY <1>0, SumsOfWallet
      <3> QED
        BY <1>5, <1>7, <1>8, <1>10, <2>1, <2>3, <2>5, <3>1, <3>8, <3>9
    <2> QED
      BY <2>4, <2>5
  <1> QED
    BY <1>13, <1>14, <1>15, <1>17 DEF WalletInv, W!ReservedIsExplained

\* Every step of the wallet service.
LEMMA WalletNext ==
    ASSUME WalletInv, [W!Next]_(W!vars)
    PROVE  WalletInv'
  <1>1. CASE UNCHANGED W!vars
    BY <1>1, StepBeside DEF W!vars, WalletInv, WalletType, WalletOrder, LockHeld, Locked
  <1> QED
    BY <1>1, StepReadSender, StepLock, StepCheck, StepCommit, StepRollback, StepExecute,
       StepAside, StepSettle, StepQuery, StepExpire DEF W!Next

\* Nothing was asked of the wallet service yet.
LEMMA WalletInit ==
    ASSUME W!Init
    PROVE  WalletInv
  <1>1. /\ row = [w \in Wallets |-> [balance |-> OpeningUnits, reserved |-> 0]]
        /\ status = [t \in Transfers |-> "none"]
        /\ received = [w \in Wallets |-> 0]
        /\ lock = [w \in Wallets |-> W!Nobody]
        /\ call = [t \in Transfers |-> [step |-> "idle"]]
        /\ exec = [t \in Transfers |-> [step |-> "idle"]]
        /\ query = [g \in Readers |-> [step |-> "idle"]]
        /\ settled = {} /\ expired = 0
    BY DEF W!Init, W!InitTables
  <1>2. WalletType
    <2>1. Begun = {}
      BY <1>1 DEF Begun
    <2>2. IsFiniteSet(Begun)
      BY <2>1, FS_EmptySet
    <2>3. row \in [Wallets -> Rows]
      BY <1>1, WalletServiceAssumption DEF Rows
    <2>4. call \in [Transfers -> CallStates] /\ query \in [Readers -> QueryStates]
      BY <1>1 DEF CallStates, QueryStates
    <2>5. exec \in [Transfers -> ExecStates]
      BY <1>1 DEF ExecStates, ExecSteps
    <2> QED
      BY <1>1, <2>2, <2>3, <2>4, <2>5 DEF WalletType
  <1>3. WalletOrder /\ LockHeld
    BY <1>1 DEF WalletOrder, LockHeld, Locked
  <1>4. ASSUME NEW w \in Wallets
        PROVE  row[w].reserved = W!Reserved(w) - W!Released(w)
    <2>1. W!Committed(w) = {} /\ W!SettledOf(w) = {}
      BY <1>1 DEF W!Committed, W!SettledOf
    <2> DEFINE Part == [t \in W!Committed(w) |-> W!Total(t)]
               Later == [t \in W!SettledOf(w) |-> call[t].amount]
    <2>2. SumFunctionOnSet(Part, {}) = 0 /\ SumFunctionOnSet(Later, {}) = 0
      BY SumEmpty
    <2>3. W!Reserved(w) = SumFunctionOnSet(Part, W!Committed(w))
      BY WalletSum DEF W!Reserved
    <2>4. W!Released(w) = SumFunctionOnSet(Later, W!SettledOf(w))
      BY WalletSum DEF W!Released
    <2> HIDE DEF Part, Later
    <2>5. W!Reserved(w) = 0 /\ W!Released(w) = 0
      BY <2>1, <2>2, <2>3, <2>4, Zenon
    <2> QED
      BY <1>1, <2>5
  <1> QED
    BY <1>2, <1>3, <1>4 DEF WalletInv, W!ReservedIsExplained

\* So it holds throughout.
LEMMA WalletInvariant == W!Spec => []WalletInv
  BY WalletInit, WalletNext, PTL DEF W!Spec

\* However many transfers of one wallet are handled at once, whatever fails and
\* whatever is read before it is written: the reserved column of a wallet is
\* what its recorded transfers reserved less what its completed ones released,
\* unless its row was written from an older read.
THEOREM ReservationsExplained == W!Spec => []ReservedIsExplained
  <1>1. WalletInv => ReservedIsExplained
    BY DEF WalletInv, ReservedIsExplained
  <1> QED
    BY <1>1, WalletInvariant, PTL

\* As long as no key of Redis ran out, one transfer of a wallet is between the
\* lock and its release.
THEOREM LocksExclude == W!Spec => []LockExclusive
  <1>1. WalletInv => LockExclusive
    <2> SUFFICES ASSUME WalletInv, expired = 0,
                        NEW t \in Transfers, NEW u \in Transfers,
                        {call[t].step, call[u].step}
                            \subseteq {"checking", "committing", "releasing", "deleting"},
                        call[t].from = call[u].from
                 PROVE  t = u
      BY DEF WalletInv, WalletType, LockExclusive, W!LockExclusive
    <2> QED
      BY DEF WalletInv, LockHeld, Locked
  <1> QED
    BY <1>1, WalletInvariant, PTL

-----------------------------------------------------------------------------
(* The auth service.                                                       *)

SessionRows == [token : Nat, revoked : BOOLEAN, expired : BOOLEAN, pin : Nat]

UserOK(u) ==
    /\ {"known", "pin", "attempts", "locked"} \subseteq DOMAIN u
    /\ u = [f \in DOMAIN u |-> u[f]]
    /\ u.known \in BOOLEAN /\ u.locked \in BOOLEAN
    /\ u.pin \in Nat
    /\ u.attempts \in Nat /\ u.attempts < MAX_PIN_ATTEMPTS

\* What a request holds: the rows it read were there, and the user was known
\* to all but the two operations that a stranger may ask for.
RequestOK(m) ==
    /\ DOMAIN m = {"op", "next", "user", "read", "row"}
    /\ m = [f \in DOMAIN m |-> m[f]]
    /\ m.op \in A!Operations
    /\ m.next \in 1..Len(A!Plan[m.op])
    /\ UserOK(m.user)
    /\ m.read \in Seq(SessionRows) /\ Len(m.read) <= Len(sessions)
    /\ m.op = "refresh" => m.row \in DOMAIN m.read
    /\ m.op \notin {"register", "resendOTP"} => m.user.known /\ user.known
    /\ m.op = "register" /\ m.next = 1 => m.user = A!NobodyYet
    /\ m.op = "loginWrong" => ~m.user.locked

AuthType ==
    /\ UserOK(user)
    /\ sessions \in Seq(SessionRows)
    /\ handler = [h \in Handlers |-> handler[h]]
    /\ \A h \in Handlers : handler[h] = A!Idle \/ RequestOK(handler[h])
    /\ aborts \in Nat /\ guesses \in Nat /\ unlocks \in Nat /\ overlaps \in Nat
    /\ ~user.known => user = A!NobodyYet
    /\ sessions # << >> => user.known

\* What the count of attempts and the lock of a row stand for.
Spent(u) == IF u.locked THEN MAX_PIN_ATTEMPTS ELSE u.attempts

AuthInv ==
    /\ AuthType
    /\ guesses <= MAX_PIN_ATTEMPTS * (unlocks + overlaps) + Spent(user)
    /\ NoSessionOfOldPIN

\* Every operation has its calls in order.
LEMMA Plans ==
    ASSUME NEW op \in A!Operations
    PROVE  Len(A!Plan[op]) \in 1..4
  <1>1. CASE op \in {"loginWrong", "enable2FA", "verify2FA", "disable2FA", "initiateKYC", "kycWebhook", "refresh", "revokeAll"}
    BY <1>1 DEF A!Plan
  <1>2. CASE op \in {"resendOTP", "requestReset", "loginRight", "changePIN"}
    BY <1>2 DEF A!Plan
  <1>3. CASE op \in {"register"}
    BY <1>3 DEF A!Plan
  <1>4. CASE op \in {"verifyPhone", "confirmReset"}
    BY <1>4 DEF A!Plan
  <1> QED
    BY <1>1, <1>2, <1>3, <1>4 DEF A!Operations, A!Plan

\* When an operation saves the user's row.
LEMMA SavingUser ==
    ASSUME NEW h \in Handlers, RequestOK(handler[h]), A!At(h, "saveUser")
    PROVE  /\ handler[h].op \in {"register", "verifyPhone", "loginRight", "loginWrong", "changePIN",
                                 "confirmReset", "enable2FA", "verify2FA", "disable2FA",
                                 "initiateKYC", "kycWebhook"}
           /\ handler[h].op \in {"register", "loginWrong", "changePIN"} => handler[h].next = 1
           /\ handler[h].op = "confirmReset" => handler[h].next = 3
  <1>1. \A op \in A!Operations : \A n \in 1..Len(A!Plan[op]) :
           A!Plan[op][n] = "saveUser" =>
              /\ op \in {"register", "verifyPhone", "loginRight", "loginWrong", "changePIN",
                        "confirmReset", "enable2FA", "verify2FA", "disable2FA",
                        "initiateKYC", "kycWebhook"}
              /\ op \in {"register", "loginWrong", "changePIN"} => n = 1
              /\ op = "confirmReset" => n = 3
    <2> SUFFICES ASSUME NEW op \in A!Operations, NEW n \in 1..Len(A!Plan[op]), A!Plan[op][n] = "saveUser"
                 PROVE  /\ op \in {"register", "verifyPhone", "loginRight", "loginWrong", "changePIN",
                                   "confirmReset", "enable2FA", "verify2FA", "disable2FA",
                                   "initiateKYC", "kycWebhook"}
                        /\ op \in {"register", "loginWrong", "changePIN"} => n = 1
                        /\ op = "confirmReset" => n = 3
      OBVIOUS
    <2>1. CASE op \in {"resendOTP", "requestReset", "refresh", "revokeAll"}
      BY <2>1 DEF A!Plan
    <2>2. CASE op = "register"
      BY <2>2 DEF A!Plan
    <2>3. CASE op = "loginWrong"
      BY <2>3 DEF A!Plan
    <2>4. CASE op = "changePIN"
      BY <2>4 DEF A!Plan
    <2>5. CASE op = "confirmReset"
      BY <2>5 DEF A!Plan
    <2> QED
      BY <2>1, <2>2, <2>3, <2>4, <2>5 DEF A!Operations, A!Plan
  <1> QED
    BY <1>1 DEF RequestOK, A!At

\* An operation other than a registration keeps the row but for what it is about.
LEMMA WrittenRow ==
    ASSUME NEW u, UserOK(u), NEW op \in A!Operations, NEW v \in A!Written(op, u),
           op \in {"verifyPhone", "loginRight", "loginWrong", "changePIN",
                   "confirmReset", "enable2FA", "verify2FA", "disable2FA",
                   "initiateKYC", "kycWebhook"}
    PROVE  /\ UserOK(v) /\ v.known = u.known
           /\ op \notin {"changePIN", "confirmReset"} => v.pin = u.pin
           /\ op \notin A!Afresh \cup {"loginWrong"} => v.attempts = u.attempts /\ v.locked = u.locked
           /\ op = "loginWrong" => v.attempts = u.attempts + 1 \/ v.locked
  <1>1. CASE op = "kycWebhook"
    <2>1. v \in A!KycWebhook(u)
      BY <1>1 DEF A!Written
    <2> QED
      BY <1>1, <2>1 DEF A!KycWebhook, UserOK, A!Afresh
  <1>2. CASE op \in {"verifyPhone", "enable2FA", "verify2FA", "disable2FA", "initiateKYC"}
    <2>1. \/ v = A!VerifyPhone(u) \/ v = A!Enable2FA(u) \/ v = A!Verify2FA(u)
          \/ v = A!Disable2FA(u) \/ v = A!InitiateKYC(u)
      BY <1>2 DEF A!Written
    <2> QED
      BY <1>2, <2>1 DEF A!VerifyPhone, A!Enable2FA, A!Verify2FA, A!Disable2FA, A!InitiateKYC, UserOK, A!Afresh
  <1>3. CASE op = "loginRight"
    BY <1>3, AuthServiceAssumption DEF A!Written, A!LoginRight, UserOK, A!Afresh
  <1>4. CASE op \in {"changePIN", "confirmReset"}
    <2>1. v = A!ChangePIN(u)
      BY <1>4 DEF A!Written, A!ChangePIN, A!ConfirmReset
    <2> DEFINE m == [u EXCEPT !.pin = @ + 1]
    <2>2. UserOK(m) /\ m.known = u.known
      BY DEF UserOK
    <2>3. v = [m EXCEPT !.attempts = 0]
      BY <2>1 DEF A!ChangePIN
    <2> HIDE DEF m
    <2>4. UserOK(v) /\ v.known = u.known
      BY <2>2, <2>3, AuthServiceAssumption DEF UserOK
    <2> QED
      BY <1>4, <2>4 DEF A!Afresh
  <1>5. CASE op = "loginWrong"
    <2>1. v = A!LoginWrong(u)
      BY <1>5 DEF A!Written
    <2>2. CASE u.attempts + 1 >= MAX_PIN_ATTEMPTS
      <3>1. v = [u EXCEPT !.attempts = 0, !.locked = TRUE]
        BY <2>1, <2>2 DEF A!LoginWrong
      <3> DEFINE m == [u EXCEPT !.attempts = 0]
      <3>a. UserOK(m) /\ m.known = u.known /\ m.pin = u.pin
        BY AuthServiceAssumption DEF UserOK
      <3>b. v = [m EXCEPT !.locked = TRUE]
        BY <3>1
      <3> HIDE DEF m
      <3>2. UserOK(v) /\ v.known = u.known /\ v.pin = u.pin /\ v.locked
        BY <3>a, <3>b DEF UserOK
      <3> QED
        BY <1>5, <3>2
    <2>3. CASE u.attempts + 1 < MAX_PIN_ATTEMPTS
      <3>1. v = [u EXCEPT !.attempts = @ + 1]
        BY <2>1, <2>3, AuthServiceAssumption DEF A!LoginWrong, UserOK
      <3>2. UserOK(v) /\ v.known = u.known /\ v.pin = u.pin /\ v.attempts = u.attempts + 1
        BY <2>3, <3>1 DEF UserOK
      <3> QED
        BY <1>5, <3>2
    <2> QED
      BY <2>2, <2>3, AuthServiceAssumption DEF UserOK
  <1> QED
    BY <1>1, <1>2, <1>3, <1>4, <1>5

\* A request goes on to its next call, which exists.
LEMMA GoingOnward ==
    ASSUME AuthType, NEW h \in Handlers, NEW m, A!Onward(h, m),
           DOMAIN m = {"op", "next", "user", "read", "row"}, m = [f \in DOMAIN m |-> m[f]],
           m.op \in A!Operations, m.next \in 1..Len(A!Plan[m.op]), UserOK(m.user),
           m.read \in Seq(SessionRows), Len(m.read) <= Len(sessions'),
           m.op = "refresh" => m.row \in DOMAIN m.read,
           m.op \notin {"register", "resendOTP"} => m.user.known /\ user'.known,
           m.op = "loginWrong" => ~m.user.locked \/ m.next = Len(A!Plan[m.op])
    PROVE  \E w : /\ handler' = [handler EXCEPT ![h] = w]
                  /\ w = A!Idle \/ RequestOK(w)'
                  /\ m.next # Len(A!Plan[m.op]) => w # A!Idle /\ w.op = m.op /\ w.next = m.next + 1
  <1>1. CASE m.next = Len(A!Plan[m.op])
    BY <1>1 DEF A!Onward
  <1>2. CASE m.next # Len(A!Plan[m.op])
    <2> DEFINE w == [m EXCEPT !.next = @ + 1]
    <2>1. handler' = [handler EXCEPT ![h] = w]
      BY <1>2 DEF A!Onward
    <2>2. /\ DOMAIN w = {"op", "next", "user", "read", "row"} /\ w = [f \in DOMAIN w |-> w[f]]
          /\ w.op = m.op /\ w.next = m.next + 1 /\ w.user = m.user /\ w.read = m.read /\ w.row = m.row
      OBVIOUS
    <2>3. Len(A!Plan[m.op]) \in 1..4
      BY Plans
    <2>4. w.next \in 1..Len(A!Plan[w.op]) /\ w.next # 1
      BY <1>2, <2>2, <2>3
    <2> HIDE DEF w
    <2>5. RequestOK(w)'
      BY <1>2, <2>2, <2>4 DEF RequestOK
    <2>6. w # A!Idle
      <3>1. DOMAIN A!Idle = {"op"}
        BY DEF A!Idle
      <3> QED
        BY <2>2, <3>1
    <2> QED
      BY <2>1, <2>2, <2>5, <2>6
  <1> QED
    BY <1>1, <1>2

\* What the others hold stays right as long as sessions are only added and the
\* user stays known.
LEMMA HandlersKept ==
    ASSUME AuthType, NEW h \in Handlers, NEW w, handler' = [handler EXCEPT ![h] = w],
           w = A!Idle \/ RequestOK(w)',
           sessions' \in Seq(SessionRows), Len(sessions) <= Len(sessions'),
           user.known => user'.known
    PROVE  /\ handler' = [g \in Handlers |-> handler'[g]]
           /\ \A g \in Handlers : (handler[g] = A!Idle \/ RequestOK(handler[g]))'
           /\ handler'[h] = w /\ \A g \in Handlers \ {h} : handler'[g] = handler[g]
  <1>1. /\ handler' = [g \in Handlers |-> handler'[g]]
        /\ handler'[h] = w /\ \A g \in Handlers \ {h} : handler'[g] = handler[g]
    BY DEF AuthType
  <1>2. \A m : RequestOK(m) => RequestOK(m)'
    BY DEF RequestOK, AuthType
  <1> QED
    BY <1>1, <1>2 DEF AuthType

\* The bound grows with each write over a row that was not read.
LEMMA MoreOverlaps ==
    ASSUME AuthType, guesses <= MAX_PIN_ATTEMPTS * (unlocks + overlaps) + Spent(user),
           user' = user, guesses' = guesses, unlocks' = unlocks,
           overlaps' \in {overlaps, overlaps + 1}
    PROVE  guesses' <= MAX_PIN_ATTEMPTS * (unlocks' + overlaps') + Spent(user)'
  <1>1. \A n \in Nat : MAX_PIN_ATTEMPTS * (n + 1) = MAX_PIN_ATTEMPTS * n + MAX_PIN_ATTEMPTS
                       /\ MAX_PIN_ATTEMPTS * n \in Nat
    BY AuthServiceAssumption
  <1>2. Spent(user)' = Spent(user) /\ Spent(user) \in Nat
    BY AuthServiceAssumption DEF Spent, AuthType, UserOK
  <1>3. unlocks + overlaps \in Nat /\ guesses \in Nat
    BY DEF AuthType
  <1>4. CASE overlaps' = overlaps
    BY <1>2, <1>4
  <1>5. CASE overlaps' = overlaps + 1
    <2>1. unlocks' + overlaps' = (unlocks + overlaps) + 1
      BY <1>5 DEF AuthType
    <2> QED
      BY <1>1, <1>2, <1>3, <2>1, AuthServiceAssumption
  <1> QED
    BY <1>4, <1>5

\* No session outlives its PIN in a step that changes no PIN.
LEMMA SessionsKept ==
    ASSUME AuthType, NoSessionOfOldPIN, NEW h \in Handlers, ~A!At(h, "revoke"),
           \A g \in Handlers \ {h} : handler'[g] = handler[g],
           user'.pin = user.pin, aborts' = aborts, overlaps' \in {overlaps, overlaps + 1},
           overlaps' = overlaps => \A s \in DOMAIN sessions' :
               \/ sessions'[s].revoked
               \/ sessions'[s].pin = user.pin
               \/ /\ s \in DOMAIN sessions /\ sessions'[s].pin = sessions[s].pin
                  /\ sessions[s].revoked => sessions'[s].revoked
    PROVE  NoSessionOfOldPIN'
  <1> SUFFICES ASSUME overlaps' = 0, aborts' = 0, A!Revoking' = {},
                      NEW s \in DOMAIN sessions'
               PROVE  sessions'[s].revoked \/ sessions'[s].pin = user'.pin
    BY DEF NoSessionOfOldPIN, A!NoSessionOfOldPIN
  <1>1. overlaps = 0 /\ overlaps' = overlaps /\ aborts = 0
    BY DEF AuthType
  <1>2. \A g \in Handlers \ {h} : A!At(g, "revoke")' <=> A!At(g, "revoke")
    BY DEF A!At
  <1>3. A!Revoking = {}
    BY <1>2 DEF A!Revoking
  <1>4. \A q \in DOMAIN sessions : sessions[q].revoked \/ sessions[q].pin = user.pin
    BY <1>1, <1>3 DEF NoSessionOfOldPIN, A!NoSessionOfOldPIN
  <1> QED
    BY <1>1, <1>4

\* A request begins with what it reads; sessions are only those of a known user.
LEMMA BeginKeeps ==
    ASSUME AuthInv, NEW h \in Handlers,
           \/ \E op \in A!Operations : A!Begin(h, op)
           \/ \E s \in DOMAIN sessions : A!BeginRefresh(h, s)
    PROVE  AuthInv'
  <1>0. AuthType /\ NoSessionOfOldPIN /\ guesses <= MAX_PIN_ATTEMPTS * (unlocks + overlaps) + Spent(user)
    BY DEF AuthInv
  <1>1. PICK w : /\ handler[h] = A!Idle /\ handler' = [handler EXCEPT ![h] = w] /\ RequestOK(w)
                 /\ UNCHANGED <<user, sessions, otps, ticks, aborts, guesses, unlocks, overlaps>>
    <2>1. CASE \E op \in A!Operations : A!Begin(h, op)
      <3>1. PICK op \in A!Operations : A!Begin(h, op)
        BY <2>1
      <3> DEFINE w == [op |-> op, next |-> 1, user |-> user,
                       read |-> IF op = "revokeAll" THEN sessions ELSE <<>>, row |-> 0]
      <3>2. w.read \in Seq(SessionRows) /\ Len(w.read) <= Len(sessions)
        BY <1>0 DEF AuthType
      <3>3. Len(A!Plan[op]) \in 1..4
        BY <3>1, Plans
      <3>4. op # "refresh" /\ (op \notin {"register", "resendOTP"} => user.known)
        <4>1. A!MayBegin(op)
          BY <3>1 DEF A!Begin
        <4>2. CASE op = "kycWebhook"
          <5>1. \/ user.kyc # "pending"
                \/ \E g \in Handlers : handler[g].op = "initiateKYC"
            BY <4>1, <4>2 DEF A!MayBegin
          <5>2. ~user.known => user.kyc = "pending"
            BY <1>0 DEF AuthType, A!NobodyYet
          <5>3. ASSUME NEW g \in Handlers, handler[g].op = "initiateKYC" PROVE user.known
            BY <1>0, <5>3 DEF AuthType, RequestOK, A!Idle
          <5> QED
            BY <4>2, <5>1, <5>2, <5>3
        <4>3. CASE op \in {"requestReset", "verifyPhone", "confirmReset", "loginRight", "loginWrong"}
          BY <4>1, <4>3 DEF A!MayBegin, A!MayTryPIN
        <4>4. CASE op \in {"changePIN", "enable2FA", "revokeAll", "verify2FA", "disable2FA", "initiateKYC"}
          BY <1>0, <4>1, <4>4 DEF A!MayBegin, A!HasToken, AuthType
        <4>5. CASE op \in {"register", "resendOTP"}
          BY <4>5
        <4>6. op # "refresh"
          BY <4>1 DEF A!MayBegin
        <4> QED
          BY <4>2, <4>3, <4>4, <4>5, <4>6 DEF A!Operations, A!Plan
      <3>5. op = "register" => user = A!NobodyYet
        BY <1>0, <3>1 DEF A!Begin, A!MayBegin, AuthType
      <3>6. op = "loginWrong" => ~user.locked
        BY <3>1 DEF A!Begin, A!MayBegin, A!MayTryPIN
      <3>7. handler[h] = A!Idle /\ handler' = [handler EXCEPT ![h] = w]
            /\ UNCHANGED <<user, sessions, otps, ticks, aborts, guesses, unlocks, overlaps>>
        BY <3>1 DEF A!Begin
      <3>8. /\ DOMAIN w = {"op", "next", "user", "read", "row"} /\ w = [f \in DOMAIN w |-> w[f]]
            /\ w.op = op /\ w.next = 1 /\ w.user = user
        OBVIOUS
      <3> HIDE DEF w
      <3>9. RequestOK(w)
        <4>1. w.op \in A!Operations /\ w.op # "refresh"
          BY <3>1, <3>4, <3>8
        <4>2. w.next \in 1..Len(A!Plan[w.op])
          BY <3>3, <3>8, SMTT(60)
        <4>3. UserOK(w.user) /\ (w.op \notin {"register", "resendOTP"} => w.user.known /\ user.known)
          BY <1>0, <3>4, <3>8 DEF AuthType
        <4>4. w.op = "loginWrong" => ~w.user.locked
          BY <3>6, <3>8
        <4>5. w.op = "register" /\ w.next = 1 => w.user = A!NobodyYet
          BY <3>5, <3>8
        <4> QED
          BY <3>2, <3>8, <4>1, <4>2, <4>3, <4>4, <4>5 DEF RequestOK
      <3> QED
        BY <3>7, <3>9
    <2>2. CASE \E s \in DOMAIN sessions : A!BeginRefresh(h, s)
      <3>1. PICK s \in DOMAIN sessions : A!BeginRefresh(h, s)
        BY <2>2
      <3> DEFINE w == [op |-> "refresh", next |-> 1, user |-> user, read |-> sessions, row |-> s]
      <3>2. user.known
        BY <1>0 DEF AuthType
      <3>3. Len(A!Plan["refresh"]) \in 1..4 /\ "refresh" \in A!Operations
        BY Plans DEF A!Operations, A!Plan
      <3>4. /\ DOMAIN w = {"op", "next", "user", "read", "row"} /\ w = [f \in DOMAIN w |-> w[f]]
            /\ w.op = "refresh" /\ w.next = 1 /\ w.user = user /\ w.read = sessions /\ w.row = s
        OBVIOUS
      <3>5. handler[h] = A!Idle /\ handler' = [handler EXCEPT ![h] = w]
            /\ UNCHANGED <<user, sessions, otps, ticks, aborts, guesses, unlocks, overlaps>>
        BY <3>1 DEF A!BeginRefresh
      <3> HIDE DEF w
      <3>6. RequestOK(w)
        <4>1. w.op \in A!Operations /\ w.next \in 1..Len(A!Plan[w.op])
          <5>1. \A op : op = "refresh" => op \in A!Operations /\ 1 \in 1..Len(A!Plan[op])
            BY <3>3
          <5> QED
            BY <3>4, <5>1
        <4>2. UserOK(w.user) /\ w.user.known /\ user.known
          BY <1>0, <3>2, <3>4 DEF AuthType
        <4>3. w.read \in Seq(SessionRows) /\ Len(w.read) <= Len(sessions) /\ w.row \in DOMAIN w.read
          BY <1>0, <3>1, <3>4 DEF AuthType
        <4>4. w.op \notin {"register", "loginWrong"}
          BY <3>4
        <4>5. DOMAIN w = {"op", "next", "user", "read", "row"} /\ w = [f \in DOMAIN w |-> w[f]]
          BY <3>4
        <4> QED
          BY <4>1, <4>2, <4>3, <4>4, <4>5 DEF RequestOK
      <3> QED
        BY <3>5, <3>6
    <2> QED
      BY <2>1, <2>2
  <1>2. RequestOK(w)'
    BY <1>1 DEF RequestOK
  <1>3. /\ handler' = [g \in Handlers |-> handler'[g]]
        /\ \A g \in Handlers : (handler[g] = A!Idle \/ RequestOK(handler[g]))'
        /\ \A g \in Handlers \ {h} : handler'[g] = handler[g]
    <2>1. sessions' \in Seq(SessionRows) /\ Len(sessions) <= Len(sessions')
      BY <1>0, <1>1 DEF AuthType
    <2>2. user.known => user'.known
      BY <1>1
    <2> QED
      BY <1>0, <1>1, <1>2, <2>1, <2>2, HandlersKept
  <1>4. AuthType'
    BY <1>0, <1>1, <1>3 DEF AuthType, UserOK
  <1>5. NoSessionOfOldPIN'
    <2>1. ~A!At(h, "revoke")
      BY <1>1 DEF A!At
    <2> QED
      BY <1>0, <1>1, <1>3, <2>1, SessionsKept
  <1>6. (guesses <= MAX_PIN_ATTEMPTS * (unlocks + overlaps) + Spent(user))'
    BY <1>0, <1>1 DEF Spent
  <1> QED
    BY <1>4, <1>5, <1>6 DEF AuthInv

\* A call that leaves the user's row alone, and adds to the sessions or makes
\* them no more valid, keeps the invariant.
LEMMA CallKeeps ==
    ASSUME AuthInv, NEW h \in Handlers, handler[h] # A!Idle, ~A!At(h, "revoke"), NEW m,
           A!Onward(h, m),
           DOMAIN m = {"op", "next", "user", "read", "row"}, m = [f \in DOMAIN m |-> m[f]],
           m.op = handler[h].op, m.next = handler[h].next, m.user = handler[h].user,
           m.read = handler[h].read, m.op = "refresh" => m.row = handler[h].row,
           UNCHANGED <<user, aborts, guesses, unlocks>>, overlaps' \in {overlaps, overlaps + 1},
           sessions' \in Seq(SessionRows), Len(sessions) <= Len(sessions'),
           sessions' # << >> => user.known,
           overlaps' = overlaps => \A s \in DOMAIN sessions' :
               \/ sessions'[s].revoked
               \/ sessions'[s].pin = user.pin
               \/ /\ s \in DOMAIN sessions /\ sessions'[s].pin = sessions[s].pin
                  /\ sessions[s].revoked => sessions'[s].revoked
    PROVE  AuthInv'
  <1>0. AuthType /\ NoSessionOfOldPIN /\ guesses <= MAX_PIN_ATTEMPTS * (unlocks + overlaps) + Spent(user)
    BY DEF AuthInv
  <1>1. RequestOK(handler[h])
    BY <1>0 DEF AuthType
  <1>2. PICK w : /\ handler' = [handler EXCEPT ![h] = w]
                 /\ w = A!Idle \/ RequestOK(w)'
    <2>1. m.op \in A!Operations /\ m.next \in 1..Len(A!Plan[m.op]) /\ UserOK(m.user)
      BY <1>1 DEF RequestOK
    <2>2. m.read \in Seq(SessionRows) /\ Len(m.read) <= Len(sessions')
      BY <1>0, <1>1 DEF RequestOK, AuthType
    <2>3. m.op = "refresh" => m.row \in DOMAIN m.read
      BY <1>1 DEF RequestOK
    <2>4. m.op \notin {"register", "resendOTP"} => m.user.known /\ user'.known
      BY <1>1 DEF RequestOK
    <2>5. m.op = "loginWrong" => ~m.user.locked \/ m.next = Len(A!Plan[m.op])
      BY <1>1 DEF RequestOK
    <2> QED
      BY <1>0, <2>1, <2>2, <2>3, <2>4, <2>5, GoingOnward
  <1>3. /\ handler' = [g \in Handlers |-> handler'[g]]
        /\ \A g \in Handlers : (handler[g] = A!Idle \/ RequestOK(handler[g]))'
        /\ \A g \in Handlers \ {h} : handler'[g] = handler[g]
    BY <1>0, <1>2, HandlersKept
  <1>4. AuthType'
    <2>1. overlaps' \in Nat /\ guesses' \in Nat /\ unlocks' \in Nat /\ aborts' \in Nat
      BY <1>0 DEF AuthType
    <2>2. UserOK(user)' /\ (~user.known => user = A!NobodyYet)' /\ (sessions # << >> => user.known)'
      BY <1>0 DEF AuthType, UserOK
    <2> QED
      BY <1>3, <2>1, <2>2 DEF AuthType
  <1>5. NoSessionOfOldPIN'
    BY <1>0, <1>3, SessionsKept
  <1>6. guesses' <= MAX_PIN_ATTEMPTS * (unlocks' + overlaps') + Spent(user)'
    BY <1>0, MoreOverlaps
  <1> QED
    BY <1>4, <1>5, <1>6 DEF AuthInv

\* A request whose next call is known is not idle, and is one call at a time.
LEMMA AtCall ==
    ASSUME AuthType, NEW h \in Handlers, NEW what, A!At(h, what)
    PROVE  /\ handler[h] # A!Idle /\ RequestOK(handler[h])
           /\ \A other : other # what => ~A!At(h, other)
  BY DEF A!At, AuthType

\* The one-time codes are no matter of the invariant.
LEMMA OtpKeeps ==
    ASSUME AuthInv, NEW h \in Handlers,
           \/ A!VoidOtps(h) \/ A!SaveOtp(h) \/ A!FindOtp(h) \/ A!UseOtp(h)
    PROVE  AuthInv'
  <1>0. AuthType
    BY DEF AuthInv
  <1>1. PICK what : A!At(h, what) /\ what \in {"voidOtps", "saveOtp", "findOtp", "useOtp"}
    BY DEF A!VoidOtps, A!SaveOtp, A!FindOtp, A!UseOtp
  <1>2. handler[h] # A!Idle /\ RequestOK(handler[h]) /\ ~A!At(h, "revoke") /\ ~A!At(h, "rotate")
    BY <1>0, <1>1, AtCall
  <1>3. UNCHANGED <<user, aborts, guesses, unlocks, sessions>> /\ overlaps' \in {overlaps, overlaps + 1}
    BY DEF A!VoidOtps, A!SaveOtp, A!FindOtp, A!UseOtp
  <1>4. sessions' \in Seq(SessionRows) /\ Len(sessions) <= Len(sessions') /\ (sessions' # << >> => user.known)
    BY <1>0, <1>3 DEF AuthType
  <1>5. handler[h].op # "refresh"
    <2>1. ASSUME handler[h].op = "refresh" PROVE FALSE
      <3>1. A!Plan["refresh"] = <<"rotate">>
        BY DEF A!Plan
      <3>2. handler[h].next = 1
        BY <1>2, <2>1, <3>1 DEF RequestOK
      <3> QED
        BY <1>2, <2>1, <3>1, <3>2 DEF A!At
    <2> QED
      BY <2>1
  <1>6. PICK m : /\ A!Onward(h, m)
                 /\ DOMAIN m = {"op", "next", "user", "read", "row"} /\ m = [f \in DOMAIN m |-> m[f]]
                 /\ m.op = handler[h].op /\ m.next = handler[h].next /\ m.user = handler[h].user
                 /\ m.read = handler[h].read
    <2>1. CASE A!VoidOtps(h) \/ A!SaveOtp(h) \/ A!UseOtp(h)
      <3>1. A!Onward(h, handler[h])
        BY <2>1 DEF A!VoidOtps, A!SaveOtp, A!UseOtp
      <3> QED
        BY <1>2, <3>1 DEF RequestOK
    <2>2. CASE A!FindOtp(h)
      <3>1. PICK i : A!Onward(h, [handler[h] EXCEPT !.row = i])
        BY <2>2 DEF A!FindOtp
      <3> DEFINE m == [handler[h] EXCEPT !.row = i]
      <3>2. /\ DOMAIN m = {"op", "next", "user", "read", "row"} /\ m = [f \in DOMAIN m |-> m[f]]
            /\ m.op = handler[h].op /\ m.next = handler[h].next /\ m.user = handler[h].user
            /\ m.read = handler[h].read
        BY <1>2 DEF RequestOK
      <3> QED
        BY <3>1, <3>2
    <2> QED
      BY <2>1, <2>2
  <1>7. overlaps' = overlaps => \A s \in DOMAIN sessions' :
               \/ sessions'[s].revoked
               \/ sessions'[s].pin = user.pin
               \/ /\ s \in DOMAIN sessions /\ sessions'[s].pin = sessions[s].pin
                  /\ sessions[s].revoked => sessions'[s].revoked
    BY <1>3
  <1> QED
    BY <1>2, <1>3, <1>4, <1>5, <1>6, <1>7, CallKeeps

\* A new session is one of the PIN that was compared.
LEMMA SaveSessionKeeps ==
    ASSUME AuthInv, NEW h \in Handlers, A!SaveSession(h)
    PROVE  AuthInv'
  <1>0. AuthType
    BY DEF AuthInv
  <1>1. handler[h] # A!Idle /\ RequestOK(handler[h]) /\ ~A!At(h, "revoke")
    BY <1>0, AtCall DEF A!SaveSession
  <1>2. /\ UNCHANGED <<user, aborts, guesses, unlocks>> /\ overlaps' \in {overlaps, overlaps + 1}
        /\ A!Onward(h, handler[h])
        /\ DOMAIN handler[h] = {"op", "next", "user", "read", "row"}
        /\ handler[h] = [f \in DOMAIN handler[h] |-> handler[h][f]]
    BY <1>1 DEF A!SaveSession, RequestOK
  <1> DEFINE new == [token |-> 0, revoked |-> FALSE, expired |-> FALSE, pin |-> handler[h].user.pin]
  <1>3. new \in SessionRows /\ sessions' = Append(sessions, new) /\ new.pin = handler[h].user.pin
    BY <1>1 DEF A!SaveSession, RequestOK, UserOK, SessionRows
  <1>4. user.known
    <2>1. ASSUME handler[h].op \in {"register", "resendOTP"} PROVE FALSE
      BY <1>1, <2>1 DEF A!SaveSession, A!At, A!Plan, RequestOK
    <2> QED
      BY <1>1, <2>1 DEF RequestOK
  <1>5. overlaps' = overlaps => user.pin = handler[h].user.pin
    BY <1>0 DEF A!SaveSession, AuthType
  <1> HIDE DEF new
  <1>6. /\ sessions' \in Seq(SessionRows) /\ Len(sessions) <= Len(sessions')
        /\ sessions' # << >> => user.known
    BY <1>0, <1>3, <1>4 DEF AuthType
  <1>7. overlaps' = overlaps => \A s \in DOMAIN sessions' :
               \/ sessions'[s].revoked
               \/ sessions'[s].pin = user.pin
               \/ /\ s \in DOMAIN sessions /\ sessions'[s].pin = sessions[s].pin
                  /\ sessions[s].revoked => sessions'[s].revoked
    <2> SUFFICES ASSUME overlaps' = overlaps, NEW s \in DOMAIN sessions', s \notin DOMAIN sessions
                 PROVE  sessions'[s].pin = user.pin
      BY <1>0, <1>3 DEF AuthType
    <2>1. s = Len(sessions) + 1 /\ sessions'[s] = new
      BY <1>0, <1>3 DEF AuthType
    <2> QED
      BY <1>3, <1>5, <2>1
  <1> QED
    BY <1>1, <1>2, <1>6, <1>7, CallKeeps

\* A session saved again is the one that was read, unless it changed meanwhile.
LEMMA RotateKeeps ==
    ASSUME AuthInv, NEW h \in Handlers, A!Rotate(h)
    PROVE  AuthInv'
  <1>0. AuthType
    BY DEF AuthInv
  <1>1. handler[h] # A!Idle /\ RequestOK(handler[h]) /\ ~A!At(h, "revoke")
    BY <1>0, AtCall DEF A!Rotate
  <1>2. /\ UNCHANGED <<user, aborts, guesses, unlocks>> /\ overlaps' \in {overlaps, overlaps + 1}
        /\ A!Onward(h, handler[h])
        /\ DOMAIN handler[h] = {"op", "next", "user", "read", "row"}
        /\ handler[h] = [f \in DOMAIN handler[h] |-> handler[h][f]]
    BY <1>1 DEF A!Rotate, RequestOK
  <1>3. handler[h].op = "refresh"
    <2>1. \A op \in A!Operations : \A n \in 1..Len(A!Plan[op]) : A!Plan[op][n] = "rotate" => op = "refresh"
      <3> SUFFICES ASSUME NEW op \in A!Operations, NEW n \in 1..Len(A!Plan[op]), op # "refresh"
                   PROVE  A!Plan[op][n] # "rotate"
        OBVIOUS
      <3>1. CASE op \in {"loginWrong", "enable2FA", "verify2FA", "disable2FA", "initiateKYC", "kycWebhook", "revokeAll"}
        BY <3>1 DEF A!Plan
      <3>2. CASE op \in {"resendOTP", "requestReset", "loginRight", "changePIN"}
        BY <3>2 DEF A!Plan
      <3>3. CASE op = "register"
        BY <3>3 DEF A!Plan
      <3>4. CASE op = "verifyPhone"
        BY <3>4 DEF A!Plan
      <3>5. CASE op = "confirmReset"
        BY <3>5 DEF A!Plan
      <3> QED
        BY <3>1, <3>2, <3>3, <3>4, <3>5 DEF A!Operations, A!Plan
    <2> QED
      BY <1>1, <2>1 DEF A!Rotate, A!At, RequestOK
  <1> DEFINE s == handler[h].row
             read == handler[h].read
             new == [read[s] EXCEPT !.token = @ + 1, !.expired = FALSE]
  <1>4. /\ s \in DOMAIN sessions /\ s \in DOMAIN read /\ read[s] \in SessionRows
        /\ user.known
    BY <1>0, <1>1, <1>3 DEF RequestOK, AuthType
  <1>5. new \in SessionRows /\ new.pin = read[s].pin /\ new.revoked = read[s].revoked
    <2> DEFINE made == [read[s] EXCEPT !.token = @ + 1]
    <2>1. made \in SessionRows /\ made.pin = read[s].pin /\ made.revoked = read[s].revoked
      BY <1>4 DEF SessionRows
    <2>2. new = [made EXCEPT !.expired = FALSE]
      BY <1>4 DEF SessionRows
    <2> HIDE DEF made, new
    <2> QED
      BY <2>1, <2>2 DEF SessionRows
  <1>6. sessions' = [sessions EXCEPT ![s] = new]
    BY DEF A!Rotate
  <1>7. overlaps' = overlaps => sessions[s] = read[s]
    BY <1>0 DEF A!Rotate, AuthType
  <1> HIDE DEF new, s, read
  <1>8. /\ sessions' \in Seq(SessionRows) /\ Len(sessions) <= Len(sessions')
        /\ sessions' # << >> => user.known
    BY <1>0, <1>4, <1>5, <1>6 DEF AuthType
  <1>9. overlaps' = overlaps => \A q \in DOMAIN sessions' :
               \/ sessions'[q].revoked
               \/ sessions'[q].pin = user.pin
               \/ /\ q \in DOMAIN sessions /\ sessions'[q].pin = sessions[q].pin
                  /\ sessions[q].revoked => sessions'[q].revoked
    <2> SUFFICES ASSUME overlaps' = overlaps, NEW q \in DOMAIN sessions'
                 PROVE  /\ q \in DOMAIN sessions /\ sessions'[q].pin = sessions[q].pin
                        /\ sessions[q].revoked => sessions'[q].revoked
      OBVIOUS
    <2>1. CASE q = s
      BY <1>0, <1>4, <1>5, <1>6, <1>7, <2>1 DEF AuthType
    <2>2. CASE q # s
      BY <1>0, <1>4, <1>6, <2>2 DEF AuthType
    <2> QED
      BY <2>1, <2>2
  <1>10. /\ handler[h].op = handler[h].op /\ handler[h].next = handler[h].next
         /\ handler[h].op = "refresh" => handler[h].row = handler[h].row
    OBVIOUS
  <1> QED
    BY <1>1, <1>2, <1>8, <1>9, CallKeeps

\* The sessions that are revoked together are those that were read.
LEMMA SaveSessionsKeeps ==
    ASSUME AuthInv, NEW h \in Handlers, A!SaveSessions(h)
    PROVE  AuthInv'
  <1>0. AuthType
    BY DEF AuthInv
  <1>1. handler[h] # A!Idle /\ RequestOK(handler[h]) /\ ~A!At(h, "revoke")
    BY <1>0, AtCall DEF A!SaveSessions
  <1>2. /\ UNCHANGED <<user, aborts, guesses, unlocks>> /\ overlaps' \in {overlaps, overlaps + 1}
        /\ A!Onward(h, handler[h])
        /\ DOMAIN handler[h] = {"op", "next", "user", "read", "row"}
        /\ handler[h] = [f \in DOMAIN handler[h] |-> handler[h][f]]
    BY <1>1 DEF A!SaveSessions, RequestOK
  <1> DEFINE read == handler[h].read
  <1>3. PICK others \in SUBSET DOMAIN read :
            sessions' = [s \in DOMAIN sessions |->
                           IF s \in others THEN [read[s] EXCEPT !.revoked = TRUE] ELSE sessions[s]]
    BY DEF A!SaveSessions
  <1>4. \A s \in others : s \in DOMAIN sessions /\ read[s] \in SessionRows
    BY <1>0, <1>1, <1>3 DEF RequestOK, AuthType
  <1>5. \A row0 \in SessionRows : [row0 EXCEPT !.revoked = TRUE] \in SessionRows
                                  /\ [row0 EXCEPT !.revoked = TRUE].revoked
    BY DEF SessionRows
  <1>6. /\ sessions' \in Seq(SessionRows) /\ Len(sessions) <= Len(sessions')
        /\ sessions' # << >> => user.known
    BY <1>0, <1>3, <1>4, <1>5, SMTT(60) DEF AuthType
  <1>7. \A s \in DOMAIN sessions' :
               \/ sessions'[s].revoked
               \/ sessions'[s].pin = user.pin
               \/ /\ s \in DOMAIN sessions /\ sessions'[s].pin = sessions[s].pin
                  /\ sessions[s].revoked => sessions'[s].revoked
    BY <1>0, <1>3, <1>4, <1>5 DEF AuthType
  <1> QED
    BY <1>1, <1>2, <1>6, <1>7, CallKeeps

\* A request that ends early leaves the rows as they are.
LEMMA EndKeeps ==
    ASSUME AuthInv, NEW h \in Handlers, A!Reject(h) \/ A!Abort(h)
    PROVE  AuthInv'
  <1>0. AuthType /\ NoSessionOfOldPIN /\ guesses <= MAX_PIN_ATTEMPTS * (unlocks + overlaps) + Spent(user)
    BY DEF AuthInv
  <1>1. /\ handler' = [handler EXCEPT ![h] = A!Idle]
        /\ UNCHANGED <<user, sessions, guesses, unlocks, overlaps>>
    BY DEF A!Reject, A!Abort
  <1>2. /\ handler' = [g \in Handlers |-> handler'[g]]
        /\ \A g \in Handlers : (handler[g] = A!Idle \/ RequestOK(handler[g]))'
        /\ \A g \in Handlers \ {h} : handler'[g] = handler[g]
    <2> DEFINE w == A!Idle
    <2>1. w = A!Idle \/ RequestOK(w)'
      OBVIOUS
    <2>2. sessions' \in Seq(SessionRows) /\ Len(sessions) <= Len(sessions') /\ (user.known => user'.known)
      BY <1>0, <1>1 DEF AuthType
    <2>3. handler' = [handler EXCEPT ![h] = w]
      BY <1>1
    <2> HIDE DEF w
    <2> QED
      BY <1>0, <2>1, <2>2, <2>3, HandlersKept
  <1>3. aborts' \in Nat
    BY <1>0 DEF A!Reject, A!Abort, AuthType
  <1>4. AuthType'
    BY <1>0, <1>1, <1>2, <1>3 DEF AuthType, UserOK
  <1>5. NoSessionOfOldPIN'
    <2>1. CASE A!Abort(h)
      BY <1>0, <2>1 DEF A!Abort, AuthType, NoSessionOfOldPIN, A!NoSessionOfOldPIN
    <2>2. CASE A!Reject(h)
      <3>1. ~A!At(h, "revoke")
        BY <1>0, <2>2, AtCall DEF A!Reject
      <3>2. aborts' = aborts /\ user'.pin = user.pin /\ overlaps' \in {overlaps, overlaps + 1}
        BY <1>1, <2>2 DEF A!Reject
      <3> QED
        BY <1>0, <1>1, <1>2, <3>1, <3>2, SessionsKept
    <2> QED
      BY <2>1, <2>2
  <1>6. (guesses <= MAX_PIN_ATTEMPTS * (unlocks + overlaps) + Spent(user))'
    BY <1>0, <1>1 DEF Spent
  <1> QED
    BY <1>4, <1>5, <1>6 DEF AuthInv

\* A revocation leaves no valid session.
LEMMA RevokeKeeps ==
    ASSUME AuthInv, NEW h \in Handlers, A!Revoke(h)
    PROVE  AuthInv'
  <1>0. AuthType /\ guesses <= MAX_PIN_ATTEMPTS * (unlocks + overlaps) + Spent(user)
    BY DEF AuthInv
  <1>1. handler[h] # A!Idle /\ RequestOK(handler[h])
    BY <1>0, AtCall DEF A!Revoke
  <1>2. /\ UNCHANGED <<user, aborts, guesses, unlocks, overlaps>>
        /\ A!Onward(h, handler[h])
    BY DEF A!Revoke
  <1>3. /\ sessions' \in Seq(SessionRows) /\ Len(sessions') = Len(sessions)
        /\ \A s \in DOMAIN sessions' : sessions'[s].revoked
    <2>1. \A q \in SessionRows : [q EXCEPT !.revoked = TRUE] \in SessionRows /\ [q EXCEPT !.revoked = TRUE].revoked
      BY DEF SessionRows
    <2>2. sessions' = [s \in DOMAIN sessions |-> [sessions[s] EXCEPT !.revoked = TRUE]]
      BY DEF A!Revoke
    <2>3. \A s \in DOMAIN sessions : sessions[s] \in SessionRows
      BY <1>0 DEF AuthType
    <2>4. sessions \in Seq(SessionRows) /\ DOMAIN sessions' = DOMAIN sessions
          /\ \A s \in DOMAIN sessions' : sessions'[s] \in SessionRows /\ sessions'[s].revoked
      BY <1>0, <2>1, <2>2, <2>3 DEF AuthType
    <2> QED
      BY <2>2, <2>4
  <1>4. PICK w : /\ handler' = [handler EXCEPT ![h] = w]
                 /\ w = A!Idle \/ RequestOK(w)'
    <2> DEFINE m == handler[h]
    <2>1. m.op \in A!Operations /\ m.next \in 1..Len(A!Plan[m.op]) /\ UserOK(m.user)
      BY <1>1 DEF RequestOK
    <2>2. m.read \in Seq(SessionRows) /\ Len(m.read) <= Len(sessions')
      BY <1>0, <1>1, <1>3 DEF RequestOK, AuthType
    <2>3. m.op = "refresh" => m.row \in DOMAIN m.read
      BY <1>1 DEF RequestOK
    <2>4. m.op \notin {"register", "resendOTP"} => m.user.known /\ user'.known
      BY <1>1, <1>2 DEF RequestOK
    <2>5. m.op = "loginWrong" => ~m.user.locked \/ m.next = Len(A!Plan[m.op])
      BY <1>1 DEF RequestOK
    <2>6. DOMAIN m = {"op", "next", "user", "read", "row"} /\ m = [f \in DOMAIN m |-> m[f]]
      BY <1>1 DEF RequestOK
    <2> QED
      BY <1>0, <1>2, <2>1, <2>2, <2>3, <2>4, <2>5, <2>6, GoingOnward
  <1>5. /\ handler' = [g \in Handlers |-> handler'[g]]
        /\ \A g \in Handlers : (handler[g] = A!Idle \/ RequestOK(handler[g]))'
    <2>1. Len(sessions) <= Len(sessions') /\ (user.known => user'.known)
      BY <1>0, <1>2, <1>3 DEF AuthType
    <2> QED
      BY <1>0, <1>3, <1>4, <2>1, HandlersKept
  <1>6. AuthType'
    BY <1>0, <1>2, <1>3, <1>5 DEF AuthType, UserOK
  <1>7. NoSessionOfOldPIN'
    BY <1>3 DEF NoSessionOfOldPIN, A!NoSessionOfOldPIN
  <1>8. (guesses <= MAX_PIN_ATTEMPTS * (unlocks + overlaps) + Spent(user))'
    BY <1>0, <1>2 DEF Spent
  <1> QED
    BY <1>6, <1>7, <1>8 DEF AuthInv

\* A step outside the requests takes no session back and no user away.
LEMMA QuietKeeps ==
    ASSUME AuthInv, UNCHANGED <<handler, aborts, guesses, overlaps>>,
           UserOK(user'), user'.known = user.known, user'.pin = user.pin,
           ~user.known => user' = user,
           sessions' \in Seq(SessionRows), Len(sessions') = Len(sessions),
           \A s \in DOMAIN sessions : sessions'[s].pin = sessions[s].pin
                                      /\ (sessions[s].revoked => sessions'[s].revoked),
           unlocks' \in Nat,
           guesses <= MAX_PIN_ATTEMPTS * (unlocks' + overlaps) + Spent(user')
    PROVE  AuthInv'
  <1>0. AuthType /\ NoSessionOfOldPIN
    BY DEF AuthInv
  <1>1. \A m : RequestOK(m) => RequestOK(m)'
    BY <1>0 DEF RequestOK, AuthType
  <1>2. (sessions # << >> => user.known)' /\ (~user.known => user = A!NobodyYet)'
    BY <1>0 DEF AuthType
  <1>3. handler' = [h \in Handlers |-> handler'[h]]
        /\ \A h \in Handlers : (handler[h] = A!Idle \/ RequestOK(handler[h]))'
    BY <1>0, <1>1 DEF AuthType
  <1>4. aborts' \in Nat /\ guesses' \in Nat /\ overlaps' \in Nat /\ UserOK(user)'
    BY <1>0 DEF AuthType
  <1>5. AuthType'
    BY <1>2, <1>3, <1>4 DEF AuthType
  <1>6. NoSessionOfOldPIN'
    <2> SUFFICES ASSUME overlaps' = 0, aborts' = 0, A!Revoking' = {}, NEW s \in DOMAIN sessions'
                 PROVE  sessions'[s].revoked \/ sessions'[s].pin = user'.pin
      BY DEF NoSessionOfOldPIN, A!NoSessionOfOldPIN
    <2>1. A!Revoking = {}
      BY DEF A!Revoking, A!At
    <2>2. s \in DOMAIN sessions
      BY <1>0 DEF AuthType
    <2> QED
      BY <1>0, <2>1, <2>2 DEF NoSessionOfOldPIN, A!NoSessionOfOldPIN
  <1>7. (guesses <= MAX_PIN_ATTEMPTS * (unlocks + overlaps) + Spent(user))'
    OBVIOUS
  <1> QED
    BY <1>5, <1>6, <1>7 DEF AuthInv

\* A logout ends one session.
LEMMA LogoutKeeps ==
    ASSUME AuthInv, NEW s \in DOMAIN sessions, A!Logout(s)
    PROVE  AuthInv'
  <1>0. AuthType /\ guesses <= MAX_PIN_ATTEMPTS * (unlocks + overlaps) + Spent(user)
    BY DEF AuthInv
  <1>1. UNCHANGED <<user, handler, aborts, guesses, unlocks, overlaps>>
    BY DEF A!Logout
  <1>2. /\ sessions' \in Seq(SessionRows) /\ Len(sessions') = Len(sessions)
        /\ \A q \in DOMAIN sessions : sessions'[q].pin = sessions[q].pin
                                      /\ (sessions[q].revoked => sessions'[q].revoked)
    <2> DEFINE new == [sessions[s] EXCEPT !.revoked = TRUE]
    <2>a. sessions[s] \in SessionRows
      BY <1>0 DEF AuthType
    <2>1. new \in SessionRows /\ new.pin = sessions[s].pin /\ new.revoked
      BY <2>a DEF SessionRows
    <2>2. sessions' = [sessions EXCEPT ![s] = new]
      BY DEF A!Logout
    <2> HIDE DEF new
    <2> QED
      BY <1>0, <2>1, <2>2 DEF AuthType
  <1>3. UserOK(user') /\ unlocks' \in Nat
    BY <1>0, <1>1 DEF AuthType
  <1> QED
    BY <1>0, <1>1, <1>2, <1>3, QuietKeeps

\* A lock that runs out is counted; MAX_PIN_ATTEMPTS wrong PINs had come before.
LEMMA TickKeeps ==
    ASSUME AuthInv, A!Tick
    PROVE  AuthInv'
  <1>0. AuthType /\ guesses <= MAX_PIN_ATTEMPTS * (unlocks + overlaps) + Spent(user)
    BY DEF AuthInv
  <1>1. UNCHANGED <<handler, aborts, guesses, overlaps>>
    BY DEF A!Tick
  <1>2. CASE /\ user.locked /\ user' = [user EXCEPT !.locked = FALSE]
             /\ unlocks' = unlocks + 1 /\ UNCHANGED <<sessions, otps>>
    <2>1. UserOK(user') /\ user'.known = user.known /\ user'.pin = user.pin
          /\ user'.attempts = user.attempts /\ ~user'.locked
      BY <1>0, <1>2 DEF AuthType, UserOK
    <2>2. user.known
      BY <1>0, <1>2 DEF AuthType, A!NobodyYet
    <2>3. unlocks' \in Nat /\ guesses <= MAX_PIN_ATTEMPTS * (unlocks' + overlaps) + Spent(user')
      <3>1. \A n \in Nat : MAX_PIN_ATTEMPTS * (n + 1) = MAX_PIN_ATTEMPTS * n + MAX_PIN_ATTEMPTS
                           /\ MAX_PIN_ATTEMPTS * n \in Nat
        BY AuthServiceAssumption
      <3>2. unlocks' + overlaps = (unlocks + overlaps) + 1 /\ unlocks + overlaps \in Nat
        BY <1>0, <1>2 DEF AuthType
      <3>3. Spent(user) = MAX_PIN_ATTEMPTS /\ Spent(user') \in Nat /\ guesses \in Nat
        BY <1>0, <1>2, <2>1 DEF Spent, AuthType, UserOK
      <3> QED
        BY <1>0, <1>2, <3>1, <3>2, <3>3, AuthServiceAssumption, SMTT(60) DEF AuthType
    <2>4. sessions' \in Seq(SessionRows) /\ Len(sessions') = Len(sessions)
      BY <1>0, <1>2 DEF AuthType
    <2> QED
      BY <1>1, <1>2, <2>1, <2>2, <2>3, <2>4, QuietKeeps
  <1>3. CASE \E i \in DOMAIN otps : UNCHANGED <<user, sessions, unlocks>>
    <2>1. UserOK(user') /\ unlocks' \in Nat /\ sessions' \in Seq(SessionRows)
      BY <1>0, <1>3 DEF AuthType
    <2> QED
      BY <1>0, <1>1, <1>3, <2>1, QuietKeeps
  <1>4. CASE \E s \in DOMAIN sessions : /\ sessions' = [sessions EXCEPT ![s].expired = TRUE]
                                        /\ UNCHANGED <<user, otps, unlocks>>
    <2>1. /\ sessions' \in Seq(SessionRows) /\ Len(sessions') = Len(sessions)
          /\ \A q \in DOMAIN sessions : sessions'[q].pin = sessions[q].pin
                                        /\ (sessions[q].revoked => sessions'[q].revoked)
      <3>1. PICK s \in DOMAIN sessions : sessions' = [sessions EXCEPT ![s].expired = TRUE]
        BY <1>4
      <3> DEFINE new == [sessions[s] EXCEPT !.expired = TRUE]
      <3>a. sessions[s] \in SessionRows
        BY <1>0, <3>1 DEF AuthType
      <3>2. new \in SessionRows /\ new.pin = sessions[s].pin /\ new.revoked = sessions[s].revoked
        BY <3>a DEF SessionRows
      <3>3. sessions' = [sessions EXCEPT ![s] = new]
        BY <3>1
      <3> HIDE DEF new
      <3>4. s \in DOMAIN sessions /\ sessions \in Seq(SessionRows)
        BY <1>0, <3>1 DEF AuthType
      <3> QED
        BY <3>2, <3>3, <3>4
    <2>2. UserOK(user') /\ unlocks' \in Nat
      BY <1>0, <1>4 DEF AuthType
    <2> QED
      BY <1>0, <1>1, <1>4, <2>1, <2>2, QuietKeeps
  <1> QED
    BY <1>2, <1>3, <1>4 DEF A!Tick

\* The row that is saved: what the operation makes of what it read.
LEMMA SavedRow ==
    ASSUME AuthInv, NEW h \in Handlers, A!SaveUser(h)
    PROVE  LET op == handler[h].op
               read == handler[h].user
           IN  /\ UserOK(user') /\ user'.known
               /\ op \notin {"changePIN", "confirmReset"} /\ user = read => user'.pin = user.pin
               /\ op = "loginWrong" => Spent(user') >= 1
               /\ op = "loginWrong" /\ user = read => Spent(user') >= Spent(user) + 1
               /\ op \notin A!Afresh \cup {"loginWrong"} /\ user = read => Spent(user') = Spent(user)
               /\ op = "register" => user = read
  <1> DEFINE op == handler[h].op
             read == handler[h].user
  <1>0. AuthType
    BY DEF AuthInv
  <1>1. handler[h] # A!Idle /\ RequestOK(handler[h]) /\ A!At(h, "saveUser")
    BY <1>0, AtCall DEF A!SaveUser
  <1>2. PICK v \in A!Written(op, read) :
            user' = [v EXCEPT !.locked = IF op \in A!Afresh THEN user.locked ELSE @]
    BY DEF A!SaveUser
  <1>3. UserOK(read) /\ op \in A!Operations /\ user.locked \in BOOLEAN /\ UserOK(user)
    BY <1>0, <1>1 DEF RequestOK, AuthType, UserOK
  <1>4. CASE op = "register"
    <2>1. read = A!NobodyYet /\ user = A!NobodyYet
      BY <1>0, <1>1, <1>4, SavingUser DEF RequestOK, A!SaveUser, AuthType
    <2>2. v = [A!NobodyYet EXCEPT !.known = TRUE]
      BY <1>2, <1>4 DEF A!Written, A!Register
    <2>3. user' = v
      BY <1>2, <1>4, <2>2 DEF A!Afresh, A!NobodyYet
    <2>4. UserOK(user') /\ user'.known /\ user'.pin = user.pin /\ user'.attempts = user.attempts
          /\ user'.locked = user.locked
      BY <2>1, <2>2, <2>3, AuthServiceAssumption DEF A!NobodyYet, UserOK
    <2> QED
      BY <1>4, <2>1, <2>4 DEF Spent, A!Afresh
  <1>5. CASE op # "register"
    <2>1. op \in {"verifyPhone", "loginRight", "loginWrong", "changePIN", "confirmReset", "enable2FA",
                  "verify2FA", "disable2FA", "initiateKYC", "kycWebhook"}
      BY <1>1, <1>5, SavingUser
    <2>2. /\ UserOK(v) /\ v.known = read.known
          /\ op \notin {"changePIN", "confirmReset"} => v.pin = read.pin
          /\ op \notin A!Afresh \cup {"loginWrong"} => v.attempts = read.attempts /\ v.locked = read.locked
          /\ op = "loginWrong" => v.attempts = read.attempts + 1 \/ v.locked
      BY <1>2, <1>3, <2>1, WrittenRow
    <2>3. read.known /\ (op = "loginWrong" => ~read.locked)
      BY <1>1, <2>1 DEF RequestOK
    <2>4. UserOK(user') /\ user'.known = v.known /\ user'.pin = v.pin /\ user'.attempts = v.attempts
          /\ (op \notin A!Afresh => user'.locked = v.locked)
      <3> DEFINE b == IF op \in A!Afresh THEN user.locked ELSE v.locked
      <3>1. b \in BOOLEAN /\ (op \notin A!Afresh => b = v.locked)
        BY <1>3, <2>2 DEF UserOK
      <3>2. user' = [v EXCEPT !.locked = b]
        BY <1>2
      <3> HIDE DEF b
      <3> QED
        BY <2>2, <3>1, <3>2 DEF UserOK
    <2>5. /\ read.attempts \in Nat /\ read.attempts < MAX_PIN_ATTEMPTS
          /\ v.attempts \in Nat /\ v.attempts < MAX_PIN_ATTEMPTS
      BY <1>3, <2>2 DEF UserOK
    <2>6. "loginWrong" \notin A!Afresh
      BY DEF A!Afresh
    <2>7. op = "loginWrong" => Spent(user') >= read.attempts + 1 /\ Spent(read) = read.attempts
      BY <2>2, <2>3, <2>4, <2>5, <2>6, AuthServiceAssumption DEF Spent
    <2>8. op \notin A!Afresh \cup {"loginWrong"} => Spent(user') = Spent(read)
      BY <2>2, <2>4 DEF Spent
    <2>9. Spent(user') \in Nat
      BY <2>4, AuthServiceAssumption DEF Spent, UserOK
    <2>10. op = "loginWrong" => Spent(user') >= 1
      BY <2>5, <2>7, <2>9
    <2>11. /\ op = "loginWrong" /\ user = read => Spent(user') >= Spent(user) + 1
           /\ op \notin A!Afresh \cup {"loginWrong"} /\ user = read => Spent(user') = Spent(user)
      BY <2>7, <2>8
    <2> QED
      BY <1>5, <2>2, <2>3, <2>4, <2>10, <2>11
  <1> QED
    BY <1>4, <1>5

\* A save of the user's row counts what it overwrites, and revokes next if it
\* changed the PIN.
LEMMA SaveUserKeeps ==
    ASSUME AuthInv, NEW h \in Handlers, A!SaveUser(h)
    PROVE  AuthInv'
  <1> DEFINE op == handler[h].op
             read == handler[h].user
             m == [handler[h] EXCEPT !.user = user']
  <1>0. AuthType /\ NoSessionOfOldPIN /\ guesses <= MAX_PIN_ATTEMPTS * (unlocks + overlaps) + Spent(user)
    BY DEF AuthInv
  <1>1. handler[h] # A!Idle /\ RequestOK(handler[h]) /\ A!At(h, "saveUser") /\ ~A!At(h, "revoke")
    BY <1>0, AtCall DEF A!SaveUser
  <1>2. /\ UNCHANGED <<sessions, aborts>>
        /\ overlaps' = IF user # read THEN overlaps + 1 ELSE overlaps
        /\ unlocks' = IF op \in A!Afresh THEN 0 ELSE unlocks
        /\ A!Onward(h, m)
    BY DEF A!SaveUser
  <1>3. guesses' = IF op \in A!Afresh THEN 0 ELSE IF op = "loginWrong" THEN guesses + 1 ELSE guesses
    <2>1. guesses' = CASE op \in A!Afresh -> 0
                       [] op = "loginWrong" -> guesses + 1
                       [] OTHER -> guesses
      BY DEF A!SaveUser
    <2>2. "loginWrong" \notin A!Afresh
      BY DEF A!Afresh
    <2> HIDE DEF op
    <2> QED
      BY <2>1, <2>2
  <1>4. /\ UserOK(user') /\ user'.known
        /\ op \notin {"changePIN", "confirmReset"} /\ user = read => user'.pin = user.pin
        /\ op = "loginWrong" => Spent(user') >= 1
        /\ op = "loginWrong" /\ user = read => Spent(user') >= Spent(user) + 1
        /\ op \notin A!Afresh \cup {"loginWrong"} /\ user = read => Spent(user') = Spent(user)
        /\ op = "register" => user = read
    BY SavedRow
  <1>5. /\ DOMAIN m = {"op", "next", "user", "read", "row"} /\ m = [f \in DOMAIN m |-> m[f]]
        /\ m.op = op /\ m.next = handler[h].next /\ m.user = user'
        /\ m.read = handler[h].read /\ m.row = handler[h].row
    BY <1>1 DEF RequestOK
  <1> HIDE DEF m
  <1>6. /\ op \in {"register", "verifyPhone", "loginRight", "loginWrong", "changePIN",
                   "confirmReset", "enable2FA", "verify2FA", "disable2FA",
                   "initiateKYC", "kycWebhook"}
        /\ op \in {"register", "loginWrong", "changePIN"} => handler[h].next = 1
        /\ op = "confirmReset" => handler[h].next = 3
    BY <1>1, SavingUser
  <1>7. PICK w : /\ handler' = [handler EXCEPT ![h] = w]
                 /\ w = A!Idle \/ RequestOK(w)'
                 /\ m.next # Len(A!Plan[m.op]) => w # A!Idle /\ w.op = m.op /\ w.next = m.next + 1
    <2>1. m.op \in A!Operations /\ m.next \in 1..Len(A!Plan[m.op]) /\ UserOK(m.user)
      BY <1>1, <1>4, <1>5 DEF RequestOK
    <2>2. m.read \in Seq(SessionRows) /\ Len(m.read) <= Len(sessions')
      BY <1>0, <1>1, <1>2, <1>5 DEF RequestOK, AuthType
    <2>3. m.op = "refresh" => m.row \in DOMAIN m.read
      BY <1>5, <1>6
    <2>4. m.op \notin {"register", "resendOTP"} => m.user.known /\ user'.known
      BY <1>4, <1>5
    <2>5. m.op = "loginWrong" => ~m.user.locked \/ m.next = Len(A!Plan[m.op])
      BY <1>5, <1>6 DEF A!Plan
    <2> QED
      BY <1>0, <1>2, <1>5, <2>1, <2>2, <2>3, <2>4, <2>5, GoingOnward
  <1>8. /\ handler' = [g \in Handlers |-> handler'[g]]
        /\ \A g \in Handlers : (handler[g] = A!Idle \/ RequestOK(handler[g]))'
        /\ handler'[h] = w /\ \A g \in Handlers \ {h} : handler'[g] = handler[g]
    <2>1. sessions' \in Seq(SessionRows) /\ Len(sessions) <= Len(sessions') /\ (user.known => user'.known)
      BY <1>0, <1>2, <1>4 DEF AuthType
    <2> QED
      BY <1>0, <1>7, <2>1, HandlersKept
  <1>9. overlaps' \in Nat /\ guesses' \in Nat /\ unlocks' \in Nat /\ aborts' \in Nat
    BY <1>0, <1>2, <1>3 DEF AuthType
  <1>10. AuthType'
    BY <1>0, <1>2, <1>4, <1>8, <1>9 DEF AuthType, UserOK
  <1>11. NoSessionOfOldPIN'
    <2>1. CASE op \in {"changePIN", "confirmReset"}
      <3>1. handler'[h] # A!Idle /\ handler'[h].op = op /\ handler'[h].next = m.next + 1
        <4>1. Len(A!Plan["changePIN"]) = 2 /\ Len(A!Plan["confirmReset"]) = 4
          BY DEF A!Plan
        <4>2. m.next # Len(A!Plan[m.op])
          BY <1>5, <1>6, <2>1, <4>1
        <4> QED
          BY <1>5, <1>7, <1>8, <4>2
      <3>2. A!Plan[op][m.next + 1] = "revoke"
        BY <1>5, <1>6, <2>1 DEF A!Plan
      <3>3. A!Plan[handler'[h].op][handler'[h].next] = "revoke"
        BY <3>1, <3>2
      <3>4. h \in A!Revoking'
        BY <3>1, <3>3 DEF A!Revoking, A!At
      <3> QED
        BY <3>4 DEF NoSessionOfOldPIN, A!NoSessionOfOldPIN
    <2>2. CASE op \notin {"changePIN", "confirmReset"} /\ user = read
      <3>1. user'.pin = user.pin /\ overlaps' = overlaps
        BY <1>2, <1>4, <2>2
      <3>2. \A s \in DOMAIN sessions' : /\ s \in DOMAIN sessions /\ sessions'[s].pin = sessions[s].pin
                                        /\ sessions[s].revoked => sessions'[s].revoked
        BY <1>2
      <3>3. aborts' = aborts /\ overlaps' \in {overlaps, overlaps + 1}
        BY <1>2, <3>1
      <3> QED
        BY <1>0, <1>1, <1>8, <3>1, <3>2, <3>3, SessionsKept
    <2>3. CASE user # read
      <3>1. overlaps' # 0
        BY <1>0, <1>2, <2>3 DEF AuthType
      <3> QED
        BY <3>1 DEF NoSessionOfOldPIN, A!NoSessionOfOldPIN
    <2> QED
      BY <2>1, <2>2, <2>3
  <1>12. guesses' <= MAX_PIN_ATTEMPTS * (unlocks' + overlaps') + Spent(user)'
    <2>1. \A n \in Nat : MAX_PIN_ATTEMPTS * (n + 1) = MAX_PIN_ATTEMPTS * n + MAX_PIN_ATTEMPTS
                         /\ MAX_PIN_ATTEMPTS * n \in Nat
      BY AuthServiceAssumption
    <2>2. Spent(user)' = Spent(user') /\ Spent(user') \in Nat
          /\ Spent(user) \in Nat /\ Spent(user) <= MAX_PIN_ATTEMPTS
      BY <1>0, <1>4, AuthServiceAssumption DEF Spent, AuthType, UserOK
    <2>3. unlocks + overlaps \in Nat /\ unlocks' + overlaps' \in Nat /\ guesses \in Nat
          /\ overlaps \in Nat /\ unlocks \in Nat
      BY <1>0, <1>9 DEF AuthType
    <2>4. CASE op \in A!Afresh
      <3>1. guesses' = 0 /\ MAX_PIN_ATTEMPTS * (unlocks' + overlaps') \in Nat
        BY <1>3, <2>1, <2>3, <2>4
      <3> QED
        BY <2>2, <3>1
    <2>5. CASE op \notin A!Afresh /\ user = read
      <3>1. unlocks' + overlaps' = unlocks + overlaps
        BY <1>2, <2>5
      <3>2. guesses' <= guesses + 1 /\ (op # "loginWrong" => guesses' = guesses)
        BY <1>3, <2>3, <2>5
      <3>3. IF op = "loginWrong" THEN Spent(user') >= Spent(user) + 1 ELSE Spent(user') = Spent(user)
        BY <1>4, <2>5
      <3>4. MAX_PIN_ATTEMPTS * (unlocks + overlaps) \in Nat /\ guesses' \in Nat
        BY <1>9, <2>1, <2>3
      <3> QED
        BY <1>0, <2>2, <2>3, <3>1, <3>2, <3>3, <3>4
    <2>6. CASE op \notin A!Afresh /\ user # read
      <3>1. unlocks' + overlaps' = (unlocks + overlaps) + 1
        BY <1>2, <2>3, <2>6
      <3>2. guesses' <= guesses + 1 /\ (op # "loginWrong" => guesses' = guesses)
        BY <1>3, <2>3, <2>6
      <3>3. MAX_PIN_ATTEMPTS * (unlocks' + overlaps') = MAX_PIN_ATTEMPTS * (unlocks + overlaps) + MAX_PIN_ATTEMPTS
            /\ MAX_PIN_ATTEMPTS * (unlocks + overlaps) \in Nat
        BY <2>1, <2>3, <3>1
      <3>4. op = "loginWrong" => Spent(user') >= 1
        BY <1>4
      <3> DEFINE before == MAX_PIN_ATTEMPTS * (unlocks + overlaps)
                 after == MAX_PIN_ATTEMPTS * (unlocks' + overlaps')
      <3>5. before \in Nat /\ after = before + MAX_PIN_ATTEMPTS /\ guesses <= before + Spent(user)
        BY <1>0, <3>3
      <3> HIDE DEF before, after
      <3>6. guesses' <= after + Spent(user')
        BY <1>9, <2>2, <2>3, <3>2, <3>4, <3>5, AuthServiceAssumption
      <3> QED
        BY <2>2, <3>6 DEF after
    <2> QED
      BY <2>4, <2>5, <2>6
  <1> QED
    BY <1>10, <1>11, <1>12 DEF AuthInv

\* The tables are empty, but for the user who may be there.
LEMMA AuthInit ==
    ASSUME A!Init
    PROVE  AuthInv
  <1>1. UserOK(A!NobodyYet) /\ UserOK(A!Member) /\ A!Member.known
    <2>1. UserOK(A!NobodyYet)
      BY AuthServiceAssumption DEF A!NobodyYet, UserOK
    <2> DEFINE Fresh(u) == UserOK(u) /\ {"verified", "status"} \subseteq DOMAIN u /\ u.attempts = 0 /\ ~u.locked
               known == [A!NobodyYet EXCEPT !.known = TRUE]
               verified == [known EXCEPT !.verified = TRUE]
    <2>2. Fresh(A!NobodyYet)
      BY <2>1 DEF A!NobodyYet
    <2>3. Fresh(known) /\ known.known
      BY <2>2, AuthServiceAssumption DEF UserOK
    <2>4. A!Member = [verified EXCEPT !.status = "active"]
      BY DEF A!Member
    <2> HIDE DEF known
    <2>5. Fresh(verified) /\ verified.known
      BY <2>3, AuthServiceAssumption DEF UserOK
    <2> HIDE DEF verified
    <2>6. UserOK(A!Member) /\ A!Member.known
      BY <2>4, <2>5, AuthServiceAssumption DEF UserOK
    <2> QED
      BY <2>1, <2>6
  <1>2. AuthType
    BY <1>1 DEF A!Init, AuthType
  <1>3. A!NobodyYet.attempts = 0 /\ A!Member.attempts = 0 /\ ~A!NobodyYet.locked /\ ~A!Member.locked
    BY DEF A!NobodyYet, A!Member
  <1>4. guesses <= MAX_PIN_ATTEMPTS * (unlocks + overlaps) + Spent(user)
    BY <1>3, AuthServiceAssumption DEF A!Init, Spent
  <1>5. NoSessionOfOldPIN
    BY DEF A!Init, NoSessionOfOldPIN, A!NoSessionOfOldPIN
  <1> QED
    BY <1>2, <1>4, <1>5 DEF AuthInv

\* Every step of the auth service keeps its invariant.
LEMMA AuthNext ==
    ASSUME AuthInv, [A!Next]_(A!vars)
    PROVE  AuthInv'
  <1>1. ASSUME NEW h \in Handlers,
               \/ \E op \in A!Operations : A!Begin(h, op)
               \/ \E s \in DOMAIN sessions : A!BeginRefresh(h, s)
        PROVE  AuthInv'
    BY <1>1, BeginKeeps
  <1>2. ASSUME NEW h \in Handlers, A!SaveUser(h)
        PROVE  AuthInv'
    BY <1>2, SaveUserKeeps
  <1>3. ASSUME NEW h \in Handlers, A!VoidOtps(h) \/ A!SaveOtp(h) \/ A!FindOtp(h) \/ A!UseOtp(h)
        PROVE  AuthInv'
    BY <1>3, OtpKeeps
  <1>4. ASSUME NEW h \in Handlers, A!SaveSession(h)
        PROVE  AuthInv'
    BY <1>4, SaveSessionKeeps
  <1>5. ASSUME NEW h \in Handlers, A!Rotate(h)
        PROVE  AuthInv'
    BY <1>5, RotateKeeps
  <1>6. ASSUME NEW h \in Handlers, A!SaveSessions(h)
        PROVE  AuthInv'
    BY <1>6, SaveSessionsKeeps
  <1>7. ASSUME NEW h \in Handlers, A!Revoke(h)
        PROVE  AuthInv'
    BY <1>7, RevokeKeeps
  <1>8. ASSUME NEW h \in Handlers, A!Reject(h) \/ A!Abort(h)
        PROVE  AuthInv'
    BY <1>8, EndKeeps
  <1>9. ASSUME NEW s \in DOMAIN sessions, A!Logout(s)
        PROVE  AuthInv'
    BY <1>9, LogoutKeeps
  <1>10. CASE A!Tick
    BY <1>10, TickKeeps
  <1>11. CASE UNCHANGED A!vars
    BY <1>11 DEF A!vars, AuthInv, AuthType, RequestOK, UserOK, Spent, NoSessionOfOldPIN,
                 A!NoSessionOfOldPIN, A!Revoking, A!At
  <1> QED
    BY <1>1, <1>2, <1>3, <1>4, <1>5, <1>6, <1>7, <1>8, <1>9, <1>10, <1>11 DEF A!Next

\* The invariant of the auth service.
LEMMA AuthInvariant == A!Spec => []AuthInv
  <1>1. A!Init => AuthInv
    BY AuthInit
  <1>2. AuthInv /\ [A!Next]_(A!vars) => AuthInv'
    BY AuthNext
  <1> QED
    BY <1>1, <1>2, PTL DEF A!Spec

\* The auth service answers at most MAX_PIN_ATTEMPTS wrong PINs since the last
\* right or new one, for each lock that ran out and each save of the user's row
\* over one that was not read, and as many besides: the count of attempts is not
\* what bounds them once two requests overlap (auth.service.ts, 502-510).
THEOREM GuessesAreBounded == A!Spec => []GuessesBounded
  <1>1. AuthInv => GuessesBounded
    <2> SUFFICES ASSUME AuthInv PROVE GuessesBounded
      OBVIOUS
    <2>1. AuthType /\ guesses <= MAX_PIN_ATTEMPTS * (unlocks + overlaps) + Spent(user)
      BY DEF AuthInv
    <2>2. Spent(user) \in Nat /\ Spent(user) <= MAX_PIN_ATTEMPTS
      BY <2>1, AuthServiceAssumption DEF Spent, AuthType, UserOK
    <2>3. unlocks + overlaps \in Nat /\ unlocks \in Nat /\ overlaps \in Nat /\ guesses \in Nat
      BY <2>1 DEF AuthType
    <2>4. \A n \in Nat : MAX_PIN_ATTEMPTS * (1 + n) = MAX_PIN_ATTEMPTS * n + MAX_PIN_ATTEMPTS
                         /\ MAX_PIN_ATTEMPTS * n \in Nat
      BY AuthServiceAssumption
    <2>5. guesses <= MAX_PIN_ATTEMPTS * (1 + (unlocks + overlaps))
      BY <2>1, <2>2, <2>3, <2>4, AuthServiceAssumption
    <2>6. 1 + (unlocks + overlaps) = 1 + unlocks + overlaps
      BY <2>3
    <2> QED
      BY <2>5, <2>6 DEF GuessesBounded, A!GuessesBounded
  <1> QED
    BY <1>1, AuthInvariant, PTL

\* Once a PIN was changed no session of an older one stays valid, whatever the
\* requests, as long as none died before its revocation and none wrote back
\* rows that had changed since it read them (auth.service.ts, 351-400).
THEOREM NewPINEndsSessions == A!Spec => []NoSessionOfOldPIN
  <1>1. AuthInv => NoSessionOfOldPIN
    BY DEF AuthInv
  <1> QED
    BY <1>1, AuthInvariant, PTL

-----------------------------------------------------------------------------
(* The compliance service and the page of its alerts.                      *)

CheckOK(x) ==
    \/ x = M!NoCheck
    \/ /\ DOMAIN x = {"step", "usd", "level", "corridor", "hit"} /\ x = [f \in DOMAIN x |-> x[f]]
       /\ x.step \in {"screening", "saving", "queueing", "answered", "failed"}

\* How far a check is, and what it has filed.
Filed(c) ==
    /\ alert[c] \in {"none", "open", "cleared", "reported"}
    /\ check[c].step \in {"none", "screening", "saving"} => alert[c] = "none"
    /\ check[c].step = "queueing" => alert[c] # "none"
    /\ M!At(c, "answered") /\ M!Triggers(check[c]) => alert[c] # "none" /\ c \in queue

FiguresOK ==
    /\ figures = M!NoFigures \/ figures \in [step : {"counting"}, total : Int, open : Int, torn : BOOLEAN]
    /\ figures.step = "counting" /\ ~figures.torn =>
          /\ figures.total >= 0 => figures.total = M!CountAll
          /\ figures.open >= 0 => figures.open <= M!CountAll

Row == [of : Checks, status : {"open", "cleared", "reported"} \cup Filters]

List == [n : Nat, filter : {"open"} \cup Filters, step : {"sent", "read"}, rows : SUBSET Row]

Page == [filter : {"open"} \cup Filters, rows : SUBSET Row, loading : BOOLEAN,
         asked : Nat, last : {"open"} \cup Filters, landed : Nat, lists : SUBSET List]

Decision == [of : Checks, status : {"cleared", "reported"}, filter : {"open"} \cup Filters,
             step : {"sent", "done"}]

ListOK(o, l) ==
    /\ l \in List
    /\ l.n <= page[o].asked
    /\ l.n = page[o].asked => l.filter = page[o].last
    /\ \A r \in l.rows : r.status = l.filter /\ alert[r.of] # "none"
    /\ l.n = page[o].asked => \A r \in l.rows : r.of \in decided[o] => r.status # "open"

PageOK(o) ==
    /\ page[o] \in Page
    /\ page[o].landed <= page[o].asked
    /\ \A l \in page[o].lists : ListOK(o, l)
    /\ \A r \in page[o].rows : alert[r.of] # "none"
    /\ page[o].landed = page[o].asked => \A r \in page[o].rows :
          /\ r.status = page[o].last
          /\ r.of \in decided[o] => r.status # "open"

DecisionsOK(o) ==
    /\ post[o] \subseteq Decision
    /\ \A d \in post[o] : alert[d.of] # "none" /\ (d.step = "done" => alert[d.of] # "open")
    /\ \A c \in decided[o] : c \in Checks /\ alert[c] \notin {"none", "open"}

AlertsInv ==
    /\ check = [c \in Checks |-> check[c]]
    /\ alert = [c \in Checks |-> alert[c]]
    /\ page = [o \in Officers |-> page[o]]
    /\ post = [o \in Officers |-> post[o]]
    /\ decided = [o \in Officers |-> decided[o]]
    /\ \A c \in Checks : CheckOK(check[c]) /\ Filed(c)
    /\ FiguresOK
    /\ \A o \in Officers : PageOK(o) /\ DecisionsOK(o)

\* The counts of the dashboard are of finite sets, one within the other.
LEMMA Counts ==
    /\ M!CountAll \in Nat /\ M!CountOpen \in Nat /\ M!CountOpen <= M!CountAll
  <1> DEFINE all == {c \in Checks : alert[c] # "none"}
             open == {c \in Checks : alert[c] = "open"}
  <1>1. IsFiniteSet(all) /\ open \subseteq all
    BY ComplianceAssumption, FS_Subset
  <1>2. Cardinality(open) <= Cardinality(all)
    BY <1>1, FS_Subset
  <1>3. IsFiniteSet(open)
    BY <1>1, FS_Subset
  <1>4. Cardinality(all) \in Nat /\ Cardinality(open) \in Nat
    BY <1>1, <1>3, FS_CardinalityType
  <1>5. M!CountAll = Cardinality(all) /\ M!CountOpen = Cardinality(open)
    <2>1. \A S : M!Cardinality(S) = Cardinality(S)
      BY DEF M!Cardinality, Cardinality
    <2> QED
      BY <2>1 DEF M!CountAll, M!CountOpen
  <1> QED
    BY <1>2, <1>4, <1>5

\* The score is a percentage.
LEMMA ScoreBound ==
    ASSUME NEW t \in Nat, NEW o \in Nat, o <= t, t > 0
    PROVE  (200 * (t - o) + t) \div (2 * t) \in 0..100
  <1> DEFINE n == 200 * (t - o) + t
             m == 2 * t
  <1>1. n \in Nat /\ m \in Nat /\ m > 0 /\ n < 101 * m
    OBVIOUS
  <1> HIDE DEF n, m
  <1>2. n \div m \in Int
    BY <1>1
  <1>3. n = m * (n \div m) + (n % m) /\ 0 <= n % m /\ n % m < m /\ n % m \in Int
    BY <1>1
  <1> DEFINE q == n \div m
             r == n % m
  <1>4. q \in Int /\ r \in Int /\ n = m * q + r /\ 0 <= r /\ r < m
    BY <1>2, <1>3
  <1> HIDE DEF q, r
  <1>5. q >= 0
    <2> SUFFICES ASSUME q <= -1 PROVE FALSE
      BY <1>4
    <2>1. m * q <= m * (-1)
      BY <1>1, <1>4
    <2> QED
      BY <1>1, <1>4, <2>1
  <1>6. q <= 100
    <2> SUFFICES ASSUME q >= 101 PROVE FALSE
      BY <1>4
    <2>1. m * q >= m * 101
      BY <1>1, <1>4
    <2> QED
      BY <1>1, <1>4, <2>1
  <1> QED
    BY <1>4, <1>5, <1>6 DEF q, n, m

\* What the invariant says of the alerts.
LEMMA AlertsInvImplies ==
    ASSUME AlertsInv
    PROVE  AlertsHandled
  <1>1. M!AnsweredIsFiled
    BY DEF AlertsInv, Filed, M!AnsweredIsFiled
  <1>2. M!ScoreInRange
    <2> SUFFICES ASSUME figures.step = "counting", figures.total >= 0, figures.open >= 0, ~figures.torn
                 PROVE  figures.open <= figures.total /\ M!Score \in 0..100
      BY DEF M!ScoreInRange
    <2>1. figures.total \in Nat /\ figures.open \in Nat /\ figures.open <= figures.total
      BY Counts DEF AlertsInv, FiguresOK, M!NoFigures
    <2>2. M!Score \in 0..100
      <3>1. CASE figures.total > 0
        BY <2>1, <3>1, ScoreBound DEF M!Score
      <3>2. CASE figures.total = 0
        BY <3>2 DEF M!Score
      <3> QED
        BY <2>1, <3>1, <3>2
    <2> QED
      BY <2>1, <2>2
  <1>3. M!RowsFitFilter /\ M!DecidedIsGone
    BY DEF AlertsInv, PageOK, M!RowsFitFilter, M!DecidedIsGone
  <1> QED
    BY <1>1, <1>2, <1>3 DEF AlertsHandled, M!AlertsHandled

\* Nothing is filed, counted, listed or decided at first.
LEMMA AlertsInit ==
    ASSUME M!Init
    PROVE  AlertsInv
  <1>1. \A c \in Checks : CheckOK(check[c]) /\ Filed(c)
    BY DEF M!Init, CheckOK, Filed, M!NoCheck, M!At
  <1>2. FiguresOK
    BY DEF M!Init, FiguresOK, M!NoFigures
  <1>3. \A o \in Officers : PageOK(o) /\ DecisionsOK(o)
    BY DEF M!Init, PageOK, Page, DecisionsOK
  <1> QED
    BY <1>1, <1>2, <1>3 DEF M!Init, AlertsInv

\* A check whose alert is not being saved changes nothing but itself and the queue.
LEMMA CheckKeeps ==
    ASSUME AlertsInv, NEW c \in Checks,
           \/ \E tx \in Transactions : M!Begin(c, tx)
           \/ \E hit \in BOOLEAN : M!Screen(c, hit)
           \/ M!AddJob(c) \/ M!Fail(c)
    PROVE  AlertsInv'
  <1>1. UNCHANGED <<alert, figures, page, post, decided>>
    BY DEF M!Begin, M!Screen, M!AddJob, M!Fail, M!pageVars, M!Goto
  <1>2. check[c] # M!NoCheck => DOMAIN check[c] = {"step", "usd", "level", "corridor", "hit"}
                                /\ check[c] = [f \in DOMAIN check[c] |-> check[c][f]]
    BY DEF AlertsInv, CheckOK
  <1>3. PICK x : /\ check' = [check EXCEPT ![c] = x] /\ CheckOK(x)
                 /\ x.step \in {"none", "screening", "saving"} => alert[c] = "none"
                 /\ x.step = "queueing" => alert[c] # "none"
                 /\ x.step = "answered" /\ M!Triggers(x) => alert[c] # "none" /\ c \in queue'
                 /\ queue \subseteq queue'
    <2>1. CASE \E tx \in Transactions : M!Begin(c, tx)
      <3>1. PICK tx \in Transactions : M!Begin(c, tx)
        BY <2>1
      <3> DEFINE x == [step |-> "screening", usd |-> tx.usd, level |-> tx.level,
                       corridor |-> tx.corridor, hit |-> FALSE]
      <3>2. check' = [check EXCEPT ![c] = x] /\ queue' = queue /\ alert[c] = "none"
        BY <3>1 DEF M!Begin, AlertsInv, Filed, M!NoCheck
      <3>3. CheckOK(x) /\ x.step = "screening"
        BY DEF CheckOK
      <3> QED
        BY <3>2, <3>3
    <2>2. CASE \E hit \in BOOLEAN : M!Screen(c, hit)
      <3>1. PICK hit \in BOOLEAN : M!Screen(c, hit)
        BY <2>2
      <3> DEFINE y == [check[c] EXCEPT !.hit = hit]
                 step == IF M!Triggers(y) THEN "saving" ELSE "answered"
                 x == [y EXCEPT !.step = step]
      <3>2. check[c].step = "screening" /\ alert[c] = "none" /\ check[c] # M!NoCheck
        <4>1. check[c].step = "screening"
          BY <3>1 DEF M!Screen, M!At
        <4> QED
          BY <4>1 DEF AlertsInv, Filed, M!NoCheck
      <3>3. DOMAIN y = {"step", "usd", "level", "corridor", "hit"} /\ y = [f \in DOMAIN y |-> y[f]]
        BY <1>2, <3>2
      <3>4. check' = [check EXCEPT ![c] = x] /\ queue' = queue
        BY <3>1 DEF M!Screen
      <3>5. step = "saving" \/ (step = "answered" /\ ~M!Triggers(y))
        OBVIOUS
      <3> HIDE DEF y, step
      <3>6. DOMAIN x = {"step", "usd", "level", "corridor", "hit"} /\ x = [f \in DOMAIN x |-> x[f]]
            /\ x.step = step /\ x.usd = y.usd /\ x.level = y.level /\ x.hit = y.hit /\ x.corridor = y.corridor
        BY <3>3
      <3> HIDE DEF x
      <3>7. CheckOK(x)
        BY <3>5, <3>6 DEF CheckOK
      <3>8. M!Triggers(x) = M!Triggers(y)
        BY <3>6 DEF M!Triggers, M!OverLevel, M!OverDay
      <3> QED
        BY <3>2, <3>4, <3>5, <3>6, <3>7, <3>8
    <2>3. CASE M!AddJob(c)
      <3> DEFINE x == [check[c] EXCEPT !.step = "answered"]
      <3>1. check' = [check EXCEPT ![c] = x] /\ queue' = queue \cup {c}
            /\ check[c].step = "queueing" /\ check[c] # M!NoCheck
        BY <2>3 DEF M!AddJob, M!Goto, M!At, M!NoCheck
      <3>2. CheckOK(x) /\ x.step = "answered"
        BY <1>2, <3>1 DEF CheckOK
      <3>3. alert[c] # "none"
        BY <3>1 DEF AlertsInv, Filed
      <3> QED
        BY <3>1, <3>2, <3>3
    <2>4. CASE M!Fail(c)
      <3> DEFINE x == [check[c] EXCEPT !.step = "failed"]
      <3>1. check' = [check EXCEPT ![c] = x] /\ queue' = queue /\ check[c] # M!NoCheck
        BY <2>4 DEF M!Fail, M!Goto, M!NoCheck
      <3>2. CheckOK(x) /\ x.step = "failed"
        BY <1>2, <3>1 DEF CheckOK
      <3> QED
        BY <3>1, <3>2
    <2> QED
      BY <2>1, <2>2, <2>3, <2>4
  <1>4. check' = [d \in Checks |-> check'[d]] /\ check'[c] = x /\ \A d \in Checks \ {c} : check'[d] = check[d]
    BY <1>3 DEF AlertsInv
  <1>5. \A d \in Checks : (CheckOK(check[d]) /\ Filed(d))'
    <2>1. CheckOK(check'[c]) /\ Filed(c)'
      BY <1>1, <1>3, <1>4 DEF AlertsInv, Filed, M!At
    <2>2. \A d \in Checks \ {c} : CheckOK(check'[d]) /\ Filed(d)'
      BY <1>1, <1>3, <1>4 DEF AlertsInv, Filed, M!At
    <2> QED
      BY <2>1, <2>2 DEF CheckOK
  <1>6. FiguresOK'
    BY <1>1 DEF AlertsInv, FiguresOK, M!CountAll
  <1>7. \A o \in Officers : (PageOK(o) /\ DecisionsOK(o))'
    <2>1. \A o : PageOK(o) => PageOK(o)'
      <3>1. \A o, l : ListOK(o, l) => ListOK(o, l)'
        BY <1>1 DEF ListOK
      <3> QED
        BY <1>1, <3>1 DEF PageOK
    <2>2. \A o : DecisionsOK(o) => DecisionsOK(o)'
      BY <1>1 DEF DecisionsOK
    <2> QED
      BY <2>1, <2>2 DEF AlertsInv
  <1> QED
    BY <1>1, <1>4, <1>5, <1>6, <1>7 DEF AlertsInv

\* A new alert is open, and the counts that run meanwhile are torn.
LEMMA SaveAlertKeeps ==
    ASSUME AlertsInv, NEW c \in Checks, M!Save(c)
    PROVE  AlertsInv'
  <1>1. /\ check[c].step = "saving" /\ check[c] # M!NoCheck /\ alert[c] = "none"
        /\ alert' = [alert EXCEPT ![c] = "open"]
        /\ UNCHANGED <<queue, page, post, decided>>
    BY DEF M!Save, M!At, M!Goto, M!pageVars, AlertsInv, Filed, M!NoCheck
  <1> DEFINE x == [check[c] EXCEPT !.step = "queueing"]
  <1>2. check' = [check EXCEPT ![c] = x]
    BY DEF M!Save, M!Goto
  <1>3. CheckOK(x) /\ x.step = "queueing"
    BY <1>1 DEF AlertsInv, CheckOK
  <1> HIDE DEF x
  <1>4. /\ check' = [d \in Checks |-> check'[d]] /\ check'[c] = x
        /\ alert' = [d \in Checks |-> alert'[d]] /\ alert'[c] = "open"
        /\ \A d \in Checks \ {c} : check'[d] = check[d] /\ alert'[d] = alert[d]
    BY <1>1, <1>2 DEF AlertsInv
  <1>5. \A d \in Checks : (CheckOK(check[d]) /\ Filed(d))'
    <2>1. CheckOK(check'[c]) /\ Filed(c)'
      BY <1>3, <1>4 DEF Filed, M!At
    <2>2. \A d \in Checks \ {c} : CheckOK(check'[d]) /\ Filed(d)'
      BY <1>1, <1>4 DEF AlertsInv, Filed, M!At
    <2> QED
      BY <2>1, <2>2 DEF CheckOK
  <1>6. FiguresOK'
    <2>1. CASE figures = M!NoFigures
      <3>1. figures' = figures
        BY <2>1 DEF M!Save, M!NoFigures
      <3> QED
        BY <2>1, <3>1 DEF FiguresOK, M!NoFigures
    <2>2. CASE figures # M!NoFigures
      <3>1. figures \in [step : {"counting"}, total : Int, open : Int, torn : BOOLEAN]
        BY <2>2 DEF AlertsInv, FiguresOK
      <3>2. figures' \in [step : {"counting"}, total : Int, open : Int, torn : BOOLEAN] /\ figures'.torn
        BY <3>1 DEF M!Save
      <3> QED
        BY <3>2 DEF FiguresOK
    <2> QED
      BY <2>1, <2>2
  <1>7. \A d \in Checks : /\ alert[d] # "none" => alert'[d] # "none"
                          /\ alert[d] \notin {"none", "open"} => alert'[d] \notin {"none", "open"}
    BY <1>1, <1>4
  <1>8. \A o \in Officers : PageOK(o)'
    BY <1>1, <1>7 DEF AlertsInv, PageOK, ListOK, Row
  <1>9. \A o \in Officers : DecisionsOK(o)'
    BY <1>1, <1>7 DEF AlertsInv, DecisionsOK
  <1> QED
    BY <1>1, <1>4, <1>5, <1>6, <1>8, <1>9 DEF AlertsInv

\* The counts are those of one moment each.
LEMMA FiguresKeep ==
    ASSUME AlertsInv, M!StartFigures \/ M!Count
    PROVE  AlertsInv'
  <1>1. UNCHANGED <<check, alert, queue, page, post, decided>>
    BY DEF M!StartFigures, M!Count, M!checkVars, M!pageVars
  <1>2. M!CountAll' = M!CountAll
    BY <1>1 DEF M!CountAll
  <1>3. FiguresOK'
    <2>1. CASE M!StartFigures
      <3>1. figures' = [step |-> "counting", total |-> -1, open |-> -1, torn |-> FALSE]
        BY <2>1 DEF M!StartFigures
      <3> QED
        BY <3>1 DEF FiguresOK
    <2>2. CASE M!Count
      <3>1. figures \in [step : {"counting"}, total : Int, open : Int, torn : BOOLEAN]
        BY <2>2 DEF M!Count, AlertsInv, FiguresOK, M!NoFigures
      <3>2. ~figures.torn => /\ figures.total >= 0 => figures.total = M!CountAll
                             /\ figures.open >= 0 => figures.open <= M!CountAll
        BY <3>1 DEF AlertsInv, FiguresOK
      <3>3. \/ figures' = [figures EXCEPT !.total = M!CountAll]
            \/ figures' = [figures EXCEPT !.open = M!CountOpen]
        BY <2>2 DEF M!Count
      <3> QED
        BY <1>2, <3>1, <3>2, <3>3, Counts DEF FiguresOK
    <2> QED
      BY <2>1, <2>2
  <1>4. \A d \in Checks : (CheckOK(check[d]) /\ Filed(d))'
    BY <1>1 DEF AlertsInv, CheckOK, Filed, M!At
  <1>5. \A o \in Officers : (PageOK(o) /\ DecisionsOK(o))'
    <2>1. \A o : PageOK(o) => PageOK(o)'
      <3>1. \A o, l : ListOK(o, l) => ListOK(o, l)'
        BY <1>1 DEF ListOK
      <3> QED
        BY <1>1, <3>1 DEF PageOK
    <2>2. \A o : DecisionsOK(o) => DecisionsOK(o)'
      BY <1>1 DEF DecisionsOK
    <2> QED
      BY <2>1, <2>2 DEF AlertsInv
  <1> QED
    BY <1>1, <1>3, <1>4, <1>5 DEF AlertsInv

\* What one officer does is judged by his own page.
LEMMA OfficerKeeps ==
    ASSUME AlertsInv, NEW o \in Officers, UNCHANGED <<check, alert, queue, figures>>,
           page' = [q \in Officers |-> page'[q]], post' = [q \in Officers |-> post'[q]],
           decided' = [q \in Officers |-> decided'[q]],
           \A q \in Officers \ {o} : page'[q] = page[q] /\ post'[q] = post[q] /\ decided'[q] = decided[q],
           PageOK(o)', DecisionsOK(o)'
    PROVE  AlertsInv'
  <1>1. \A q \in Officers \ {o} : PageOK(q)'
    <2>1. \A q \in Officers \ {o} : \A l : ListOK(q, l) => ListOK(q, l)'
      BY DEF ListOK
    <2> QED
      BY <2>1 DEF AlertsInv, PageOK
  <1>2. \A q \in Officers \ {o} : DecisionsOK(q)'
    BY DEF AlertsInv, DecisionsOK
  <1>3. FiguresOK'
    BY DEF AlertsInv, FiguresOK, M!CountAll
  <1>4. \A d \in Checks : (CheckOK(check[d]) /\ Filed(d))'
    BY DEF AlertsInv, CheckOK, Filed, M!At
  <1>5. check' = [d \in Checks |-> check'[d]] /\ alert' = [d \in Checks |-> alert'[d]]
    BY DEF AlertsInv
  <1>6. \A q \in Officers : PageOK(q)' /\ DecisionsOK(q)'
    BY <1>1, <1>2
  <1> QED
    BY <1>3, <1>4, <1>5, <1>6 DEF AlertsInv

\* A list that is asked for is newer than what the page shows.
LEMMA Asking ==
    ASSUME AlertsInv, NEW o \in Officers, UNCHANGED alert,
           NEW p \in Page, p.asked = page[o].asked, p.landed = page[o].landed,
           p.rows = page[o].rows, p.lists = page[o].lists,
           NEW f \in {"open"} \cup Filters, p.last = f, page'[o] = M!Ask(p, f)
    PROVE  PageOK(o)'
  <1> DEFINE new == [n |-> p.asked + 1, filter |-> f, step |-> "sent", rows |-> {}]
  <1>1. PageOK(o)
    BY DEF AlertsInv
  <1>2. new \in List /\ new.n = p.asked + 1 /\ new.rows = {} /\ new.filter = f
    BY DEF Page, List
  <1>3. /\ page'[o] \in Page /\ page'[o].asked = p.asked + 1 /\ page'[o].last = f
        /\ page'[o].landed = p.landed /\ page'[o].rows = p.rows /\ page'[o].lists = p.lists \cup {new}
    <2> DEFINE q == [p EXCEPT !.asked = @ + 1]
               k == [q EXCEPT !.loading = TRUE]
    <2>1. q \in Page /\ q.asked = p.asked + 1 /\ q.landed = p.landed
          /\ q.rows = p.rows /\ q.lists = p.lists /\ q.last = f
      BY DEF Page
    <2>2. page'[o] = [k EXCEPT !.lists = @ \cup {new}]
      BY DEF M!Ask, Page
    <2> HIDE DEF q
    <2>3. k \in Page /\ k.asked = p.asked + 1 /\ k.landed = p.landed
          /\ k.rows = p.rows /\ k.lists = p.lists /\ k.last = f
      BY <2>1 DEF Page
    <2> HIDE DEF k, new
    <2> QED
      BY <1>2, <2>2, <2>3 DEF Page
  <1> HIDE DEF new
  <1>4. p.asked \in Nat /\ p.landed <= p.asked /\ p.landed \in Nat
    BY <1>1 DEF PageOK, Page
  <1>5. \A l \in p.lists : ListOK(o, l)'
    <2> SUFFICES ASSUME NEW l \in p.lists PROVE ListOK(o, l)'
      OBVIOUS
    <2>1. ListOK(o, l) /\ l.n \in Nat
      BY <1>1 DEF PageOK, ListOK, List
    <2>2. l.n # page'[o].asked /\ l.n <= page'[o].asked
      BY <1>3, <1>4, <2>1 DEF ListOK
    <2> QED
      BY <2>1, <2>2 DEF ListOK
  <1>6. ListOK(o, new)'
    BY <1>2, <1>3, <1>4 DEF ListOK
  <1>7. page'[o].landed # page'[o].asked /\ page'[o].landed <= page'[o].asked
    BY <1>3, <1>4
  <1>8. \A r \in page'[o].rows : alert'[r.of] # "none"
    BY <1>1, <1>3 DEF PageOK
  <1> QED
    BY <1>3, <1>5, <1>6, <1>7, <1>8 DEF PageOK

\* An officer opens the page or sets its filter.
LEMMA AskKeeps ==
    ASSUME AlertsInv, NEW o \in Officers, M!Open(o) \/ \E f \in Filters : M!Select(o, f)
    PROVE  AlertsInv'
  <1>1. UNCHANGED <<check, alert, queue, figures, post, decided>>
    BY DEF M!Open, M!Select, M!checkVars
  <1>2. PICK p \in Page, g \in {"open"} \cup Filters :
                          /\ page' = [page EXCEPT ![o] = M!Ask(p, g)]
                          /\ p.asked = page[o].asked /\ p.landed = page[o].landed
                          /\ p.rows = page[o].rows /\ p.lists = page[o].lists /\ p.last = g
    <2>1. page[o] \in Page
      BY DEF AlertsInv, PageOK
    <2>2. CASE M!Open(o)
      <3>1. page[o].filter \in {"open"} \cup Filters
        BY <2>1 DEF Page
      <3> DEFINE p == [page[o] EXCEPT !.last = page[o].filter]
      <3>2. p \in Page /\ p.asked = page[o].asked /\ p.landed = page[o].landed
            /\ p.rows = page[o].rows /\ p.lists = page[o].lists /\ p.last = page[o].filter
        BY <2>1, <3>1 DEF Page
      <3>3. page' = [page EXCEPT ![o] = M!Ask(p, page[o].filter)]
        BY <2>2 DEF M!Open
      <3> QED
        BY <3>1, <3>2, <3>3
    <2>3. CASE \E f \in Filters : M!Select(o, f)
      <3>1. PICK f \in Filters : M!Select(o, f)
        BY <2>3
      <3> DEFINE p == [page[o] EXCEPT !.filter = f, !.last = f]
      <3>2. p \in Page /\ p.asked = page[o].asked /\ p.landed = page[o].landed
            /\ p.rows = page[o].rows /\ p.lists = page[o].lists /\ p.last = f
        BY <2>1, <3>1 DEF Page
      <3>3. page' = [page EXCEPT ![o] = M!Ask(p, f)]
        BY <3>1 DEF M!Select
      <3> QED
        BY <3>2, <3>3
    <2> QED
      BY <2>2, <2>3
  <1>3. page' = [q \in Officers |-> page'[q]] /\ page'[o] = M!Ask(p, g)
        /\ \A q \in Officers \ {o} : page'[q] = page[q]
    BY <1>2 DEF AlertsInv
  <1>4. PageOK(o)'
    BY <1>1, <1>2, <1>3, Asking
  <1>5. DecisionsOK(o)'
    BY <1>1 DEF AlertsInv, DecisionsOK
  <1>6. post' = [q \in Officers |-> post'[q]] /\ decided' = [q \in Officers |-> decided'[q]]
    BY <1>1 DEF AlertsInv
  <1> QED
    BY <1>1, <1>3, <1>4, <1>5, <1>6, OfficerKeeps

\* A list is read, lands or is lost.
LEMMA ListKeeps ==
    ASSUME AlertsInv, NEW o \in Officers, NEW l \in page[o].lists,
           M!ReadList(o, l) \/ M!Land(o, l) \/ M!LoseList(o, l)
    PROVE  AlertsInv'
  <1>1. UNCHANGED <<check, alert, queue, figures, post, decided>>
    BY DEF M!ReadList, M!Land, M!LoseList, M!checkVars
  <1>2. PageOK(o) /\ page[o] \in Page /\ ListOK(o, l) /\ l \in List
    BY DEF AlertsInv, PageOK, ListOK
  <1>3. PICK p \in Page :
            /\ page' = [page EXCEPT ![o] = p]
            /\ p.last = page[o].last /\ p.asked = page[o].asked
            /\ \/ /\ p.rows = page[o].rows /\ p.landed = page[o].landed
                  /\ p.lists \subseteq page[o].lists \cup {[l EXCEPT !.step = "read", !.rows = M!Rows(l.filter)]}
               \/ /\ p.rows = l.rows /\ p.landed = l.n /\ p.lists \subseteq page[o].lists
    <2>1. CASE M!ReadList(o, l)
      <3> DEFINE k == [l EXCEPT !.step = "read", !.rows = M!Rows(l.filter)]
                 p == [page[o] EXCEPT !.lists = (@ \ {l}) \cup {k}]
      <3>1. M!Rows(l.filter) \subseteq Row
        <4>1. \A c \in Checks : alert[c] = l.filter => l.filter \in {"open", "cleared", "reported"} \cup Filters
          BY <1>2 DEF List
        <4> QED
          BY <4>1 DEF M!Rows, Row
      <3>2. k \in List
        BY <1>2, <3>1 DEF List
      <3>3. page' = [page EXCEPT ![o] = p]
        BY <2>1 DEF M!ReadList
      <3> HIDE DEF k
      <3>4. p \in Page /\ p.last = page[o].last /\ p.asked = page[o].asked
            /\ p.rows = page[o].rows /\ p.landed = page[o].landed
            /\ p.lists = (page[o].lists \ {l}) \cup {k}
        BY <1>2, <3>2 DEF Page
      <3> QED
        BY <3>3, <3>4 DEF k
    <2>2. CASE M!Land(o, l)
      <3> DEFINE p == [page[o] EXCEPT !.rows = l.rows, !.landed = l.n, !.loading = FALSE,
                                      !.lists = @ \ {l}]
                 p1 == [page[o] EXCEPT !.rows = l.rows, !.loading = FALSE]
                 p2 == [p1 EXCEPT !.landed = l.n]
      <3>0. l.rows \subseteq Row /\ l.n \in Nat
        BY <1>2 DEF List
      <3>1. p1 \in Page /\ p1.last = page[o].last /\ p1.asked = page[o].asked
            /\ p1.rows = l.rows /\ p1.lists = page[o].lists
        BY <1>2, <3>0 DEF Page
      <3>2. page' = [page EXCEPT ![o] = p]
        BY <2>2 DEF M!Land
      <3>3. p = [p2 EXCEPT !.lists = @ \ {l}]
        BY <1>2 DEF Page
      <3> HIDE DEF p, p1
      <3>4. p2 \in Page /\ p2.last = page[o].last /\ p2.asked = page[o].asked
            /\ p2.rows = l.rows /\ p2.landed = l.n /\ p2.lists = page[o].lists
        BY <3>0, <3>1 DEF Page
      <3> HIDE DEF p2
      <3>5. p \in Page /\ p.last = page[o].last /\ p.asked = page[o].asked
            /\ p.rows = l.rows /\ p.landed = l.n /\ p.lists = page[o].lists \ {l}
        BY <3>3, <3>4 DEF Page
      <3> QED
        BY <3>2, <3>5
    <2>3. CASE M!LoseList(o, l)
      <3> DEFINE p == [page[o] EXCEPT !.loading = FALSE, !.lists = @ \ {l}]
      <3>1. page' = [page EXCEPT ![o] = p]
        BY <2>3 DEF M!LoseList
      <3>2. p \in Page /\ p.last = page[o].last /\ p.asked = page[o].asked
            /\ p.rows = page[o].rows /\ p.landed = page[o].landed /\ p.lists = page[o].lists \ {l}
        BY <1>2 DEF Page
      <3> QED
        BY <3>1, <3>2
    <2> QED
      BY <2>1, <2>2, <2>3
  <1>4. page' = [q \in Officers |-> page'[q]] /\ page'[o] = p
        /\ \A q \in Officers \ {o} : page'[q] = page[q]
    BY <1>3 DEF AlertsInv
  <1>5. \A k \in p.lists : ListOK(o, k)'
    <2>1. \A k \in page[o].lists : ListOK(o, k)'
      BY <1>1, <1>2, <1>3, <1>4 DEF PageOK, ListOK
    <2>2. /\ M!Rows(l.filter) \subseteq Row
          /\ \A r \in M!Rows(l.filter) : r.of \in Checks /\ r.status = l.filter /\ alert[r.of] = l.filter
      <3>1. \A c \in Checks : alert[c] = l.filter => l.filter \in {"open", "cleared", "reported"} \cup Filters
        BY <1>2 DEF List
      <3> QED
        BY <3>1 DEF M!Rows, Row
    <2>3. PICK k \in List : /\ k = [l EXCEPT !.step = "read", !.rows = M!Rows(l.filter)]
                            /\ k.n = l.n /\ k.filter = l.filter /\ k.rows = M!Rows(l.filter)
      <3> DEFINE m == [l EXCEPT !.step = "read", !.rows = M!Rows(l.filter)]
      <3>1. m \in List /\ m.n = l.n /\ m.filter = l.filter /\ m.rows = M!Rows(l.filter)
        BY <1>2, <2>2 DEF List
      <3> QED
        BY <3>1
    <2>4. l.filter # "none"
      BY <1>2, ComplianceAssumption DEF List
    <2>5. \A c \in decided[o] : alert[c] # "open"
      BY DEF AlertsInv, DecisionsOK
    <2>6. \A r \in k.rows : r.status = k.filter /\ alert'[r.of] # "none"
                            /\ (r.of \in decided'[o] => r.status # "open")
      BY <1>1, <2>2, <2>3, <2>4, <2>5
    <2>7. k.n <= page'[o].asked /\ (k.n = page'[o].asked => k.filter = page'[o].last)
      BY <1>2, <1>3, <1>4, <2>3 DEF ListOK
    <2>8. ListOK(o, k)'
      BY <2>3, <2>6, <2>7 DEF ListOK
    <2> QED
      BY <1>3, <2>1, <2>3, <2>8
  <1>6. PageOK(o)'
    <2>1. p.landed <= p.asked
      BY <1>2, <1>3 DEF PageOK, ListOK
    <2>2. \A r \in p.rows : alert'[r.of] # "none"
      BY <1>1, <1>2, <1>3 DEF PageOK, ListOK
    <2>3. p.landed = p.asked => \A r \in p.rows : r.status = p.last
                                                  /\ (r.of \in decided'[o] => r.status # "open")
      BY <1>1, <1>2, <1>3 DEF PageOK, ListOK
    <2> QED
      BY <1>4, <1>5, <2>1, <2>2, <2>3 DEF PageOK
  <1>7. DecisionsOK(o)'
    BY <1>1 DEF AlertsInv, DecisionsOK
  <1>8. post' = [q \in Officers |-> post'[q]] /\ decided' = [q \in Officers |-> decided'[q]]
    BY <1>1 DEF AlertsInv
  <1> QED
    BY <1>1, <1>4, <1>6, <1>7, <1>8, OfficerKeeps

\* A decision leaves, is answered or is lost.
LEMMA PostKeeps ==
    ASSUME AlertsInv, NEW o \in Officers,
           \/ \E c \in Checks : \E st \in {"cleared", "reported"} : M!Decide(o, c, st)
           \/ \E d \in post[o] : M!Told(o, d) \/ M!LoseDecision(o, d)
    PROVE  AlertsInv'
  <1>1. UNCHANGED <<check, alert, queue, figures>>
    BY DEF M!Decide, M!Told, M!LoseDecision, M!checkVars
  <1>2. PageOK(o) /\ page[o] \in Page /\ DecisionsOK(o)
    BY DEF AlertsInv, PageOK
  <1>3. CASE \E c \in Checks : \E st \in {"cleared", "reported"} : M!Decide(o, c, st)
    <2>1. PICK c \in Checks, st \in {"cleared", "reported"} : M!Decide(o, c, st)
      BY <1>3
    <2> DEFINE d == [of |-> c, status |-> st, filter |-> page[o].filter, step |-> "sent"]
    <2>2. post' = [post EXCEPT ![o] = @ \cup {d}] /\ UNCHANGED <<page, decided>>
      BY <2>1 DEF M!Decide
    <2>3. d \in Decision /\ d.of = c /\ d.step = "sent"
      BY <1>2, <2>1 DEF Decision, Page
    <2>4. alert[c] # "none"
      <3>1. [of |-> c, status |-> "open"] \in page[o].rows
        BY <2>1 DEF M!Decide
      <3>2. [of |-> c, status |-> "open"].of = c
        OBVIOUS
      <3> QED
        BY <1>2, <3>1, <3>2 DEF PageOK
    <2> HIDE DEF d
    <2>5. post' = [q \in Officers |-> post'[q]] /\ post'[o] = post[o] \cup {d}
          /\ \A q \in Officers \ {o} : post'[q] = post[q]
      BY <2>2 DEF AlertsInv
    <2>6. DecisionsOK(o)'
      BY <1>1, <1>2, <2>2, <2>3, <2>4, <2>5 DEF DecisionsOK
    <2>7. PageOK(o)'
      <3>1. \A l : ListOK(o, l) => ListOK(o, l)'
        BY <1>1, <2>2 DEF ListOK
      <3> QED
        BY <1>1, <1>2, <2>2, <3>1 DEF PageOK
    <2>8. page' = [q \in Officers |-> page'[q]] /\ decided' = [q \in Officers |-> decided'[q]]
      BY <2>2 DEF AlertsInv
    <2> QED
      BY <1>1, <2>2, <2>5, <2>6, <2>7, <2>8, OfficerKeeps
  <1>4. CASE \E d \in post[o] : M!Told(o, d)
    <2>1. PICK d \in post[o] : M!Told(o, d)
      BY <1>4
    <2> DEFINE p == [page[o] EXCEPT !.last = d.filter]
    <2>2. /\ post' = [post EXCEPT ![o] = @ \ {d}] /\ d.step = "done"
          /\ decided' = [decided EXCEPT ![o] = @ \cup {d.of}]
          /\ page' = [page EXCEPT ![o] = M!Ask(p, d.filter)]
      BY <2>1 DEF M!Told
    <2>3. /\ d.of \in Checks /\ alert[d.of] \notin {"none", "open"}
          /\ d.filter \in {"open"} \cup Filters
      BY <1>2, <2>1, <2>2 DEF DecisionsOK, Decision
    <2>4. /\ post' = [q \in Officers |-> post'[q]] /\ post'[o] = post[o] \ {d}
          /\ decided' = [q \in Officers |-> decided'[q]] /\ decided'[o] = decided[o] \cup {d.of}
          /\ page' = [q \in Officers |-> page'[q]] /\ page'[o] = M!Ask(p, d.filter)
          /\ \A q \in Officers \ {o} : page'[q] = page[q] /\ post'[q] = post[q] /\ decided'[q] = decided[q]
      BY <2>2 DEF AlertsInv
    <2>5. DecisionsOK(o)'
      BY <1>1, <1>2, <2>3, <2>4 DEF DecisionsOK
    <2>6. PageOK(o)'
      <3>1. p \in Page /\ p.asked = page[o].asked /\ p.landed = page[o].landed
            /\ p.rows = page[o].rows /\ p.lists = page[o].lists /\ p.last = d.filter
        BY <1>2, <2>3 DEF Page
      <3> HIDE DEF p
      <3> QED
        BY <1>1, <2>3, <2>4, <3>1, Asking
    <2> QED
      BY <1>1, <2>4, <2>5, <2>6, OfficerKeeps
  <1>5. CASE \E d \in post[o] : M!LoseDecision(o, d)
    <2>1. PICK d \in post[o] : M!LoseDecision(o, d)
      BY <1>5
    <2>2. post' = [post EXCEPT ![o] = @ \ {d}] /\ UNCHANGED <<page, decided>>
      BY <2>1 DEF M!LoseDecision
    <2>3. post' = [q \in Officers |-> post'[q]] /\ post'[o] = post[o] \ {d}
          /\ \A q \in Officers \ {o} : post'[q] = post[q]
      BY <2>2 DEF AlertsInv
    <2>4. DecisionsOK(o)'
      BY <1>1, <1>2, <2>2, <2>3 DEF DecisionsOK
    <2>5. PageOK(o)'
      <3>1. \A l : ListOK(o, l) => ListOK(o, l)'
        BY <1>1, <2>2 DEF ListOK
      <3> QED
        BY <1>1, <1>2, <2>2, <3>1 DEF PageOK
    <2>6. page' = [q \in Officers |-> page'[q]] /\ decided' = [q \in Officers |-> decided'[q]]
      BY <2>2 DEF AlertsInv
    <2> QED
      BY <1>1, <2>2, <2>3, <2>4, <2>5, <2>6, OfficerKeeps
  <1> QED
    BY <1>3, <1>4, <1>5

\* A decision is made, whatever the status was.
LEMMA ResolveKeeps ==
    ASSUME AlertsInv, NEW o \in Officers, NEW d \in post[o], M!Resolve(o, d)
    PROVE  AlertsInv'
  <1>1. /\ alert' = [alert EXCEPT ![d.of] = d.status]
        /\ post' = [post EXCEPT ![o] = (@ \ {d}) \cup {[d EXCEPT !.step = "done"]}]
        /\ UNCHANGED <<check, queue, figures, page, decided>>
    BY DEF M!Resolve
  <1>2. /\ d \in Decision
        /\ alert[d.of] # "none" /\ DecisionsOK(o)
    BY DEF AlertsInv, DecisionsOK
  <1> DEFINE made == [d EXCEPT !.step = "done"]
  <1>3. /\ made \in Decision
        /\ made.of = d.of
    BY <1>2 DEF Decision
  <1> HIDE DEF made
  <1>4. /\ alert' = [c \in Checks |-> alert'[c]] /\ alert'[d.of] = d.status
        /\ \A c \in Checks \ {d.of} : alert'[c] = alert[c]
        /\ post' = [q \in Officers |-> post'[q]] /\ post'[o] = (post[o] \ {d}) \cup {made}
        /\ \A q \in Officers \ {o} : post'[q] = post[q]
    BY <1>1, <1>2 DEF AlertsInv, made, Decision
  <1>5. \A c \in Checks : /\ alert[c] = "none" <=> alert'[c] = "none"
                          /\ alert[c] \notin {"none", "open"} => alert'[c] \notin {"none", "open"}
    BY <1>2, <1>4 DEF Decision
  <1>6. \A c \in Checks : (CheckOK(check[c]) /\ Filed(c))'
    <2> SUFFICES ASSUME NEW c \in Checks PROVE CheckOK(check[c])' /\ Filed(c)'
      OBVIOUS
    <2>1. CheckOK(check[c]) /\ Filed(c)
      BY DEF AlertsInv
    <2>2. alert'[c] \in {"none", "open", "cleared", "reported"}
      BY <1>2, <1>4, <2>1 DEF Filed, Decision
    <2> QED
      BY <1>1, <1>5, <2>1, <2>2 DEF CheckOK, Filed, M!At
  <1>7. FiguresOK'
    <2>1. M!CountAll' = M!CountAll
      <3>1. {c \in Checks : alert[c] # "none"} = {c \in Checks : alert'[c] # "none"}
        BY <1>5
      <3> QED
        BY <3>1 DEF M!CountAll
    <2> QED
      BY <1>1, <2>1 DEF AlertsInv, FiguresOK
  <1>8. \A q \in Officers : PageOK(q)'
    <2> SUFFICES ASSUME NEW q \in Officers PROVE PageOK(q)'
      OBVIOUS
    <2>1. PageOK(q)
      BY DEF AlertsInv
    <2>2. \A r \in Row : r.of \in Checks
      BY DEF Row
    <2>3. \A l : ListOK(q, l) => ListOK(q, l)'
      BY <1>1, <1>5, <2>2 DEF ListOK, List
    <2>4. \A r \in page[q].rows : alert'[r.of] # "none"
      BY <1>5, <2>1, <2>2 DEF PageOK, Page
    <2> QED
      BY <1>1, <2>1, <2>3, <2>4 DEF PageOK
  <1>9. \A q \in Officers : DecisionsOK(q)'
    <2>1. DecisionsOK(o)'
      <3>1. \A e \in post[o] : e.of \in Checks /\ alert'[e.of] # "none"
                               /\ (e.step = "done" => alert'[e.of] # "open")
        BY <1>2, <1>5 DEF DecisionsOK, Decision
      <3>2. alert'[made.of] \notin {"none", "open"}
        BY <1>2, <1>3, <1>4 DEF Decision
      <3>3. post'[o] \subseteq Decision
        BY <1>2, <1>3, <1>4 DEF DecisionsOK
      <3>4. \A c \in decided'[o] : c \in Checks /\ alert'[c] \notin {"none", "open"}
        BY <1>1, <1>2, <1>5 DEF DecisionsOK
      <3> QED
        BY <1>4, <3>1, <3>2, <3>3, <3>4 DEF DecisionsOK
    <2>2. \A q \in Officers \ {o} : DecisionsOK(q)'
      <3> SUFFICES ASSUME NEW q \in Officers \ {o} PROVE DecisionsOK(q)'
        OBVIOUS
      <3>1. DecisionsOK(q) /\ post'[q] = post[q] /\ decided'[q] = decided[q]
        BY <1>1, <1>4 DEF AlertsInv
      <3>2. \A e \in post[q] : alert'[e.of] # "none" /\ (e.step = "done" => alert'[e.of] # "open")
        BY <1>5, <3>1 DEF DecisionsOK, Decision
      <3>3. \A c \in decided[q] : c \in Checks /\ alert'[c] \notin {"none", "open"}
        BY <1>5, <3>1 DEF DecisionsOK
      <3> QED
        BY <3>1, <3>2, <3>3 DEF DecisionsOK
    <2> QED
      BY <2>1, <2>2
  <1>10. /\ check' = [c \in Checks |-> check'[c]] /\ page' = [q \in Officers |-> page'[q]]
         /\ decided' = [q \in Officers |-> decided'[q]]
    BY <1>1 DEF AlertsInv
  <1> QED
    BY <1>4, <1>6, <1>7, <1>8, <1>9, <1>10 DEF AlertsInv

\* Every step of the compliance service and its page keeps the invariant.
LEMMA AlertsNext ==
    ASSUME AlertsInv, [M!Next]_(M!complianceVars)
    PROVE  AlertsInv'
  <1>1. ASSUME NEW c \in Checks,
               \/ \E tx \in Transactions : M!Begin(c, tx)
               \/ \E hit \in BOOLEAN : M!Screen(c, hit)
               \/ M!AddJob(c) \/ M!Fail(c)
        PROVE  AlertsInv'
    BY <1>1, CheckKeeps
  <1>2. ASSUME NEW c \in Checks, M!Save(c) PROVE AlertsInv'
    BY <1>2, SaveAlertKeeps
  <1>3. CASE M!StartFigures \/ M!Count
    BY <1>3, FiguresKeep
  <1>4. ASSUME NEW o \in Officers, M!Open(o) \/ \E f \in Filters : M!Select(o, f) PROVE AlertsInv'
    BY <1>4, AskKeeps
  <1>5. ASSUME NEW o \in Officers, NEW l \in page[o].lists,
               M!ReadList(o, l) \/ M!Land(o, l) \/ M!LoseList(o, l)
        PROVE  AlertsInv'
    BY <1>5, ListKeeps
  <1>6. ASSUME NEW o \in Officers,
               \/ \E c \in Checks : \E st \in {"cleared", "reported"} : M!Decide(o, c, st)
               \/ \E d \in post[o] : M!Told(o, d) \/ M!LoseDecision(o, d)
        PROVE  AlertsInv'
    BY <1>6, PostKeeps
  <1>7. ASSUME NEW o \in Officers, NEW d \in post[o], M!Resolve(o, d) PROVE AlertsInv'
    BY <1>7, ResolveKeeps
  <1>8. CASE UNCHANGED M!complianceVars
    <2>1. UNCHANGED <<check, alert, queue, figures, page, post, decided>>
      BY <1>8 DEF M!complianceVars, M!checkVars, M!pageVars
    <2>2. \A o, l : ListOK(o, l) => ListOK(o, l)'
      BY <2>1 DEF ListOK
    <2>3. \A o : PageOK(o) /\ DecisionsOK(o) => (PageOK(o) /\ DecisionsOK(o))'
      BY <2>1, <2>2 DEF PageOK, DecisionsOK
    <2>4. FiguresOK'
      BY <2>1 DEF AlertsInv, FiguresOK, M!CountAll
    <2>5. \A c \in Checks : (CheckOK(check[c]) /\ Filed(c))'
      BY <2>1 DEF AlertsInv, CheckOK, Filed, M!At
    <2> QED
      BY <2>1, <2>3, <2>4, <2>5 DEF AlertsInv
  <1> QED
    BY <1>1, <1>2, <1>3, <1>4, <1>5, <1>6, <1>7, <1>8 DEF M!Next

\* What a check finds is filed before it is answered, the dashboard counts what
\* there is, and an officer's newest list shows what it should and nothing he
\* was told is decided, however the checks, the counts and the officers
\* interleave (aml.service.ts 121-280, reports.service.ts 95-108,
\* alerts/page.tsx 37-61).
THEOREM AlertsAreHandled == M!Spec => []AlertsHandled
  <1>1. M!Init => AlertsInv
    BY AlertsInit
  <1>2. AlertsInv /\ [M!Next]_(M!complianceVars) => AlertsInv'
    BY AlertsNext
  <1>3. AlertsInv => AlertsHandled
    BY AlertsInvImplies
  <1> QED
    BY <1>1, <1>2, <1>3, PTL DEF M!Spec

-----------------------------------------------------------------------------
(* The card service.                                                       *)

CardStatuses == {"none", "active", "frozen"}

CardSteps == {"none", "ordering", "storing", "patching", "updating", "summing", "recording"}

\* What a request has read is about a card that exists, and an authorization
\* is recorded only after it was within the limit.
CardWorkOK(w) ==
    /\ w.step \in CardSteps
    /\ w.step \in {"summing", "recording"} => w.card \in DOMAIN today /\ w.amount \in Nat
    /\ w.step = "recording" => w.sum \in Nat /\ w.sum + w.amount <= SpendingLimit

CardType ==
    /\ cards \in Seq(CardStatuses) /\ today \in Seq(Nat) /\ Len(cards) = Len(today)
    /\ late \in Nat
    /\ request = [r \in Requests |-> request[r]]
    /\ \A r \in Requests : CardWorkOK(request[r])

-----------------------------------------------------------------------------
\* There is no card, so none is over its limit.
LEMMA CardInit ==
    ASSUME Init
    PROVE  CardType /\ OverspendIsLate
  BY CardServiceAssumption DEF Init, CardType, OverspendIsLate, CardWorkOK, CardSteps, NoRequest

\* One request goes on, and the cards do not become fewer.
LEMMA CardRequestNext ==
    ASSUME CardType, today' \in Seq(Nat), Len(today) <= Len(today'),
           NEW r \in Requests, NEW w, Do(r, w), CardWorkOK(w)'
    PROVE  /\ request' = [q \in Requests |-> request'[q]]
           /\ \A q \in Requests : CardWorkOK(request[q])'
  <1>1. /\ request' = [q \in Requests |-> request'[q]]
        /\ request'[r] = w
        /\ \A q \in Requests \ {r} : request'[q] = request[q]
    BY DEF Do, CardType
  <1>2. DOMAIN today \subseteq DOMAIN today'
    BY DEF CardType
  <1>3. ASSUME NEW q \in Requests \ {r}
        PROVE  CardWorkOK(request[q])'
    <2>1. CardWorkOK(request[q]) /\ request'[q] = request[q]
      BY <1>1 DEF CardType
    <2>2. QED
      BY <1>2, <2>1 DEF CardWorkOK
  <1>4. QED
    BY <1>1, <1>3

\* The day's sums stay as they are.
LEMMA DaySumsSame ==
    ASSUME CardType, OverspendIsLate, UNCHANGED <<today, late>>,
           cards' \in Seq(CardStatuses), Len(cards') = Len(cards),
           NEW r \in Requests, NEW w, Do(r, w), CardWorkOK(w)
    PROVE  (CardType /\ OverspendIsLate)'
  <1>1. CardWorkOK(w)' /\ today' \in Seq(Nat) /\ Len(today) <= Len(today')
    BY DEF CardWorkOK, CardType
  <1>2. /\ request' = [q \in Requests |-> request'[q]]
        /\ \A q \in Requests : CardWorkOK(request[q])'
    BY <1>1, CardRequestNext
  <1>3. QED
    BY <1>1, <1>2 DEF CardType, OverspendIsLate

\* Types and the limit are inductive together.
LEMMA CardNext ==
    ASSUME CardType, OverspendIsLate, [Next]_cardVars
    PROVE  (CardType /\ OverspendIsLate)'
  <1>1. CardWorkOK(NoRequest) /\ CardWorkOK([step |-> "ordering"])
    BY DEF CardWorkOK, CardSteps, NoRequest
  <1>2. ASSUME NEW r \in Requests, Issue(r)
        PROVE  (CardType /\ OverspendIsLate)'
    BY <1>1, <1>2, DaySumsSame DEF Issue, CardType
  <1>3. ASSUME NEW r \in Requests, OrderCard(r)
        PROVE  (CardType /\ OverspendIsLate)'
    <2>1. /\ cards' = Append(cards, "none") /\ today' = Append(today, 0) /\ late' = late
          /\ Do(r, [step |-> "storing", card |-> Len(issuer')])
      BY <1>3 DEF OrderCard
    <2>2. /\ cards' \in Seq(CardStatuses) /\ today' \in Seq(Nat)
          /\ Len(cards') = Len(today') /\ Len(today) <= Len(today')
      BY <2>1 DEF CardType, CardStatuses
    <2>3. PICK w : w = [step |-> "storing", card |-> Len(issuer')]
      OBVIOUS
    <2>4. Do(r, w) /\ CardWorkOK(w)'
      BY <2>1, <2>3 DEF CardWorkOK, CardSteps
    <2>5. /\ request' = [q \in Requests |-> request'[q]]
          /\ \A q \in Requests : CardWorkOK(request[q])'
      BY <2>2, <2>4, CardRequestNext
    <2>6. OverspendIsLate'
      <3>1. ASSUME NEW c \in DOMAIN cards'
            PROVE  today'[c] <= SpendingLimit + late
        <4>1. CASE c \in DOMAIN cards
          BY <2>1, <4>1 DEF OverspendIsLate, CardType
        <4>2. CASE c \notin DOMAIN cards
          <5>1. c = Len(today) + 1
            BY <2>1, <4>2 DEF CardType
          <5>2. today'[c] = 0
            BY <2>1, <5>1 DEF CardType
          <5>3. QED
            BY <5>2, CardServiceAssumption DEF CardType
        <4>3. QED
          BY <4>1, <4>2
      <3>2. QED
        BY <2>1, <3>1 DEF OverspendIsLate
    <2>7. QED
      BY <2>1, <2>2, <2>5, <2>6 DEF CardType
  <1>4. ASSUME NEW r \in Requests, StoreCard(r) \/ UpdateStatus(r)
        PROVE  (CardType /\ OverspendIsLate)'
    <2>1. \E s \in CardStatuses : cards' = [cards EXCEPT ![request[r].card] = s]
      BY <1>4 DEF StoreCard, UpdateStatus, CardStatuses
    <2>2. cards' \in Seq(CardStatuses) /\ Len(cards') = Len(cards)
      <3>0. PICK k : k = request[r].card
        OBVIOUS
      <3>1. PICK s \in CardStatuses : cards' = [cards EXCEPT ![k] = s]
        BY <2>1, <3>0
      <3>2. cards \in Seq(CardStatuses) /\ DOMAIN cards = 1..Len(cards)
        BY LenProperties DEF CardType
      <3>3. CASE k \in 1..Len(cards)
        <4>1. /\ [cards EXCEPT ![k] = s] \in Seq(CardStatuses)
              /\ Len([cards EXCEPT ![k] = s]) = Len(cards)
          BY <3>2, <3>3, ExceptSeq, Zenon
        <4>2. QED
          BY <3>1, <4>1, Zenon
      <3>4. CASE k \notin 1..Len(cards)
        <4>1. cards' = cards
          <5>1. cards = [i \in 1..Len(cards) |-> cards[i]]
            BY <3>2, LenProperties
          <5>2. QED
            BY <3>1, <3>2, <3>4, <5>1, Zenon
        <4>2. QED
          BY <3>2, <4>1
      <3>5. QED
        BY <3>3, <3>4
    <2>3. QED
      BY <1>1, <1>4, <2>2, DaySumsSame DEF StoreCard, UpdateStatus
  <1>5. ASSUME NEW r \in Requests, NEW c \in DOMAIN cards, NEW action, SetStatus(r, c, action)
        PROVE  (CardType /\ OverspendIsLate)'
    <2>1. CardWorkOK([step |-> "patching", card |-> c, action |-> action])
      BY DEF CardWorkOK, CardSteps
    <2>2. QED
      BY <1>5, <2>1, DaySumsSame DEF SetStatus, CardType
  <1>6. ASSUME NEW r \in Requests, Patch(r)
        PROVE  (CardType /\ OverspendIsLate)'
    <2>1. PICK w : w = [request[r] EXCEPT !.step = "updating"]
      OBVIOUS
    <2>2. /\ request' = [request EXCEPT ![r].step = "updating"]
          /\ UNCHANGED <<cards, today, late>>
      BY <1>6 DEF Patch
    <2>3. Do(r, w)
      BY <2>1, <2>2 DEF Do
    <2>4. CardWorkOK(w)
      BY <1>6, <2>1 DEF Patch, At, CardWorkOK, CardSteps, CardType
    <2>5. QED
      BY <2>2, <2>3, <2>4, DaySumsSame DEF CardType
  <1>7. ASSUME NEW r \in Requests, NEW c \in DOMAIN cards, NEW amount \in Amounts,
               Authorize(r, c, amount)
        PROVE  (CardType /\ OverspendIsLate)'
    <2>1. CardWorkOK([step |-> "summing", card |-> c, amount |-> amount])
      BY CardServiceAssumption DEF CardWorkOK, CardSteps, CardType
    <2>2. QED
      BY <1>7, <2>1, DaySumsSame DEF Authorize, CardType
  <1>8. ASSUME NEW r \in Requests, SumToday(r)
        PROVE  (CardType /\ OverspendIsLate)'
    <2>1. CardWorkOK(request[r]) /\ request[r].step = "summing"
      BY <1>8 DEF SumToday, At, CardType
    <2>2. CASE WithinLimit(r)
      <3>1. PICK w : w = [step |-> "recording", card |-> request[r].card,
                          amount |-> request[r].amount, sum |-> today[request[r].card]]
        OBVIOUS
      <3>2. CardWorkOK(w)
        BY <2>1, <2>2, <3>1 DEF CardWorkOK, CardSteps, WithinLimit, CardType
      <3>3. Do(r, w) /\ UNCHANGED <<cards, today, late>>
        BY <1>8, <2>2, <3>1 DEF SumToday
      <3>4. QED
        BY <3>2, <3>3, DaySumsSame DEF CardType
    <2>3. CASE ~WithinLimit(r)
      BY <1>1, <1>8, <2>3, DaySumsSame DEF SumToday, CardType
    <2>4. QED
      BY <2>2, <2>3
  <1>9. ASSUME NEW r \in Requests, RecordAuthorization(r)
        PROVE  (CardType /\ OverspendIsLate)'
    <2>1. PICK c, n, sum : c = request[r].card /\ n = request[r].amount /\ sum = request[r].sum
      OBVIOUS
    <2>2. /\ c \in DOMAIN today /\ n \in Nat /\ sum \in Nat
          /\ sum + n <= SpendingLimit
      BY <1>9, <2>1 DEF RecordAuthorization, At, CardWorkOK, CardType
    <2>3. /\ today' = [today EXCEPT ![c] = today[c] + n]
          /\ late' = IF today[c] # sum THEN late + n ELSE late
          /\ cards' = cards
      BY <1>9, <2>1 DEF RecordAuthorization
    <2>4. today[c] \in Nat
      BY <2>2 DEF CardType
    <2>5. /\ today' \in Seq(Nat) /\ Len(today') = Len(today) /\ late' \in Nat /\ late' >= late
          /\ \A d \in DOMAIN today : today'[d] = IF d = c THEN today[c] + n ELSE today[d]
      <3>1. today \in Seq(Nat) /\ DOMAIN today = 1..Len(today) /\ today[c] + n \in Nat
        BY <2>2, <2>4, LenProperties DEF CardType
      <3>2. /\ [today EXCEPT ![c] = today[c] + n] \in Seq(Nat)
            /\ Len([today EXCEPT ![c] = today[c] + n]) = Len(today)
            /\ \A d \in 1..Len(today) : [today EXCEPT ![c] = today[c] + n][d]
                                           = IF d = c THEN today[c] + n ELSE today[d]
        BY <2>2, <3>1, ExceptSeq, Zenon
      <3>3. QED
        <4>1. late \in Nat
          BY DEF CardType
        <4>2. late' \in Nat /\ late' >= late
          BY <2>2, <2>3, <4>1
        <4>3. QED
          BY <2>3, <3>1, <3>2, <4>2, Zenon
    <2>6. CardWorkOK(NoRequest)' /\ Do(r, NoRequest)
      BY <1>9 DEF CardWorkOK, CardSteps, NoRequest, RecordAuthorization
    <2>7. /\ request' = [q \in Requests |-> request'[q]]
          /\ \A q \in Requests : CardWorkOK(request[q])'
      BY <2>5, <2>6, CardRequestNext DEF CardType
    <2>8. ASSUME NEW d \in DOMAIN cards'
          PROVE  today'[d] <= SpendingLimit + late'
      <3>1. d \in DOMAIN today /\ today[d] \in Nat /\ today[d] <= SpendingLimit + late
        BY <2>3, <2>8 DEF OverspendIsLate, CardType
      <3>2. CASE d = c
        BY <2>2, <2>3, <2>4, <2>5, <3>1, <3>2, CardServiceAssumption DEF CardType
      <3>3. CASE d # c
        BY <2>3, <2>5, <3>1, <3>3, CardServiceAssumption DEF CardType
      <3>4. QED
        BY <3>2, <3>3
    <2>9. QED
      BY <2>3, <2>5, <2>7, <2>8 DEF CardType, OverspendIsLate
  <1>10. ASSUME NEW r \in Requests, Break(r)
         PROVE  (CardType /\ OverspendIsLate)'
    BY <1>1, <1>10, DaySumsSame DEF Break, CardType
  <1>11. CASE Midnight
    <2>1. /\ today' = [c \in DOMAIN today |-> 0]
          /\ UNCHANGED <<cards, request, late>>
      BY <1>11 DEF Midnight
    <2>2. today' \in Seq(Nat) /\ Len(today') = Len(today) /\ DOMAIN today' = DOMAIN today
      BY <2>1 DEF CardType
    <2>3. \A r \in Requests : CardWorkOK(request[r])'
      BY <2>1, <2>2 DEF CardWorkOK, CardType
    <2>4. OverspendIsLate'
      BY <2>1, <2>2, CardServiceAssumption DEF OverspendIsLate, CardType
    <2>5. QED
      BY <2>1, <2>2, <2>3, <2>4 DEF CardType
  <1>12. CASE UNCHANGED cardVars
    BY <1>12 DEF cardVars, CardType, OverspendIsLate, CardWorkOK
  <1>13. QED
    BY <1>2, <1>3, <1>4, <1>5, <1>6, <1>7, <1>8, <1>9, <1>10, <1>11, <1>12 DEF Next

\* What a card spends in a day passes the limit by no more than what was
\* recorded after the sum it was compared with had changed, for any number of
\* cards and of authorizations in progress (card.service.ts lines 301-320).
THEOREM LimitHolds == Spec => []OverspendIsLate
  <1>1. Init => CardType /\ OverspendIsLate
    BY CardInit
  <1>2. CardType /\ OverspendIsLate /\ [Next]_cardVars => (CardType /\ OverspendIsLate)'
    BY CardNext
  <1>3. QED
    BY <1>1, <1>2, PTL DEF Spec

-----------------------------------------------------------------------------
(* The row of a card and the issuer.                                       *)

\* Request r is about to write what the row or the issuer says of card c.
HoldsCard(r, c) ==
    request[r].step \in {"storing", "patching", "updating"} /\ request[r].card = c

\* At most one request holds such a card.
SingleHolder(c) == c \notin crossed \/ cards[c] = "none"

\* Cards no request holds on which the row and the issuer differ.
Differing ==
    {c \in DOMAIN cards \ crossed :
        /\ \A r \in Requests : ~HoldsCard(r, c)
        /\ (cards[c] = "active") # (issuer[c] = "ACTIVE")}

\* What a request finds at the card it holds: no row yet, or a row, and the
\* issuer told of the action if nobody came between.
CardHeldOK(w) ==
    /\ w.step = "storing" =>
          w.card \in DOMAIN cards /\ cards[w.card] = "none" /\ issuer[w.card] = "ACTIVE"
    /\ w.step \in {"patching", "updating"} =>
          w.card \in DOMAIN cards /\ cards[w.card] # "none"
    /\ w.step = "updating" /\ w.card \notin crossed =>
          (issuer[w.card] = "ACTIVE") = (w.action # "freeze")

CardsAgree ==
    /\ issuer \in Seq({"ACTIVE", "BLOCKED"}) /\ Len(issuer) = Len(cards)
    /\ breaks \in Nat
    /\ \A r \in Requests : CardHeldOK(request[r])
    /\ \A q, r \in Requests, c \in DOMAIN cards :
          HoldsCard(q, c) /\ HoldsCard(r, c) /\ SingleHolder(c) => q = r
    /\ Cardinality(Differing) <= breaks

\* There are finitely many cards.
LEMMA DifferingFinite ==
    ASSUME CardType
    PROVE  IsFiniteSet(Differing)
  <1>1. Differing \subseteq 1..Len(cards) /\ Len(cards) \in Nat
    BY DEF Differing, CardType
  <1>2. IsFiniteSet(1..Len(cards))
    BY <1>1, FS_Interval
  <1>3. QED
    BY <1>1, <1>2, FS_Subset

\* A step after which no further card differs keeps the count.
LEMMA DifferingCountKept ==
    ASSUME CardType, Cardinality(Differing) <= breaks, breaks \in Nat,
           Differing' \subseteq Differing, breaks' = breaks
    PROVE  Cardinality(Differing') <= breaks'
  <1>1. IsFiniteSet(Differing) /\ Cardinality(Differing) \in Nat
    BY DifferingFinite, FS_CardinalityType
  <1>2. Cardinality(Differing') <= Cardinality(Differing) /\ Cardinality(Differing') \in Nat
    BY <1>1, FS_Subset, FS_CardinalityType
  <1>3. QED
    BY <1>1, <1>2

\* Request r goes on, the others stay where they are.
LEMMA CardRequestGoesOn ==
    ASSUME CardType, NEW r \in Requests, NEW w, Do(r, w)
    PROVE  request'[r] = w /\ \A q \in Requests \ {r} : request'[q] = request[q]
  BY DEF Do, CardType

\* A request that holds no card goes on without one, or ends.
LEMMA NoCardHeld ==
    ASSUME CardType, CardsAgree, UNCHANGED <<cards, issuer, breaks, crossed>>,
           NEW r \in Requests, NEW w, Do(r, w),
           request[r].step \notin {"storing", "patching", "updating"},
           w.step \notin {"storing", "patching", "updating"}
    PROVE  CardsAgree'
  <1>1. request'[r] = w /\ \A q \in Requests \ {r} : request'[q] = request[q]
    BY CardRequestGoesOn
  <1>2. \A q \in Requests : \A c : HoldsCard(q, c)' <=> HoldsCard(q, c)
    BY <1>1 DEF HoldsCard
  <1>3. \A q \in Requests : CardHeldOK(request[q])'
    BY <1>1 DEF CardHeldOK, CardsAgree
  <1>4. Differing' = Differing
    BY <1>2 DEF Differing
  <1>5. QED
    BY <1>2, <1>3, <1>4 DEF CardsAgree, SingleHolder

\* Agreement survives every step.
LEMMA CardsAgreeNext ==
    ASSUME CardType, CardsAgree, CardType', [Next]_cardVars
    PROVE  CardsAgree'
  <1>0. NoRequest.step = "none"
    BY DEF NoRequest
  <1>1. ASSUME NEW r \in Requests, Issue(r)
        PROVE  CardsAgree'
    BY <1>0, <1>1, NoCardHeld DEF Issue, Begin
  <1>2. ASSUME NEW r \in Requests, OrderCard(r)
        PROVE  CardsAgree'
    <2>1. PICK n : n = Len(issuer) + 1
      OBVIOUS
    <2>2. /\ issuer' = Append(issuer, "ACTIVE") /\ cards' = Append(cards, "none")
          /\ UNCHANGED <<breaks, crossed>>
      BY <1>2 DEF OrderCard
    <2>3. /\ issuer' \in Seq({"ACTIVE", "BLOCKED"}) /\ Len(issuer') = Len(cards')
          /\ DOMAIN cards' = DOMAIN cards \cup {n} /\ n \notin DOMAIN cards
          /\ cards'[n] = "none" /\ issuer'[n] = "ACTIVE" /\ Len(issuer') = n
          /\ \A c \in DOMAIN cards : cards'[c] = cards[c] /\ issuer'[c] = issuer[c]
      <3>1. /\ issuer \in Seq({"ACTIVE", "BLOCKED"}) /\ cards \in Seq(CardStatuses)
            /\ Len(issuer) = Len(cards)
        BY DEF CardsAgree, CardType
      <3>2. "ACTIVE" \in {"ACTIVE", "BLOCKED"} /\ "none" \in CardStatuses
        BY DEF CardStatuses
      <3>3. /\ issuer' \in Seq({"ACTIVE", "BLOCKED"}) /\ Len(issuer') = Len(issuer) + 1
            /\ \A i \in 1..Len(issuer) : issuer'[i] = issuer[i]
            /\ issuer'[Len(issuer) + 1] = "ACTIVE"
        BY <2>2, <3>1, <3>2, AppendProperties, ZenonT(60)
      <3>4. /\ cards' \in Seq(CardStatuses) /\ Len(cards') = Len(cards) + 1
            /\ \A i \in 1..Len(cards) : cards'[i] = cards[i]
            /\ cards'[Len(cards) + 1] = "none"
        BY <2>2, <3>1, <3>2, AppendProperties, ZenonT(60)
      <3>5. /\ DOMAIN cards' = 1..Len(cards') /\ DOMAIN cards = 1..Len(cards)
            /\ Len(cards) \in Nat
        BY <3>1, <3>4, LenProperties, Zenon
      <3>6. QED
        BY <2>1, <2>2, <3>1, <3>3, <3>4, <3>5
    <2>4. Do(r, [step |-> "storing", card |-> n])
      BY <1>2, <2>3 DEF OrderCard
    <2>5. /\ request'[r] = [step |-> "storing", card |-> n]
          /\ \A q \in Requests \ {r} : request'[q] = request[q]
      BY <2>4, CardRequestGoesOn
    <2>6. \A c : HoldsCard(r, c)' <=> c = n
      BY <2>5 DEF HoldsCard
    <2>7. \A q \in Requests \ {r} : \A c : (HoldsCard(q, c)' <=> HoldsCard(q, c)) /\ ~HoldsCard(q, n)
      BY <2>3, <2>5 DEF HoldsCard, CardHeldOK, CardsAgree
    <2>8. \A c : ~HoldsCard(r, c)
      BY <1>2 DEF OrderCard, At, HoldsCard
    <2>9. \A q \in Requests : CardHeldOK(request[q])'
      BY <2>2, <2>3, <2>5 DEF CardHeldOK, CardsAgree
    <2>10. Differing' \subseteq Differing
      BY <2>2, <2>3, <2>6, <2>7, <2>8 DEF Differing
    <2>11. Cardinality(Differing') <= breaks'
      BY <2>2, <2>10, DifferingCountKept DEF CardsAgree
    <2>12. \A p, q \in Requests, c \in DOMAIN cards' :
              HoldsCard(p, c)' /\ HoldsCard(q, c)' /\ SingleHolder(c)' => p = q
      BY <2>2, <2>3, <2>6, <2>7 DEF CardsAgree, SingleHolder
    <2>13. QED
      BY <2>2, <2>3, <2>9, <2>11, <2>12 DEF CardsAgree
  <1>3. ASSUME NEW r \in Requests, StoreCard(r) \/ UpdateStatus(r)
        PROVE  CardsAgree'
    <2>1. PICK k, s : /\ k = request[r].card /\ s \in {"active", "frozen"}
                      /\ cards' = [cards EXCEPT ![k] = s]
                      /\ At(r, "storing") => s = "active"
                      /\ At(r, "updating") => (s = "active") = (request[r].action # "freeze")
      BY <1>3 DEF StoreCard, UpdateStatus, At
    <2>2. /\ UNCHANGED <<issuer, breaks, crossed>> /\ Do(r, NoRequest)
          /\ At(r, "storing") \/ At(r, "updating")
      BY <1>3 DEF StoreCard, UpdateStatus
    <2>3. /\ k \in DOMAIN cards /\ HoldsCard(r, k)
          /\ k \notin crossed => (s = "active") = (issuer[k] = "ACTIVE")
      BY <2>1, <2>2 DEF At, HoldsCard, CardHeldOK, CardsAgree
    <2>4. /\ DOMAIN cards' = DOMAIN cards /\ Len(cards') = Len(cards) /\ cards'[k] = s
          /\ \A c \in DOMAIN cards \ {k} : cards'[c] = cards[c]
      BY <2>1, <2>3 DEF CardType
    <2>5. request'[r] = NoRequest /\ \A q \in Requests \ {r} : request'[q] = request[q]
      BY <2>2, CardRequestGoesOn
    <2>6. /\ \A c : ~HoldsCard(r, c)'
          /\ \A q \in Requests \ {r} : \A c : HoldsCard(q, c)' <=> HoldsCard(q, c)
      BY <1>0, <2>5 DEF HoldsCard
    <2>7. \A q \in Requests : CardHeldOK(request[q])'
      <3>1. CardHeldOK(request[r])'
        BY <1>0, <2>5 DEF CardHeldOK
      <3>2. ASSUME NEW q \in Requests \ {r}
            PROVE  CardHeldOK(request[q])'
        <4>1. CASE HoldsCard(q, k) /\ request[q].step = "storing"
          <5>1. cards[k] = "none" /\ issuer[k] = "ACTIVE"
            BY <4>1 DEF HoldsCard, CardHeldOK, CardsAgree
          <5>2. q = r
            BY <2>3, <4>1, <5>1 DEF CardsAgree, SingleHolder
          <5>3. QED
            BY <5>2
        <4>2. CASE ~(HoldsCard(q, k) /\ request[q].step = "storing")
          BY <2>1, <2>2, <2>4, <2>5, <4>2 DEF HoldsCard, CardHeldOK, CardsAgree
        <4>3. QED
          BY <4>1, <4>2
      <3>3. QED
        BY <3>1, <3>2
    <2>8. Differing' \subseteq Differing
      <3>1. ASSUME NEW c \in Differing'
            PROVE  c \in Differing
        <4>1. /\ c \in DOMAIN cards \ crossed /\ (cards'[c] = "active") # (issuer[c] = "ACTIVE")
              /\ \A q \in Requests : ~HoldsCard(q, c)'
          BY <2>2, <2>4, <3>1 DEF Differing
        <4>2. c # k
          BY <2>3, <2>4, <4>1
        <4>3. \A q \in Requests : ~HoldsCard(q, c)
          BY <2>1, <2>6, <4>1, <4>2 DEF HoldsCard
        <4>4. QED
          BY <2>4, <4>1, <4>2, <4>3 DEF Differing
      <3>2. QED
        BY <3>1
    <2>9. Cardinality(Differing') <= breaks'
      BY <2>2, <2>8, DifferingCountKept DEF CardsAgree
    <2>10. QED
      <3>1. \A c \in DOMAIN cards : SingleHolder(c)' => SingleHolder(c)
        BY <2>1, <2>2, <2>4 DEF SingleHolder
      <3>2. QED
        BY <2>2, <2>4, <2>6, <2>7, <2>9, <3>1 DEF CardsAgree
  <1>4. ASSUME NEW r \in Requests, NEW c \in DOMAIN cards, NEW action \in {"freeze", "unfreeze"},
               SetStatus(r, c, action)
        PROVE  CardsAgree'
    <2>1. /\ request[r].step = "none" /\ cards[c] # "none"
          /\ UNCHANGED <<cards, issuer, breaks>>
          /\ crossed' = IF Setting(c) # {} THEN crossed \cup {c} ELSE crossed
      BY <1>0, <1>4 DEF SetStatus, Begin
    <2>2. Do(r, [step |-> "patching", card |-> c, action |-> action])
      BY <1>4 DEF SetStatus
    <2>3. /\ request'[r] = [step |-> "patching", card |-> c, action |-> action]
          /\ \A q \in Requests \ {r} : request'[q] = request[q]
      BY <2>2, CardRequestGoesOn
    <2>4. /\ \A d : ~HoldsCard(r, d) /\ (HoldsCard(r, d)' <=> d = c)
          /\ \A q \in Requests \ {r} : \A d : HoldsCard(q, d)' <=> HoldsCard(q, d)
      BY <2>1, <2>3 DEF HoldsCard
    <2>5. crossed \subseteq crossed'
      BY <2>1
    <2>6. \A q \in Requests : CardHeldOK(request[q])'
      BY <2>1, <2>3, <2>5 DEF CardHeldOK, CardsAgree
    <2>7. c \notin crossed' => \A q \in Requests : ~HoldsCard(q, c)
      BY <2>1 DEF Setting, HoldsCard, CardHeldOK, CardsAgree
    <2>8. \A p, q \in Requests, d \in DOMAIN cards' :
             HoldsCard(p, d)' /\ HoldsCard(q, d)' /\ SingleHolder(d)' => p = q
      BY <2>1, <2>4, <2>5, <2>7 DEF SingleHolder, CardsAgree
    <2>9. Differing' \subseteq Differing
      BY <2>1, <2>4, <2>5 DEF Differing
    <2>10. Cardinality(Differing') <= breaks'
      BY <2>1, <2>9, DifferingCountKept DEF CardsAgree
    <2>11. QED
      BY <2>1, <2>6, <2>8, <2>10 DEF CardsAgree
  <1>5. ASSUME NEW r \in Requests, Patch(r)
        PROVE  CardsAgree'
    <2>1. PICK k, a, s : /\ k = request[r].card /\ a = request[r].action
                         /\ s = IF a = "freeze" THEN "BLOCKED" ELSE "ACTIVE"
      OBVIOUS
    <2>2. /\ request[r].step = "patching" /\ issuer' = [issuer EXCEPT ![k] = s]
          /\ UNCHANGED <<cards, breaks, crossed>>
      BY <1>5, <2>1 DEF Patch, At
    <2>3. PICK w : w = [request[r] EXCEPT !.step = "updating"]
      OBVIOUS
    <2>4. Do(r, w)
      BY <1>5, <2>3 DEF Patch, Do
    <2>5. request'[r] = w /\ \A q \in Requests \ {r} : request'[q] = request[q]
      BY <2>4, CardRequestGoesOn
    <2>6. w.step = "updating" /\ w.card = k /\ w.action = a
      BY <2>1, <2>2, <2>3
    <2>7. \A q \in Requests : \A d : HoldsCard(q, d)' <=> HoldsCard(q, d)
      BY <2>1, <2>2, <2>5, <2>6 DEF HoldsCard
    <2>8. k \in DOMAIN cards /\ cards[k] # "none" /\ HoldsCard(r, k)
      BY <2>1, <2>2 DEF CardHeldOK, CardsAgree, HoldsCard
    <2>9. /\ issuer' \in Seq({"ACTIVE", "BLOCKED"}) /\ Len(issuer') = Len(issuer)
          /\ issuer'[k] = s /\ \A d \in DOMAIN cards \ {k} : issuer'[d] = issuer[d]
      BY <2>1, <2>2, <2>8 DEF CardsAgree, CardType
    <2>10. CardHeldOK(request[r])'
      BY <2>1, <2>2, <2>5, <2>6, <2>8, <2>9 DEF CardHeldOK
    <2>11. ASSUME NEW q \in Requests \ {r}
           PROVE  CardHeldOK(request[q])'
      <3>1. HoldsCard(q, k) => k \in crossed /\ request[q].step # "storing"
        BY <2>8 DEF CardsAgree, SingleHolder, CardHeldOK, HoldsCard
      <3>2. QED
        BY <2>2, <2>5, <2>9, <3>1 DEF CardHeldOK, CardsAgree, HoldsCard
    <2>12. Differing' \subseteq Differing
      BY <2>2, <2>7, <2>8, <2>9 DEF Differing
    <2>13. Cardinality(Differing') <= breaks'
      BY <2>2, <2>12, DifferingCountKept DEF CardsAgree
    <2>14. QED
      BY <2>2, <2>7, <2>9, <2>10, <2>11, <2>13 DEF CardsAgree, SingleHolder
  <1>6. ASSUME NEW r \in Requests, NEW c \in DOMAIN cards, NEW amount \in Amounts,
               Authorize(r, c, amount)
        PROVE  CardsAgree'
    BY <1>0, <1>6, NoCardHeld DEF Authorize, Begin
  <1>7. ASSUME NEW r \in Requests, SumToday(r)
        PROVE  CardsAgree'
    BY <1>0, <1>7, NoCardHeld DEF SumToday, At
  <1>8. ASSUME NEW r \in Requests, RecordAuthorization(r)
        PROVE  CardsAgree'
    BY <1>0, <1>8, NoCardHeld DEF RecordAuthorization, At
  <1>9. ASSUME NEW r \in Requests, Break(r)
        PROVE  CardsAgree'
    <2>1. PICK k : k = request[r].card
      OBVIOUS
    <2>2. UNCHANGED <<cards, issuer, crossed>> /\ breaks' = breaks + 1 /\ Do(r, NoRequest)
      BY <1>9 DEF Break
    <2>3. request'[r] = NoRequest /\ \A q \in Requests \ {r} : request'[q] = request[q]
      BY <2>2, CardRequestGoesOn
    <2>4. /\ \A d : ~HoldsCard(r, d)' /\ (HoldsCard(r, d) => d = k)
          /\ \A q \in Requests \ {r} : \A d : HoldsCard(q, d)' <=> HoldsCard(q, d)
      BY <1>0, <2>1, <2>3 DEF HoldsCard
    <2>5. \A q \in Requests : CardHeldOK(request[q])'
      BY <1>0, <2>2, <2>3 DEF CardHeldOK, CardsAgree
    <2>6. Differing' \subseteq Differing \cup {k}
      BY <2>2, <2>4 DEF Differing
    <2>7. Cardinality(Differing') <= Cardinality(Differing) + 1
      <3>1. IsFiniteSet(Differing) /\ IsFiniteSet(Differing \cup {k})
        BY DifferingFinite, FS_AddElement
      <3>2. /\ Cardinality(Differing \cup {k}) <= Cardinality(Differing) + 1
            /\ Cardinality(Differing) \in Nat
        BY <3>1, FS_AddElement, FS_CardinalityType
      <3>3. /\ Cardinality(Differing') <= Cardinality(Differing \cup {k})
            /\ Cardinality(Differing') \in Nat /\ Cardinality(Differing \cup {k}) \in Nat
        BY <2>6, <3>1, FS_Subset, FS_CardinalityType
      <3>4. QED
        BY <3>2, <3>3
    <2>8. Cardinality(Differing') <= breaks' /\ breaks' \in Nat
      <3>1. Cardinality(Differing) \in Nat /\ Cardinality(Differing') \in Nat
        BY DifferingFinite, FS_CardinalityType, <2>6, FS_AddElement, FS_Subset
      <3>2. QED
        BY <2>2, <2>7, <3>1 DEF CardsAgree
    <2>9. QED
      BY <2>2, <2>4, <2>5, <2>8 DEF CardsAgree, SingleHolder
  <1>10. CASE Midnight
    <2>1. UNCHANGED <<cards, issuer, request, breaks, crossed>>
      BY <1>10 DEF Midnight
    <2>2. QED
      BY <2>1 DEF CardsAgree, CardHeldOK, HoldsCard, SingleHolder, Differing
  <1>11. CASE UNCHANGED cardVars
    BY <1>11 DEF cardVars, CardsAgree, CardHeldOK, HoldsCard, SingleHolder, Differing
  <1>12. QED
    BY <1>1, <1>2, <1>3, <1>4, <1>5, <1>6, <1>7, <1>8, <1>9, <1>10, <1>11 DEF Next

\* When no request is in progress, the row of a card and the issuer agree on
\* whether it can pay, but for one card per call that threw and for cards whose
\* status two requests changed at a time, for any number of cards, requests and
\* failures (card.service.ts lines 134-159 and 226-236).
THEOREM AgreementHolds == Spec => []StatusesAgree
  <1>1. Init => CardType /\ OverspendIsLate /\ CardsAgree
    <2>1. Init => Differing = {} /\ \A r \in Requests : request[r].step = "none"
      BY DEF Init, Differing, NoRequest
    <2>2. Init => CardsAgree
      BY <2>1, FS_EmptySet DEF Init, CardsAgree, CardHeldOK, HoldsCard
    <2>3. QED
      BY <2>2, CardInit
  <1>2. /\ CardType /\ OverspendIsLate /\ CardsAgree /\ [Next]_cardVars
        => (CardType /\ OverspendIsLate /\ CardsAgree)'
    BY CardNext, CardsAgreeNext
  <1>3. CardsAgree => StatusesAgree
    <2>1. SUFFICES ASSUME CardsAgree, \A r \in Requests : request[r] = NoRequest
                   PROVE  Cardinality({c \in DOMAIN cards \ crossed :
                              (cards[c] = "active") # (issuer[c] = "ACTIVE")}) <= breaks
      BY DEF StatusesAgree
    <2>2. Differing = {c \in DOMAIN cards \ crossed :
                          (cards[c] = "active") # (issuer[c] = "ACTIVE")}
      BY <2>1 DEF Differing, HoldsCard, NoRequest
    <2>3. QED
      BY <2>1, <2>2 DEF CardsAgree
  <1>4. QED
    BY <1>1, <1>2, <1>3, PTL DEF Spec

=============================================================================
