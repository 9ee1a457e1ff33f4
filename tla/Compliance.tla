------------------------------ MODULE Compliance ------------------------------
(***************************************************************************)
(* The compliance service (services/compliance): the check of a            *)
(* transaction, the alert it saves, the job it queues for it, the figures  *)
(* of the dashboard, and the page of the admin console where officers list *)
(* alerts and decide them.  No worker of the repository takes from the     *)
(* queue the jobs are added to.                                            *)
(*                                                                         *)
(* Rules 3 and 7 never fire: the total of a day and the velocity they ask  *)
(* for are stubs that answer zero.  An alert has the name of the check     *)
(* that saved it; amounts are in USD.                                      *)
(***************************************************************************)
EXTENDS Integers, FiniteSets

CONSTANTS
    Checks, Officers,
    Transactions, \* what is checked: its amount, the user's level, a corridor at risk
    Filters,      \* the statuses an officer lists
    MaxMishaps,   \* bound: calls that fail
    MaxAsks       \* bound: lists an officer asks for

VARIABLES
    check,     \* per check: its input, what is found, how far it is
    alert,     \* aml_alerts: per check, its status
    queue,     \* the queue 'compliance' of Bull: alerts with a job in it
    figures,   \* getDashboardMetrics
    page,      \* per officer: filter, rows, lists asked for and answered; the filter he
               \* chose or decided under last
    post,      \* per officer: decisions on their way, with the filter of the click
    decided,   \* history: per officer, decisions he was told have been made
    mishaps

checkVars == <<check, alert, queue>>
pageVars  == <<page, post, decided>>

complianceVars == <<checkVars, figures, pageVars, mishaps>>

NoCheck   == [step |-> "none"]
NoFigures == [step |-> "none"]

Init ==
    /\ check = [c \in Checks |-> NoCheck]
    /\ alert = [c \in Checks |-> "none"]
    /\ queue = {}
    /\ figures = NoFigures
    /\ page = [o \in Officers |-> [filter |-> "open", rows |-> {}, loading |-> TRUE,
                                asked |-> 0, last |-> "open", landed |-> 0, lists |-> {}]]
    /\ post = [o \in Officers |-> {}]
    /\ decided = [o \in Officers |-> {}]
    /\ mishaps = 0

Mishap == mishaps < MaxMishaps /\ mishaps' = mishaps + 1

-----------------------------------------------------------------------------
(* The rules of checkTransaction, on its input and what was screened.      *)

\* By KYC level, 0 to 3.
SingleTx == [level \in 0..3 |-> CASE level = 0 -> 50 [] level = 1 -> 200
                                  [] level = 2 -> 2000 [] level = 3 -> 100000]

OverLevel(x) == x.usd > SingleTx[x.level]

\* The total of the day is always zero (getDailyTotal), so no smaller amounts add up.
OverDay(x) == x.usd > 2000

Triggers(x) == OverLevel(x) \/ x.usd >= 1000 \/ OverDay(x) \/ x.hit \/ x.corridor

-----------------------------------------------------------------------------
(* The steps of a check.                                                   *)

At(c, step) == check[c].step = step

Goto(c, step) == check' = [check EXCEPT ![c].step = step]

Begin(c, tx) ==
    /\ check[c] = NoCheck
    /\ check' = [check EXCEPT ![c] = [step |-> "screening", usd |-> tx.usd, level |-> tx.level,
                                      corridor |-> tx.corridor, hit |-> FALSE]]
    /\ UNCHANGED <<alert, queue, figures, pageVars, mishaps>>

\* screenSanctions: what Chainalysis says of the user.
Screen(c, hit) ==
    /\ At(c, "screening")
    /\ LET x == [check[c] EXCEPT !.hit = hit]
       IN  check' = [check EXCEPT ![c] = [x EXCEPT !.step = IF Triggers(x) THEN "saving" ELSE "answered"]]
    /\ UNCHANGED <<alert, queue, figures, pageVars, mishaps>>

\* createAlert: the row.
Save(c) ==
    /\ At(c, "saving")
    /\ alert' = [alert EXCEPT ![c] = "open"]
    /\ figures' = IF figures.step = "counting" THEN [figures EXCEPT !.torn = TRUE] ELSE figures
    /\ Goto(c, "queueing")
    /\ UNCHANGED <<queue, pageVars, mishaps>>

\* Then the job.
AddJob(c) ==
    /\ At(c, "queueing")
    /\ queue' = queue \cup {c}
    /\ Goto(c, "answered")
    /\ UNCHANGED <<alert, figures, pageVars, mishaps>>

\* Mutant: the check goes on when its alert cannot be filed.
FailQuietly(c) ==
    /\ check[c].step \in {"saving", "queueing"}
    /\ Mishap
    /\ Goto(c, "answered")
    /\ UNCHANGED <<alert, queue, figures, pageVars>>

\* The row or the job cannot be written, or the service stops: there is no answer.
Fail(c) ==
    /\ check[c].step \in {"saving", "queueing"}
    /\ Mishap
    /\ Goto(c, "failed")
    /\ UNCHANGED <<alert, queue, figures, pageVars>>

-----------------------------------------------------------------------------
(* getDashboardMetrics: counts that run side by side.                      *)

StartFigures ==
    /\ figures = NoFigures
    /\ figures' = [step |-> "counting", total |-> -1, open |-> -1, torn |-> FALSE]
    /\ UNCHANGED <<checkVars, pageVars, mishaps>>

\* Mutant: the alerts that are decided.
CountAllDecided == Cardinality({c \in Checks : alert[c] \in {"cleared", "reported"}})

CountAll == Cardinality({c \in Checks : alert[c] # "none"})

CountOpen == Cardinality({c \in Checks : alert[c] = "open"})

Count ==
    /\ figures.step = "counting"
    /\ \/ figures.total < 0 /\ figures' = [figures EXCEPT !.total = CountAll]
       \/ figures.open < 0 /\ figures' = [figures EXCEPT !.open = CountOpen]
    /\ UNCHANGED <<checkVars, pageVars, mishaps>>

\* complianceScore.
Score == IF figures.total > 0
         THEN (200 * (figures.total - figures.open) + figures.total) \div (2 * figures.total)
         ELSE 100

-----------------------------------------------------------------------------
(* The page of the alerts: fetchAlerts, the filter and resolveAlert.       *)

\* fetchAlerts, of a render of p whose filter was f.
Ask(p, f) ==
    [p EXCEPT !.asked = @ + 1, !.loading = TRUE,
              !.lists = @ \cup {[n |-> p.asked + 1, filter |-> f, step |-> "sent", rows |-> {}]}]

MayAsk(o) == page[o].asked < MaxAsks

\* Mutant: the effect does not depend on the filter.
SelectOnly(o, f) ==
    /\ MayAsk(o) /\ f # page[o].filter
    /\ page' = [page EXCEPT ![o].filter = f, ![o].last = f]
    /\ UNCHANGED <<checkVars, figures, post, decided, mishaps>>

Select(o, f) ==
    /\ MayAsk(o) /\ f # page[o].filter
    /\ page' = [page EXCEPT ![o] = Ask([@ EXCEPT !.filter = f, !.last = f], f)]
    /\ UNCHANGED <<checkVars, figures, post, decided, mishaps>>

\* The page is opened.
Open(o) ==
    /\ page[o].asked = 0 /\ MayAsk(o)
    /\ page' = [page EXCEPT ![o] = Ask([@ EXCEPT !.last = page[o].filter], page[o].filter)]
    /\ UNCHANGED <<checkVars, figures, post, decided, mishaps>>

Rows(filter) == {[of |-> c, status |-> alert[c]] : c \in {d \in Checks : alert[d] = filter}}

\* getAlerts.
ReadList(o, l) ==
    /\ l \in page[o].lists /\ l.step = "sent"
    /\ page' = [page EXCEPT ![o].lists =
                  (@ \ {l}) \cup {[l EXCEPT !.step = "read", !.rows = Rows(l.filter)]}]
    /\ UNCHANGED <<checkVars, figures, post, decided, mishaps>>

\* Whichever answer comes last stays.
Land(o, l) ==
    /\ l \in page[o].lists /\ l.step = "read"
    /\ page' = [page EXCEPT ![o].rows = l.rows, ![o].landed = l.n, ![o].loading = FALSE,
                            ![o].lists = @ \ {l}]
    /\ UNCHANGED <<checkVars, figures, post, decided, mishaps>>

\* A list that fails leaves the rows there were.
LoseList(o, l) ==
    /\ l \in page[o].lists
    /\ Mishap
    /\ page' = [page EXCEPT ![o].loading = FALSE, ![o].lists = @ \ {l}]
    /\ UNCHANGED <<checkVars, figures, post, decided>>

\* The buttons of a row, hidden while a list loads; they stay while a decision is
\* on its way.
Decide(o, c, status) ==
    /\ ~page[o].loading
    /\ [of |-> c, status |-> "open"] \in page[o].rows
    /\ post' = [post EXCEPT ![o] = @ \cup {[of |-> c, status |-> status, filter |-> page[o].filter,
                                            step |-> "sent"]}]
    /\ UNCHANGED <<checkVars, figures, page, decided, mishaps>>

\* resolveAlert of the service: whatever the status was.
Resolve(o, d) ==
    /\ d \in post[o] /\ d.step = "sent"
    /\ alert' = [alert EXCEPT ![d.of] = d.status]
    /\ post' = [post EXCEPT ![o] = (@ \ {d}) \cup {[d EXCEPT !.step = "done"]}]
    /\ UNCHANGED <<check, queue, figures, page, decided, mishaps>>

\* Mutant: the list is asked for before the decision is answered.
ToldAtOnce(o, d) ==
    /\ d \in post[o]
    /\ MayAsk(o)
    /\ post' = [post EXCEPT ![o] = @ \ {d}]
    /\ decided' = [decided EXCEPT ![o] = @ \cup {d.of}]
    /\ page' = [page EXCEPT ![o] = Ask([@ EXCEPT !.last = d.filter], d.filter)]
    /\ UNCHANGED <<checkVars, figures, mishaps>>

\* resolveAlert goes on with the fetchAlerts of the render it was clicked in: the
\* list is asked for with that filter, whichever is chosen by now.
Told(o, d) ==
    /\ d \in post[o] /\ d.step = "done"
    /\ MayAsk(o)
    /\ post' = [post EXCEPT ![o] = @ \ {d}]
    /\ decided' = [decided EXCEPT ![o] = @ \cup {d.of}]
    /\ page' = [page EXCEPT ![o] = Ask([@ EXCEPT !.last = d.filter], d.filter)]
    /\ UNCHANGED <<checkVars, figures, mishaps>>

\* Made or not, the officer is not told and the list is not asked for.
LoseDecision(o, d) ==
    /\ d \in post[o]
    /\ Mishap
    /\ post' = [post EXCEPT ![o] = @ \ {d}]
    /\ UNCHANGED <<checkVars, figures, page, decided>>

-----------------------------------------------------------------------------
Next ==
    \/ \E c \in Checks :
          \/ \E tx \in Transactions : Begin(c, tx)
          \/ \E hit \in BOOLEAN : Screen(c, hit)
          \/ Save(c) \/ AddJob(c) \/ Fail(c)
    \/ StartFigures \/ Count
    \/ \E o \in Officers :
          \/ Open(o)
          \/ \E f \in Filters : Select(o, f)
          \/ \E l \in page[o].lists : ReadList(o, l) \/ Land(o, l) \/ LoseList(o, l)
          \/ \E c \in Checks, status \in {"cleared", "reported"} : Decide(o, c, status)
          \/ \E d \in post[o] : Resolve(o, d) \/ Told(o, d) \/ LoseDecision(o, d)

Spec == Init /\ [][Next]_complianceVars

-----------------------------------------------------------------------------
(* What an alert is worth: that it is filed, read and decided.             *)

\* Nobody is told the outcome of a check that found something unless its alert
\* was saved and queued before; what fails on the way leaves no answer
\* (aml.service.ts lines 121-152, 257-280).
AnsweredIsFiled ==
    \A c \in Checks : At(c, "answered") /\ Triggers(check[c]) =>
        /\ alert[c] # "none"
        /\ c \in queue

\* The dashboard counts no more open alerts than alerts, and its score is a
\* percentage, unless an alert was saved while the counts were made
\* (reports.service.ts lines 95-108).
ScoreInRange ==
    figures.step = "counting" /\ figures.total >= 0 /\ figures.open >= 0 /\ ~figures.torn =>
        figures.open <= figures.total /\ Score \in 0..100

\* Once the newest list an officer asked for has come and no older one after it,
\* the rows he sees are those of the filter he chose; or, if he was told of a
\* decision after that, of the filter under which he had clicked it
\* (alerts/page.tsx lines 37-61).
RowsFitFilter ==
    \A o \in Officers : page[o].landed = page[o].asked =>
        \A r \in page[o].rows : r.status = page[o].last

\* An alert an officer was told is decided is no longer offered to him, once that
\* list has come, whatever the others decide (alerts/page.tsx lines 53-61).
DecidedIsGone ==
    \A o \in Officers : page[o].landed = page[o].asked =>
        \A r \in page[o].rows : r.of \in decided[o] => r.status # "open"

\* What is found is filed, counted, listed and decided as the four above say.
AlertsHandled == AnsweredIsFiled /\ ScoreInRange /\ RowsFitFilter /\ DecidedIsGone

=============================================================================
