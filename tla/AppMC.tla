--------------------------------- MODULE AppMC ---------------------------------
(***************************************************************************)
(* Small instances of parts of the web app for TLC.  They share no state,  *)
(* so a behaviour is about one of them, its scene, and the others stay as  *)
(* they begin.                                                             *)
(***************************************************************************)
EXTENDS AppProperties, FiniteSets, TLC

CONSTANTS a1, a2, x1, x2, x3, admin, u1, u2, p1, p2

VARIABLE scene

\* What a cent of each coin is worth, in units of 0.002 cents of a USD; the limits are
\* 2000 USD in the same units and tenths of a cent.
MCRate == [QUETZA |-> 65, MEXCOIN |-> 25, CORI |-> 1, DOLAR |-> 500]

\* Of 2.00 the user types 0.50, 3.00 or all; the rule may become 3 %.
MCCountryOf == u1 :> "GT" @@ u2 :> "MX"
MCRules     == {[fee_permille |-> 30, fee_min |-> 0, fee_max |-> 0]}

\* A number of another user, the sender's own, and a demonstration user's.
MCOwnerOf == [typed |-> "Ana", own |-> "Luis", known |-> "Carlos"]

auditVars == <<balances, entriesNet, reserve, frozen, asking, audit, settings, torn, finer>>
cardVars  == <<balance, amount, payment, seen, given, moves, spoiled>>
pageVars  == <<page, request, lapses, booked, misled>>
demoVars  == <<document, local, dirty, transfer, mishaps, disturbed>>
browserVars == <<ledger, known, auth, signing, shown, listed, sync, form, trades,
                 base, caught, stray, oneSided, between>>
swapVars  == <<purse, swap>>
miniPayVars == <<config, view, address, balanceOf, successHash, screen, opening, send,
                 told, sent, misinformed, clicked>>
accessVars == <<users, call, load, rows, sentCalls, shownDeleted, mixed,
                alongside, revived>>
withdrawPageVars == <<saved, fading, place, bankForm, asked, funds, shownFunds, rule, postings,
                      faded>>
sendPageVars == <<step, text, focused, info, lookUp, fields, quote, loading, sending, paidBy,
                  astray, touched>>

MCInit ==
    /\ scene \in {"signIn", "standing", "audit", "cards", "pages", "demo",
                 "people", "exchange", "swaps", "minipay", "newUsers", "oldUser",
                 "withdrawal", "sending"}
    /\ Init /\ R!Init /\ C!Init /\ P!Init /\ D!Init /\ B!Init /\ S!Init /\ M!Init
    /\ W!Init /\ F!Init
    /\ scene # "minipay" => config = [wallet |-> TRUE, deployed |-> TRUE]
    /\ IF scene = "oldUser"
       THEN K!InitWith({[id |-> u1, phone |-> "+502", status |-> "active"]})
       ELSE K!Init
    /\ scene # "withdrawal" => saved = {}
    /\ IF scene = "cards" THEN amount[x1] = amount[x2] ELSE amount = [p \in {x1, x2, x3} |-> 1]

\* Sign-ins meet updates of the user's document, and so do his submissions.
Users ==
    /\ Next
    /\ scene = "signIn" => submission' = submission
    /\ scene = "standing" => tries' = 0 /\ begun' <= 3

\* Either people come and go and nothing is booked, bought or sold, or one buys and
\* sells and his calls follow one another.
Browser ==
    /\ B!Next
    /\ scene = "people" => UNCHANGED <<ledger, form, trades>>
    /\ scene = "exchange" => /\ signing' \subseteq {u1}
                             /\ Cardinality({s \in {x1, x2} : sync'[s] # B!Idle}) <= 1

\* Either users are created and no list is shown, or the one there is is suspended,
\* taken back and deleted from two pages, and updated beside them.
Accounts ==
    /\ K!Next
    /\ scene = "newUsers" => UNCHANGED rows
    /\ scene = "oldUser" => \A c \in {x1, x2} :
          call'[c] # K!NoCall => call'[c].kind = "status" /\ call'[c].page # Client

\* Two requests of one user to the other, and a third: back to him, in coins of theirs,
\* again to the other when the two have begun, or of the first to himself, of one coin.
Changes ==
    /\ S!Next
    /\ \A s \in Swaps : swap'[s].step # "none" =>
          \/ /\ swap'[s].by = u1 /\ swap'[s].to = u2
             /\ s = x3 => \A t \in Swaps : swap'[t].step # "none"
          \/ /\ s = x3 /\ swap'[s].by = u2 /\ swap'[s].to = u1
             /\ \E t, v \in {x1, x2} :
                   /\ swap'[t].step # "none" /\ swap'[v].step # "none"
                   /\ swap'[s].from = swap'[t].into /\ swap'[s].into = swap'[v].from
          \/ s = x3 /\ swap'[s].by = u1 /\ swap'[s].to = u1 /\ swap'[s].from = "QUETZA"

forms  == <<withdrawPageVars, sendPageVars>>
others == <<miniPayVars, accessVars, forms>>

MCNext ==
    \/ /\ scene \in {"signIn", "standing"} /\ Users
       /\ UNCHANGED <<scene, auditVars, cardVars, pageVars, demoVars, browserVars, swapVars, others>>
    \/ /\ scene = "audit" /\ R!Next
       /\ UNCHANGED <<scene, userVars, cardVars, pageVars, demoVars, browserVars, swapVars, others>>
    \/ /\ scene = "cards" /\ C!Next
       /\ UNCHANGED <<scene, userVars, auditVars, pageVars, demoVars, browserVars, swapVars, others>>
    \/ /\ scene = "pages" /\ P!Next
       /\ UNCHANGED <<scene, userVars, auditVars, cardVars, demoVars, browserVars, swapVars, others>>
    \/ /\ scene = "demo" /\ D!Next
       /\ UNCHANGED <<scene, userVars, auditVars, cardVars, pageVars, browserVars, swapVars, others>>
    \/ /\ scene \in {"people", "exchange"} /\ Browser
       /\ UNCHANGED <<scene, userVars, auditVars, cardVars, pageVars, demoVars, swapVars, others>>
    \/ /\ scene = "swaps" /\ Changes
       /\ UNCHANGED <<scene, userVars, auditVars, cardVars, pageVars, demoVars, browserVars, others>>
    \/ /\ scene = "minipay" /\ M!Next
       /\ UNCHANGED <<scene, userVars, auditVars, cardVars, pageVars, demoVars, browserVars, swapVars,
                      accessVars, forms>>
    \/ /\ scene \in {"newUsers", "oldUser"} /\ Accounts
       /\ UNCHANGED <<scene, userVars, auditVars, cardVars, pageVars, demoVars, browserVars, swapVars,
                      miniPayVars, forms>>
    \/ /\ scene = "withdrawal" /\ W!Next
       /\ UNCHANGED <<scene, userVars, auditVars, cardVars, pageVars, demoVars, browserVars, swapVars,
                      miniPayVars, accessVars, sendPageVars>>
    \/ /\ scene = "sending" /\ F!Next
       /\ UNCHANGED <<scene, userVars, auditVars, cardVars, pageVars, demoVars, browserVars, swapVars,
                      miniPayVars, accessVars, withdrawPageVars>>

MCSpec == MCInit /\ [][MCNext]_<<scene, userVars, auditVars, cardVars, pageVars, demoVars,
                               browserVars, swapVars, others>>

Symmetry == Permutations({a1, a2}) \cup Permutations({x1, x2}) \cup Permutations({p1, p2})

=============================================================================
