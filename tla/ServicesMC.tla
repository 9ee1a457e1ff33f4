------------------------------ MODULE ServicesMC ------------------------------
(***************************************************************************)
(* Small instances of the services for TLC.  They share no state, so a     *)
(* behaviour is about one of them, its scene, and the others stay as they  *)
(* begin.                                                                  *)
(***************************************************************************)
EXTENDS ServicesProperties, TLC

CONSTANTS w1, w2, t1, t2, g1, h1, h2

VARIABLE scene

Payment(usd, level, corridor) == [usd |-> usd, level |-> level, corridor |-> corridor]

MCTransactions == {Payment(40, 0, FALSE), Payment(40, 0, TRUE),
                   Payment(1000, 3, FALSE), Payment(2500, 2, FALSE)}

walletVars == <<row, status, paid, received, lock, cache, call, exec, query, settled, lost,
                faults, expired>>
authVars   == <<user, sessions, otps, handler, calls, ticks, aborts, guesses, unlocks, overlaps>>
fiatVars   == <<accounts, deposited, deposit, task, hook, mints, payouts, stopped, doubled>>
fxVars     == <<rates, quotes, client, refreshed, used, shared>>
alertVars  == <<check, alert, queue, figures, page, post, decided, mishaps>>

\* The operations of the auth service that meet in one behaviour.
Meetings ==
    {{"register", "verifyPhone", "resendOTP", "loginRight", "loginWrong"},
     {"loginRight", "changePIN", "refresh", "revokeAll"},
     {"loginWrong", "loginRight", "changePIN"},
     {"loginWrong", "loginRight", "requestReset", "confirmReset"},
     {"loginRight", "enable2FA", "verify2FA", "disable2FA"},
     {"register", "initiateKYC", "kycWebhook"}}

Scenes == {{"transfers"}, {"balance"}, {"cards"}, {"deposits"}, {"quotes"}, {"checks"}, {"console"}} \cup Meetings

\* Two transfers may meet mishaps while nobody asks for a balance; one meets a
\* query and no mishap.
WalletInit ==
    /\ query = [g \in {g1} |-> [step |-> IF scene = {"balance"} THEN "idle" ELSE "done"]]
    /\ faults = IF scene = {"balance"} THEN 1 ELSE 0
    /\ W!InitTables

MCInit ==
    /\ scene \in Scenes
    /\ WalletInit /\ A!Init /\ Init /\ F!Init /\ X!Init /\ M!Init
    /\ scene \notin Meetings => user = A!Member

\* Either the checks and the figures, or one alert that two officers decide, one
\* of whom asks for one list only.
Compliance ==
    /\ M!Next
    /\ scene = {"checks"} => UNCHANGED <<page, post, decided>>
    /\ scene = {"console"} =>
          /\ UNCHANGED <<queue, figures>>
          /\ \E o \in {h1, h2} : page'[o].asked <= 1
          /\ Cardinality({c \in {t1, t2} : check'[c].step # "none"}) <= 1
          /\ \A c \in {t1, t2} : check'[c].step # "none" =>
                check'[c].usd = 1000 /\ ~check'[c].hit /\ check'[c].step # "failed"

MCNext ==
    \/ /\ scene \in {{"transfers"}, {"balance"}} /\ W!Next
       /\ scene = {"balance"} => \E t \in {t1, t2} : call'[t].step = "idle"
       /\ UNCHANGED <<scene, authVars, cardVars, fiatVars, fxVars, alertVars>>
    \/ /\ scene \in Meetings /\ A!Next
       /\ \A h \in {h1, h2} : handler'[h].op \in scene \cup {"idle"}
       /\ UNCHANGED <<scene, walletVars, cardVars, fiatVars, fxVars, alertVars>>
    \/ /\ scene = {"cards"} /\ Next
       /\ UNCHANGED <<scene, walletVars, authVars, fiatVars, fxVars, alertVars>>
    \/ /\ scene = {"deposits"} /\ F!Next
       /\ UNCHANGED <<scene, walletVars, authVars, cardVars, fxVars, alertVars>>
    \/ /\ scene = {"quotes"} /\ X!Next
       /\ UNCHANGED <<scene, walletVars, authVars, cardVars, fiatVars, alertVars>>
    \/ /\ scene \in {{"checks"}, {"console"}} /\ Compliance
       /\ UNCHANGED <<scene, walletVars, authVars, cardVars, fiatVars, fxVars>>

MCSpec == MCInit /\ [][MCNext]_<<scene, walletVars, authVars, cardVars, fiatVars, fxVars, alertVars>>

Symmetry == Permutations({t1, t2}) \cup Permutations({w1, w2}) \cup Permutations({h1, h2})

=============================================================================
