-------------------------------- MODULE Panel --------------------------------
(***************************************************************************)
(* The settings of the admin panel (apps/admin, store/admin.store.ts) and  *)
(* the pages that edit them (app/page.tsx, app/layout.tsx), in the tabs of *)
(* one browser.                                                            *)
(*                                                                         *)
(* A tab reads the settings from localStorage when it is opened and keeps  *)
(* a copy; every change of it writes the whole copy back, and no tab is    *)
(* told of another's.  One bank, one percentage, one exchange rate and one *)
(* user stand for all of their kind.  Percentages are in thousandths of a  *)
(* percent; of limits, tags and notes a user keeps his percentage only.    *)
(***************************************************************************)
EXTENDS Integers

CONSTANTS
    Tabs,
    Typed,     \* percentages an administrator types
    Rates,     \* exchange rates he types
    MaxSets    \* bound: changes

VARIABLES
    storage,   \* localStorage, len-admin-config
    memory,    \* per tab: its copy, NoSettings when it is closed
    modal,     \* per tab: the form of the user, NoModal when it is closed
    sets,
    latest,    \* history: the settings as changed so far, by whichever tab
    behind,    \* history: open tabs that do not know of another's change
    overtaken, \* history: such a tab changed a setting
    rounded    \* history: a percentage shown in full became another, and nobody typed one

panelVars == <<storage, memory, modal, sets, latest, behind, overtaken, rounded>>

NoSettings == [signedIn |-> FALSE]
NoModal    == [open |-> FALSE]
NoUser     == [status |-> "none"]
NoFee      == -1
MaxFee     == 2000

Defaults ==
    [signedIn |-> FALSE, liveMode |-> FALSE, maintenanceMode |-> FALSE, bank |-> "live",
     fee |-> 500, fx |-> [usdRate |-> 1, enabled |-> FALSE],
     user |-> [status |-> "active", fee |-> NoFee]]

Init ==
    /\ storage = Defaults /\ latest = Defaults
    /\ memory = [t \in Tabs |-> NoSettings]
    /\ modal = [t \in Tabs |-> NoModal]
    /\ sets = 0
    /\ behind = {} /\ overtaken = FALSE /\ rounded = FALSE

\* Mutant: a tab begins with the defaults.
OpenTabFresh(t) ==
    /\ memory[t] = NoSettings
    /\ memory' = [memory EXCEPT ![t] = Defaults]
    /\ UNCHANGED <<storage, modal, sets, latest, behind, overtaken, rounded>>

OpenTab(t) ==
    /\ memory[t] = NoSettings
    /\ memory' = [memory EXCEPT ![t] = storage]
    /\ UNCHANGED <<storage, modal, sets, latest, behind, overtaken, rounded>>

CloseTab(t) ==
    /\ memory[t] # NoSettings
    /\ memory' = [memory EXCEPT ![t] = NoSettings]
    /\ modal' = [modal EXCEPT ![t] = NoModal]
    /\ behind' = behind \ {t}
    /\ UNCHANGED <<storage, sets, latest, overtaken, rounded>>

-----------------------------------------------------------------------------
(* The store.                                                              *)

\* set of the store: the change is made to the tab's copy, and the copy is written.
Set(t, field, value) ==
    /\ sets < MaxSets
    /\ sets' = sets + 1
    /\ memory' = [memory EXCEPT ![t][field] = value]
    /\ storage' = [memory[t] EXCEPT ![field] = value]
    /\ latest' = [latest EXCEPT ![field] = value]
    /\ overtaken' = (overtaken \/ t \in behind)
    /\ behind' = behind \cup {s \in Tabs \ {t} : memory[s] # NoSettings}

\* A percentage as it is shown and put into a field: with two decimals.
\* Mutant: without decimals.
ShownWhole(fee) == ((fee + 500) \div 1000) * 1000

Shown(fee) == ((fee + 5) \div 10) * 10

\* The field is left without typing, although the percentage was shown in full.
Rounds(fee, left) == fee # left /\ fee % 10 = 0

SignedIn(t) == memory[t] # NoSettings /\ memory[t].signedIn

\* What can be clicked at the page: a form covers it.
AtPage(t) == SignedIn(t) /\ modal[t] = NoModal

Login(t) ==
    /\ memory[t] # NoSettings /\ ~memory[t].signedIn
    /\ Set(t, "signedIn", TRUE)
    /\ UNCHANGED <<modal, rounded>>

\* The pages are not rendered any more, and a form is lost.
Logout(t) ==
    /\ AtPage(t)
    /\ Set(t, "signedIn", FALSE)
    /\ UNCHANGED <<modal, rounded>>

ToggleLiveMode(t) ==
    /\ AtPage(t)
    /\ Set(t, "liveMode", ~memory[t].liveMode)
    /\ UNCHANGED <<modal, rounded>>

ToggleMaintenance(t) ==
    /\ AtPage(t)
    /\ Set(t, "maintenanceMode", ~memory[t].maintenanceMode)
    /\ UNCHANGED <<modal, rounded>>

NextStatus == [live |-> "demo", demo |-> "offline", offline |-> "live", degraded |-> "live"]

SetBankStatus(t) ==
    /\ AtPage(t)
    /\ Set(t, "bank", NextStatus[memory[t].bank])
    /\ UNCHANGED <<modal, rounded>>

\* pingAllBanks, and pingBank of a bank that is live, change nothing but a figure, and
\* write the whole copy all the same.
Ping(t) ==
    /\ AtPage(t)
    /\ Set(t, "bank", memory[t].bank)
    /\ UNCHANGED <<modal, rounded>>

\* ParamRow: a percentage is opened, typed or not, and left.
SetFees(t, raw) ==
    /\ AtPage(t)
    /\ raw \in Typed \cup {Shown(memory[t].fee)}
    /\ LET left == IF raw > MaxFee THEN MaxFee ELSE raw IN
          /\ Set(t, "fee", left)
          /\ rounded' = (rounded \/ (raw = Shown(memory[t].fee) /\ Rounds(memory[t].fee, left)))
    /\ UNCHANGED modal

\* The rate can be typed while the override is on; switching it keeps the rate.
SetFXOverride(t, rate) ==
    /\ AtPage(t)
    /\ \/ memory[t].fx.enabled /\ Set(t, "fx", [memory[t].fx EXCEPT !.usdRate = rate])
       \/ Set(t, "fx", [memory[t].fx EXCEPT !.enabled = ~@])
    /\ UNCHANGED <<modal, rounded>>

-----------------------------------------------------------------------------
(* The user with limits of his own.                                        *)

\* Suspended from active; active or blocked from suspended; active from blocked.
SetUserStatus(t, status) ==
    /\ AtPage(t)
    /\ <<memory[t].user.status, status>> \in
          {<<"active", "suspended">>, <<"suspended", "active">>,
           <<"suspended", "blocked">>, <<"blocked", "active">>}
    /\ Set(t, "user", [memory[t].user EXCEPT !.status = status])
    /\ UNCHANGED <<modal, rounded>>

RemoveUser(t) ==
    /\ AtPage(t)
    /\ memory[t].user # NoUser
    /\ Set(t, "user", NoUser)
    /\ UNCHANGED <<modal, rounded>>

\* The form copies the user it is opened for, or is empty: Agregar usuario takes the
\* id of a user that is there as well, and then replaces him.
OpenModal(t) ==
    /\ AtPage(t)
    /\ \E user \in {memory[t].user, NoUser} :
          modal' = [modal EXCEPT ![t] =
             [open |-> TRUE, for |-> user,
              user |-> IF user = NoUser THEN [status |-> "active", fee |-> NoFee]
                       ELSE [user EXCEPT !.fee = IF @ = NoFee THEN NoFee ELSE Shown(@)]]]
    /\ UNCHANGED <<storage, memory, sets, latest, behind, overtaken, rounded>>

TypeModal(t, user) ==
    /\ modal[t] # NoModal /\ modal[t].user # user
    /\ modal' = [modal EXCEPT ![t].user = user]
    /\ UNCHANGED <<storage, memory, sets, latest, behind, overtaken, rounded>>

CancelModal(t) ==
    /\ modal[t] # NoModal
    /\ modal' = [modal EXCEPT ![t] = NoModal]
    /\ UNCHANGED <<storage, memory, sets, latest, behind, overtaken, rounded>>

\* The whole user is written as the form has him.
UpsertUser(t) ==
    /\ modal[t] # NoModal
    /\ LET was == modal[t].for
           user == modal[t].user IN
          /\ Set(t, "user", user)
          /\ rounded' = (rounded \/ (was # NoUser /\ was.fee # NoFee /\ user.fee = Shown(was.fee)
                                        /\ Rounds(was.fee, user.fee)))
    /\ modal' = [modal EXCEPT ![t] = NoModal]

Next ==
    \E t \in Tabs :
       \/ OpenTab(t) \/ CloseTab(t) \/ Login(t) \/ Logout(t)
       \/ ToggleLiveMode(t) \/ ToggleMaintenance(t) \/ SetBankStatus(t) \/ Ping(t)
       \/ \E raw \in Typed \cup {Shown(f) : f \in Typed \cup {Defaults.fee, MaxFee}} : SetFees(t, raw)
       \/ \E rate \in Rates : SetFXOverride(t, rate)
       \/ \E status \in {"active", "suspended", "blocked"} :
             \/ SetUserStatus(t, status)
             \/ \E fee \in Typed : TypeModal(t, [status |-> status, fee |-> fee])
       \/ RemoveUser(t) \/ OpenModal(t) \/ CancelModal(t) \/ UpsertUser(t)

Spec == Init /\ [][Next]_panelVars

-----------------------------------------------------------------------------
(* What becomes of the settings.                                           *)

\* What is stored is what the administrator set, in whichever tabs and in whatever
\* order, unless he changed something in a tab that was open while another changed
\* something before: the whole copy is written each time, and no tab follows
\* (admin.store.ts lines 224-321).  A sign-out is a setting as well.
SettingsKept == ~overtaken => storage = latest

\* A percentage that is shown in full is not changed by looking at it: two decimals go
\* into the field and come back when it is left (page.tsx lines 82-84, 353-368).
FeesSteady == ~rounded

=============================================================================
