------------------------------- MODULE Console -------------------------------
(***************************************************************************)
(* Two pages of the admin panel: the manual mint (app/mint/page.tsx),      *)
(* which previews what the commission will be, and the commission rules    *)
(* (app/commission/page.tsx).  One operator is at each of them; the rules  *)
(* are those of /api/admin/commission.                                     *)
(*                                                                         *)
(* A rule is its fee and its number of changes; a rule that was never used *)
(* has no document yet.  The mint route is seen as the page sees it: it    *)
(* reads the rule of the country it is given and answers (AdminMint has    *)
(* what it does in between).  The API key has been saved.                  *)
(***************************************************************************)
EXTENDS Integers

CONSTANTS
    Countries,
    FirstCountry,  \* "GT", which the page selects when it is opened
    Fees,
    DefaultFee,    \* that of DEFAULT_RULES
    Loads,         \* bound: readings of one rule and of the list
    Mints,         \* bound: presses of Confirmar mint
    MaxSaves       \* bound: presses of Guardar cambios

VARIABLES
    rules,                     \* the documents of len_commission_config
    alone,                     \* history: one rule was created without the others
    country, shown, load,      \* the mint page: the country, the rule it shows, its readings
    mint,                      \* per press: its progress, what was shown and what was charged
    failed,                    \* history: a reading of a rule failed
    crossed,                   \* history: two readings of rules were under way together
    list, listing, form, save, \* the commission page: its rules, their readings, the open
                               \* form, and the save under way
    saves,
    touched,                   \* history: the form was edited or left during a save
    dropped                    \* history: a form was closed that was neither saved nor left

mintPage == <<country, shown, load, mint, failed, crossed>>
rulePage == <<list, listing, form, save, saves, touched, dropped>>
consoleVars == <<rules, alone, mintPage, rulePage>>

NoRule == [of |-> "none"]
NoLoad == [at |-> "none"]
NoMint == [at |-> "none"]
NoForm == [of |-> "none"]

Opened == CHOOSE l \in Loads : TRUE

Init ==
    /\ rules = <<>> /\ alone = FALSE
    /\ country = FirstCountry /\ shown = NoRule
    /\ load = [l \in Loads |-> IF l = Opened THEN [at |-> "sent", of |-> FirstCountry] ELSE NoLoad]
    /\ mint = [m \in Mints |-> NoMint]
    /\ failed = FALSE /\ crossed = FALSE
    /\ list = NoForm
    /\ listing = [l \in Loads |-> IF l = Opened THEN [at |-> "sent"] ELSE NoLoad]
    /\ form = NoForm /\ save = NoForm /\ saves = 0
    /\ touched = FALSE /\ dropped = FALSE

-----------------------------------------------------------------------------
(* The rules.                                                              *)

UnsetRule == [fee |-> DefaultFee, change |-> 0]

\* getCommissionRule: the default is stored when the rule has no document.
RuleOf(c) == IF c \in DOMAIN rules THEN rules[c] ELSE UnsetRule

UseRule(c) ==
    /\ rules' = [d \in DOMAIN rules \cup {c} |-> RuleOf(d)]
    /\ alone' = (alone \/ c \notin DOMAIN rules)

\* Mutant: an empty collection is listed as it is.
AsStored == rules

\* listCommissionRules: the defaults are stored when there is no document at all.
AllRules == IF rules = <<>> THEN [c \in Countries |-> UnsetRule] ELSE rules

-----------------------------------------------------------------------------
(* The mint page: the country and its rule.                                *)

\* Mutant: the rule is read once, for the country first selected.
ChooseCountryOnly(c, l) ==
    /\ c # country /\ load[l] = NoLoad
    /\ country' = c
    /\ UNCHANGED <<rules, alone, shown, load, mint, failed, crossed, rulePage>>

\* The rule shown stays until the other country's is read.
ChooseCountry(c, l) ==
    /\ c # country /\ load[l] = NoLoad
    /\ country' = c
    /\ load' = [load EXCEPT ![l] = [at |-> "sent", of |-> c]]
    /\ crossed' = (crossed \/ \E k \in Loads : load[k] # NoLoad)
    /\ UNCHANGED <<rules, alone, shown, mint, failed, rulePage>>

ReadRule(l) ==
    /\ load[l].at = "sent"
    /\ load' = [load EXCEPT ![l] = [at |-> "read", of |-> load[l].of, rule |-> RuleOf(load[l].of)]]
    /\ UseRule(load[l].of)
    /\ UNCHANGED <<country, shown, mint, failed, crossed, rulePage>>

\* Whatever country is selected by now.
LandRule(l) ==
    /\ load[l].at = "read"
    /\ shown' = [of |-> load[l].of, rule |-> load[l].rule]
    /\ load' = [load EXCEPT ![l] = NoLoad]
    /\ UNCHANGED <<rules, alone, country, mint, failed, crossed, rulePage>>

LoseRule(l) ==
    /\ load[l] # NoLoad
    /\ load' = [load EXCEPT ![l] = NoLoad]
    /\ failed' = TRUE
    /\ UNCHANGED <<rules, alone, country, shown, mint, crossed, rulePage>>

-----------------------------------------------------------------------------
(* The mint page: the mint.                                                *)

\* Why the rule shown may not be the country's.
Excused == failed \/ crossed \/ \E l \in Loads : load[l] # NoLoad

MaySubmit == \A m \in Mints : mint[m].at # "sent" /\ mint[m].at # "charged"

\* The fee is shown beside the button when a rule has been read.
Submit(m) ==
    /\ MaySubmit
    /\ mint[m] = NoMint
    /\ mint' = [mint EXCEPT ![m] = [at |-> "sent", of |-> country, shown |-> shown, excused |-> Excused]]
    /\ UNCHANGED <<rules, alone, country, shown, load, failed, crossed, rulePage>>

\* The route reads the rule of the country in the body.
Charge(m) ==
    /\ mint[m].at = "sent"
    /\ mint' = [mint EXCEPT ![m] = [at |-> "charged", of |-> @.of, shown |-> @.shown,
                                    excused |-> @.excused, by |-> RuleOf(@.of)]]
    /\ UseRule(mint[m].of)
    /\ UNCHANGED <<country, shown, load, failed, crossed, rulePage>>

\* The result is shown and the form emptied.
ShowResult(m) ==
    /\ mint[m].at = "charged"
    /\ mint' = [mint EXCEPT ![m].at = "shown"]
    /\ UNCHANGED <<rules, alone, country, shown, load, failed, crossed, rulePage>>

\* An error, or no answer: the form keeps what was typed, to be sent again.
ShowError(m) ==
    /\ mint[m].at \in {"sent", "charged"}
    /\ mint' = [mint EXCEPT ![m] = NoMint]
    /\ UNCHANGED <<rules, alone, country, shown, load, failed, crossed, rulePage>>

-----------------------------------------------------------------------------
(* The commission page.                                                    *)

ReadList(l) ==
    /\ listing[l].at = "sent"
    /\ listing' = [listing EXCEPT ![l] = [at |-> "read", rules |-> AllRules]]
    /\ rules' = AllRules
    /\ UNCHANGED <<alone, mintPage, list, form, save, saves, touched, dropped>>

LandList(l) ==
    /\ listing[l].at = "read"
    /\ list' = [of |-> "all", rules |-> listing[l].rules]
    /\ listing' = [listing EXCEPT ![l] = NoLoad]
    /\ UNCHANGED <<rules, alone, mintPage, form, save, saves, touched, dropped>>

LoseList(l) ==
    /\ listing[l] # NoLoad
    /\ listing' = [listing EXCEPT ![l] = NoLoad]
    /\ UNCHANGED <<rules, alone, mintPage, list, form, save, saves, touched, dropped>>

Saving == save # NoForm

Edit(c) ==
    /\ list # NoForm /\ form = NoForm
    /\ c \in DOMAIN list.rules
    /\ form' = [of |-> c, fee |-> list.rules[c].fee]
    /\ touched' = (touched \/ Saving)
    /\ UNCHANGED <<rules, alone, mintPage, list, listing, save, saves, dropped>>

\* The inputs are not disabled during a save.
Change(f) ==
    /\ form # NoForm /\ form.fee # f
    /\ form' = [form EXCEPT !.fee = f]
    /\ touched' = (touched \/ Saving)
    /\ UNCHANGED <<rules, alone, mintPage, list, listing, save, saves, dropped>>

\* Cancelar; a save that is under way goes on.
Cancel ==
    /\ form # NoForm
    /\ form' = NoForm
    /\ touched' = (touched \/ Saving)
    /\ UNCHANGED <<rules, alone, mintPage, list, listing, save, saves, dropped>>

\* Mutant: what the list has is sent and not the draft.
SaveListed ==
    /\ form # NoForm /\ ~Saving /\ saves < MaxSaves
    /\ saves' = saves + 1
    /\ save' = [of |-> form.of, fee |-> list.rules[form.of].fee, at |-> "sent"]
    /\ touched' = FALSE
    /\ UNCHANGED <<rules, alone, mintPage, list, listing, form, dropped>>

\* The whole draft is sent; Guardar cambios is disabled until the answer.
Save ==
    /\ form # NoForm /\ ~Saving /\ saves < MaxSaves
    /\ saves' = saves + 1
    /\ save' = [of |-> form.of, fee |-> form.fee, at |-> "sent"]
    /\ touched' = FALSE
    /\ UNCHANGED <<rules, alone, mintPage, list, listing, form, dropped>>

WriteRule ==
    /\ Saving /\ save.at = "sent"
    /\ rules' = [rules EXCEPT ![save.of] = [fee |-> save.fee, change |-> @.change + 1]]
    /\ save' = [save EXCEPT !.at = "written"]
    /\ UNCHANGED <<alone, mintPage, list, listing, form, saves, touched, dropped>>

\* What is closed was not what was saved.
Lost == form # NoForm /\ (form.of # save.of \/ form.fee # save.fee)

\* Whatever form is open closes, and the list is read again.
EndSave(l) ==
    /\ Saving /\ save.at = "written"
    /\ listing[l] = NoLoad
    /\ listing' = [listing EXCEPT ![l] = [at |-> "sent"]]
    /\ dropped' = (dropped \/ (Lost /\ ~touched))
    /\ form' = NoForm /\ save' = NoForm
    /\ UNCHANGED <<rules, alone, mintPage, list, saves, touched>>

\* An error, or no answer: the form stays.
FailSave ==
    /\ Saving
    /\ save' = NoForm
    /\ UNCHANGED <<rules, alone, mintPage, list, listing, form, saves, touched, dropped>>

Next ==
    \/ \E l \in Loads :
          \/ \E c \in Countries : ChooseCountry(c, l)
          \/ ReadRule(l) \/ LandRule(l) \/ LoseRule(l)
          \/ ReadList(l) \/ LandList(l) \/ LoseList(l) \/ EndSave(l)
    \/ \E m \in Mints : Submit(m) \/ Charge(m) \/ ShowResult(m) \/ ShowError(m)
    \/ \E c \in Countries : Edit(c)
    \/ \E f \in Fees : Change(f)
    \/ Cancel \/ Save \/ WriteRule \/ FailSave

Spec == Init /\ [][Next]_consoleVars

-----------------------------------------------------------------------------
(* What the operators are shown, and what becomes of what they type.       *)

\* The fee shown when the button was pressed is the fee that was charged, unless the
\* rule was changed in between; and another country's rule is shown only while the
\* right one is being read, after a reading failed, or after two crossed
\* (mint/page.tsx lines 64-74, 118-128, 187-200; api/admin/mint/route.ts line 110).
PriceShown ==
    \A m \in Mints : mint[m].at \in {"charged", "shown"} /\ ~mint[m].excused =>
        /\ mint[m].shown.of = mint[m].of
        /\ \/ mint[m].shown.rule.fee = mint[m].by.fee
           \/ mint[m].shown.rule.change < mint[m].by.change

\* The answer to a save closes the form; it takes another draft with it than the one
\* saved only if the operator went on editing meanwhile (commission/page.tsx lines
\* 88-131, where nothing but the button is disabled).
EditsKept == ~dropped

\* The list has every country's rule, or one was created alone before the list was
\* first read, after which the others are created only when they are used
\* (commission-config.ts lines 141-147, 154-165).
ListWhole == list # NoForm => DOMAIN list.rules = Countries \/ alone

=============================================================================
