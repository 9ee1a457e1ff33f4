------------------------------ MODULE SendPage ------------------------------
(***************************************************************************)
(* One visit of a user of the ledger to the page that sends coins          *)
(* (app/(app)/send with components/send), and the routes it calls          *)
(* (api/wallet/resolve-recipient and api/wallet/transfer).                 *)
(*                                                                         *)
(* A number that is typed is looked up when the field is left, and the     *)
(* page does not wait: the answer may find another number in the field,    *)
(* another answer before it, or a later step.  Whom the coins go to is     *)
(* whoever was found last; when nobody was, the route takes it for a       *)
(* transfer to oneself, and none of those can be booked.  The form can be  *)
(* changed while the transfer is under way (the dialogue that asks for the *)
(* PIN can be closed, so it is left out), and the voucher is made from the *)
(* form.  What a transfer is worth is module Swap's, whether it is         *)
(* confirmed twice module Pages'.                                          *)
(***************************************************************************)
EXTENDS Integers

CONSTANTS
    Phones, OwnerOf,    \* numbers, and whose each is: a user, the sender or Nobody
    Demos,              \* the numbers the page knows by itself
    Sender, Nobody,
    Empty,              \* the field without a number
    Coins, Amounts,
    LookUps, Transfers

VARIABLES
    step,
    text,       \* the field, and whether it has the focus
    focused,
    info,       \* recipientInfo: whom the coins will go to
    lookUp,     \* per look-up: the number it was asked for, Empty when it is not under way
    fields,     \* the amount and the two coins
    quote,
    loading,
    transfer,   \* per transfer: what was posted and what became of it
    paidBy,     \* the transfer whose answer showed the voucher
    astray,     \* history: info was found for another number than the one in the field
    touched     \* history: the form changed after the confirmation, or under the voucher

sendPageVars == <<step, text, focused, info, lookUp, fields, quote, loading, transfer,
                  paidBy, astray, touched>>

NoQuote == [amount |-> 0]
Unsent  == [at |-> "unsent"]

Init ==
    /\ step = "recipient" /\ text = Empty /\ focused = FALSE /\ info = Nobody
    /\ lookUp = [l \in LookUps |-> Empty]
    /\ \E c \in Coins : fields = [amount |-> 0, from |-> c, to |-> c]
    /\ quote = NoQuote /\ loading = FALSE
    /\ transfer = [t \in Transfers |-> Unsent]
    /\ paidBy = Nobody /\ astray = FALSE /\ touched = FALSE

\* Whether what the voucher is made from is another than it was.
Touches == touched' = (touched \/ ((loading \/ step = "success")
                                   /\ <<text, info, fields, quote>>' # <<text, info, fields, quote>>))

payment == <<loading, transfer, paidBy>>

-----------------------------------------------------------------------------
(* The recipient.                                                          *)

DemoOwner(number) == IF number \in Demos THEN OwnerOf[number] ELSE Nobody

\* Mutant: whom an earlier number belonged to is kept.
TypeNumberOver(number) ==
    /\ step = "recipient" /\ number # text
    /\ text' = number /\ focused' = TRUE
    /\ info' = IF number \in Demos THEN OwnerOf[number] ELSE info
    /\ astray' = FALSE
    /\ UNCHANGED <<step, lookUp, fields, quote, payment>>
    /\ Touches

\* What was found before is forgotten.
TypeNumber(number) ==
    /\ step = "recipient" /\ number # text
    /\ text' = number /\ focused' = TRUE
    /\ info' = DemoOwner(number)
    /\ astray' = FALSE
    /\ UNCHANGED <<step, lookUp, fields, quote, payment>>
    /\ Touches

\* The field is left: the number is looked up, unless the page knows it or there is none.
Blur(l) ==
    /\ step = "recipient" /\ focused /\ focused' = FALSE
    /\ IF text = Empty \/ text \in Demos
       THEN info' = DemoOwner(text) /\ astray' = FALSE /\ UNCHANGED lookUp
       ELSE lookUp[l] = Empty /\ lookUp' = [lookUp EXCEPT ![l] = text] /\ UNCHANGED <<info, astray>>
    /\ UNCHANGED <<step, text, fields, quote, payment>>
    /\ Touches

\* One of the demonstration users is clicked; the field was left before.
Pick(number) ==
    /\ step = "recipient" /\ ~focused
    /\ number \in Demos
    /\ text' = number /\ info' = OwnerOf[number] /\ astray' = FALSE
    /\ UNCHANGED <<step, focused, lookUp, fields, quote, payment>>
    /\ Touches

\* The answer, whatever is in the field by now: the route finds active users and not
\* the sender, and an error finds nobody.
Land(l) ==
    /\ lookUp[l] # Empty
    /\ \/ info' = OwnerOf[lookUp[l]] /\ info' # Sender
       \/ info' = Nobody
    /\ astray' = (lookUp[l] # text)
    /\ lookUp' = [lookUp EXCEPT ![l] = Empty]
    /\ UNCHANGED <<step, text, focused, fields, quote, payment>>
    /\ Touches

\* The button asks for a number, not for somebody who has it.
Continue ==
    /\ step = "recipient" /\ text # Empty /\ ~focused
    /\ step' = "amount"
    /\ UNCHANGED <<text, focused, info, lookUp, fields, quote, payment, astray, touched>>

-----------------------------------------------------------------------------
(* The amount and the quote.                                               *)

Fill(new) ==
    /\ step = "amount" /\ new # fields
    /\ fields' = new
    /\ UNCHANGED <<step, text, focused, info, lookUp, quote, payment, astray>>
    /\ Touches

\* Mutant: a quote that is there is kept.
GetFirstQuote ==
    /\ step = "amount" /\ fields.amount > 0
    /\ quote' = IF quote = NoQuote THEN fields ELSE quote
    /\ step' = "quote"
    /\ UNCHANGED <<text, focused, info, lookUp, fields, payment, astray>>
    /\ Touches

GetQuote ==
    /\ step = "amount" /\ fields.amount > 0
    /\ quote' = fields /\ step' = "quote"
    /\ UNCHANGED <<text, focused, info, lookUp, fields, payment, astray>>
    /\ Touches

\* Modificar.
Modify ==
    /\ step = "quote" /\ quote # NoQuote
    /\ step' = "amount" /\ quote' = NoQuote
    /\ UNCHANGED <<text, focused, info, lookUp, fields, payment, astray>>
    /\ Touches

\* The arrow: the quote is kept.
Back ==
    /\ step # "recipient"
    /\ step' = IF step = "quote" THEN "amount" ELSE "recipient"
    /\ UNCHANGED <<text, focused, info, lookUp, fields, quote, payment, astray, touched>>

-----------------------------------------------------------------------------
(* The transfer.                                                           *)

\* What the card and the voucher call the recipient.
Name == IF info = Nobody THEN text ELSE info

MayConfirm(t) == step = "quote" /\ quote # NoQuote /\ ~loading /\ transfer[t] = Unsent

\* executeTransfer posts whom was found, the coins of the form and the amount of the
\* quote.  number, wanted and astray are history: what the form had.
Confirm(t) ==
    /\ MayConfirm(t)
    /\ transfer' = [transfer EXCEPT ![t] =
          [at |-> "asked", to |-> info, name |-> Name,
           what |-> [fields EXCEPT !.amount = quote.amount],
           number |-> text, wanted |-> fields, astray |-> astray]]
    /\ loading' = TRUE /\ touched' = FALSE
    /\ UNCHANGED <<step, text, focused, info, lookUp, fields, quote, paidBy, astray>>

form == <<step, text, focused, info, lookUp, fields, quote, paidBy, astray, touched>>

\* Mutant: a posting to nobody goes through.
BookableAny(t) == TRUE

\* The route: without a recipient, or to oneself, the sender would get the coins, but the
\* entries then have no counterparty, and the store refuses a field without a value.
Bookable(t) == transfer[t].to \notin {Nobody, Sender}

\* What is said of it may be lost or be an error all the same.
Book(t) ==
    /\ transfer[t].at = "asked" /\ Bookable(t)
    /\ transfer' = [transfer EXCEPT ![t].at = "booked"]
    /\ UNCHANGED <<form, loading>>

\* A limit, the funds, a posting to oneself, or an error.
Refuse(t) ==
    /\ transfer[t].at = "asked"
    /\ transfer' = [transfer EXCEPT ![t].at = "refused"]
    /\ UNCHANGED <<form, loading>>

Answer(t) ==
    /\ transfer' = [transfer EXCEPT ![t].at = IF @ = "booked" THEN "done" ELSE "failed"]
    /\ loading' = FALSE

Fail(t) ==
    /\ transfer[t].at \in {"booked", "refused"}
    /\ Answer(t)
    /\ UNCHANGED form

\* Mutant: the form is cleared before the voucher is shown.
SucceedAndClear(t) ==
    /\ transfer[t].at = "booked"
    /\ Answer(t)
    /\ step' = "success" /\ paidBy' = t /\ info' = Nobody
    /\ UNCHANGED <<text, focused, lookUp, fields, quote, astray, touched>>

\* The coins of the form and the amount of the quote.
Voucher == [name |-> Name, what |-> [fields EXCEPT !.amount = quote.amount]]

\* Whatever step the page is at by now; without a quote nothing is shown.
Succeed(t) ==
    /\ transfer[t].at = "booked"
    /\ Answer(t)
    /\ step' = "success" /\ paidBy' = t
    /\ UNCHANGED <<text, focused, info, lookUp, fields, quote, astray, touched>>

Next ==
    \/ \E number \in Phones \cup {Empty} : TypeNumber(number)
    \/ \E number \in Demos : Pick(number)
    \/ \E l \in LookUps : Blur(l) \/ Land(l)
    \/ \E new \in [amount : Amounts, from : Coins, to : Coins] : Fill(new)
    \/ Continue \/ GetQuote \/ Modify \/ Back
    \/ \E t \in Transfers : Confirm(t) \/ Book(t) \/ Refuse(t) \/ Fail(t) \/ Succeed(t)

Spec == Init /\ [][Next]_sendPageVars

-----------------------------------------------------------------------------
(* What the user gets.                                                     *)

Booked == {t \in Transfers : transfer[t].at \in {"booked", "done"}}

\* Coins reach the one whose number was in the field, unless an answer for another
\* number had been taken for it (RecipientInput.tsx lines 42-65, 107-114); a number
\* nobody was found for sends nothing to anybody (transfer/route.ts lines 58-76).
ReachesWhomTyped ==
    \A t \in Booked : transfer[t].to = OwnerOf[transfer[t].number] \/ transfer[t].astray

\* The amount and the coins are those in the fields at the confirmation, however often
\* the user went back and forth (send/page.tsx lines 52-58, 80, 162).
SentAsFilled == \A t \in Booked : transfer[t].what = transfer[t].wanted

\* The voucher tells what was posted, unless the form changed while that was under way,
\* or a late answer to a look-up changes it under the user's eyes
\* (send/page.tsx lines 313, 320-345).
VoucherTells ==
    step = "success" /\ quote # NoQuote /\ ~touched =>
       Voucher = [name |-> transfer[paidBy].name, what |-> transfer[paidBy].what]

SentAsMeant == ReachesWhomTyped /\ SentAsFilled /\ VoucherTells

=============================================================================
