------------------------------- MODULE MiniPay -------------------------------
(***************************************************************************)
(* The page for the MiniPay wallet (app/minipay/page.tsx) with its helpers *)
(* (lib/minipay.ts): it connects to the wallet in the browser, shows the   *)
(* balance the chain reports and sends MEXCOIN.                            *)
(*                                                                         *)
(* Connecting, reading the balance and sending each wait for the wallet or *)
(* the chain, and the page goes on meanwhile: an answer may find another   *)
(* screen than the one that asked.  The user means to send one payment and *)
(* asks for no other once the page has told him that it was sent.          *)
(* Amounts are left out: the page compares the amount with the balance it  *)
(* shows, and the chain has the last word.                                 *)
(***************************************************************************)
EXTENDS Integers, FiniteSets

CONSTANTS
    Accounts,    \* the accounts of the wallet, of which it offers one at a time
    Nobody,
    Calls,       \* bound: connections and balance readings
    Sends        \* bound: presses of the button

VARIABLES
    config,      \* is there a wallet, and is the contract's address configured?
    view, address, balanceOf, successHash,
    screen,      \* the form's tx.status
    opening,     \* per call of initialize, handleConnect or refreshBalance
    send,        \* per call of handleSend: its progress, and whether its form is still shown
    told,        \* history: the user has left the success screen
    sent,        \* history: payments the wallet sent
    misled,      \* history: payments reported as failed, not reported, or left under way
    clicked      \* history: Conectar was pressed while another call was under way

miniVars == <<config, view, address, balanceOf, successHash, screen, opening, send,
              told, sent, misled, clicked>>

NoCall == [step |-> "none", account |-> Nobody]
NoSend == [at |-> "none", shown |-> FALSE]

Init ==
    /\ config \in [wallet : BOOLEAN, deployed : BOOLEAN]
    /\ view = "loading" /\ address = Nobody /\ balanceOf = Nobody /\ successHash = FALSE
    /\ screen = "idle"
    /\ opening = [c \in Calls |-> NoCall]
    /\ send = [s \in Sends |-> NoSend]
    /\ told = FALSE /\ sent = 0 /\ misled = 0 /\ clicked = FALSE

connecting == <<config, address, balanceOf, opening, clicked>>
paying == <<successHash, screen, send, told, sent, misled>>

\* The form leaves the page, and the payment it waits for is no longer waited for.
Unmount ==
    /\ screen' = "idle"
    /\ send' = [s \in Sends |-> [send[s] EXCEPT !.shown = FALSE]]
    /\ misled' = misled + Cardinality({s \in Sends : send[s].shown /\ send[s].at \in {"asked", "sent"}})

\* setView.
Show(v) ==
    /\ view' = v
    /\ IF view = "send" /\ v # "send" THEN Unmount ELSE UNCHANGED <<screen, send, misled>>

-----------------------------------------------------------------------------
(* Connecting.                                                             *)

Idle == \A c \in Calls : opening[c].step = "none"

Begin(c, step, a) ==
    /\ opening[c] = NoCall
    /\ opening' = [opening EXCEPT ![c] = [step |-> step, account |-> a]]

\* initialize, when the page is opened: without a wallet or an account it waits for the user.
Initialize(c) ==
    /\ view = "loading" /\ Idle
    /\ \/ config.wallet /\ Begin(c, "connecting", Nobody) /\ UNCHANGED view
       \/ view' = (IF config.wallet THEN "connect" ELSE "no-wallet") /\ UNCHANGED opening
    /\ UNCHANGED <<config, address, balanceOf, clicked, paying>>

\* The button is enabled again at once: onConnect is not awaited.
ClickConnect(c) ==
    /\ view = "connect"
    /\ Begin(c, "connecting", Nobody)
    /\ clicked' = (clicked \/ ~Idle)
    /\ UNCHANGED <<config, view, address, balanceOf, paying>>

\* The user refuses the wallet's question.
ConnectRefused(c) ==
    /\ opening[c].step = "connecting" /\ view # "loading"
    /\ opening' = [opening EXCEPT ![c] = NoCall]
    /\ UNCHANGED <<config, view, address, balanceOf, clicked, paying>>

WrongNetwork(c) ==
    /\ opening[c].step = "connecting"
    /\ opening' = [opening EXCEPT ![c] = NoCall]
    /\ Show("wrong-network")
    /\ UNCHANGED <<config, address, balanceOf, clicked, successHash, told, sent>>

\* Mutant: the dashboard is shown before the balance is read.
ConnectedEarly(c, a) ==
    /\ opening[c].step = "connecting"
    /\ address' = a
    /\ opening' = [opening EXCEPT ![c] = IF config.deployed THEN [step |-> "opening", account |-> a]
                                                            ELSE NoCall]
    /\ Show("dashboard")
    /\ UNCHANGED <<config, balanceOf, clicked, successHash, told, sent>>

\* The wallet names an account and is on Celo.  Without a contract there is no
\* balance to read.
Connected(c, a) ==
    /\ opening[c].step = "connecting"
    /\ address' = a
    /\ IF config.deployed
       THEN /\ opening' = [opening EXCEPT ![c] = [step |-> "opening", account |-> a]]
            /\ UNCHANGED <<view, screen, send, misled>>
       ELSE opening' = [opening EXCEPT ![c] = NoCall] /\ Show("dashboard")
    /\ UNCHANGED <<config, balanceOf, clicked, successHash, told, sent>>

\* The balance arrives, or "0.00" in place of an error.  A call that connected shows the
\* dashboard, whatever is on the page by now.
LandBalance(c) ==
    /\ opening[c].step \in {"opening", "refreshing"}
    /\ balanceOf' = opening[c].account
    /\ opening' = [opening EXCEPT ![c] = NoCall]
    /\ IF opening[c].step = "opening" THEN Show("dashboard") ELSE UNCHANGED <<view, screen, send, misled>>
    /\ UNCHANGED <<config, address, clicked, successHash, told, sent>>

-----------------------------------------------------------------------------
(* The dashboard, and the success screen that takes its place.             *)

Dashboard == view = "dashboard" /\ config.deployed /\ ~successHash

Refresh(c) ==
    /\ Dashboard
    /\ Begin(c, "refreshing", address)
    /\ UNCHANGED <<config, view, address, balanceOf, clicked, paying>>

OpenSend ==
    /\ Dashboard
    /\ view' = "send"
    /\ UNCHANGED <<connecting, paying>>

\* Volver al balance.
Done(c) ==
    /\ view = "dashboard" /\ successHash
    /\ successHash' = FALSE /\ told' = TRUE
    /\ Begin(c, "refreshing", address)
    /\ UNCHANGED <<config, view, address, balanceOf, clicked, screen, send, sent, misled>>

-----------------------------------------------------------------------------
(* Sending.                                                                *)

Back ==
    /\ view = "send"
    /\ Show("dashboard")
    /\ UNCHANGED <<connecting, successHash, told, sent>>

\* Mutant: the button is not disabled while a payment is under way.
MayPressAgain == view = "send" /\ ~told

MayPress == view = "send" /\ screen # "pending" /\ ~told

\* More than the balance shown.
Insufficient ==
    /\ MayPress
    /\ screen' = "error"
    /\ UNCHANGED <<connecting, view, successHash, send, told, sent, misled>>

Press(s) ==
    /\ MayPress
    /\ send[s] = NoSend
    /\ send' = [send EXCEPT ![s] = [at |-> "asked", shown |-> TRUE]]
    /\ screen' = "pending"
    /\ UNCHANGED <<connecting, view, successHash, told, sent, misled>>

\* The user confirms in his wallet, which sends the transaction.
WalletSends(s) ==
    /\ send[s].at = "asked"
    /\ send' = [send EXCEPT ![s].at = "sent"]
    /\ sent' = sent + 1
    /\ UNCHANGED <<connecting, view, successHash, screen, told, misled>>

\* A hash: the form's button is enabled again and nothing is said; the success
\* screen is under it.  A form that was left is opened again, empty.
Succeed(s) ==
    /\ send[s].at = "sent"
    /\ screen' = IF send[s].shown THEN "success" ELSE screen
    /\ misled' = IF send[s].shown THEN misled + 1 ELSE misled
    /\ successHash' = TRUE /\ view' = "send"
    /\ send' = [send EXCEPT ![s] = [at |-> "over", shown |-> FALSE]]
    /\ UNCHANGED <<connecting, told, sent>>

\* The wallet refuses, or its answer is lost: sendMexcoin returns null for either.
Fail(s) ==
    /\ send[s].at \in {"asked", "sent"}
    /\ screen' = IF send[s].shown THEN "error" ELSE screen
    /\ misled' = IF send[s].shown /\ send[s].at = "sent" THEN misled + 1 ELSE misled
    /\ send' = [send EXCEPT ![s] = [at |-> "over", shown |-> FALSE]]
    /\ UNCHANGED <<connecting, view, successHash, told, sent>>

Next ==
    \/ \E c \in Calls :
          \/ Initialize(c) \/ ClickConnect(c) \/ ConnectRefused(c) \/ WrongNetwork(c)
          \/ \E a \in Accounts : Connected(c, a)
          \/ LandBalance(c) \/ Refresh(c) \/ Done(c)
    \/ OpenSend \/ Back \/ Insufficient
    \/ \E s \in Sends : Press(s) \/ WalletSends(s) \/ Succeed(s) \/ Fail(s)

Spec == Init /\ [][Next]_miniVars

-----------------------------------------------------------------------------
(* What the user gets.                                                     *)

\* One payment is meant and one is sent; another only for each that was reported as
\* failed, not reported at all, or left under way (page.tsx lines 281-295, 360): the
\* success screen is behind the form and not in front of it (line 503).
SentOnce == sent <= 1 + misled

\* The balance beside an account is that account's, or Conectar was pressed again
\* before the first answer, which does not disable it (page.tsx lines 87-91, 469-479).
OwnBalanceShown ==
    view \in {"dashboard", "send"} /\ config.deployed => balanceOf = address \/ clicked

=============================================================================
