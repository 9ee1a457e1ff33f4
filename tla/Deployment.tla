------------------------------ MODULE Deployment ------------------------------
(***************************************************************************)
(* How the coins come to be: MondegaFactory of MondegaCoin.sol, which      *)
(* makes one contract per code, and the three scripts that call it         *)
(* (blockchain/scripts): deploy.ts makes a factory and every coin of its   *)
(* list, deploy-resume.ts goes on with what a factory lacks of the first   *)
(* coins, deploy-remaining.ts makes the last ones and goes on after an     *)
(* error.  Each writes a file of addresses when it is through; the         *)
(* services read the addresses from there.                                 *)
(*                                                                         *)
(* A run may stop anywhere; a transaction that was sent is mined all the   *)
(* same.  A node may answer from an older block than the one that has the  *)
(* coin.  deploy-resume.ts and deploy-remaining.ts name a factory each.    *)
(***************************************************************************)
EXTENDS Integers, Sequences, SequencesExt

CONSTANTS
    CoinList,      \* COINS, in order
    PhaseOne,      \* PHASE_1_COINS: its beginning
    Remaining,     \* REMAINING_COINS: its end
    Asked,         \* the code deploy-remaining.ts asks its factory for
    Factory,       \* FACTORY_ADDRESS of the two scripts that have one
    Runs,
    MaxFactories,
    MaxStops       \* bound: runs stopped, calls that fail, answers from an older block

Codes == ToSet(CoinList)
Factories == 1..MaxFactories

VARIABLES
    coins,     \* per factory and code: the address of the coin, 0 for none
    made,      \* factories
    minted,    \* coin contracts made so far; the last is at this address
    pending,   \* transactions that are not mined: run, factory and code
    run,
    files,     \* every file of addresses a run has written
    stops

deployVars == <<coins, made, minted, pending, run, files, stops>>

NoRun == [script |-> "none"]

Init ==
    /\ coins = [f \in Factories |-> [c \in Codes |-> 0]]
    /\ made = 0 /\ minted = 0
    /\ pending = {}
    /\ run = [r \in Runs |-> NoRun]
    /\ files = {}
    /\ stops = 0

Mishap == stops < MaxStops /\ stops' = stops + 1

Is(r, script) == run[r].script = script

Step(r, step) == run[r].script # "none" /\ run[r].step = step

\* The coin a run is at.
Code(r) == Head(run[r].left)

Nothing == [c \in Codes |-> 0]

-----------------------------------------------------------------------------
(* The beginning of a script.                                              *)

StartDeploy(r) ==
    /\ run[r] = NoRun /\ made < MaxFactories
    /\ made' = made + 1
    /\ run' = [run EXCEPT ![r] = [script |-> "deploy", step |-> "next", factory |-> made + 1,
                                  left |-> CoinList, deployed |-> Nothing, event |-> 0]]
    /\ UNCHANGED <<coins, minted, pending, files, stops>>

StartResume(r) ==
    /\ run[r] = NoRun /\ made >= Factory["resume"]
    /\ run' = [run EXCEPT ![r] = [script |-> "resume", step |-> "next", factory |-> Factory["resume"],
                                  left |-> PhaseOne, deployed |-> Nothing, event |-> 0]]
    /\ UNCHANGED <<coins, made, minted, pending, files, stops>>

\* The addresses of the other coins stand in the script, but for one; when that
\* one is not found the script goes on without it.
StartRemaining(r) ==
    LET there   == coins[Factory["remaining"]]
        written == Codes \ (ToSet(Remaining) \cup {Asked})
    IN  /\ run[r] = NoRun /\ made >= Factory["remaining"]
        /\ \A c \in written : there[c] > 0
        /\ \E told \in SUBSET {Asked} :
              /\ IF told = {} /\ there[Asked] > 0 THEN Mishap ELSE UNCHANGED stops
              /\ run' = [run EXCEPT ![r] =
                    [script |-> "remaining", step |-> "next", factory |-> Factory["remaining"],
                     left |-> Remaining, event |-> 0,
                     deployed |-> [c \in Codes |-> IF c \in written \cup told THEN there[c] ELSE 0]]]
        /\ UNCHANGED <<coins, made, minted, pending, files>>

-----------------------------------------------------------------------------
(* The loop over the coins.                                                *)

Goto(r, step) == run' = [run EXCEPT ![r].step = step]

Onward(w) == [w EXCEPT !.left = Tail(w.left), !.step = "next"]

\* The run has the address of the coin and goes on.
Record(r, address) ==
    run' = [run EXCEPT ![r] = [Onward(run[r]) EXCEPT !.deployed[Code(r)] = address]]

Skip(r) == run' = [run EXCEPT ![r] = Onward(run[r])]

\* tryGetCoin: resume asks first.
Existing(r) ==
    /\ Step(r, "next") /\ run[r].left # <<>> /\ Is(r, "resume")
    /\ coins[run[r].factory][Code(r)] > 0
    /\ Record(r, coins[run[r].factory][Code(r)])
    /\ UNCHANGED <<coins, made, minted, pending, files, stops>>

\* Mutant: an error in deploy or resume is passed over, too.
FailAndGoOn(r) == Skip(r)

Fail(r) == IF Is(r, "remaining") THEN Skip(r) ELSE Goto(r, "failed")

\* Resume sends when it is told of no coin, the others at once; that there is one
\* keeps a transaction from being sent, unless the node does not know it yet.
Send(r) ==
    /\ Step(r, "next") /\ run[r].left # <<>>
    /\ IF coins[run[r].factory][Code(r)] > 0 THEN Mishap ELSE UNCHANGED stops
    /\ pending' = pending \cup {<<r, run[r].factory, Code(r)>>}
    /\ Goto(r, "waiting")
    /\ UNCHANGED <<coins, made, minted, files>>

SendFails(r) ==
    /\ Step(r, "next") /\ run[r].left # <<>>
    /\ IF coins[run[r].factory][Code(r)] > 0 THEN ~Is(r, "resume") /\ UNCHANGED stops ELSE Mishap
    /\ Fail(r)
    /\ UNCHANGED <<coins, made, minted, pending, files>>

\* Mutant: a code that has a coin gets another.
MayDeployAgain(f, c) == f \in Factories /\ c \in Codes

\* deployCoin of the factory.
MayDeploy(f, c) == coins[f][c] = 0

Waits(r, c) == Step(r, "waiting") /\ Code(r) = c

Mined(r, f, c) ==
    /\ MayDeploy(f, c)
    /\ pending' = pending \ {<<r, f, c>>}
    /\ minted' = minted + 1
    /\ coins' = [coins EXCEPT ![f][c] = minted + 1]
    /\ run' = IF Waits(r, c)
              THEN [run EXCEPT ![r] = [@ EXCEPT !.step = "mined", !.event = minted + 1]]
              ELSE run
    /\ UNCHANGED <<made, files, stops>>

Reverted(r, f, c) ==
    /\ ~MayDeploy(f, c)
    /\ pending' = pending \ {<<r, f, c>>}
    /\ IF Waits(r, c) THEN Fail(r) ELSE UNCHANGED run
    /\ UNCHANGED <<coins, made, minted, files, stops>>

\* Resume and remaining take the address from the event, deploy asks the factory.
TakeAddress(r) ==
    /\ Step(r, "mined")
    /\ Record(r, IF Is(r, "deploy") THEN coins[run[r].factory][Code(r)] ELSE run[r].event)
    /\ UNCHANGED <<coins, made, minted, pending, files, stops>>

\* getCoin reverts in an older block; an event can be missing from the receipt
\* and its fallback fail the same way.
NoAddress(r) ==
    /\ Step(r, "mined")
    /\ Mishap
    /\ Fail(r)
    /\ UNCHANGED <<coins, made, minted, pending, files>>

-----------------------------------------------------------------------------
WriteFile(r) ==
    /\ Step(r, "next") /\ run[r].left = <<>>
    /\ files' = files \cup {[by |-> run[r].script, factory |-> run[r].factory, coin |-> run[r].deployed]}
    /\ Goto(r, "written")
    /\ UNCHANGED <<coins, made, minted, pending, stops>>

\* The script is interrupted.
Stop(r) ==
    /\ run[r].script # "none" /\ run[r].step \in {"next", "waiting", "mined"}
    /\ Mishap
    /\ Goto(r, "failed")
    /\ UNCHANGED <<coins, made, minted, pending, files>>

Next ==
    \/ \E r \in Runs :
          \/ StartDeploy(r) \/ StartResume(r) \/ StartRemaining(r)
          \/ Existing(r) \/ Send(r) \/ SendFails(r)
          \/ TakeAddress(r) \/ NoAddress(r) \/ WriteFile(r) \/ Stop(r)
    \/ \E r \in Runs, f \in Factories, c \in Codes :
          <<r, f, c>> \in pending /\ (Mined(r, f, c) \/ Reverted(r, f, c))

Spec == Init /\ [][Next]_deployVars

-----------------------------------------------------------------------------
(* What the services may rely on when they read a file of addresses.       *)

\* Every address of every file is the coin its factory has under that code, then
\* and later, whatever was deployed again, stopped or repeated meanwhile
\* (MondegaCoin.sol lines 207-231, deploy-resume.ts lines 67-125,
\* deploy-remaining.ts lines 39-98).
AddressesHold ==
    \A f \in files : \A c \in Codes : f.coin[c] > 0 => coins[f.factory][c] = f.coin[c]

\* A file that deploy has written names every coin, and one of resume those it was
\* to go on with; one of remaining may lack a coin it could not make or find, and
\* says nothing of it (deploy.ts lines 103-133, deploy-resume.ts lines 113-141).
FilesComplete ==
    \A f \in files :
        /\ f.by = "deploy" => \A c \in Codes : f.coin[c] > 0
        /\ f.by = "resume" => \A c \in ToSet(PhaseOne) : f.coin[c] > 0

\* The addresses the services are given are the coins', and no coin is left out.
FilesHold == AddressesHold /\ FilesComplete

=============================================================================
