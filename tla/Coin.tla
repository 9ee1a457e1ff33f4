-------------------------------- MODULE Coin --------------------------------
(***************************************************************************)
(* The token contract MondegaCoin (blockchain/contracts/MondegaCoin.sol):  *)
(* an ERC-20 coin with roles, a blacklist, a pause switch and a supply cap.*)
(*                                                                         *)
(* Every action is one contract call that did not revert; a call that      *)
(* reverts changes nothing and is not a step.  What the contract inherits  *)
(* from OpenZeppelin (transfer, allowances, burn, the administration of    *)
(* roles) is public on it and therefore part of it.                        *)
(***************************************************************************)
EXTENDS Integers, FiniteSets

CONSTANTS
    Holders,     \* addresses, the zero address excluded
    treasury,    \* constructor arguments
    compliance,
    InitialCap,
    Values,      \* amounts a call may carry
    MaxUint,     \* type(uint256).max
    MaxCalls     \* bound: administrative and holder calls

ASSUME HoldersAssumption ==
    IsFiniteSet(Holders) /\ treasury \in Holders /\ compliance \in Holders

ASSUME NumbersAssumption ==
    /\ MaxUint \in Nat /\ MaxCalls \in Nat
    /\ Values \subseteq 0..MaxUint
    /\ InitialCap \in 0..MaxUint

VARIABLES balance, totalSupply, allowance, blacklisted, paused, maxSupply, roles, calls

coinVars == <<balance, totalSupply, allowance, blacklisted, paused, maxSupply, roles, calls>>

Roles == {"admin", "minter", "burner", "pauser", "compliance"}

Has(role, a) == <<role, a>> \in roles

\* The constructor.
CoinInit ==
    /\ balance = [a \in Holders |-> 0]
    /\ totalSupply = 0
    /\ allowance = [pair \in Holders \X Holders |-> 0]
    /\ blacklisted = {}
    /\ paused = FALSE
    /\ maxSupply = InitialCap
    /\ roles = ({"admin", "minter", "burner", "pauser"} \X {treasury})
                 \cup {<<"compliance", compliance>>}
    /\ calls = 0

Call ==
    /\ calls < MaxCalls
    /\ calls' = calls + 1

-----------------------------------------------------------------------------
(* _update is the one hook every movement goes through: the blacklist is   *)
(* looked at for each real address, ERC20Pausable refuses while paused.    *)

\* _balances, with less or more for one address.
Debited(of, a, amount)  == [of EXCEPT ![a] = @ - amount]
Credited(of, a, amount) == [of EXCEPT ![a] = @ + amount]

\* Mutant: a burn does not look at the blacklist.
OpenToMint(from, to) == ~paused /\ to \cap blacklisted = {}

\* from and to are the sets of real addresses on each side: a mint has no
\* sender, a burn no recipient.
MayMove(from, to) == ~paused /\ (from \cup to) \cap blacklisted = {}

\* The sum of the requirement is checked arithmetic, as is that of _update.
WithinCap(amount) ==
    /\ totalSupply + amount <= MaxUint
    /\ maxSupply = 0 \/ totalSupply + amount <= maxSupply

CanMint(sender, to, amount) ==
    /\ Has("minter", sender)
    /\ amount > 0
    /\ WithinCap(amount)
    /\ MayMove({}, {to})

MintTo(to, amount) ==
    /\ balance' = Credited(balance, to, amount)
    /\ totalSupply' = totalSupply + amount
    /\ UNCHANGED <<allowance, blacklisted, paused, maxSupply, roles>>

\* mint(to, amount, txRef), called by an address with the role.
Mint(sender, to, amount) ==
    /\ CanMint(sender, to, amount)
    /\ MintTo(to, amount)

\* _burn: the supply follows the balance.
BurnOf(from, amount) ==
    /\ MayMove({from}, {})
    /\ balance[from] >= amount
    /\ balance' = Debited(balance, from, amount)
    /\ totalSupply' = totalSupply - amount

\* burnFrom(from, amount, txRef): the treasury needs no allowance.
TreasuryBurn(sender, from, amount) ==
    /\ Call
    /\ Has("burner", sender)
    /\ amount > 0
    /\ BurnOf(from, amount)
    /\ UNCHANGED <<allowance, blacklisted, paused, maxSupply, roles>>

-----------------------------------------------------------------------------
(* Inherited from ERC20 and ERC20Burnable: open to every holder.           *)

Spend(owner, spender, amount) ==
    /\ allowance[<<owner, spender>>] >= amount
    /\ allowance' = IF allowance[<<owner, spender>>] = MaxUint
                    THEN allowance
                    ELSE [allowance EXCEPT ![<<owner, spender>>] = @ - amount]

\* Mutant: both balances are read before either is written.
MoveStale(from, to, amount) ==
    /\ MayMove({from}, {to})
    /\ balance[from] >= amount
    /\ balance' = [balance EXCEPT ![from] = @ - amount, ![to] = balance[to] + amount]

Move(from, to, amount) ==
    /\ MayMove({from}, {to})
    /\ balance[from] >= amount
    /\ balance' = Credited(Debited(balance, from, amount), to, amount)

Transfer(from, to, amount) ==
    /\ Call
    /\ Move(from, to, amount)
    /\ UNCHANGED <<totalSupply, allowance, blacklisted, paused, maxSupply, roles>>

TransferFrom(spender, from, to, amount) ==
    /\ Call
    /\ Spend(from, spender, amount)
    /\ Move(from, to, amount)
    /\ UNCHANGED <<totalSupply, blacklisted, paused, maxSupply, roles>>

Approve(owner, spender, amount) ==
    /\ Call
    /\ allowance' = [allowance EXCEPT ![<<owner, spender>>] = amount]
    /\ UNCHANGED <<balance, totalSupply, blacklisted, paused, maxSupply, roles>>

\* burn(value) and the two-argument burnFrom(account, value).
HolderBurn(holder, amount) ==
    /\ Call
    /\ BurnOf(holder, amount)
    /\ UNCHANGED <<allowance, blacklisted, paused, maxSupply, roles>>

SpenderBurn(spender, from, amount) ==
    /\ Call
    /\ Spend(from, spender, amount)
    /\ BurnOf(from, amount)
    /\ UNCHANGED <<blacklisted, paused, maxSupply, roles>>

-----------------------------------------------------------------------------
(* Compliance, emergency controls, administration.                         *)

Blacklist(sender, a) ==
    /\ Call
    /\ Has("compliance", sender)
    /\ blacklisted' = blacklisted \cup {a}
    /\ UNCHANGED <<balance, totalSupply, allowance, paused, maxSupply, roles>>

Unblacklist(sender, a) ==
    /\ Call
    /\ Has("compliance", sender)
    /\ blacklisted' = blacklisted \ {a}
    /\ UNCHANGED <<balance, totalSupply, allowance, paused, maxSupply, roles>>

\* pause() reverts when paused, unpause() when not.
SetPause(sender) ==
    /\ Call
    /\ Has("pauser", sender)
    /\ paused' = ~paused
    /\ UNCHANGED <<balance, totalSupply, allowance, blacklisted, maxSupply, roles>>

\* Mutant: any cap is accepted.
UpdateMaxSupplyUnchecked(sender, newMax) ==
    /\ Call
    /\ Has("admin", sender)
    /\ maxSupply' = newMax
    /\ UNCHANGED <<balance, totalSupply, allowance, blacklisted, paused, roles>>

UpdateMaxSupply(sender, newMax) ==
    /\ Call
    /\ Has("admin", sender)
    /\ newMax = 0 \/ newMax >= totalSupply
    /\ maxSupply' = newMax
    /\ UNCHANGED <<balance, totalSupply, allowance, blacklisted, paused, roles>>

\* AccessControl: the admin role grants and revokes every role, and anybody
\* renounces a role of his own.
GrantRole(sender, role, a) ==
    /\ Call
    /\ Has("admin", sender)
    /\ roles' = roles \cup {<<role, a>>}
    /\ UNCHANGED <<balance, totalSupply, allowance, blacklisted, paused, maxSupply>>

RevokeRole(sender, role, a) ==
    /\ Call
    /\ Has("admin", sender) \/ sender = a
    /\ roles' = roles \ {<<role, a>>}
    /\ UNCHANGED <<balance, totalSupply, allowance, blacklisted, paused, maxSupply>>

-----------------------------------------------------------------------------
\* Calls of the holders.
HolderStep ==
    \E a, b \in Holders, v \in Values :
       \/ Transfer(a, b, v) \/ Approve(a, b, v) \/ SpenderBurn(a, b, v)
       \/ a = b /\ HolderBurn(a, v)
       \/ \E c \in Holders : TransferFrom(a, b, c, v)

\* Calls of those who hold a role; minting is left to the module that does it.
RoleStep ==
    \E sender, a \in Holders :
       \/ \E v \in Values : TreasuryBurn(sender, a, v) \/ (a = sender /\ UpdateMaxSupply(sender, v))
       \/ Blacklist(sender, a) \/ Unblacklist(sender, a)
       \/ a = sender /\ SetPause(sender)
       \/ \E role \in Roles : GrantRole(sender, role, a) \/ RevokeRole(sender, role, a)

CoinStep ==
    \/ HolderStep
    \/ RoleStep
    \/ \E sender, to \in Holders, v \in Values : Call /\ Mint(sender, to, v)

=============================================================================
