------------------------------ MODULE Treasury ------------------------------
(***************************************************************************)
(* The two contracts of the proof of concept: the prefunded vault          *)
(* (contracts/src/Treasury.sol) and the ERC-20 token it pays out of        *)
(* (contracts/src/MockEURC.sol).  Every external function is one action,   *)
(* because the EVM executes a transaction atomically; a call that reverts  *)
(* leaves the state as it was, so it is the absence of a step here.  The   *)
(* parts inherited from OpenZeppelin (Ownable, ERC20) are modelled from    *)
(* the way the two contracts use them.                                     *)
(***************************************************************************)
EXTENDS Integers, Sequences, FiniteSets, Functions

CONSTANTS
    Address,        \* every address, the zero address and the vault included
    ZeroAddress,    \* address(0)
    Vault,          \* address(this) of the Treasury
    Deployer,       \* msg.sender of both constructors
    Operator,       \* OPERATOR_ADDRESS of the deploy script, the zero address if unset
    PaymentId,      \* bytes32 payment identifiers
    Amount,         \* the amounts callers pass
    Prefund,        \* PREFUND_AMOUNT minted to the vault by the deploy script
    MaxSupply       \* type(uint256).max, the bound ERC20 puts on totalSupply

ASSUME AddressAssumption ==
    /\ IsFiniteSet(Address)
    /\ {ZeroAddress, Vault, Deployer, Operator} \subseteq Address
    /\ Vault # ZeroAddress
    /\ Deployer # ZeroAddress
    /\ Deployer # Vault

ASSUME AmountAssumption ==
    /\ Amount \subseteq Nat
    /\ Prefund \in Nat
    /\ MaxSupply \in Nat
    /\ Prefund <= MaxSupply

VARIABLES
    owner,          \* Ownable.owner() of each contract
    operators,      \* the addresses a of Treasury with operators[a] = true
    usedPaymentIds, \* the ids i of Treasury with usedPaymentIds[i] = true
    balanceOf,      \* MockEURC balances
    totalSupply,    \* MockEURC total supply
    payoutLog,      \* the PayoutExecuted events, in order
    netFunding      \* history: what minting, transfers and withdrawals put in the vault

vaultVars == <<owner, operators, usedPaymentIds, payoutLog, netFunding>>
tokenVars == <<balanceOf, totalSupply>>
vars == <<vaultVars, tokenVars>>

Contract == {"Treasury", "MockEURC"}
PayoutExecuted ==
    [paymentId : PaymentId, recipient : Address, amount : Amount, operator : Address]

-----------------------------------------------------------------------------

\* Both constructors run in the deployer's script, which then prefunds the vault
\* and adds the operator its environment names.
Init ==
    /\ owner = [c \in Contract |-> Deployer]
    /\ operators = {Deployer} \union ({Operator} \ {ZeroAddress})
    /\ usedPaymentIds = {}
    /\ balanceOf = [a \in Address |-> IF a = Vault THEN Prefund ELSE 0]
    /\ totalSupply = Prefund
    /\ payoutLog = <<>>
    /\ netFunding = Prefund

\* ERC20 balances after moving amount tokens; moving to oneself changes nothing.
Moved(from, to, amount) ==
    [[balanceOf EXCEPT ![from] = @ - amount] EXCEPT ![to] = @ + amount]

\* What a move to the given address takes out of the vault for good.
Outflow(to, amount) == IF to = Vault THEN 0 ELSE amount

MarkUsed(id) == usedPaymentIds' = usedPaymentIds \union {id}

\* SafeERC20.safeTransfer, called by the vault.
SafeTransfer(to, amount) ==
    /\ balanceOf[Vault] >= amount
    /\ to # ZeroAddress
    /\ balanceOf' = Moved(Vault, to, amount)
    /\ UNCHANGED totalSupply

\* The checks of payoutToUser without the idempotency check.
PayoutAllowedTwice(sender, id, to, amount) ==
    /\ sender \in operators
    /\ amount # 0
    /\ to # ZeroAddress
    /\ balanceOf[Vault] >= amount

\* The checks of payoutToUser that must all pass for the call not to revert.
PayoutAllowed(sender, id, to, amount) ==
    /\ sender \in operators
    /\ amount # 0
    /\ to # ZeroAddress
    /\ id \notin usedPaymentIds
    /\ balanceOf[Vault] >= amount

\* A payout that is logged but moves nothing.
PayoutToUserUnpaid(sender, id, to, amount) ==
    /\ PayoutAllowed(sender, id, to, amount)
    /\ MarkUsed(id)
    /\ payoutLog' = Append(payoutLog, [paymentId |-> id, recipient |-> to,
                                       amount |-> amount, operator |-> sender])
    /\ UNCHANGED <<owner, operators, netFunding, tokenVars>>

PayoutToUser(sender, id, to, amount) ==
    /\ PayoutAllowed(sender, id, to, amount)
    /\ MarkUsed(id)
    /\ SafeTransfer(to, amount)
    /\ payoutLog' = Append(payoutLog, [paymentId |-> id, recipient |-> to,
                                       amount |-> amount, operator |-> sender])
    /\ UNCHANGED <<owner, operators, netFunding>>

AddOperator(sender, operator) ==
    /\ sender = owner["Treasury"]
    /\ operator # ZeroAddress
    /\ operators' = operators \union {operator}
    /\ UNCHANGED <<owner, usedPaymentIds, payoutLog, netFunding, tokenVars>>

RemoveOperator(sender, operator) ==
    /\ sender = owner["Treasury"]
    /\ operators' = operators \ {operator}
    /\ UNCHANGED <<owner, usedPaymentIds, payoutLog, netFunding, tokenVars>>

Withdraw(sender, to, amount) ==
    /\ sender = owner["Treasury"]
    /\ to # ZeroAddress
    /\ amount # 0
    /\ SafeTransfer(to, amount)
    /\ netFunding' = netFunding - Outflow(to, amount)
    /\ UNCHANGED <<owner, operators, usedPaymentIds, payoutLog>>

\* MockEURC.mint; ERC20._update reverts when totalSupply would overflow.
Mint(sender, to, amount) ==
    /\ sender = owner["MockEURC"]
    /\ to # ZeroAddress
    /\ totalSupply + amount <= MaxSupply
    /\ balanceOf' = [balanceOf EXCEPT ![to] = @ + amount]
    /\ totalSupply' = totalSupply + amount
    /\ netFunding' = netFunding + (IF to = Vault THEN amount ELSE 0)
    /\ UNCHANGED <<owner, operators, usedPaymentIds, payoutLog>>

\* MockEURC.burn; the vault has no code that calls it.
Burn(sender, amount) ==
    /\ sender \notin {Vault, ZeroAddress}
    /\ balanceOf[sender] >= amount
    /\ balanceOf' = [balanceOf EXCEPT ![sender] = @ - amount]
    /\ totalSupply' = totalSupply - amount
    /\ UNCHANGED vaultVars

\* External: a holder other than the vault moves tokens, by transfer or transferFrom.
Transfer(sender, to, amount) ==
    /\ sender \notin {Vault, ZeroAddress}
    /\ to # ZeroAddress
    /\ balanceOf[sender] >= amount
    /\ balanceOf' = Moved(sender, to, amount)
    /\ netFunding' = netFunding + (IF to = Vault THEN amount ELSE 0)
    /\ UNCHANGED <<owner, operators, usedPaymentIds, payoutLog, totalSupply>>

\* External: Ownable.transferOwnership and renounceOwnership of either contract.
TransferOwnership(c, sender, newOwner) ==
    /\ sender = owner[c]
    /\ sender # ZeroAddress
    /\ owner' = [owner EXCEPT ![c] = newOwner]
    /\ UNCHANGED <<operators, usedPaymentIds, payoutLog, netFunding, tokenVars>>

Caller == Address \ {ZeroAddress, Vault}

Next ==
    \E sender \in Caller :
        \/ \E id \in PaymentId, to \in Address, amount \in Amount :
               PayoutToUser(sender, id, to, amount)
        \/ \E operator \in Address : AddOperator(sender, operator)
        \/ \E operator \in Address : RemoveOperator(sender, operator)
        \/ \E to \in Address, amount \in Amount : Withdraw(sender, to, amount)
        \/ \E to \in Address, amount \in Amount : Mint(sender, to, amount)
        \/ \E amount \in Amount : Burn(sender, amount)
        \/ \E to \in Address, amount \in Amount : Transfer(sender, to, amount)
        \/ \E c \in Contract, newOwner \in Address : TransferOwnership(c, sender, newOwner)

Spec == Init /\ [][Next]_vars

-----------------------------------------------------------------------------

(***************************************************************************)
(* Every variable holds a value the contracts' storage can hold: no        *)
(* sequence of calls makes a balance negative or the zero address an       *)
(* operator.  (The ERC20 subtracts from totalSupply unchecked; that it     *)
(* stays a natural number follows from VaultLedger.)                       *)
(***************************************************************************)
TypeOK ==
    /\ owner \in [Contract -> Address]
    /\ operators \subseteq Address \ {ZeroAddress}
    /\ usedPaymentIds \subseteq PaymentId
    /\ balanceOf \in [Address -> Nat]
    /\ totalSupply \in Int
    /\ payoutLog \in Seq(PayoutExecuted)
    /\ netFunding \in Int

(***************************************************************************)
(* "Idempotent: each payment ID can only be used once" (Treasury.sol): no  *)
(* two payouts ever carry the same id, whichever operators sent them and   *)
(* whatever recipient or amount they named.                                *)
(***************************************************************************)
OnePayoutPerId ==
    \A i, j \in 1..Len(payoutLog) :
        payoutLog[i].paymentId = payoutLog[j].paymentId => i = j

(***************************************************************************)
(* isPaymentIdUsed answers exactly "was this id paid": an id is marked     *)
(* used if and only if a PayoutExecuted event carries it, so a reverted    *)
(* payout never burns its id.                                              *)
(***************************************************************************)
UsedIffPaid ==
    usedPaymentIds = {payoutLog[i].paymentId : i \in 1..Len(payoutLog)}

\* What the i-th PayoutExecuted event took out of the vault.
PaidOut == [i \in DOMAIN payoutLog |-> Outflow(payoutLog[i].recipient, payoutLog[i].amount)]

(***************************************************************************)
(* The vault's books balance: what it holds is what minting, transfers and *)
(* withdrawals put in it, less the amounts of the PayoutExecuted events    *)
(* that went to anyone but the vault itself.  Nothing else moves its       *)
(* tokens, and no payout, withdrawal or transfer of anybody's creates or   *)
(* destroys any.                                                           *)
(***************************************************************************)
VaultLedger ==
    /\ balanceOf[Vault] = netFunding - SumFunction(PaidOut)
    /\ totalSupply = SumFunction(balanceOf)
=============================================================================
