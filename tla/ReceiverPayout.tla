--------------------------- MODULE ReceiverPayout ---------------------------
(***************************************************************************)
(* The receiver node of the proof of concept with the ethereum-payout      *)
(* feature: the STREAM receiver that fulfills a Prepare and spawns a       *)
(* detached payout task (interledger-stream/src/server.rs), the task       *)
(* itself, one step per await (interledger-stream/src/ethereum.rs), the    *)
(* operator account as the Ethereum node sees it (external: nonce, pending *)
(* pool, mining), and the Treasury contract the transactions call.         *)
(*                                                                         *)
(* Tasks interleave freely; the node may crash, which loses its tasks but  *)
(* not the pending transactions; a JSON-RPC request or its answer may be   *)
(* lost; the owner may drain the vault or revoke the operator meanwhile.   *)
(***************************************************************************)
EXTENDS EthereumDestination, Treasury

CONSTANTS
    Prepare,        \* the Prepare packets that may reach the receiver
    MaxReceived,    \* bound on the packets fulfilled in one behaviour
    MaxLiveTasks,   \* bound on the payout tasks running at once
    MaxRpcFailures, \* bound on lost JSON-RPC requests and answers
    MaxCrashes,     \* bound on node crashes
    MaxOwnerSteps   \* bound on the owner's interventions

VARIABLES
    tasks,          \* one entry per fulfilled packet: the payout task spawned for it
    mined,          \* number of the operator's mined transactions, its next nonce on chain
    pool,           \* the operator's pending transactions, the k-th has nonce mined + k - 1
    rpcFailures, crashes, ownerSteps

\* The payment id execute_payout computes for a packet.
IdOf(p) == GeneratePaymentId(p.destination, p.sequence)

chainVars == <<mined, pool, vars>>
boundVars == <<rpcFailures, crashes, ownerSteps>>
systemVars == <<tasks, chainVars, boundVars>>

\* The node sends from the operator of the deploy script.
ASSUME ReceiverAssumption ==
    /\ MaxReceived \in Nat
    /\ MaxLiveTasks \in Nat
    /\ MaxRpcFailures \in Nat
    /\ MaxCrashes \in Nat
    /\ MaxOwnerSteps \in Nat
    /\ Operator \notin {ZeroAddress, Vault}
    /\ \A p \in Prepare : p.amount \in Amount /\ p.minAmount \in Nat /\ IdOf(p) \in PaymentId

\* An account of the wallet issued the address: after a host part without the marker, the
\* marker, a chain and an asset name the wallet.
IssuedFor(parts, wallet) ==
    \E i \in 1..(Len(parts) - 3) :
        parts[i] = "eth" /\ parts[i + 3] = wallet /\ \A j \in 1..(i - 1) : parts[j] # "eth"

\* The SPSP server issues the addresses the packets carry.  One that is no account of a wallet
\* (an ordinary account, a malformed recipient) names no address of the chain.
ASSUME IssuerAssumption ==
    /\ NoDestination.recipient \notin Address
    /\ \A p \in Prepare : Parse(p.destination).recipient \in Address => IssuedFor(p.destination, p.wallet)

Running == {"spawned", "nonce", "ready"}
Ended == {"skipped", "sent", "already_processed", "failed", "lost"}
Task == [packet : Prepare, pc : Running \union Ended, nonce : Nat]

\* The call data execute_payout builds: payoutToUser(paymentId, recipient, amount).
TxOf(p) == [id |-> IdOf(p), recipient |-> Parse(p.destination).recipient,
            amount |-> p.amount]

Live == {i \in 1..Len(tasks) : tasks[i].pc \in Running}

-----------------------------------------------------------------------------

SystemInit ==
    /\ Init
    /\ tasks = <<>>
    /\ mined = 0
    /\ pool = <<>>
    /\ rpcFailures = 0
    /\ crashes = 0
    /\ ownerSteps = 0

\* receive_money: the packet decrypts under this server's secret, its condition is the one
\* the receiver derives, and at least the sender's minimum arrived.  Otherwise the packet is
\* forwarded or rejected with F99, and neither changes the receiver's state.
ReceiveMoney(p) ==
    /\ p.decrypts
    /\ p.fulfillable
    /\ p.amount >= p.minAmount

\* send_request: the Fulfill is returned at once, the payout runs in a detached task.
Fulfill(p) ==
    /\ Len(tasks) < MaxReceived
    /\ Cardinality(Live) < MaxLiveTasks
    /\ ReceiveMoney(p)
    /\ tasks' = Append(tasks, [packet |-> p, pc |-> "spawned", nonce |-> 0])
    /\ UNCHANGED <<chainVars, boundVars>>

Goto(i, pc) == tasks' = [tasks EXCEPT ![i].pc = pc]

\* maybe_execute_payout returns early: not an Ethereum destination.
Skip(i) ==
    /\ tasks[i].pc = "spawned"
    /\ ~ContainsEthMarker(tasks[i].packet.destination)
    /\ Goto(i, "skipped")
    /\ UNCHANGED <<chainVars, boundVars>>

\* execute_payout returns Err: the destination does not parse.
RefuseDestination(i) ==
    /\ tasks[i].pc = "spawned"
    /\ ContainsEthMarker(tasks[i].packet.destination)
    /\ Parse(tasks[i].packet.destination) = NoDestination
    /\ Goto(i, "failed")
    /\ UNCHANGED <<chainVars, boundVars>>

\* Wrong nonces: one past the next free one, the last one used, and the one of the
\* "latest" block, which ignores pending transactions.
PendingNonceAhead == mined + Len(pool) + 1
PendingNonceLatest == mined

\* get_nonce: eth_getTransactionCount of the operator at the "pending" block.
PendingNonce == mined + Len(pool)

\* A chain id other than the configured one is only logged, so it is no guard here.
GetNonce(i) ==
    /\ tasks[i].pc = "spawned"
    /\ ContainsEthMarker(tasks[i].packet.destination)
    /\ Parse(tasks[i].packet.destination) # NoDestination
    /\ tasks' = [tasks EXCEPT ![i] = [@ EXCEPT !.pc = "nonce", !.nonce = PendingNonce]]
    /\ UNCHANGED <<chainVars, boundVars>>

GetGasPrice(i) ==
    /\ tasks[i].pc = "nonce"
    /\ Goto(i, "ready")
    /\ UNCHANGED <<chainVars, boundVars>>

\* A JSON-RPC request is lost or answered with garbage: the task ends with a logged error.
RpcFailure(i) ==
    /\ tasks[i].pc \in Running
    /\ Parse(tasks[i].packet.destination) # NoDestination
    /\ rpcFailures < MaxRpcFailures
    /\ rpcFailures' = rpcFailures + 1
    /\ Goto(i, "failed")
    /\ UNCHANGED <<chainVars, crashes, ownerSteps>>

\* The answer to an accepted eth_sendTransaction reaches the task, or is lost.
Answered(i) ==
    \/ Goto(i, "sent") /\ UNCHANGED boundVars
    \/ /\ rpcFailures < MaxRpcFailures
       /\ rpcFailures' = rpcFailures + 1
       /\ Goto(i, "failed")
       /\ UNCHANGED <<crashes, ownerSteps>>

\* The Ethereum node rejects call data that is not hexadecimal.
WellFormed(i) == Parse(tasks[i].packet.destination).recipient \in Address

\* eth_sendTransaction with the next free nonce: the transaction joins the pending pool.
SendAccepted(i) ==
    /\ tasks[i].pc = "ready"
    /\ WellFormed(i)
    /\ tasks[i].nonce = mined + Len(pool)
    /\ pool' = Append(pool, TxOf(tasks[i].packet))
    /\ Answered(i)
    /\ UNCHANGED <<mined, vars>>

\* The nonce belongs to a pending transaction and the gas price rose since: it is replaced.
SendReplaces(i) ==
    /\ tasks[i].pc = "ready"
    /\ WellFormed(i)
    /\ tasks[i].nonce \in mined .. (mined + Len(pool) - 1)
    /\ pool' = [pool EXCEPT ![tasks[i].nonce - mined + 1] = TxOf(tasks[i].packet)]
    /\ Answered(i)
    /\ UNCHANGED <<mined, vars>>

\* "nonce too low", "replacement transaction underpriced" or malformed call data: an RPC
\* error that mentions neither "revert" nor "already processed".
SendRefused(i) ==
    /\ tasks[i].pc = "ready"
    /\ tasks[i].nonce < mined + Len(pool) \/ ~WellFormed(i)
    /\ Goto(i, "failed")
    /\ UNCHANGED <<chainVars, boundVars>>

\* The node simulates the call and reports the revert; send_raw_transaction takes any
\* revert for a payment already made.
SendReverts(i) ==
    /\ tasks[i].pc = "ready"
    /\ WellFormed(i)
    /\ LET tx == TxOf(tasks[i].packet)
       IN  ~PayoutAllowed(Operator, tx.id, tx.recipient, tx.amount)
    /\ Goto(i, "already_processed")
    /\ UNCHANGED <<chainVars, boundVars>>

\* External: the next block takes the operator's oldest transaction; it pays or reverts.
Mine ==
    /\ pool # <<>>
    /\ mined' = mined + 1
    /\ pool' = Tail(pool)
    /\ LET tx == Head(pool)
       IN  \/ PayoutToUser(Operator, tx.id, tx.recipient, tx.amount)
           \/ /\ ~PayoutAllowed(Operator, tx.id, tx.recipient, tx.amount)
              /\ UNCHANGED vars
    /\ UNCHANGED <<tasks, boundVars>>

\* The node dies and restarts: the detached tasks are gone, and nothing recorded them.
Crash ==
    /\ crashes < MaxCrashes
    /\ Live # {}
    /\ crashes' = crashes + 1
    /\ tasks' = [i \in 1..Len(tasks) |->
                    IF i \in Live THEN [tasks[i] EXCEPT !.pc = "lost"] ELSE tasks[i]]
    /\ UNCHANGED <<chainVars, rpcFailures, ownerSteps>>

\* The owner's interventions between two of the operator's transactions.
OwnerStep ==
    /\ ownerSteps < MaxOwnerSteps
    /\ ownerSteps' = ownerSteps + 1
    /\ \/ \E amount \in Amount : Withdraw(Deployer, Deployer, amount)
       \/ \E amount \in Amount : Mint(Deployer, Vault, amount)
       \/ RemoveOperator(Deployer, Operator)
       \/ AddOperator(Deployer, Operator)
    /\ UNCHANGED <<tasks, mined, pool, rpcFailures, crashes>>

TaskStep(i) ==
    \/ Skip(i) \/ RefuseDestination(i) \/ GetNonce(i) \/ GetGasPrice(i)
    \/ SendAccepted(i) \/ SendReplaces(i) \/ SendRefused(i) \/ SendReverts(i)

SystemNext ==
    \/ \E p \in Prepare : Fulfill(p)
    \/ \E i \in 1..Len(tasks) : TaskStep(i) \/ RpcFailure(i)
    \/ Mine
    \/ Crash
    \/ OwnerStep

SystemSpec == SystemInit /\ [][SystemNext]_systemVars

\* The tokio runtime polls every ready task, and blocks keep being mined.
Fairness ==
    /\ \A i \in 1..MaxReceived : WF_systemVars(i \in 1..Len(tasks) /\ TaskStep(i))
    /\ WF_systemVars(Mine)

FairSpec == SystemSpec /\ Fairness

-----------------------------------------------------------------------------

(***************************************************************************)
(* Tasks, the pending pool and the contract hold values of their types.    *)
(***************************************************************************)
SystemTypeOK ==
    /\ TypeOK
    /\ tasks \in Seq(Task)
    /\ mined \in Nat
    /\ pool \in Seq({TxOf(p) : p \in Prepare})
    /\ rpcFailures \in 0..MaxRpcFailures
    /\ crashes \in 0..MaxCrashes
    /\ ownerSteps \in 0..MaxOwnerSteps

Fulfilled == {tasks[i].packet : i \in 1..Len(tasks)}
EventOf(p) == [paymentId |-> IdOf(p), recipient |-> Parse(p.destination).recipient,
               amount |-> p.amount, operator |-> Operator]

(***************************************************************************)
(* Every payout on chain settles a packet the receiver fulfilled, to the   *)
(* recipient its destination names and for the amount that arrived, however*)
(* tasks, crashes and replaced transactions interleave.                    *)
(***************************************************************************)
PayoutsAreOwed ==
    \A k \in 1..Len(payoutLog) : \E p \in Fulfilled : payoutLog[k] = EventOf(p)

(***************************************************************************)
(* The payout for a packet reaches the wallet whose account issued the     *)
(* packet's destination, whatever other segments the address has, and is at*)
(* least the minimum its sender asked for, although the payment id says    *)
(* nothing about the amount.                                               *)
(***************************************************************************)
PaidAsIssued ==
    \A k \in 1..Len(payoutLog) : \E p \in Fulfilled :
        /\ payoutLog[k].paymentId = IdOf(p)
        /\ payoutLog[k].recipient = p.wallet
        /\ payoutLog[k].amount >= p.minAmount

(***************************************************************************)
(* A nonce read before an await is never ahead of the operator's next free *)
(* nonce when it is used, so no transaction waits for a gap to be filled.  *)
(***************************************************************************)
NonceNeverAhead ==
    \A i \in 1..Len(tasks) :
        tasks[i].pc \in {"nonce", "ready"} => tasks[i].nonce <= mined + Len(pool)

(***************************************************************************)
(* The receiver node, the Ethereum node and the contract together behave   *)
(* like PayoutPromise: each payout happens after its packet was fulfilled, *)
(* and no payout of the same id comes before it.                           *)
(***************************************************************************)
Promise == INSTANCE PayoutPromise WITH
               fulfilled <- Fulfilled,
               paid <- payoutLog,
               PaymentOf <- EventOf
PromiseKept == Promise!Spec

(***************************************************************************)
(* Packets whose destination parses to a usable recipient and that carry   *)
(* money: the ones a sender expects to see on chain.                       *)
(***************************************************************************)
Payable(p) ==
    /\ Parse(p.destination).recipient \in Address \ {ZeroAddress}
    /\ p.amount > 0

(***************************************************************************)
(* "Users receive guaranteed on-chain funds using a prefunded Treasury"    *)
(* (README.md): a fulfilled payable packet is eventually paid.             *)
(***************************************************************************)
GuaranteedDelivery ==
    \A p \in Prepare :
        Payable(p) => (p \in Fulfilled ~> IdOf(p) \in usedPaymentIds)
=============================================================================
