----------------------------- MODULE TestChain -----------------------------
(***************************************************************************)
(* The test chain: the pallet and one instance of the contract on the same *)
(* token ledger, behind the node's transaction pool and its instant-seal   *)
(* block authoring (testchain/node/src/service.rs, testchain/runtime).     *)
(*                                                                         *)
(* The pallet's variables are those of AmmPallet; the contract has been    *)
(* instantiated and its variables start with "pair".  Other contracts are  *)
(* there for the transfers they ask the chain extension for.  What a       *)
(* transaction calls is chosen when it is executed: nothing before depends *)
(* on it.                                                                  *)
(***************************************************************************)
EXTENDS AmmPallet

CONSTANTS
    Endowment,          \* what testnet_genesis gives each account of each asset
    PairAccount,        \* the account of the contract
    Payers,             \* the accounts whose tokens other contracts transfer
    MinimumPeriod,      \* of pallet_timestamp: the least time between two blocks
    MaxNonce            \* bound on the transactions of an account

ASSUME TestChainAssumption ==
    /\ Endowment \in Balance
    /\ PairAccount \in Accounts \ (Users \cup {Contract, Zero})
    /\ Payers \subseteq Accounts
    /\ MinimumPeriod \in Nat \ {0} /\ MaxNonce \in Nat

VARIABLES
    pairReserve, pairTsLast, pairPrice, pairKLast, pairFeeTo, pairSupply, pairLp,
    pairResult,         \* what the last message to the contract returned
    nonce,              \* frame_system: the next nonce of each account
    pending,            \* the transactions in the node's pool
    notified,           \* import notifications the authoring task has not read
    block               \* the transactions left for the block in the making

Pair ==
    INSTANCE AmmContract WITH
        Contract <- PairAccount, MINIMUM_LIQUIDITY <- MinimumLiquidity,
        MaxTimestamp <- MaxMoment, reserve <- pairReserve, tsLast <- pairTsLast,
        price <- pairPrice, kLast <- pairKLast, feeTo <- pairFeeTo,
        totalSupply <- pairSupply, lp <- pairLp, result <- pairResult

palletVars == <<poolVars, shareVars, feeTo>>
pairState  == <<pairReserve, pairTsLast, pairPrice, pairKLast, pairFeeTo, pairSupply, pairLp>>
pairVars   == <<pairState, pairResult>>
nodeVars   == <<pending, notified, block>>
chainVars  == <<vars, pairVars, nonce, nodeVars>>

NotSealing == {[signer |-> NoAccount, nonce |-> 0]}    \* no block is in the making

testnet_genesis ==
    [x \in Assets |-> [a \in Accounts |-> IF a \in Users THEN Endowment ELSE 0]]

ChainInit ==
    /\ Init
    /\ Pair!Init
    /\ nonce = [u \in Users |-> 0]
    /\ pending = {}
    /\ notified = 0
    /\ block = NotSealing

-----------------------------------------------------------------------------
(* The transaction pool.  A transaction is ready when those of its signer  *)
(* with the nonces before it are executed or ready, too.                   *)

Transaction(u, n) == [signer |-> u, nonce |-> n]

IsReady(tx, pool) ==
    \A n \in nonce[tx.signer] .. tx.nonce : Transaction(tx.signer, n) \in pool

ReadyIn(pool) == {tx \in pool : IsReady(tx, pool)}

\* validate_transaction refuses a nonce that was used, and the pool one that it holds.
\* A transaction that enters as ready is notified; the later ones it makes ready are not.
Submit(u, n) ==
    LET tx == Transaction(u, n)
    IN  /\ n >= nonce[u] /\ tx \notin pending
        /\ pending' = pending \cup {tx}
        /\ notified' = notified + (IF IsReady(tx, pending') THEN 1 ELSE 0)
        /\ UNCHANGED <<vars, pairVars, nonce, block>>

-----------------------------------------------------------------------------
(* Instant seal: every notification makes one block of what is ready at    *)
(* that moment, unless nothing is.                                         *)

\* Mutant of Proposed: a block takes the first transaction of each account.
ProposedOneEach == {tx \in ReadyIn(pending) : tx.nonce = nonce[tx.signer]}

Proposed == ReadyIn(pending)

BeginBlock ==
    /\ block = NotSealing /\ notified > 0
    /\ notified' = notified - 1
    /\ \/ /\ Proposed = {}
          /\ UNCHANGED <<block, now>>
       \/ /\ Proposed # {}
          /\ block' = Proposed
          /\ now' = now + MinimumPeriod
    /\ UNCHANGED <<bal, palletVars, result, pairVars, nonce, pending>>

\* The account a transaction's call runs as (ensure_signed, env().caller()).
Origin(tx) == tx.signer

PalletCall(u) == (Extrinsic(u) \/ Sync) /\ UNCHANGED pairVars

PairCall(u) ==
    /\ Pair!Message(u) \/ Pair!sync \/ \E to \in Accounts : Pair!skim(to)
    /\ UNCHANGED <<palletVars, result>>

\* Anybody may deploy a contract, and 1102 lets it name whose tokens it transfers: neither
\* the contract nor its caller need be the payer.  Several transfers of one call are
\* as many steps for the ledger.
OtherContractCall ==
    /\ \E x \in Assets, from \in Payers, to \in Accounts, n \in Amounts :
        \/ /\ CanMove(bal[x], from, to, n)
           /\ bal' = [bal EXCEPT ![x] = Moved(@, from, to, n)]
        \/ /\ ~CanMove(bal[x], from, to, n)
           /\ UNCHANGED bal
    /\ UNCHANGED <<palletVars, now, result, pairVars>>

\* The nonce is used up whether or not the call succeeds.
Take(tx) ==
    /\ tx.nonce = nonce[tx.signer]
    /\ nonce' = [nonce EXCEPT ![tx.signer] = @ + 1]
    /\ block' = block \ {tx}
    /\ pending' = pending \ {tx}
    /\ UNCHANGED notified

ApplyExtrinsic(tx) ==
    /\ Take(tx)
    /\ PalletCall(Origin(tx)) \/ PairCall(Origin(tx)) \/ OtherContractCall

\* Mutant of EndBlock: notifications that came while the block was made are dropped.
EndBlockDrains ==
    /\ block = {}
    /\ block' = NotSealing
    /\ notified' = 0
    /\ UNCHANGED <<vars, pairVars, nonce, pending>>

EndBlock ==
    /\ block = {}
    /\ block' = NotSealing
    /\ UNCHANGED <<vars, pairVars, nonce, pending, notified>>

Author == BeginBlock \/ (\E tx \in block \ NotSealing : ApplyExtrinsic(tx)) \/ EndBlock

ChainNext == Author \/ \E u \in Users, n \in 0 .. MaxNonce : Submit(u, n)

\* The authoring task is essential: it runs as long as the node does.  What it takes to run
\* is the node's part of Author alone, since every call ends in one way or another.  Nobody
\* has to submit anything.
Authoring == BeginBlock \/ (\E tx \in block \ NotSealing : Take(tx)) \/ EndBlock

AuthoringIsFair == WF_<<nonce, nodeVars>>(Authoring)

ChainSpec == ChainInit /\ [][ChainNext]_chainVars /\ AuthoringIsFair

-----------------------------------------------------------------------------
(* What the chain guarantees.                                              *)

\* A transaction that is ready while no block is in the making has a notification to
\* come, although one that a predecessor makes ready gets none of its own.
NoneStranded ==
    (block = NotSealing /\ ReadyIn(pending) # {}) => notified > 0

\* Every transaction that becomes ready is executed, once the ones before it are.
ReadyIsExecuted ==
    \A u \in Users, n \in 0 .. MaxNonce :
        (Transaction(u, n) \in ReadyIn(pending)) ~> (nonce[u] > n)

\* All accounts together own what genesis issued: no path through either implementation
\* or the chain extension, a payment of a pool to itself included, makes or loses a token.
TokensConserved == \A x \in Assets : SumOf(bal[x]) = SumOf(testnet_genesis[x])

\* Each pool account covers its own reserves, whatever is done to the other pool with the
\* same tokens and whatever other contracts do to those of the users.  That no contract
\* names the account of a pool as the payer is a condition: the runtime does not ensure it.
PoolsSolvent == ReservesCovered /\ Pair!ReservesCovered
=============================================================================
