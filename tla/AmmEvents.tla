----------------------------- MODULE AmmEvents -----------------------------
(***************************************************************************)
(* The events of the pallet, and a reader (a block explorer, a wallet)     *)
(* that knows the pool from them alone.  An event is a storage write: the  *)
(* ones a call deposits before it fails are seen, too.                     *)
(***************************************************************************)
EXTENDS AmmPallet

VARIABLES
    seenShares,         \* account -> its shares, from the Transfer events
    seenSync,           \* the reserves of the last Sync event
    seenReserve,        \* asset -> the last Sync event and what the event after it adds
    seenFlow            \* asset -> what came in less what went out, over all calls

seenVars  == <<seenShares, seenSync, seenReserve, seenFlow>>
eventVars == <<vars, seenVars>>

-----------------------------------------------------------------------------
(* Transfer events of a call, in their order.  NoAccount stands for the    *)
(* None of a mint or a burn.                                               *)

Transfer(from, to, value) == [from |-> from, to |-> to, value |-> value]

NoTransfer == Transfer(NoAccount, NoAccount, 0)     \* no event is deposited

When(deposited, event) == IF deposited THEN event ELSE NoTransfer

\* Mutant of FeeEvent: _mint_fee writes the shares without an event.
FeeEventSilent == NoTransfer

\* _mint_fee
FeeEvent == When(FeeShares > 0, Transfer(NoAccount, feeTo, FeeShares))

Replayed(l, e) ==
    [a \in Accounts |->
        l[a] + (IF a = e.to THEN e.value ELSE 0) - (IF a = e.from THEN e.value ELSE 0)]

ReadTransfers(first, second, third) ==
    seenShares' = Replayed(Replayed(Replayed(seenShares, first), second), third)

\* mint, called by a deposit of u
MintTransfers(u) ==
    ReadTransfers(
        FeeEvent,
        When(SupplyWithFee = 0, Transfer(NoAccount, Zero, MinimumLiquidity)),
        When(result' = "Ok", Transfer(NoAccount, u, Liquidity(Deposited(bal')))))

\* What burn redeems after _transfer_liquidity of a withdrawal.
ToBurn(amount) == SatAdd(lp[Contract], amount)

\* _transfer_liquidity of a withdrawal of u, and burn
BurnTransfers(u, amount) ==
    ReadTransfers(
        Transfer(u, Contract, amount),
        FeeEvent,
        When(result' # "InsufficientLiquidityBurned",
             Transfer(Contract, NoAccount, ToBurn(amount))))

-----------------------------------------------------------------------------
(* Sync, and the Mint, Burn or Swap event that follows it when a call      *)
(* succeeds: what came in and what went out.                               *)

Nothing == [x \in Assets |-> 0]

\* _update deposits Sync with the reserves it was called with, when it has replaced them.
SyncEvent == reserve

ReadFlow(in, out) ==
    IF result' = "Ok"
    THEN /\ seenSync' = SyncEvent
         /\ seenReserve' = [x \in Assets |-> SyncEvent[x] + in[x] - out[x]]
         /\ seenFlow' = [x \in Assets |-> seenFlow[x] + in[x] - out[x]]
    ELSE UNCHANGED <<seenSync, seenReserve, seenFlow>>

\* Mutant of SwapFlow: the amounts in and out change places.
SwapFlowCrossed(y, n) == ReadFlow([Nothing EXCEPT ![y] = n], Incoming(bal', y, n))

\* _swap of n units of asset y
SwapFlow(y, n) == ReadFlow(Incoming(bal', y, n), [Nothing EXCEPT ![y] = n])

-----------------------------------------------------------------------------
(* The calls of the pallet with the events they deposit.                   *)

EventsInit ==
    /\ Init
    /\ seenShares = [a \in Accounts |-> 0]
    /\ seenSync = Nothing
    /\ seenReserve = Nothing
    /\ seenFlow = Nothing

SeenDeposit(x, u, n) ==
    /\ Deposit(x, u, n)
    /\ IF result' \in {"Ok", "InsufficientLiquidityMinted"} THEN MintTransfers(u)
                                                            ELSE UNCHANGED seenShares
    /\ ReadFlow(Deposited(bal'), Nothing)

SeenWithdraw(u, n) ==
    /\ Withdraw(u, n)
    /\ IF totalSupply # 0 /\ lp[u] >= n THEN BurnTransfers(u, n) ELSE UNCHANGED seenShares
    /\ ReadFlow(Nothing, Redeemed(ToBurn(n)))

SeenSwap(x, u, n) == Swap(x, u, n) /\ SwapFlow(Other(x), n) /\ UNCHANGED seenShares

SeenSync == Sync /\ ReadFlow(Nothing, Nothing) /\ UNCHANGED seenShares

Unseen(u) ==
    /\ \/ \E a \in FeeRecipients : SetFeeTo(u, a)
       \/ Skim(u)
       \/ \E x \in Assets, n \in Amounts : CurrenciesTransfer(x, u, n)
    /\ UNCHANGED seenVars

EventsNext ==
    \/ SeenSync
    \/ Tick /\ UNCHANGED seenVars
    \/ \E u \in Users :
        \/ Unseen(u)
        \/ \E x \in Assets, n \in Amounts : SeenDeposit(x, u, n) \/ SeenSwap(x, u, n)
        \/ \E n \in Amounts : SeenWithdraw(u, n)

EventsSpec == EventsInit /\ [][EventsNext]_eventVars

-----------------------------------------------------------------------------
\* Whoever replays the Transfer events knows every account's shares, after calls that
\* failed half way, fees issued in the middle of a call and shares stranded with the pool
\* account, too: no write of the share table goes without its event, and no event is
\* deposited for a write that did not happen.
ObserverAgrees == seenShares = lp

\* Whoever takes the last Sync and adds the amounts of the event after it, or adds up the
\* amounts of all Mint, Burn and Swap events, never believes the pool to hold more than its
\* reserves, and the first way comes closer: only donated tokens are missing from events.
FlowsCovered ==
    \A x \in Assets : seenFlow[x] <= seenReserve[x] /\ seenReserve[x] <= reserve[x]

-----------------------------------------------------------------------------
\* As in Uniswap V2, whoever knows the last Sync event knows the reserves: every write of
\* the reserves is followed by a Sync that tells them.
SyncTellsReserves == seenSync = reserve
=============================================================================
