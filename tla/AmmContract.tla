---------------------------- MODULE AmmContract ----------------------------
(***************************************************************************)
(* The AMM as an ink! smart contract (smart_contract/src/lib.rs): one      *)
(* action per message that changes state.  A message runs alone, and one   *)
(* that returns Err or traps is rolled back with everything it did, the    *)
(* transfers of the chain extension included; only the caller sees result. *)
(***************************************************************************)
EXTENDS TokenLedger

CONSTANTS
    Users,              \* the accounts that call messages
    Contract,           \* self.env().account_id()
    Zero,               \* AccountId::from([0x0; 32]), which holds the locked shares
    FeeToSetter,        \* the account that instantiated the contract
    NoAccount,          \* fee_to = None
    Genesis,            \* the token balances when the contract is instantiated
    Amounts,            \* the amounts that messages are called with
    FeeRecipients,      \* the accounts set_fee_to is called with
    MINIMUM_LIQUIDITY,
    MaxTimestamp        \* the largest timestamp

ASSUME PairAssumption ==
    /\ Users \subseteq Accounts \ {Contract, Zero}
    /\ {Contract, Zero} \subseteq Accounts /\ Contract # Zero
    /\ NoAccount \notin Accounts
    /\ Genesis \in [Assets -> Ledger]
    /\ Amounts \subseteq Balance /\ FeeRecipients \subseteq Accounts
    /\ MINIMUM_LIQUIDITY \in Balance /\ MINIMUM_LIQUIDITY > 0
    /\ MaxTimestamp \in Nat /\ MaxTimestamp <= MaxBalance

VARIABLES
    bal,                \* orml-tokens, behind the chain extension
    reserve,            \* reserve_0, reserve_1
    tsLast,             \* block_timestamp_last
    price,              \* price_0_cumulative_last, price_1_cumulative_last
    kLast,              \* k_last
    feeTo,              \* fee_to
    totalSupply,        \* total_supply
    lp,                 \* lp_balances (absent is zero)
    now,                \* self.env().block_timestamp()
    result              \* what the last message returned, or "Trapped"

pairVars == <<reserve, tsLast, price, kLast, totalSupply, lp>>
vars     == <<bal, pairVars, feeTo, now, result>>

\* The constructor new.
Init ==
    /\ bal = Genesis
    /\ reserve = [x \in Assets |-> 0]
    /\ tsLast = 0
    /\ price = [x \in Assets |-> 0]
    /\ kLast = 0
    /\ feeTo = NoAccount
    /\ totalSupply = 0
    /\ lp = [a \in Accounts |-> 0]
    /\ now = 0
    /\ result = "Ok"

-----------------------------------------------------------------------------
(* Helpers of the Pair.                                                    *)

Revert(error) ==
    /\ result' = error
    /\ UNCHANGED <<bal, pairVars>>

\* transfer_tokens of both assets: the sender's balance is checked, and what the
\* chain extension answers is ignored, so a refused transfer goes unnoticed.
HasBoth(from, amount) == \A x \in Assets : amount[x] <= bal[x][from]

Sent(ledger, from, to, amount) ==
    IF CanMove(ledger, from, to, amount) THEN Moved(ledger, from, to, amount) ELSE ledger

SentBoth(from, to, amount) == [x \in Assets |-> Sent(bal[x], from, to, amount[x])]

\* _update
TimeElapsed == OverflowingSub(now, tsLast, MaxTimestamp)

CumulativePrice(x) ==
    OverflowingAdd(price[x],
                   SatMul(DivOrZero(reserve[Other(x)], reserve[x]), TimeElapsed),
                   MaxBalance)

\* Mutant of Update: the reserves take the change of the balances.
UpdateByDifference(b) ==
    /\ reserve' = [x \in Assets |-> b[x][Contract] - reserve[x]]
    /\ tsLast' = now
    /\ UNCHANGED price

Update(b) ==
    /\ price' = IF TimeElapsed > 0 /\ reserve[0] # 0 /\ reserve[1] # 0
                THEN [x \in Assets |-> CumulativePrice(x)]
                ELSE price
    /\ reserve' = [x \in Assets |-> b[x][Contract]]
    /\ tsLast' = now

\* Mutant of Credit: the new shares replace the ones the account had.
CreditOverwrites(l, to, value) == [l EXCEPT ![to] = value]

\* _mint on the share table l.
Credit(l, to, value) == [l EXCEPT ![to] = SatAdd(@, value)]

\* _transfer_liquidity on the share table l, after its balance check.
TransferLiquidity(l, from, to, amount) ==
    [[l EXCEPT ![from] = SatSub(@, amount)] EXCEPT ![to] = SatAdd(@, amount)]

\* _mint_fee
FeeOn == feeTo # NoAccount

FeeShares ==
    IF FeeOn /\ kLast # 0
    THEN ProtocolFee(SatMul(reserve[0], reserve[1]), kLast, totalSupply, 5)
    ELSE 0

SupplyWithFee == SatAdd(totalSupply, FeeShares)

LpWithFee(l) == IF FeeShares > 0 THEN Credit(l, feeTo, FeeShares) ELSE l

KLastAfter == IF FeeOn THEN SatMul(reserve[0], reserve[1]) ELSE 0

-----------------------------------------------------------------------------
(* mint, with the deposit already in the balances b.  A supply without     *)
(* reserves would divide by zero.                                          *)

Deposited(b) == [x \in Assets |-> SatSub(b[x][Contract], reserve[x])]

First == SupplyWithFee = 0

\* Mutant of Liquidity: a later provider is credited for the larger of the two parts.
LiquidityOfLarger(amount) ==
    LET part == [x \in Assets |-> ProportionalShare(amount[x], SupplyWithFee, reserve[x])]
    IN  IF First THEN InitialLiquidity(amount[0], amount[1], MINIMUM_LIQUIDITY)
                 ELSE IF part[0] >= part[1] THEN part[0] ELSE part[1]

Liquidity(amount) ==
    IF First
    THEN InitialLiquidity(amount[0], amount[1], MINIMUM_LIQUIDITY)
    ELSE MinOf(ProportionalShare(amount[0], SupplyWithFee, reserve[0]),
               ProportionalShare(amount[1], SupplyWithFee, reserve[1]))

LpToMint ==
    IF First THEN Credit(LpWithFee(lp), Zero, MINIMUM_LIQUIDITY) ELSE LpWithFee(lp)

\* Mutant of Mint: an amount that is too small is not rolled back.
MintKeepsLock(b, to) ==
    /\ First /\ Liquidity(Deposited(b)) = 0
    /\ totalSupply' = MINIMUM_LIQUIDITY
    /\ lp' = LpToMint
    /\ bal' = b
    /\ result' = "InsufficientLiquidityMinted"
    /\ UNCHANGED <<reserve, tsLast, price, kLast>>

Mint(b, to) ==
    LET liquidity == Liquidity(Deposited(b))
        divides   == First \/ PositiveReserves(reserve[0], reserve[1])
    IN  \/ ~divides /\ Revert("Trapped")
        \/ divides /\ liquidity = 0 /\ Revert("InsufficientLiquidityMinted")
        \/ /\ divides /\ liquidity > 0
           /\ totalSupply' = SatAdd(IF First THEN MINIMUM_LIQUIDITY ELSE SupplyWithFee,
                                    liquidity)
           /\ lp' = Credit(LpToMint, to, liquidity)
           /\ kLast' = KLastAfter
           /\ bal' = b
           /\ Update(b)
           /\ result' = "Ok"

-----------------------------------------------------------------------------
(* burn: redeems every share the contract holds in the share table l.      *)

\* Mutant of Redeemed: the supply is read before _mint_fee adds to it.
RedeemedBeforeFee(liquidity) ==
    [x \in Assets |-> DivOrZero(SatMul(liquidity, bal[x][Contract]), totalSupply)]

\* Mutant of Redeemed: each asset is paid from the balance of the other one.
RedeemedCrossed(liquidity) ==
    [x \in Assets |-> DivOrZero(SatMul(liquidity, bal[Other(x)][Contract]), SupplyWithFee)]

Redeemed(liquidity) ==
    [x \in Assets |-> DivOrZero(SatMul(liquidity, bal[x][Contract]), SupplyWithFee)]

\* Mutant of Burn: shares too few to redeem are not handed back.
BurnKeepsShares(l, to) ==
    /\ lp' = l
    /\ result' = "InsufficientLiquidityBurned"
    /\ UNCHANGED <<bal, reserve, tsLast, price, kLast, totalSupply>>

Burn(l, to) ==
    LET liquidity == l[Contract]
        amount    == Redeemed(liquidity)
        paid      == SentBoth(Contract, to, amount)
    IN  \/ (amount[0] = 0 \/ amount[1] = 0) /\ Revert("InsufficientLiquidityBurned")
        \/ /\ amount[0] > 0 /\ amount[1] > 0 /\ ~HasBoth(Contract, amount)
           /\ Revert("InsufficientBalance")
        \/ /\ amount[0] > 0 /\ amount[1] > 0 /\ HasBoth(Contract, amount)
           /\ totalSupply' = SatSub(SupplyWithFee, liquidity)
           /\ lp' = [LpWithFee(l) EXCEPT ![Contract] = SatSub(@, liquidity)]
           /\ kLast' = KLastAfter
           /\ bal' = paid
           /\ Update(paid)
           /\ result' = "Ok"

-----------------------------------------------------------------------------
(* _swap of n units of asset y, with the payment already in the balances b. *)

Incoming(b, y, n) ==
    [x \in Assets |->
        SatSub(b[x][Contract], SatSub(reserve[x], IF x = y THEN n ELSE 0))]

KHolds(b, amountIn) ==
    SatMul(Adjusted(b[0][Contract], amountIn[0], 3), Adjusted(b[1][Contract], amountIn[1], 3))
      >= SatMul(SatMul(reserve[0], reserve[1]), 1000 * 1000)

SwapOut(b, y, n, to) ==
    LET out      == [b EXCEPT ![y] = Sent(@, Contract, to, n)]
        amountIn == Incoming(out, y, n)
        paidIn   == amountIn[0] > 0 \/ amountIn[1] > 0
    IN  \/ b[y][Contract] < n /\ Revert("InsufficientBalance")
        \/ b[y][Contract] >= n /\ ~paidIn /\ Revert("InsufficientInputAmount")
        \/ b[y][Contract] >= n /\ paidIn /\ ~KHolds(out, amountIn) /\ Revert("InvalidK")
        \/ /\ b[y][Contract] >= n /\ paidIn /\ KHolds(out, amountIn)
           /\ bal' = out
           /\ Update(out)
           /\ UNCHANGED <<kLast, totalSupply, lp>>
           /\ result' = "Ok"

-----------------------------------------------------------------------------
(* The messages.                                                           *)

set_fee_to(u, account) ==
    /\ \/ u # FeeToSetter /\ result' = "Forbidden" /\ UNCHANGED feeTo
       \/ u = FeeToSetter /\ result' = "Ok" /\ feeTo' = account
    /\ UNCHANGED <<bal, pairVars, now>>

\* Mutant of Surplus: the reserves are not set aside.
SurplusIsBalance == [x \in Assets |-> bal[x][Contract]]

\* Anyone may send what the contract holds beyond the reserves to any account.
Surplus == [x \in Assets |-> SatSub(bal[x][Contract], reserve[x])]

skim(to) ==
    /\ bal' = SentBoth(Contract, to, Surplus)
    /\ result' = "Ok"
    /\ UNCHANGED <<pairVars, feeTo, now>>

sync ==
    /\ Update(bal)
    /\ result' = "Ok"
    /\ UNCHANGED <<bal, kLast, totalSupply, lp, feeTo, now>>

\* deposit_asset_1 (x = 0) and deposit_asset_2 (x = 1).
NoReserves == reserve[0] = 0 /\ reserve[1] = 0

ToDeposit(x, amount) ==
    [y \in Assets |-> IF y = x \/ NoReserves THEN amount
                                            ELSE Quote(amount, reserve[x], reserve[y])]

deposit(x, u, amount) ==
    LET toPay    == ToDeposit(x, amount)
        quotable == NoReserves \/ (amount > 0 /\ PositiveReserves(reserve[0], reserve[1]))
    IN  /\ UNCHANGED <<feeTo, now>>
        /\ \/ ~NoReserves /\ amount = 0 /\ Revert("InsufficientInputAmount")
           \/ ~quotable /\ amount > 0 /\ Revert("InsufficientLiquidity")
           \/ quotable /\ ~HasBoth(u, toPay) /\ Revert("InsufficientBalance")
           \/ quotable /\ HasBoth(u, toPay) /\ Mint(SentBoth(u, Contract, toPay), u)

withdraw(u, amount) ==
    /\ UNCHANGED <<feeTo, now>>
    /\ \/ totalSupply = 0 /\ Revert("WithdrawWithoutSupply")
       \/ totalSupply # 0 /\ lp[u] < amount /\ Revert("InsufficientBalance")
       \/ totalSupply # 0 /\ lp[u] >= amount
          /\ Burn(TransferLiquidity(lp, u, Contract, amount), u)

\* swap_asset_1_for_asset_2 (x = 0) and swap_asset_2_for_asset_1 (x = 1).  Asking for
\* the whole reserve or more makes get_amount_in divide by zero, which traps before
\* _swap can answer InsufficientLiquidity.
swap(x, u, amount) ==
    LET y    == Other(x)
        cost == GetAmountIn(amount, reserve[x], reserve[y])
        paid == [bal EXCEPT ![x] = Sent(@, u, Contract, cost)]
        priced == amount > 0 /\ PositiveReserves(reserve[0], reserve[1])
    IN  /\ UNCHANGED <<feeTo, now>>
        /\ \/ amount = 0 /\ Revert("InsufficientOutputAmount")
           \/ amount > 0 /\ ~priced /\ Revert("InsufficientLiquidity")
           \/ priced /\ amount >= reserve[y] /\ Revert("Trapped")
           \/ priced /\ amount < reserve[y] /\ bal[x][u] < cost /\ Revert("InsufficientBalance")
           \/ priced /\ amount < reserve[y] /\ bal[x][u] >= cost /\ SwapOut(paid, y, amount, u)

-----------------------------------------------------------------------------
(* The rest of the chain, as in AmmPallet.                                 *)

CurrenciesTransfer(x, u, amount) ==
    /\ \/ /\ CanMove(bal[x], u, Contract, amount)
          /\ bal' = [bal EXCEPT ![x] = Moved(@, u, Contract, amount)]
          /\ result' = "Ok"
       \/ /\ ~CanMove(bal[x], u, Contract, amount)
          /\ result' = MoveError(bal[x], u, amount)
          /\ UNCHANGED bal
    /\ UNCHANGED <<pairVars, feeTo, now>>

Tick ==
    /\ now < MaxTimestamp
    /\ now' = now + 1
    /\ UNCHANGED <<bal, pairVars, feeTo, result>>

Message(u) ==
    \/ \E a \in FeeRecipients : set_fee_to(u, a)
    \/ \E x \in Assets, n \in Amounts :
            deposit(x, u, n) \/ swap(x, u, n) \/ CurrenciesTransfer(x, u, n)
    \/ \E n \in Amounts : withdraw(u, n)

Next ==
    \/ Tick
    \/ sync
    \/ \E to \in Accounts : skim(to)
    \/ \E u \in Users : Message(u)

Spec == Init /\ [][Next]_vars

-----------------------------------------------------------------------------
(* What the contract guarantees.                                           *)

Results ==
    {"Ok", "Trapped", "Forbidden", "InsufficientBalance", "Overflow",
     "InsufficientInputAmount", "InsufficientOutputAmount", "InsufficientLiquidity",
     "InsufficientLiquidityMinted", "InsufficientLiquidityBurned",
     "WithdrawWithoutSupply", "InvalidK"}

\* Every storage field holds a value of its type.
TypeOK ==
    /\ bal \in [Assets -> Ledger]
    /\ reserve \in [Assets -> Balance]
    /\ tsLast \in 0 .. MaxTimestamp
    /\ price \in [Assets -> Balance]
    /\ kLast \in Balance
    /\ feeTo \in Accounts \cup {NoAccount}
    /\ totalSupply \in Balance
    /\ lp \in Ledger
    /\ now \in 0 .. MaxTimestamp
    /\ result \in Results

\* The shares in the accounts add up to total_supply after every message.
SharesConserved == SumOf(lp) = totalSupply

\* The contract holds at least the reserves it accounts for, although it never looks at
\* what the chain extension answers to a transfer.
ReservesCovered == \A x \in Assets : reserve[x] <= bal[x][Contract]

\* A supply always comes with both reserves, so mint and burn never divide by zero and
\* a new deposit is never refused for want of reserves: a first deposit that is too
\* small is rolled back with the shares it locked.
SupplyHasReserves ==
    totalSupply > 0 => PositiveReserves(reserve[0], reserve[1])

\* Between two messages the contract owns no shares but the fees issued to it: what
\* withdraw moves there is burnt or handed back, and the next caller cannot redeem it.
NoStrandedShares == Contract \notin FeeRecipients => lp[Contract] = 0

\* The contract implements the pallet: a message that succeeds does what the pallet's
\* extrinsic does, and one that fails does nothing.  The recipient of skim stands for
\* the pallet's caller, so Zero may be one, which signs nothing in the pallet itself.
Pallet ==
    INSTANCE AmmPallet WITH
        result <- "Ok", Users <- Accounts \ {Contract}, MinimumLiquidity <- MINIMUM_LIQUIDITY,
        MintFee <- 5, BaseFee <- 3, MaxMoment <- MaxTimestamp

ImplementsPallet == Pallet!Spec

\* The contract keeps a pool's promise to the owners of its shares: no sequence of calls,
\* roundings, donations and fees gives a provider more than its part, takes a share from
\* an account that did not redeem it, or leaves a trace of a call that failed.
Promise ==
    INSTANCE LiquidityPool WITH
        Pool <- Contract, MinimumLiquidity <- MINIMUM_LIQUIDITY, MintFee <- 5,
        Transactional <- TRUE, supply <- totalSupply, shares <- lp

ImplementsPool == Promise!Spec

\* No message lowers what a share stands for (the product of the reserves over the square
\* of the supply), apart from the shares issued as protocol fee.
ShareValueNeverDrops ==
    [][totalSupply > 0 =>
        reserve[0] * reserve[1] * totalSupply' * totalSupply'
            <= reserve'[0] * reserve'[1] * SupplyWithFee * SupplyWithFee]_vars

\* Whoever asks for shares that are worth a unit of each asset back is paid at least their
\* part of the reserves: no sequence of calls of others makes withdraw refuse, and the
\* shares redeemed never come to more than the contract holds.
ProviderCanLeave ==
    [][\A u \in Users, n \in Amounts :
        (/\ n \in 1 .. lp[u]
         /\ \A x \in Assets : n * reserve[x] >= SupplyWithFee
         /\ withdraw(u, n))
        => \A x \in Assets :
                bal'[x][u] - bal[x][u] >= (n * reserve[x]) \div SupplyWithFee]_vars
=============================================================================
