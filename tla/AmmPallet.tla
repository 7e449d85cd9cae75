----------------------------- MODULE AmmPallet -----------------------------
(***************************************************************************)
(* The AMM pallet (pallet/src/lib.rs, pallet/src/helper.rs): one action    *)
(* per extrinsic.  An extrinsic runs alone, but it is not transactional:   *)
(* when it returns Err, every storage write it made before stays.  Each    *)
(* action below therefore has one disjunct per way the call can end, with  *)
(* exactly the writes made up to that point.                               *)
(*                                                                         *)
(* Accounts sign their own extrinsics; nobody signs for the pool account   *)
(* (Contract) or for the account that holds the locked shares (Zero).      *)
(* Genesis has configured all three accounts, so no unwrap() panics.       *)
(***************************************************************************)
EXTENDS TokenLedger

CONSTANTS
    Users,              \* the accounts that sign extrinsics
    Contract,           \* PalletAccountId, which holds the pool's tokens
    Zero,               \* AddressZero, which holds the locked shares
    FeeToSetter,        \* the account that may name the fee recipient
    NoAccount,          \* FeeTo = None
    Genesis,            \* the token balances at genesis
    Amounts,            \* the amounts that extrinsics are called with
    FeeRecipients,      \* the accounts set_fee_to is called with
    MinimumLiquidity, MintFee, BaseFee,     \* the pallet's Config
    MaxMoment           \* T::Moment::max_value()

ASSUME ConfigAssumption ==
    /\ Users \subseteq Accounts \ {Contract, Zero}
    /\ {Contract, Zero} \subseteq Accounts /\ Contract # Zero
    /\ NoAccount \notin Accounts
    /\ Genesis \in [Assets -> Ledger]
    /\ Amounts \subseteq Balance /\ FeeRecipients \subseteq Accounts
    /\ MinimumLiquidity \in Balance /\ MinimumLiquidity > 0
    /\ MintFee \in Balance /\ BaseFee \in Balance
    /\ MaxMoment \in Nat /\ MaxMoment <= MaxBalance

VARIABLES
    bal,                \* orml-tokens: asset -> account -> balance
    reserve,            \* Reserves: the balances the pool last accounted for
    tsLast,             \* Reserves: block_timestamp_last
    price,              \* Price0CumulativeLast, Price1CumulativeLast
    kLast,              \* KLast
    feeTo,              \* FeeTo
    totalSupply,        \* TotalSupply
    lp,                 \* LpBalances (absent is zero)
    now,                \* pallet_timestamp's now
    result              \* what the last extrinsic returned

poolVars  == <<reserve, tsLast, price>>
shareVars == <<totalSupply, lp, kLast>>
vars      == <<bal, poolVars, shareVars, feeTo, now, result>>

Results ==
    {"Ok", "Forbidden", "InsufficientBalance", "Overflow", "InsufficientInputAmount",
     "InsufficientOutputAmount", "InsufficientLiquidity", "InsufficientLiquidityMinted",
     "InsufficientLiquidityBurned", "WithdrawWithoutSupply", "InvalidK"}

Init ==
    /\ bal = Genesis
    /\ reserve = [x \in Assets |-> 0]
    /\ tsLast = 0
    /\ price = [x \in Assets |-> 0]
    /\ kLast = 0
    /\ feeTo = NoAccount
    /\ totalSupply = 0
    /\ lp = [a \in Accounts |-> 0]
    /\ now = 0
    /\ result = "Ok"

-----------------------------------------------------------------------------
(* The helpers of helper.rs.                                               *)

Fail(error) ==
    /\ result' = error
    /\ UNCHANGED <<bal, poolVars, shareVars>>

\* _update: the cumulative prices advance by the old reserves' rate times the time
\* since the last update, then the reserves become the balances b.
TimeElapsed == OverflowingSub(now, tsLast, MaxMoment)

Rate(x) == DivOrZero(reserve[Other(x)], reserve[x])

Update(b) ==
    /\ price' = IF TimeElapsed > 0 /\ PositiveReserves(reserve[0], reserve[1])
                THEN [x \in Assets |->
                        OverflowingAdd(price[x], SatMul(Rate(x), TimeElapsed), MaxBalance)]
                ELSE price
    /\ reserve' = [x \in Assets |-> b[x][Contract]]
    /\ tsLast' = now

\* Mutant of Credit: the new shares replace the ones the account had.
CreditOverwrites(l, to, value) == [l EXCEPT ![to] = value]

\* _mint on the share table l.
Credit(l, to, value) == [l EXCEPT ![to] = SatAdd(@, value)]

\* _transfer_liquidity on the share table l, after its balance check.
TransferLiquidity(l, from, to, amount) ==
    [[l EXCEPT ![from] = SatSub(@, amount)] EXCEPT ![to] = SatAdd(@, amount)]

\* _mint_fee: the shares issued to feeTo, and what TotalSupply, the share table l and
\* KLast hold afterwards.
FeeOn == feeTo # NoAccount

\* Mutant of FeeShares: the growth is not divided by the fee's part.
FeeSharesUndivided ==
    IF FeeOn /\ kLast # 0
    THEN ProtocolFee(SatMul(reserve[0], reserve[1]), kLast, totalSupply, 0)
    ELSE 0

FeeShares ==
    IF FeeOn /\ kLast # 0
    THEN ProtocolFee(SatMul(reserve[0], reserve[1]), kLast, totalSupply, MintFee)
    ELSE 0

SupplyWithFee == SatAdd(totalSupply, FeeShares)

LpWithFee(l) == IF FeeShares > 0 THEN Credit(l, feeTo, FeeShares) ELSE l

KLastAfterFee == IF FeeOn THEN kLast ELSE 0

\* Mutant of KLastAfter: the product is kept with the fee off, too.
KLastAlways == SatMul(reserve[0], reserve[1])

\* What mint and burn leave in KLast: the product of the reserves they started from.
KLastAfter == IF FeeOn THEN SatMul(reserve[0], reserve[1]) ELSE 0

-----------------------------------------------------------------------------
(* mint, with the deposit already in the balances b.  The protocol fee and *)
(* the locked minimum are written before the amount is checked.            *)

Deposited(b) == [x \in Assets |-> SatSub(b[x][Contract], reserve[x])]

SupplyToMint == IF SupplyWithFee = 0 THEN MinimumLiquidity ELSE SupplyWithFee

\* Mutant of LpToMint: the minimum is counted in the supply but given to nobody.
LpToMintUnlocked == LpWithFee(lp)

LpToMint ==
    IF SupplyWithFee = 0 THEN Credit(LpWithFee(lp), Zero, MinimumLiquidity)
                         ELSE LpWithFee(lp)

Liquidity(amount) ==
    IF SupplyWithFee = 0
    THEN InitialLiquidity(amount[0], amount[1], MinimumLiquidity)
    ELSE MinOf(ProportionalShare(amount[0], SupplyWithFee, reserve[0]),
               ProportionalShare(amount[1], SupplyWithFee, reserve[1]))

Mint(b, to) ==
    LET liquidity == Liquidity(Deposited(b))
    IN  /\ bal' = b
        /\ \/ /\ liquidity = 0
              /\ totalSupply' = SupplyToMint
              /\ lp' = LpToMint
              /\ kLast' = KLastAfterFee
              /\ UNCHANGED poolVars
              /\ result' = "InsufficientLiquidityMinted"
           \/ /\ liquidity > 0
              /\ totalSupply' = SatAdd(SupplyToMint, liquidity)
              /\ lp' = Credit(LpToMint, to, liquidity)
              /\ kLast' = KLastAfter
              /\ Update(b)
              /\ result' = "Ok"

-----------------------------------------------------------------------------
(* burn: redeems every share the pool account holds in the share table l,  *)
(* in which the caller's shares have already been moved there.             *)

\* Mutant of Redeemed: the supply is read after the shares are burnt.
RedeemedAfterBurn(liquidity) ==
    [x \in Assets |-> DivOrZero(SatMul(liquidity, bal[x][Contract]),
                                SatSub(SupplyWithFee, liquidity))]

\* Mutant of Redeemed: the trading fee is taken off a withdrawal, too.
RedeemedLessFee(liquidity) ==
    [x \in Assets |-> DivOrZero(SatMul(liquidity, Adjusted(bal[x][Contract],
                                                          bal[x][Contract], BaseFee)),
                                SatMul(SupplyWithFee, 1000))]

Redeemed(liquidity) ==
    [x \in Assets |-> DivOrZero(SatMul(liquidity, bal[x][Contract]), SupplyWithFee)]

Burn(l, to) ==
    LET liquidity == l[Contract]
        amount    == Redeemed(liquidity)
        paid      == MovedInOrder(bal, Contract, to, amount)
        burnt     == [LpWithFee(l) EXCEPT ![Contract] = SatSub(@, liquidity)]
    IN  \/ /\ amount[0] = 0 \/ amount[1] = 0
           /\ totalSupply' = SupplyWithFee
           /\ lp' = LpWithFee(l)
           /\ kLast' = KLastAfterFee
           /\ UNCHANGED <<bal, poolVars>>
           /\ result' = "InsufficientLiquidityBurned"
        \/ /\ amount[0] > 0 /\ amount[1] > 0
           /\ totalSupply' = SatSub(SupplyWithFee, liquidity)
           /\ lp' = burnt
           /\ bal' = paid
           /\ \/ /\ ~CanMoveBoth(bal, Contract, to, amount)
                 /\ kLast' = KLastAfterFee
                 /\ UNCHANGED poolVars
                 /\ result' = MoveBothError(bal, Contract, to, amount)
              \/ /\ CanMoveBoth(bal, Contract, to, amount)
                 /\ kLast' = KLastAfter
                 /\ Update(paid)
                 /\ result' = "Ok"

-----------------------------------------------------------------------------
(* _swap of n units of asset y to the caller, with the payment already in  *)
(* the balances b.  The output leaves the pool before the constant-product *)
(* check, and stays away when the check fails.                             *)

Incoming(b, y, n) ==
    [x \in Assets |->
        SatSub(b[x][Contract], SatSub(reserve[x], IF x = y THEN n ELSE 0))]

KHolds(b, amountIn) ==
    SatMul(Adjusted(b[0][Contract], amountIn[0], BaseFee),
           Adjusted(b[1][Contract], amountIn[1], BaseFee))
      >= SatMul(SatMul(reserve[0], reserve[1]), 1000 * 1000)

SwapOut(b, y, n, to) ==
    LET out      == [b EXCEPT ![y] = Moved(@, Contract, to, n)]
        amountIn == Incoming(out, y, n)
    IN  /\ UNCHANGED shareVars
        /\ \/ /\ n >= reserve[y]
              /\ bal' = b
              /\ result' = "InsufficientLiquidity"
              /\ UNCHANGED poolVars
           \/ /\ n < reserve[y] /\ ~CanMove(b[y], Contract, to, n)
              /\ bal' = b
              /\ result' = MoveError(b[y], Contract, n)
              /\ UNCHANGED poolVars
           \/ /\ n < reserve[y] /\ CanMove(b[y], Contract, to, n)
              /\ bal' = out
              /\ \/ /\ amountIn[0] = 0 /\ amountIn[1] = 0
                    /\ result' = "InsufficientInputAmount"
                    /\ UNCHANGED poolVars
                 \/ /\ amountIn[0] > 0 \/ amountIn[1] > 0
                    /\ ~KHolds(out, amountIn)
                    /\ result' = "InvalidK"
                    /\ UNCHANGED poolVars
                 \/ /\ amountIn[0] > 0 \/ amountIn[1] > 0
                    /\ KHolds(out, amountIn)
                    /\ result' = "Ok"
                    /\ Update(out)

-----------------------------------------------------------------------------
(* The extrinsics.                                                         *)

SetFeeTo(u, account) ==
    /\ \/ u # FeeToSetter /\ result' = "Forbidden" /\ UNCHANGED feeTo
       \/ u = FeeToSetter /\ result' = "Ok" /\ feeTo' = account
    /\ UNCHANGED <<bal, poolVars, shareVars, now>>

\* Mutant of Surplus: the reserves are not set aside.
SurplusIsBalance == [x \in Assets |-> bal[x][Contract]]

\* Pays the caller what the pool account holds beyond the reserves.
Surplus == [x \in Assets |-> SatSub(bal[x][Contract], reserve[x])]

Skim(u) ==
    /\ bal' = MovedInOrder(bal, Contract, u, Surplus)
    /\ result' = IF CanMoveBoth(bal, Contract, u, Surplus)
                 THEN "Ok" ELSE MoveBothError(bal, Contract, u, Surplus)
    /\ UNCHANGED <<poolVars, shareVars, feeTo, now>>

Sync ==
    /\ Update(bal)
    /\ result' = "Ok"
    /\ UNCHANGED <<bal, shareVars, feeTo, now>>

\* deposit_asset_1 (x = 0) and deposit_asset_2 (x = 1): the caller names the amount of
\* one asset, and the reserves set the amount of the other one.
NoReserves == reserve[0] = 0 /\ reserve[1] = 0

ToDeposit(x, amount) ==
    [y \in Assets |-> IF y = x \/ NoReserves THEN amount
                                            ELSE Quote(amount, reserve[x], reserve[y])]

Deposit(x, u, amount) ==
    LET toPay == ToDeposit(x, amount)
        after == MovedInOrder(bal, u, Contract, toPay)
        quotable == NoReserves \/ (amount > 0 /\ PositiveReserves(reserve[0], reserve[1]))
    IN  /\ UNCHANGED <<feeTo, now>>
        /\ \/ ~NoReserves /\ amount = 0 /\ Fail("InsufficientInputAmount")
           \/ ~quotable /\ amount > 0 /\ Fail("InsufficientLiquidity")
           \/ /\ quotable /\ ~CanMoveBoth(bal, u, Contract, toPay)
              /\ bal' = after
              /\ result' = MoveBothError(bal, u, Contract, toPay)
              /\ UNCHANGED <<poolVars, shareVars>>
           \/ /\ quotable /\ CanMoveBoth(bal, u, Contract, toPay)
              /\ Mint(after, u)

Withdraw(u, amount) ==
    /\ UNCHANGED <<feeTo, now>>
    /\ \/ totalSupply = 0 /\ Fail("WithdrawWithoutSupply")
       \/ totalSupply # 0 /\ lp[u] < amount /\ Fail("InsufficientBalance")
       \/ totalSupply # 0 /\ lp[u] >= amount
          /\ Burn(TransferLiquidity(lp, u, Contract, amount), u)

\* swap_asset_1_for_asset_2 (x = 0) and swap_asset_2_for_asset_1 (x = 1): the caller
\* names the amount to receive and pays the price in asset x.
Swap(x, u, amount) ==
    LET y    == Other(x)
        cost == GetAmountIn(amount, reserve[x], reserve[y])
        paid == [bal EXCEPT ![x] = Moved(@, u, Contract, cost)]
        priced == amount > 0 /\ PositiveReserves(reserve[0], reserve[1])
    IN  /\ UNCHANGED <<feeTo, now>>
        /\ \/ amount = 0 /\ Fail("InsufficientOutputAmount")
           \/ amount > 0 /\ ~priced /\ Fail("InsufficientLiquidity")
           \/ /\ priced /\ ~CanMove(bal[x], u, Contract, cost)
              /\ Fail(MoveError(bal[x], u, cost))
           \/ /\ priced /\ CanMove(bal[x], u, Contract, cost)
              /\ SwapOut(paid, y, amount, u)

-----------------------------------------------------------------------------
(* The rest of the chain: a plain transfer of tokens to the pool account   *)
(* (Currencies::transfer), and the passage of time between blocks.         *)
(* Transfers between users never reach the pool and are left out.          *)
(* It is assumed that no contract transfers tokens of the pool account.    *)

CurrenciesTransfer(x, u, amount) ==
    /\ \/ /\ CanMove(bal[x], u, Contract, amount)
          /\ bal' = [bal EXCEPT ![x] = Moved(@, u, Contract, amount)]
          /\ result' = "Ok"
       \/ /\ ~CanMove(bal[x], u, Contract, amount)
          /\ result' = MoveError(bal[x], u, amount)
          /\ UNCHANGED bal
    /\ UNCHANGED <<poolVars, shareVars, feeTo, now>>

Tick ==
    /\ now < MaxMoment
    /\ now' = now + 1
    /\ UNCHANGED <<bal, poolVars, shareVars, feeTo, result>>

Extrinsic(u) ==
    \/ \E a \in FeeRecipients : SetFeeTo(u, a)
    \/ Skim(u)
    \/ \E x \in Assets, n \in Amounts :
            Deposit(x, u, n) \/ Swap(x, u, n) \/ CurrenciesTransfer(x, u, n)
    \/ \E n \in Amounts : Withdraw(u, n)

Next == Tick \/ Sync \/ \E u \in Users : Extrinsic(u)

Spec == Init /\ [][Next]_vars

-----------------------------------------------------------------------------
(* What the pallet guarantees.                                             *)

\* Every storage item holds a value of its type.
TypeOK ==
    /\ bal \in [Assets -> Ledger]
    /\ reserve \in [Assets -> Balance]
    /\ tsLast \in 0 .. MaxMoment
    /\ price \in [Assets -> Balance]
    /\ kLast \in Balance
    /\ feeTo \in Accounts \cup {NoAccount}
    /\ totalSupply \in Balance
    /\ lp \in Ledger
    /\ now \in 0 .. MaxMoment
    /\ result \in Results

\* KLast is zero until set_fee_to names the first recipient, so no fee is charged for the
\* growth before (mint and burn).  FeeTo is never None again: set_fee_to stores Some.
KLastOnlyWithFee == ~FeeOn => kLast = 0

\* Once there is a supply, the minimum liquidity stays with Zero: neither a withdrawal
\* nor a fee ever touches the first shares mint locks.
MinLiquidityLocked == totalSupply > 0 => lp[Zero] >= MinimumLiquidity

\* The shares in the accounts add up to TotalSupply after every call, the ones that
\* fail half way included (_mint, _burn and _transfer_liquidity write both).
SharesConserved == SumOf(lp) = totalSupply

\* The pool account holds at least the reserves the pool accounts for: no call pays
\* out tokens and then ends without _update.
ReservesCovered == \A x \in Assets : reserve[x] <= bal[x][Contract]

\* A call that returns Err never costs the pool tokens: the optimistic transfer of
\* _swap and the payouts of burn are never left behind by a later error.
FailedCallCostsNothing ==
    [][result' # "Ok" => \A x \in Assets : bal'[x][Contract] >= bal[x][Contract]]_vars

\* No call lowers what a share stands for (the product of the reserves over the square
\* of the supply), apart from the shares issued as protocol fee.
ShareValueNeverDrops ==
    [][totalSupply > 0 =>
        reserve[0] * reserve[1] * totalSupply' * totalSupply'
            <= reserve'[0] * reserve'[1] * SupplyWithFee * SupplyWithFee]_vars

\* A pool with both reserves never loses one again: withdrawals leave the locked
\* shares' part and swaps are bounded by the reserves.
NeverDrained ==
    [][\A x \in Assets : reserve[x] > 0 => reserve'[x] > 0]_vars

\* Apart from what its failed calls leave behind, the pallet keeps a pool's promise to the
\* owners of its shares: nobody gains more than a deposit's part or leaves with more than
\* the shares' part, and nobody loses shares but the caller who redeems them.
Promise ==
    INSTANCE LiquidityPool WITH
        Pool <- Contract, Transactional <- FALSE, supply <- totalSupply, shares <- lp

ImplementsPool == Promise!Spec

\* Whoever asks for shares that are worth a unit of each asset back is paid at least their
\* part of the reserves, whatever failed calls, donations and fees came before.
ProviderCanLeave ==
    [][\A u \in Users, n \in Amounts :
        (/\ n \in 1 .. lp[u]
         /\ \A x \in Assets : n * reserve[x] >= SupplyWithFee
         /\ Withdraw(u, n))
        => \A x \in Assets :
                bal'[x][u] - bal[x][u] >= (n * reserve[x]) \div SupplyWithFee]_vars

-----------------------------------------------------------------------------
(* What the documentation, the comments and the checks of the code say,    *)
(* and the code does not do.                                               *)

\* A swap that takes from a reserve never lowers the product of the reserves: the
\* condition _swap ensures with its comparison of balance and reserve.
SwapKeepsK ==
    [][/\ \E x \in Assets : reserve'[x] < reserve[x]
       /\ \E x \in Assets, u \in Users, n \in Amounts : Swap(x, u, n)
       => reserve'[0] * reserve'[1] >= reserve[0] * reserve[1]]_vars

\* A successful swap of a pool without surplus costs what the getAmountIn of Uniswap V2
\* asks for: reserveIn * amountOut * 1000 / ((reserveOut - amountOut) * 997) + 1.
V2AmountIn(amountOut, reserveIn, reserveOut) ==
    (reserveIn * amountOut * 1000) \div ((reserveOut - amountOut) * 997) + 1

SwapPriceIsV2 ==
    [][\A x \in Assets, u \in Users, n \in Amounts :
        (reserve' # reserve /\ Swap(x, u, n)) =>
            bal[x][u] - bal'[x][u] = V2AmountIn(n, reserve[x], reserve[Other(x)])]_vars

\* As in Uniswap V2, kLast holds the product of the reserves right after the last
\* deposit or withdrawal, so the protocol fee is taken on growth from trading alone.
KLastIsCurrent ==
    [][(FeeOn /\ kLast' # kLast) => kLast' = reserve'[0] * reserve'[1]]_vars

\* While no user owns a share, a deposit of at least ten times the minimum liquidity
\* (10000 for a minimum of 1000) opens the pool.
InitialDepositOpensPool ==
    [][\A x \in Assets, u \in Users, n \in Amounts :
        (/\ \A a \in Accounts \ {Zero} : lp[a] = 0
         /\ NoReserves
         /\ n >= 10 * MinimumLiquidity
         /\ \A y \in Assets : n <= bal[y][u]
         /\ Deposit(x, u, n)) => result' = "Ok"]_vars
=============================================================================
