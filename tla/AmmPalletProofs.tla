-------------------------- MODULE AmmPalletProofs --------------------------
(* Theorems on the pallet: for every width of the balance type, every set of *)
(* accounts and amounts, and every configuration; then the solvency of its   *)
(* pool and the value of its shares, while the issuance of the two assets    *)
(* leaves room in the balance type.                                          *)
EXTENDS AmmPallet, TokenLedgerProofs

-----------------------------------------------------------------------------
(* The values the helpers compute are in range.                            *)

\* _mint keeps the share table in range: it saturates.
LEMMA CreditType ==
    ASSUME NEW l \in Ledger, NEW to \in Accounts, NEW v \in Balance
    PROVE  /\ Credit(l, to, v) \in Ledger
           /\ Credit(l, to, v)[to] = SatAdd(l[to], v)
           /\ \A a \in Accounts \ {to} : Credit(l, to, v)[a] = l[a]
<1>1. l[to] \in Balance
  BY DEF Ledger
<1>2. SatAdd(l[to], v) \in Balance
  BY <1>1, SatAddSpec
<1>. QED  BY <1>2 DEF Credit, Ledger

\* _transfer_liquidity keeps the share table in range, and the shares of third parties.
LEMMA TransferLiquidityType ==
    ASSUME NEW l \in Ledger, NEW from \in Accounts, NEW to \in Accounts,
           NEW n \in Balance
    PROVE  /\ TransferLiquidity(l, from, to, n) \in Ledger
           /\ \A a \in Accounts \ {from, to} : TransferLiquidity(l, from, to, n)[a] = l[a]
<1>. DEFINE g == [l EXCEPT ![from] = SatSub(@, n)]
<1>1. SatSub(l[from], n) \in Balance
  BY SatSubSpec DEF Ledger
<1>2. g \in Ledger /\ \A a \in Accounts \ {from} : g[a] = l[a]
  BY <1>1 DEF Ledger
<1>3. SatAdd(g[to], n) \in Balance
  BY <1>2, SatAddSpec DEF Ledger
<1>. QED  BY <1>2, <1>3 DEF TransferLiquidity, Ledger

\* What _mint_fee computes is in range.
LEMMA FeeType ==
    ASSUME TypeOK
    PROVE  /\ FeeShares \in Balance
           /\ SupplyWithFee \in Balance
           /\ KLastAfterFee \in Balance
           /\ KLastAfter \in Balance
           /\ \A l \in Ledger : LpWithFee(l) \in Ledger
<1>1. SatMul(reserve[0], reserve[1]) \in Balance
  BY SatMulSpec DEF TypeOK, Assets
<1>2. FeeShares \in Balance
  <2>1. 0 \in Balance /\ MintFee \in Balance
    BY ConfigAssumption, WidthAssumption DEF Balance
  <2>. QED  BY <1>1, <2>1, ProtocolFeeType DEF FeeShares, TypeOK
<1>3. SupplyWithFee \in Balance
  BY <1>2, SatAddSpec DEF SupplyWithFee, TypeOK
<1>4. KLastAfterFee \in Balance /\ KLastAfter \in Balance
  BY <1>1, WidthAssumption DEF KLastAfterFee, KLastAfter, TypeOK, Balance
<1>5. \A l \in Ledger : LpWithFee(l) \in Ledger
  <2>1. FeeShares > 0 => feeTo \in Accounts
    BY DEF FeeShares, FeeOn, TypeOK
  <2>. QED  BY <1>2, <2>1, CreditType DEF LpWithFee
<1>. QED  BY <1>2, <1>3, <1>4, <1>5

\* What mint computes is in range.
LEMMA MintType ==
    ASSUME TypeOK
    PROVE  /\ SupplyToMint \in Balance
           /\ LpToMint \in Ledger
           /\ \A b \in [Assets -> Ledger] : Liquidity(Deposited(b)) \in Balance
<1>1. SupplyToMint \in Balance
  BY FeeType, ConfigAssumption DEF SupplyToMint
<1>2. LpToMint \in Ledger
  <2>1. lp \in Ledger /\ LpWithFee(lp) \in Ledger /\ Zero \in Accounts
    BY FeeType, ConfigAssumption DEF TypeOK
  <2>2. Credit(LpWithFee(lp), Zero, MinimumLiquidity) \in Ledger
    BY <2>1, CreditType, ConfigAssumption
  <2>. QED  BY <2>1, <2>2 DEF LpToMint
<1>3. ASSUME NEW b \in [Assets -> Ledger]
      PROVE  Liquidity(Deposited(b)) \in Balance
  <2>. DEFINE d == Deposited(b)
  <2>1. d[0] \in Balance /\ d[1] \in Balance
    <3>1. ASSUME NEW x \in Assets PROVE d[x] \in Balance
      <4>1. b[x][Contract] \in Balance /\ reserve[x] \in Balance
        BY ConfigAssumption DEF TypeOK, Ledger
      <4>. QED  BY <4>1, SatSubSpec DEF Deposited
    <3>. QED  BY <3>1 DEF Assets
  <2>2. reserve[0] \in Balance /\ reserve[1] \in Balance
    BY DEF TypeOK, Assets
  <2>. HIDE DEF d
  <2>3. InitialLiquidity(d[0], d[1], MinimumLiquidity) \in Balance
    BY <2>1, InitialLiquidityType, ConfigAssumption
  <2>4. /\ ProportionalShare(d[0], SupplyWithFee, reserve[0]) \in Balance
        /\ ProportionalShare(d[1], SupplyWithFee, reserve[1]) \in Balance
    BY <2>1, <2>2, FeeType, ProportionalShareType
  <2>5. Liquidity(d) \in Balance
    BY <2>3, <2>4 DEF Liquidity, MinOf
  <2>. QED  BY <2>5 DEF d
<1>. QED  BY <1>1, <1>2, <1>3

\* What burn pays out is in range.
LEMMA RedeemedType ==
    ASSUME TypeOK, NEW n \in Balance
    PROVE  Redeemed(n) \in [Assets -> Balance]
<1>. SUFFICES ASSUME NEW x \in Assets
              PROVE  DivOrZero(SatMul(n, bal[x][Contract]), SupplyWithFee) \in Balance
  BY DEF Redeemed
<1>1. bal[x][Contract] \in Balance
  BY ConfigAssumption DEF TypeOK, Ledger
<1>. QED  BY <1>1, FeeType, SatMulSpec, DivOrZeroType

\* _update keeps the reserves and the cumulative prices in range: they wrap around.
LEMMA UpdateType ==
    ASSUME TypeOK, NEW b \in [Assets -> Ledger], Update(b)
    PROVE  /\ reserve' \in [Assets -> Balance]
           /\ tsLast' \in 0 .. MaxMoment
           /\ price' \in [Assets -> Balance]
<1>1. TimeElapsed \in 0 .. MaxMoment
  BY OverflowingSubIsModular, ConfigAssumption DEF TimeElapsed, TypeOK
<1>2. TimeElapsed \in Balance
  BY <1>1, ConfigAssumption, WidthAssumption DEF Balance
<1>3. ASSUME NEW x \in Assets
      PROVE  OverflowingAdd(price[x], SatMul(Rate(x), TimeElapsed), MaxBalance) \in Balance
  <2>1. Other(x) \in Assets
    BY DEF Other, Assets
  <2>2. Rate(x) \in Balance
    BY <2>1, DivOrZeroType DEF Rate, TypeOK
  <2>3. SatMul(Rate(x), TimeElapsed) \in Balance
    BY <1>2, <2>2, SatMulSpec
  <2>4. price[x] \in Balance
    BY DEF TypeOK
  <2>. DEFINE m == SatMul(Rate(x), TimeElapsed)
  <2>5. MaxBalance \in Nat /\ m \in 0 .. MaxBalance /\ price[x] \in 0 .. MaxBalance
    BY <2>3, <2>4, WidthAssumption DEF Balance
  <2>. HIDE DEF m
  <2>6. OverflowingAdd(price[x], m, MaxBalance) \in 0 .. MaxBalance
    BY <2>5, OverflowingAddIsModular
  <2>. QED  BY <2>6 DEF m, Balance
<1>4. price' \in [Assets -> Balance]
  BY <1>3 DEF Update, TypeOK
<1>5. reserve' \in [Assets -> Balance]
  BY ConfigAssumption DEF Update, Ledger
<1>. QED  BY <1>4, <1>5 DEF Update, TypeOK

-----------------------------------------------------------------------------
(* Type correctness, one lemma per helper that writes.                     *)

\* Both ends of mint keep the types.
LEMMA MintTypeOK ==
    ASSUME TypeOK, NEW b \in [Assets -> Ledger], NEW to \in Accounts, Mint(b, to),
           UNCHANGED <<feeTo, now>>
    PROVE  TypeOK'
<1>. DEFINE liquidity == Liquidity(Deposited(b))
<1>1. liquidity \in Balance /\ SupplyToMint \in Balance /\ LpToMint \in Ledger
  BY MintType
<1>2. KLastAfterFee \in Balance /\ KLastAfter \in Balance
  BY FeeType
<1>3. bal' \in [Assets -> Ledger] /\ result' \in Results
  BY DEF Mint, Results
<1>4. CASE liquidity = 0
  <2>1. /\ totalSupply' = SupplyToMint /\ lp' = LpToMint /\ kLast' = KLastAfterFee
        /\ UNCHANGED poolVars
    BY <1>4 DEF Mint
  <2>. QED  BY <1>1, <1>2, <1>3, <2>1 DEF TypeOK, poolVars
<1>5. CASE liquidity # 0
  <2>1. /\ totalSupply' = SatAdd(SupplyToMint, liquidity)
        /\ lp' = Credit(LpToMint, to, liquidity) /\ kLast' = KLastAfter
        /\ Update(b)
    BY <1>5 DEF Mint
  <2>2. totalSupply' \in Balance /\ lp' \in Ledger
    BY <1>1, <2>1, SatAddSpec, CreditType
  <2>. QED  BY <1>2, <1>3, <2>1, <2>2, UpdateType DEF TypeOK
<1>. QED  BY <1>4, <1>5

\* All ends of burn keep the types.
LEMMA BurnTypeOK ==
    ASSUME TypeOK, NEW l \in Ledger, NEW to \in Accounts, Burn(l, to),
           UNCHANGED <<feeTo, now>>
    PROVE  TypeOK'
<1>. DEFINE liquidity == l[Contract]
            amount == Redeemed(liquidity)
            paid == MovedInOrder(bal, Contract, to, amount)
            burnt == [LpWithFee(l) EXCEPT ![Contract] = SatSub(@, liquidity)]
<1>1. Contract \in Accounts /\ liquidity \in Balance
  BY ConfigAssumption DEF Ledger
<1>2. amount \in [Assets -> Balance]
  BY <1>1, RedeemedType
<1>3. bal \in [Assets -> Ledger] /\ paid \in [Assets -> Ledger]
  BY <1>1, <1>2, MovedInOrderType DEF TypeOK
<1>4. SupplyWithFee \in Balance /\ LpWithFee(l) \in Ledger
      /\ KLastAfterFee \in Balance /\ KLastAfter \in Balance
  BY FeeType
<1>5. SatSub(SupplyWithFee, liquidity) \in Balance
  BY <1>1, <1>4, SatSubSpec
<1>6. burnt \in Ledger
  <2>1. SatSub(LpWithFee(l)[Contract], liquidity) \in Balance
    BY <1>1, <1>4, SatSubSpec DEF Ledger
  <2>. QED  BY <1>4, <2>1 DEF Ledger
<1>. HIDE DEF burnt, paid, amount
<1>7. /\ totalSupply' \in {SupplyWithFee, SatSub(SupplyWithFee, liquidity)}
      /\ lp' \in {LpWithFee(l), burnt}
      /\ kLast' \in {KLastAfterFee, KLastAfter}
      /\ bal' \in {bal, paid}
      /\ UNCHANGED poolVars \/ Update(paid)
  BY DEF Burn, burnt, paid, amount
<1>8. result' \in Results
  BY DEF Burn, Results, MoveBothError, MoveError
<1>9. /\ reserve' \in [Assets -> Balance]
      /\ tsLast' \in 0 .. MaxMoment
      /\ price' \in [Assets -> Balance]
  BY <1>3, <1>7, UpdateType DEF TypeOK, poolVars
<1>10. totalSupply' \in Balance /\ lp' \in Ledger /\ kLast' \in Balance
       /\ bal' \in [Assets -> Ledger]
  BY <1>3, <1>4, <1>5, <1>6, <1>7
<1>. QED  BY <1>8, <1>9, <1>10 DEF TypeOK

\* All ends of _swap keep the types.
LEMMA SwapOutTypeOK ==
    ASSUME TypeOK, NEW b \in [Assets -> Ledger], NEW y \in Assets, NEW n \in Balance,
           NEW to \in Accounts, SwapOut(b, y, n, to), UNCHANGED <<feeTo, now>>
    PROVE  TypeOK'
<1>. DEFINE out == [b EXCEPT ![y] = Moved(@, Contract, to, n)]
<1>1. CanMove(b[y], Contract, to, n) => out \in [Assets -> Ledger]
  <2>1. Contract \in Accounts /\ b[y] \in Ledger
    BY ConfigAssumption
  <2>2. CanMove(b[y], Contract, to, n) => Moved(b[y], Contract, to, n) \in Ledger
    BY <2>1, MovedType
  <2>. QED  BY <2>2
<1>. HIDE DEF out
<1>2. /\ UNCHANGED shareVars
      /\ \/ bal' = b /\ UNCHANGED poolVars
         \/ CanMove(b[y], Contract, to, n) /\ bal' = out
            /\ (UNCHANGED poolVars \/ Update(out))
  BY DEF SwapOut, out
<1>3. result' \in Results
  BY DEF SwapOut, Results, MoveError
<1>4. bal' \in [Assets -> Ledger]
  BY <1>1, <1>2
<1>5. /\ reserve' \in [Assets -> Balance]
      /\ tsLast' \in 0 .. MaxMoment
      /\ price' \in [Assets -> Balance]
  BY <1>1, <1>2, UpdateType DEF TypeOK, poolVars
<1>. QED  BY <1>2, <1>3, <1>4, <1>5 DEF TypeOK, shareVars

\* What a deposit asks the caller for is in range.
LEMMA ToDepositType ==
    ASSUME TypeOK, NEW x \in Assets, NEW n \in Balance
    PROVE  ToDeposit(x, n) \in [Assets -> Balance]
BY QuoteType DEF ToDeposit, TypeOK

\* An extrinsic's step keeps the types, whichever way it ends.
LEMMA ExtrinsicTypeOK ==
    ASSUME TypeOK, NEW u \in Users, Extrinsic(u)
    PROVE  TypeOK'
<1>1. u \in Accounts /\ Contract \in Accounts /\ u # Contract
  BY ConfigAssumption
<1>2. ASSUME NEW a \in FeeRecipients, SetFeeTo(u, a)
      PROVE  TypeOK'
  <2>1. a \in Accounts
    BY ConfigAssumption
  <2>. QED  BY <1>2, <2>1 DEF SetFeeTo, TypeOK, poolVars, shareVars, Results
<1>3. CASE Skim(u)
  <2>1. Surplus \in [Assets -> Balance]
    BY <1>1, SatSubSpec DEF Surplus, TypeOK, Ledger
  <2>2. bal' \in [Assets -> Ledger]
    BY <1>1, <1>3, <2>1, MovedInOrderType DEF Skim, TypeOK
  <2>3. result' \in Results
    BY <1>3 DEF Skim, Results, MoveBothError, MoveError
  <2>. QED  BY <1>3, <2>2, <2>3 DEF Skim, TypeOK, poolVars, shareVars
<1>4. ASSUME NEW x \in Assets, NEW n \in Amounts, Deposit(x, u, n)
      PROVE  TypeOK'
  <2>. DEFINE toPay == ToDeposit(x, n)
              after == MovedInOrder(bal, u, Contract, toPay)
  <2>1. n \in Balance
    BY ConfigAssumption
  <2>2. toPay \in [Assets -> Balance]
    BY <2>1, ToDepositType
  <2>3. after \in [Assets -> Ledger]
    BY <1>1, <2>2, MovedInOrderType DEF TypeOK
  <2>4. CASE Mint(after, u)
    BY <1>1, <1>4, <2>3, <2>4, MintTypeOK DEF Deposit
  <2>5. CASE ~Mint(after, u)
    <3>1. bal' \in {bal, after} /\ UNCHANGED <<poolVars, shareVars, feeTo, now>>
      BY <1>4, <2>5 DEF Deposit, Fail
    <3>2. result' \in Results
      BY <1>4, <2>5 DEF Deposit, Fail, Results, MoveBothError, MoveError
    <3>3. bal' \in [Assets -> Ledger]
      BY <2>3, <3>1 DEF TypeOK
    <3>. QED  BY <3>1, <3>2, <3>3 DEF TypeOK, poolVars, shareVars
  <2>. QED  BY <2>4, <2>5
<1>5. ASSUME NEW x \in Assets, NEW n \in Amounts, Swap(x, u, n)
      PROVE  TypeOK'
  <2>. DEFINE y == Other(x)
              cost == GetAmountIn(n, reserve[x], reserve[y])
              paid == [bal EXCEPT ![x] = Moved(@, u, Contract, cost)]
  <2>1. n \in Balance /\ y \in Assets
    BY ConfigAssumption DEF Other, Assets
  <2>2. cost \in Balance
    BY <2>1, GetAmountInType DEF TypeOK
  <2>3. CASE CanMove(bal[x], u, Contract, cost) /\ SwapOut(paid, y, n, u)
    <3>1. Moved(bal[x], u, Contract, cost) \in Ledger
      BY <1>1, <2>2, <2>3, MovedType DEF TypeOK
    <3>2. paid \in [Assets -> Ledger]
      BY <3>1 DEF TypeOK
    <3>. HIDE DEF paid, cost, y
    <3>. QED  BY <1>1, <1>5, <2>1, <2>3, <3>2, SwapOutTypeOK DEF Swap
  <2>4. CASE ~(CanMove(bal[x], u, Contract, cost) /\ SwapOut(paid, y, n, u))
    <3>1. UNCHANGED <<bal, poolVars, shareVars, feeTo, now>>
      BY <1>5, <2>4 DEF Swap, Fail
    <3>2. result' \in Results
      BY <1>5, <2>4 DEF Swap, Fail, Results, MoveError
    <3>. QED  BY <3>1, <3>2 DEF TypeOK, poolVars, shareVars
  <2>. QED  BY <2>3, <2>4
<1>6. ASSUME NEW x \in Assets, NEW n \in Amounts, CurrenciesTransfer(x, u, n)
      PROVE  TypeOK'
  <2>1. n \in Balance
    BY ConfigAssumption
  <2>2. CanMove(bal[x], u, Contract, n) => Moved(bal[x], u, Contract, n) \in Ledger
    BY <1>1, <2>1, MovedType DEF TypeOK
  <2>3. bal' \in [Assets -> Ledger]
    BY <1>6, <2>2 DEF CurrenciesTransfer, TypeOK
  <2>. QED  BY <1>6, <2>3
            DEF CurrenciesTransfer, MoveError, TypeOK, poolVars, shareVars, Results
<1>7. ASSUME NEW n \in Amounts, Withdraw(u, n)
      PROVE  TypeOK'
  <2>. DEFINE l == TransferLiquidity(lp, u, Contract, n)
  <2>1. l \in Ledger
    BY <1>1, TransferLiquidityType, ConfigAssumption DEF TypeOK
  <2>2. CASE Burn(l, u)
    <3>. HIDE DEF l
    <3>. QED  BY <1>1, <1>7, <2>1, <2>2, BurnTypeOK DEF Withdraw
  <2>3. CASE ~Burn(l, u)
    <3>1. UNCHANGED <<bal, poolVars, shareVars, feeTo, now>> /\ result' \in Results
      BY <1>7, <2>3 DEF Withdraw, Fail, Results
    <3>. QED  BY <3>1 DEF TypeOK, poolVars, shareVars
  <2>. QED  BY <2>2, <2>3
<1>. QED  BY <1>2, <1>3, <1>4, <1>5, <1>6, <1>7 DEF Extrinsic

\* Genesis is in range.
LEMMA InitTypeOK == Init => TypeOK
<1>. SUFFICES ASSUME Init
              PROVE  TypeOK
  OBVIOUS
<1>1. 0 \in Balance /\ 0 \in 0 .. MaxMoment
  BY WidthAssumption, ConfigAssumption DEF Balance
<1>. QED  BY <1>1, ConfigAssumption DEF Init, TypeOK, Ledger, Results

\* A step of the pallet keeps every storage item in range.
LEMMA StepTypeOK ==
    ASSUME TypeOK, [Next]_vars
    PROVE  TypeOK'
<1>1. CASE Tick
  BY <1>1, ConfigAssumption DEF Tick, TypeOK, poolVars, shareVars
<1>2. CASE Sync
  <2>1. Update(bal) /\ bal \in [Assets -> Ledger]
    BY <1>2 DEF Sync, TypeOK
  <2>. QED  BY <1>2, <2>1, UpdateType DEF Sync, TypeOK, shareVars, Results
<1>3. ASSUME NEW u \in Users, Extrinsic(u)
      PROVE  TypeOK'
  BY <1>3, ExtrinsicTypeOK
<1>4. CASE UNCHANGED vars
  BY <1>4 DEF vars, TypeOK, poolVars, shareVars
<1>. QED  BY <1>1, <1>2, <1>3, <1>4 DEF Next

\* Every storage item of the pallet always holds a value of its type, whatever is called
\* with whatever amounts and however the calls end: the saturating, checked and wrapping
\* operations of helper.rs leave no computation that could go out of range.
THEOREM TypeCorrect == Spec => []TypeOK
<1>1. Init => TypeOK
  BY InitTypeOK
<1>2. TypeOK /\ [Next]_vars => TypeOK'
  BY StepTypeOK
<1>. QED  BY <1>1, <1>2, PTL DEF Spec

-----------------------------------------------------------------------------
(* The fee base is dropped while the fee is off.                           *)

\* A step either leaves feeTo alone and writes KLast as _mint_fee, mint or burn do, or
\* it names a fee recipient and leaves KLast alone.
LEMMA KLastStep ==
    ASSUME [Next]_vars
    PROVE  \/ feeTo' = feeTo /\ kLast' \in {kLast, KLastAfterFee, KLastAfter}
           \/ feeTo' \in Accounts /\ kLast' = kLast
<1>1. CASE Tick
  BY <1>1 DEF Tick, shareVars
<1>2. CASE Sync
  BY <1>2 DEF Sync, shareVars
<1>3. ASSUME NEW u \in Users, Extrinsic(u)
      PROVE  \/ feeTo' = feeTo /\ kLast' \in {kLast, KLastAfterFee, KLastAfter}
             \/ feeTo' \in Accounts /\ kLast' = kLast
  <2>1. ASSUME NEW a \in FeeRecipients, SetFeeTo(u, a)
        PROVE  feeTo' \in {feeTo} \cup Accounts /\ kLast' = kLast
    BY <2>1, ConfigAssumption DEF SetFeeTo, shareVars
  <2>2. CASE Skim(u)
    BY <2>2 DEF Skim, shareVars
  <2>3. ASSUME NEW x \in Assets, NEW n \in Amounts, Deposit(x, u, n)
        PROVE  feeTo' = feeTo /\ kLast' \in {kLast, KLastAfterFee, KLastAfter}
    BY <2>3 DEF Deposit, Mint, Fail, shareVars
  <2>4. ASSUME NEW x \in Assets, NEW n \in Amounts, Swap(x, u, n)
        PROVE  feeTo' = feeTo /\ kLast' = kLast
    BY <2>4 DEF Swap, SwapOut, Fail, shareVars
  <2>5. ASSUME NEW x \in Assets, NEW n \in Amounts, CurrenciesTransfer(x, u, n)
        PROVE  feeTo' = feeTo /\ kLast' = kLast
    BY <2>5 DEF CurrenciesTransfer, shareVars
  <2>6. ASSUME NEW n \in Amounts, Withdraw(u, n)
        PROVE  feeTo' = feeTo /\ kLast' \in {kLast, KLastAfterFee, KLastAfter}
    BY <2>6 DEF Withdraw, Burn, Fail, shareVars
  <2>. QED  BY <1>3, <2>1, <2>2, <2>3, <2>4, <2>5, <2>6 DEF Extrinsic
<1>4. CASE UNCHANGED vars
  BY <1>4 DEF vars, shareVars
<1>. QED  BY <1>1, <1>2, <1>3, <1>4 DEF Next

\* KLast is zero whenever no fee recipient is set, so the first deposit or withdrawal
\* after set_fee_to has switched the fee on is never charged for earlier growth.
THEOREM FeeBaseDropped == Spec => []KLastOnlyWithFee
<1>1. Init => KLastOnlyWithFee
  BY DEF Init, KLastOnlyWithFee
<1>2. KLastOnlyWithFee /\ [Next]_vars => KLastOnlyWithFee'
  <2>. SUFFICES ASSUME KLastOnlyWithFee, [Next]_vars, ~FeeOn'
                PROVE  kLast' = 0
    BY DEF KLastOnlyWithFee
  <2>1. feeTo' = NoAccount
    BY DEF FeeOn
  <2>2. feeTo' = feeTo /\ kLast' \in {kLast, KLastAfterFee, KLastAfter}
    BY <2>1, KLastStep, ConfigAssumption
  <2>3. ~FeeOn /\ kLast = 0
    BY <2>1, <2>2 DEF FeeOn, KLastOnlyWithFee
  <2>. QED  BY <2>2, <2>3 DEF KLastAfterFee, KLastAfter
<1>. QED  BY <1>1, <1>2, PTL DEF Spec

-----------------------------------------------------------------------------
(* The first shares stay locked.                                           *)

\* _mint lowers nobody's shares, and gives the receiver at least the new ones.
LEMMA CreditGrows ==
    ASSUME NEW l \in Ledger, NEW to \in Accounts, NEW v \in Balance,
           NEW a \in Accounts
    PROVE  Credit(l, to, v)[a] >= l[a] /\ Credit(l, to, v)[to] >= v
<1>1. /\ l[a] \in Nat /\ l[to] \in Balance
      /\ Credit(l, to, v)[to] = SatAdd(l[to], v)
      /\ a # to => Credit(l, to, v)[a] = l[a]
  BY CreditType DEF Ledger, Balance
<1>2. SatAdd(l[to], v) >= l[to] /\ SatAdd(l[to], v) >= v
  BY <1>1, SatAddSpec, WidthAssumption DEF SatAdd, Balance
<1>. QED  BY <1>1, <1>2

\* The protocol fee lowers nobody's shares.
LEMMA FeeGrows ==
    ASSUME TypeOK, NEW l \in Ledger, NEW a \in Accounts
    PROVE  LpWithFee(l)[a] >= l[a]
<1>1. l[a] \in Nat
  BY DEF Ledger, Balance
<1>2. FeeShares > 0 => feeTo \in Accounts
  BY DEF FeeShares, FeeOn, TypeOK
<1>. QED  BY <1>1, <1>2, FeeType, CreditGrows DEF LpWithFee

\* Without a supply there is no protocol fee, so the supply stays zero.
LEMMA NoFeeWithoutSupply ==
    ASSUME TypeOK, totalSupply = 0
    PROVE  SupplyWithFee = 0
<1>1. /\ SatMul(reserve[0], reserve[1]) \in Balance /\ kLast \in Balance
      /\ MintFee \in Balance
  BY SatMulSpec, ConfigAssumption DEF TypeOK, Assets
<1>2. ProtocolFee(SatMul(reserve[0], reserve[1]), kLast, 0, MintFee) = 0
  BY <1>1, ProtocolFeeOfNothing
<1>3. FeeShares = 0
  BY <1>2 DEF FeeShares
<1>. QED  BY <1>3, WidthAssumption DEF SupplyWithFee, SatAdd

\* The shares that mint starts from hold the locked minimum: either it locks them
\* now, or they were locked when the supply came into being.
LEMMA MintKeepsLock ==
    ASSUME TypeOK, MinLiquidityLocked
    PROVE  LpToMint[Zero] >= MinimumLiquidity
<1>1. Zero \in Accounts /\ lp \in Ledger /\ MinimumLiquidity \in Balance
      /\ totalSupply \in Nat /\ lp[Zero] \in Nat /\ MinimumLiquidity \in Nat
  BY ConfigAssumption DEF TypeOK, Ledger, Balance
<1>2. LpWithFee(lp) \in Ledger /\ LpWithFee(lp)[Zero] \in Nat
  BY <1>1, FeeType DEF Ledger, Balance
<1>3. CASE SupplyWithFee = 0
  BY <1>1, <1>2, <1>3, CreditGrows DEF LpToMint
<1>4. CASE SupplyWithFee # 0
  <2>1. lp[Zero] >= MinimumLiquidity
    BY <1>1, <1>4, NoFeeWithoutSupply DEF MinLiquidityLocked
  <2>2. LpWithFee(lp)[Zero] >= lp[Zero]
    BY <1>1, FeeGrows
  <2>. QED  BY <1>1, <1>2, <1>4, <2>1, <2>2 DEF LpToMint
<1>. QED  BY <1>3, <1>4

\* An extrinsic's step leaves the locked shares with Zero.
LEMMA ExtrinsicKeepsLock ==
    ASSUME TypeOK, MinLiquidityLocked, NEW u \in Users, Extrinsic(u)
    PROVE  MinLiquidityLocked'
<1>1. /\ u \in Accounts \ {Contract, Zero} /\ Contract \in Accounts \ {Zero}
      /\ Zero \in Accounts /\ lp \in Ledger /\ bal \in [Assets -> Ledger]
      /\ MinimumLiquidity \in Nat /\ totalSupply \in Nat
  BY ConfigAssumption DEF TypeOK, Balance
<1>2. ASSUME UNCHANGED shareVars
      PROVE  MinLiquidityLocked'
  BY <1>2 DEF shareVars, MinLiquidityLocked
<1>3. ASSUME NEW a \in FeeRecipients, SetFeeTo(u, a)
      PROVE  UNCHANGED shareVars
  BY <1>3 DEF SetFeeTo
<1>4. ASSUME Skim(u)
      PROVE  UNCHANGED shareVars
  BY <1>4 DEF Skim
<1>5. ASSUME NEW x \in Assets, NEW n \in Amounts, Deposit(x, u, n)
      PROVE  MinLiquidityLocked'
  <2>. DEFINE after == MovedInOrder(bal, u, Contract, ToDeposit(x, n))
              liquidity == Liquidity(Deposited(after))
  <2>1. after \in [Assets -> Ledger]
    <3>1. ToDeposit(x, n) \in [Assets -> Balance]
      BY ToDepositType, ConfigAssumption
    <3>. QED  BY <1>1, <3>1, MovedInOrderType
  <2>2. liquidity \in Balance /\ LpToMint \in Ledger
    BY <2>1, MintType
  <2>3. LpToMint[Zero] >= MinimumLiquidity /\ LpToMint[Zero] \in Nat
    BY <1>1, <2>2, MintKeepsLock DEF Ledger, Balance
  <2>4. UNCHANGED shareVars \/ lp' \in {LpToMint, Credit(LpToMint, u, liquidity)}
    BY <1>5 DEF Deposit, Mint, Fail
  <2>. HIDE DEF liquidity
  <2>5. /\ Credit(LpToMint, u, liquidity)[Zero] >= LpToMint[Zero]
        /\ Credit(LpToMint, u, liquidity)[Zero] \in Nat
    BY <1>1, <2>2, CreditGrows, CreditType DEF Ledger, Balance
  <2>6. Credit(LpToMint, u, liquidity)[Zero] >= MinimumLiquidity
    BY <1>1, <2>3, <2>5
  <2>. QED  BY <1>2, <2>3, <2>4, <2>6 DEF MinLiquidityLocked
<1>6. ASSUME NEW x \in Assets, NEW n \in Amounts, Swap(x, u, n)
      PROVE  UNCHANGED shareVars
  BY <1>6 DEF Swap, SwapOut, Fail
<1>7. ASSUME NEW x \in Assets, NEW n \in Amounts, CurrenciesTransfer(x, u, n)
      PROVE  UNCHANGED shareVars
  BY <1>7 DEF CurrenciesTransfer
<1>8. ASSUME NEW n \in Amounts, Withdraw(u, n)
      PROVE  MinLiquidityLocked'
  <2>. DEFINE l == TransferLiquidity(lp, u, Contract, n)
              burnt == [LpWithFee(l) EXCEPT ![Contract] = SatSub(@, l[Contract])]
  <2>1. l \in Ledger /\ l[Zero] = lp[Zero]
    BY <1>1, TransferLiquidityType, ConfigAssumption
  <2>. HIDE DEF l
  <2>2. LpWithFee(l) \in Ledger /\ LpWithFee(l)[Zero] >= l[Zero]
        /\ LpWithFee(l)[Zero] \in Nat /\ l[Zero] \in Nat
    BY <1>1, <2>1, FeeType, FeeGrows DEF Ledger, Balance
  <2>3. burnt[Zero] = LpWithFee(l)[Zero]
    BY <1>1, <2>2 DEF Ledger
  <2>. HIDE DEF burnt
  <2>4. UNCHANGED shareVars \/ (totalSupply # 0 /\ lp' \in {LpWithFee(l), burnt})
    BY <1>8 DEF Withdraw, Burn, Fail, l, burnt
  <2>5. totalSupply # 0 => l[Zero] >= MinimumLiquidity
    BY <1>1, <2>1 DEF MinLiquidityLocked
  <2>. QED  BY <1>1, <1>2, <2>2, <2>3, <2>4, <2>5 DEF MinLiquidityLocked
<1>. QED  BY <1>2, <1>3, <1>4, <1>5, <1>6, <1>7, <1>8 DEF Extrinsic

\* A step of the pallet keeps the minimum locked.
LEMMA StepKeepsLock ==
    ASSUME TypeOK, MinLiquidityLocked, [Next]_vars
    PROVE  MinLiquidityLocked'
<1>1. ASSUME UNCHANGED shareVars
      PROVE  MinLiquidityLocked'
  BY <1>1 DEF shareVars, MinLiquidityLocked
<1>2. Tick \/ Sync \/ UNCHANGED vars => UNCHANGED shareVars
  BY DEF Tick, Sync, vars
<1>3. ASSUME NEW u \in Users, Extrinsic(u)
      PROVE  MinLiquidityLocked'
  BY <1>3, ExtrinsicKeepsLock
<1>. QED  BY <1>1, <1>2, <1>3 DEF Next

\* From the first deposit on, Zero holds the minimum liquidity, also when that deposit
\* fails half way and at every width of the balance type: no sequence of withdrawals
\* and fees can redeem the shares mint has locked and empty the pool.
THEOREM LockIsPermanent == Spec => []MinLiquidityLocked
<1>1. Init => MinLiquidityLocked
  BY DEF Init, MinLiquidityLocked
<1>2. TypeOK /\ MinLiquidityLocked /\ [Next]_vars => MinLiquidityLocked'
  BY StepKeepsLock
<1>. QED  BY <1>1, <1>2, TypeCorrect, PTL DEF Spec

-----------------------------------------------------------------------------
(* The shares add up, as long as the supply fits its type.                 *)

\* Neither the supply nor the supply with the fee that is due has reached the largest
\* value, where _mint would saturate.
SupplyFits == totalSupply < MaxBalance /\ SupplyWithFee < MaxBalance

\* Every share table has a sum.
LEMMA SumOfShares ==
    ASSUME NEW l \in Ledger
    PROVE  /\ SumOf(l) \in Nat
           /\ \A a \in Accounts : l[a] \in Nat /\ l[a] <= SumOf(l)
<1>1. l \in [Accounts -> Nat]
  BY WidthAssumption DEF Ledger, Balance
<1>2. Zero \in Accounts
  BY ConfigAssumption
<1>. QED  BY <1>1, <1>2, SumBoundsEach

\* _mint adds the new shares to the sum, unless they do not fit.
LEMMA CreditSum ==
    ASSUME NEW l \in Ledger, NEW to \in Accounts, NEW v \in Balance,
           SumOf(l) + v <= MaxBalance
    PROVE  SumOf(Credit(l, to, v)) = SumOf(l) + v
BY SatCreditSum DEF Credit, SatCredit

\* _transfer_liquidity moves shares and makes none.
LEMMA TransferLiquiditySum ==
    ASSUME NEW l \in Ledger, NEW from \in Accounts, NEW to \in Accounts, from # to,
           NEW n \in Balance, n <= l[from], SumOf(l) <= MaxBalance
    PROVE  SumOf(TransferLiquidity(l, from, to, n)) = SumOf(l)
<1>1. TransferLiquidity(l, from, to, n) = SatCredit(SatDebit(l, from, n), to, n)
  BY DEF TransferLiquidity, SatCredit, SatDebit
<1>. QED  BY <1>1, SatTransferSum

\* _mint_fee adds the same number to the supply and to the shares.
LEMMA FeeSum ==
    ASSUME TypeOK, SupplyFits, NEW l \in Ledger, SumOf(l) = totalSupply
    PROVE  /\ SumOf(LpWithFee(l)) = SupplyWithFee
           /\ totalSupply <= SupplyWithFee
<1>1. FeeShares \in Balance /\ totalSupply \in Balance /\ FeeShares \in Nat
      /\ totalSupply \in Nat /\ MaxBalance \in Nat
  BY FeeType, WidthAssumption DEF TypeOK, Balance
<1>2. SupplyWithFee = totalSupply + FeeShares /\ totalSupply + FeeShares <= MaxBalance
  BY <1>1, SatAddSpec DEF SupplyFits, SupplyWithFee
<1>3. CASE FeeShares > 0
  <2>1. feeTo \in Accounts
    BY <1>3 DEF FeeShares, FeeOn, TypeOK
  <2>2. SumOf(Credit(l, feeTo, FeeShares)) = SumOf(l) + FeeShares
    BY <1>1, <1>2, <2>1, CreditSum
  <2>. QED  BY <1>1, <1>2, <1>3, <2>2 DEF LpWithFee
<1>4. CASE ~(FeeShares > 0)
  BY <1>1, <1>2, <1>4 DEF LpWithFee
<1>. QED  BY <1>3, <1>4

\* mint adds the same number to the supply and to the shares, when it fails too.
LEMMA MintSum ==
    ASSUME TypeOK, SupplyFits, SharesConserved,
           NEW b \in [Assets -> Ledger], NEW to \in Accounts, Mint(b, to),
           totalSupply' < MaxBalance
    PROVE  SharesConserved'
<1>. DEFINE liquidity == Liquidity(Deposited(b))
<1>1. /\ liquidity \in Balance /\ SupplyToMint \in Balance /\ LpToMint \in Ledger
      /\ LpWithFee(lp) \in Ledger /\ lp \in Ledger /\ Zero \in Accounts
      /\ MinimumLiquidity \in Balance
  BY MintType, FeeType, ConfigAssumption DEF TypeOK
<1>2. SumOf(LpWithFee(lp)) = SupplyWithFee
  BY <1>1, FeeSum DEF SharesConserved
<1>3. SumOf(LpToMint) = SupplyToMint
  <2>1. CASE SupplyWithFee = 0
    <3>1. 0 + MinimumLiquidity <= MaxBalance /\ 0 + MinimumLiquidity = MinimumLiquidity
      BY <1>1, WidthAssumption DEF Balance
    <3>. QED  BY <1>1, <1>2, <2>1, <3>1, CreditSum DEF LpToMint, SupplyToMint
  <2>2. CASE SupplyWithFee # 0
    BY <1>2, <2>2 DEF LpToMint, SupplyToMint
  <2>. QED  BY <2>1, <2>2
<1>. HIDE DEF liquidity
<1>4. CASE totalSupply' = SupplyToMint /\ lp' = LpToMint
  BY <1>3, <1>4 DEF SharesConserved
<1>5. CASE totalSupply' = SatAdd(SupplyToMint, liquidity)
           /\ lp' = Credit(LpToMint, to, liquidity)
  <2>1. totalSupply' = SupplyToMint + liquidity /\ SupplyToMint + liquidity <= MaxBalance
    BY <1>1, <1>5, WidthAssumption DEF SatAdd, Balance
  <2>2. SumOf(Credit(LpToMint, to, liquidity)) = SupplyToMint + liquidity
    BY <1>1, <1>3, <2>1, CreditSum
  <2>. QED  BY <1>5, <2>1, <2>2 DEF SharesConserved
<1>. QED  BY <1>4, <1>5 DEF Mint, liquidity

\* burn takes the same number from the supply and from the shares, when it fails too.
LEMMA BurnSum ==
    ASSUME TypeOK, SupplyFits, NEW l \in Ledger, SumOf(l) = totalSupply,
           NEW to \in Accounts, Burn(l, to)
    PROVE  SharesConserved'
<1>. DEFINE liquidity == l[Contract]
            burnt == [LpWithFee(l) EXCEPT ![Contract] = SatSub(@, liquidity)]
<1>1. /\ Contract \in Accounts /\ LpWithFee(l) \in Ledger
      /\ liquidity \in Balance /\ SupplyWithFee \in Balance
  BY FeeType, ConfigAssumption DEF Ledger
<1>2. /\ SumOf(LpWithFee(l)) = SupplyWithFee /\ totalSupply <= SupplyWithFee
      /\ LpWithFee(l)[Contract] >= liquidity
  BY <1>1, FeeSum, FeeGrows
<1>3. /\ LpWithFee(l)[Contract] \in Balance /\ LpWithFee(l)[Contract] \in Nat
      /\ liquidity \in Nat /\ liquidity <= totalSupply
      /\ SupplyWithFee \in Nat /\ totalSupply \in Nat
      /\ LpWithFee(l) \in [Accounts -> Nat]
  BY <1>1, SumOfShares DEF Ledger, Balance, TypeOK
<1>4. SatSub(SupplyWithFee, liquidity) = SupplyWithFee - liquidity
  BY <1>1, <1>2, <1>3, SatSubSpec
<1>5. SumOf(burnt) = SumOf(LpWithFee(l)) - liquidity
  <2>1. burnt = SatDebit(LpWithFee(l), Contract, liquidity)
    BY DEF SatDebit
  <2>. QED  BY <1>1, <1>2, <1>3, <2>1, SatDebitSum
<1>. HIDE DEF burnt
<1>6. SumOf(burnt) = SatSub(SupplyWithFee, liquidity)
  BY <1>2, <1>4, <1>5
<1>7. \/ totalSupply' = SupplyWithFee /\ lp' = LpWithFee(l)
      \/ totalSupply' = SatSub(SupplyWithFee, liquidity) /\ lp' = burnt
  BY DEF Burn, burnt
<1>. QED  BY <1>2, <1>6, <1>7 DEF SharesConserved

\* A step of the pallet keeps the sum of the shares at the supply.
LEMMA StepShares ==
    ASSUME TypeOK, SupplyFits, totalSupply' < MaxBalance, SharesConserved, [Next]_vars
    PROVE  SharesConserved'
<1>1. ASSUME UNCHANGED shareVars
      PROVE  SharesConserved'
  BY <1>1 DEF shareVars, SharesConserved
<1>2. Tick \/ Sync \/ UNCHANGED vars => UNCHANGED shareVars
  BY DEF Tick, Sync, vars
<1>3. ASSUME NEW u \in Users, Extrinsic(u)
      PROVE  SharesConserved'
  <2>1. /\ u \in Accounts /\ Contract \in Accounts /\ u # Contract
        /\ lp \in Ledger /\ bal \in [Assets -> Ledger]
    BY ConfigAssumption DEF TypeOK
  <2>2. (\E a \in FeeRecipients : SetFeeTo(u, a)) \/ Skim(u) => UNCHANGED shareVars
    BY DEF SetFeeTo, Skim
  <2>3. ASSUME NEW x \in Assets, NEW n \in Amounts,
               Swap(x, u, n) \/ CurrenciesTransfer(x, u, n)
        PROVE  UNCHANGED shareVars
    BY <2>3 DEF Swap, SwapOut, Fail, CurrenciesTransfer
  <2>4. ASSUME NEW x \in Assets, NEW n \in Amounts, Deposit(x, u, n)
        PROVE  SharesConserved'
    <3>. DEFINE after == MovedInOrder(bal, u, Contract, ToDeposit(x, n))
    <3>1. ToDeposit(x, n) \in [Assets -> Balance]
      BY ToDepositType, ConfigAssumption
    <3>2. after \in [Assets -> Ledger]
      BY <2>1, <3>1, MovedInOrderType
    <3>. HIDE DEF after
    <3>3. UNCHANGED shareVars \/ Mint(after, u)
      BY <2>4 DEF Deposit, Fail, after
    <3>. QED  BY <1>1, <2>1, <3>2, <3>3, MintSum
  <2>5. ASSUME NEW n \in Amounts, Withdraw(u, n)
        PROVE  SharesConserved'
    <3>. DEFINE l == TransferLiquidity(lp, u, Contract, n)
    <3>1. n \in Balance /\ l \in Ledger
      BY <2>1, TransferLiquidityType, ConfigAssumption
    <3>2. SumOf(lp) <= MaxBalance
      BY WidthAssumption DEF SharesConserved, TypeOK, Balance
    <3>3. n <= lp[u] => SumOf(l) = totalSupply
      BY <2>1, <3>1, <3>2, TransferLiquiditySum DEF SharesConserved
    <3>. HIDE DEF l
    <3>4. UNCHANGED shareVars \/ (lp[u] >= n /\ Burn(l, u))
      BY <2>5 DEF Withdraw, Fail, l
    <3>5. lp[u] \in Nat /\ n \in Nat
      BY <2>1, <3>1 DEF Ledger, Balance
    <3>. QED  BY <1>1, <2>1, <3>1, <3>3, <3>4, <3>5, BurnSum
  <2>. QED  BY <1>1, <1>3, <2>2, <2>3, <2>4, <2>5 DEF Extrinsic
<1>. QED  BY <1>1, <1>2, <1>3 DEF Next

\* As long as the supply does not saturate, the accounts' shares add up to TotalSupply
\* after every call: the fee, the locked minimum, a failed mint that keeps both, and a
\* failed burn that leaves the caller's shares with the pool account included.
THEOREM SharesAddUp == Spec /\ []SupplyFits => []SharesConserved
<1>1. Init => SharesConserved
  BY SumOfNothing DEF Init, SharesConserved
<1>2. TypeOK /\ SupplyFits /\ SupplyFits' /\ SharesConserved /\ [Next]_vars
        => SharesConserved'
  BY StepShares DEF SupplyFits
<1>. QED  BY <1>1, <1>2, TypeCorrect, PTL DEF Spec

-----------------------------------------------------------------------------
(* Whose tokens a call moves.                                              *)

\* A call moves tokens between its caller and the pool account and concerns nobody else,
\* however it ends; none are made or lost.
LEMMA ExtrinsicParties ==
    ASSUME TypeOK, NEW u \in Users, Extrinsic(u), NEW x \in Assets
    PROVE  Between(bal[x], bal'[x], u, Contract)
<1>1. /\ u \in Accounts /\ Contract \in Accounts /\ Amounts \subseteq Balance
      /\ bal \in [Assets -> Ledger] /\ bal[x] \in Ledger
  BY ConfigAssumption DEF TypeOK
<1>2. ASSUME bal' = bal
      PROVE  Between(bal[x], bal'[x], u, Contract)
  BY <1>1, <1>2 DEF Between
<1>3. ASSUME NEW amount \in [Assets -> Balance],
             \/ bal' = MovedInOrder(bal, u, Contract, amount)
             \/ bal' = MovedInOrder(bal, Contract, u, amount)
      PROVE  Between(bal[x], bal'[x], u, Contract)
  BY <1>1, <1>3, MovedInOrderBetween
<1>4. ASSUME NEW a \in FeeRecipients, SetFeeTo(u, a)
      PROVE  bal' = bal
  BY <1>4 DEF SetFeeTo
<1>5. CASE Skim(u)
  <2>1. Surplus \in [Assets -> Balance]
    BY <1>1, SatSubSpec DEF Surplus, TypeOK, Ledger
  <2>. QED  BY <1>3, <1>5, <2>1 DEF Skim
<1>6. ASSUME NEW y \in Assets, NEW n \in Amounts, Deposit(y, u, n)
      PROVE  Between(bal[x], bal'[x], u, Contract)
  <2>1. ToDeposit(y, n) \in [Assets -> Balance]
    BY <1>1, ToDepositType
  <2>2. bal' = bal \/ bal' = MovedInOrder(bal, u, Contract, ToDeposit(y, n))
    BY <1>6 DEF Deposit, Mint, Fail
  <2>. QED  BY <1>2, <1>3, <2>1, <2>2
<1>7. ASSUME NEW n \in Amounts, Withdraw(u, n)
      PROVE  Between(bal[x], bal'[x], u, Contract)
  <2>. DEFINE l == TransferLiquidity(lp, u, Contract, n)
  <2>1. l \in Ledger
    BY <1>1, TransferLiquidityType DEF TypeOK
  <2>2. bal' = bal \/ bal' = MovedInOrder(bal, Contract, u, Redeemed(l[Contract]))
    BY <1>7 DEF Withdraw, Burn, Fail
  <2>. HIDE DEF l
  <2>3. l[Contract] \in Balance
    BY <1>1, <2>1 DEF Ledger
  <2>4. Redeemed(l[Contract]) \in [Assets -> Balance]
    BY <2>3, RedeemedType
  <2>. QED  BY <1>2, <1>3, <2>2, <2>4
<1>8. ASSUME NEW y \in Assets, NEW n \in Amounts, CurrenciesTransfer(y, u, n)
      PROVE  Between(bal[x], bal'[x], u, Contract)
  <2>1. CASE bal' = bal
    BY <1>2, <2>1
  <2>2. CASE /\ CanMove(bal[y], u, Contract, n)
             /\ bal' = [bal EXCEPT ![y] = Moved(@, u, Contract, n)]
    <3>1. x = y => bal'[x] = Moved(bal[x], u, Contract, n)
      BY <1>1, <2>2
    <3>2. x # y => bal'[x] = bal[x]
      BY <1>1, <2>2
    <3>3. n \in Balance
      BY <1>1
    <3>4. x = y => Between(bal[x], Moved(bal[x], u, Contract, n), u, Contract)
      BY <1>1, <2>2, <3>3, MovedBetween
    <3>5. Between(bal[x], bal[x], u, Contract)
      BY <1>1 DEF Between
    <3>. QED  BY <3>1, <3>2, <3>4, <3>5
  <2>. QED  BY <1>8, <2>1, <2>2 DEF CurrenciesTransfer
<1>9. ASSUME NEW y \in Assets, NEW n \in Amounts, Swap(y, u, n)
      PROVE  Between(bal[x], bal'[x], u, Contract)
  <2>. DEFINE z == Other(y)
              cost == GetAmountIn(n, reserve[y], reserve[z])
              paid == [bal EXCEPT ![y] = Moved(@, u, Contract, cost)]
              out  == [paid EXCEPT ![z] = Moved(@, Contract, u, n)]
  <2>1. z \in Assets /\ n \in Balance /\ y # z
    BY <1>1 DEF Other, Assets
  <2>2. cost \in Balance
    BY <2>1, GetAmountInType DEF TypeOK
  <2>3. \/ bal' = bal
        \/ /\ CanMove(bal[y], u, Contract, cost)
           /\ bal' = paid \/ (CanMove(paid[z], Contract, u, n) /\ bal' = out)
    BY <1>9 DEF Swap, SwapOut, Fail
  <2>. HIDE DEF z, cost
  <2>4. CASE /\ CanMove(bal[y], u, Contract, cost)
             /\ bal' = paid \/ (CanMove(paid[z], Contract, u, n) /\ bal' = out)
    <3>1. bal[y] \in Ledger /\ bal[z] \in Ledger
      BY <1>1, <2>1
    <3>2. Between(bal[y], Moved(bal[y], u, Contract, cost), u, Contract)
      BY <1>1, <2>2, <2>4, <3>1, MovedBetween
    <3>3. /\ paid[y] = Moved(bal[y], u, Contract, cost) /\ paid[z] = bal[z]
          /\ out[y] = paid[y] /\ out[z] = Moved(paid[z], Contract, u, n)
      BY <1>1, <2>1
    <3>. HIDE DEF paid, out
    <3>4. CanMove(paid[z], Contract, u, n)
            => Between(bal[z], Moved(bal[z], Contract, u, n), u, Contract)
      BY <1>1, <2>1, <3>1, <3>3, MovedBetween
    <3>5. Between(bal[z], bal[z], u, Contract)
      BY <3>1 DEF Between
    <3>6. x = y \/ x = z
      BY <2>1 DEF Assets
    <3>. QED  BY <2>4, <3>2, <3>3, <3>4, <3>5, <3>6
  <2>. QED  BY <1>2, <2>3, <2>4
<1>. QED  BY <1>2, <1>4, <1>5, <1>6, <1>7, <1>8, <1>9 DEF Extrinsic

-----------------------------------------------------------------------------
(* The conditions, and the inductive invariant.                            *)

\* The trading fee is at most the three thousandths that get_amount_in charges for, and
\* six times the issuance of either asset is a value of the type.
IssuanceFits ==
    /\ BaseFee \in 0 .. 3
    /\ \A x \in Assets : 6 * SumOf(Genesis[x]) <= MaxBalance

\* No call of the pallet makes or destroys tokens.
IssuanceKept == \A x \in Assets : SumOf(bal[x]) = SumOf(Genesis[x])

Sound ==
    /\ TypeOK
    /\ SharesConserved
    /\ MinLiquidityLocked
    /\ ReservesCovered
    /\ IssuanceKept

\* What the conditions say of every balance.
LEMMA Room ==
    ASSUME IssuanceFits, TypeOK, IssuanceKept, NEW x \in Assets
    PROVE  /\ bal[x] \in Ledger /\ SumOf(bal[x]) \in Nat /\ SumOf(bal[x]) <= MaxBalance
           /\ 6 * SumOf(bal[x]) <= MaxBalance
           /\ \A a \in Accounts : bal[x][a] \in Nat /\ bal[x][a] <= SumOf(bal[x])
<1>1. bal[x] \in Ledger /\ Contract \in Accounts
  BY ConfigAssumption DEF TypeOK
<1>2. SumOf(bal[x]) \in Nat
  BY <1>1, SumOfLedger
<1>3. 6 * SumOf(bal[x]) <= MaxBalance
  BY DEF IssuanceFits, IssuanceKept
<1>4. ASSUME NEW a \in Accounts
      PROVE  bal[x][a] \in Nat /\ bal[x][a] <= SumOf(bal[x])
  BY <1>1, SumOfLedger
<1>. QED  BY <1>1, <1>2, <1>3, <1>4, WidthAssumption

-----------------------------------------------------------------------------
(* How each call ends.                                                     *)

\* A deposit only adds to the pool's balances, whichever way it ends; unless it comes to
\* mint, it leaves the reserves and the shares alone.
LEMMA DepositEnds ==
    ASSUME TypeOK, NEW x \in Assets, NEW u \in Users, NEW n \in Amounts, Deposit(x, u, n)
    PROVE  /\ \A y \in Assets : /\ SumOf(bal'[y]) = SumOf(bal[y])
                                /\ bal'[y][Contract] \in Nat
                                /\ bal'[y][Contract] >= bal[y][Contract]
           /\ \/ UNCHANGED <<reserve, totalSupply, lp, feeTo>> /\ result' # "Ok"
              \/ /\ UNCHANGED feeTo
                 /\ \E b \in [Assets -> Ledger] : bal' = b /\ Mint(b, u)
<1>. DEFINE toPay == ToDeposit(x, n)
            after == MovedInOrder(bal, u, Contract, toPay)
<1>1. /\ u \in Accounts /\ Contract \in Accounts /\ u # Contract
      /\ bal \in [Assets -> Ledger] /\ toPay \in [Assets -> Balance]
  BY ToDepositType, ConfigAssumption DEF TypeOK
<1>2. after \in [Assets -> Ledger]
  BY <1>1, MovedInOrderType
<1>3. ASSUME NEW y \in Assets
      PROVE  /\ SumOf(after[y]) = SumOf(bal[y])
             /\ bal[y][Contract] \in Nat /\ after[y][Contract] \in Nat
             /\ after[y][Contract] >= bal[y][Contract]
  <2>1. bal[y][Contract] \in Nat /\ after[y][Contract] \in Nat /\ toPay[y] \in Nat
    BY <1>1, <1>2 DEF Ledger, Balance
  <2>2. after[y] = bal[y] \/ after[y][Contract] = bal[y][Contract] + toPay[y]
    BY <1>1, MovedInOrderEach
  <2>3. SumOf(after[y]) = SumOf(bal[y])
    BY <1>1, MovedInOrderSum
  <2>. HIDE DEF after, toPay
  <2>. QED  BY <2>1, <2>2, <2>3
<1>. HIDE DEF after, toPay
<1>4. bal' \in {bal, after}
  BY DEF Deposit, Mint, Fail, after, toPay
<1>5. \/ UNCHANGED <<reserve, totalSupply, lp, feeTo>> /\ result' # "Ok"
      \/ UNCHANGED feeTo /\ bal' = after /\ Mint(after, u)
  BY DEF Deposit, Mint, Fail, MoveBothError, MoveError, after, toPay, poolVars, shareVars
<1>. QED  BY <1>2, <1>3, <1>4, <1>5

\* skim pays exactly what the pool owns beyond the reserves: neither payment can fail.
LEMMA SkimEnds ==
    ASSUME IssuanceFits, Sound, NEW u \in Users, Skim(u)
    PROVE  /\ UNCHANGED <<reserve, totalSupply, lp, feeTo>>
           /\ result' = "Ok"
           /\ \A y \in Assets : /\ SumOf(bal'[y]) = SumOf(bal[y])
                                /\ bal'[y][Contract] = reserve[y]
<1>1. /\ u \in Accounts /\ Contract \in Accounts /\ u # Contract
      /\ bal \in [Assets -> Ledger] /\ TypeOK /\ IssuanceKept
  BY ConfigAssumption DEF Sound, TypeOK
<1>2. ASSUME NEW y \in Assets
      PROVE  /\ Surplus[y] = bal[y][Contract] - reserve[y] /\ Surplus[y] \in Balance
             /\ bal[y][Contract] \in Nat /\ reserve[y] \in Nat
             /\ CanMove(bal[y], Contract, u, Surplus[y])
  <2>1. /\ bal[y][Contract] \in Balance /\ reserve[y] \in Balance
        /\ reserve[y] <= bal[y][Contract]
    BY <1>1 DEF Sound, TypeOK, ReservesCovered, Ledger
  <2>2. Surplus[y] = SatSub(bal[y][Contract], reserve[y])
    BY DEF Surplus
  <2>3. Surplus[y] = bal[y][Contract] - reserve[y] /\ Surplus[y] \in Balance
    BY <2>1, <2>2, SatSubSpec
  <2>4. Surplus[y] \in Nat /\ Surplus[y] <= bal[y][Contract]
    BY <2>1, <2>3 DEF Balance
  <2>5. CanMove(bal[y], Contract, u, Surplus[y])
    BY <1>1, <2>4, Room, CanMoveOwned
  <2>. QED  BY <2>1, <2>3, <2>5 DEF Balance
<1>3. Surplus \in [Assets -> Balance]
  BY <1>2 DEF Surplus
<1>4. CanMoveBoth(bal, Contract, u, Surplus)
  BY <1>2 DEF CanMoveBoth
<1>5. bal' = MovedInOrder(bal, Contract, u, Surplus) /\ result' = "Ok"
      /\ UNCHANGED <<reserve, totalSupply, lp, feeTo>>
  BY <1>4 DEF Skim, poolVars, shareVars
<1>6. ASSUME NEW y \in Assets
      PROVE  SumOf(bal'[y]) = SumOf(bal[y]) /\ bal'[y][Contract] = reserve[y]
  <2>1. SumOf(bal'[y]) = SumOf(bal[y])
    BY <1>1, <1>3, <1>5, MovedInOrderSum
  <2>2. bal'[y][Contract] = bal[y][Contract] - Surplus[y]
    BY <1>1, <1>3, <1>4, <1>5, MovedInOrderEach
  <2>. QED  BY <1>2, <2>1, <2>2
<1>. QED  BY <1>5, <1>6

\* A transfer to the pool account adds to its balance or fails.
LEMMA TransferEnds ==
    ASSUME TypeOK, NEW x \in Assets, NEW u \in Users, NEW n \in Amounts,
           CurrenciesTransfer(x, u, n)
    PROVE  /\ UNCHANGED <<reserve, totalSupply, lp, feeTo>>
           /\ \A y \in Assets : /\ SumOf(bal'[y]) = SumOf(bal[y])
                                /\ bal'[y][Contract] \in Nat
                                /\ bal'[y][Contract] >= bal[y][Contract]
<1>1. /\ u \in Accounts /\ Contract \in Accounts /\ u # Contract /\ n \in Balance
      /\ bal \in [Assets -> Ledger] /\ bal[x] \in Ledger /\ n \in Nat
  BY ConfigAssumption DEF TypeOK, Balance
<1>2. UNCHANGED <<reserve, totalSupply, lp, feeTo>>
  BY DEF CurrenciesTransfer, poolVars, shareVars
<1>3. \A y \in Assets : bal[y][Contract] \in Nat
  BY <1>1 DEF Ledger, Balance
<1>4. CASE bal' = bal
  BY <1>2, <1>3, <1>4
<1>5. CASE /\ CanMove(bal[x], u, Contract, n)
           /\ bal' = [bal EXCEPT ![x] = Moved(@, u, Contract, n)]
  <2>1. /\ SumOf(Moved(bal[x], u, Contract, n)) = SumOf(bal[x])
        /\ Moved(bal[x], u, Contract, n)[Contract] = bal[x][Contract] + n
    BY <1>1, <1>5, MovedSum, MovedType
  <2>2. bal'[x] = Moved(bal[x], u, Contract, n) /\ \A y \in Assets \ {x} : bal'[y] = bal[y]
    BY <1>1, <1>5
  <2>3. ASSUME NEW y \in Assets
        PROVE  /\ SumOf(bal'[y]) = SumOf(bal[y])
               /\ bal'[y][Contract] \in Nat
               /\ bal'[y][Contract] >= bal[y][Contract]
    <3>1. CASE y = x
      BY <1>1, <1>3, <2>1, <2>2, <3>1
    <3>2. CASE y # x
      BY <1>3, <2>2, <3>2
    <3>. QED  BY <3>1, <3>2
  <2>. QED  BY <1>2, <2>3
<1>. QED  BY <1>4, <1>5 DEF CurrenciesTransfer

\* The constant-product check after a swap of n units of y that was paid for in x: with
\* cost and whatever was in the pool account beyond the reserves, it holds.
LEMMA CheckHolds ==
    ASSUME IssuanceFits, Sound, NEW x \in Assets, NEW y \in Assets, y = Other(x),
           NEW n \in Balance, n < reserve[y], reserve[x] > 0,
           NEW out \in [Assets -> Ledger],
           \A z \in Assets : SumOf(out[z]) = SumOf(bal[z]),
           out[x][Contract] = bal[x][Contract] + GetAmountIn(n, reserve[x], reserve[y]),
           out[y][Contract] = bal[y][Contract] - n
    PROVE  /\ KHolds(out, Incoming(out, y, n))
           /\ Incoming(out, y, n)[x] > 0
           /\ GetAmountIn(n, reserve[x], reserve[y]) < MaxBalance
<1>. DEFINE cost  == GetAmountIn(n, reserve[x], reserve[y])
            in    == bal[x][Contract] + cost - reserve[x]
            extra == bal[y][Contract] - reserve[y]
            rIn   == reserve[x]
            rOut  == reserve[y]
<1>1. /\ Contract \in Accounts /\ x # y /\ Assets = {x, y} /\ TypeOK /\ IssuanceKept
      /\ n \in Nat /\ MaxBalance \in Nat
  BY ConfigAssumption, WidthAssumption DEF Sound, Other, Assets, Balance
<1>2. /\ reserve[x] \in Balance /\ reserve[y] \in Balance
      /\ reserve[x] \in Nat /\ reserve[y] \in Nat
      /\ reserve[x] <= bal[x][Contract] /\ reserve[y] <= bal[y][Contract]
      /\ bal[x][Contract] \in Nat /\ bal[y][Contract] \in Nat
      /\ out[x][Contract] \in Balance /\ out[y][Contract] \in Balance
  <2>1. reserve[x] \in Balance /\ reserve[y] \in Balance
    BY <1>1 DEF TypeOK
  <2>2. reserve[x] <= bal[x][Contract] /\ reserve[y] <= bal[y][Contract]
    BY DEF Sound, ReservesCovered
  <2>3. bal[x][Contract] \in Nat /\ bal[y][Contract] \in Nat
    BY <1>1, Room
  <2>4. out[x][Contract] \in Balance /\ out[y][Contract] \in Balance
    BY <1>1 DEF Ledger
  <2>. QED  BY <2>1, <2>2, <2>3, <2>4 DEF Balance
<1>3. cost \in Balance /\ cost \in Nat
  <2>1. cost \in Balance
    BY <1>2, GetAmountInType
  <2>. QED  BY <2>1 DEF Balance
<1>4. 6 * (bal[x][Contract] + cost) <= MaxBalance /\ 6 * (bal[y][Contract] - n) <= MaxBalance
  <2>1. /\ 6 * SumOf(out[x]) <= MaxBalance /\ 6 * SumOf(out[y]) <= MaxBalance
        /\ SumOf(out[x]) \in Nat /\ SumOf(out[y]) \in Nat
    BY <1>1, Room
  <2>2. out[x][Contract] <= SumOf(out[x]) /\ out[y][Contract] <= SumOf(out[y])
    BY <1>1, SumOfLedger
  <2>. HIDE DEF cost
  <2>. QED  BY <1>1, <1>2, <1>3, <2>1, <2>2 DEF cost
<1>5. /\ in \in Nat /\ extra \in Nat /\ cost <= in
      /\ rIn + in = out[x][Contract] /\ rOut - n + extra = out[y][Contract]
  <2>. HIDE DEF cost
  <2>. QED  BY <1>1, <1>2, <1>3 DEF cost
<1>6. Incoming(out, y, n)[x] = in /\ Incoming(out, y, n)[y] = extra
  <2>1. SatSub(reserve[x], 0) = reserve[x] /\ SatSub(reserve[y], n) = reserve[y] - n
    BY <1>1, <1>2 DEF SatSub
  <2>2. /\ SatSub(out[x][Contract], reserve[x]) = in
        /\ SatSub(out[y][Contract], reserve[y] - n) = extra
    <3>. HIDE DEF cost
    <3>. QED  BY <1>1, <1>2, <1>3 DEF SatSub, cost
  <2>. HIDE DEF in, extra
  <2>. QED  BY <1>1, <2>1, <2>2 DEF Incoming
<1>7. cost < MaxBalance /\ cost > 0
  <2>1. cost < MaxBalance
    <3>. HIDE DEF cost
    <3>. QED  BY <1>1, <1>2, <1>3, <1>4, WidthAssumption
  <2>. QED  BY <1>2, <2>1, CostCovers
<1>8. /\ 6 * (rIn + in) <= MaxBalance /\ 6 * (rOut - n + extra) <= MaxBalance
      /\ BaseFee \in 0 .. 3
  BY <1>4, <1>5 DEF IssuanceFits
<1>. DEFINE a == Adjusted(out[x][Contract], in, BaseFee)
            c == Adjusted(out[y][Contract], extra, BaseFee)
<1>9. /\ SatMul(Adjusted(rIn + in, in, BaseFee), Adjusted(rOut - n + extra, extra, BaseFee))
           >= SatMul(SatMul(rIn, rOut), 1000 * 1000)
  <2>1. GetAmountIn(n, rIn, rOut) <= in /\ rIn \in Balance /\ rOut \in Balance /\ rIn > 0
        /\ n < rOut
    BY <1>2, <1>5
  <2>. HIDE DEF in, extra, rIn, rOut
  <2>. QED  BY <1>5, <1>8, <2>1, PriceMeetsK
<1>10. SatMul(a, c) >= SatMul(SatMul(reserve[x], reserve[y]), 1000 * 1000)
  BY <1>5, <1>9
<1>11. a \in Balance /\ c \in Balance
  <2>1. /\ Adjusted(rIn + in, in, BaseFee) \in Balance
        /\ Adjusted((rOut - n) + extra, extra, BaseFee) \in Balance
    <3>1. rIn \in Nat /\ rOut - n \in Nat
      BY <1>1, <1>2
    <3>. HIDE DEF in, extra, rIn, rOut
    <3>. QED  BY <1>5, <1>8, <3>1, AdjustedAbove
  <2>. QED  BY <1>5, <2>1
<1>. HIDE DEF in, extra
<1>12. KHolds(out, Incoming(out, y, n))
  <2>1. CASE x = 0 /\ y = 1
    BY <1>6, <1>10, <2>1 DEF KHolds
  <2>2. CASE x = 1 /\ y = 0
    <3>1. /\ SatMul(c, a) = SatMul(a, c)
          /\ SatMul(reserve[0], reserve[1]) = SatMul(reserve[1], reserve[0])
      BY <1>2, <1>11, <2>2, SatMulCommutes
    <3>2. SatMul(c, a) >= SatMul(SatMul(reserve[0], reserve[1]), 1000 * 1000)
      BY <1>10, <2>2, <3>1
    <3>. QED  BY <1>6, <2>2, <3>2 DEF KHolds
  <2>. QED  BY <1>1, <2>1, <2>2 DEF Other, Assets
<1>13. Incoming(out, y, n)[x] > 0
  BY <1>3, <1>5, <1>6, <1>7
<1>. QED  BY <1>7, <1>12, <1>13

\* A swap that pays out ends with _update: the reserve check bounds it and the
\* constant-product check holds.  Every other end leaves the pool what it has.
LEMMA SwapEnds ==
    ASSUME IssuanceFits, Sound, NEW x \in Assets, NEW y \in Assets, y = Other(x),
           NEW u \in Users, NEW n \in Amounts, Swap(x, u, n)
    PROVE  /\ UNCHANGED <<totalSupply, lp, feeTo>>
           /\ \A z \in Assets : SumOf(bal'[z]) = SumOf(bal[z])
           /\ \/ /\ UNCHANGED reserve /\ result' # "Ok"
                 /\ \A z \in Assets : /\ bal'[z][Contract] \in Nat
                                      /\ bal'[z][Contract] >= bal[z][Contract]
              \/ /\ result' = "Ok"
                 /\ reserve' = [z \in Assets |-> bal'[z][Contract]]
                 /\ reserve[x] > 0 /\ n < reserve[y]
                 /\ GetAmountIn(n, reserve[x], reserve[y]) < MaxBalance
                 /\ bal'[x][Contract]
                      = bal[x][Contract] + GetAmountIn(n, reserve[x], reserve[y])
                 /\ bal'[y][Contract] = bal[y][Contract] - n
<1>. DEFINE cost == GetAmountIn(n, reserve[x], reserve[y])
            paid == [bal EXCEPT ![x] = Moved(@, u, Contract, cost)]
            out  == [paid EXCEPT ![y] = Moved(@, Contract, u, n)]
<1>1. /\ u \in Accounts /\ Contract \in Accounts /\ u # Contract /\ n \in Balance
      /\ bal \in [Assets -> Ledger] /\ reserve \in [Assets -> Balance] /\ x # y
      /\ Assets = {x, y} /\ TypeOK /\ IssuanceKept
  BY ConfigAssumption DEF Sound, TypeOK, Other, Assets
<1>2. /\ cost \in Balance /\ bal[x] \in Ledger /\ bal[y] \in Ledger /\ cost \in Nat
      /\ bal[x][Contract] \in Nat /\ bal[y][Contract] \in Nat
  <2>1. cost \in Balance
    BY <1>1, GetAmountInType
  <2>. QED  BY <1>1, <2>1 DEF Ledger, Balance
<1>. HIDE DEF cost
<1>3. UNCHANGED <<totalSupply, lp, feeTo>>
  BY DEF Swap, SwapOut, Fail, shareVars
<1>4. CASE bal' = bal /\ UNCHANGED reserve /\ result' # "Ok"
  BY <1>1, <1>2, <1>3, <1>4
<1>5. CASE /\ CanMove(bal[x], u, Contract, cost) /\ reserve[x] > 0
           /\ SwapOut(paid, y, n, u)
  <2>1. /\ Moved(bal[x], u, Contract, cost) \in Ledger
        /\ SumOf(Moved(bal[x], u, Contract, cost)) = SumOf(bal[x])
        /\ Moved(bal[x], u, Contract, cost)[Contract] = bal[x][Contract] + cost
    BY <1>1, <1>2, <1>5, MovedSum, MovedType
  <2>2. /\ paid \in [Assets -> Ledger] /\ paid[y] = bal[y]
        /\ SumOf(paid[x]) = SumOf(bal[x])
        /\ paid[x][Contract] = bal[x][Contract] + cost
    BY <1>1, <2>1
  <2>. HIDE DEF paid
  <2>3. CASE bal' = paid /\ UNCHANGED reserve /\ result' # "Ok"
    BY <1>1, <1>2, <1>3, <2>2, <2>3
  <2>4. CASE n < reserve[y] /\ CanMove(paid[y], Contract, u, n) /\ bal' = out
    <3>1. /\ Moved(paid[y], Contract, u, n) \in Ledger
          /\ SumOf(Moved(paid[y], Contract, u, n)) = SumOf(bal[y])
          /\ Moved(paid[y], Contract, u, n)[Contract] = bal[y][Contract] - n
      BY <1>1, <1>2, <2>2, <2>4, MovedSum, MovedType
    <3>2. /\ out \in [Assets -> Ledger] /\ out[x] = paid[x]
          /\ out[y] = Moved(paid[y], Contract, u, n)
      BY <1>1, <2>2, <3>1
    <3>. HIDE DEF out
    <3>3. /\ \A z \in Assets : SumOf(out[z]) = SumOf(bal[z])
          /\ out[x][Contract] = bal[x][Contract] + cost
          /\ out[y][Contract] = bal[y][Contract] - n
      BY <1>1, <2>2, <3>1, <3>2
    <3>4. /\ KHolds(out, Incoming(out, y, n)) /\ Incoming(out, y, n)[x] > 0
          /\ cost < MaxBalance
      BY <1>1, <1>5, <2>4, <3>2, <3>3, CheckHolds DEF cost
    <3>5. result' = "Ok" /\ Update(out)
      <4>1. /\ ~(Incoming(out, y, n)[0] = 0 /\ Incoming(out, y, n)[1] = 0)
            /\ ~(n >= reserve[y])
        <5>1. n \in Nat /\ reserve[y] \in Nat
          BY <1>1 DEF Balance
        <5>. QED  BY <2>4, <3>4, <5>1 DEF Assets
      <4>. QED  BY <1>5, <2>4, <3>4, <4>1 DEF SwapOut, out
    <3>6. reserve' = [z \in Assets |-> bal'[z][Contract]]
      BY <2>4, <3>5 DEF Update
    <3>. QED  BY <1>3, <1>5, <2>4, <3>3, <3>4, <3>5, <3>6 DEF cost
  <2>. QED  BY <1>5, <2>3, <2>4 DEF SwapOut, MoveError, poolVars, out
<1>. QED  BY <1>4, <1>5 DEF Swap, Fail, MoveError, PositiveReserves, Assets, poolVars, cost, paid

\* _mint_fee adds the same number to the supply and to the recipient's shares, while the
\* supply fits.
LEMMA FeeExact ==
    ASSUME TypeOK, SupplyFits, NEW l \in Ledger, SumOf(l) = totalSupply
    PROVE  /\ FeeShares \in Nat
           /\ SupplyWithFee = totalSupply + FeeShares
           /\ LpWithFee(l) = WithMore(l, feeTo, FeeShares)
           /\ SumOf(LpWithFee(l)) = SupplyWithFee
<1>1. FeeShares \in Balance /\ totalSupply \in Balance /\ FeeShares \in Nat
      /\ totalSupply \in Nat /\ MaxBalance \in Nat /\ l \in [Accounts -> Nat]
  BY FeeType, WidthAssumption DEF TypeOK, Balance, Ledger
<1>2. SupplyWithFee = totalSupply + FeeShares /\ totalSupply + FeeShares <= MaxBalance
  BY <1>1, SatAddSpec DEF SupplyFits, SupplyWithFee
<1>3. SumOf(LpWithFee(l)) = SupplyWithFee
  BY FeeSum
<1>4. CASE FeeShares > 0
  <2>1. feeTo \in Accounts
    BY <1>4 DEF FeeShares, FeeOn, TypeOK
  <2>2. LpWithFee(l) = SatCredit(l, feeTo, FeeShares)
    BY <1>4 DEF LpWithFee, Credit, SatCredit
  <2>3. SatCredit(l, feeTo, FeeShares) = WithMore(l, feeTo, FeeShares)
    BY <1>1, <1>2, <2>1, SatCreditPointwise
  <2>. QED  BY <1>1, <1>2, <1>3, <2>2, <2>3
<1>5. CASE FeeShares = 0
  <2>1. LpWithFee(l) = l
    BY <1>5 DEF LpWithFee
  <2>2. l = WithMore(l, feeTo, 0)
    BY <1>1 DEF WithMore
  <2>. QED  BY <1>1, <1>2, <1>3, <1>5, <2>1, <2>2
<1>. QED  BY <1>1, <1>4, <1>5

\* A caller's shares move to the pool account exactly, and Zero's stay where they are.
LEMMA SharesToRedeem ==
    ASSUME TypeOK, SharesConserved, NEW u \in Users, NEW n \in Amounts, n <= lp[u]
    PROVE  LET l == TransferLiquidity(lp, u, Contract, n)
           IN  /\ l = [[lp EXCEPT ![u] = @ - n] EXCEPT ![Contract] = @ + n]
               /\ l \in Ledger /\ SumOf(l) = totalSupply
               /\ l[Contract] = lp[Contract] + n /\ l[Zero] = lp[Zero]
<1>. DEFINE l == TransferLiquidity(lp, u, Contract, n)
<1>1. /\ u \in Accounts /\ Contract \in Accounts /\ Zero \in Accounts \ {u, Contract}
      /\ u # Contract /\ lp \in Ledger /\ n \in Balance
      /\ SumOf(lp) = totalSupply /\ totalSupply <= MaxBalance
  BY ConfigAssumption, WidthAssumption DEF TypeOK, Balance, SharesConserved
<1>2. l = SatCredit(SatDebit(lp, u, n), Contract, n)
  BY DEF TransferLiquidity, SatCredit, SatDebit
<1>3. l[Zero] = lp[Zero]
  BY <1>1, TransferLiquidityType
<1>. HIDE DEF l
<1>4. SumOf(lp) <= MaxBalance
  BY <1>1
<1>5. /\ l = [[lp EXCEPT ![u] = @ - n] EXCEPT ![Contract] = @ + n]
      /\ l \in Ledger /\ SumOf(l) = SumOf(lp) /\ l[Contract] = lp[Contract] + n
  BY <1>1, <1>2, <1>4, SatTransferSum
<1>. QED  BY <1>1, <1>3, <1>5 DEF l

\* burn can always pay: the locked shares are never redeemed, so the payouts stay below
\* the balances, and the receiver's account has room for them.
LEMMA RedeemedCanBePaid ==
    ASSUME IssuanceFits, Sound, SupplyFits, totalSupply # 0, NEW u \in Users,
           NEW l \in Ledger, SumOf(l) = totalSupply, l[Zero] = lp[Zero]
    PROVE  LET liquidity == l[Contract]
               amount == Redeemed(liquidity)
           IN  /\ liquidity \in Nat /\ liquidity < totalSupply
               /\ SupplyWithFee \in Nat /\ totalSupply <= SupplyWithFee
               /\ amount \in [Assets -> Balance]
               /\ CanMoveBoth(bal, Contract, u, amount)
               /\ \A z \in Assets :
                    /\ amount[z] \in Nat /\ amount[z] <= bal[z][Contract]
                    /\ bal[z][Contract] > 0 => amount[z] < bal[z][Contract]
                    /\ amount[z] * SupplyWithFee <= liquidity * bal[z][Contract]
<1>. DEFINE liquidity == l[Contract]
            amount == Redeemed(liquidity)
<1>1. /\ Contract \in Accounts /\ Zero \in Accounts /\ Contract # Zero /\ u \in Accounts
      /\ u # Contract /\ MinimumLiquidity \in Nat /\ MinimumLiquidity > 0
      /\ TypeOK /\ IssuanceKept /\ totalSupply \in Nat
  BY ConfigAssumption DEF Sound, TypeOK, Balance
<1>2. lp[Zero] >= MinimumLiquidity
  BY <1>1 DEF Sound, MinLiquidityLocked
<1>3. liquidity \in Nat /\ liquidity < totalSupply /\ liquidity \in Balance
  <2>1. l[Contract] + l[Zero] <= SumOf(l)
    BY <1>1, TwoBelowSum
  <2>2. l[Contract] \in Balance /\ l[Zero] \in Balance
    BY <1>1 DEF Ledger
  <2>. QED  BY <1>1, <1>2, <2>1, <2>2 DEF Balance
<1>4. /\ SupplyWithFee \in Balance /\ SupplyWithFee \in Nat
      /\ totalSupply <= SupplyWithFee
  BY <1>1, FeeType, FeeSum DEF Balance
<1>5. SupplyWithFee # 0 /\ liquidity < SupplyWithFee /\ liquidity <= SupplyWithFee
  BY <1>1, <1>3, <1>4
<1>6. amount \in [Assets -> Balance]
  BY <1>1, <1>3, RedeemedType
<1>. HIDE DEF liquidity
<1>7. ASSUME NEW z \in Assets
      PROVE  /\ amount[z] \in Nat /\ amount[z] <= bal[z][Contract]
             /\ bal[z][Contract] > 0 => amount[z] < bal[z][Contract]
             /\ amount[z] * SupplyWithFee <= liquidity * bal[z][Contract]
             /\ CanMove(bal[z], Contract, u, amount[z])
  <2>1. bal[z][Contract] \in Balance
    BY <1>1 DEF TypeOK, Ledger
  <2>2. amount[z] = DivOrZero(SatMul(liquidity, bal[z][Contract]), SupplyWithFee)
    BY DEF Redeemed
  <2>3. /\ amount[z] <= bal[z][Contract]
        /\ bal[z][Contract] > 0 => amount[z] < bal[z][Contract]
    BY <1>3, <1>4, <1>5, <2>1, <2>2, PartOfWhole
  <2>4. amount[z] \in Nat /\ amount[z] * SupplyWithFee <= liquidity * bal[z][Contract]
    BY <1>3, <1>4, <1>5, <2>1, <2>2, PartBelow
  <2>5. CanMove(bal[z], Contract, u, amount[z])
    BY <1>1, <2>3, <2>4, Room, CanMoveOwned
  <2>. QED  BY <2>3, <2>4, <2>5
<1>8. CanMoveBoth(bal, Contract, u, amount)
  BY <1>7 DEF CanMoveBoth
<1>. QED  BY <1>3, <1>4, <1>6, <1>7, <1>8 DEF liquidity

\* A withdrawal that pays ends with _update; every other end leaves the pool what it has.
LEMMA WithdrawEnds ==
    ASSUME IssuanceFits, Sound, SupplyFits, NEW u \in Users, NEW n \in Amounts,
           Withdraw(u, n)
    PROVE  LET l         == TransferLiquidity(lp, u, Contract, n)
               liquidity == l[Contract]
               amount    == Redeemed(liquidity)
           IN  /\ UNCHANGED feeTo
               /\ \A z \in Assets : SumOf(bal'[z]) = SumOf(bal[z])
               /\ \/ UNCHANGED <<bal, reserve, totalSupply, lp>> /\ result' # "Ok"
                  \/ /\ totalSupply # 0 /\ n <= lp[u]
                     /\ UNCHANGED <<bal, reserve>> /\ result' # "Ok"
                     /\ totalSupply' = SupplyWithFee /\ lp' = LpWithFee(l)
                     /\ amount[0] = 0 \/ amount[1] = 0
                  \/ /\ totalSupply # 0 /\ n <= lp[u]
                     /\ result' = "Ok"
                     /\ totalSupply' = SatSub(SupplyWithFee, liquidity)
                     /\ lp' = SatDebit(LpWithFee(l), Contract, liquidity)
                     /\ reserve' = [z \in Assets |-> bal'[z][Contract]]
                     /\ \A z \in Assets :
                            /\ amount[z] > 0
                            /\ bal'[z][Contract] = bal[z][Contract] - amount[z]
                            /\ bal'[z][u] = bal[z][u] + amount[z]
<1>. DEFINE l         == TransferLiquidity(lp, u, Contract, n)
            liquidity == l[Contract]
            amount    == Redeemed(liquidity)
            paid      == MovedInOrder(bal, Contract, u, amount)
<1>1. /\ u \in Accounts /\ Contract \in Accounts /\ u # Contract /\ n \in Nat
      /\ bal \in [Assets -> Ledger] /\ TypeOK /\ SharesConserved /\ lp[u] \in Nat
  BY ConfigAssumption DEF Sound, TypeOK, Ledger, Balance
<1>2. UNCHANGED feeTo
  BY DEF Withdraw
<1>3. CASE UNCHANGED <<bal, reserve, totalSupply, lp>> /\ result' # "Ok"
  BY <1>2, <1>3
<1>4. CASE totalSupply # 0 /\ n <= lp[u] /\ Burn(l, u)
  <2>1. l \in Ledger /\ SumOf(l) = totalSupply /\ l[Zero] = lp[Zero]
    BY <1>1, <1>4, SharesToRedeem
  <2>. HIDE DEF l
  <2>2. amount \in [Assets -> Balance] /\ CanMoveBoth(bal, Contract, u, amount)
    BY <1>4, <2>1, RedeemedCanBePaid
  <2>3. \A z \in Assets : SumOf(paid[z]) = SumOf(bal[z])
    BY <1>1, <2>2, MovedInOrderSum
  <2>4. \A z \in Assets : /\ paid[z][Contract] = bal[z][Contract] - amount[z]
                          /\ paid[z][u] = bal[z][u] + amount[z]
    BY <1>1, <2>2, MovedInOrderEach
  <2>5. CASE amount[0] = 0 \/ amount[1] = 0
    <3>1. ~(amount[0] > 0 /\ amount[1] > 0)
      BY <2>2, <2>5 DEF Assets, Balance
    <3>2. /\ UNCHANGED <<bal, reserve>> /\ result' # "Ok"
          /\ totalSupply' = SupplyWithFee /\ lp' = LpWithFee(l)
      BY <1>4, <2>5, <3>1 DEF Burn, poolVars
    <3>. QED  BY <1>2, <1>4, <2>5, <3>2 DEF l
  <2>6. CASE ~(amount[0] = 0 \/ amount[1] = 0)
    <3>1. \A z \in Assets : amount[z] > 0
      BY <2>2, <2>6 DEF Assets, Balance
    <3>2. /\ bal' = paid /\ result' = "Ok" /\ Update(paid)
          /\ totalSupply' = SatSub(SupplyWithFee, liquidity)
          /\ lp' = SatDebit(LpWithFee(l), Contract, liquidity)
      BY <1>4, <2>2, <2>6 DEF Burn, SatDebit
    <3>. HIDE DEF paid, amount, liquidity
    <3>3. reserve' = [z \in Assets |-> bal'[z][Contract]]
      BY <3>2 DEF Update
    <3>. QED  BY <1>2, <1>4, <2>3, <2>4, <3>1, <3>2, <3>3 DEF l, liquidity, amount
  <2>. QED  BY <2>5, <2>6
<1>. QED  BY <1>1, <1>3, <1>4 DEF Withdraw, Fail, poolVars, shareVars

-----------------------------------------------------------------------------
(* How every step ends.                                                    *)

\* A step that does not run _update keeps the reserves and leaves the pool account at
\* least what it has, apart from skim, which leaves it the reserves.
Kept ==
    /\ UNCHANGED reserve
    /\ \A z \in Assets : bal'[z][Contract] \in Nat
    /\ \/ \A z \in Assets : bal'[z][Contract] >= bal[z][Contract]
       \/ result' = "Ok" /\ \A z \in Assets : bal'[z][Contract] = reserve[z]

\* A step that runs _update succeeds, and takes no reserve away altogether.
Settled ==
    /\ result' = "Ok" \/ bal' = bal
    /\ reserve' = [z \in Assets |-> bal'[z][Contract]]
    /\ \A z \in Assets : /\ bal'[z][Contract] \in Nat
                         /\ reserve[z] > 0 => bal'[z][Contract] > 0

\* Every step keeps the sums of both assets, and either keeps the reserves or settles.
LEMMA StepEnds ==
    ASSUME IssuanceFits, Sound, SupplyFits, [Next]_vars
    PROVE  /\ Kept \/ Settled
           /\ \A z \in Assets : SumOf(bal'[z]) = SumOf(bal[z])
<1>1. /\ Contract \in Accounts /\ TypeOK /\ IssuanceKept /\ totalSupply \in Nat
      /\ Users \subseteq Accounts /\ Amounts \subseteq Balance
  BY ConfigAssumption DEF Sound, TypeOK, Balance
<1>2. ASSUME NEW z \in Assets
      PROVE  /\ bal[z][Contract] \in Nat /\ reserve[z] \in Nat
             /\ reserve[z] <= bal[z][Contract]
  BY <1>1 DEF Sound, TypeOK, ReservesCovered, Ledger, Balance
<1>3. CASE UNCHANGED <<bal, reserve>>
  BY <1>2, <1>3 DEF Kept
<1>4. CASE Sync
  <2>1. bal' = bal /\ result' = "Ok" /\ reserve' = [z \in Assets |-> bal'[z][Contract]]
    BY <1>4 DEF Sync, Update
  <2>. QED  BY <1>2, <2>1 DEF Settled
<1>5. ASSUME NEW u \in Users, Skim(u)
      PROVE  Kept /\ \A z \in Assets : SumOf(bal'[z]) = SumOf(bal[z])
  BY <1>2, <1>5, SkimEnds DEF Kept
<1>6. ASSUME NEW u \in Users, NEW x \in Assets, NEW n \in Amounts,
             CurrenciesTransfer(x, u, n)
      PROVE  Kept /\ \A z \in Assets : SumOf(bal'[z]) = SumOf(bal[z])
  BY <1>1, <1>6, TransferEnds DEF Kept
<1>7. ASSUME NEW u \in Users, NEW x \in Assets, NEW n \in Amounts, Deposit(x, u, n)
      PROVE  (Kept \/ Settled) /\ \A z \in Assets : SumOf(bal'[z]) = SumOf(bal[z])
  <2>1. \A z \in Assets : /\ SumOf(bal'[z]) = SumOf(bal[z])
                          /\ bal'[z][Contract] \in Nat
                          /\ bal'[z][Contract] >= bal[z][Contract]
    BY <1>1, <1>7, DepositEnds
  <2>2. CASE UNCHANGED reserve
    BY <2>1, <2>2 DEF Kept
  <2>3. ASSUME NEW b \in [Assets -> Ledger], bal' = b, Mint(b, u)
        PROVE  Kept \/ Settled
    <3>1. \/ UNCHANGED reserve
          \/ result' = "Ok" /\ reserve' = [z \in Assets |-> bal'[z][Contract]]
      BY <2>3 DEF Mint, Update, poolVars
    <3>2. \A z \in Assets : reserve[z] > 0 => bal'[z][Contract] > 0
      BY <1>2, <2>1
    <3>. QED  BY <2>1, <3>1, <3>2 DEF Kept, Settled
  <2>. QED  BY <1>1, <1>7, <2>1, <2>2, <2>3, DepositEnds
<1>8. ASSUME NEW u \in Users, NEW x \in Assets, NEW n \in Amounts, Swap(x, u, n)
      PROVE  (Kept \/ Settled) /\ \A z \in Assets : SumOf(bal'[z]) = SumOf(bal[z])
  <2>. DEFINE y == Other(x)
              cost == GetAmountIn(n, reserve[x], reserve[y])
  <2>1. y \in Assets /\ Assets = {x, y} /\ n \in Nat
    BY <1>1 DEF Other, Assets, Balance
  <2>2. cost \in Nat
    <3>1. cost \in Balance
      BY <1>1, <2>1, GetAmountInType DEF TypeOK
    <3>. QED  BY <3>1 DEF Balance
  <2>. HIDE DEF y, cost
  <2>3. /\ \A z \in Assets : SumOf(bal'[z]) = SumOf(bal[z])
        /\ \/ /\ UNCHANGED reserve /\ result' # "Ok"
              /\ \A z \in Assets : /\ bal'[z][Contract] \in Nat
                                   /\ bal'[z][Contract] >= bal[z][Contract]
           \/ /\ result' = "Ok"
              /\ reserve' = [z \in Assets |-> bal'[z][Contract]]
              /\ n < reserve[y]
              /\ bal'[x][Contract] = bal[x][Contract] + cost
              /\ bal'[y][Contract] = bal[y][Contract] - n
    BY <1>8, <2>1, SwapEnds DEF y, cost
  <2>4. CASE UNCHANGED reserve /\ \A z \in Assets : /\ bal'[z][Contract] \in Nat
                                                    /\ bal'[z][Contract] >= bal[z][Contract]
    BY <2>3, <2>4 DEF Kept
  <2>5. CASE /\ result' = "Ok"
             /\ reserve' = [z \in Assets |-> bal'[z][Contract]]
             /\ n < reserve[y]
             /\ bal'[x][Contract] = bal[x][Contract] + cost
             /\ bal'[y][Contract] = bal[y][Contract] - n
    <3>1. /\ bal'[x][Contract] \in Nat /\ bal'[x][Contract] >= reserve[x]
          /\ bal'[y][Contract] \in Nat /\ bal'[y][Contract] > 0
          /\ reserve[x] \in Nat
      BY <1>2, <2>1, <2>2, <2>5
    <3>2. \A z \in Assets : /\ bal'[z][Contract] \in Nat
                            /\ reserve[z] > 0 => bal'[z][Contract] > 0
      BY <2>1, <3>1
    <3>. QED  BY <2>3, <2>5, <3>2 DEF Settled
  <2>. QED  BY <2>3, <2>4, <2>5
<1>9. ASSUME NEW u \in Users, NEW n \in Amounts, Withdraw(u, n)
      PROVE  (Kept \/ Settled) /\ \A z \in Assets : SumOf(bal'[z]) = SumOf(bal[z])
  <2>. DEFINE l == TransferLiquidity(lp, u, Contract, n)
              amount == Redeemed(l[Contract])
  <2>1. \/ UNCHANGED <<bal, reserve>>
        \/ /\ totalSupply # 0 /\ n <= lp[u]
           /\ result' = "Ok"
           /\ reserve' = [z \in Assets |-> bal'[z][Contract]]
           /\ \A z \in Assets : bal'[z][Contract] = bal[z][Contract] - amount[z]
    BY <1>9, WithdrawEnds
  <2>2. \A z \in Assets : SumOf(bal'[z]) = SumOf(bal[z])
    BY <1>9, WithdrawEnds
  <2>3. CASE /\ totalSupply # 0 /\ n <= lp[u]
             /\ result' = "Ok"
             /\ reserve' = [z \in Assets |-> bal'[z][Contract]]
             /\ \A z \in Assets : bal'[z][Contract] = bal[z][Contract] - amount[z]
    <3>1. l \in Ledger /\ SumOf(l) = totalSupply /\ l[Zero] = lp[Zero]
      BY <1>1, <2>3, SharesToRedeem DEF Sound
    <3>. HIDE DEF l
    <3>2. \A z \in Assets :
              /\ amount[z] \in Nat /\ amount[z] <= bal[z][Contract]
              /\ bal[z][Contract] > 0 => amount[z] < bal[z][Contract]
      BY <2>3, <3>1, RedeemedCanBePaid
    <3>. HIDE DEF amount
    <3>3. \A z \in Assets : /\ bal'[z][Contract] \in Nat
                            /\ reserve[z] > 0 => bal'[z][Contract] > 0
      BY <1>2, <2>3, <3>2
    <3>. QED  BY <2>2, <2>3, <3>3 DEF Settled
  <2>. QED  BY <1>3, <2>1, <2>2, <2>3
<1>10. ASSUME NEW u \in Users, NEW a \in FeeRecipients, SetFeeTo(u, a)
       PROVE  UNCHANGED <<bal, reserve>>
  BY <1>10 DEF SetFeeTo, poolVars
<1>11. CASE Tick \/ UNCHANGED vars
  <2>1. UNCHANGED <<bal, reserve>>
    BY <1>11 DEF Tick, vars, poolVars
  <2>. QED  BY <1>3, <2>1
<1>. QED  BY <1>3, <1>4, <1>5, <1>6, <1>7, <1>8, <1>9, <1>10, <1>11 DEF Next, Extrinsic

-----------------------------------------------------------------------------
(* The theorems on solvency.                                               *)

\* Genesis satisfies the inductive invariant.
LEMMA InitSound ==
    ASSUME Init
    PROVE  Sound
<1>1. \A x \in Assets : Genesis[x][Contract] \in Nat
  BY ConfigAssumption DEF Ledger, Balance
<1>2. ReservesCovered /\ IssuanceKept /\ MinLiquidityLocked
  BY <1>1 DEF Init, ReservesCovered, IssuanceKept, MinLiquidityLocked
<1>3. TypeOK /\ SharesConserved
  BY InitTypeOK, SumOfNothing DEF Init, SharesConserved
<1>. QED  BY <1>2, <1>3 DEF Sound

\* A step keeps the inductive invariant.
LEMMA StepSound ==
    ASSUME IssuanceFits, Sound, SupplyFits, totalSupply' < MaxBalance, [Next]_vars
    PROVE  Sound'
<1>1. Kept \/ Settled
  BY StepEnds
<1>2. \A z \in Assets : SumOf(bal'[z]) = SumOf(bal[z])
  BY StepEnds
<1>3. ASSUME NEW z \in Assets
      PROVE  reserve'[z] <= bal'[z][Contract]
  <2>1. /\ reserve[z] \in Nat /\ bal[z][Contract] \in Nat
        /\ reserve[z] <= bal[z][Contract]
    BY ConfigAssumption DEF Sound, TypeOK, ReservesCovered, Ledger, Balance
  <2>2. CASE Kept
    BY <2>1, <2>2 DEF Kept
  <2>3. CASE Settled
    BY <2>3 DEF Settled
  <2>. QED  BY <1>1, <2>2, <2>3
<1>4. ReservesCovered'
  BY <1>3 DEF ReservesCovered
<1>5. IssuanceKept'
  BY <1>2 DEF Sound, IssuanceKept
<1>6. TypeOK' /\ SharesConserved' /\ MinLiquidityLocked'
  BY StepTypeOK, StepShares, StepKeepsLock DEF Sound
<1>. QED  BY <1>4, <1>5, <1>6 DEF Sound

\* While the issuance of both assets and the supply of shares fit, the pool account always
\* holds the reserves, and no call makes or destroys tokens.
LEMMA AlwaysSound ==
    ASSUME IssuanceFits
    PROVE  Spec /\ []SupplyFits => []Sound
<1>1. Init => Sound
  BY InitSound
<1>2. Sound /\ SupplyFits /\ SupplyFits' /\ [Next]_vars => Sound'
  BY StepSound DEF SupplyFits
<1>. QED  BY <1>1, <1>2, PTL DEF Spec

\* The pool account always holds the reserves the pallet accounts for: no call, successful
\* or not, pays out tokens without _update.  The optimistic transfer of _swap and the two
\* payouts of burn and skim would break it if a later step of theirs could fail; while the
\* issuance fits, none can, at any width of the type and for any surplus in the account.
THEOREM PalletSolvent ==
    ASSUME IssuanceFits
    PROVE  Spec /\ []SupplyFits => []ReservesCovered
<1>1. Sound => ReservesCovered
  BY DEF Sound
<1>. QED  BY <1>1, AlwaysSound, PTL

\* A call that returns Err leaves the pool account every token it had, although no call
\* is rolled back.
THEOREM FailuresAreFree ==
    ASSUME IssuanceFits
    PROVE  Spec /\ []SupplyFits => FailedCallCostsNothing
<1>1. Sound /\ SupplyFits /\ [Next]_vars
        => [result' # "Ok" => \A x \in Assets : bal'[x][Contract] >= bal[x][Contract]]_vars
  <2>. SUFFICES ASSUME Sound, SupplyFits, [Next]_vars, result' # "Ok",
                       NEW x \in Assets
                PROVE  bal'[x][Contract] >= bal[x][Contract]
    OBVIOUS
  <2>1. bal[x][Contract] \in Nat
    BY ConfigAssumption DEF Sound, TypeOK, Ledger, Balance
  <2>. QED  BY <2>1, StepEnds DEF Kept, Settled
<1>. QED  BY <1>1, AlwaysSound, PTL DEF Spec, FailedCallCostsNothing

\* A pool with both reserves keeps both: a withdrawal leaves the part of the locked shares,
\* and a swap takes less than the reserve.
THEOREM PoolStaysOpen ==
    ASSUME IssuanceFits
    PROVE  Spec /\ []SupplyFits => NeverDrained
<1>1. Sound /\ SupplyFits /\ [Next]_vars
        => [\A x \in Assets : reserve[x] > 0 => reserve'[x] > 0]_vars
  <2>. SUFFICES ASSUME Sound, SupplyFits, [Next]_vars, NEW x \in Assets, reserve[x] > 0
                PROVE  reserve'[x] > 0
    OBVIOUS
  <2>. QED  BY StepEnds DEF Kept, Settled
<1>. QED  BY <1>1, AlwaysSound, PTL DEF Spec, NeverDrained

-----------------------------------------------------------------------------
(* What mint issues.                                                       *)

\* A deposit that succeeds gives the provider shares; while the supply fits, both are
\* counted exactly.  The first provider gets at most the geometric mean of the deposit,
\* a later one at most the deposit's part of either reserve.
LEMMA MintEnds ==
    ASSUME Sound, SupplyFits, totalSupply' < MaxBalance, NEW u \in Users,
           NEW b \in [Assets -> Ledger], bal' = b, Mint(b, u),
           \A z \in Assets : b[z][Contract] >= bal[z][Contract]
    PROVE  LET liquidity == Liquidity(Deposited(b))
               locked    == IF SupplyWithFee = 0 THEN MinimumLiquidity ELSE 0
           IN  \/ /\ UNCHANGED reserve /\ result' # "Ok"
                  /\ totalSupply' = SupplyWithFee + locked
                  /\ lp' = [LpWithFee(lp) EXCEPT ![Zero] = @ + locked]
               \/ /\ result' = "Ok"
                  /\ reserve' = [z \in Assets |-> bal'[z][Contract]]
                  /\ liquidity \in Nat /\ liquidity > 0
                  /\ totalSupply' = SupplyWithFee + locked + liquidity
                  /\ lp' = [[LpWithFee(lp) EXCEPT ![Zero] = @ + locked]
                                           EXCEPT ![u] = @ + liquidity]
                  /\ \A z \in Assets : reserve'[z] - reserve[z] \in Nat
                  /\ SupplyWithFee = 0 =>
                        (MinimumLiquidity + liquidity) * (MinimumLiquidity + liquidity)
                            <= (reserve'[0] - reserve[0]) * (reserve'[1] - reserve[1])
                  /\ SupplyWithFee # 0 =>
                        \A z \in Assets :
                            /\ reserve[z] > 0
                            /\ liquidity * reserve[z]
                                 <= (reserve'[z] - reserve[z]) * SupplyWithFee
<1>. DEFINE dep       == Deposited(b)
            liquidity == Liquidity(dep)
            locked    == IF SupplyWithFee = 0 THEN MinimumLiquidity ELSE 0
<1>1. /\ TypeOK /\ liquidity \in Balance /\ SupplyToMint \in Balance /\ LpToMint \in Ledger
      /\ LpWithFee(lp) \in Ledger /\ lp \in Ledger /\ Zero \in Accounts /\ u \in Accounts
      /\ Contract \in Accounts /\ MinimumLiquidity \in Balance /\ SupplyWithFee \in Balance
      /\ MinimumLiquidity \in Nat /\ MinimumLiquidity <= MaxBalance /\ SupplyWithFee \in Nat
      /\ SumOf(lp) = totalSupply /\ liquidity \in Nat
  BY MintType, FeeType, ConfigAssumption, WidthAssumption
     DEF Sound, TypeOK, Balance, SharesConserved
<1>2. SumOf(LpWithFee(lp)) = SupplyWithFee
  BY <1>1, FeeSum
<1>3. /\ SumOf(LpToMint) = SupplyToMint /\ SupplyToMint = SupplyWithFee + locked
      /\ LpToMint = [LpWithFee(lp) EXCEPT ![Zero] = @ + locked]
  <2>1. CASE SupplyWithFee = 0
    <3>1. SumOf(LpWithFee(lp)) + MinimumLiquidity <= MaxBalance /\ SumOf(LpWithFee(lp)) = 0
      BY <1>1, <1>2, <2>1
    <3>2. LpToMint = SatCredit(LpWithFee(lp), Zero, MinimumLiquidity)
      BY <2>1 DEF LpToMint, Credit, SatCredit
    <3>3. /\ LpToMint = [LpWithFee(lp) EXCEPT ![Zero] = @ + MinimumLiquidity]
          /\ SumOf(LpToMint) = SumOf(LpWithFee(lp)) + MinimumLiquidity
      BY <1>1, <3>1, <3>2, SatCreditSum
    <3>. QED  BY <1>1, <2>1, <3>1, <3>3 DEF SupplyToMint
  <2>2. CASE SupplyWithFee # 0
    <3>1. LpWithFee(lp) = [LpWithFee(lp) EXCEPT ![Zero] = @ + 0]
      BY <1>1 DEF Ledger, Balance
    <3>. QED  BY <1>1, <1>2, <2>2, <3>1 DEF LpToMint, SupplyToMint
  <2>. QED  BY <2>1, <2>2
<1>4. CASE liquidity = 0
  <2>1. /\ UNCHANGED reserve /\ result' # "Ok"
        /\ totalSupply' = SupplyToMint /\ lp' = LpToMint
    BY <1>4 DEF Mint, poolVars
  <2>. QED  BY <1>3, <2>1
<1>5. CASE liquidity > 0
  <2>1. /\ totalSupply' = SatAdd(SupplyToMint, liquidity)
        /\ lp' = SatCredit(LpToMint, u, liquidity)
        /\ Update(b) /\ result' = "Ok"
    BY <1>5 DEF Mint, Credit, SatCredit
  <2>2. reserve' = [z \in Assets |-> bal'[z][Contract]]
    BY <2>1 DEF Update
  <2>3. ASSUME NEW z \in Assets
        PROVE  /\ dep[z] = reserve'[z] - reserve[z] /\ dep[z] \in Balance
               /\ dep[z] \in Nat /\ reserve[z] \in Balance /\ reserve[z] \in Nat
    <3>1. /\ b[z][Contract] \in Balance /\ reserve[z] \in Balance
          /\ bal[z][Contract] \in Balance /\ reserve[z] <= bal[z][Contract]
          /\ b[z][Contract] >= bal[z][Contract]
      BY <1>1 DEF Sound, TypeOK, ReservesCovered, Ledger
    <3>2. reserve[z] <= b[z][Contract]
      BY <3>1 DEF Balance
    <3>3. dep[z] = SatSub(b[z][Contract], reserve[z]) /\ reserve'[z] = b[z][Contract]
      BY <2>2 DEF Deposited
    <3>. HIDE DEF dep
    <3>. QED  BY <3>1, <3>2, <3>3, SatSubSpec DEF Balance
  <2>. HIDE DEF dep
  <2>4. SupplyWithFee = 0 =>
            (MinimumLiquidity + liquidity) * (MinimumLiquidity + liquidity)
                <= (reserve'[0] - reserve[0]) * (reserve'[1] - reserve[1])
    <3>. SUFFICES ASSUME SupplyWithFee = 0
                  PROVE  (MinimumLiquidity + liquidity) * (MinimumLiquidity + liquidity)
                            <= (reserve'[0] - reserve[0]) * (reserve'[1] - reserve[1])
      OBVIOUS
    <3>1. liquidity = InitialLiquidity(dep[0], dep[1], MinimumLiquidity)
      BY DEF Liquidity
    <3>. HIDE DEF liquidity
    <3>2. (liquidity + MinimumLiquidity) * (liquidity + MinimumLiquidity) <= dep[0] * dep[1]
      BY <1>1, <1>5, <2>3, <3>1, InitialNeedsBoth DEF Assets
    <3>3. liquidity + MinimumLiquidity = MinimumLiquidity + liquidity
      BY <1>1
    <3>. QED  BY <2>3, <3>2, <3>3 DEF Assets
  <2>5. ASSUME SupplyWithFee # 0, NEW z \in Assets
        PROVE  /\ reserve[z] > 0
               /\ liquidity * reserve[z] <= (reserve'[z] - reserve[z]) * SupplyWithFee
    <3>. DEFINE part == ProportionalShare(dep[z], SupplyWithFee, reserve[z])
    <3>1. part \in Balance /\ part \in Nat
      <4>1. part \in Balance
        BY <1>1, <2>3, ProportionalShareType
      <4>. QED  BY <4>1 DEF Balance
    <3>2. liquidity <= part
      <4>1. /\ ProportionalShare(dep[0], SupplyWithFee, reserve[0]) \in Balance
            /\ ProportionalShare(dep[1], SupplyWithFee, reserve[1]) \in Balance
        BY <1>1, <2>3, ProportionalShareType DEF Assets
      <4>. QED  BY <2>5, <4>1 DEF Liquidity, MinOf, Assets, Balance
    <3>. HIDE DEF liquidity
    <3>3. reserve[z] # 0
      BY <1>1, <1>5, <3>2 DEF ProportionalShare, DivOrZero
    <3>4. part * reserve[z] <= dep[z] * SupplyWithFee
      BY <1>1, <2>3, <3>3, PartBelow DEF ProportionalShare
    <3>. HIDE DEF part
    <3>5. liquidity * reserve[z] <= part * reserve[z]
      BY <1>1, <2>3, <3>1, <3>2
    <3>6. /\ liquidity * reserve[z] \in Nat /\ part * reserve[z] \in Nat
          /\ dep[z] * SupplyWithFee \in Nat
      BY <1>1, <2>3, <3>1
    <3>7. liquidity * reserve[z] <= dep[z] * SupplyWithFee
      BY <3>4, <3>5, <3>6
    <3>. QED  BY <2>3, <3>3, <3>7
  <2>. HIDE DEF liquidity, locked
  <2>6. totalSupply' = SupplyToMint + liquidity /\ SupplyToMint + liquidity <= MaxBalance
    BY <1>1, <2>1, WidthAssumption DEF SatAdd, Balance
  <2>7. lp' = [LpToMint EXCEPT ![u] = @ + liquidity]
    <3>1. SumOf(LpToMint) + liquidity <= MaxBalance
      BY <1>3, <2>6
    <3>. QED  BY <1>1, <2>1, <3>1, SatCreditSum
  <2>8. \A z \in Assets : reserve'[z] - reserve[z] \in Nat
    BY <2>3
  <2>. QED  BY <1>1, <1>3, <1>5, <2>1, <2>2, <2>4, <2>5, <2>6, <2>7, <2>8
            DEF liquidity, locked, dep
<1>. QED  BY <1>1, <1>4, <1>5

-----------------------------------------------------------------------------
(* The pallet keeps a pool's promise.                                      *)

\* The price of a swap is computed exactly: a thousand times the product of both
\* issuances is a value of the type.
PricesFit == 1000 * (SumOf(Genesis[0]) * SumOf(Genesis[1])) <= MaxBalance

\* What a trade leaves: no share moves, no reserve is lost, and the product of the
\* reserves is at least what it was.
LEMMA SwapKeepsProduct ==
    ASSUME IssuanceFits, PricesFit, Sound, NEW x \in Assets, NEW y \in Assets,
           y = Other(x), NEW n \in Balance, n < reserve[y],
           GetAmountIn(n, reserve[x], reserve[y]) < MaxBalance,
           bal'[x][Contract] = bal[x][Contract] + GetAmountIn(n, reserve[x], reserve[y]),
           bal'[y][Contract] = bal[y][Contract] - n
    PROVE  bal'[0][Contract] * bal'[1][Contract] >= reserve[0] * reserve[1]
<1>. DEFINE cost == GetAmountIn(n, reserve[x], reserve[y])
            v == bal[x][Contract] + cost
            w == bal[y][Contract] - n
<1>1. /\ TypeOK /\ IssuanceKept /\ Contract \in Accounts /\ n \in Nat
      /\ {x, y} = {0, 1} /\ reserve[x] \in Balance /\ reserve[y] \in Balance
      /\ 0 \in Assets /\ 1 \in Assets
  BY ConfigAssumption DEF Sound, Other, Assets, Balance, TypeOK
<1>2. ASSUME NEW z \in Assets
      PROVE  /\ bal[z][Contract] \in Nat /\ reserve[z] \in Nat
             /\ reserve[z] <= bal[z][Contract] /\ reserve[z] <= SumOf(Genesis[z])
             /\ SumOf(Genesis[z]) \in Nat
  <2>1. /\ bal[z][Contract] \in Nat /\ bal[z][Contract] <= SumOf(bal[z])
        /\ SumOf(bal[z]) \in Nat
    BY <1>1, Room
  <2>2. SumOf(bal[z]) = SumOf(Genesis[z])
    BY <1>1 DEF IssuanceKept
  <2>3. reserve[z] \in Nat /\ reserve[z] <= bal[z][Contract]
    BY DEF Sound, TypeOK, ReservesCovered, Balance
  <2>. QED  BY <2>1, <2>2, <2>3
<1>3. 1000 * (reserve[x] * reserve[y]) <= MaxBalance
  <2>1. /\ 1000 * (reserve[0] * reserve[1]) <= MaxBalance
        /\ 1000 * (reserve[1] * reserve[0]) <= MaxBalance
    <3>. DEFINE a == reserve[0]
                b == reserve[1]
                s == SumOf(Genesis[0])
                t == SumOf(Genesis[1])
    <3>1. a \in Nat /\ b \in Nat /\ s \in Nat /\ t \in Nat /\ a <= s /\ b <= t
      BY <1>1, <1>2
    <3>2. 1000 * (s * t) <= MaxBalance
      BY DEF PricesFit
    <3>. HIDE DEF a, b, s, t
    <3>3. a * b <= s * t /\ a * b \in Nat /\ s * t \in Nat
      BY <3>1, ProductGrows
    <3>4. a * b = b * a
      BY <3>1
    <3>5. 1000 * (a * b) <= MaxBalance /\ 1000 * (b * a) <= MaxBalance
      BY <3>2, <3>3, <3>4, WidthAssumption
    <3>. QED  BY <3>5 DEF a, b
  <2>. QED  BY <2>1 DEF Other, Assets
<1>4. reserve[x] * reserve[y] <= v * w
  BY <1>1, <1>2, <1>3, TradeKeepsProduct
<1>5. cost \in Nat
  <2>1. cost \in Balance
    BY <1>1, GetAmountInType
  <2>. QED  BY <2>1 DEF Balance
<1>6. v \in Nat /\ w \in Nat
  <2>. HIDE DEF cost
  <2>. QED  BY <1>1, <1>2, <1>5
<1>7. bal'[x][Contract] = v /\ bal'[y][Contract] = w
  OBVIOUS
<1>. HIDE DEF v, w
<1>8. reserve[0] \in Nat /\ reserve[1] \in Nat /\ v * w \in Nat /\ v * w = w * v
      /\ reserve[0] * reserve[1] \in Nat /\ reserve[0] * reserve[1] = reserve[1] * reserve[0]
  BY <1>1, <1>2, <1>6
<1>9. CASE x = 0 /\ y = 1
  BY <1>4, <1>7, <1>8, <1>9
<1>10. CASE x = 1 /\ y = 0
  BY <1>4, <1>7, <1>8, <1>10
<1>. QED  BY <1>9, <1>10 DEF Other, Assets

\* What _mint_fee issues is a fee the promise allows.
LEMMA FeeIsAllowed ==
    ASSUME Sound, SupplyFits, MintFee \in 1 .. 5
    PROVE  /\ FeeShares \in Promise!Fees
           /\ FeeShares \in Nat /\ SupplyWithFee = totalSupply + FeeShares
           /\ LpWithFee(lp) = Promise!WithFee(FeeShares)
<1>1. /\ TypeOK /\ lp \in Ledger /\ SumOf(lp) = totalSupply /\ totalSupply \in Nat
      /\ totalSupply \in Balance /\ kLast \in Balance
      /\ SatMul(reserve[0], reserve[1]) \in Balance
  BY SatMulSpec DEF Sound, TypeOK, SharesConserved, Assets, Balance
<1>2. /\ FeeShares \in Nat /\ SupplyWithFee = totalSupply + FeeShares
      /\ LpWithFee(lp) = WithMore(lp, feeTo, FeeShares)
  BY <1>1, FeeExact
<1>3. FeeShares * MintFee <= totalSupply
  <2>1. ProtocolFee(SatMul(reserve[0], reserve[1]), kLast, totalSupply, MintFee) * MintFee
          <= totalSupply
    BY <1>1, ProtocolFeeBound
  <2>2. 0 * MintFee <= totalSupply
    BY <1>1
  <2>. QED  BY <2>1, <2>2 DEF FeeShares
<1>4. FeeShares <= totalSupply \div MintFee /\ totalSupply \div MintFee \in Nat
  BY <1>1, <1>2, <1>3, QuotientBound
<1>5. feeTo = NoAccount => FeeShares = 0
  BY DEF FeeShares, FeeOn
<1>6. FeeShares \in Promise!Fees
  BY <1>2, <1>4, <1>5 DEF Promise!Fees
<1>. QED  BY <1>2, <1>6 DEF Promise!WithFee, WithMore

\* mint opens the pool, adds to it, or leaves the locked minimum or the fee behind.
LEMMA MintKeepsPromise ==
    ASSUME Sound, SupplyFits, totalSupply' < MaxBalance, MintFee \in 1 .. 5,
           NEW u \in Users, NEW b \in [Assets -> Ledger], bal' = b, Mint(b, u),
           \A z \in Assets : b[z][Contract] >= bal[z][Contract], UNCHANGED feeTo
    PROVE  Promise!Next
<1>. DEFINE liquidity == Liquidity(Deposited(b))
<1>1. /\ TypeOK /\ lp \in Ledger /\ lp \in [Accounts -> Nat] /\ totalSupply \in Nat
      /\ MinimumLiquidity \in Nat /\ MinimumLiquidity > 0
      /\ u \in Accounts \ {Contract} /\ u \in Accounts /\ Contract \in Accounts
      /\ Zero \in Accounts /\ u # Contract
  BY ConfigAssumption DEF Sound, TypeOK, Balance, Ledger
<1>2. /\ FeeShares \in Promise!Fees /\ FeeShares \in Nat
      /\ SupplyWithFee = totalSupply + FeeShares
      /\ LpWithFee(lp) = Promise!WithFee(FeeShares)
  BY FeeIsAllowed
<1>3. /\ totalSupply = 0 => SupplyWithFee = 0
      /\ SupplyWithFee = 0 => totalSupply = 0 /\ FeeShares = 0 /\ LpWithFee(lp) = lp
  <2>1. SupplyWithFee = 0 => totalSupply = 0 /\ FeeShares = 0
    BY <1>1, <1>2
  <2>. QED  BY <1>1, <2>1, NoFeeWithoutSupply DEF LpWithFee
<1>4. \A a \in Accounts : Promise!WithFee(FeeShares)[a] \in Nat
  BY <1>1, <1>2 DEF Promise!WithFee
<1>5. DOMAIN Promise!WithFee(FeeShares) = Accounts
  BY DEF Promise!WithFee
<1>6. CASE SupplyWithFee = 0
  <2>1. \/ /\ UNCHANGED reserve
           /\ totalSupply' = SupplyWithFee + MinimumLiquidity
           /\ lp' = [lp EXCEPT ![Zero] = @ + MinimumLiquidity]
        \/ /\ liquidity \in Nat /\ liquidity > 0
           /\ totalSupply' = SupplyWithFee + MinimumLiquidity + liquidity
           /\ lp' = [[lp EXCEPT ![Zero] = @ + MinimumLiquidity] EXCEPT ![u] = @ + liquidity]
           /\ \A z \in Assets : reserve'[z] - reserve[z] \in Nat
           /\ (MinimumLiquidity + liquidity) * (MinimumLiquidity + liquidity)
                <= (reserve'[0] - reserve[0]) * (reserve'[1] - reserve[1])
    BY <1>3, <1>6, MintEnds
  <2>. HIDE DEF liquidity
  <2>2. CASE /\ UNCHANGED reserve
             /\ totalSupply' = SupplyWithFee + MinimumLiquidity
             /\ lp' = [lp EXCEPT ![Zero] = @ + MinimumLiquidity]
    <3>1. Promise!Lock
      BY <1>1, <1>3, <1>6, <2>2 DEF Promise!Lock
    <3>. QED  BY <3>1 DEF Promise!Next
  <2>3. CASE /\ liquidity \in Nat /\ liquidity > 0
             /\ totalSupply' = SupplyWithFee + MinimumLiquidity + liquidity
             /\ lp' = [[lp EXCEPT ![Zero] = @ + MinimumLiquidity] EXCEPT ![u] = @ + liquidity]
             /\ \A z \in Assets : reserve'[z] - reserve[z] \in Nat
             /\ (MinimumLiquidity + liquidity) * (MinimumLiquidity + liquidity)
                  <= (reserve'[0] - reserve[0]) * (reserve'[1] - reserve[1])
    <3>. DEFINE g == [lp EXCEPT ![Zero] = @ + MinimumLiquidity]
    <3>1. totalSupply' = MinimumLiquidity + liquidity /\ totalSupply' > MinimumLiquidity
      BY <1>1, <1>6, <2>3
    <3>2. g[u] \in Nat /\ g[u] + totalSupply' - MinimumLiquidity = g[u] + liquidity
      <4>1. g[u] \in Nat
        BY <1>1
      <4>. HIDE DEF g
      <4>. QED  BY <1>1, <2>3, <3>1, <4>1
    <3>. HIDE DEF g
    <3>3. lp' = [g EXCEPT ![u] = @ + totalSupply' - MinimumLiquidity]
      BY <2>3, <3>2 DEF g
    <3>4. \A z \in Promise!Sides : reserve'[z] - reserve[z] >= 0
      BY <2>3 DEF Promise!Sides, Assets
    <3>5. totalSupply' * totalSupply'
            <= (reserve'[0] - reserve[0]) * (reserve'[1] - reserve[1])
      BY <2>3, <3>1
    <3>6. Promise!Open(u)
      BY <1>3, <1>6, <3>1, <3>3, <3>4, <3>5 DEF Promise!Open, Promise!Sides, g
    <3>. QED  BY <1>1, <3>6 DEF Promise!Next
  <2>. QED  BY <2>1, <2>2, <2>3
<1>7. CASE SupplyWithFee # 0
  <2>. DEFINE g == Promise!WithFee(FeeShares)
  <2>0. g = [g EXCEPT ![Zero] = @ + 0]
    <3>1. g = [a \in Accounts |-> g[a]] /\ g[Zero] \in Nat
      BY <1>1, <1>4 DEF Promise!WithFee
    <3>. HIDE DEF g
    <3>. QED  BY <1>1, <3>1
  <2>1. \/ /\ UNCHANGED reserve
           /\ totalSupply' = SupplyWithFee + 0
           /\ lp' = [LpWithFee(lp) EXCEPT ![Zero] = @ + 0]
        \/ /\ liquidity \in Nat /\ liquidity > 0
           /\ totalSupply' = SupplyWithFee + 0 + liquidity
           /\ lp' = [[LpWithFee(lp) EXCEPT ![Zero] = @ + 0] EXCEPT ![u] = @ + liquidity]
           /\ \A z \in Assets :
                  /\ reserve[z] > 0
                  /\ liquidity * reserve[z] <= (reserve'[z] - reserve[z]) * SupplyWithFee
    BY <1>7, MintEnds
  <2>2. totalSupply > 0
    BY <1>1, <1>3, <1>7
  <2>. HIDE DEF liquidity, g
  <2>3. CASE /\ UNCHANGED reserve
             /\ totalSupply' = SupplyWithFee + 0
             /\ lp' = [LpWithFee(lp) EXCEPT ![Zero] = @ + 0]
    <3>1. lp' = g /\ totalSupply' = totalSupply + FeeShares
      BY <1>1, <1>2, <2>0, <2>3 DEF g
    <3>2. g[u] - lp'[u] = 0 /\ g[u] \in Nat /\ g[Contract] \in Nat
      BY <1>1, <1>4, <3>1 DEF g
    <3>3. lp' = [[g EXCEPT ![u] = @ - 0] EXCEPT ![Contract] = @ + 0]
      <4>1. g = [a \in Accounts |-> g[a]]
        BY DEF g, Promise!WithFee
      <4>. QED  BY <1>1, <3>1, <3>2, <4>1
    <3>4. 0 \in 0 .. lp[u]
      BY <1>1
    <3>5. Promise!Strand(u, FeeShares)
      BY <2>3, <3>1, <3>2, <3>3, <3>4 DEF Promise!Strand, g
    <3>. QED  BY <1>1, <1>2, <3>5 DEF Promise!Next
  <2>4. CASE /\ liquidity \in Nat /\ liquidity > 0
             /\ totalSupply' = SupplyWithFee + 0 + liquidity
             /\ lp' = [[LpWithFee(lp) EXCEPT ![Zero] = @ + 0] EXCEPT ![u] = @ + liquidity]
             /\ \A z \in Assets :
                  /\ reserve[z] > 0
                  /\ liquidity * reserve[z] <= (reserve'[z] - reserve[z]) * SupplyWithFee
    <3>1. totalSupply' - totalSupply - FeeShares = liquidity
      BY <1>1, <1>2, <2>4
    <3>2. lp' = [g EXCEPT ![u] = @ + liquidity]
      BY <1>2, <2>0, <2>4 DEF g
    <3>3. \A z \in Promise!Sides :
              /\ reserve[z] > 0
              /\ liquidity * reserve[z] <= (reserve'[z] - reserve[z]) * (totalSupply + FeeShares)
      BY <1>2, <2>4 DEF Promise!Sides, Assets
    <3>4. Promise!Provide(u, FeeShares)
      BY <2>2, <2>4, <3>1, <3>2, <3>3 DEF Promise!Provide, g
    <3>. QED  BY <1>1, <1>2, <3>4 DEF Promise!Next
  <2>. QED  BY <2>1, <2>3, <2>4
<1>. QED  BY <1>6, <1>7

\* burn redeems at most the shares' part, or leaves the caller's shares with the pool.
LEMMA WithdrawKeepsPromise ==
    ASSUME IssuanceFits, Sound, SupplyFits, MintFee \in 1 .. 5,
           NEW u \in Users, NEW n \in Amounts, Withdraw(u, n)
    PROVE  Promise!Next \/ UNCHANGED <<reserve, totalSupply, lp, feeTo>>
<1>. DEFINE l == TransferLiquidity(lp, u, Contract, n)
            liquidity == l[Contract]
            amount == Redeemed(liquidity)
            g == Promise!WithFee(FeeShares)
<1>1. /\ TypeOK /\ SharesConserved /\ lp \in Ledger /\ lp \in [Accounts -> Nat]
      /\ totalSupply \in Nat /\ totalSupply \in Balance /\ n \in Nat
      /\ u \in Accounts \ {Contract} /\ u \in Accounts /\ Contract \in Accounts
      /\ u # Contract /\ lp[Contract] \in Nat /\ lp[u] \in Nat
  BY ConfigAssumption DEF Sound, TypeOK, Balance, Ledger
<1>2. /\ FeeShares \in Promise!Fees /\ FeeShares \in Nat
      /\ SupplyWithFee = totalSupply + FeeShares
  BY FeeIsAllowed
<1>3. g = WithMore(lp, feeTo, FeeShares) /\ g \in [Accounts -> Nat]
  BY <1>1, <1>2 DEF Promise!WithFee, WithMore
<1>4. UNCHANGED feeTo
  BY WithdrawEnds
<1>5. ASSUME totalSupply # 0, n <= lp[u]
      PROVE  /\ l \in Ledger /\ SumOf(l) = totalSupply /\ l[Zero] = lp[Zero]
             /\ liquidity = lp[Contract] + n
             /\ LpWithFee(l) = Moved(g, u, Contract, n)
  <2>1. l = [[lp EXCEPT ![u] = @ - n] EXCEPT ![Contract] = @ + n]
    BY <1>1, <1>5, SharesToRedeem
  <2>2. /\ l \in Ledger /\ SumOf(l) = totalSupply /\ l[Zero] = lp[Zero]
        /\ liquidity = lp[Contract] + n
    BY <1>1, <1>5, SharesToRedeem
  <2>3. l = Moved(lp, u, Contract, n)
    BY <2>1 DEF Moved
  <2>. HIDE DEF l, g
  <2>4. LpWithFee(l) = WithMore(l, feeTo, FeeShares)
    BY <1>1, <2>2, FeeExact
  <2>5. WithMore(Moved(lp, u, Contract, n), feeTo, FeeShares)
          = Moved(WithMore(lp, feeTo, FeeShares), u, Contract, n)
    BY <1>1, <1>2, CreditAndTransfer
  <2>. QED  BY <1>3, <2>2, <2>3, <2>4, <2>5
<1>6. CASE /\ totalSupply # 0 /\ n <= lp[u] /\ UNCHANGED reserve
           /\ totalSupply' = SupplyWithFee /\ lp' = LpWithFee(l)
  <2>1. lp' = Moved(g, u, Contract, n)
    BY <1>5, <1>6
  <2>. HIDE DEF g
  <2>2. g[u] - lp'[u] = n
    <3>1. g[u] \in Nat /\ lp'[u] = g[u] - n
      BY <1>1, <1>3, <2>1 DEF Moved
    <3>. QED  BY <1>1, <3>1
  <2>3. n \in 0 .. lp[u]
    BY <1>1, <1>6
  <2>4. Promise!Strand(u, FeeShares)
    BY <1>2, <1>4, <1>6, <2>1, <2>2, <2>3 DEF Promise!Strand, Moved, g
  <2>. QED  BY <1>1, <1>2, <2>4 DEF Promise!Next
<1>7. CASE /\ totalSupply # 0 /\ n <= lp[u]
           /\ totalSupply' = SatSub(SupplyWithFee, liquidity)
           /\ lp' = SatDebit(LpWithFee(l), Contract, liquidity)
           /\ reserve' = [z \in Assets |-> bal'[z][Contract]]
           /\ \A z \in Assets : /\ amount[z] > 0
                                /\ bal'[z][Contract] = bal[z][Contract] - amount[z]
  <2>1. /\ l \in Ledger /\ SumOf(l) = totalSupply /\ l[Zero] = lp[Zero]
        /\ liquidity = lp[Contract] + n
        /\ LpWithFee(l) = Moved(g, u, Contract, n)
    BY <1>5, <1>7
  <2>. HIDE DEF l, g
  <2>2. /\ liquidity \in Nat /\ liquidity < totalSupply /\ totalSupply <= SupplyWithFee
        /\ SupplyWithFee \in Nat
        /\ \A z \in Assets :
              /\ amount[z] \in Nat /\ amount[z] <= bal[z][Contract]
              /\ amount[z] * SupplyWithFee <= liquidity * bal[z][Contract]
    BY <1>7, <2>1, RedeemedCanBePaid
  <2>3. liquidity > 0
    <3>1. liquidity # 0
      <4>. SUFFICES ASSUME liquidity = 0
                    PROVE  FALSE
        OBVIOUS
      <4>1. amount[0] * SupplyWithFee <= 0
        <5>1. bal[0][Contract] \in Nat
          BY <1>1 DEF TypeOK, Ledger, Balance, Assets
        <5>2. amount[0] * SupplyWithFee <= 0 * bal[0][Contract]
          BY <2>2 DEF Assets
        <5>. QED  BY <5>1, <5>2
      <4>2. amount[0] \in Nat /\ amount[0] > 0 /\ SupplyWithFee > 0
        BY <1>1, <1>7, <2>2 DEF Assets
      <4>. HIDE DEF amount
      <4>. QED  BY <2>2, <4>1, <4>2
    <3>. QED  BY <2>2, <3>1
  <2>. HIDE DEF liquidity
  <2>4. liquidity \in Balance /\ SupplyWithFee \in Balance
    <3>1. SupplyWithFee \in Balance
      BY <1>1, FeeType
    <3>. QED  BY <1>1, <2>2, <3>1, WidthAssumption DEF Balance
  <2>5. /\ totalSupply' = SupplyWithFee - liquidity /\ totalSupply' > 0
        /\ totalSupply + FeeShares - totalSupply' = liquidity
        /\ liquidity - lp[Contract] = n
    <3>1. totalSupply' = SupplyWithFee - liquidity
      BY <1>1, <1>7, <2>2, <2>4, SatSubSpec
    <3>. QED  BY <1>1, <1>2, <2>1, <2>2, <3>1
  <2>6. lp' = [[g EXCEPT ![u] = @ - n] EXCEPT ![Contract] = @ - lp[Contract]]
    <3>1. Moved(g, u, Contract, n) \in Ledger /\ liquidity <= Moved(g, u, Contract, n)[Contract]
      <4>1. Moved(g, u, Contract, n) \in Ledger
        BY <1>1, <2>1, FeeType
      <4>2. Moved(g, u, Contract, n)[Contract] = g[Contract] + n /\ g[Contract] \in Nat
        BY <1>1, <1>3 DEF Moved
      <4>3. g[Contract] >= lp[Contract]
        BY <1>1, <1>2, <1>3 DEF WithMore
      <4>. QED  BY <1>1, <2>1, <4>1, <4>2, <4>3
    <3>2. SatDebit(Moved(g, u, Contract, n), Contract, liquidity)
            = WithLess(Moved(g, u, Contract, n), Contract, liquidity)
      BY <1>1, <2>4, <3>1, SatDebitSum DEF WithLess
    <3>3. WithLess(Moved(g, u, Contract, n), Contract, lp[Contract] + n)
            = WithLess(WithLess(g, u, n), Contract, lp[Contract])
      BY <1>1, <1>3, TransferAndTake
    <3>. QED  BY <1>7, <2>1, <3>2, <3>3 DEF WithLess
  <2>7. ASSUME NEW z \in Assets
        PROVE  reserve'[z] * (totalSupply + FeeShares) >= reserve[z] * totalSupply'
    <3>. DEFINE b == bal[z][Contract]
                p == amount[z]
    <3>1. /\ b \in Nat /\ reserve[z] \in Nat /\ reserve[z] <= b /\ p \in Nat /\ p <= b
          /\ p * SupplyWithFee <= liquidity * b /\ reserve'[z] = b - p
      BY <1>1, <1>7, <2>2 DEF Sound, TypeOK, ReservesCovered, Ledger, Balance
    <3>. HIDE DEF b, p
    <3>2. liquidity <= SupplyWithFee
      BY <1>1, <2>2
    <3>3. reserve[z] * (SupplyWithFee - liquidity) <= (b - p) * SupplyWithFee
      BY <2>2, <3>1, <3>2, PayoutKeepsValue
    <3>4. reserve[z] * totalSupply' <= reserve'[z] * (totalSupply + FeeShares)
      BY <1>2, <2>5, <3>1, <3>3
    <3>5. reserve[z] * totalSupply' \in Int /\ reserve'[z] * (totalSupply + FeeShares) \in Int
      BY <1>1, <1>2, <2>2, <2>5, <3>1
    <3>. QED  BY <3>4, <3>5
  <2>8. n \in 0 .. lp[u]
    BY <1>1, <1>7
  <2>9. \A z \in Promise!Sides :
            reserve'[z] * (totalSupply + FeeShares) >= reserve[z] * totalSupply'
    BY <2>7 DEF Promise!Sides, Assets
  <2>10. Promise!Redeem(u, FeeShares)
    BY <1>4, <2>3, <2>5, <2>6, <2>8, <2>9 DEF Promise!Redeem, g
  <2>. QED  BY <1>1, <1>2, <2>10 DEF Promise!Next
<1>8. CASE UNCHANGED <<reserve, totalSupply, lp>>
  BY <1>4, <1>8
<1>. QED  BY <1>6, <1>7, <1>8, WithdrawEnds

\* A swap that pays out, as a trade of the promise.
LEMMA SwapKeepsPromise ==
    ASSUME IssuanceFits, PricesFit, Sound, SupplyFits, NEW u \in Users, NEW x \in Assets,
           NEW n \in Amounts, Swap(x, u, n)
    PROVE  /\ UNCHANGED <<totalSupply, lp, feeTo>>
           /\ \/ UNCHANGED reserve
              \/ /\ reserve'[0] * reserve'[1] >= reserve[0] * reserve[1]
                 /\ \A z \in Assets : reserve[z] > 0 => reserve'[z] > 0
<1>. DEFINE y == Other(x)
<1>1. y \in Assets /\ Assets = {x, y} /\ n \in Balance
  BY ConfigAssumption DEF Other, Assets
<1>2. UNCHANGED <<totalSupply, lp, feeTo>>
  BY <1>1, SwapEnds
<1>3. \/ UNCHANGED reserve
      \/ /\ reserve' = [z \in Assets |-> bal'[z][Contract]]
         /\ n < reserve[y]
         /\ GetAmountIn(n, reserve[x], reserve[y]) < MaxBalance
         /\ bal'[x][Contract] = bal[x][Contract] + GetAmountIn(n, reserve[x], reserve[y])
         /\ bal'[y][Contract] = bal[y][Contract] - n
  BY <1>1, SwapEnds
<1>4. [Next]_vars
  BY DEF Next, Extrinsic
<1>5. \A z \in Assets : reserve[z] > 0 => reserve'[z] > 0
  BY <1>4, StepEnds DEF Kept, Settled
<1>6. CASE /\ reserve' = [z \in Assets |-> bal'[z][Contract]]
           /\ n < reserve[y]
           /\ GetAmountIn(n, reserve[x], reserve[y]) < MaxBalance
           /\ bal'[x][Contract] = bal[x][Contract] + GetAmountIn(n, reserve[x], reserve[y])
           /\ bal'[y][Contract] = bal[y][Contract] - n
  <2>. HIDE DEF y
  <2>1. bal'[0][Contract] * bal'[1][Contract] >= reserve[0] * reserve[1]
    BY <1>1, <1>6, SwapKeepsProduct DEF y
  <2>2. reserve'[0] = bal'[0][Contract] /\ reserve'[1] = bal'[1][Contract]
    BY <1>6 DEF Assets
  <2>. QED  BY <1>2, <1>5, <2>1, <2>2
<1>. QED  BY <1>2, <1>3, <1>6

\* sync takes over the balances, which only adds to the reserves.
LEMMA SyncKeepsPromise ==
    ASSUME Sound, Sync
    PROVE  /\ UNCHANGED <<totalSupply, lp, feeTo>>
           /\ reserve'[0] * reserve'[1] >= reserve[0] * reserve[1]
           /\ \A z \in Assets : reserve[z] > 0 => reserve'[z] > 0
<1>1. ASSUME NEW z \in Assets
      PROVE  /\ reserve[z] \in Nat /\ reserve'[z] \in Nat /\ reserve[z] <= reserve'[z]
  <2>1. reserve'[z] = bal[z][Contract] /\ bal[z][Contract] \in Nat /\ reserve[z] \in Nat
    BY ConfigAssumption DEF Sync, Update, Sound, TypeOK, Ledger, Balance
  <2>. QED  BY <2>1 DEF Sound, ReservesCovered
<1>2. UNCHANGED <<totalSupply, lp, feeTo>>
  BY DEF Sync, shareVars
<1>3. reserve'[0] * reserve'[1] >= reserve[0] * reserve[1]
  <2>1. /\ reserve[0] * reserve[1] <= reserve'[0] * reserve'[1]
        /\ reserve[0] * reserve[1] \in Nat /\ reserve'[0] * reserve'[1] \in Nat
    BY <1>1, ProductGrows DEF Assets
  <2>. QED  BY <2>1
<1>. QED  BY <1>1, <1>2, <1>3

\* Every step of the pallet is a step of the promise or leaves its state alone.
LEMMA StepKeepsPromise ==
    ASSUME IssuanceFits, PricesFit, MintFee \in 1 .. 5, Sound, SupplyFits, SupplyFits',
           [Next]_vars
    PROVE  [Promise!Next]_(Promise!vars)
<1>1. CASE UNCHANGED <<reserve, totalSupply, lp, feeTo>>
  BY <1>1 DEF Promise!vars
<1>2. ASSUME UNCHANGED <<totalSupply, lp, feeTo>>,
             reserve'[0] * reserve'[1] >= reserve[0] * reserve[1],
             \A z \in Assets : reserve[z] > 0 => reserve'[z] > 0
      PROVE  Promise!Next
  <2>1. Promise!Trade
    BY <1>2 DEF Promise!Trade, Promise!Sides, Assets
  <2>. QED  BY <2>1 DEF Promise!Next
<1>3. CASE Sync
  BY <1>2, <1>3, SyncKeepsPromise
<1>4. CASE Tick \/ UNCHANGED vars
  <2>1. UNCHANGED <<reserve, totalSupply, lp, feeTo>>
    BY <1>4 DEF Tick, vars, poolVars, shareVars
  <2>. QED  BY <1>1, <2>1
<1>5. ASSUME NEW u \in Users, NEW a \in FeeRecipients, SetFeeTo(u, a)
      PROVE  [Promise!Next]_(Promise!vars)
  <2>1. UNCHANGED <<reserve, totalSupply, lp>> /\ (feeTo' = feeTo \/ feeTo' \in Accounts)
    BY <1>5, ConfigAssumption DEF SetFeeTo, poolVars, shareVars
  <2>2. CASE feeTo' \in Accounts
    BY <2>1, <2>2 DEF Promise!NameRecipient, Promise!Next
  <2>. QED  BY <1>1, <2>1, <2>2
<1>6. ASSUME NEW u \in Users, Skim(u)
      PROVE  UNCHANGED <<reserve, totalSupply, lp, feeTo>>
  BY <1>6, SkimEnds
<1>7. ASSUME NEW u \in Users, NEW x \in Assets, NEW n \in Amounts,
             CurrenciesTransfer(x, u, n)
      PROVE  UNCHANGED <<reserve, totalSupply, lp, feeTo>>
  BY <1>7 DEF CurrenciesTransfer, poolVars, shareVars
<1>8. ASSUME NEW u \in Users, NEW x \in Assets, NEW n \in Amounts, Swap(x, u, n)
      PROVE  [Promise!Next]_(Promise!vars)
  BY <1>1, <1>2, <1>8, SwapKeepsPromise
<1>9. ASSUME NEW u \in Users, NEW x \in Assets, NEW n \in Amounts, Deposit(x, u, n)
      PROVE  [Promise!Next]_(Promise!vars)
  <2>1. /\ \A y \in Assets : bal'[y][Contract] >= bal[y][Contract]
        /\ \/ UNCHANGED <<reserve, totalSupply, lp, feeTo>>
           \/ /\ UNCHANGED feeTo
              /\ \E b \in [Assets -> Ledger] : bal' = b /\ Mint(b, u)
    BY <1>9, DepositEnds DEF Sound
  <2>2. ASSUME UNCHANGED feeTo, NEW b \in [Assets -> Ledger], bal' = b, Mint(b, u)
        PROVE  Promise!Next
    <3>1. totalSupply' < MaxBalance
      BY DEF SupplyFits
    <3>2. \A y \in Assets : b[y][Contract] >= bal[y][Contract]
      BY <2>1, <2>2
    <3>. QED  BY <2>2, <3>1, <3>2, MintKeepsPromise
  <2>. QED  BY <1>1, <2>1, <2>2
<1>10. ASSUME NEW u \in Users, NEW n \in Amounts, Withdraw(u, n)
       PROVE  [Promise!Next]_(Promise!vars)
  BY <1>1, <1>10, WithdrawKeepsPromise
<1>. QED  BY <1>1, <1>3, <1>4, <1>5, <1>6, <1>7, <1>8, <1>9, <1>10 DEF Next, Extrinsic

\* While nothing saturates, the pallet implements the specification of a liquidity pool
\* whose failed calls may leave the fee, the locked minimum or stranded shares behind: in
\* particular, whatever it rounds is rounded in favour of those who stay.
THEOREM PalletIsAPool ==
    ASSUME IssuanceFits, PricesFit, MintFee \in 1 .. 5
    PROVE  Spec /\ []SupplyFits => ImplementsPool
<1>1. Init => Promise!Init
  BY DEF Init, Promise!Init, Promise!Sides, Assets
<1>2. Sound /\ SupplyFits /\ SupplyFits' /\ [Next]_vars => [Promise!Next]_(Promise!vars)
  BY StepKeepsPromise
<1>. QED  BY <1>1, <1>2, AlwaysSound, PTL DEF Spec, ImplementsPool, Promise!Spec

-----------------------------------------------------------------------------
(* The value of a share, and leaving the pool.                             *)

\* What the supply and the reserves are after a step, for the value of a share.
LEMMA StepKeepsValue ==
    ASSUME IssuanceFits, PricesFit, Sound, SupplyFits, SupplyFits', TypeOK',
           [Next]_vars, totalSupply > 0
    PROVE  reserve[0] * reserve[1] * totalSupply' * totalSupply'
             <= reserve'[0] * reserve'[1] * SupplyWithFee * SupplyWithFee
<1>1. /\ TypeOK /\ lp \in Ledger /\ SumOf(lp) = totalSupply /\ totalSupply \in Nat
      /\ 0 \in Assets /\ 1 \in Assets /\ totalSupply' \in Nat
      /\ \A z \in Assets : reserve[z] \in Nat /\ reserve'[z] \in Nat
  BY DEF Sound, TypeOK, SharesConserved, Balance, Assets
<1>2. /\ FeeShares \in Nat /\ SupplyWithFee = totalSupply + FeeShares
  BY <1>1, FeeExact
<1>3. SupplyWithFee \in Nat /\ totalSupply <= SupplyWithFee /\ SupplyWithFee # 0
  BY <1>1, <1>2
<1>4. SUFFICES \/ \A z \in Assets : reserve[z] * totalSupply' <= reserve'[z] * SupplyWithFee
               \/ totalSupply' <= SupplyWithFee
                  /\ reserve[0] * reserve[1] <= reserve'[0] * reserve'[1]
  BY <1>1, <1>3, ValueKept
<1>5. ASSUME NEW a \in Nat, NEW b \in Nat
      PROVE  a * b \in Nat
  OBVIOUS
<1>6. CASE UNCHANGED reserve /\ totalSupply' \in {totalSupply, SupplyWithFee}
  <2>1. totalSupply' <= SupplyWithFee
    BY <1>3, <1>6
  <2>2. reserve'[0] * reserve'[1] = reserve[0] * reserve[1] /\ reserve[0] * reserve[1] \in Nat
    BY <1>1, <1>5, <1>6
  <2>. QED  BY <2>1, <2>2
<1>7. CASE Tick \/ UNCHANGED vars
  BY <1>6, <1>7 DEF Tick, vars, poolVars, shareVars
<1>8. CASE Sync
  <2>1. /\ totalSupply' = totalSupply
        /\ reserve'[0] * reserve'[1] >= reserve[0] * reserve[1]
    BY <1>8, SyncKeepsPromise
  <2>2. reserve[0] * reserve[1] \in Nat /\ reserve'[0] * reserve'[1] \in Nat
    BY <1>1, <1>5
  <2>. QED  BY <1>3, <2>1, <2>2
<1>9. ASSUME NEW u \in Users, Extrinsic(u)
      PROVE  \/ \A z \in Assets : reserve[z] * totalSupply' <= reserve'[z] * SupplyWithFee
             \/ totalSupply' <= SupplyWithFee
                /\ reserve[0] * reserve[1] <= reserve'[0] * reserve'[1]
  <2>1. CASE \E a \in FeeRecipients : SetFeeTo(u, a)
    BY <1>6, <2>1 DEF SetFeeTo, poolVars, shareVars
  <2>2. CASE Skim(u)
    BY <1>6, <2>2 DEF Skim, poolVars, shareVars
  <2>3. ASSUME NEW x \in Assets, NEW n \in Amounts, CurrenciesTransfer(x, u, n)
        PROVE  UNCHANGED reserve /\ totalSupply' = totalSupply
    BY <2>3 DEF CurrenciesTransfer, poolVars, shareVars
  <2>4. ASSUME NEW x \in Assets, NEW n \in Amounts, Swap(x, u, n)
        PROVE  \/ UNCHANGED reserve /\ totalSupply' = totalSupply
               \/ totalSupply' <= SupplyWithFee
                  /\ reserve[0] * reserve[1] <= reserve'[0] * reserve'[1]
    <3>1. /\ totalSupply' = totalSupply
          /\ UNCHANGED reserve \/ reserve'[0] * reserve'[1] >= reserve[0] * reserve[1]
      BY <2>4, SwapKeepsPromise
    <3>2. reserve[0] * reserve[1] \in Nat /\ reserve'[0] * reserve'[1] \in Nat
      BY <1>1, <1>5
    <3>. QED  BY <1>3, <3>1, <3>2
  <2>5. ASSUME NEW x \in Assets, NEW n \in Amounts, Deposit(x, u, n)
        PROVE  \/ UNCHANGED reserve /\ totalSupply' \in {totalSupply, SupplyWithFee}
               \/ \A z \in Assets : reserve[z] * totalSupply' <= reserve'[z] * SupplyWithFee
    <3>1. /\ \A y \in Assets : bal'[y][Contract] >= bal[y][Contract]
          /\ \/ UNCHANGED <<reserve, totalSupply>>
             \/ \E b \in [Assets -> Ledger] : bal' = b /\ Mint(b, u)
      BY <1>1, <2>5, DepositEnds
    <3>2. ASSUME NEW b \in [Assets -> Ledger], bal' = b, Mint(b, u)
          PROVE  \/ UNCHANGED reserve /\ totalSupply' = SupplyWithFee
                 \/ \A z \in Assets : reserve[z] * totalSupply' <= reserve'[z] * SupplyWithFee
      <4>. DEFINE liquidity == Liquidity(Deposited(b))
      <4>1. totalSupply' < MaxBalance /\ \A y \in Assets : b[y][Contract] >= bal[y][Contract]
        BY <3>1, <3>2 DEF SupplyFits
      <4>2. \/ UNCHANGED reserve /\ totalSupply' = SupplyWithFee + 0
            \/ /\ liquidity \in Nat
               /\ totalSupply' = SupplyWithFee + 0 + liquidity
               /\ \A z \in Assets : reserve'[z] - reserve[z] \in Nat
               /\ \A z \in Assets :
                    liquidity * reserve[z] <= (reserve'[z] - reserve[z]) * SupplyWithFee
        BY <1>3, <3>2, <4>1, MintEnds
      <4>. HIDE DEF liquidity
      <4>3. ASSUME liquidity \in Nat, totalSupply' = SupplyWithFee + 0 + liquidity,
                   NEW z \in Assets, reserve'[z] - reserve[z] \in Nat,
                   liquidity * reserve[z] <= (reserve'[z] - reserve[z]) * SupplyWithFee
            PROVE  reserve[z] * totalSupply' <= reserve'[z] * SupplyWithFee
        <5>. DEFINE d == reserve'[z] - reserve[z]
                    r == reserve[z]
        <5>1. d \in Nat /\ r \in Nat /\ liquidity * r <= d * SupplyWithFee
              /\ reserve'[z] = r + d /\ totalSupply' = SupplyWithFee + liquidity
          BY <1>1, <1>3, <4>3
        <5>. HIDE DEF d, r
        <5>2. r * (SupplyWithFee + liquidity) <= (r + d) * SupplyWithFee
          BY <1>3, <4>3, <5>1, DepositKeepsValue
        <5>. QED  BY <5>1, <5>2 DEF r
      <4>. QED  BY <1>3, <4>2, <4>3
    <3>. QED  BY <3>1, <3>2
  <2>6. ASSUME NEW n \in Amounts, Withdraw(u, n)
        PROVE  \/ UNCHANGED reserve /\ totalSupply' \in {totalSupply, SupplyWithFee}
               \/ \A z \in Assets : reserve[z] * totalSupply' <= reserve'[z] * SupplyWithFee
    <3>. DEFINE l == TransferLiquidity(lp, u, Contract, n)
                liquidity == l[Contract]
                amount == Redeemed(liquidity)
    <3>1. \/ UNCHANGED reserve /\ totalSupply' \in {totalSupply, SupplyWithFee}
          \/ /\ totalSupply # 0 /\ n <= lp[u]
             /\ totalSupply' = SatSub(SupplyWithFee, liquidity)
             /\ reserve' = [z \in Assets |-> bal'[z][Contract]]
             /\ \A z \in Assets : bal'[z][Contract] = bal[z][Contract] - amount[z]
      BY <2>6, WithdrawEnds
    <3>2. CASE /\ totalSupply # 0 /\ n <= lp[u]
               /\ totalSupply' = SatSub(SupplyWithFee, liquidity)
               /\ reserve' = [z \in Assets |-> bal'[z][Contract]]
               /\ \A z \in Assets : bal'[z][Contract] = bal[z][Contract] - amount[z]
      <4>1. l \in Ledger /\ SumOf(l) = totalSupply /\ l[Zero] = lp[Zero]
        BY <1>1, <3>2, SharesToRedeem DEF Sound
      <4>. HIDE DEF l
      <4>2. /\ liquidity \in Nat /\ liquidity < totalSupply
            /\ \A z \in Assets :
                  /\ amount[z] \in Nat /\ amount[z] <= bal[z][Contract]
                  /\ amount[z] * SupplyWithFee <= liquidity * bal[z][Contract]
        BY <3>2, <4>1, RedeemedCanBePaid
      <4>. HIDE DEF liquidity
      <4>3. liquidity <= SupplyWithFee /\ totalSupply' = SupplyWithFee - liquidity
        <5>1. liquidity <= SupplyWithFee
          BY <1>1, <1>3, <4>2
        <5>. QED  BY <1>3, <3>2, <4>2, <5>1 DEF SatSub
      <4>4. ASSUME NEW z \in Assets
            PROVE  reserve[z] * totalSupply' <= reserve'[z] * SupplyWithFee
        <5>. DEFINE b == bal[z][Contract]
                    p == amount[z]
        <5>1. /\ b \in Nat /\ reserve[z] \in Nat /\ reserve[z] <= b /\ p \in Nat /\ p <= b
              /\ p * SupplyWithFee <= liquidity * b /\ reserve'[z] = b - p
          BY <1>1, <3>2, <4>2, ConfigAssumption
             DEF Sound, TypeOK, ReservesCovered, Ledger, Balance
        <5>. HIDE DEF b, p
        <5>2. reserve[z] * (SupplyWithFee - liquidity) <= (b - p) * SupplyWithFee
          BY <1>3, <4>2, <4>3, <5>1, PayoutKeepsValue
        <5>. QED  BY <4>3, <5>1, <5>2
      <4>. QED  BY <4>4
    <3>. QED  BY <3>1, <3>2
  <2>. QED  BY <1>6, <1>9, <2>1, <2>2, <2>3, <2>4, <2>5, <2>6 DEF Extrinsic
<1>. QED  BY <1>7, <1>8, <1>9 DEF Next

\* While nothing saturates, no call lowers what a share stands for, apart from the shares
\* issued as protocol fee: deposits, withdrawals and swaps all round in the pool's favour,
\* and what failed calls and donations leave in the account only adds to it.
THEOREM SharesKeepTheirValue ==
    ASSUME IssuanceFits, PricesFit
    PROVE  Spec /\ []SupplyFits => ShareValueNeverDrops
<1>1. Sound /\ Sound' /\ SupplyFits /\ SupplyFits' /\ [Next]_vars
        => [totalSupply > 0 =>
              reserve[0] * reserve[1] * totalSupply' * totalSupply'
                <= reserve'[0] * reserve'[1] * SupplyWithFee * SupplyWithFee]_vars
  BY StepKeepsValue DEF Sound
<1>. QED  BY <1>1, AlwaysSound, PTL DEF Spec, ShareValueNeverDrops

\* The multiplication of burn is exact: the supply times either balance of the pool is a
\* value of the type.
PayoutsFit == \A x \in Assets : totalSupply * bal[x][Contract] <= MaxBalance

\* A withdrawal of shares that are worth a unit of each asset pays their part.
LEMMA WithdrawPays ==
    ASSUME IssuanceFits, Sound, SupplyFits, PayoutsFit, NEW u \in Users,
           NEW n \in Amounts, n \in 1 .. lp[u],
           \A x \in Assets : n * reserve[x] >= SupplyWithFee, Withdraw(u, n)
    PROVE  \A x \in Assets : bal'[x][u] - bal[x][u] >= (n * reserve[x]) \div SupplyWithFee
<1>. DEFINE l == TransferLiquidity(lp, u, Contract, n)
            liquidity == l[Contract]
            amount == Redeemed(liquidity)
<1>1. /\ TypeOK /\ SharesConserved /\ u \in Accounts /\ Contract \in Accounts
      /\ lp \in Ledger /\ lp[u] \in Nat /\ lp[Contract] \in Nat
      /\ n \in Nat /\ n > 0 /\ n <= lp[u] /\ totalSupply \in Nat /\ MaxBalance \in Nat
  BY ConfigAssumption, WidthAssumption DEF Sound, TypeOK, Ledger, Balance
<1>2. totalSupply # 0
  <2>1. lp[u] <= SumOf(lp)
    BY <1>1, SumOfLedger
  <2>. QED  BY <1>1, <2>1 DEF SharesConserved
<1>3. /\ l \in Ledger /\ SumOf(l) = totalSupply /\ l[Zero] = lp[Zero]
      /\ liquidity = lp[Contract] + n
  BY <1>1, SharesToRedeem
<1>. HIDE DEF l
<1>4. /\ liquidity \in Nat /\ liquidity < totalSupply /\ SupplyWithFee \in Nat
      /\ totalSupply <= SupplyWithFee /\ amount \in [Assets -> Balance]
  BY <1>2, <1>3, RedeemedCanBePaid
<1>. HIDE DEF liquidity
<1>5. SupplyWithFee # 0 /\ n <= liquidity /\ liquidity \in Balance
  <2>1. totalSupply <= MaxBalance
    BY <1>1 DEF TypeOK, Balance
  <2>. QED  BY <1>1, <1>2, <1>3, <1>4, <2>1 DEF Balance
<1>6. ASSUME NEW x \in Assets
      PROVE  /\ amount[x] >= (n * reserve[x]) \div SupplyWithFee
             /\ amount[x] \in Nat /\ amount[x] > 0
             /\ (n * reserve[x]) \div SupplyWithFee \in Nat /\ bal[x][u] \in Nat
  <2>. DEFINE b == bal[x][Contract]
              r == reserve[x]
  <2>1. /\ b \in Balance /\ b \in Nat /\ r \in Nat /\ r <= b /\ bal[x][u] \in Nat
        /\ totalSupply * b <= MaxBalance
    BY <1>1 DEF Sound, TypeOK, ReservesCovered, PayoutsFit, Ledger, Balance
  <2>2. amount[x] = DivOrZero(SatMul(liquidity, b), SupplyWithFee)
    BY DEF Redeemed
  <2>3. n * r >= SupplyWithFee
    OBVIOUS
  <2>. HIDE DEF b, r, amount
  <2>4. /\ liquidity * b <= totalSupply * b
        /\ n * r <= liquidity * r /\ liquidity * r <= liquidity * b
    BY <1>1, <1>4, <1>5, <2>1
  <2>5. liquidity * b \in Nat /\ totalSupply * b \in Nat /\ n * r \in Nat /\ liquidity * r \in Nat
    BY <1>1, <1>4, <2>1
  <2>6. liquidity * b <= MaxBalance /\ n * r <= liquidity * b
    BY <1>1, <2>1, <2>4, <2>5
  <2>7. amount[x] = (liquidity * b) \div SupplyWithFee
    BY <1>5, <2>1, <2>2, <2>6, SatMulSpec DEF DivOrZero
  <2>8. /\ (n * r) \div SupplyWithFee \in Nat
        /\ (n * r) \div SupplyWithFee <= (liquidity * b) \div SupplyWithFee
        /\ (n * r) \div SupplyWithFee >= 1
    BY <1>4, <1>5, <2>3, <2>5, <2>6, QuotientGrows
  <2>9. (liquidity * b) \div SupplyWithFee \in Nat
    BY <1>4, <1>5, <2>5, QuotientBelow
  <2>. QED  BY <2>1, <2>7, <2>8, <2>9 DEF r
<1>7. \A x \in Assets : bal'[x][u] = bal[x][u] + amount[x]
  <2>1. ~(amount[0] = 0 \/ amount[1] = 0)
    BY <1>6 DEF Assets
  <2>2. /\ totalSupply # 0 /\ ~(lp[u] < n)
    BY <1>1, <1>2
  <2>3. ~(UNCHANGED <<bal, reserve, totalSupply, lp>> /\ result' # "Ok")
    <3>1. Burn(l, u)
      BY <2>2 DEF Withdraw, l
    <3>2. amount[0] > 0 /\ amount[1] > 0
      BY <1>6 DEF Assets
    <3>3. CanMoveBoth(bal, Contract, u, amount)
      BY <1>2, <1>3, RedeemedCanBePaid DEF liquidity
    <3>4. result' = "Ok"
      BY <2>1, <3>1, <3>2, <3>3 DEF Burn, liquidity
    <3>. QED  BY <3>4
  <2>. QED  BY <2>1, <2>3, WithdrawEnds DEF l, liquidity
<1>. HIDE DEF amount
<1>8. ASSUME NEW x \in Assets
      PROVE  bal'[x][u] - bal[x][u] >= (n * reserve[x]) \div SupplyWithFee
  BY <1>6, <1>7
<1>. QED  BY <1>8

\* While nothing saturates, every provider can leave at any time with the shares' part of
\* the reserves: neither failed calls, donations and fees that came before nor anything
\* another account does makes a withdrawal fail or pay less.
THEOREM ProvidersCanLeave ==
    ASSUME IssuanceFits
    PROVE  Spec /\ []SupplyFits /\ []PayoutsFit => ProviderCanLeave
<1>1. Sound /\ SupplyFits /\ PayoutsFit /\ [Next]_vars
        => [\A u \in Users, n \in Amounts :
              (/\ n \in 1 .. lp[u]
               /\ \A x \in Assets : n * reserve[x] >= SupplyWithFee
               /\ Withdraw(u, n))
              => \A x \in Assets :
                    bal'[x][u] - bal[x][u] >= (n * reserve[x]) \div SupplyWithFee]_vars
  BY WithdrawPays
<1>. QED  BY <1>1, AlwaysSound, PTL DEF Spec, ProviderCanLeave
=============================================================================
