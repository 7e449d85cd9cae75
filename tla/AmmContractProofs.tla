------------------------- MODULE AmmContractProofs -------------------------
(* Theorems on the contract, for every width of the balance type, every set  *)
(* of accounts and amounts, and every endowment.                             *)
EXTENDS AmmContract, TokenLedgerProofs

-----------------------------------------------------------------------------
(* The values the helpers compute are in range.                            *)

\* A transfer through the chain extension keeps the ledger in range, also when it is
\* refused and nobody notices; it touches no third party.
LEMMA SentType ==
    ASSUME NEW f \in Ledger, NEW from \in Accounts, NEW to \in Accounts, NEW n \in Balance
    PROVE  /\ Sent(f, from, to, n) \in Ledger
           /\ \A a \in Accounts \ {from} : Sent(f, from, to, n)[a] >= f[a]
           /\ from = to => Sent(f, from, to, n) = f
           /\ n <= f[from] => Sent(f, from, to, n)[from] >= f[from] - n
<1>1. f \in [Accounts -> 0 .. MaxBalance] /\ MaxBalance \in Nat /\ n \in 0 .. MaxBalance
  BY WidthAssumption DEF Ledger, Balance
<1>2. CASE CanMove(f, from, to, n)
  <2>. DEFINE g == Moved(f, from, to, n)
  <2>1. /\ g \in Ledger
        /\ from = to => g = f
        /\ from # to => g[from] = f[from] - n /\ g[to] = f[to] + n
        /\ \A a \in Accounts \ {from, to} : g[a] = f[a]
    BY <1>2, MovedType
  <2>2. Sent(f, from, to, n) = g
    BY <1>2 DEF Sent
  <2>. HIDE DEF g
  <2>3. ASSUME NEW a \in Accounts \ {from}
        PROVE  g[a] >= f[a]
    BY <1>1, <2>1
  <2>4. g[from] >= f[from] - n
    BY <1>1, <2>1
  <2>. QED  BY <2>1, <2>2, <2>3, <2>4
<1>3. CASE ~CanMove(f, from, to, n)
  <2>1. Sent(f, from, to, n) = f
    BY <1>3 DEF Sent
  <2>. QED  BY <1>1, <2>1
<1>. QED  BY <1>2, <1>3

\* transfer_tokens of both assets keeps both ledgers in range, and lowers the balance of
\* the sender only.
LEMMA SentBothType ==
    ASSUME bal \in [Assets -> Ledger], NEW from \in Accounts, NEW to \in Accounts,
           NEW amount \in [Assets -> Balance]
    PROVE  /\ SentBoth(from, to, amount) \in [Assets -> Ledger]
           /\ \A x \in Assets :
                /\ \A a \in Accounts \ {from} : SentBoth(from, to, amount)[x][a] >= bal[x][a]
                /\ from = to => SentBoth(from, to, amount)[x] = bal[x]
                /\ amount[x] <= bal[x][from]
                     => SentBoth(from, to, amount)[x][from] >= bal[x][from] - amount[x]
<1>1. ASSUME NEW x \in Assets
      PROVE  /\ Sent(bal[x], from, to, amount[x]) \in Ledger
             /\ \A a \in Accounts \ {from} : Sent(bal[x], from, to, amount[x])[a] >= bal[x][a]
             /\ from = to => Sent(bal[x], from, to, amount[x]) = bal[x]
             /\ amount[x] <= bal[x][from]
                  => Sent(bal[x], from, to, amount[x])[from] >= bal[x][from] - amount[x]
  <2>1. bal[x] \in Ledger /\ amount[x] \in Balance
    OBVIOUS
  <2>. QED  BY <2>1, SentType
<1>. QED  BY <1>1 DEF SentBoth

\* _mint keeps the share table in range: it saturates.
LEMMA CreditType ==
    ASSUME NEW l \in Ledger, NEW to \in Accounts, NEW v \in Balance
    PROVE  /\ Credit(l, to, v) \in Ledger
           /\ Credit(l, to, v)[to] = SatAdd(l[to], v)
           /\ \A a \in Accounts \ {to} : Credit(l, to, v)[a] = l[a]
<1>1. l[to] \in Balance
  BY DEF Ledger
<1>2. SatAdd(l[to], v) \in Balance
  BY <1>1, SatAddSpec
<1>. QED  BY <1>2 DEF Credit, Ledger

\* _transfer_liquidity keeps the share table in range, and the shares of third parties.
LEMMA TransferLiquidityType ==
    ASSUME NEW l \in Ledger, NEW from \in Accounts, NEW to \in Accounts,
           NEW n \in Balance
    PROVE  /\ TransferLiquidity(l, from, to, n) \in Ledger
           /\ \A a \in Accounts \ {from, to} : TransferLiquidity(l, from, to, n)[a] = l[a]
<1>. DEFINE g == [l EXCEPT ![from] = SatSub(@, n)]
<1>1. SatSub(l[from], n) \in Balance
  BY SatSubSpec DEF Ledger
<1>2. g \in Ledger /\ \A a \in Accounts \ {from} : g[a] = l[a]
  BY <1>1 DEF Ledger
<1>3. SatAdd(g[to], n) \in Balance
  BY <1>2, SatAddSpec DEF Ledger
<1>. QED  BY <1>2, <1>3 DEF TransferLiquidity, Ledger

\* What _mint_fee computes is in range.
LEMMA FeeType ==
    ASSUME TypeOK
    PROVE  /\ FeeShares \in Balance
           /\ SupplyWithFee \in Balance
           /\ KLastAfter \in Balance
           /\ FeeShares > 0 => feeTo \in Accounts
           /\ \A l \in Ledger : LpWithFee(l) \in Ledger
<1>1. SatMul(reserve[0], reserve[1]) \in Balance
  BY SatMulSpec DEF TypeOK, Assets
<1>2. FeeShares \in Balance
  <2>1. 0 \in Balance /\ 5 \in Balance
    BY WidthAssumption DEF Balance
  <2>. QED  BY <1>1, <2>1, ProtocolFeeType DEF FeeShares, TypeOK
<1>3. SupplyWithFee \in Balance
  BY <1>2, SatAddSpec DEF SupplyWithFee, TypeOK
<1>4. KLastAfter \in Balance
  BY <1>1, WidthAssumption DEF KLastAfter, Balance
<1>5. FeeShares > 0 => feeTo \in Accounts
  BY DEF FeeShares, FeeOn, TypeOK
<1>6. \A l \in Ledger : LpWithFee(l) \in Ledger
  BY <1>2, <1>5, CreditType DEF LpWithFee
<1>. QED  BY <1>2, <1>3, <1>4, <1>5, <1>6

\* Without a supply there is no protocol fee, so the supply stays zero.
LEMMA NoFeeWithoutSupply ==
    ASSUME TypeOK, totalSupply = 0
    PROVE  SupplyWithFee = 0 /\ FeeShares = 0
<1>1. /\ SatMul(reserve[0], reserve[1]) \in Balance /\ kLast \in Balance
      /\ 5 \in Balance /\ 0 \in Balance
  BY SatMulSpec, WidthAssumption DEF TypeOK, Assets, Balance
<1>2. ProtocolFee(SatMul(reserve[0], reserve[1]), kLast, 0, 5) = 0
  BY <1>1, ProtocolFeeOfNothing
<1>3. FeeShares = 0
  BY <1>2 DEF FeeShares
<1>. QED  BY <1>3, WidthAssumption DEF SupplyWithFee, SatAdd

\* A supply never vanishes under the fee.
LEMMA FeeKeepsSupply ==
    ASSUME TypeOK, totalSupply > 0
    PROVE  SupplyWithFee > 0 /\ SupplyWithFee >= totalSupply
<1>1. totalSupply \in Balance /\ FeeShares \in Balance
  BY FeeType DEF TypeOK
<1>. QED  BY <1>1, WidthAssumption DEF SupplyWithFee, SatAdd, Balance

\* What mint computes is in range.
LEMMA MintType ==
    ASSUME TypeOK
    PROVE  /\ LpToMint \in Ledger
           /\ \A b \in [Assets -> Ledger] :
                /\ Deposited(b) \in [Assets -> Balance]
                /\ Liquidity(Deposited(b)) \in Balance
<1>1. LpToMint \in Ledger
  <2>1. lp \in Ledger /\ LpWithFee(lp) \in Ledger /\ Zero \in Accounts
    BY FeeType, PairAssumption DEF TypeOK
  <2>2. Credit(LpWithFee(lp), Zero, MINIMUM_LIQUIDITY) \in Ledger
    BY <2>1, CreditType, PairAssumption
  <2>. QED  BY <2>1, <2>2 DEF LpToMint
<1>2. ASSUME NEW b \in [Assets -> Ledger]
      PROVE  Deposited(b) \in [Assets -> Balance] /\ Liquidity(Deposited(b)) \in Balance
  <2>. DEFINE d == Deposited(b)
  <2>1. d \in [Assets -> Balance]
    <3>1. ASSUME NEW x \in Assets PROVE SatSub(b[x][Contract], reserve[x]) \in Balance
      <4>1. b[x][Contract] \in Balance /\ reserve[x] \in Balance
        BY PairAssumption DEF TypeOK, Ledger
      <4>. QED  BY <4>1, SatSubSpec
    <3>. QED  BY <3>1 DEF Deposited
  <2>. HIDE DEF d
  <2>2. /\ d[0] \in Balance /\ d[1] \in Balance
        /\ reserve[0] \in Balance /\ reserve[1] \in Balance
    BY <2>1 DEF TypeOK, Assets
  <2>3. InitialLiquidity(d[0], d[1], MINIMUM_LIQUIDITY) \in Balance
    BY <2>2, InitialLiquidityType, PairAssumption
  <2>4. /\ ProportionalShare(d[0], SupplyWithFee, reserve[0]) \in Balance
        /\ ProportionalShare(d[1], SupplyWithFee, reserve[1]) \in Balance
    BY <2>2, FeeType, ProportionalShareType
  <2>5. Liquidity(d) \in Balance
    BY <2>3, <2>4 DEF Liquidity, MinOf
  <2>. QED  BY <2>1, <2>5 DEF d
<1>. QED  BY <1>1, <1>2

\* What burn pays out is in range.
LEMMA RedeemedType ==
    ASSUME TypeOK, NEW n \in Balance
    PROVE  Redeemed(n) \in [Assets -> Balance]
<1>. SUFFICES ASSUME NEW x \in Assets
              PROVE  DivOrZero(SatMul(n, bal[x][Contract]), SupplyWithFee) \in Balance
  BY DEF Redeemed
<1>1. bal[x][Contract] \in Balance
  BY PairAssumption DEF TypeOK, Ledger
<1>. QED  BY <1>1, FeeType, SatMulSpec, DivOrZeroType

\* What a deposit asks the caller for, and what skim pays out, is in range.
LEMMA AmountsType ==
    ASSUME TypeOK
    PROVE  /\ \A x \in Assets, n \in Balance : ToDeposit(x, n) \in [Assets -> Balance]
           /\ Surplus \in [Assets -> Balance]
<1>1. \A x \in Assets, n \in Balance : ToDeposit(x, n) \in [Assets -> Balance]
  BY QuoteType DEF ToDeposit, TypeOK
<1>2. Surplus \in [Assets -> Balance]
  BY PairAssumption, SatSubSpec DEF Surplus, TypeOK, Ledger
<1>. QED  BY <1>1, <1>2

\* _update keeps the reserves and the cumulative prices in range: they wrap around.
LEMMA UpdateType ==
    ASSUME TypeOK, NEW b \in [Assets -> Ledger], Update(b)
    PROVE  /\ reserve' \in [Assets -> Balance]
           /\ tsLast' \in 0 .. MaxTimestamp
           /\ price' \in [Assets -> Balance]
<1>1. TimeElapsed \in 0 .. MaxTimestamp
  BY OverflowingSubIsModular, PairAssumption DEF TimeElapsed, TypeOK
<1>2. TimeElapsed \in Balance
  BY <1>1, PairAssumption, WidthAssumption DEF Balance
<1>3. ASSUME NEW x \in Assets
      PROVE  CumulativePrice(x) \in Balance
  <2>1. Other(x) \in Assets
    BY DEF Other, Assets
  <2>2. DivOrZero(reserve[Other(x)], reserve[x]) \in Balance
    BY <2>1, DivOrZeroType DEF TypeOK
  <2>3. SatMul(DivOrZero(reserve[Other(x)], reserve[x]), TimeElapsed) \in Balance
    BY <1>2, <2>2, SatMulSpec
  <2>4. price[x] \in Balance
    BY DEF TypeOK
  <2>. DEFINE added == SatMul(DivOrZero(reserve[Other(x)], reserve[x]), TimeElapsed)
  <2>5. CumulativePrice(x) = OverflowingAdd(price[x], added, MaxBalance)
    BY DEF CumulativePrice
  <2>6. added \in Balance
    BY <2>3
  <2>. HIDE DEF added
  <2>7. MaxBalance \in Nat /\ price[x] \in 0 .. MaxBalance /\ added \in 0 .. MaxBalance
    BY <2>4, <2>6, WidthAssumption DEF Balance
  <2>8. OverflowingAdd(price[x], added, MaxBalance) \in 0 .. MaxBalance
    BY <2>7, OverflowingAddIsModular
  <2>. QED  BY <2>5, <2>8 DEF Balance
<1>4. price' \in [Assets -> Balance]
  BY <1>3 DEF Update, TypeOK
<1>5. reserve' \in [Assets -> Balance]
  BY PairAssumption DEF Update, Ledger
<1>. QED  BY <1>4, <1>5 DEF Update, TypeOK

-----------------------------------------------------------------------------
(* How a message can end.  Each of the three helpers either reverts, or    *)
(* writes what the lemma says.                                             *)

Reverted == UNCHANGED <<bal, pairVars>> /\ result' \in Results

\* The writes of a mint that succeeds.
MintWrites(b, to) ==
    LET liquidity == Liquidity(Deposited(b))
    IN  /\ First \/ PositiveReserves(reserve[0], reserve[1])
        /\ liquidity > 0
        /\ totalSupply' = SatAdd(IF First THEN MINIMUM_LIQUIDITY ELSE SupplyWithFee,
                                 liquidity)
        /\ lp' = Credit(LpToMint, to, liquidity)
        /\ kLast' = KLastAfter
        /\ bal' = b
        /\ Update(b)
        /\ result' = "Ok"

\* The writes of a burn that succeeds.
BurnWrites(l, to) ==
    LET liquidity == l[Contract]
        amount    == Redeemed(liquidity)
    IN  /\ \A x \in Assets : amount[x] > 0 /\ amount[x] <= bal[x][Contract]
        /\ totalSupply' = SatSub(SupplyWithFee, liquidity)
        /\ lp' = [LpWithFee(l) EXCEPT ![Contract] = SatSub(@, liquidity)]
        /\ kLast' = KLastAfter
        /\ bal' = SentBoth(Contract, to, amount)
        /\ Update(bal')
        /\ result' = "Ok"

\* The writes of a _swap that succeeds, with the balances b before the output leaves.
SwapWrites(b, y, n, to) ==
    /\ n <= b[y][Contract]
    /\ bal' = [b EXCEPT ![y] = Sent(@, Contract, to, n)]
    /\ LET amountIn == Incoming(bal', y, n)
       IN  (amountIn[0] > 0 \/ amountIn[1] > 0) /\ KHolds(bal', amountIn)
    /\ Update(bal')
    /\ UNCHANGED <<kLast, totalSupply, lp>>
    /\ result' = "Ok"

\* A deposit reverts or writes what mint writes, with the caller's tokens in the pool.
LEMMA DepositEnds ==
    ASSUME TypeOK, NEW x \in Assets, NEW u \in Users, NEW n \in Amounts, deposit(x, u, n)
    PROVE  /\ UNCHANGED <<feeTo, now>>
           /\ \/ Reverted
              \/ /\ NoReserves \/ (n > 0 /\ PositiveReserves(reserve[0], reserve[1]))
                 /\ HasBoth(u, ToDeposit(x, n))
                 /\ MintWrites(SentBoth(u, Contract, ToDeposit(x, n)), u)
BY DEF deposit, Mint, MintWrites, Revert, Reverted, Results

\* A withdrawal reverts or writes what burn writes, with the caller's shares in the pool.
LEMMA WithdrawEnds ==
    ASSUME TypeOK, NEW u \in Users, NEW n \in Amounts, withdraw(u, n)
    PROVE  /\ UNCHANGED <<feeTo, now>>
           /\ \/ Reverted
              \/ /\ totalSupply # 0 /\ n <= lp[u]
                 /\ BurnWrites(TransferLiquidity(lp, u, Contract, n), u)
<1>. DEFINE l == TransferLiquidity(lp, u, Contract, n)
<1>1. u \in Accounts /\ Contract \in Accounts /\ n \in Balance /\ lp \in Ledger
  BY PairAssumption DEF TypeOK
<1>2. lp[u] \in Nat /\ n \in Nat /\ l \in Ledger
  BY <1>1, TransferLiquidityType DEF Ledger, Balance
<1>3. l[Contract] \in Balance
  BY <1>1, <1>2 DEF Ledger
<1>4. Redeemed(l[Contract]) \in [Assets -> Balance]
  BY <1>3, RedeemedType
<1>. HIDE DEF l
<1>5. ASSUME Burn(l, u)
      PROVE  Reverted \/ BurnWrites(l, u)
  <2>1. CASE \E x \in Assets : Redeemed(l[Contract])[x] = 0
    BY <1>4, <1>5, <2>1 DEF Burn, Revert, Reverted, Results, Assets, Balance
  <2>2. CASE ~HasBoth(Contract, Redeemed(l[Contract]))
    BY <1>4, <1>5, <2>2 DEF Burn, Revert, Reverted, Results, Assets, Balance
  <2>3. CASE /\ \A x \in Assets : Redeemed(l[Contract])[x] # 0
             /\ HasBoth(Contract, Redeemed(l[Contract]))
    <3>1. \A x \in Assets : Redeemed(l[Contract])[x] > 0
      BY <1>4, <2>3 DEF Balance
    <3>2. 0 \in Assets /\ 1 \in Assets
      BY DEF Assets
    <3>. QED  BY <1>5, <2>3, <3>1, <3>2 DEF Burn, BurnWrites, HasBoth
  <2>. QED  BY <2>1, <2>2, <2>3
<1>. QED  BY <1>2, <1>5 DEF withdraw, Revert, Reverted, Results, l

\* A swap reverts or writes what _swap writes, with the price paid if the ledger
\* accepted the payment.
LEMMA SwapEnds ==
    ASSUME TypeOK, NEW x \in Assets, NEW u \in Users, NEW n \in Amounts, swap(x, u, n)
    PROVE  LET y    == Other(x)
               cost == GetAmountIn(n, reserve[x], reserve[y])
               paid == [bal EXCEPT ![x] = Sent(@, u, Contract, cost)]
           IN  /\ UNCHANGED <<feeTo, now>>
               /\ \/ Reverted
                  \/ /\ n > 0 /\ n < reserve[y]
                     /\ PositiveReserves(reserve[0], reserve[1])
                     /\ cost <= bal[x][u]
                     /\ SwapWrites(paid, y, n, u)
<1>. DEFINE y == Other(x)
            cost == GetAmountIn(n, reserve[x], reserve[y])
            paid == [bal EXCEPT ![x] = Sent(@, u, Contract, cost)]
<1>1. u \in Accounts /\ Contract \in Accounts /\ n \in Balance /\ y \in Assets
  BY PairAssumption DEF Other, Assets
<1>2. cost \in Balance /\ bal[x] \in Ledger
  BY <1>1, GetAmountInType DEF TypeOK
<1>3. paid \in [Assets -> Ledger]
  BY <1>1, <1>2, SentType DEF TypeOK
<1>4. cost \in Nat /\ bal[x][u] \in Nat /\ paid[y][Contract] \in Nat /\ n \in Nat
  BY <1>1, <1>2, <1>3 DEF Ledger, Balance
<1>5. /\ UNCHANGED <<feeTo, now>>
      /\ \/ Reverted
         \/ /\ n > 0 /\ n < reserve[y] /\ PositiveReserves(reserve[0], reserve[1])
            /\ bal[x][u] >= cost /\ SwapOut(paid, y, n, u)
  BY DEF swap, Revert, Reverted, Results
<1>. HIDE DEF paid, cost, y
<1>6. SwapOut(paid, y, n, u) => Reverted \/ SwapWrites(paid, y, n, u)
  BY <1>1, <1>4 DEF SwapOut, SwapWrites, Revert, Reverted, Results
<1>7. bal[x][u] >= cost => cost <= bal[x][u]
  BY <1>4
<1>. QED  BY <1>5, <1>6, <1>7 DEF paid, cost, y

-----------------------------------------------------------------------------
(* Type correctness.                                                       *)

\* The balances before the output of a swap leaves are in range.
LEMMA PaidType ==
    ASSUME TypeOK, NEW x \in Assets, NEW u \in Users, NEW n \in Amounts
    PROVE  LET cost == GetAmountIn(n, reserve[x], reserve[Other(x)])
           IN  /\ cost \in Balance
               /\ [bal EXCEPT ![x] = Sent(@, u, Contract, cost)] \in [Assets -> Ledger]
<1>. DEFINE cost == GetAmountIn(n, reserve[x], reserve[Other(x)])
<1>1. u \in Accounts /\ Contract \in Accounts /\ n \in Balance /\ Other(x) \in Assets
  BY PairAssumption DEF Other, Assets
<1>2. cost \in Balance /\ bal[x] \in Ledger
  BY <1>1, GetAmountInType DEF TypeOK
<1>. HIDE DEF cost
<1>3. Sent(bal[x], u, Contract, cost) \in Ledger
  BY <1>1, <1>2, SentType
<1>. QED  BY <1>2, <1>3 DEF TypeOK, cost

\* A message's step keeps the types, whichever way it ends.
LEMMA MessageTypeOK ==
    ASSUME TypeOK, NEW u \in Users, Message(u)
    PROVE  TypeOK'
<1>1. /\ u \in Accounts /\ Contract \in Accounts /\ lp \in Ledger
      /\ bal \in [Assets -> Ledger] /\ Amounts \subseteq Balance
  BY PairAssumption DEF TypeOK
<1>2. ASSUME Reverted, UNCHANGED <<feeTo, now>>
      PROVE  TypeOK'
  BY <1>2 DEF Reverted, TypeOK, pairVars
<1>3. ASSUME NEW a \in FeeRecipients, set_fee_to(u, a)
      PROVE  TypeOK'
  <2>1. a \in Accounts
    BY PairAssumption
  <2>. QED  BY <1>3, <2>1 DEF set_fee_to, TypeOK, pairVars, Results
<1>4. ASSUME NEW x \in Assets, NEW n \in Amounts, deposit(x, u, n)
      PROVE  TypeOK'
  <2>. DEFINE b == SentBoth(u, Contract, ToDeposit(x, n))
              liquidity == Liquidity(Deposited(b))
  <2>1. UNCHANGED <<feeTo, now>> /\ (Reverted \/ MintWrites(b, u))
    BY <1>4, DepositEnds
  <2>2. b \in [Assets -> Ledger]
    BY <1>1, AmountsType, SentBothType
  <2>3. liquidity \in Balance /\ LpToMint \in Ledger /\ KLastAfter \in Balance
        /\ SupplyWithFee \in Balance /\ MINIMUM_LIQUIDITY \in Balance
    BY <2>2, MintType, FeeType, PairAssumption
  <2>. HIDE DEF b
  <2>4. CASE MintWrites(b, u)
    <3>1. /\ totalSupply' = SatAdd(IF First THEN MINIMUM_LIQUIDITY ELSE SupplyWithFee,
                                   liquidity)
          /\ lp' = Credit(LpToMint, u, liquidity) /\ kLast' = KLastAfter
          /\ bal' = b /\ Update(b) /\ result' = "Ok"
      BY <2>4 DEF MintWrites
    <3>. HIDE DEF liquidity
    <3>2. totalSupply' \in Balance /\ lp' \in Ledger
      BY <1>1, <2>3, <3>1, SatAddSpec, CreditType
    <3>. QED  BY <2>1, <2>2, <2>3, <3>1, <3>2, UpdateType DEF TypeOK, Results
  <2>. QED  BY <1>2, <2>1, <2>4
<1>5. ASSUME NEW x \in Assets, NEW n \in Amounts, swap(x, u, n)
      PROVE  TypeOK'
  <2>. DEFINE y == Other(x)
              cost == GetAmountIn(n, reserve[x], reserve[y])
              paid == [bal EXCEPT ![x] = Sent(@, u, Contract, cost)]
  <2>1. y \in Assets /\ n \in Balance
    BY <1>1 DEF Other, Assets
  <2>2. paid \in [Assets -> Ledger]
    BY PaidType
  <2>3. UNCHANGED <<feeTo, now>> /\ (Reverted \/ SwapWrites(paid, y, n, u))
    BY <1>5, SwapEnds
  <2>. HIDE DEF paid, y
  <2>4. CASE SwapWrites(paid, y, n, u)
    <3>1. /\ bal' = [paid EXCEPT ![y] = Sent(@, Contract, u, n)]
          /\ Update(bal') /\ UNCHANGED <<kLast, totalSupply, lp>> /\ result' = "Ok"
      BY <2>4 DEF SwapWrites
    <3>2. Sent(paid[y], Contract, u, n) \in Ledger
      BY <1>1, <2>1, <2>2, SentType
    <3>3. bal' \in [Assets -> Ledger]
      BY <2>1, <2>2, <3>1, <3>2
    <3>. QED  BY <2>3, <3>1, <3>3, UpdateType DEF TypeOK, Results
  <2>. QED  BY <1>2, <2>3, <2>4
<1>6. ASSUME NEW x \in Assets, NEW n \in Amounts, CurrenciesTransfer(x, u, n)
      PROVE  TypeOK'
  <2>1. CanMove(bal[x], u, Contract, n) => Moved(bal[x], u, Contract, n) \in Ledger
    BY <1>1, MovedType
  <2>2. bal' \in [Assets -> Ledger]
    BY <1>1, <1>6, <2>1 DEF CurrenciesTransfer
  <2>. QED  BY <1>6, <2>2 DEF CurrenciesTransfer, MoveError, TypeOK, pairVars, Results
<1>7. ASSUME NEW n \in Amounts, withdraw(u, n)
      PROVE  TypeOK'
  <2>. DEFINE l == TransferLiquidity(lp, u, Contract, n)
              amount == Redeemed(l[Contract])
              burnt == [LpWithFee(l) EXCEPT ![Contract] = SatSub(@, l[Contract])]
  <2>1. UNCHANGED <<feeTo, now>> /\ (Reverted \/ BurnWrites(l, u))
    BY <1>7, WithdrawEnds
  <2>2. l \in Ledger /\ l[Contract] \in Balance
    BY <1>1, TransferLiquidityType DEF Ledger
  <2>. HIDE DEF l
  <2>3. /\ LpWithFee(l) \in Ledger /\ SupplyWithFee \in Balance /\ KLastAfter \in Balance
        /\ LpWithFee(l)[Contract] \in Balance
    BY <1>1, <2>2, FeeType DEF Ledger
  <2>4. SatSub(LpWithFee(l)[Contract], l[Contract]) \in Balance
        /\ SatSub(SupplyWithFee, l[Contract]) \in Balance
    BY <2>2, <2>3, SatSubSpec
  <2>5. burnt \in Ledger
    BY <2>3, <2>4 DEF Ledger
  <2>6. SentBoth(Contract, u, amount) \in [Assets -> Ledger]
    BY <1>1, <2>2, RedeemedType, SentBothType
  <2>7. CASE BurnWrites(l, u)
    <3>1. /\ totalSupply' = SatSub(SupplyWithFee, l[Contract]) /\ lp' = burnt
          /\ kLast' = KLastAfter /\ bal' = SentBoth(Contract, u, amount)
          /\ Update(bal') /\ result' = "Ok"
      BY <2>7 DEF BurnWrites
    <3>. HIDE DEF burnt, amount
    <3>. QED  BY <2>1, <2>3, <2>4, <2>5, <2>6, <3>1, UpdateType DEF TypeOK, Results
  <2>. QED  BY <1>2, <2>1, <2>7
<1>. QED  BY <1>3, <1>4, <1>5, <1>6, <1>7 DEF Message

\* A step of the contract keeps every storage field in range.
LEMMA StepTypeOK ==
    ASSUME TypeOK, [Next]_vars
    PROVE  TypeOK'
<1>1. CASE Tick
  BY <1>1, PairAssumption DEF Tick, TypeOK, pairVars
<1>2. CASE sync
  <2>1. Update(bal) /\ bal \in [Assets -> Ledger]
    BY <1>2 DEF sync, TypeOK
  <2>. QED  BY <1>2, <2>1, UpdateType DEF sync, TypeOK, Results
<1>3. ASSUME NEW to \in Accounts, skim(to)
      PROVE  TypeOK'
  <2>1. bal' \in [Assets -> Ledger]
    BY <1>3, AmountsType, SentBothType, PairAssumption DEF skim, TypeOK
  <2>. QED  BY <1>3, <2>1 DEF skim, TypeOK, pairVars, Results
<1>4. ASSUME NEW u \in Users, Message(u)
      PROVE  TypeOK'
  BY <1>4, MessageTypeOK
<1>5. CASE UNCHANGED vars
  BY <1>5 DEF vars, TypeOK, pairVars
<1>. QED  BY <1>1, <1>2, <1>3, <1>4, <1>5 DEF Next

\* The constructor starts in range.
LEMMA InitTypeOK ==
    ASSUME Init
    PROVE  TypeOK
<1>1. 0 \in Balance /\ 0 \in 0 .. MaxTimestamp
  BY WidthAssumption, PairAssumption DEF Balance
<1>. QED  BY <1>1, PairAssumption DEF Init, TypeOK, Ledger, Results

\* Every storage field of the contract always holds a value of its type, whatever is
\* called with whatever amounts and however the messages end.
THEOREM TypeCorrect == Spec => []TypeOK
<1>1. Init => TypeOK
  BY InitTypeOK
<1>2. TypeOK /\ [Next]_vars => TypeOK'
  BY StepTypeOK
<1>. QED  BY <1>1, <1>2, PTL DEF Spec

-----------------------------------------------------------------------------
(* The contract is solvent, and a supply comes with reserves.              *)

\* _update makes the reserves the contract's balances.
LEMMA UpdateCovers ==
    ASSUME TypeOK', Update(bal')
    PROVE  ReservesCovered' /\ \A x \in Assets : reserve'[x] = bal'[x][Contract]
<1>1. \A x \in Assets : reserve'[x] = bal'[x][Contract]
  BY DEF Update
<1>2. \A x \in Assets : bal'[x][Contract] \in Nat
  BY PairAssumption DEF TypeOK, Ledger, Balance
<1>. QED  BY <1>1, <1>2 DEF ReservesCovered

\* A message keeps the contract solvent and leaves reserves behind every supply.
LEMMA MessageCovers ==
    ASSUME TypeOK, TypeOK', ReservesCovered, SupplyHasReserves, NEW u \in Users, Message(u)
    PROVE  ReservesCovered' /\ SupplyHasReserves'
<1>1. /\ u \in Accounts /\ Contract \in Accounts /\ u # Contract /\ lp \in Ledger
      /\ bal \in [Assets -> Ledger] /\ Amounts \subseteq Balance
      /\ \A x \in Assets : bal[x][Contract] \in Balance /\ reserve[x] \in Balance
      /\ \A x \in Assets : bal'[x][Contract] \in Balance
  BY PairAssumption DEF TypeOK, Ledger
<1>2. ASSUME UNCHANGED pairVars,
             \A x \in Assets : bal'[x][Contract] >= bal[x][Contract]
      PROVE  ReservesCovered' /\ SupplyHasReserves'
  <2>1. ASSUME NEW x \in Assets
        PROVE  reserve'[x] <= bal'[x][Contract]
    BY <1>1, <1>2 DEF ReservesCovered, pairVars, Balance
  <2>. QED  BY <1>2, <2>1 DEF ReservesCovered, SupplyHasReserves, pairVars
<1>3. ASSUME Reverted
      PROVE  ReservesCovered' /\ SupplyHasReserves'
  BY <1>1, <1>2, <1>3 DEF Reverted, Balance
<1>4. ASSUME Update(bal'), \A x \in Assets : bal'[x][Contract] > 0
      PROVE  ReservesCovered' /\ SupplyHasReserves'
  BY <1>4, UpdateCovers DEF SupplyHasReserves, PositiveReserves, Assets
<1>5. ASSUME NEW a \in FeeRecipients, set_fee_to(u, a)
      PROVE  ReservesCovered' /\ SupplyHasReserves'
  BY <1>1, <1>2, <1>5 DEF set_fee_to, Balance
<1>6. ASSUME NEW x \in Assets, NEW n \in Amounts, deposit(x, u, n)
      PROVE  ReservesCovered' /\ SupplyHasReserves'
  <2>. DEFINE b == SentBoth(u, Contract, ToDeposit(x, n))
              d == Deposited(b)
  <2>1. Reverted \/ MintWrites(b, u)
    BY <1>6, DepositEnds
  <2>2. b \in [Assets -> Ledger] /\ \A z \in Assets : b[z][Contract] >= bal[z][Contract]
    BY <1>1, AmountsType, SentBothType
  <2>3. d \in [Assets -> Balance]
    BY <2>2, MintType
  <2>4. \A z \in Assets : b[z][Contract] \in Balance /\ d[z] = SatSub(b[z][Contract], reserve[z])
    BY <1>1, <2>2 DEF Deposited, Ledger
  <2>. HIDE DEF b, d
  <2>5. CASE MintWrites(b, u)
    <3>1. /\ First \/ PositiveReserves(reserve[0], reserve[1])
          /\ Liquidity(d) > 0 /\ bal' = b /\ Update(bal')
      BY <2>5 DEF MintWrites, d
    <3>2. CASE First
      <4>1. InitialLiquidity(d[0], d[1], MINIMUM_LIQUIDITY) > 0
        BY <3>1, <3>2 DEF Liquidity
      <4>2. d[0] > 0 /\ d[1] > 0
        BY <2>3, <4>1, InitialNeedsBoth, PairAssumption DEF Assets
      <4>3. ASSUME NEW z \in Assets
            PROVE  b[z][Contract] > 0
        <5>1. d[z] > 0
          BY <4>2 DEF Assets
        <5>. QED  BY <1>1, <2>4, <5>1 DEF SatSub, Balance
      <4>. QED  BY <1>4, <3>1, <4>3
    <3>3. CASE ~First
      <4>1. ASSUME NEW z \in Assets
            PROVE  b[z][Contract] > 0
        <5>1. reserve[z] > 0 /\ reserve[z] <= bal[z][Contract]
          BY <3>1, <3>3 DEF PositiveReserves, Assets, ReservesCovered
        <5>. QED  BY <1>1, <2>2, <2>4, <5>1 DEF Balance
      <4>. QED  BY <1>4, <3>1, <4>1
    <3>. QED  BY <3>2, <3>3
  <2>. QED  BY <1>3, <2>1, <2>5
<1>7. ASSUME NEW x \in Assets, NEW n \in Amounts, swap(x, u, n)
      PROVE  ReservesCovered' /\ SupplyHasReserves'
  <2>. DEFINE y == Other(x)
              cost == GetAmountIn(n, reserve[x], reserve[y])
              paid == [bal EXCEPT ![x] = Sent(@, u, Contract, cost)]
  <2>1. y \in Assets /\ n \in Balance /\ x # y /\ cost \in Balance
    BY <1>1, PaidType DEF Other, Assets
  <2>2. \/ Reverted
        \/ /\ n > 0 /\ n < reserve[y] /\ PositiveReserves(reserve[0], reserve[1])
           /\ SwapWrites(paid, y, n, u)
    BY <1>7, SwapEnds
  <2>3. /\ paid \in [Assets -> Ledger] /\ paid[y] = bal[y]
        /\ paid[x] = Sent(bal[x], u, Contract, cost)
    BY <1>1, <2>1, PaidType
  <2>4. paid[x][Contract] >= bal[x][Contract] /\ paid[x][Contract] \in Balance
    BY <1>1, <2>1, <2>3, SentType DEF Ledger
  <2>. HIDE DEF paid, cost, y
  <2>5. CASE /\ n > 0 /\ n < reserve[y] /\ PositiveReserves(reserve[0], reserve[1])
             /\ SwapWrites(paid, y, n, u)
    <3>1. /\ bal' = [paid EXCEPT ![y] = Sent(@, Contract, u, n)]
          /\ Update(bal') /\ n <= bal[y][Contract]
      BY <2>3, <2>5 DEF SwapWrites
    <3>2. bal'[y] = Sent(bal[y], Contract, u, n) /\ bal'[x] = paid[x]
      BY <2>1, <2>3, <3>1
    <3>3. bal'[y][Contract] >= bal[y][Contract] - n
      BY <1>1, <2>1, <3>1, <3>2, SentType
    <3>4. reserve[x] > 0 /\ \A z \in Assets : reserve[z] <= bal[z][Contract]
      BY <2>5 DEF PositiveReserves, Assets, ReservesCovered
    <3>5. bal'[y][Contract] > 0
      BY <1>1, <2>1, <2>5, <3>3, <3>4 DEF Balance
    <3>6. bal'[x][Contract] > 0
      BY <1>1, <2>4, <3>2, <3>4 DEF Balance
    <3>7. \A z \in Assets : z = x \/ z = y
      BY <2>1 DEF Assets
    <3>. QED  BY <1>4, <3>1, <3>5, <3>6, <3>7
  <2>. QED  BY <1>3, <2>2, <2>5
<1>8. ASSUME NEW x \in Assets, NEW n \in Amounts, CurrenciesTransfer(x, u, n)
      PROVE  ReservesCovered' /\ SupplyHasReserves'
  <2>1. CanMove(bal[x], u, Contract, n)
          => Moved(bal[x], u, Contract, n)[Contract] = bal[x][Contract] + n
    BY <1>1, MovedType
  <2>2. \A z \in Assets : bal'[z][Contract] >= bal[z][Contract]
    BY <1>1, <1>8, <2>1 DEF CurrenciesTransfer, Balance
  <2>. QED  BY <1>2, <1>8, <2>2 DEF CurrenciesTransfer
<1>9. ASSUME NEW n \in Amounts, withdraw(u, n)
      PROVE  ReservesCovered' /\ SupplyHasReserves'
  <2>. DEFINE l == TransferLiquidity(lp, u, Contract, n)
              amount == Redeemed(l[Contract])
  <2>1. Reverted \/ (totalSupply # 0 /\ BurnWrites(l, u))
    BY <1>9, WithdrawEnds
  <2>2. l \in Ledger /\ l[Contract] \in Balance
    BY <1>1, TransferLiquidityType DEF Ledger
  <2>. HIDE DEF l
  <2>3. amount \in [Assets -> Balance]
    BY <2>2, RedeemedType
  <2>4. CASE totalSupply # 0 /\ BurnWrites(l, u)
    <3>1. /\ totalSupply' = SatSub(SupplyWithFee, l[Contract])
          /\ bal' = SentBoth(Contract, u, amount) /\ Update(bal')
          /\ \A z \in Assets : amount[z] <= bal[z][Contract]
      BY <2>4 DEF BurnWrites
    <3>2. SupplyWithFee > 0 /\ SupplyWithFee \in Balance
          /\ PositiveReserves(reserve[0], reserve[1])
      BY <2>4, FeeKeepsSupply, FeeType DEF TypeOK, SupplyHasReserves, Balance
    <3>3. CASE totalSupply' > 0
      <4>1. l[Contract] < SupplyWithFee
        BY <2>2, <3>1, <3>2, <3>3 DEF SatSub, Balance
      <4>2. ASSUME NEW z \in Assets
            PROVE  bal'[z][Contract] > 0
        <5>1. reserve[z] > 0 /\ reserve[z] <= bal[z][Contract]
          BY <3>2 DEF PositiveReserves, Assets, ReservesCovered
        <5>2. bal[z][Contract] > 0
          BY <1>1, <5>1 DEF Balance
        <5>3. amount[z] < bal[z][Contract]
          <6>1. SupplyWithFee # 0 /\ l[Contract] <= SupplyWithFee
            BY <2>2, <3>2, <4>1 DEF Balance
          <6>2. DivOrZero(SatMul(l[Contract], bal[z][Contract]), SupplyWithFee)
                  < bal[z][Contract]
            BY <1>1, <2>2, <3>2, <4>1, <5>2, <6>1, PartOfWhole
          <6>. QED  BY <6>2 DEF Redeemed
        <5>4. bal'[z][Contract] >= bal[z][Contract] - amount[z]
          BY <1>1, <2>3, <3>1, SentBothType
        <5>. QED  BY <1>1, <2>3, <5>3, <5>4 DEF Balance
      <4>. QED  BY <1>4, <3>1, <4>2
    <3>4. CASE ~(totalSupply' > 0)
      BY <3>1, <3>4, UpdateCovers DEF SupplyHasReserves
    <3>. QED  BY <3>3, <3>4
  <2>. QED  BY <1>3, <2>1, <2>4
<1>. QED  BY <1>5, <1>6, <1>7, <1>8, <1>9 DEF Message

\* Every step keeps the contract solvent and leaves reserves behind every supply.
LEMMA StepCovers ==
    ASSUME TypeOK, TypeOK', ReservesCovered, SupplyHasReserves, [Next]_vars
    PROVE  ReservesCovered' /\ SupplyHasReserves'
<1>1. \A x \in Assets : bal[x][Contract] \in Nat /\ reserve[x] \in Nat
                        /\ bal'[x][Contract] \in Nat
  BY PairAssumption DEF TypeOK, Ledger, Balance
<1>2. CASE Tick \/ UNCHANGED vars
  BY <1>2 DEF Tick, vars, pairVars, ReservesCovered, SupplyHasReserves
<1>3. CASE sync
  <2>1. Update(bal') /\ UNCHANGED <<bal, totalSupply>>
    BY <1>3 DEF sync
  <2>2. ASSUME NEW x \in Assets, reserve[x] > 0
        PROVE  reserve'[x] > 0
    BY <1>1, <2>1, <2>2, UpdateCovers DEF ReservesCovered
  <2>. QED  BY <2>1, <2>2, UpdateCovers DEF SupplyHasReserves, PositiveReserves, Assets
<1>4. ASSUME NEW to \in Accounts, skim(to)
      PROVE  ReservesCovered' /\ SupplyHasReserves'
  <2>1. bal' = SentBoth(Contract, to, Surplus) /\ UNCHANGED pairVars
    BY <1>4 DEF skim
  <2>2. Contract \in Accounts /\ bal \in [Assets -> Ledger]
    BY PairAssumption DEF TypeOK
  <2>3. ASSUME NEW x \in Assets
        PROVE  reserve[x] <= bal'[x][Contract]
    <3>1. Surplus[x] = bal[x][Contract] - reserve[x] /\ Surplus[x] <= bal[x][Contract]
      BY <1>1 DEF Surplus, SatSub, ReservesCovered
    <3>2. bal'[x][Contract] >= bal[x][Contract] - Surplus[x]
      BY <1>4, <2>1, <2>2, <3>1, AmountsType, SentBothType
    <3>. QED  BY <1>1, <3>1, <3>2
  <2>. QED  BY <2>1, <2>3 DEF ReservesCovered, SupplyHasReserves, pairVars
<1>5. ASSUME NEW u \in Users, Message(u)
      PROVE  ReservesCovered' /\ SupplyHasReserves'
  BY <1>5, MessageCovers
<1>. QED  BY <1>2, <1>3, <1>4, <1>5 DEF Next

\* The contract owns the reserves it accounts for after every message, at every width of
\* the balance type and although it ignores what the chain extension answers: a transfer
\* that was refused can only leave it with more.
THEOREM ContractSolvent == Spec => []ReservesCovered
<1>. DEFINE Inv == ReservesCovered /\ SupplyHasReserves
<1>1. Init => Inv
  <2>1. Contract \in Accounts /\ Genesis \in [Assets -> Ledger]
    BY PairAssumption
  <2>. QED  BY <2>1 DEF Init, Inv, ReservesCovered, SupplyHasReserves, Ledger, Balance
<1>2. TypeOK /\ TypeOK' /\ Inv /\ [Next]_vars => Inv'
  BY StepCovers
<1>. QED  BY <1>1, <1>2, TypeCorrect, PTL DEF Spec

\* As long as there is a supply, both reserves are filled, so neither mint nor burn ever
\* divides by zero and no message traps there: a withdrawal leaves the rest of the shares
\* their part, a swap leaves the reserve it takes from, and a first deposit that is too
\* small is rolled back with the shares it locked.
THEOREM SupplyIsBacked == Spec => []SupplyHasReserves
<1>1. Init => SupplyHasReserves
  BY DEF Init, SupplyHasReserves
<1>2. TypeOK /\ TypeOK' /\ ReservesCovered /\ SupplyHasReserves /\ [Next]_vars
        => SupplyHasReserves'
  BY StepCovers
<1>. QED  BY <1>1, <1>2, TypeCorrect, ContractSolvent, PTL DEF Spec

-----------------------------------------------------------------------------
(* No shares wait in the contract's account.                               *)

\* The fee goes to an account that set_fee_to was called with.
RecipientNamed == FeeOn => feeTo \in FeeRecipients

\* What every step does to the share table: nothing, or what mint or burn writes.
LEMMA SharesStep ==
    ASSUME TypeOK, [Next]_vars
    PROVE  \/ lp' = lp /\ totalSupply' = totalSupply
           \/ /\ UNCHANGED feeTo
              /\ \E u \in Users, b \in [Assets -> Ledger] : MintWrites(b, u)
           \/ /\ UNCHANGED feeTo
              /\ \E u \in Users, n \in Amounts :
                    /\ n <= lp[u]
                    /\ BurnWrites(TransferLiquidity(lp, u, Contract, n), u)
<1>1. CASE Tick \/ sync \/ (\E to \in Accounts : skim(to)) \/ UNCHANGED vars
  BY <1>1 DEF Tick, sync, skim, vars, pairVars
<1>2. ASSUME NEW u \in Users, Message(u)
      PROVE  \/ lp' = lp /\ totalSupply' = totalSupply
             \/ UNCHANGED feeTo /\ \E b \in [Assets -> Ledger] : MintWrites(b, u)
             \/ /\ UNCHANGED feeTo
                /\ \E n \in Amounts :
                    /\ n <= lp[u]
                    /\ BurnWrites(TransferLiquidity(lp, u, Contract, n), u)
  <2>1. CASE \E a \in FeeRecipients : set_fee_to(u, a)
    BY <2>1 DEF set_fee_to, pairVars
  <2>2. ASSUME NEW x \in Assets, NEW n \in Amounts, deposit(x, u, n)
        PROVE  \/ lp' = lp /\ totalSupply' = totalSupply
               \/ UNCHANGED feeTo /\ \E b \in [Assets -> Ledger] : MintWrites(b, u)
    <3>. DEFINE b == SentBoth(u, Contract, ToDeposit(x, n))
    <3>1. b \in [Assets -> Ledger]
      BY AmountsType, SentBothType, PairAssumption DEF TypeOK
    <3>2. UNCHANGED feeTo /\ (Reverted \/ MintWrites(b, u))
      BY <2>2, DepositEnds
    <3>. HIDE DEF b
    <3>3. CASE Reverted
      BY <3>3 DEF Reverted, pairVars
    <3>4. CASE MintWrites(b, u)
      BY <3>1, <3>2, <3>4
    <3>. QED  BY <3>2, <3>3, <3>4
  <2>3. ASSUME NEW x \in Assets, NEW n \in Amounts, swap(x, u, n)
        PROVE  lp' = lp /\ totalSupply' = totalSupply
    BY <2>3, SwapEnds DEF Reverted, SwapWrites, pairVars
  <2>4. ASSUME NEW x \in Assets, NEW n \in Amounts, CurrenciesTransfer(x, u, n)
        PROVE  lp' = lp /\ totalSupply' = totalSupply
    BY <2>4 DEF CurrenciesTransfer, pairVars
  <2>5. ASSUME NEW n \in Amounts, withdraw(u, n)
        PROVE  \/ lp' = lp /\ totalSupply' = totalSupply
               \/ /\ UNCHANGED feeTo /\ n <= lp[u]
                  /\ BurnWrites(TransferLiquidity(lp, u, Contract, n), u)
    BY <2>5, WithdrawEnds DEF Reverted, pairVars
  <2>. QED  BY <1>2, <2>1, <2>2, <2>3, <2>4, <2>5 DEF Message
<1>. QED  BY <1>1, <1>2 DEF Next

\* Unless the contract itself is named as the recipient of the fee, it owns no shares
\* between two messages, at every width of the balance type: what withdraw moves there is
\* burnt to the last share or handed back, and no later caller can redeem it.
THEOREM NothingStranded == Spec => []NoStrandedShares
<1>1. Init => NoStrandedShares /\ RecipientNamed
  BY PairAssumption DEF Init, NoStrandedShares, RecipientNamed, FeeOn
<1>2. RecipientNamed /\ [Next]_vars => RecipientNamed'
  <2>. SUFFICES ASSUME RecipientNamed, [Next]_vars
                PROVE  UNCHANGED feeTo \/ feeTo' \in FeeRecipients
    BY DEF RecipientNamed, FeeOn
  <2>1. ASSUME NEW u \in Users, Message(u)
        PROVE  UNCHANGED feeTo \/ feeTo' \in FeeRecipients
    BY <2>1 DEF Message, set_fee_to, deposit, swap, CurrenciesTransfer, withdraw
  <2>. QED  BY <2>1 DEF Next, Tick, sync, skim, vars
<1>3. TypeOK /\ RecipientNamed /\ NoStrandedShares /\ [Next]_vars => NoStrandedShares'
  <2>. SUFFICES ASSUME TypeOK, RecipientNamed, NoStrandedShares, [Next]_vars,
                       Contract \notin FeeRecipients
                PROVE  lp'[Contract] = 0
    BY DEF NoStrandedShares
  <2>1. /\ lp[Contract] = 0 /\ lp \in Ledger /\ Contract \in Accounts \ {Zero}
        /\ Zero \in Accounts /\ Users \subseteq Accounts \ {Contract, Zero}
        /\ Amounts \subseteq Balance
    BY PairAssumption DEF NoStrandedShares, TypeOK
  <2>2. \A l \in Ledger : LpWithFee(l)[Contract] = l[Contract] /\ LpWithFee(l) \in Ledger
    <3>1. FeeShares > 0 => feeTo \in Accounts \ {Contract}
      <4>1. FeeShares > 0 => feeTo \in FeeRecipients /\ feeTo \in Accounts
        BY FeeType DEF RecipientNamed, FeeShares
      <4>. QED  BY <4>1
    <3>2. ASSUME NEW l \in Ledger, FeeShares > 0
          PROVE  Credit(l, feeTo, FeeShares)[Contract] = l[Contract]
      <4>1. feeTo \in Accounts /\ Contract \in Accounts \ {feeTo} /\ FeeShares \in Balance
        BY <2>1, <3>1, <3>2, FeeType
      <4>. QED  BY <4>1, CreditType
    <3>. QED  BY <3>2, FeeType DEF LpWithFee
  <2>3. ASSUME NEW u \in Users, NEW b \in [Assets -> Ledger], MintWrites(b, u)
        PROVE  lp'[Contract] = 0
    <3>1. LpToMint \in Ledger /\ Liquidity(Deposited(b)) \in Balance
      BY MintType
    <3>2. LpToMint[Contract] = 0
      BY <2>1, <2>2, CreditType, PairAssumption DEF LpToMint
    <3>3. lp' = Credit(LpToMint, u, Liquidity(Deposited(b)))
      BY <2>3 DEF MintWrites
    <3>. QED  BY <2>1, <3>1, <3>2, <3>3, CreditType
  <2>4. ASSUME NEW u \in Users, NEW n \in Amounts,
               BurnWrites(TransferLiquidity(lp, u, Contract, n), u)
        PROVE  lp'[Contract] = 0
    <3>. DEFINE l == TransferLiquidity(lp, u, Contract, n)
    <3>1. l \in Ledger
      BY <2>1, TransferLiquidityType
    <3>. HIDE DEF l
    <3>2. LpWithFee(l)[Contract] = l[Contract] /\ LpWithFee(l) \in Ledger /\ l[Contract] \in Nat
      BY <2>1, <2>2, <3>1 DEF Ledger, Balance
    <3>3. lp' = [LpWithFee(l) EXCEPT ![Contract] = SatSub(@, l[Contract])]
      BY <2>4 DEF BurnWrites, l
    <3>4. lp'[Contract] = SatSub(l[Contract], l[Contract])
      BY <2>1, <3>2, <3>3 DEF Ledger
    <3>. QED  BY <3>2, <3>4 DEF SatSub
  <2>. QED  BY <2>1, <2>3, <2>4, SharesStep
<1>. QED  BY <1>1, <1>2, <1>3, TypeCorrect, PTL DEF Spec

-----------------------------------------------------------------------------
(* The shares add up, as long as the supply fits its type.                 *)

\* Neither the supply nor the supply with the fee that is due has reached the largest
\* value, where _mint would saturate.
SupplyFits == totalSupply < MaxBalance /\ SupplyWithFee < MaxBalance

\* _mint_fee adds the same number to the supply and to the recipient's shares.
LEMMA FeeExact ==
    ASSUME TypeOK, SupplyFits, NEW l \in Ledger, SumOf(l) = totalSupply
    PROVE  /\ SupplyWithFee = totalSupply + FeeShares
           /\ LpWithFee(l) = WithMore(l, feeTo, FeeShares)
           /\ SumOf(LpWithFee(l)) = SupplyWithFee
<1>1. FeeShares \in Balance /\ totalSupply \in Balance /\ FeeShares \in Nat
      /\ totalSupply \in Nat /\ MaxBalance \in Nat /\ l \in [Accounts -> Nat]
  BY FeeType, WidthAssumption DEF TypeOK, Balance, Ledger
<1>2. SupplyWithFee = totalSupply + FeeShares /\ totalSupply + FeeShares <= MaxBalance
  BY <1>1, SatAddSpec DEF SupplyFits, SupplyWithFee
<1>3. CASE FeeShares > 0
  <2>1. feeTo \in Accounts
    BY <1>3, FeeType
  <2>2. LpWithFee(l) = SatCredit(l, feeTo, FeeShares)
    BY <1>3 DEF LpWithFee, Credit, SatCredit
  <2>3. SumOf(SatCredit(l, feeTo, FeeShares)) = SumOf(l) + FeeShares
    BY <1>1, <1>2, <2>1, SatCreditSum
  <2>4. SatCredit(l, feeTo, FeeShares) = WithMore(l, feeTo, FeeShares)
    BY <1>1, <1>2, <2>1, SatCreditPointwise
  <2>. QED  BY <1>2, <2>2, <2>3, <2>4
<1>4. CASE FeeShares = 0
  <2>1. LpWithFee(l) = l
    BY <1>4 DEF LpWithFee
  <2>2. l = WithMore(l, feeTo, 0)
    BY <1>1 DEF WithMore
  <2>. QED  BY <1>1, <1>2, <1>4, <2>1, <2>2
<1>. QED  BY <1>1, <1>3, <1>4

\* What mint writes to the supply and the shares, while the supply fits: the locked
\* minimum of the first deposit and the provider's shares, exactly.
LEMMA MintExact ==
    ASSUME TypeOK, SupplyFits, SharesConserved, NEW b \in [Assets -> Ledger],
           NEW to \in Accounts, MintWrites(b, to), totalSupply' < MaxBalance
    PROVE  LET liquidity == Liquidity(Deposited(b))
               locked    == IF First THEN MINIMUM_LIQUIDITY ELSE 0
           IN  /\ totalSupply' = SupplyWithFee + locked + liquidity
               /\ lp' = [[LpWithFee(lp) EXCEPT ![Zero] = @ + locked]
                                        EXCEPT ![to] = @ + liquidity]
               /\ SharesConserved'
<1>. DEFINE liquidity == Liquidity(Deposited(b))
            locked    == IF First THEN MINIMUM_LIQUIDITY ELSE 0
            base      == IF First THEN MINIMUM_LIQUIDITY ELSE SupplyWithFee
<1>1. /\ liquidity \in Balance /\ LpToMint \in Ledger /\ SupplyWithFee \in Balance
      /\ LpWithFee(lp) \in Ledger /\ lp \in Ledger /\ Zero \in Accounts
      /\ MINIMUM_LIQUIDITY \in Balance /\ base \in Balance
      /\ MINIMUM_LIQUIDITY \in Nat /\ MINIMUM_LIQUIDITY <= MaxBalance
  BY MintType, FeeType, PairAssumption DEF TypeOK, Balance
<1>2. SumOf(LpWithFee(lp)) = SupplyWithFee
  BY <1>1, FeeExact DEF SharesConserved
<1>3. /\ SumOf(LpToMint) = base /\ base = SupplyWithFee + locked
      /\ LpToMint = [LpWithFee(lp) EXCEPT ![Zero] = @ + locked]
  <2>1. CASE First
    <3>1. SumOf(LpWithFee(lp)) = 0 /\ SupplyWithFee = 0
      BY <1>2, <2>1 DEF First
    <3>2. 0 + MINIMUM_LIQUIDITY <= MaxBalance /\ 0 + MINIMUM_LIQUIDITY = MINIMUM_LIQUIDITY
      BY <1>1
    <3>3. LpToMint = SatCredit(LpWithFee(lp), Zero, MINIMUM_LIQUIDITY)
      BY <2>1 DEF LpToMint, Credit, SatCredit
    <3>. QED  BY <1>1, <2>1, <3>1, <3>2, <3>3, SatCreditSum
  <2>2. CASE ~First
    <3>1. LpWithFee(lp) = [LpWithFee(lp) EXCEPT ![Zero] = @ + 0]
      BY <1>1 DEF Ledger, Balance
    <3>. QED  BY <1>1, <1>2, <2>2, <3>1 DEF LpToMint, Balance
  <2>. QED  BY <2>1, <2>2
<1>4. totalSupply' = SatAdd(base, liquidity) /\ lp' = Credit(LpToMint, to, liquidity)
  BY DEF MintWrites
<1>. HIDE DEF liquidity, locked, base
<1>5. totalSupply' = base + liquidity /\ base + liquidity <= MaxBalance
  BY <1>1, <1>4, WidthAssumption DEF SatAdd, Balance
<1>6. lp' = SatCredit(LpToMint, to, liquidity)
  BY <1>4 DEF Credit, SatCredit
<1>7. lp' = [LpToMint EXCEPT ![to] = @ + liquidity] /\ SumOf(lp') = base + liquidity
  <2>1. SumOf(LpToMint) + liquidity <= MaxBalance
    BY <1>3, <1>5
  <2>2. /\ SatCredit(LpToMint, to, liquidity) = [LpToMint EXCEPT ![to] = @ + liquidity]
        /\ SumOf(SatCredit(LpToMint, to, liquidity)) = SumOf(LpToMint) + liquidity
    BY <1>1, <2>1, SatCreditSum
  <2>. QED  BY <1>3, <1>6, <2>2
<1>8. SharesConserved'
  BY <1>5, <1>7 DEF SharesConserved
<1>. QED  BY <1>3, <1>5, <1>7, <1>8 DEF liquidity, locked

\* What burn takes from the supply and the shares of the contract, while the supply fits.
LEMMA BurnExact ==
    ASSUME TypeOK, SupplyFits, SharesConserved, NEW u \in Users, NEW n \in Balance,
           n <= lp[u], BurnWrites(TransferLiquidity(lp, u, Contract, n), u)
    PROVE  LET l == TransferLiquidity(lp, u, Contract, n)
           IN  /\ l = Moved(lp, u, Contract, n)
               /\ l \in Ledger /\ SumOf(l) = totalSupply
               /\ l[Contract] = lp[Contract] + n /\ l[Contract] \in Balance
               /\ l[Contract] <= totalSupply /\ totalSupply <= SupplyWithFee
               /\ totalSupply' = SupplyWithFee - l[Contract]
               /\ lp' = WithLess(LpWithFee(l), Contract, l[Contract])
               /\ SharesConserved'
<1>. DEFINE l == TransferLiquidity(lp, u, Contract, n)
<1>1. /\ u \in Accounts /\ Contract \in Accounts /\ u # Contract /\ lp \in Ledger
      /\ totalSupply \in Balance /\ totalSupply <= MaxBalance /\ n \in Nat
      /\ SupplyWithFee \in Balance /\ FeeShares \in Nat
  BY FeeType, PairAssumption, WidthAssumption DEF TypeOK, Balance
<1>2. l = SatCredit(SatDebit(lp, u, n), Contract, n)
  BY DEF TransferLiquidity, SatCredit, SatDebit
<1>3. /\ l = Moved(lp, u, Contract, n)
      /\ l \in Ledger /\ SumOf(l) = SumOf(lp) /\ l[Contract] = lp[Contract] + n
  BY <1>1, <1>2, SatTransferSum DEF SharesConserved, Moved
<1>. HIDE DEF l
<1>4. SumOf(l) = totalSupply /\ l[Contract] <= totalSupply /\ l[Contract] \in Balance
      /\ l[Contract] \in Nat /\ totalSupply \in Nat
  BY <1>1, <1>3, SumOfLedger DEF SharesConserved, Ledger, Balance
<1>5. /\ SupplyWithFee = totalSupply + FeeShares /\ SumOf(LpWithFee(l)) = SupplyWithFee
      /\ LpWithFee(l) = WithMore(l, feeTo, FeeShares)
  BY <1>3, <1>4, FeeExact
<1>6. LpWithFee(l) \in Ledger /\ l[Contract] <= LpWithFee(l)[Contract]
  <2>1. LpWithFee(l) \in Ledger
    BY <1>3, FeeType
  <2>2. LpWithFee(l)[Contract] = l[Contract] + (IF Contract = feeTo THEN FeeShares ELSE 0)
    BY <1>1, <1>5 DEF WithMore
  <2>. QED  BY <1>1, <1>4, <2>1, <2>2
<1>7. /\ totalSupply' = SatSub(SupplyWithFee, l[Contract])
      /\ lp' = SatDebit(LpWithFee(l), Contract, l[Contract])
  BY DEF BurnWrites, SatDebit, l
<1>8. totalSupply' = SupplyWithFee - l[Contract] /\ totalSupply <= SupplyWithFee
  BY <1>1, <1>4, <1>5, <1>7, SatSubSpec
<1>9. /\ lp' = WithLess(LpWithFee(l), Contract, l[Contract])
      /\ SumOf(lp') = SumOf(LpWithFee(l)) - l[Contract]
  BY <1>1, <1>4, <1>6, <1>7, SatDebitSum DEF WithLess
<1>10. SharesConserved'
  BY <1>5, <1>8, <1>9 DEF SharesConserved
<1>. QED  BY <1>3, <1>4, <1>8, <1>9, <1>10 DEF l

\* A step keeps the sum of the shares, while the supply fits.
LEMMA StepShares ==
    ASSUME TypeOK, SupplyFits, totalSupply' < MaxBalance, SharesConserved, [Next]_vars
    PROVE  SharesConserved'
<1>1. Users \subseteq Accounts /\ Amounts \subseteq Balance
  BY PairAssumption
<1>2. ASSUME NEW u \in Users, NEW b \in [Assets -> Ledger], MintWrites(b, u)
      PROVE  SharesConserved'
  BY <1>1, <1>2, MintExact
<1>3. ASSUME NEW u \in Users, NEW n \in Amounts, n <= lp[u],
             BurnWrites(TransferLiquidity(lp, u, Contract, n), u)
      PROVE  SharesConserved'
  BY <1>1, <1>3, BurnExact
<1>4. CASE lp' = lp /\ totalSupply' = totalSupply
  BY <1>4 DEF SharesConserved
<1>. QED  BY <1>2, <1>3, <1>4, SharesStep

\* As long as the supply does not saturate, the accounts' shares add up to total_supply
\* after every message: the locked minimum, the fee, and a withdrawal that also redeems
\* what the contract owns of the fee included.
THEOREM SharesAddUp == Spec /\ []SupplyFits => []SharesConserved
<1>1. Init => SharesConserved
  BY SumOfNothing DEF Init, SharesConserved
<1>2. TypeOK /\ SupplyFits /\ SupplyFits' /\ SharesConserved /\ [Next]_vars
        => SharesConserved'
  BY StepShares DEF SupplyFits
<1>. QED  BY <1>1, <1>2, TypeCorrect, PTL DEF Spec

-----------------------------------------------------------------------------
(* Whose tokens a message moves.                                           *)

\* A transfer through the chain extension, refused or not, concerns nobody else.
LEMMA SentBetween ==
    ASSUME NEW f \in Ledger, NEW u \in Accounts, NEW c \in Accounts, NEW n \in Balance
    PROVE  /\ Between(f, Sent(f, u, c, n), u, c)
           /\ Between(f, Sent(f, c, u, n), u, c)
<1>1. Between(f, f, u, c)
  BY DEF Between
<1>. QED  BY <1>1, MovedBetween DEF Sent

\* skim moves tokens from the contract to the account it names.
LEMMA SkimParties ==
    ASSUME TypeOK, NEW to \in Accounts, skim(to), NEW x \in Assets
    PROVE  /\ Between(bal[x], bal'[x], to, Contract)
           /\ \A a \in Accounts \ {Contract} : bal'[x][a] >= bal[x][a]
<1>1. Contract \in Accounts /\ bal \in [Assets -> Ledger] /\ bal[x] \in Ledger
  BY PairAssumption DEF TypeOK
<1>2. Surplus \in [Assets -> Balance] /\ bal' = SentBoth(Contract, to, Surplus)
  BY AmountsType DEF skim
<1>3. bal'[x] = Sent(bal[x], Contract, to, Surplus[x]) /\ Surplus[x] \in Balance
  BY <1>2 DEF SentBoth
<1>4. Between(bal[x], bal'[x], to, Contract)
  BY <1>1, <1>3, SentBetween
<1>. QED  BY <1>1, <1>2, <1>4, SentBothType

\* A message moves tokens between its caller and the contract and concerns nobody else,
\* however it ends; none are made or lost, although refused transfers go unnoticed.
LEMMA MessageParties ==
    ASSUME TypeOK, NEW u \in Users, Message(u), NEW x \in Assets
    PROVE  Between(bal[x], bal'[x], u, Contract)
<1>1. /\ u \in Accounts /\ Contract \in Accounts /\ Amounts \subseteq Balance
      /\ bal \in [Assets -> Ledger] /\ bal[x] \in Ledger
  BY PairAssumption DEF TypeOK
<1>2. ASSUME bal' = bal
      PROVE  Between(bal[x], bal'[x], u, Contract)
  BY <1>1, <1>2 DEF Between
<1>3. ASSUME NEW amount \in [Assets -> Balance],
             bal' = SentBoth(u, Contract, amount) \/ bal' = SentBoth(Contract, u, amount)
      PROVE  Between(bal[x], bal'[x], u, Contract)
  <2>1. amount[x] \in Balance
    OBVIOUS
  <2>2. \/ bal'[x] = Sent(bal[x], u, Contract, amount[x])
        \/ bal'[x] = Sent(bal[x], Contract, u, amount[x])
    BY <1>3 DEF SentBoth
  <2>. QED  BY <1>1, <2>1, <2>2, SentBetween
<1>4. ASSUME NEW a \in FeeRecipients, set_fee_to(u, a)
      PROVE  bal' = bal
  BY <1>4 DEF set_fee_to
<1>5. ASSUME NEW y \in Assets, NEW n \in Amounts, deposit(y, u, n)
      PROVE  Between(bal[x], bal'[x], u, Contract)
  <2>1. bal' = bal \/ bal' = SentBoth(u, Contract, ToDeposit(y, n))
    BY <1>5, DepositEnds DEF Reverted, MintWrites
  <2>. QED  BY <1>1, <1>2, <1>3, <2>1, AmountsType
<1>6. ASSUME NEW n \in Amounts, withdraw(u, n)
      PROVE  Between(bal[x], bal'[x], u, Contract)
  <2>. DEFINE l == TransferLiquidity(lp, u, Contract, n)
  <2>1. bal' = bal \/ bal' = SentBoth(Contract, u, Redeemed(l[Contract]))
    BY <1>6, WithdrawEnds DEF Reverted, BurnWrites
  <2>2. l \in Ledger
    BY <1>1, TransferLiquidityType DEF TypeOK
  <2>. HIDE DEF l
  <2>3. l[Contract] \in Balance
    BY <1>1, <2>2 DEF Ledger
  <2>. QED  BY <1>2, <1>3, <2>1, <2>3, RedeemedType
<1>7. ASSUME NEW y \in Assets, NEW n \in Amounts, CurrenciesTransfer(y, u, n)
      PROVE  Between(bal[x], bal'[x], u, Contract)
  <2>1. CASE bal' = bal
    BY <1>2, <2>1
  <2>2. CASE /\ CanMove(bal[y], u, Contract, n)
             /\ bal' = [bal EXCEPT ![y] = Moved(@, u, Contract, n)]
    <3>1. x = y => bal'[x] = Moved(bal[x], u, Contract, n)
      BY <1>1, <2>2
    <3>2. x # y => bal'[x] = bal[x]
      BY <1>1, <2>2
    <3>3. x = y => Between(bal[x], Moved(bal[x], u, Contract, n), u, Contract)
      BY <1>1, <2>2, MovedBetween
    <3>4. Between(bal[x], bal[x], u, Contract)
      BY <1>1 DEF Between
    <3>. QED  BY <3>1, <3>2, <3>3, <3>4
  <2>. QED  BY <1>7, <2>1, <2>2 DEF CurrenciesTransfer
<1>8. ASSUME NEW y \in Assets, NEW n \in Amounts, swap(y, u, n)
      PROVE  Between(bal[x], bal'[x], u, Contract)
  <2>. DEFINE z == Other(y)
              cost == GetAmountIn(n, reserve[y], reserve[z])
              paid == [bal EXCEPT ![y] = Sent(@, u, Contract, cost)]
  <2>1. Reverted \/ SwapWrites(paid, z, n, u)
    BY <1>8, SwapEnds
  <2>2. cost \in Balance /\ z \in Assets /\ y # z /\ n \in Balance
    BY <1>1, PaidType DEF Other, Assets
  <2>. HIDE DEF cost, z
  <2>3. CASE SwapWrites(paid, z, n, u)
    <3>1. bal' = [paid EXCEPT ![z] = Sent(@, Contract, u, n)]
      BY <2>3 DEF SwapWrites
    <3>2. bal'[y] = Sent(bal[y], u, Contract, cost) /\ bal'[z] = Sent(bal[z], Contract, u, n)
      BY <1>1, <2>2, <3>1
    <3>3. bal[y] \in Ledger /\ bal[z] \in Ledger /\ (x = y \/ x = z)
      BY <1>1, <2>2 DEF Assets
    <3>. QED  BY <1>1, <2>2, <3>2, <3>3, SentBetween
  <2>. QED  BY <1>2, <2>1, <2>3 DEF Reverted
<1>. QED  BY <1>2, <1>4, <1>5, <1>6, <1>7, <1>8 DEF Message
=============================================================================
