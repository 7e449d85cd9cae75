------------------------- MODULE AmmContractSafety -------------------------
(* What the contract promises the owners of its shares, while the issuance   *)
(* of the two assets and the supply of shares fit the balance type, and that *)
(* it implements the pallet.                                                 *)
EXTENDS AmmContractProofs

-----------------------------------------------------------------------------
(* The conditions, and the inductive invariant.                            *)

\* The issuance of either asset is below the largest value of the type.
IssuanceFits == \A x \in Assets : SumOf(Genesis[x]) < MaxBalance

\* No message makes or destroys tokens.
IssuanceKept == \A x \in Assets : SumOf(bal[x]) = SumOf(Genesis[x])

\* The minimum is locked as soon as there is a supply, and nobody can redeem it.
MinimumLocked == totalSupply > 0 => lp[Zero] >= MINIMUM_LIQUIDITY

Sound ==
    /\ TypeOK
    /\ SharesConserved
    /\ MinimumLocked
    /\ ReservesCovered
    /\ IssuanceKept

\* What the conditions say of every balance.
LEMMA Room ==
    ASSUME IssuanceFits, TypeOK, IssuanceKept, NEW x \in Assets
    PROVE  /\ bal[x] \in Ledger /\ SumOf(bal[x]) \in Nat /\ SumOf(bal[x]) < MaxBalance
           /\ SumOf(bal[x]) <= MaxBalance
           /\ \A a \in Accounts : bal[x][a] \in Nat /\ bal[x][a] <= SumOf(bal[x])
<1>1. bal[x] \in Ledger /\ Contract \in Accounts
  BY PairAssumption DEF TypeOK
<1>2. SumOf(bal[x]) \in Nat
  BY <1>1, SumOfLedger
<1>3. SumOf(bal[x]) < MaxBalance
  BY DEF IssuanceFits, IssuanceKept
<1>4. ASSUME NEW a \in Accounts
      PROVE  bal[x][a] \in Nat /\ bal[x][a] <= SumOf(bal[x])
  BY <1>1, SumOfLedger
<1>. QED  BY <1>1, <1>2, <1>3, <1>4, WidthAssumption

\* A transfer through the chain extension keeps the sum of the ledger, refused or not, and
\* is never refused to an account that owns the amount while the sum fits.
LEMMA SentExact ==
    ASSUME NEW f \in Ledger, NEW from \in Accounts, NEW to \in Accounts, NEW n \in Balance
    PROVE  /\ SumOf(Sent(f, from, to, n)) = SumOf(f)
           /\ from # to /\ n <= f[from] /\ SumOf(f) <= MaxBalance
                => /\ CanMove(f, from, to, n)
                   /\ Sent(f, from, to, n) = Moved(f, from, to, n)
                   /\ Sent(f, from, to, n)[from] = f[from] - n
                   /\ Sent(f, from, to, n)[to] = f[to] + n
<1>1. CASE CanMove(f, from, to, n)
  <2>1. Sent(f, from, to, n) = Moved(f, from, to, n)
    BY <1>1 DEF Sent
  <2>. QED  BY <1>1, <2>1, MovedSum, MovedType
<1>2. CASE ~CanMove(f, from, to, n)
  <2>1. Sent(f, from, to, n) = f
    BY <1>2 DEF Sent
  <2>2. n \in Nat
    BY WidthAssumption DEF Balance
  <2>3. ~(from # to /\ n <= f[from] /\ SumOf(f) <= MaxBalance)
    BY <1>2, <2>2, CanMoveOwned
  <2>. QED  BY <2>1, <2>3
<1>. QED  BY <1>1, <1>2

\* No step makes or destroys tokens, whether the ledger accepts its transfers or not.
LEMMA StepTokens ==
    ASSUME TypeOK, [Next]_vars, NEW x \in Assets
    PROVE  SumOf(bal'[x]) = SumOf(bal[x])
<1>1. Tick \/ sync \/ UNCHANGED vars => bal' = bal
  BY DEF Tick, sync, vars
<1>2. ASSUME NEW to \in Accounts, skim(to)
      PROVE  SumOf(bal'[x]) = SumOf(bal[x])
  BY <1>2, SkimParties DEF Between
<1>3. ASSUME NEW u \in Users, Message(u)
      PROVE  SumOf(bal'[x]) = SumOf(bal[x])
  BY <1>3, MessageParties DEF Between
<1>. QED  BY <1>1, <1>2, <1>3 DEF Next

\* The locked minimum stays where it is: mint only adds to it, and burn takes shares of the
\* caller and of the contract.
LEMMA StepLocked ==
    ASSUME TypeOK, SupplyFits, totalSupply' < MaxBalance, SharesConserved, MinimumLocked,
           [Next]_vars
    PROVE  MinimumLocked'
<1>1. /\ lp \in Ledger /\ Zero \in Accounts /\ Contract \in Accounts /\ Zero # Contract
      /\ Users \subseteq Accounts \ {Zero} /\ Users \subseteq Accounts
      /\ Amounts \subseteq Balance /\ MINIMUM_LIQUIDITY \in Nat /\ totalSupply \in Nat
      /\ FeeShares \in Nat /\ SumOf(lp) = totalSupply
  BY FeeType, PairAssumption DEF TypeOK, SharesConserved, Balance
<1>2. ASSUME NEW l \in Ledger, SumOf(l) = totalSupply
      PROVE  LpWithFee(l)[Zero] >= l[Zero] /\ LpWithFee(l)[Zero] \in Nat /\ l[Zero] \in Nat
             /\ LpWithFee(l) \in Ledger
  <2>1. LpWithFee(l)[Zero] = l[Zero] + (IF Zero = feeTo THEN FeeShares ELSE 0)
    BY <1>1, <1>2, FeeExact DEF WithMore
  <2>2. l[Zero] \in Nat
    BY <1>1 DEF Ledger, Balance
  <2>. QED  BY <1>1, <2>1, <2>2, FeeType
<1>3. ASSUME NEW u \in Users, NEW b \in [Assets -> Ledger], MintWrites(b, u)
      PROVE  lp'[Zero] >= MINIMUM_LIQUIDITY
  <2>. DEFINE locked == IF First THEN MINIMUM_LIQUIDITY ELSE 0
              liquidity == Liquidity(Deposited(b))
              g == LpWithFee(lp)
  <2>1. lp' = [[LpWithFee(lp) EXCEPT ![Zero] = @ + locked] EXCEPT ![u] = @ + liquidity]
    BY <1>1, <1>3, MintExact
  <2>. HIDE DEF liquidity
  <2>2. lp'[Zero] = g[Zero] + locked
    <3>1. u # Zero /\ Zero \in DOMAIN g
      BY <1>1, <1>2 DEF Ledger
    <3>. HIDE DEF g
    <3>. QED  BY <2>1, <3>1 DEF g
  <2>3. CASE First
    BY <1>1, <1>2, <2>2, <2>3
  <2>4. CASE ~First
    <3>1. totalSupply # 0
      BY <2>4, NoFeeWithoutSupply DEF First
    <3>2. lp[Zero] >= MINIMUM_LIQUIDITY
      BY <1>1, <3>1 DEF MinimumLocked
    <3>. QED  BY <1>1, <1>2, <2>2, <2>4, <3>2
  <2>. QED  BY <2>3, <2>4
<1>4. ASSUME NEW u \in Users, NEW n \in Amounts, n <= lp[u],
             BurnWrites(TransferLiquidity(lp, u, Contract, n), u)
      PROVE  MinimumLocked'
  <2>. DEFINE l == TransferLiquidity(lp, u, Contract, n)
  <2>0. u \in Accounts /\ n \in Balance
    BY <1>1
  <2>1. l \in Ledger /\ SumOf(l) = totalSupply
    BY <1>1, <1>4, <2>0, BurnExact
  <2>2. /\ totalSupply' = SupplyWithFee - l[Contract] /\ l[Contract] \in Balance
        /\ l[Contract] <= totalSupply
        /\ lp' = WithLess(LpWithFee(l), Contract, l[Contract])
    BY <1>1, <1>4, <2>0, BurnExact
  <2>3. l[Zero] = lp[Zero]
    BY <1>1, TransferLiquidityType
  <2>. HIDE DEF l
  <2>4. lp'[Zero] = LpWithFee(l)[Zero]
    BY <1>1, <2>2 DEF WithLess
  <2>5. CASE totalSupply = 0
    <3>1. SupplyWithFee = 0
      BY <2>5, NoFeeWithoutSupply
    <3>. QED  BY <2>2, <3>1 DEF MinimumLocked, Balance
  <2>6. CASE totalSupply # 0
    <3>1. lp[Zero] >= MINIMUM_LIQUIDITY
      BY <1>1, <2>6 DEF MinimumLocked
    <3>2. lp'[Zero] >= MINIMUM_LIQUIDITY
      BY <1>1, <1>2, <2>1, <2>3, <2>4, <3>1
    <3>. QED  BY <3>2 DEF MinimumLocked
  <2>. QED  BY <2>5, <2>6
<1>5. CASE lp' = lp /\ totalSupply' = totalSupply
  BY <1>5 DEF MinimumLocked
<1>. QED  BY <1>3, <1>4, <1>5, SharesStep DEF MinimumLocked

\* No message makes or destroys tokens, at any width of the type.
LEMMA AlwaysTokens == Spec => []IssuanceKept
<1>1. Init => IssuanceKept
  BY DEF Init, IssuanceKept
<1>2. TypeOK /\ IssuanceKept /\ [Next]_vars => IssuanceKept'
  BY StepTokens DEF IssuanceKept
<1>. QED  BY <1>1, <1>2, TypeCorrect, PTL DEF Spec

\* While the supply fits, the contract is sound after every message.
LEMMA AlwaysSound == Spec /\ []SupplyFits => []Sound
<1>1. Init => MinimumLocked
  BY DEF Init, MinimumLocked
<1>2. TypeOK /\ SharesConserved /\ SupplyFits /\ SupplyFits' /\ MinimumLocked /\ [Next]_vars
        => MinimumLocked'
  BY StepLocked DEF SupplyFits
<1>. QED  BY <1>1, <1>2, TypeCorrect, SharesAddUp, ContractSolvent, AlwaysTokens, PTL
          DEF Spec, Sound

-----------------------------------------------------------------------------
(* What mint, burn and _swap leave to the owners of shares.                *)

\* The price of a swap is computed exactly: a thousand times the product of both
\* issuances is a value of the type.
PricesFit == 1000 * (SumOf(Genesis[0]) * SumOf(Genesis[1])) <= MaxBalance

\* The numbers the invariant is about.
LEMMA SoundNumbers ==
    ASSUME Sound
    PROVE  /\ TypeOK /\ SharesConserved /\ lp \in Ledger /\ lp \in [Accounts -> Nat]
           /\ SumOf(lp) = totalSupply /\ totalSupply \in Nat /\ totalSupply \in Balance
           /\ Contract \in Accounts /\ Zero \in Accounts /\ Contract # Zero
           /\ bal \in [Assets -> Ledger] /\ 0 \in Assets /\ 1 \in Assets
           /\ MINIMUM_LIQUIDITY \in Nat /\ MINIMUM_LIQUIDITY > 0
           /\ Users \subseteq Accounts \ {Contract, Zero} /\ Amounts \subseteq Balance
           /\ \A z \in Assets : /\ reserve[z] \in Balance /\ reserve[z] \in Nat
                                /\ bal[z][Contract] \in Balance /\ bal[z][Contract] \in Nat
                                /\ reserve[z] <= bal[z][Contract]
<1>1. /\ TypeOK /\ SharesConserved /\ lp \in Ledger /\ SumOf(lp) = totalSupply
      /\ Contract \in Accounts /\ Zero \in Accounts /\ Contract # Zero
      /\ bal \in [Assets -> Ledger] /\ 0 \in Assets /\ 1 \in Assets
      /\ totalSupply \in Balance /\ MINIMUM_LIQUIDITY \in Balance /\ MINIMUM_LIQUIDITY > 0
      /\ Users \subseteq Accounts \ {Contract, Zero} /\ Amounts \subseteq Balance
  BY PairAssumption DEF Sound, TypeOK, SharesConserved, Assets
<1>2. ASSUME NEW z \in Assets
      PROVE  /\ reserve[z] \in Balance /\ bal[z][Contract] \in Balance
             /\ reserve[z] <= bal[z][Contract]
  BY <1>1 DEF Sound, TypeOK, ReservesCovered, Ledger
<1>3. \A n \in Balance : n \in Nat
  BY DEF Balance
<1>4. lp \in [Accounts -> Nat]
  BY <1>1, <1>3 DEF Ledger
<1>. QED  BY <1>1, <1>2, <1>3, <1>4

\* What _mint_fee issues is a fee the promise allows.
LEMMA FeeIsAllowed ==
    ASSUME Sound, SupplyFits
    PROVE  /\ FeeShares \in Promise!Fees
           /\ FeeShares \in Nat /\ SupplyWithFee = totalSupply + FeeShares
           /\ LpWithFee(lp) = Promise!WithFee(FeeShares)
           /\ Promise!WithFee(FeeShares) = WithMore(lp, feeTo, FeeShares)
           /\ Promise!WithFee(FeeShares) \in [Accounts -> Nat]
<1>1. /\ TypeOK /\ lp \in Ledger /\ SumOf(lp) = totalSupply /\ totalSupply \in Nat
      /\ totalSupply \in Balance /\ kLast \in Balance /\ lp \in [Accounts -> Nat]
      /\ SatMul(reserve[0], reserve[1]) \in Balance
  BY SoundNumbers, SatMulSpec DEF TypeOK
<1>2. /\ FeeShares \in Balance /\ SupplyWithFee = totalSupply + FeeShares
      /\ LpWithFee(lp) = WithMore(lp, feeTo, FeeShares)
  BY <1>1, FeeExact, FeeType
<1>3. FeeShares \in Nat
  BY <1>2 DEF Balance
<1>4. FeeShares * 5 <= totalSupply
  <2>1. ProtocolFee(SatMul(reserve[0], reserve[1]), kLast, totalSupply, 5) * 5
          <= totalSupply
    <3>1. 5 \in 1 .. 5
      OBVIOUS
    <3>. QED  BY <1>1, <3>1, ProtocolFeeBound
  <2>2. 0 * 5 <= totalSupply
    BY <1>1
  <2>. QED  BY <2>1, <2>2 DEF FeeShares
<1>5. FeeShares <= totalSupply \div 5 /\ totalSupply \div 5 \in Nat
  BY <1>1, <1>3, <1>4, QuotientBound
<1>6. feeTo = NoAccount => FeeShares = 0
  BY DEF FeeShares, FeeOn
<1>7. FeeShares \in Promise!Fees
  BY <1>3, <1>5, <1>6 DEF Promise!Fees
<1>8. Promise!WithFee(FeeShares) = WithMore(lp, feeTo, FeeShares)
  BY DEF Promise!WithFee, WithMore
<1>9. WithMore(lp, feeTo, FeeShares) \in [Accounts -> Nat]
  BY <1>1, <1>3 DEF WithMore
<1>. QED  BY <1>2, <1>3, <1>7, <1>8, <1>9

\* mint issues at most the geometric mean of the first deposit, and at most the part that a
\* later deposit is of either reserve.
LEMMA MintIssues ==
    ASSUME Sound, SupplyFits, NEW u \in Users,
           NEW b \in [Assets -> Ledger], MintWrites(b, u),
           \A z \in Assets : b[z][Contract] >= bal[z][Contract]
    PROVE  LET liquidity == Liquidity(Deposited(b))
           IN  /\ liquidity \in Nat /\ liquidity > 0
               /\ \A z \in Assets : reserve'[z] - reserve[z] \in Nat
               /\ First =>
                     (liquidity + MINIMUM_LIQUIDITY) * (liquidity + MINIMUM_LIQUIDITY)
                        <= (reserve'[0] - reserve[0]) * (reserve'[1] - reserve[1])
               /\ ~First =>
                     \A z \in Assets :
                        /\ reserve[z] > 0
                        /\ liquidity * reserve[z]
                             <= (reserve'[z] - reserve[z]) * SupplyWithFee
<1>. DEFINE dep       == Deposited(b)
            liquidity == Liquidity(dep)
<1>1. /\ TypeOK /\ liquidity \in Balance /\ Contract \in Accounts
      /\ SupplyWithFee \in Balance /\ MINIMUM_LIQUIDITY \in Balance
  BY SoundNumbers, MintType, FeeType, PairAssumption
<1>2. liquidity \in Nat /\ SupplyWithFee \in Nat
  BY <1>1 DEF Balance
<1>3. /\ First \/ PositiveReserves(reserve[0], reserve[1])
      /\ liquidity > 0
      /\ reserve' = [z \in Assets |-> b[z][Contract]]
  BY DEF MintWrites, Update
<1>4. ASSUME NEW z \in Assets
      PROVE  /\ dep[z] = reserve'[z] - reserve[z] /\ dep[z] \in Balance
             /\ dep[z] \in Nat /\ reserve[z] \in Balance /\ reserve[z] \in Nat
  <2>1. /\ b[z][Contract] \in Balance /\ reserve[z] \in Balance
        /\ bal[z][Contract] \in Balance /\ reserve[z] <= bal[z][Contract]
        /\ b[z][Contract] >= bal[z][Contract]
    BY <1>1, SoundNumbers DEF Ledger
  <2>2. reserve[z] <= b[z][Contract]
    BY <2>1 DEF Balance
  <2>3. dep[z] = SatSub(b[z][Contract], reserve[z]) /\ reserve'[z] = b[z][Contract]
    BY <1>3 DEF Deposited
  <2>. HIDE DEF dep
  <2>4. dep[z] = b[z][Contract] - reserve[z] /\ dep[z] \in Balance
    BY <2>1, <2>2, <2>3, SatSubSpec
  <2>. QED  BY <2>1, <2>3, <2>4 DEF Balance
<1>. HIDE DEF dep
<1>5. ASSUME First
      PROVE  (liquidity + MINIMUM_LIQUIDITY) * (liquidity + MINIMUM_LIQUIDITY)
                <= (reserve'[0] - reserve[0]) * (reserve'[1] - reserve[1])
  <2>1. liquidity = InitialLiquidity(dep[0], dep[1], MINIMUM_LIQUIDITY)
    BY <1>5 DEF Liquidity
  <2>. HIDE DEF liquidity
  <2>2. (liquidity + MINIMUM_LIQUIDITY) * (liquidity + MINIMUM_LIQUIDITY) <= dep[0] * dep[1]
    BY <1>1, <1>3, <1>4, <2>1, InitialNeedsBoth DEF Assets
  <2>. QED  BY <1>4, <2>2 DEF Assets
<1>6. ASSUME ~First, NEW z \in Assets
      PROVE  /\ reserve[z] > 0
             /\ liquidity * reserve[z] <= (reserve'[z] - reserve[z]) * SupplyWithFee
  <2>. DEFINE part == ProportionalShare(dep[z], SupplyWithFee, reserve[z])
  <2>1. part \in Balance
    BY <1>1, <1>4, ProportionalShareType
  <2>2. part \in Nat
    BY <2>1 DEF Balance
  <2>3. liquidity <= part
    <3>1. /\ ProportionalShare(dep[0], SupplyWithFee, reserve[0]) \in Balance
          /\ ProportionalShare(dep[1], SupplyWithFee, reserve[1]) \in Balance
      BY <1>1, <1>4, ProportionalShareType DEF Assets
    <3>. QED  BY <1>6, <3>1 DEF Liquidity, MinOf, Assets, Balance
  <2>. HIDE DEF liquidity
  <2>4. reserve[z] > 0 /\ reserve[z] # 0
    BY <1>3, <1>6 DEF PositiveReserves, Assets
  <2>5. part * reserve[z] <= dep[z] * SupplyWithFee
    BY <1>1, <1>4, <2>4, PartBelow DEF ProportionalShare
  <2>. HIDE DEF part
  <2>6. liquidity * reserve[z] <= part * reserve[z]
    BY <1>2, <1>4, <2>2, <2>3
  <2>7. /\ liquidity * reserve[z] \in Nat /\ part * reserve[z] \in Nat
        /\ dep[z] * SupplyWithFee \in Nat
    BY <1>2, <1>4, <2>2
  <2>8. liquidity * reserve[z] <= dep[z] * SupplyWithFee
    BY <2>5, <2>6, <2>7
  <2>. QED  BY <1>4, <2>4, <2>8
<1>. QED  BY <1>2, <1>3, <1>4, <1>5, <1>6 DEF dep

\* A deposit that succeeds opens the pool or adds to it.
LEMMA MintKeepsPromise ==
    ASSUME Sound, SupplyFits, totalSupply' < MaxBalance, NEW u \in Users,
           NEW b \in [Assets -> Ledger], MintWrites(b, u),
           \A z \in Assets : b[z][Contract] >= bal[z][Contract], UNCHANGED feeTo
    PROVE  Promise!Next
<1>. DEFINE liquidity == Liquidity(Deposited(b))
            g == LpWithFee(lp)
<1>1. /\ TypeOK /\ SharesConserved /\ lp \in [Accounts -> Nat] /\ totalSupply \in Nat
      /\ MINIMUM_LIQUIDITY \in Nat /\ u \in Accounts \ {Contract} /\ u \in Accounts
      /\ Zero \in Accounts /\ u # Zero
  BY SoundNumbers
<1>2. /\ FeeShares \in Promise!Fees /\ FeeShares \in Nat
      /\ SupplyWithFee = totalSupply + FeeShares
      /\ g = Promise!WithFee(FeeShares) /\ g \in [Accounts -> Nat]
  BY FeeIsAllowed
<1>3. /\ liquidity \in Nat /\ liquidity > 0
      /\ \A z \in Assets : reserve'[z] - reserve[z] \in Nat
      /\ First => (liquidity + MINIMUM_LIQUIDITY) * (liquidity + MINIMUM_LIQUIDITY)
                     <= (reserve'[0] - reserve[0]) * (reserve'[1] - reserve[1])
      /\ ~First => \A z \in Assets :
                      /\ reserve[z] > 0
                      /\ liquidity * reserve[z] <= (reserve'[z] - reserve[z]) * SupplyWithFee
  BY MintIssues
<1>4. LET locked == IF First THEN MINIMUM_LIQUIDITY ELSE 0
      IN  /\ totalSupply' = SupplyWithFee + locked + liquidity
          /\ lp' = [[LpWithFee(lp) EXCEPT ![Zero] = @ + locked] EXCEPT ![u] = @ + liquidity]
  BY <1>1, MintExact
<1>. HIDE DEF liquidity, g
<1>5. CASE First
  <2>. DEFINE h == [lp EXCEPT ![Zero] = @ + MINIMUM_LIQUIDITY]
  <2>1. totalSupply = 0 /\ FeeShares = 0 /\ g = lp
    <3>1. totalSupply = 0 /\ FeeShares = 0
      BY <1>1, <1>2, <1>5 DEF First
    <3>. QED  BY <3>1 DEF g, LpWithFee
  <2>2. /\ totalSupply' = liquidity + MINIMUM_LIQUIDITY
        /\ totalSupply' > MINIMUM_LIQUIDITY
    BY <1>1, <1>2, <1>3, <1>4, <1>5, <2>1
  <2>3. lp' = [h EXCEPT ![u] = @ + liquidity]
    BY <1>4, <1>5, <2>1 DEF g
  <2>4. h[u] \in Nat
    BY <1>1
  <2>. HIDE DEF h
  <2>5. h[u] + totalSupply' - MINIMUM_LIQUIDITY = h[u] + liquidity
    BY <1>1, <1>3, <2>2, <2>4
  <2>6. lp' = [h EXCEPT ![u] = @ + totalSupply' - MINIMUM_LIQUIDITY]
    BY <2>3, <2>5
  <2>7. \A z \in Promise!Sides : reserve'[z] - reserve[z] >= 0
    BY <1>3 DEF Promise!Sides, Assets
  <2>8. totalSupply' * totalSupply' <= (reserve'[0] - reserve[0]) * (reserve'[1] - reserve[1])
    BY <1>3, <1>5, <2>2
  <2>9. Promise!Open(u)
    BY <2>1, <2>2, <2>6, <2>7, <2>8 DEF Promise!Open, Promise!Sides, h
  <2>. QED  BY <1>1, <2>9 DEF Promise!Next
<1>6. CASE ~First
  <2>1. g = [g EXCEPT ![Zero] = @ + 0]
    BY <1>1, <1>2
  <2>2. lp' = [g EXCEPT ![u] = @ + liquidity]
    BY <1>4, <1>6, <2>1 DEF g
  <2>3. totalSupply' - totalSupply - FeeShares = liquidity
    BY <1>1, <1>2, <1>3, <1>4, <1>6
  <2>4. totalSupply > 0
    <3>1. totalSupply # 0
      BY <1>1, <1>6, NoFeeWithoutSupply DEF First
    <3>. QED  BY <1>1, <3>1
  <2>5. \A z \in Promise!Sides :
            /\ reserve[z] > 0
            /\ liquidity * reserve[z] <= (reserve'[z] - reserve[z]) * (totalSupply + FeeShares)
    BY <1>2, <1>3, <1>6 DEF Promise!Sides, Assets
  <2>6. Promise!Provide(u, FeeShares)
    BY <1>2, <1>3, <2>2, <2>3, <2>4, <2>5 DEF Promise!Provide
  <2>. QED  BY <1>1, <1>2, <2>6 DEF Promise!Next
<1>. QED  BY <1>5, <1>6

\* What a burn that succeeds pays: the ledger accepts both payments, the locked shares are
\* never redeemed, and nobody is paid more than the shares' part of the balances.
LEMMA BurnPays ==
    ASSUME IssuanceFits, Sound, SupplyFits, totalSupply # 0, NEW u \in Users,
           NEW n \in Amounts, n <= lp[u],
           BurnWrites(TransferLiquidity(lp, u, Contract, n), u)
    PROVE  LET liquidity == lp[Contract] + n
               amount    == Redeemed(liquidity)
           IN  /\ liquidity \in Nat /\ liquidity < totalSupply /\ liquidity > 0
               /\ SupplyWithFee \in Nat /\ totalSupply <= SupplyWithFee
               /\ totalSupply' = SupplyWithFee - liquidity
               /\ lp' = WithLess(Moved(LpWithFee(lp), u, Contract, n), Contract, liquidity)
               /\ \A z \in Assets :
                    /\ amount[z] \in Nat /\ amount[z] <= bal[z][Contract]
                    /\ amount[z] * SupplyWithFee <= liquidity * bal[z][Contract]
                    /\ bal'[z][u] = bal[z][u] + amount[z]
                    /\ reserve'[z] = bal[z][Contract] - amount[z]
<1>. DEFINE l == TransferLiquidity(lp, u, Contract, n)
            liquidity == lp[Contract] + n
            amount == Redeemed(liquidity)
<1>1. /\ TypeOK /\ SharesConserved /\ IssuanceKept /\ lp \in Ledger
      /\ totalSupply \in Nat /\ lp \in [Accounts -> Nat] /\ bal \in [Assets -> Ledger]
      /\ u \in Accounts /\ Contract \in Accounts /\ u # Contract /\ n \in Balance
      /\ Zero \in Accounts /\ Zero # Contract /\ Zero \in Accounts \ {u, Contract}
      /\ MINIMUM_LIQUIDITY \in Nat /\ MINIMUM_LIQUIDITY > 0 /\ SumOf(lp) = totalSupply
  BY SoundNumbers DEF Sound
<1>2. n \in Nat
  BY <1>1 DEF Balance
<1>3. /\ l = Moved(lp, u, Contract, n) /\ l \in Ledger /\ SumOf(l) = totalSupply
      /\ l[Contract] = liquidity /\ l[Contract] \in Balance
      /\ totalSupply' = SupplyWithFee - l[Contract] /\ totalSupply <= SupplyWithFee
      /\ lp' = WithLess(LpWithFee(l), Contract, l[Contract])
  BY <1>1, BurnExact
<1>4. liquidity \in Nat /\ liquidity < totalSupply /\ liquidity \in Balance
  <2>1. l[Zero] = lp[Zero]
    BY <1>1, TransferLiquidityType
  <2>2. l[Contract] + l[Zero] <= SumOf(l) /\ l[Contract] \in Nat /\ l[Zero] \in Nat
    BY <1>1, <1>3, TwoBelowSum, SumOfLedger
  <2>3. lp[Zero] >= MINIMUM_LIQUIDITY
    BY <1>1 DEF Sound, MinimumLocked
  <2>. HIDE DEF l
  <2>. QED  BY <1>1, <1>3, <2>1, <2>2, <2>3
<1>5. SupplyWithFee \in Balance /\ SupplyWithFee \in Nat
  <2>1. SupplyWithFee \in Balance
    BY <1>1, FeeType
  <2>. QED  BY <2>1 DEF Balance
<1>6. LpWithFee(l) = Moved(LpWithFee(lp), u, Contract, n)
  <2>1. LpWithFee(l) = WithMore(l, feeTo, FeeShares)
    BY <1>1, <1>3, FeeExact
  <2>2. LpWithFee(lp) = WithMore(lp, feeTo, FeeShares) /\ FeeShares \in Nat
    BY <1>1, FeeExact, FeeIsAllowed
  <2>3. WithMore(Moved(lp, u, Contract, n), feeTo, FeeShares)
          = Moved(WithMore(lp, feeTo, FeeShares), u, Contract, n)
    BY <1>1, <1>2, <2>2, CreditAndTransfer
  <2>. QED  BY <1>3, <2>1, <2>2, <2>3
<1>7. /\ bal' = SentBoth(Contract, u, amount)
      /\ reserve' = [z \in Assets |-> bal'[z][Contract]]
      /\ \A z \in Assets : amount[z] > 0 /\ amount[z] <= bal[z][Contract]
  BY <1>3 DEF BurnWrites, Update
<1>8. amount \in [Assets -> Balance]
  BY <1>1, <1>4, RedeemedType
<1>. HIDE DEF l, liquidity
<1>9. ASSUME NEW z \in Assets
      PROVE  /\ amount[z] \in Nat /\ amount[z] <= bal[z][Contract]
             /\ amount[z] * SupplyWithFee <= liquidity * bal[z][Contract]
             /\ bal'[z][u] = bal[z][u] + amount[z]
             /\ reserve'[z] = bal[z][Contract] - amount[z]
  <2>1. bal[z][Contract] \in Balance /\ bal[z] \in Ledger /\ amount[z] \in Balance
    BY <1>1, <1>8 DEF Ledger
  <2>2. amount[z] = DivOrZero(SatMul(liquidity, bal[z][Contract]), SupplyWithFee)
    BY DEF Redeemed
  <2>3. SupplyWithFee # 0
    BY <1>1, <1>3, <1>5
  <2>4. amount[z] \in Nat /\ amount[z] * SupplyWithFee <= liquidity * bal[z][Contract]
    BY <1>4, <1>5, <2>1, <2>2, <2>3, PartBelow
  <2>5. bal'[z] = Sent(bal[z], Contract, u, amount[z])
    BY <1>7 DEF SentBoth
  <2>6. amount[z] <= bal[z][Contract] /\ SumOf(bal[z]) <= MaxBalance
    BY <1>1, <1>7, Room
  <2>. HIDE DEF amount
  <2>7. /\ bal'[z][Contract] = bal[z][Contract] - amount[z]
        /\ bal'[z][u] = bal[z][u] + amount[z]
    BY <1>1, <2>1, <2>5, <2>6, SentExact
  <2>. QED  BY <1>7, <2>4, <2>6, <2>7
<1>10. liquidity > 0
  <2>. SUFFICES ASSUME liquidity = 0
                PROVE  FALSE
    BY <1>4
  <2>1. bal[0][Contract] \in Nat
    BY SoundNumbers
  <2>2. amount[0] * SupplyWithFee <= 0 * bal[0][Contract]
    BY <1>9 DEF Assets
  <2>3. amount[0] \in Nat /\ amount[0] > 0 /\ SupplyWithFee > 0
    BY <1>1, <1>3, <1>5, <1>7, <1>9 DEF Assets
  <2>. HIDE DEF amount
  <2>. QED  BY <1>5, <2>1, <2>2, <2>3
<1>. QED  BY <1>3, <1>4, <1>5, <1>6, <1>9, <1>10 DEF liquidity

\* A withdrawal that succeeds redeems at most the shares' part.
LEMMA BurnKeepsPromise ==
    ASSUME IssuanceFits, Sound, SupplyFits, totalSupply # 0, NEW u \in Users,
           NEW n \in Amounts, n <= lp[u],
           BurnWrites(TransferLiquidity(lp, u, Contract, n), u), UNCHANGED feeTo
    PROVE  Promise!Next
<1>. DEFINE liquidity == lp[Contract] + n
            amount == Redeemed(liquidity)
            g == LpWithFee(lp)
<1>1. /\ u \in Accounts \ {Contract} /\ u \in Accounts /\ Contract \in Accounts
      /\ u # Contract /\ n \in Balance /\ lp[Contract] \in Nat /\ lp[u] \in Nat
      /\ totalSupply \in Nat
  BY SoundNumbers
<1>2. n \in Nat /\ n \in 0 .. lp[u]
  BY <1>1 DEF Balance
<1>3. /\ FeeShares \in Promise!Fees /\ FeeShares \in Nat
      /\ SupplyWithFee = totalSupply + FeeShares
      /\ g = Promise!WithFee(FeeShares) /\ g \in [Accounts -> Nat]
  BY FeeIsAllowed
<1>4. /\ liquidity \in Nat /\ liquidity < totalSupply /\ liquidity > 0
      /\ SupplyWithFee \in Nat /\ totalSupply <= SupplyWithFee
      /\ totalSupply' = SupplyWithFee - liquidity
      /\ lp' = WithLess(Moved(g, u, Contract, n), Contract, lp[Contract] + n)
  BY BurnPays
<1>5. \A z \in Assets :
          /\ amount[z] \in Nat /\ amount[z] <= bal[z][Contract]
          /\ amount[z] * SupplyWithFee <= liquidity * bal[z][Contract]
          /\ reserve'[z] = bal[z][Contract] - amount[z]
  BY BurnPays
<1>. HIDE DEF amount, g
<1>6. /\ totalSupply + FeeShares - totalSupply' = liquidity
      /\ liquidity - lp[Contract] = n /\ totalSupply' > 0
  BY <1>1, <1>2, <1>3, <1>4
<1>7. lp' = [[g EXCEPT ![u] = @ - n] EXCEPT ![Contract] = @ - lp[Contract]]
  <2>0. g \in [Accounts -> Nat] /\ n \in Nat /\ lp[Contract] \in Nat
    BY <1>1, <1>2, <1>3
  <2>1. WithLess(Moved(g, u, Contract, n), Contract, lp[Contract] + n)
          = WithLess(WithLess(g, u, n), Contract, lp[Contract])
    BY <1>1, <2>0, TransferAndTake
  <2>. QED  BY <1>4, <2>1 DEF WithLess
<1>. HIDE DEF liquidity
<1>8. ASSUME NEW z \in Assets
      PROVE  reserve'[z] * (totalSupply + FeeShares) >= reserve[z] * totalSupply'
  <2>. DEFINE b == bal[z][Contract]
              p == amount[z]
  <2>1. /\ b \in Nat /\ reserve[z] \in Nat /\ reserve[z] <= b /\ p \in Nat /\ p <= b
        /\ p * SupplyWithFee <= liquidity * b /\ reserve'[z] = b - p
    BY <1>5, SoundNumbers
  <2>. HIDE DEF b, p
  <2>2. liquidity <= SupplyWithFee
    BY <1>1, <1>4
  <2>3. reserve[z] * (SupplyWithFee - liquidity) <= (b - p) * SupplyWithFee
    BY <1>4, <2>1, <2>2, PayoutKeepsValue
  <2>4. reserve[z] * totalSupply' <= reserve'[z] * (totalSupply + FeeShares)
    BY <1>3, <1>4, <2>1, <2>3
  <2>5. reserve[z] * totalSupply' \in Int /\ reserve'[z] * (totalSupply + FeeShares) \in Int
    BY <1>1, <1>3, <1>4, <2>1
  <2>. QED  BY <2>4, <2>5
<1>9. \A z \in Promise!Sides :
          reserve'[z] * (totalSupply + FeeShares) >= reserve[z] * totalSupply'
  BY <1>8 DEF Promise!Sides, Assets
<1>10. Promise!Redeem(u, FeeShares)
  BY <1>2, <1>3, <1>4, <1>6, <1>7, <1>9 DEF Promise!Redeem
<1>. QED  BY <1>1, <1>3, <1>10 DEF Promise!Next

\* A swap that succeeds is a trade of the promise: the ledger accepts the price and the
\* payout, and the price keeps the product.
LEMMA SwapKeepsPromise ==
    ASSUME IssuanceFits, PricesFit, Sound, NEW u \in Users, NEW x \in Assets,
           NEW n \in Amounts, swap(x, u, n)
    PROVE  /\ UNCHANGED <<totalSupply, lp, feeTo>>
           /\ \/ UNCHANGED reserve
              \/ /\ reserve'[0] * reserve'[1] >= reserve[0] * reserve[1]
                 /\ \A z \in Assets : reserve[z] > 0 => reserve'[z] > 0
<1>. DEFINE y == Other(x)
            cost == GetAmountIn(n, reserve[x], reserve[y])
            paid == [bal EXCEPT ![x] = Sent(@, u, Contract, cost)]
            v == bal[x][Contract] + cost
            w == bal[y][Contract] - n
<1>1. /\ y \in Assets /\ x # y /\ Assets = {x, y} /\ n \in Balance /\ u \in Accounts
      /\ Contract \in Accounts /\ u # Contract /\ TypeOK /\ IssuanceKept
      /\ bal \in [Assets -> Ledger] /\ {x, y} = {0, 1}
  BY SoundNumbers DEF Sound, Other, Assets
<1>2. cost \in Balance /\ n \in Nat
  BY <1>1, PaidType DEF Balance
<1>3. cost \in Nat
  BY <1>2 DEF Balance
<1>4. /\ UNCHANGED feeTo
      /\ \/ Reverted
         \/ /\ n < reserve[y] /\ cost <= bal[x][u] /\ SwapWrites(paid, y, n, u)
  BY <1>1, SwapEnds
<1>. HIDE DEF cost, y
<1>5. CASE n < reserve[y] /\ cost <= bal[x][u] /\ SwapWrites(paid, y, n, u)
  <2>1. /\ paid[x] = Sent(bal[x], u, Contract, cost) /\ paid[y] = bal[y]
    BY <1>1
  <2>2. /\ SumOf(bal[x]) < MaxBalance /\ SumOf(bal[x]) \in Nat /\ bal[x][u] <= SumOf(bal[x])
        /\ bal[x][u] \in Nat /\ SumOf(bal[y]) <= MaxBalance /\ SumOf(bal[x]) <= MaxBalance
        /\ bal[x] \in Ledger /\ bal[y] \in Ledger
    BY <1>1, Room
  <2>3. paid[x][Contract] = bal[x][Contract] + cost
    BY <1>1, <1>2, <1>5, <2>1, <2>2, SentExact
  <2>. HIDE DEF paid
  <2>4. /\ n <= bal[y][Contract] /\ bal' = [paid EXCEPT ![y] = Sent(@, Contract, u, n)]
        /\ reserve' = [z \in Assets |-> bal'[z][Contract]]
        /\ UNCHANGED <<totalSupply, lp>>
    BY <1>5, <2>1 DEF SwapWrites, Update
  <2>5. paid \in [Assets -> Ledger]
    BY <1>1, PaidType DEF paid, cost, y
  <2>6. bal'[y] = Sent(bal[y], Contract, u, n) /\ bal'[x] = paid[x]
    BY <1>1, <2>1, <2>4, <2>5
  <2>7. reserve'[y] = w /\ reserve'[x] = v
    <3>1. bal'[y][Contract] = bal[y][Contract] - n
      BY <1>1, <2>2, <2>4, <2>6, SentExact
    <3>. QED  BY <1>1, <2>3, <2>4, <2>6, <3>1
  <2>8. /\ cost < MaxBalance
        /\ reserve[x] \in Balance /\ reserve[y] \in Balance
        /\ \A z \in Assets : /\ reserve[z] \in Nat /\ bal[z][Contract] \in Nat
                             /\ reserve[z] <= bal[z][Contract]
    <3>1. cost < MaxBalance
      BY <1>3, <1>5, <2>2, WidthAssumption
    <3>. QED  BY <1>1, <3>1, SoundNumbers
  <2>9. 1000 * (reserve[x] * reserve[y]) <= MaxBalance
    <3>1. ASSUME NEW z \in Assets
          PROVE  reserve[z] <= SumOf(Genesis[z]) /\ SumOf(Genesis[z]) \in Nat
      <4>1. /\ bal[z][Contract] <= SumOf(bal[z]) /\ SumOf(bal[z]) \in Nat
            /\ SumOf(bal[z]) = SumOf(Genesis[z])
        BY <1>1, Room DEF IssuanceKept
      <4>. QED  BY <2>8, <4>1
    <3>2. /\ 1000 * (reserve[0] * reserve[1]) <= MaxBalance
          /\ 1000 * (reserve[1] * reserve[0]) <= MaxBalance
      <4>. DEFINE a == reserve[0]
                  b == reserve[1]
                  s == SumOf(Genesis[0])
                  t == SumOf(Genesis[1])
      <4>1. a \in Nat /\ b \in Nat /\ s \in Nat /\ t \in Nat /\ a <= s /\ b <= t
        BY <2>8, <3>1 DEF Assets
      <4>2. 1000 * (s * t) <= MaxBalance
        BY DEF PricesFit
      <4>. HIDE DEF a, b, s, t
      <4>3. a * b <= s * t /\ a * b \in Nat /\ s * t \in Nat
        BY <4>1, ProductGrows
      <4>4. a * b = b * a
        BY <4>1
      <4>5. 1000 * (a * b) <= MaxBalance /\ 1000 * (b * a) <= MaxBalance
        BY <4>2, <4>3, <4>4, WidthAssumption
      <4>. QED  BY <4>5 DEF a, b
    <3>. QED  BY <1>1, <3>2
  <2>10. reserve[x] * reserve[y] <= v * w
    BY <1>1, <1>5, <2>8, <2>9, TradeKeepsProduct DEF cost
  <2>11. v \in Nat /\ w \in Nat /\ (reserve[x] > 0 => v > 0) /\ w > 0
    BY <1>1, <1>2, <1>3, <1>5, <2>4, <2>8
  <2>. HIDE DEF v, w
  <2>12. reserve[0] \in Nat /\ reserve[1] \in Nat /\ v * w \in Nat /\ v * w = w * v
         /\ reserve[0] * reserve[1] \in Nat /\ reserve[0] * reserve[1] = reserve[1] * reserve[0]
    BY <1>1, <2>8, <2>11
  <2>13. reserve'[0] * reserve'[1] >= reserve[0] * reserve[1]
    <3>1. CASE x = 0 /\ y = 1
      BY <2>7, <2>10, <2>12, <3>1
    <3>2. CASE x = 1 /\ y = 0
      BY <2>7, <2>10, <2>12, <3>2
    <3>. QED  BY <1>1, <3>1, <3>2
  <2>14. \A z \in Assets : reserve[z] > 0 => reserve'[z] > 0
    BY <1>1, <2>7, <2>11
  <2>. QED  BY <1>4, <2>4, <2>13, <2>14
<1>6. CASE Reverted
  BY <1>4, <1>6 DEF Reverted, pairVars
<1>. QED  BY <1>4, <1>5, <1>6

\* sync takes over the balances, which only adds to the reserves.
LEMMA SyncKeepsPromise ==
    ASSUME Sound, sync
    PROVE  /\ UNCHANGED <<totalSupply, lp, feeTo>>
           /\ reserve'[0] * reserve'[1] >= reserve[0] * reserve[1]
           /\ \A z \in Assets : reserve[z] > 0 => reserve'[z] > 0
<1>1. ASSUME NEW z \in Assets
      PROVE  /\ reserve[z] \in Nat /\ reserve'[z] \in Nat /\ reserve[z] <= reserve'[z]
  <2>1. reserve'[z] = bal[z][Contract]
    BY DEF sync, Update
  <2>. QED  BY <2>1, SoundNumbers
<1>2. /\ reserve[0] * reserve[1] <= reserve'[0] * reserve'[1]
      /\ reserve[0] * reserve[1] \in Nat /\ reserve'[0] * reserve'[1] \in Nat
  BY <1>1, ProductGrows DEF Assets
<1>. QED  BY <1>1, <1>2 DEF sync

\* Every message is a step of the promise or leaves its state alone.
LEMMA StepKeepsPromise ==
    ASSUME IssuanceFits, PricesFit, Sound, SupplyFits, SupplyFits', [Next]_vars
    PROVE  [Promise!Next]_(Promise!vars)
<1>0. /\ totalSupply' < MaxBalance /\ TypeOK /\ bal \in [Assets -> Ledger]
      /\ Users \subseteq Accounts \ {Contract} /\ Contract \in Accounts
      /\ Amounts \subseteq Balance
  BY SoundNumbers DEF SupplyFits
<1>1. CASE UNCHANGED <<reserve, totalSupply, lp, feeTo>>
  BY <1>1 DEF Promise!vars
<1>2. ASSUME UNCHANGED <<totalSupply, lp, feeTo>>,
             reserve'[0] * reserve'[1] >= reserve[0] * reserve[1],
             \A z \in Assets : reserve[z] > 0 => reserve'[z] > 0
      PROVE  Promise!Next
  <2>1. Promise!Trade
    BY <1>2 DEF Promise!Trade, Promise!Sides, Assets
  <2>. QED  BY <2>1 DEF Promise!Next
<1>3. CASE sync
  BY <1>2, <1>3, SyncKeepsPromise
<1>4. CASE Tick \/ (\E to \in Accounts : skim(to)) \/ UNCHANGED vars
  <2>1. UNCHANGED <<reserve, totalSupply, lp, feeTo>>
    BY <1>4 DEF Tick, skim, vars, pairVars
  <2>. QED  BY <1>1, <2>1
<1>5. ASSUME NEW u \in Users, NEW a \in FeeRecipients, set_fee_to(u, a)
      PROVE  [Promise!Next]_(Promise!vars)
  <2>1. UNCHANGED <<reserve, totalSupply, lp>> /\ (feeTo' = feeTo \/ feeTo' \in Accounts)
    BY <1>5, PairAssumption DEF set_fee_to, pairVars
  <2>2. CASE feeTo' \in Accounts
    BY <2>1, <2>2 DEF Promise!NameRecipient, Promise!Next
  <2>. QED  BY <1>1, <2>1, <2>2
<1>6. ASSUME NEW u \in Users, NEW x \in Assets, NEW n \in Amounts,
             CurrenciesTransfer(x, u, n)
      PROVE  UNCHANGED <<reserve, totalSupply, lp, feeTo>>
  BY <1>6 DEF CurrenciesTransfer, pairVars
<1>7. ASSUME NEW u \in Users, NEW x \in Assets, NEW n \in Amounts, swap(x, u, n)
      PROVE  [Promise!Next]_(Promise!vars)
  BY <1>1, <1>2, <1>7, SwapKeepsPromise
<1>8. ASSUME NEW u \in Users, NEW x \in Assets, NEW n \in Amounts, deposit(x, u, n)
      PROVE  [Promise!Next]_(Promise!vars)
  <2>. DEFINE b == SentBoth(u, Contract, ToDeposit(x, n))
  <2>1. UNCHANGED feeTo /\ (Reverted \/ MintWrites(b, u))
    BY <1>0, <1>8, DepositEnds
  <2>2. u \in Accounts /\ n \in Balance /\ Contract \in Accounts \ {u}
    BY <1>0
  <2>3. ToDeposit(x, n) \in [Assets -> Balance]
    BY <1>0, <2>2, AmountsType
  <2>4. b \in [Assets -> Ledger] /\ \A z \in Assets : b[z][Contract] >= bal[z][Contract]
    BY <1>0, <2>2, <2>3, SentBothType
  <2>. HIDE DEF b
  <2>5. CASE MintWrites(b, u)
    BY <1>0, <2>1, <2>4, <2>5, MintKeepsPromise
  <2>6. CASE Reverted
    BY <1>1, <2>1, <2>6 DEF Reverted, pairVars
  <2>. QED  BY <2>1, <2>5, <2>6
<1>9. ASSUME NEW u \in Users, NEW n \in Amounts, withdraw(u, n)
      PROVE  [Promise!Next]_(Promise!vars)
  <2>1. /\ UNCHANGED feeTo
        /\ \/ Reverted
           \/ /\ totalSupply # 0 /\ n <= lp[u]
              /\ BurnWrites(TransferLiquidity(lp, u, Contract, n), u)
    BY <1>0, <1>9, WithdrawEnds
  <2>2. CASE Reverted
    BY <1>1, <2>1, <2>2 DEF Reverted, pairVars
  <2>. QED  BY <2>1, <2>2, BurnKeepsPromise
<1>. QED  BY <1>1, <1>3, <1>4, <1>5, <1>6, <1>7, <1>8, <1>9 DEF Next, Message

\* While nothing saturates, the contract implements the specification of a liquidity pool
\* whose failed calls leave no trace: whatever it rounds is rounded in favour of those who
\* stay, although it never looks at what the chain extension answers to a transfer.
THEOREM ContractIsAPool ==
    ASSUME IssuanceFits, PricesFit
    PROVE  Spec /\ []SupplyFits => ImplementsPool
<1>1. Init => Promise!Init
  BY DEF Init, Promise!Init, Promise!Sides, Assets
<1>2. Sound /\ SupplyFits /\ SupplyFits' /\ [Next]_vars => [Promise!Next]_(Promise!vars)
  BY StepKeepsPromise
<1>. QED  BY <1>1, <1>2, AlwaysSound, PTL DEF Spec, ImplementsPool, Promise!Spec

-----------------------------------------------------------------------------
(* The value of a share.                                                   *)

\* How a step changes the reserves and the supply.
LEMMA ReserveStep ==
    ASSUME IssuanceFits, PricesFit, Sound, [Next]_vars
    PROVE  \/ UNCHANGED <<reserve, totalSupply>>
           \/ /\ totalSupply' = totalSupply
              /\ reserve'[0] * reserve'[1] >= reserve[0] * reserve[1]
           \/ \E u \in Users, b \in [Assets -> Ledger] :
                 /\ MintWrites(b, u)
                 /\ \A z \in Assets : b[z][Contract] >= bal[z][Contract]
           \/ /\ totalSupply # 0
              /\ \E u \in Users, n \in Amounts :
                    /\ n <= lp[u]
                    /\ BurnWrites(TransferLiquidity(lp, u, Contract, n), u)
<1>0. /\ TypeOK /\ bal \in [Assets -> Ledger]
      /\ Users \subseteq Accounts \ {Contract} /\ Contract \in Accounts
      /\ Amounts \subseteq Balance
  BY SoundNumbers
<1>1. CASE sync
  BY <1>1, SyncKeepsPromise
<1>2. CASE Tick \/ (\E to \in Accounts : skim(to)) \/ UNCHANGED vars
  BY <1>2 DEF Tick, skim, vars, pairVars
<1>3. ASSUME NEW u \in Users, NEW a \in FeeRecipients, set_fee_to(u, a)
      PROVE  UNCHANGED <<reserve, totalSupply>>
  BY <1>3 DEF set_fee_to, pairVars
<1>4. ASSUME NEW u \in Users, NEW x \in Assets, NEW n \in Amounts,
             CurrenciesTransfer(x, u, n)
      PROVE  UNCHANGED <<reserve, totalSupply>>
  BY <1>4 DEF CurrenciesTransfer, pairVars
<1>5. ASSUME NEW u \in Users, NEW x \in Assets, NEW n \in Amounts, swap(x, u, n)
      PROVE  \/ UNCHANGED <<reserve, totalSupply>>
             \/ /\ totalSupply' = totalSupply
                /\ reserve'[0] * reserve'[1] >= reserve[0] * reserve[1]
  BY <1>5, SwapKeepsPromise
<1>6. ASSUME NEW u \in Users, NEW x \in Assets, NEW n \in Amounts, deposit(x, u, n)
      PROVE  \/ UNCHANGED <<reserve, totalSupply>>
             \/ \E b \in [Assets -> Ledger] :
                   /\ MintWrites(b, u)
                   /\ \A z \in Assets : b[z][Contract] >= bal[z][Contract]
  <2>. DEFINE b == SentBoth(u, Contract, ToDeposit(x, n))
  <2>1. Reverted \/ MintWrites(b, u)
    BY <1>0, <1>6, DepositEnds
  <2>2. u \in Accounts /\ n \in Balance /\ Contract \in Accounts \ {u}
    BY <1>0
  <2>3. ToDeposit(x, n) \in [Assets -> Balance]
    BY <1>0, <2>2, AmountsType
  <2>4. b \in [Assets -> Ledger] /\ \A z \in Assets : b[z][Contract] >= bal[z][Contract]
    BY <1>0, <2>2, <2>3, SentBothType
  <2>. HIDE DEF b
  <2>5. CASE MintWrites(b, u)
    BY <2>4, <2>5
  <2>6. CASE Reverted
    BY <2>6 DEF Reverted, pairVars
  <2>. QED  BY <2>1, <2>5, <2>6
<1>7. ASSUME NEW u \in Users, NEW n \in Amounts, withdraw(u, n)
      PROVE  \/ UNCHANGED <<reserve, totalSupply>>
             \/ /\ totalSupply # 0 /\ n <= lp[u]
                /\ BurnWrites(TransferLiquidity(lp, u, Contract, n), u)
  BY <1>0, <1>7, WithdrawEnds DEF Reverted, pairVars
<1>. QED  BY <1>1, <1>2, <1>3, <1>4, <1>5, <1>6, <1>7 DEF Next, Message

\* A step either leaves each side its part for every share, or issues nothing but the fee
\* and lets the product of the reserves grow.
LEMMA StepRatio ==
    ASSUME IssuanceFits, PricesFit, Sound, SupplyFits, totalSupply' < MaxBalance, TypeOK',
           [Next]_vars, totalSupply > 0
    PROVE  /\ SupplyWithFee \in Nat /\ totalSupply' \in Nat
           /\ \A z \in Assets : reserve[z] \in Nat /\ reserve'[z] \in Nat
           /\ \/ \A z \in Assets : reserve[z] * totalSupply' <= reserve'[z] * SupplyWithFee
              \/ /\ totalSupply' <= SupplyWithFee
                 /\ reserve[0] * reserve[1] <= reserve'[0] * reserve'[1]
<1>1. /\ TypeOK /\ SharesConserved /\ totalSupply \in Nat /\ totalSupply' \in Nat
      /\ Users \subseteq Accounts /\ 0 \in Assets /\ 1 \in Assets
      /\ \A z \in Assets : /\ reserve[z] \in Nat /\ reserve'[z] \in Nat
                           /\ bal[z][Contract] \in Nat /\ reserve[z] <= bal[z][Contract]
  BY SoundNumbers DEF TypeOK, Balance
<1>2. FeeShares \in Nat /\ SupplyWithFee = totalSupply + FeeShares
  BY FeeIsAllowed
<1>3. SupplyWithFee \in Nat /\ totalSupply <= SupplyWithFee /\ ~First
  BY <1>1, <1>2 DEF First
<1>4. ASSUME NEW a \in Nat, NEW b \in Nat
      PROVE  a * b \in Nat
  OBVIOUS
<1>5. reserve[0] * reserve[1] \in Nat /\ reserve'[0] * reserve'[1] \in Nat
  BY <1>1, <1>4
<1>6. CASE UNCHANGED <<reserve, totalSupply>>
  <2>1. reserve'[0] * reserve'[1] = reserve[0] * reserve[1]
    BY <1>6
  <2>. QED  BY <1>1, <1>3, <1>5, <1>6, <2>1
<1>7. CASE totalSupply' = totalSupply /\ reserve'[0] * reserve'[1] >= reserve[0] * reserve[1]
  BY <1>1, <1>3, <1>5, <1>7
<1>8. ASSUME NEW u \in Users, NEW b \in [Assets -> Ledger], MintWrites(b, u),
             \A z \in Assets : b[z][Contract] >= bal[z][Contract]
      PROVE  \A z \in Assets : reserve[z] * totalSupply' <= reserve'[z] * SupplyWithFee
  <2>. DEFINE liquidity == Liquidity(Deposited(b))
  <2>1. totalSupply' = SupplyWithFee + 0 + liquidity
    BY <1>1, <1>3, <1>8, MintExact
  <2>2. /\ liquidity \in Nat /\ \A z \in Assets : reserve'[z] - reserve[z] \in Nat
        /\ \A z \in Assets :
              liquidity * reserve[z] <= (reserve'[z] - reserve[z]) * SupplyWithFee
    BY <1>3, <1>8, MintIssues
  <2>. HIDE DEF liquidity
  <2>. SUFFICES ASSUME NEW z \in Assets
                PROVE  reserve[z] * totalSupply' <= reserve'[z] * SupplyWithFee
    OBVIOUS
  <2>. DEFINE d == reserve'[z] - reserve[z]
              r == reserve[z]
  <2>3. /\ d \in Nat /\ r \in Nat /\ liquidity * r <= d * SupplyWithFee
        /\ reserve'[z] = r + d /\ totalSupply' = SupplyWithFee + liquidity
    BY <1>1, <1>3, <2>1, <2>2
  <2>. HIDE DEF d, r
  <2>4. r * (SupplyWithFee + liquidity) <= (r + d) * SupplyWithFee
    BY <1>3, <2>2, <2>3, DepositKeepsValue
  <2>. QED  BY <2>3, <2>4 DEF r
<1>9. ASSUME totalSupply # 0, NEW u \in Users, NEW n \in Amounts, n <= lp[u],
             BurnWrites(TransferLiquidity(lp, u, Contract, n), u)
      PROVE  \A z \in Assets : reserve[z] * totalSupply' <= reserve'[z] * SupplyWithFee
  <2>. DEFINE liquidity == lp[Contract] + n
              amount == Redeemed(liquidity)
  <2>1. /\ liquidity \in Nat /\ liquidity < totalSupply
        /\ totalSupply' = SupplyWithFee - liquidity
        /\ \A z \in Assets :
              /\ amount[z] \in Nat /\ amount[z] <= bal[z][Contract]
              /\ amount[z] * SupplyWithFee <= liquidity * bal[z][Contract]
              /\ reserve'[z] = bal[z][Contract] - amount[z]
    BY <1>9, BurnPays
  <2>. HIDE DEF amount, liquidity
  <2>2. liquidity <= SupplyWithFee
    BY <1>1, <1>3, <2>1
  <2>. SUFFICES ASSUME NEW z \in Assets
                PROVE  reserve[z] * totalSupply' <= reserve'[z] * SupplyWithFee
    OBVIOUS
  <2>. DEFINE b == bal[z][Contract]
              p == amount[z]
  <2>3. /\ b \in Nat /\ reserve[z] \in Nat /\ reserve[z] <= b /\ p \in Nat /\ p <= b
        /\ p * SupplyWithFee <= liquidity * b /\ reserve'[z] = b - p
    BY <1>1, <2>1
  <2>. HIDE DEF b, p
  <2>4. reserve[z] * (SupplyWithFee - liquidity) <= (b - p) * SupplyWithFee
    BY <1>3, <2>1, <2>2, <2>3, PayoutKeepsValue
  <2>. QED  BY <2>1, <2>3, <2>4
<1>10. \/ \A z \in Assets : reserve[z] * totalSupply' <= reserve'[z] * SupplyWithFee
       \/ /\ totalSupply' <= SupplyWithFee
          /\ reserve[0] * reserve[1] <= reserve'[0] * reserve'[1]
  BY <1>6, <1>7, <1>8, <1>9, ReserveStep
<1>. QED  BY <1>1, <1>3, <1>10

\* While nothing saturates, no message lowers what a share stands for, apart from the shares
\* issued as protocol fee: deposits, withdrawals and swaps round in the pool's favour, and
\* transfers that the chain extension refuses leave the pool with no less.
THEOREM SharesKeepTheirValue ==
    ASSUME IssuanceFits, PricesFit
    PROVE  Spec /\ []SupplyFits => ShareValueNeverDrops
<1>1. Sound /\ Sound' /\ SupplyFits /\ SupplyFits' /\ [Next]_vars
        => [totalSupply > 0 =>
              reserve[0] * reserve[1] * totalSupply' * totalSupply'
                <= reserve'[0] * reserve'[1] * SupplyWithFee * SupplyWithFee]_vars
  <2>. SUFFICES ASSUME Sound, Sound', SupplyFits, SupplyFits', [Next]_vars, totalSupply > 0
                PROVE  reserve[0] * reserve[1] * totalSupply' * totalSupply'
                         <= reserve'[0] * reserve'[1] * SupplyWithFee * SupplyWithFee
    OBVIOUS
  <2>1. totalSupply' < MaxBalance /\ TypeOK'
    BY DEF SupplyFits, Sound
  <2>. QED  BY <2>1, StepRatio, ValueKept DEF Assets
<1>. QED  BY <1>1, AlwaysSound, PTL DEF Spec, ShareValueNeverDrops

-----------------------------------------------------------------------------
(* The supply of a pool without a protocol fee.                            *)

\* A share stands for at least a unit of the root of the product of the reserves.
Backed == totalSupply * totalSupply <= reserve[0] * reserve[1]

\* The root of the product of what the contract may own of both assets is below the largest
\* value of the type.
LEMMA RootFits ==
    ASSUME PricesFit, TypeOK, ReservesCovered, IssuanceKept, Backed
    PROVE  totalSupply < MaxBalance
<1>. DEFINE g == [z \in Assets |-> SumOf(Genesis[z])]
            t == totalSupply
<1>1. /\ bal \in [Assets -> Ledger] /\ Contract \in Accounts /\ 0 \in Assets /\ 1 \in Assets
      /\ reserve \in [Assets -> Balance] /\ t \in Nat
  BY PairAssumption DEF TypeOK, Assets, Balance
<1>2. ASSUME NEW z \in Assets
      PROVE  reserve[z] \in Nat /\ g[z] \in Nat /\ reserve[z] <= g[z]
  <2>1. bal[z] \in Ledger /\ SumOf(bal[z]) = g[z] /\ reserve[z] <= bal[z][Contract]
    BY <1>1 DEF IssuanceKept, ReservesCovered
  <2>2. g[z] \in Nat /\ bal[z][Contract] <= g[z] /\ bal[z][Contract] \in Nat
    BY <1>1, <2>1, SumOfLedger DEF Ledger, Balance
  <2>3. reserve[z] \in Nat
    BY <1>1 DEF Balance
  <2>. QED  BY <2>1, <2>2, <2>3
<1>3. 1000 * (g[0] * g[1]) <= MaxBalance
  BY <1>1 DEF PricesFit
<1>4. MaxBalance \in Nat /\ MaxBalance > 0
  BY WidthAssumption
<1>5. t * t <= reserve[0] * reserve[1]
  BY DEF Backed
<1>. HIDE DEF g, t
<1>6. /\ reserve[0] * reserve[1] <= g[0] * g[1]
      /\ reserve[0] * reserve[1] \in Nat /\ g[0] * g[1] \in Nat
  <2>1. /\ reserve[0] \in Nat /\ reserve[1] \in Nat /\ g[0] \in Nat /\ g[1] \in Nat
        /\ reserve[0] <= g[0] /\ reserve[1] <= g[1]
    BY <1>1, <1>2
  <2>. QED  BY <2>1, ProductGrows
<1>7. t <= t * t /\ t * t \in Nat
  <2>1. CASE t = 0
    BY <2>1
  <2>2. CASE t >= 1
    BY <1>1, <2>2
  <2>. QED  BY <1>1, <2>1, <2>2
<1>. DEFINE h == g[0] * g[1]
            q == t * t
<1>8. h \in Nat /\ 1000 * h <= MaxBalance /\ q \in Nat /\ q <= h /\ t <= q
  BY <1>3, <1>5, <1>6, <1>7
<1>9. t \in Nat
  BY <1>1
<1>. HIDE DEF h, q
<1>10. t < MaxBalance
  BY <1>4, <1>8, <1>9
<1>. QED  BY <1>10 DEF t

\* Without a fee recipient no fee is issued, and a supply that is backed fits.
LEMMA BackedFits ==
    ASSUME PricesFit, Sound, Backed, feeTo = NoAccount
    PROVE  SupplyFits /\ SupplyWithFee = totalSupply
<1>1. /\ TypeOK /\ ReservesCovered /\ IssuanceKept /\ totalSupply \in Nat
      /\ totalSupply \in Balance
  BY SoundNumbers DEF Sound
<1>2. totalSupply < MaxBalance
  BY <1>1, RootFits
<1>3. FeeShares = 0
  BY DEF FeeShares, FeeOn
<1>4. SupplyWithFee = totalSupply
  BY <1>1, <1>2, <1>3, WidthAssumption DEF SupplyWithFee, SatAdd
<1>. QED  BY <1>2, <1>4 DEF SupplyFits

\* A deposit keeps the supply backed: the first one by the root it is issued from, a later
\* one because it leaves each side its part for every share.
LEMMA MintBacked ==
    ASSUME PricesFit, Sound, Backed, feeTo = NoAccount, TypeOK', NEW u \in Users,
           NEW b \in [Assets -> Ledger], MintWrites(b, u),
           \A z \in Assets : b[z][Contract] >= bal[z][Contract]
    PROVE  Backed'
<1>. DEFINE liquidity == Liquidity(Deposited(b))
            base == IF First THEN MINIMUM_LIQUIDITY ELSE SupplyWithFee
            t == base + liquidity
<1>1. /\ TypeOK /\ SupplyFits /\ SupplyWithFee = totalSupply /\ totalSupply \in Nat
      /\ MINIMUM_LIQUIDITY \in Nat /\ base \in Nat /\ totalSupply' \in Nat
      /\ 0 \in Assets /\ 1 \in Assets
      /\ \A z \in Assets : reserve[z] \in Nat /\ reserve'[z] \in Nat
  BY BackedFits, SoundNumbers DEF TypeOK, Balance
<1>2. /\ liquidity \in Nat /\ liquidity > 0
      /\ \A z \in Assets : reserve'[z] - reserve[z] \in Nat
      /\ First => (liquidity + MINIMUM_LIQUIDITY) * (liquidity + MINIMUM_LIQUIDITY)
                    <= (reserve'[0] - reserve[0]) * (reserve'[1] - reserve[1])
      /\ ~First => \A z \in Assets :
                      /\ reserve[z] > 0
                      /\ liquidity * reserve[z] <= (reserve'[z] - reserve[z]) * SupplyWithFee
  BY <1>1, MintIssues
<1>3. totalSupply' = SatAdd(base, liquidity)
  BY DEF MintWrites
<1>. HIDE DEF liquidity
<1>4. totalSupply' <= t /\ t \in Nat
  <2>. HIDE DEF base
  <2>. QED  BY <1>1, <1>2, <1>3, WidthAssumption DEF SatAdd
<1>5. t * t <= reserve'[0] * reserve'[1]
  <2>1. CASE First
    <3>. DEFINE d0 == reserve'[0] - reserve[0]
                d1 == reserve'[1] - reserve[1]
    <3>1. /\ d0 \in Nat /\ d1 \in Nat /\ d0 <= reserve'[0] /\ d1 <= reserve'[1]
          /\ reserve'[0] \in Nat /\ reserve'[1] \in Nat
      BY <1>1, <1>2
    <3>2. t = liquidity + MINIMUM_LIQUIDITY
      BY <1>1, <1>2, <2>1
    <3>3. t * t <= d0 * d1
      BY <1>2, <2>1, <3>2
    <3>. HIDE DEF d0, d1, t
    <3>4. d0 * d1 <= reserve'[0] * reserve'[1] /\ d0 * d1 \in Nat
          /\ reserve'[0] * reserve'[1] \in Nat
      BY <3>1, ProductGrows
    <3>5. t * t \in Nat
      BY <1>4
    <3>. QED  BY <3>3, <3>4, <3>5
  <2>2. CASE ~First
    <3>. DEFINE s == totalSupply
    <3>1. t = s + liquidity /\ s \in Nat
      BY <1>1, <2>2
    <3>2. ASSUME NEW z \in Assets
          PROVE  reserve[z] * t <= reserve'[z] * s /\ reserve[z] > 0
      <4>. DEFINE r == reserve[z]
                  d == reserve'[z] - reserve[z]
      <4>1. /\ r \in Nat /\ d \in Nat /\ reserve'[z] = r + d /\ r > 0
            /\ liquidity * r <= d * s
        BY <1>1, <1>2, <2>2
      <4>. HIDE DEF r, d, s, t
      <4>2. r * (s + liquidity) <= (r + d) * s
        BY <1>2, <3>1, <4>1, DepositKeepsValue
      <4>. QED  BY <3>1, <4>1, <4>2 DEF r
    <3>. DEFINE k == reserve[0] * reserve[1]
                m == reserve'[0] * reserve'[1]
    <3>3. s * s <= k
      BY DEF Backed
    <3>. HIDE DEF t, s
    <3>4. k * t * t <= m * s * s
      BY <1>1, <1>4, <3>1, <3>2, ValueKept
    <3>5. k \in Nat /\ m \in Nat /\ k > 0
      BY <1>1, <3>2
    <3>. HIDE DEF k, m
    <3>6. t * t <= m
      BY <1>4, <3>1, <3>3, <3>4, <3>5, RootKept
    <3>. QED  BY <3>6 DEF m
  <2>. QED  BY <2>1, <2>2
<1>. HIDE DEF t
<1>6. totalSupply' * totalSupply' <= t * t /\ totalSupply' * totalSupply' \in Nat
      /\ t * t \in Nat
  BY <1>1, <1>4, ProductGrows
<1>7. reserve'[0] * reserve'[1] \in Nat
  BY <1>1
<1>. QED  BY <1>5, <1>6, <1>7 DEF Backed

\* No step of a contract without a fee recipient leaves a supply that is not backed.
LEMMA StepBacked ==
    ASSUME IssuanceFits, PricesFit, Sound, Backed, feeTo = NoAccount, TypeOK', [Next]_vars
    PROVE  Backed'
<1>1. /\ TypeOK /\ SupplyFits /\ SupplyWithFee = totalSupply /\ totalSupply \in Nat
      /\ 0 \in Assets /\ 1 \in Assets /\ totalSupply < MaxBalance
      /\ reserve[0] \in Nat /\ reserve[1] \in Nat /\ totalSupply' \in Nat
      /\ MaxBalance \in Nat
  BY BackedFits, SoundNumbers, WidthAssumption DEF TypeOK, Balance, SupplyFits
<1>2. CASE UNCHANGED <<reserve, totalSupply>>
  BY <1>2 DEF Backed
<1>3. CASE totalSupply' = totalSupply /\ reserve'[0] * reserve'[1] >= reserve[0] * reserve[1]
  <2>1. /\ reserve'[0] \in Nat /\ reserve'[1] \in Nat
    BY <1>1 DEF TypeOK, Balance
  <2>. DEFINE k == reserve[0] * reserve[1]
              m == reserve'[0] * reserve'[1]
              ss == totalSupply * totalSupply
  <2>2. k \in Nat /\ m \in Nat /\ ss \in Nat /\ ss <= k /\ k <= m
    BY <1>1, <1>3, <2>1 DEF Backed
  <2>3. totalSupply' * totalSupply' = ss
    BY <1>3
  <2>. HIDE DEF k, ss
  <2>4. ss <= m
    <3>. HIDE DEF m
    <3>. QED  BY <2>2
  <2>. QED  BY <2>3, <2>4 DEF Backed
<1>4. ASSUME NEW u \in Users, NEW b \in [Assets -> Ledger], MintWrites(b, u),
             \A z \in Assets : b[z][Contract] >= bal[z][Contract]
      PROVE  Backed'
  BY <1>4, MintBacked
<1>5. ASSUME totalSupply # 0, NEW u \in Users, NEW n \in Amounts, n <= lp[u],
             BurnWrites(TransferLiquidity(lp, u, Contract, n), u)
      PROVE  Backed'
  <2>1. /\ lp[Contract] + n \in Nat
        /\ totalSupply' = SupplyWithFee - (lp[Contract] + n)
    BY <1>1, <1>5, BurnPays
  <2>2. totalSupply' < MaxBalance /\ totalSupply > 0 /\ totalSupply' <= SupplyWithFee
    BY <1>1, <1>5, <2>1
  <2>. DEFINE k == reserve[0] * reserve[1]
              m == reserve'[0] * reserve'[1]
              s == SupplyWithFee
              t == totalSupply'
  <2>3. k * t * t <= m * s * s
    BY <1>1, <2>2, StepRatio, ValueKept
  <2>4. reserve'[0] \in Nat /\ reserve'[1] \in Nat
    BY <1>1 DEF TypeOK, Balance
  <2>5. k \in Nat /\ m \in Nat /\ s \in Nat /\ t \in Nat /\ s > 0 /\ s * s <= k
    BY <1>1, <2>2, <2>4 DEF Backed
  <2>. HIDE DEF k, m, s, t
  <2>6. k > 0
    <3>1. s * s > 0 /\ s * s \in Nat
      BY <2>5
    <3>. QED  BY <2>5, <3>1
  <2>7. t * t <= m
    BY <2>3, <2>5, <2>6, RootKept
  <2>. QED  BY <2>7 DEF t, m, Backed
<1>. QED  BY <1>2, <1>3, <1>4, <1>5, ReserveStep

\* A contract without a fee recipient needs no condition on its supply: it is at most the
\* root of the product of the reserves.
LEMMA AlwaysBacked ==
    ASSUME IssuanceFits, PricesFit
    PROVE  Spec /\ [](feeTo = NoAccount) => [](Sound /\ Backed)
<1>1. Init => SharesConserved /\ MinimumLocked /\ Backed
  <2>1. Init => SharesConserved
    BY SumOfNothing DEF Init, SharesConserved
  <2>2. Init => MinimumLocked /\ Backed
    BY DEF Init, MinimumLocked, Backed, Assets
  <2>. QED  BY <2>1, <2>2
<1>2. Sound /\ Backed /\ feeTo = NoAccount /\ TypeOK' /\ [Next]_vars => Backed'
  BY StepBacked
<1>3. TypeOK /\ ReservesCovered /\ IssuanceKept /\ Backed => totalSupply < MaxBalance
  BY RootFits
<1>4. Sound /\ Backed /\ feeTo = NoAccount /\ (totalSupply < MaxBalance)' /\ [Next]_vars
        => SharesConserved' /\ MinimumLocked'
  <2>. SUFFICES ASSUME Sound, Backed, feeTo = NoAccount, totalSupply' < MaxBalance,
                       [Next]_vars
                PROVE  SharesConserved' /\ MinimumLocked'
    OBVIOUS
  <2>1. SupplyFits /\ TypeOK /\ SharesConserved /\ MinimumLocked
    BY BackedFits DEF Sound
  <2>. QED  BY <2>1, StepShares, StepLocked
<1>. QED  BY <1>1, <1>2, <1>3, <1>4, TypeCorrect, ContractSolvent, AlwaysTokens, PTL
          DEF Spec, Sound

\* As long as no fee recipient is named, neither the supply nor the shares of an account
\* come near the largest value, however deposits, withdrawals and swaps follow each other.
THEOREM SupplyAlwaysFits ==
    ASSUME IssuanceFits, PricesFit
    PROVE  Spec /\ [](feeTo = NoAccount) => []SupplyFits
<1>1. Sound /\ Backed /\ feeTo = NoAccount => SupplyFits
  BY BackedFits
<1>. QED  BY <1>1, AlwaysBacked, PTL

\* As long as no fee recipient is named, the promises to the owners of shares hold whatever
\* the users do: nothing has to be said of the supply.
THEOREM PoolWithoutFee ==
    ASSUME IssuanceFits, PricesFit
    PROVE  Spec /\ [](feeTo = NoAccount)
             => []SharesConserved /\ ImplementsPool /\ ShareValueNeverDrops
BY SupplyAlwaysFits, SharesAddUp, ContractIsAPool, SharesKeepTheirValue, PTL

-----------------------------------------------------------------------------
(* Leaving the pool.                                                       *)

\* The multiplication of burn is exact: the supply times either balance of the contract is
\* a value of the type.
PayoutsFit == \A x \in Assets : totalSupply * bal[x][Contract] <= MaxBalance

\* A withdrawal of shares that are worth a unit of each asset is not refused, and pays
\* their part.
LEMMA WithdrawPays ==
    ASSUME IssuanceFits, Sound, SupplyFits, PayoutsFit, NEW u \in Users,
           NEW n \in Amounts, n \in 1 .. lp[u],
           \A x \in Assets : n * reserve[x] >= SupplyWithFee, withdraw(u, n)
    PROVE  \A x \in Assets : bal'[x][u] - bal[x][u] >= (n * reserve[x]) \div SupplyWithFee
<1>. DEFINE l == TransferLiquidity(lp, u, Contract, n)
            liquidity == lp[Contract] + n
            amount == Redeemed(liquidity)
<1>1. /\ TypeOK /\ SharesConserved /\ u \in Accounts /\ Contract \in Accounts
      /\ u # Contract /\ lp \in Ledger /\ lp[u] \in Nat /\ lp[Contract] \in Nat
      /\ n \in Nat /\ n > 0 /\ n <= lp[u] /\ totalSupply \in Nat /\ MaxBalance \in Nat
      /\ n \in Balance /\ SumOf(lp) = totalSupply /\ totalSupply <= MaxBalance
  BY SoundNumbers, WidthAssumption DEF Balance
<1>2. lp[u] + lp[Contract] <= totalSupply
  BY <1>1, TwoBelowSum
<1>3. /\ liquidity \in Nat /\ liquidity <= totalSupply /\ n <= liquidity
      /\ totalSupply # 0 /\ liquidity \in Balance
  BY <1>1, <1>2 DEF Balance
<1>4. /\ SupplyWithFee \in Nat /\ totalSupply <= SupplyWithFee /\ SupplyWithFee # 0
      /\ SupplyWithFee \in Balance
  <2>1. SupplyWithFee \in Balance
    BY <1>1, FeeType
  <2>2. SupplyWithFee \in Nat
    BY <2>1 DEF Balance
  <2>3. SupplyWithFee = totalSupply + FeeShares /\ FeeShares \in Nat
    BY FeeIsAllowed
  <2>. QED  BY <1>1, <1>3, <2>1, <2>2, <2>3
<1>5. l[Contract] = liquidity
  <2>1. l = SatCredit(SatDebit(lp, u, n), Contract, n)
    BY DEF TransferLiquidity, SatCredit, SatDebit
  <2>2. SumOf(lp) <= MaxBalance
    BY <1>1
  <2>. QED  BY <1>1, <2>1, <2>2, SatTransferSum
<1>6. amount \in [Assets -> Balance]
  BY <1>1, <1>3, RedeemedType
<1>. HIDE DEF l, liquidity
<1>7. ASSUME NEW x \in Assets
      PROVE  /\ amount[x] >= (n * reserve[x]) \div SupplyWithFee
             /\ amount[x] \in Nat /\ amount[x] > 0 /\ amount[x] <= bal[x][Contract]
             /\ (n * reserve[x]) \div SupplyWithFee \in Nat /\ bal[x][u] \in Nat
  <2>. DEFINE b == bal[x][Contract]
              r == reserve[x]
  <2>1. b \in Balance /\ b \in Nat /\ r \in Nat /\ r <= b /\ totalSupply * b <= MaxBalance
    BY SoundNumbers DEF PayoutsFit
  <2>2. amount[x] = DivOrZero(SatMul(liquidity, b), SupplyWithFee)
    BY DEF Redeemed
  <2>3. n * r >= SupplyWithFee /\ bal[x][u] \in Nat
    <3>1. IssuanceKept
      BY DEF Sound
    <3>. QED  BY <1>1, <3>1, Room
  <2>. HIDE DEF b, r, amount
  <2>4. n * r <= liquidity * b /\ n * r \in Nat /\ liquidity * b \in Nat
    BY <1>1, <1>3, <2>1, ProductGrows
  <2>5. liquidity * b <= totalSupply * b /\ totalSupply * b \in Nat
    BY <1>1, <1>3, <2>1, ProductGrows
  <2>6. liquidity * b <= MaxBalance
    BY <1>1, <2>1, <2>4, <2>5
  <2>7. amount[x] = (liquidity * b) \div SupplyWithFee
    BY <1>3, <1>4, <2>1, <2>2, <2>6, SatMulSpec DEF DivOrZero
  <2>8. /\ (n * r) \div SupplyWithFee \in Nat
        /\ (n * r) \div SupplyWithFee <= (liquidity * b) \div SupplyWithFee
        /\ (n * r) \div SupplyWithFee >= 1
    BY <1>4, <2>3, <2>4, QuotientGrows
  <2>9. (liquidity * b) \div SupplyWithFee \in Nat
    BY <1>4, <2>4, QuotientBelow
  <2>10. amount[x] <= b
    <3>1. liquidity <= SupplyWithFee
      BY <1>1, <1>3, <1>4
    <3>. QED  BY <1>3, <1>4, <2>1, <2>2, <3>1, PartOfWhole
  <2>. QED  BY <2>1, <2>3, <2>7, <2>8, <2>9, <2>10 DEF b, r
<1>8. BurnWrites(l, u)
  <2>1. Burn(l, u)
    BY <1>1, <1>3 DEF withdraw, l
  <2>2. HasBoth(Contract, amount) /\ amount[0] > 0 /\ amount[1] > 0
        /\ amount[0] # 0 /\ amount[1] # 0
    BY <1>7 DEF HasBoth, Assets
  <2>. QED  BY <1>5, <1>7, <2>1, <2>2 DEF Burn, BurnWrites
<1>9. \A x \in Assets : bal'[x][u] = bal[x][u] + amount[x]
  BY <1>1, <1>3, <1>8, BurnPays DEF l, liquidity
<1>. HIDE DEF amount
<1>10. ASSUME NEW x \in Assets
       PROVE  bal'[x][u] - bal[x][u] >= (n * reserve[x]) \div SupplyWithFee
  BY <1>7, <1>9
<1>. QED  BY <1>10

\* While nothing saturates, every provider can leave the contract's pool at any time with
\* the shares' part of the reserves, whatever others did before.
THEOREM ProvidersCanLeave ==
    ASSUME IssuanceFits
    PROVE  Spec /\ []SupplyFits /\ []PayoutsFit => ProviderCanLeave
<1>1. Sound /\ SupplyFits /\ PayoutsFit /\ [Next]_vars
        => [\A u \in Users, n \in Amounts :
              (/\ n \in 1 .. lp[u]
               /\ \A x \in Assets : n * reserve[x] >= SupplyWithFee
               /\ withdraw(u, n))
              => \A x \in Assets :
                    bal'[x][u] - bal[x][u] >= (n * reserve[x]) \div SupplyWithFee]_vars
  BY WithdrawPays
<1>. QED  BY <1>1, AlwaysSound, PTL DEF Spec, ProviderCanLeave

-----------------------------------------------------------------------------
(* The contract implements the pallet.  The two modules share AmmMath and  *)
(* TokenLedger, and their helpers are the same functions of the state.     *)

\* The arithmetic and the ledger, as the pallet's module sees them.
LEMMA SameLedger ==
    /\ Pallet!Assets = Assets
    /\ \A x : Pallet!Other(x) = Other(x)
    /\ \A a, b : Pallet!PositiveReserves(a, b) <=> PositiveReserves(a, b)
    /\ \A a, b : Pallet!SatAdd(a, b) = SatAdd(a, b)
    /\ \A a, b : Pallet!SatSub(a, b) = SatSub(a, b)
    /\ \A n, a, b : Pallet!GetAmountIn(n, a, b) = GetAmountIn(n, a, b)
    /\ \A f, from, to, n : Pallet!CanMove(f, from, to, n) <=> CanMove(f, from, to, n)
    /\ \A f, from, to, n : Pallet!Moved(f, from, to, n) = Moved(f, from, to, n)
<1>1. Pallet!Assets = Assets /\ \A x : Pallet!Other(x) = Other(x)
  BY DEF Pallet!Assets, Assets, Pallet!Other, Other
<1>2. /\ \A a, b : Pallet!PositiveReserves(a, b) <=> PositiveReserves(a, b)
      /\ \A a, b : Pallet!SatAdd(a, b) = SatAdd(a, b)
      /\ \A a, b : Pallet!SatSub(a, b) = SatSub(a, b)
  BY DEF Pallet!PositiveReserves, PositiveReserves, Pallet!SatAdd, SatAdd,
         Pallet!SatSub, SatSub
<1>3. \A n, a, b : Pallet!GetAmountIn(n, a, b) = GetAmountIn(n, a, b)
  BY DEF Pallet!GetAmountIn, GetAmountIn, Pallet!SatMul, SatMul, Pallet!SatSub, SatSub,
         Pallet!SatAdd, SatAdd
<1>4. \A f, from, to, n : Pallet!CanMove(f, from, to, n) <=> CanMove(f, from, to, n)
  BY DEF Pallet!CanMove, CanMove
<1>5. \A f, from, to, n : Pallet!Moved(f, from, to, n) = Moved(f, from, to, n)
  BY DEF Pallet!Moved, Moved
<1>. QED  BY <1>1, <1>2, <1>3, <1>4, <1>5

\* _mint, _transfer_liquidity and _mint_fee.
LEMMA SameFee ==
    /\ \A l, to, v : Pallet!Credit(l, to, v) = Credit(l, to, v)
    /\ \A l, from, to, n :
            Pallet!TransferLiquidity(l, from, to, n) = TransferLiquidity(l, from, to, n)
    /\ Pallet!FeeShares = FeeShares
    /\ Pallet!SupplyWithFee = SupplyWithFee
    /\ \A l : Pallet!LpWithFee(l) = LpWithFee(l)
    /\ Pallet!KLastAfter = KLastAfter
<1>1. \A l, to, v : Pallet!Credit(l, to, v) = Credit(l, to, v)
  BY DEF Pallet!Credit, Credit, Pallet!SatAdd, SatAdd
<1>2. \A l, from, to, n :
        Pallet!TransferLiquidity(l, from, to, n) = TransferLiquidity(l, from, to, n)
  BY DEF Pallet!TransferLiquidity, TransferLiquidity, Pallet!SatAdd, SatAdd,
         Pallet!SatSub, SatSub
<1>3. Pallet!FeeShares = FeeShares
  BY DEF Pallet!FeeShares, FeeShares, Pallet!FeeOn, FeeOn, Pallet!ProtocolFee, ProtocolFee,
         Pallet!IntSqrt, IntSqrt, Pallet!SatMul, SatMul, Pallet!SatSub, SatSub,
         Pallet!SatAdd, SatAdd, Pallet!DivOrZero, DivOrZero
<1>4. Pallet!SupplyWithFee = SupplyWithFee
  BY <1>3, SameLedger DEF Pallet!SupplyWithFee, SupplyWithFee
<1>5. \A l : Pallet!LpWithFee(l) = LpWithFee(l)
  BY <1>1, <1>3 DEF Pallet!LpWithFee, LpWithFee
<1>6. Pallet!KLastAfter = KLastAfter
  BY DEF Pallet!KLastAfter, KLastAfter, Pallet!FeeOn, FeeOn, Pallet!SatMul, SatMul
<1>. QED  BY <1>1, <1>2, <1>3, <1>4, <1>5, <1>6

\* mint.
LEMMA SameMint ==
    /\ \A b : Pallet!Deposited(b) = Deposited(b)
    /\ Pallet!SupplyToMint = IF First THEN MINIMUM_LIQUIDITY ELSE SupplyWithFee
    /\ Pallet!LpToMint = LpToMint
    /\ \A amount : Pallet!Liquidity(amount) = Liquidity(amount)
<1>1. \A b : Pallet!Deposited(b) = Deposited(b)
  BY DEF Pallet!Deposited, Deposited, Pallet!SatSub, SatSub, Pallet!Assets, Assets
<1>2. Pallet!SupplyToMint = IF First THEN MINIMUM_LIQUIDITY ELSE SupplyWithFee
  BY SameFee DEF Pallet!SupplyToMint, First
<1>3. Pallet!LpToMint = LpToMint
  BY SameFee DEF Pallet!LpToMint, LpToMint, First
<1>4. /\ \A a, b, m : Pallet!InitialLiquidity(a, b, m) = InitialLiquidity(a, b, m)
      /\ \A a, s, r : Pallet!ProportionalShare(a, s, r) = ProportionalShare(a, s, r)
      /\ \A a, b : Pallet!MinOf(a, b) = MinOf(a, b)
  BY DEF Pallet!InitialLiquidity, InitialLiquidity, Pallet!ProportionalShare,
         ProportionalShare, Pallet!MinOf, MinOf, Pallet!SatMul, SatMul, Pallet!SatSub,
         SatSub, Pallet!IntSqrt, IntSqrt, Pallet!DivOrZero, DivOrZero
<1>5. \A amount : Pallet!Liquidity(amount) = Liquidity(amount)
  BY <1>4, SameFee DEF Pallet!Liquidity, Liquidity, First
<1>. QED  BY <1>1, <1>2, <1>3, <1>5

\* burn, _swap, skim and the amounts of a deposit.
LEMMA SameTrade ==
    /\ \A n : Pallet!Redeemed(n) = Redeemed(n)
    /\ \A b, y, n : Pallet!Incoming(b, y, n) = Incoming(b, y, n)
    /\ \A b, in : Pallet!KHolds(b, in) <=> KHolds(b, in)
    /\ Pallet!Surplus = Surplus
    /\ Pallet!NoReserves <=> NoReserves
    /\ \A x, n : Pallet!ToDeposit(x, n) = ToDeposit(x, n)
<1>1. \A n : Pallet!Redeemed(n) = Redeemed(n)
  BY SameFee DEF Pallet!Redeemed, Redeemed, Pallet!DivOrZero, DivOrZero, Pallet!SatMul,
                 SatMul, Pallet!Assets, Assets
<1>2. \A b, y, n : Pallet!Incoming(b, y, n) = Incoming(b, y, n)
  BY DEF Pallet!Incoming, Incoming, Pallet!SatSub, SatSub, Pallet!Assets, Assets
<1>3. \A b, in : Pallet!KHolds(b, in) <=> KHolds(b, in)
  BY DEF Pallet!KHolds, KHolds, Pallet!Adjusted, Adjusted, Pallet!SatMul, SatMul,
         Pallet!SatSub, SatSub
<1>4. Pallet!Surplus = Surplus
  BY DEF Pallet!Surplus, Surplus, Pallet!SatSub, SatSub, Pallet!Assets, Assets
<1>5. Pallet!NoReserves <=> NoReserves
  BY DEF Pallet!NoReserves, NoReserves
<1>6. \A x, n : Pallet!ToDeposit(x, n) = ToDeposit(x, n)
  BY DEF Pallet!ToDeposit, ToDeposit, Pallet!NoReserves, NoReserves, Pallet!Quote, Quote,
         Pallet!DivOrZero, DivOrZero, Pallet!SatMul, SatMul, Pallet!Assets, Assets
<1>. QED  BY <1>1, <1>2, <1>3, <1>4, <1>5, <1>6

\* _update: the contract tests the reserves against zero, the pallet for being positive.
LEMMA SameUpdate ==
    ASSUME TypeOK, NEW b, Update(b)
    PROVE  Pallet!Update(b)
<1>1. reserve[0] \in Balance /\ reserve[1] \in Balance
  BY DEF TypeOK, Assets
<1>2. (reserve[0] # 0 /\ reserve[1] # 0) <=> (reserve[0] > 0 /\ reserve[1] > 0)
  BY <1>1 DEF Balance
<1>3. Pallet!TimeElapsed = TimeElapsed
  BY DEF Pallet!TimeElapsed, TimeElapsed, Pallet!OverflowingSub, OverflowingSub
<1>4. [x \in Pallet!Assets |->
         Pallet!OverflowingAdd(price[x], Pallet!SatMul(Pallet!Rate(x), Pallet!TimeElapsed),
                               MaxBalance)]
        = [x \in Assets |-> CumulativePrice(x)]
  BY <1>3 DEF Pallet!Assets, Assets, CumulativePrice, Pallet!OverflowingAdd, OverflowingAdd,
              Pallet!SatMul, SatMul, Pallet!Rate, Pallet!DivOrZero, DivOrZero, Pallet!Other,
              Other
<1>5. [x \in Pallet!Assets |-> b[x][Contract]] = [x \in Assets |-> b[x][Contract]]
  BY SameLedger
<1>. QED  BY <1>2, <1>3, <1>4, <1>5 DEF Update, Pallet!Update, Pallet!PositiveReserves

\* Two transfers of what the sender owns: the contract's, which look at no answer, and
\* the pallet's, which end at the first refusal, are both carried out.
LEMMA SameTransfers ==
    ASSUME IssuanceFits, TypeOK, IssuanceKept,
           NEW from \in Accounts, NEW to \in Accounts, from # to,
           NEW amount \in [Assets -> Balance], HasBoth(from, amount)
    PROVE  /\ Pallet!CanMoveBoth(bal, from, to, amount)
           /\ Pallet!MovedInOrder(bal, from, to, amount) = SentBoth(from, to, amount)
<1>1. ASSUME NEW x \in Assets
      PROVE  /\ CanMove(bal[x], from, to, amount[x])
             /\ Sent(bal[x], from, to, amount[x]) = Moved(bal[x], from, to, amount[x])
  <2>1. /\ bal[x] \in Ledger /\ SumOf(bal[x]) <= MaxBalance
        /\ amount[x] \in Balance /\ amount[x] <= bal[x][from]
    BY Room DEF HasBoth
  <2>. QED  BY <2>1, SentExact
<1>2. Pallet!CanMoveBoth(bal, from, to, amount)
  BY <1>1, SameLedger DEF Pallet!CanMoveBoth
<1>3. ASSUME NEW x \in Assets
      PROVE  Pallet!MovedInOrder(bal, from, to, amount)[x] = Moved(bal[x], from, to, amount[x])
  <2>1. \A y \in 0 .. x : y \in Assets
    BY DEF Assets
  <2>2. \A y \in 0 .. x : Pallet!CanMove(bal[y], from, to, amount[y])
    BY <1>1, <2>1, SameLedger
  <2>. QED  BY <2>2, SameLedger DEF Pallet!MovedInOrder
<1>4. Pallet!MovedInOrder(bal, from, to, amount)
        = [x \in Assets |-> Pallet!MovedInOrder(bal, from, to, amount)[x]]
  BY SameLedger DEF Pallet!MovedInOrder
<1>5. SentBoth(from, to, amount) = [x \in Assets |-> Moved(bal[x], from, to, amount[x])]
  BY <1>1 DEF SentBoth
<1>6. Pallet!MovedInOrder(bal, from, to, amount)
        = [x \in Assets |-> Moved(bal[x], from, to, amount[x])]
  BY <1>3, <1>4
<1>. QED  BY <1>2, <1>5, <1>6

\* A deposit that is not reverted is the pallet's.
LEMMA DepositMapped ==
    ASSUME IssuanceFits, TypeOK, IssuanceKept,
           NEW x \in Assets, NEW u \in Users, NEW n \in Amounts, deposit(x, u, n)
    PROVE  Reverted \/ Pallet!Deposit(x, u, n)
<1>. DEFINE toPay == ToDeposit(x, n)
            b     == SentBoth(u, Contract, toPay)
<1>1. /\ UNCHANGED <<feeTo, now>>
      /\ \/ Reverted
         \/ /\ NoReserves \/ (n > 0 /\ PositiveReserves(reserve[0], reserve[1]))
            /\ HasBoth(u, toPay)
            /\ MintWrites(b, u)
  BY DepositEnds
<1>. SUFFICES ASSUME MintWrites(b, u), HasBoth(u, toPay),
                     NoReserves \/ (n > 0 /\ PositiveReserves(reserve[0], reserve[1]))
              PROVE  Pallet!Deposit(x, u, n)
  BY <1>1
<1>2. u \in Accounts /\ Contract \in Accounts /\ u # Contract /\ n \in Balance
  BY PairAssumption
<1>3. toPay \in [Assets -> Balance]
  BY <1>2, AmountsType
<1>4. Pallet!ToDeposit(x, n) = toPay
  BY SameTrade
<1>. HIDE DEF toPay
<1>5. /\ Pallet!CanMoveBoth(bal, u, Contract, toPay)
      /\ Pallet!MovedInOrder(bal, u, Contract, toPay) = b
  BY <1>2, <1>3, SameTransfers
<1>. HIDE DEF b
<1>6. Pallet!Update(b)
  BY SameUpdate DEF MintWrites
<1>7. Pallet!Mint(b, u)
  <2>1. Pallet!Liquidity(Pallet!Deposited(b)) = Liquidity(Deposited(b))
    BY SameMint
  <2>2. totalSupply' = Pallet!SatAdd(Pallet!SupplyToMint, Liquidity(Deposited(b)))
    BY SameLedger, SameMint DEF MintWrites
  <2>3. lp' = Pallet!Credit(Pallet!LpToMint, u, Liquidity(Deposited(b)))
    BY SameFee, SameMint DEF MintWrites
  <2>4. kLast' = Pallet!KLastAfter
    BY SameFee DEF MintWrites
  <2>5. bal' = b /\ Liquidity(Deposited(b)) > 0
    BY DEF MintWrites
  <2>. QED  BY <1>6, <2>1, <2>2, <2>3, <2>4, <2>5 DEF Pallet!Mint
<1>8. Pallet!NoReserves \/ (n > 0 /\ Pallet!PositiveReserves(reserve[0], reserve[1]))
  BY SameLedger, SameTrade
<1>. QED  BY <1>1, <1>4, <1>5, <1>7, <1>8 DEF Pallet!Deposit

\* A withdrawal that is not reverted is the pallet's.
LEMMA WithdrawMapped ==
    ASSUME IssuanceFits, TypeOK, IssuanceKept,
           NEW u \in Users, NEW n \in Amounts, withdraw(u, n)
    PROVE  Reverted \/ Pallet!Withdraw(u, n)
<1>. DEFINE l      == TransferLiquidity(lp, u, Contract, n)
            amount == Redeemed(l[Contract])
            paid   == SentBoth(Contract, u, amount)
<1>1. /\ UNCHANGED <<feeTo, now>>
      /\ Reverted \/ (totalSupply # 0 /\ n <= lp[u] /\ BurnWrites(l, u))
  BY WithdrawEnds
<1>. SUFFICES ASSUME totalSupply # 0, n <= lp[u], BurnWrites(l, u)
              PROVE  Pallet!Withdraw(u, n)
  BY <1>1
<1>2. u \in Accounts /\ Contract \in Accounts /\ u # Contract /\ n \in Balance /\ lp \in Ledger
  BY PairAssumption DEF TypeOK
<1>3. l \in Ledger
  BY <1>2, TransferLiquidityType
<1>4. l = Pallet!TransferLiquidity(lp, u, Contract, n)
  BY SameFee
<1>5. lp[u] >= n
  <2>1. lp[u] \in Balance
    BY <1>2 DEF Ledger
  <2>. QED  BY <1>2, <2>1 DEF Balance
<1>. HIDE DEF l
<1>6. l[Contract] \in Balance
  BY <1>2, <1>3 DEF Ledger
<1>7. amount \in [Assets -> Balance]
  BY <1>6, RedeemedType
<1>8. /\ \A x \in Assets : amount[x] > 0 /\ amount[x] <= bal[x][Contract]
      /\ bal' = paid
      /\ totalSupply' = SatSub(SupplyWithFee, l[Contract])
      /\ lp' = [LpWithFee(l) EXCEPT ![Contract] = SatSub(@, l[Contract])]
      /\ kLast' = KLastAfter
      /\ Update(bal')
  BY DEF BurnWrites
<1>9. Pallet!Redeemed(l[Contract]) = amount
  BY SameTrade
<1>. HIDE DEF amount
<1>10. /\ Pallet!CanMoveBoth(bal, Contract, u, amount)
       /\ Pallet!MovedInOrder(bal, Contract, u, amount) = paid
  BY <1>2, <1>7, <1>8, SameTransfers DEF HasBoth
<1>. HIDE DEF paid
<1>11. Pallet!Update(paid)
  BY <1>8, SameUpdate
<1>12. lp' = [Pallet!LpWithFee(l) EXCEPT ![Contract] = Pallet!SatSub(@, l[Contract])]
  BY <1>8, SameFee, SameLedger
<1>13. totalSupply' = Pallet!SatSub(Pallet!SupplyWithFee, l[Contract])
  BY <1>8, SameFee, SameLedger
<1>14. kLast' = Pallet!KLastAfter
  BY <1>8, SameFee
<1>15. amount[0] > 0 /\ amount[1] > 0
  BY <1>8 DEF Assets
<1>16. Pallet!Burn(l, u)
  BY <1>8, <1>9, <1>10, <1>11, <1>12, <1>13, <1>14, <1>15 DEF Pallet!Burn
<1>. QED  BY <1>1, <1>4, <1>5, <1>16 DEF Pallet!Withdraw

\* A swap that is not reverted is the pallet's.
LEMMA SwapMapped ==
    ASSUME IssuanceFits, TypeOK, IssuanceKept,
           NEW x \in Assets, NEW u \in Users, NEW n \in Amounts, swap(x, u, n)
    PROVE  Reverted \/ Pallet!Swap(x, u, n)
<1>. DEFINE y    == Other(x)
            cost == GetAmountIn(n, reserve[x], reserve[y])
            paid == [bal EXCEPT ![x] = Moved(@, u, Contract, cost)]
            out  == [paid EXCEPT ![y] = Moved(@, Contract, u, n)]
<1>1. /\ UNCHANGED <<feeTo, now>>
      /\ \/ Reverted
         \/ /\ n > 0 /\ n < reserve[y] /\ PositiveReserves(reserve[0], reserve[1])
            /\ cost <= bal[x][u]
            /\ SwapWrites([bal EXCEPT ![x] = Sent(@, u, Contract, cost)], y, n, u)
  BY SwapEnds
<1>. SUFFICES ASSUME n > 0, n < reserve[y], PositiveReserves(reserve[0], reserve[1]),
                     cost <= bal[x][u],
                     SwapWrites([bal EXCEPT ![x] = Sent(@, u, Contract, cost)], y, n, u)
              PROVE  Pallet!Swap(x, u, n)
  BY <1>1
<1>2. /\ u \in Accounts /\ Contract \in Accounts /\ u # Contract /\ n \in Balance
      /\ y \in Assets /\ x # y /\ bal \in [Assets -> Ledger]
  BY PairAssumption DEF TypeOK, Other, Assets
<1>3. cost \in Balance
  BY <1>2, GetAmountInType DEF TypeOK
<1>4. y = Pallet!Other(x) /\ cost = Pallet!GetAmountIn(n, reserve[x], reserve[y])
  BY SameLedger
<1>. HIDE DEF cost, y
<1>5. \A z \in Assets : bal[z] \in Ledger /\ SumOf(bal[z]) <= MaxBalance
  BY Room
<1>6. CanMove(bal[x], u, Contract, cost)
      /\ Sent(bal[x], u, Contract, cost) = Moved(bal[x], u, Contract, cost)
  BY <1>2, <1>3, <1>5, SentExact
<1>7. [bal EXCEPT ![x] = Sent(@, u, Contract, cost)] = paid
  BY <1>6
<1>8. paid[y] = bal[y] /\ paid[y] \in Ledger
  BY <1>2, <1>5
<1>9. SwapWrites(paid, y, n, u)
  BY <1>7
<1>. HIDE DEF paid
<1>10. n <= paid[y][Contract]
  BY <1>9 DEF SwapWrites
<1>11. CanMove(paid[y], Contract, u, n)
       /\ Sent(paid[y], Contract, u, n) = Moved(paid[y], Contract, u, n)
  BY <1>2, <1>5, <1>8, <1>10, SentExact
<1>12. bal' = out
  BY <1>9, <1>11 DEF SwapWrites
<1>13. /\ Incoming(bal', y, n)[0] > 0 \/ Incoming(bal', y, n)[1] > 0
       /\ KHolds(bal', Incoming(bal', y, n))
       /\ Update(bal') /\ UNCHANGED <<kLast, totalSupply, lp>>
  BY <1>9 DEF SwapWrites
<1>14. paid = [bal EXCEPT ![x] = Pallet!Moved(@, u, Contract, cost)]
  BY SameLedger DEF paid
<1>15. out = [paid EXCEPT ![y] = Pallet!Moved(@, Contract, u, n)]
  BY SameLedger
<1>. HIDE DEF out
<1>16. Pallet!Incoming(out, y, n)[0] > 0 \/ Pallet!Incoming(out, y, n)[1] > 0
  BY <1>12, <1>13, SameTrade
<1>17. Pallet!KHolds(out, Pallet!Incoming(out, y, n))
  BY <1>12, <1>13, SameTrade
<1>18. Pallet!Update(out)
  BY <1>12, <1>13, SameUpdate
<1>19. Pallet!CanMove(paid[y], Contract, u, n) /\ Pallet!CanMove(bal[x], u, Contract, cost)
  BY <1>6, <1>11, SameLedger
<1>20. UNCHANGED Pallet!shareVars
  BY <1>13 DEF Pallet!shareVars
<1>21. Pallet!SwapOut(paid, y, n, u)
  BY <1>12, <1>15, <1>16, <1>17, <1>18, <1>19, <1>20 DEF Pallet!SwapOut
<1>22. Pallet!PositiveReserves(reserve[0], reserve[1])
  BY SameLedger
<1>. QED  BY <1>1, <1>4, <1>14, <1>19, <1>21, <1>22 DEF Pallet!Swap

\* skim pays another account as the pallet pays its caller, and does nothing when the
\* contract is to pay itself.
LEMMA SkimMapped ==
    ASSUME IssuanceFits, TypeOK, IssuanceKept, NEW to \in Accounts, skim(to)
    PROVE  \/ UNCHANGED Pallet!vars
           \/ to # Contract /\ Pallet!Skim(to)
<1>1. /\ Contract \in Accounts /\ bal \in [Assets -> Ledger]
      /\ bal' = SentBoth(Contract, to, Surplus) /\ UNCHANGED <<pairVars, feeTo, now>>
  BY PairAssumption DEF TypeOK, skim
<1>2. ASSUME NEW x \in Assets
      PROVE  Surplus[x] \in Balance /\ Surplus[x] <= bal[x][Contract]
  <2>1. bal[x][Contract] \in Balance /\ reserve[x] \in Balance
    BY <1>1 DEF TypeOK, Ledger
  <2>2. Surplus[x] = SatSub(bal[x][Contract], reserve[x])
    BY DEF Surplus
  <2>. QED  BY <2>1, <2>2, WidthAssumption DEF SatSub, Balance
<1>3. Surplus \in [Assets -> Balance] /\ HasBoth(Contract, Surplus)
  BY <1>2 DEF Surplus, HasBoth
<1>4. CASE to = Contract
  <2>1. \A x \in Assets : Sent(bal[x], Contract, to, Surplus[x]) = bal[x]
    <3>. SUFFICES ASSUME NEW x \in Assets
                  PROVE  Sent(bal[x], Contract, Contract, Surplus[x]) = bal[x]
      BY <1>4
    <3>1. bal[x] \in Ledger
      BY <1>1
    <3>. QED  BY <1>1, <1>2, <3>1, MovedType DEF Sent
  <2>2. bal' = bal
    BY <1>1, <2>1 DEF SentBoth
  <2>. QED  BY <1>1, <2>2 DEF Pallet!vars, Pallet!poolVars, Pallet!shareVars, pairVars
<1>5. CASE to # Contract
  <2>1. /\ Pallet!CanMoveBoth(bal, Contract, to, Surplus)
        /\ Pallet!MovedInOrder(bal, Contract, to, Surplus) = bal'
    BY <1>1, <1>3, <1>5, SameTransfers
  <2>2. /\ Pallet!CanMoveBoth(bal, Contract, to, Pallet!Surplus)
        /\ bal' = Pallet!MovedInOrder(bal, Contract, to, Pallet!Surplus)
    BY <2>1, SameTrade
  <2>3. UNCHANGED <<Pallet!poolVars, Pallet!shareVars, feeTo, now>>
    BY <1>1 DEF Pallet!poolVars, Pallet!shareVars, pairVars
  <2>. QED  BY <1>5, <2>2, <2>3 DEF Pallet!Skim
<1>. QED  BY <1>4, <1>5

\* Every message is a step of the pallet or leaves its state alone.
LEMMA StepMapped ==
    ASSUME IssuanceFits, TypeOK, IssuanceKept, [Next]_vars
    PROVE  [Pallet!Next]_(Pallet!vars)
<1>1. Users \subseteq Accounts \ {Contract}
  BY PairAssumption
<1>2. ASSUME Reverted, UNCHANGED <<feeTo, now>>
      PROVE  UNCHANGED Pallet!vars
  BY <1>2 DEF Reverted, pairVars, Pallet!vars, Pallet!poolVars, Pallet!shareVars
<1>3. ASSUME NEW u \in Accounts \ {Contract}, Pallet!Extrinsic(u)
      PROVE  Pallet!Next
  BY <1>3 DEF Pallet!Next
<1>4. CASE UNCHANGED vars
  BY <1>4 DEF vars, pairVars, Pallet!vars, Pallet!poolVars, Pallet!shareVars
<1>5. CASE Tick
  <2>1. Pallet!Tick
    BY <1>5 DEF Tick, Pallet!Tick, pairVars, Pallet!poolVars, Pallet!shareVars
  <2>. QED  BY <2>1 DEF Pallet!Next
<1>6. CASE sync
  <2>1. Pallet!Update(bal) /\ UNCHANGED <<bal, Pallet!shareVars, feeTo, now>>
    BY <1>6, SameUpdate DEF sync, Pallet!shareVars
  <2>2. Pallet!Sync
    BY <2>1 DEF Pallet!Sync
  <2>. QED  BY <2>2 DEF Pallet!Next
<1>7. ASSUME NEW to \in Accounts, skim(to)
      PROVE  [Pallet!Next]_(Pallet!vars)
  BY <1>3, <1>7, SkimMapped DEF Pallet!Extrinsic
<1>8. ASSUME NEW u \in Users, NEW a \in FeeRecipients, set_fee_to(u, a)
      PROVE  [Pallet!Next]_(Pallet!vars)
  <2>1. UNCHANGED <<bal, Pallet!poolVars, Pallet!shareVars, now>>
    BY <1>8 DEF set_fee_to, pairVars, Pallet!poolVars, Pallet!shareVars
  <2>2. CASE u # FeeToSetter
    BY <1>8, <2>1, <2>2 DEF set_fee_to, Pallet!vars
  <2>3. CASE u = FeeToSetter
    <3>1. Pallet!SetFeeTo(u, a)
      BY <1>8, <2>1, <2>3 DEF set_fee_to, Pallet!SetFeeTo
    <3>. QED  BY <1>1, <1>3, <3>1 DEF Pallet!Extrinsic
  <2>. QED  BY <2>2, <2>3
<1>9. ASSUME NEW u \in Users, NEW x \in Assets, NEW n \in Amounts,
             CurrenciesTransfer(x, u, n)
      PROVE  [Pallet!Next]_(Pallet!vars)
  <2>1. UNCHANGED <<Pallet!poolVars, Pallet!shareVars, feeTo, now>>
    BY <1>9 DEF CurrenciesTransfer, pairVars, Pallet!poolVars, Pallet!shareVars
  <2>2. CASE UNCHANGED bal
    BY <2>1, <2>2 DEF Pallet!vars
  <2>3. CASE /\ CanMove(bal[x], u, Contract, n)
             /\ bal' = [bal EXCEPT ![x] = Moved(@, u, Contract, n)]
    <3>1. /\ Pallet!CanMove(bal[x], u, Contract, n)
          /\ bal' = [bal EXCEPT ![x] = Pallet!Moved(@, u, Contract, n)]
      BY <2>3, SameLedger
    <3>2. Pallet!CurrenciesTransfer(x, u, n)
      BY <2>1, <3>1 DEF Pallet!CurrenciesTransfer
    <3>. QED  BY <1>1, <1>3, <3>2, SameLedger DEF Pallet!Extrinsic
  <2>. QED  BY <1>9, <2>2, <2>3 DEF CurrenciesTransfer
<1>10. ASSUME NEW u \in Users, NEW x \in Assets, NEW n \in Amounts,
              deposit(x, u, n) \/ swap(x, u, n)
       PROVE  [Pallet!Next]_(Pallet!vars)
  <2>1. UNCHANGED <<feeTo, now>>
    BY <1>10 DEF deposit, swap
  <2>2. Reverted \/ Pallet!Deposit(x, u, n) \/ Pallet!Swap(x, u, n)
    BY <1>10, DepositMapped, SwapMapped
  <2>3. CASE Reverted
    BY <1>2, <2>1, <2>3
  <2>4. CASE Pallet!Deposit(x, u, n) \/ Pallet!Swap(x, u, n)
    BY <1>1, <1>3, <2>4, SameLedger DEF Pallet!Extrinsic
  <2>. QED  BY <2>2, <2>3, <2>4
<1>11. ASSUME NEW u \in Users, NEW n \in Amounts, withdraw(u, n)
       PROVE  [Pallet!Next]_(Pallet!vars)
  <2>1. UNCHANGED <<feeTo, now>> /\ (Reverted \/ Pallet!Withdraw(u, n))
    BY <1>11, WithdrawMapped DEF withdraw
  <2>2. CASE Reverted
    BY <1>2, <2>1, <2>2
  <2>3. CASE Pallet!Withdraw(u, n)
    BY <1>1, <1>3, <2>3 DEF Pallet!Extrinsic
  <2>. QED  BY <2>1, <2>2, <2>3
<1>. QED  BY <1>4, <1>5, <1>6, <1>7, <1>8, <1>9, <1>10, <1>11 DEF Next, Message

\* The contract implements the pallet: as long as the issuance of the assets fits the
\* type, a message that succeeds does what the pallet's extrinsic does and one that fails
\* does nothing, although the contract ignores what the chain extension answers.  Nothing
\* is asked of the supply: where it saturates, it does so in both.
THEOREM ContractIsThePallet ==
    ASSUME IssuanceFits
    PROVE  Spec => ImplementsPallet
<1>1. Init => Pallet!Init
  BY SameLedger DEF Init, Pallet!Init
<1>2. TypeOK /\ IssuanceKept /\ [Next]_vars => [Pallet!Next]_(Pallet!vars)
  BY StepMapped
<1>. QED  BY <1>1, <1>2, TypeCorrect, AlwaysTokens, PTL DEF Spec, ImplementsPallet,
                                                            Pallet!Spec
=============================================================================
