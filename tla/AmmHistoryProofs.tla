-------------------------- MODULE AmmHistoryProofs --------------------------
(* What the pallet keeps of its past, for every width of the balance type:   *)
(* the cumulative prices are the time-weighted sums of the spot rates, and   *)
(* the events tell every share and no token that is not there.               *)
EXTENDS AmmOracle, AmmEvents, AmmPalletProofs

-----------------------------------------------------------------------------
(* Remainders.                                                             *)

\* A number and its remainder leave the same remainder.
LEMMA ModTwice ==
    ASSUME NEW m \in Nat, m > 0, NEW a \in Nat
    PROVE  (a % m) % m = a % m
<1>1. (a % m) \in 0 .. m - 1
  OBVIOUS
<1>2. \A c \in 0 .. m - 1 : c % m = c
  OBVIOUS
<1>. QED  BY <1>1, <1>2

\* A number has one quotient and one remainder.
LEMMA ModUnique ==
    ASSUME NEW m \in Nat, NEW p \in Nat, NEW q \in Nat,
           NEW r \in 0 .. m - 1, NEW s \in 0 .. m - 1, m * p + r = m * q + s
    PROVE  r = s
<1>1. \A i, j \in Nat : i < j => m * i + m <= m * j
  <2>. SUFFICES ASSUME NEW i \in Nat, NEW j \in Nat, i < j
                PROVE  m * i + m <= m * j
    OBVIOUS
  <2>1. PICK d \in Nat : j = i + 1 + d
    <3>. WITNESS j - i - 1 \in Nat
    <3>. QED  OBVIOUS
  <2>2. m * j = m * i + m + m * d /\ m * d \in Nat /\ m * i \in Nat
    BY <2>1
  <2>. QED  BY <2>2
<1>2. m * p \in Nat /\ m * q \in Nat
  OBVIOUS
<1>. QED  BY <1>1, <1>2

\* A multiple of the modulus does not change the remainder.
LEMMA ModOfMultiple ==
    ASSUME NEW m \in Nat, m > 0, NEW k \in Nat, NEW n \in Nat
    PROVE  (m * k + n) % m = n % m
<1>. DEFINE z == m * k + n
            p == z \div m
            s == z % m
            q == n \div m
            r == n % m
<1>1. z \in Nat
  OBVIOUS
<1>2. q \in Nat /\ r \in 0 .. m - 1 /\ n = m * q + r
  OBVIOUS
<1>3. p \in Nat /\ s \in 0 .. m - 1 /\ z = m * p + s
  <2>. HIDE DEF z
  <2>. QED  BY <1>1
<1>. HIDE DEF p, s, q, r
<1>4. m * (k + q) + r = m * p + s /\ k + q \in Nat
  BY <1>2, <1>3
<1>5. r = s
  BY <1>2, <1>3, <1>4, ModUnique
<1>. QED  BY <1>5 DEF r, s

\* Adding the same number keeps equal remainders equal.
LEMMA ModAdd ==
    ASSUME NEW m \in Nat, m > 0, NEW a \in Nat, NEW b \in Nat, NEW c \in Nat,
           a % m = b % m
    PROVE  (a + c) % m = (b + c) % m
<1>. DEFINE p == a \div m
            q == b \div m
            r == a % m
<1>1. p \in Nat /\ q \in Nat /\ r \in Nat /\ a = m * p + r /\ b = m * q + r
  OBVIOUS
<1>2. \A k, n \in Nat : (m * k + n) % m = n % m
  BY ModOfMultiple
<1>. HIDE DEF p, q, r
<1>3. a + c = m * p + (r + c) /\ b + c = m * q + (r + c) /\ r + c \in Nat
  BY <1>1
<1>4. (a + c) % m = (r + c) % m /\ (b + c) % m = (r + c) % m
  <2>1. (m * p + (r + c)) % m = (r + c) % m /\ (m * q + (r + c)) % m = (r + c) % m
    BY <1>1, <1>2, <1>3
  <2>. QED  BY <1>3, <2>1
<1>. QED  BY <1>4

-----------------------------------------------------------------------------
(* What a step does to what the oracle reads.                              *)

\* Every call either leaves the reserves, the prices and the clock alone or ends with
\* _update; only a new block moves the clock.
LEMMA StepKinds ==
    ASSUME [Next]_vars
    PROVE  \/ UNCHANGED <<poolVars, now>>
           \/ now' = now /\ \E b : Update(b)
           \/ Tick
<1>1. Sync => now' = now /\ Update(bal)
  BY DEF Sync
<1>2. ASSUME NEW u \in Users, Extrinsic(u)
      PROVE  UNCHANGED <<poolVars, now>> \/ (now' = now /\ \E b : Update(b))
  <2>1. ASSUME NEW a, SetFeeTo(u, a) \/ Skim(u)
        PROVE  UNCHANGED <<poolVars, now>>
    BY <2>1 DEF SetFeeTo, Skim
  <2>2. ASSUME NEW x \in Assets, NEW n \in Amounts, CurrenciesTransfer(x, u, n)
        PROVE  UNCHANGED <<poolVars, now>>
    BY <2>2 DEF CurrenciesTransfer
  <2>3. ASSUME NEW x \in Assets, NEW n \in Amounts, Deposit(x, u, n)
        PROVE  now' = now /\ (UNCHANGED poolVars \/ \E b : Update(b))
    BY <2>3 DEF Deposit, Mint, Fail
  <2>4. ASSUME NEW x \in Assets, NEW n \in Amounts, Swap(x, u, n)
        PROVE  now' = now /\ (UNCHANGED poolVars \/ \E b : Update(b))
    BY <2>4 DEF Swap, SwapOut, Fail
  <2>5. ASSUME NEW n \in Amounts, Withdraw(u, n)
        PROVE  now' = now /\ (UNCHANGED poolVars \/ \E b : Update(b))
    BY <2>5 DEF Withdraw, Burn, Fail
  <2>. QED  BY <1>2, <2>1, <2>2, <2>3, <2>4, <2>5 DEF Extrinsic
<1>3. UNCHANGED vars => UNCHANGED <<poolVars, now>>
  BY DEF vars
<1>. QED  BY <1>1, <1>2, <1>3 DEF Next

\* The clock is never behind the last update, so the time elapsed never wraps around.
ClockAhead == tsLast <= now

\* The rate of two balances is a balance.
LEMMA SpotRateType ==
    ASSUME TypeOK, NEW x \in Assets
    PROVE  SpotRate(x) \in Balance /\ SpotRate(x) \in Nat
<1>1. Other(x) \in Assets
  BY DEF Other, Assets
<1>2. reserve[x] \in Balance /\ reserve[Other(x)] \in Balance /\ 0 \in Balance
  BY <1>1, WidthAssumption DEF TypeOK, Balance
<1>3. Rate(x) \in Balance
  BY <1>2, DivOrZeroType DEF Rate
<1>4. SpotRate(x) \in Balance
  BY <1>2, <1>3 DEF SpotRate
<1>. QED  BY <1>4 DEF Balance

\* _update adds the rate of the period it closes, times its length, to each price.
LEMMA UpdateAdds ==
    ASSUME TypeOK, ClockAhead, NEW b, Update(b), PriceStepFits, NEW x \in Assets
    PROVE  price'[x] = (price[x] + SpotRate(x) * (now - tsLast)) % (MaxBalance + 1)
<1>. DEFINE d == now - tsLast
            s == SpotRate(x)
<1>1. /\ now \in 0 .. MaxMoment /\ tsLast \in 0 .. MaxMoment
      /\ MaxMoment \in Nat /\ MaxMoment <= MaxBalance /\ MaxBalance \in Nat
  BY ConfigAssumption, WidthAssumption DEF TypeOK
<1>2. TimeElapsed = d /\ d \in Balance /\ d \in Nat
  BY <1>1, OverflowingSubIsModular DEF TimeElapsed, ClockAhead, Balance
<1>3. s \in Balance /\ s \in Nat /\ price[x] \in Balance
  BY SpotRateType DEF TypeOK
<1>4. /\ price[x] \in Nat /\ price[x] \in 0 .. MaxBalance
      /\ price[x] % (MaxBalance + 1) = price[x]
  BY <1>1, <1>3 DEF Balance
<1>5. CASE d > 0 /\ PositiveReserves(reserve[0], reserve[1])
  <2>1. price'[x] = OverflowingAdd(price[x], SatMul(s, d), MaxBalance)
    BY <1>2, <1>5 DEF Update, SpotRate
  <2>2. s <= MaxBalance \div d
    BY <1>2, <1>5 DEF PriceStepFits, SpotRate
  <2>. HIDE DEF s, d
  <2>3. s * d <= MaxBalance
    BY <1>1, <1>2, <1>3, <1>5, <2>2, QuotientBound
  <2>4. SatMul(s, d) = s * d /\ SatMul(s, d) \in Balance
    BY <1>2, <1>3, <2>3, SatMulSpec
  <2>5. SatMul(s, d) \in 0 .. MaxBalance
    BY <2>4 DEF Balance
  <2>6. price'[x] = (price[x] + s * d) % (MaxBalance + 1)
    BY <1>1, <1>4, <2>1, <2>4, <2>5, OverflowingAddIsModular
  <2>. QED  BY <2>6 DEF s, d
<1>6. CASE ~(d > 0 /\ PositiveReserves(reserve[0], reserve[1]))
  <2>1. price'[x] = price[x]
    BY <1>2, <1>6 DEF Update
  <2>2. d = 0 \/ s = 0
    BY <1>2, <1>6 DEF SpotRate
  <2>. HIDE DEF s, d
  <2>3. s * d = 0
    BY <1>2, <1>3, <2>2
  <2>4. price[x] + s * d = price[x]
    BY <1>4, <2>3
  <2>. QED  BY <1>4, <2>1, <2>4 DEF s, d
<1>. QED  BY <1>5, <1>6

-----------------------------------------------------------------------------
(* The theorem on the oracle.                                              *)

\* The inductive invariant: the types, the clock, and that the history is a number.
OracleSound ==
    /\ TypeOK
    /\ ClockAhead
    /\ history \in [Assets -> Nat]
    /\ exact \in BOOLEAN
    /\ OracleExact

\* What _update does to the sums.
LEMMA UpdateKeepsSums ==
    ASSUME OracleSound, TypeOK', NEW b, Update(b), now' = now, PriceStepFits, exact,
           NEW x \in Assets
    PROVE  (price'[x] + SpotRate(x)' * (now' - tsLast')) % (MaxBalance + 1)
             = history[x] % (MaxBalance + 1)
<1>. DEFINE sum == price[x] + SpotRate(x) * (now - tsLast)
            m   == MaxBalance + 1
<1>1. tsLast' = now' /\ now' - tsLast' = 0
  BY ConfigAssumption DEF Update, OracleSound, TypeOK
<1>2. SpotRate(x)' \in Nat /\ price'[x] \in Nat
  <2>1. SpotRate(x)' \in Nat
    <3>1. Other(x) \in Assets
      BY DEF Other, Assets
    <3>2. reserve'[x] \in Balance /\ reserve'[Other(x)] \in Balance
      BY <3>1 DEF TypeOK
    <3>3. DivOrZero(reserve'[Other(x)], reserve'[x]) \in Balance
      BY <3>2, DivOrZeroType
    <3>4. DivOrZero(reserve'[Other(x)], reserve'[x]) \in Nat
      BY <3>3 DEF Balance
    <3>. QED  BY <3>4 DEF SpotRate, Rate
  <2>2. price'[x] \in Balance
    BY DEF TypeOK
  <2>. QED  BY <2>1, <2>2 DEF Balance
<1>3. price'[x] + SpotRate(x)' * (now' - tsLast') = price'[x]
  BY <1>1, <1>2
<1>4. price'[x] = sum % m
  BY UpdateAdds DEF OracleSound
<1>5. sum \in Nat /\ m \in Nat /\ m > 0
  <2>1. SpotRate(x) \in Nat
    BY SpotRateType DEF OracleSound
  <2>2. price[x] \in Nat /\ now - tsLast \in Nat
    BY ConfigAssumption DEF OracleSound, TypeOK, ClockAhead, Balance
  <2>. QED  BY <2>1, <2>2, WidthAssumption
<1>6. sum % m = history[x] % m
  BY DEF OracleSound, OracleExact
<1>. HIDE DEF sum, m
<1>7. (sum % m) % m = sum % m
  BY <1>5, ModTwice
<1>. QED  BY <1>3, <1>4, <1>6, <1>7 DEF m

\* A step keeps the inductive invariant.
LEMMA StepKeepsSums ==
    ASSUME OracleSound, TypeOK', [OracleNext]_oracleVars
    PROVE  OracleSound'
<1>1. /\ TypeOK /\ ClockAhead /\ exact \in BOOLEAN /\ history \in [Assets -> Nat]
      /\ now \in Nat /\ tsLast \in Nat /\ tsLast <= now /\ MaxBalance \in Nat
  BY ConfigAssumption, WidthAssumption DEF OracleSound, TypeOK, ClockAhead
<1>2. ASSUME UNCHANGED oracleVars
      PROVE  OracleSound'
  <2>1. /\ reserve' = reserve /\ price' = price /\ now' = now /\ tsLast' = tsLast
        /\ history' = history /\ exact' = exact
    BY <1>2 DEF oracleVars, vars, poolVars
  <2>2. OracleExact'
    BY <2>1 DEF OracleSound, OracleExact, SpotRate, Rate
  <2>. QED  BY <1>1, <2>1, <2>2 DEF OracleSound, ClockAhead
<1>3. ASSUME OracleNext
      PROVE  OracleSound'
  <2>1. /\ Next
        /\ history' = [x \in Assets |-> history[x] + SpotRate(x) * (now' - now)]
        /\ exact' = (exact /\ (tsLast' # tsLast => PriceStepFits))
    BY <1>3 DEF OracleNext
  <2>2. exact' \in BOOLEAN
    BY <2>1
  <2>3. ASSUME NEW x \in Assets
        PROVE  /\ SpotRate(x) \in Nat /\ price[x] \in Nat /\ history[x] \in Nat
               /\ history'[x] = history[x] + SpotRate(x) * (now' - now)
    <3>1. SpotRate(x) \in Nat
      BY <1>1, SpotRateType
    <3>2. price[x] \in Balance
      BY <1>1 DEF TypeOK
    <3>. QED  BY <1>1, <2>1, <3>1, <3>2 DEF Balance
  <2>4. ASSUME now' = now
        PROVE  history' = history
    <3>1. \A x \in Assets : history'[x] = history[x]
      BY <1>1, <2>3, <2>4
    <3>2. history' = [x \in Assets |-> history'[x]]
      BY <2>1
    <3>. QED  BY <1>1, <3>1, <3>2
  <2>5. CASE UNCHANGED <<poolVars, now>>
    <3>1. /\ reserve' = reserve /\ price' = price /\ now' = now /\ tsLast' = tsLast
          /\ history' = history
      BY <2>4, <2>5 DEF poolVars
    <3>2. exact' => exact
      BY <2>1
    <3>3. OracleExact'
      BY <3>1, <3>2 DEF OracleSound, OracleExact, SpotRate, Rate
    <3>. QED  BY <1>1, <2>2, <3>1, <3>3 DEF OracleSound, ClockAhead
  <2>6. ASSUME now' = now, NEW b, Update(b)
        PROVE  OracleSound'
    <3>1. tsLast' = now' /\ history' = history
      BY <2>4, <2>6 DEF Update
    <3>2. ASSUME exact'
          PROVE  exact /\ PriceStepFits
      <4>1. exact /\ (tsLast' # tsLast => PriceStepFits)
        BY <2>1, <3>2
      <4>2. tsLast = now => TimeElapsed = 0
        BY <1>1 DEF TimeElapsed, OverflowingSub
      <4>3. tsLast' = tsLast => PriceStepFits
        BY <2>6, <3>1, <4>2 DEF PriceStepFits
      <4>. QED  BY <4>1, <4>3
    <3>3. OracleExact'
      <4>. SUFFICES ASSUME exact', NEW x \in Assets
                    PROVE  (price'[x] + SpotRate(x)' * (now' - tsLast')) % (MaxBalance + 1)
                             = history'[x] % (MaxBalance + 1)
        BY DEF OracleExact
      <4>. QED  BY <2>6, <3>1, <3>2, UpdateKeepsSums
    <3>. QED  BY <1>1, <2>2, <2>6, <3>1, <3>3 DEF OracleSound, ClockAhead
  <2>7. CASE Tick
    <3>1. /\ reserve' = reserve /\ price' = price /\ now' = now + 1 /\ tsLast' = tsLast
      BY <2>7 DEF Tick, poolVars
    <3>2. history' \in [Assets -> Nat]
      <4>1. \A x \in Assets : history[x] + SpotRate(x) * (now' - now) \in Nat
        BY <1>1, <2>3, <3>1
      <4>. QED  BY <2>1, <4>1
    <3>3. exact' => exact
      BY <2>1
    <3>4. OracleExact'
      <4>. SUFFICES ASSUME exact, NEW x \in Assets
                    PROVE  (price'[x] + SpotRate(x)' * (now' - tsLast')) % (MaxBalance + 1)
                             = history'[x] % (MaxBalance + 1)
        BY <3>3 DEF OracleExact
      <4>. DEFINE s   == SpotRate(x)
                  d   == now - tsLast
                  sum == price[x] + s * d
                  m   == MaxBalance + 1
      <4>1. sum % m = history[x] % m
        BY DEF OracleSound, OracleExact
      <4>2. /\ d \in Nat /\ s \in Nat /\ m \in Nat /\ m > 0
            /\ price[x] \in Nat /\ history[x] \in Nat
        BY <1>1, <2>3
      <4>3. SpotRate(x)' = s /\ price'[x] = price[x] /\ now' - tsLast' = d + 1
        BY <1>1, <3>1 DEF SpotRate, Rate
      <4>4. history'[x] = history[x] + s
        BY <1>1, <2>3, <3>1
      <4>. HIDE DEF s, d, m
      <4>5. sum \in Nat /\ price[x] + s * (d + 1) = sum + s
        BY <4>2
      <4>. HIDE DEF sum
      <4>6. (sum + s) % m = (history[x] + s) % m
        <5>1. sum \in Nat /\ history[x] \in Nat /\ s \in Nat /\ m \in Nat /\ m > 0
          BY <4>2, <4>5
        <5>2. \A a, b, c \in Nat : a % m = b % m => (a + c) % m = (b + c) % m
          BY <5>1, ModAdd
        <5>. QED  BY <4>1, <5>1, <5>2
      <4>7. (price[x] + s * (d + 1)) % m = (history[x] + s) % m
        BY <4>5, <4>6
      <4>. QED  BY <4>3, <4>4, <4>7 DEF m
    <3>. QED  BY <1>1, <2>2, <3>1, <3>2, <3>4 DEF OracleSound, ClockAhead
  <2>. QED  BY <2>1, <2>5, <2>6, <2>7, StepKinds
<1>. QED  BY <1>2, <1>3

\* However the calls, the donations, the failures and the idle blocks are ordered, the
\* cumulative prices are the time-weighted sums of the spot rates modulo the width of
\* the type, until a multiplication of _update saturates.
THEOREM OracleAddsUp == OracleSpec => []OracleExact
<1>1. OracleInit => OracleSound
  <2>. SUFFICES ASSUME OracleInit
                PROVE  OracleSound
    OBVIOUS
  <2>1. Init /\ history = [x \in Assets |-> 0] /\ exact = TRUE
    BY DEF OracleInit
  <2>2. TypeOK
    BY <2>1, InitTypeOK
  <2>3. now = 0 /\ tsLast = 0
    BY <2>1 DEF Init
  <2>4. ASSUME NEW x \in Assets
        PROVE  price[x] + SpotRate(x) * (now - tsLast) = 0 /\ history[x] = 0
    <3>1. SpotRate(x) \in Nat /\ price[x] = 0
      BY <2>1, <2>2, SpotRateType DEF Init
    <3>. QED  BY <2>1, <2>3, <3>1
  <2>. QED  BY <2>1, <2>2, <2>3, <2>4 DEF OracleSound, ClockAhead, OracleExact
<1>2. OracleSpec => []TypeOK
  <2>1. OracleInit => Init
    BY DEF OracleInit
  <2>2. [OracleNext]_oracleVars => [Next]_vars
    BY DEF OracleNext, oracleVars
  <2>. QED  BY <2>1, <2>2, TypeCorrect, PTL DEF OracleSpec, Spec
<1>3. OracleSound /\ TypeOK' /\ [OracleNext]_oracleVars => OracleSound'
  BY StepKeepsSums
<1>4. OracleSound => OracleExact
  BY DEF OracleSound
<1>. QED  BY <1>1, <1>2, <1>3, <1>4, PTL DEF OracleSpec

-----------------------------------------------------------------------------
(* What a reader of the Transfer events makes of them.                     *)

\* The event of a mint, account by account.
LEMMA ReplayedMint ==
    ASSUME NEW l \in [Accounts -> Nat], NEW to, NEW v \in Nat
    PROVE  /\ Replayed(l, Transfer(NoAccount, to, v)) = WithMore(l, to, v)
           /\ WithMore(l, to, v) \in [Accounts -> Nat]
<1>. DEFINE g == Replayed(l, Transfer(NoAccount, to, v))
            h == WithMore(l, to, v)
<1>1. ASSUME NEW a \in Accounts
      PROVE  g[a] = h[a] /\ h[a] \in Nat
  <2>1. a # NoAccount /\ l[a] \in Nat
    BY ConfigAssumption
  <2>2. /\ g[a] = l[a] + (IF a = to THEN v ELSE 0) - 0
        /\ h[a] = l[a] + (IF a = to THEN v ELSE 0)
    BY <2>1 DEF Replayed, Transfer, WithMore
  <2>3. (IF a = to THEN v ELSE 0) \in Nat
    OBVIOUS
  <2>. QED  BY <2>1, <2>2, <2>3
<1>2. g = [a \in Accounts |-> g[a]] /\ h = [a \in Accounts |-> h[a]]
  BY DEF Replayed, WithMore
<1>. HIDE DEF g, h
<1>3. g = h /\ h \in [Accounts -> Nat]
  BY <1>1, <1>2
<1>. QED  BY <1>3 DEF g, h

\* Where no event is deposited, nothing changes.
LEMMA ReplayedNothing ==
    ASSUME NEW l \in [Accounts -> Nat]
    PROVE  Replayed(l, NoTransfer) = l /\ \A to : WithMore(l, to, 0) = l
<1>1. \A to : WithMore(l, to, 0) = l
  BY DEF WithMore
<1>2. Replayed(l, Transfer(NoAccount, NoAccount, 0)) = WithMore(l, NoAccount, 0)
  BY ReplayedMint
<1>. QED  BY <1>1, <1>2 DEF NoTransfer

\* The event of _mint_fee tells what it writes.
LEMMA ReplayedFee ==
    ASSUME TypeOK, SupplyFits, NEW l \in Ledger, SumOf(l) = totalSupply
    PROVE  Replayed(l, FeeEvent) = LpWithFee(l) /\ LpWithFee(l) \in [Accounts -> Nat]
<1>. l \in [Accounts -> Nat]
  BY WidthAssumption DEF Ledger, Balance
<1>1. FeeShares \in Nat /\ LpWithFee(l) = WithMore(l, feeTo, FeeShares)
  BY FeeExact
<1>2. /\ Replayed(l, Transfer(NoAccount, feeTo, FeeShares)) = LpWithFee(l)
      /\ LpWithFee(l) \in [Accounts -> Nat]
  BY <1>1, ReplayedMint
<1>3. CASE FeeShares > 0
  BY <1>2, <1>3 DEF FeeEvent, When
<1>4. CASE FeeShares = 0
  <2>1. Replayed(l, NoTransfer) = l /\ LpWithFee(l) = l
    BY <1>1, <1>4, ReplayedNothing
  <2>2. FeeEvent = NoTransfer
    BY <1>4 DEF FeeEvent, When
  <2>. QED  BY <1>2, <2>1, <2>2
<1>. QED  BY <1>1, <1>3, <1>4

\* The events of _transfer_liquidity, account by account.
LEMMA ReplayedMove ==
    ASSUME NEW l \in [Accounts -> Nat], NEW u \in Accounts, NEW c \in Accounts, u # c,
           NEW n \in Nat
    PROVE  Replayed(l, Transfer(u, c, n)) = Moved(l, u, c, n)
<1>. DEFINE g == Replayed(l, Transfer(u, c, n))
            h == Moved(l, u, c, n)
<1>1. ASSUME NEW a \in Accounts
      PROVE  g[a] = h[a]
  <2>1. l[a] \in Nat
    OBVIOUS
  <2>2. g[a] = l[a] + (IF a = c THEN n ELSE 0) - (IF a = u THEN n ELSE 0)
    BY DEF Replayed, Transfer
  <2>3. CASE a = u
    BY <2>1, <2>2, <2>3 DEF Moved
  <2>4. CASE a = c
    BY <2>1, <2>2, <2>4 DEF Moved
  <2>5. CASE a # u /\ a # c
    <3>1. h[a] = l[a]
      BY <2>5 DEF Moved
    <3>. QED  BY <2>1, <2>2, <2>5, <3>1
  <2>. QED  BY <2>3, <2>4, <2>5
<1>2. g = [a \in Accounts |-> g[a]] /\ h = [a \in Accounts |-> h[a]]
  BY DEF Replayed, Moved
<1>. HIDE DEF g, h
<1>3. g = h
  BY <1>1, <1>2
<1>. QED  BY <1>3 DEF g, h

\* The event of _burn, account by account.
LEMMA ReplayedBurn ==
    ASSUME NEW l \in Ledger, NEW c \in Accounts, NEW v \in Balance, v <= l[c]
    PROVE  Replayed(l, Transfer(c, NoAccount, v)) = SatDebit(l, c, v)
<1>. DEFINE g == Replayed(l, Transfer(c, NoAccount, v))
            h == SatDebit(l, c, v)
<1>1. ASSUME NEW a \in Accounts
      PROVE  g[a] = h[a]
  <2>1. l[a] \in Nat /\ l[c] \in Balance /\ v \in Nat /\ a # NoAccount
    BY ConfigAssumption DEF Ledger, Balance
  <2>2. g[a] = l[a] + 0 - (IF a = c THEN v ELSE 0)
    BY <2>1 DEF Replayed, Transfer
  <2>3. CASE a = c
    <3>1. h[a] = SatSub(l[c], v)
      BY <2>3 DEF SatDebit, Ledger
    <3>2. SatSub(l[c], v) = l[c] - v
      BY <2>1, SatSubSpec
    <3>. QED  BY <2>1, <2>2, <2>3, <3>1, <3>2
  <2>4. CASE a # c
    <3>1. h[a] = l[a]
      BY <2>4 DEF SatDebit, Ledger
    <3>. QED  BY <2>1, <2>2, <2>4, <3>1
  <2>. QED  BY <2>3, <2>4
<1>2. g = [a \in Accounts |-> g[a]] /\ h = [a \in Accounts |-> h[a]]
  BY DEF Replayed, SatDebit, Ledger
<1>. HIDE DEF g, h
<1>3. g = h
  BY <1>1, <1>2
<1>. QED  BY <1>3 DEF g, h

-----------------------------------------------------------------------------
(* No write of the share table goes without its event.                     *)

\* mint deposits an event for the fee, for the locked minimum and for the new shares.
LEMMA MintIsTold ==
    ASSUME TypeOK, SharesConserved, SupplyFits, totalSupply' < MaxBalance,
           ObserverAgrees, NEW u \in Users, NEW b \in [Assets -> Ledger], bal' = b,
           Mint(b, u), MintTransfers(u)
    PROVE  ObserverAgrees'
<1>. DEFINE new    == Liquidity(Deposited(b))
            fee    == LpWithFee(lp)
            lock   == When(SupplyWithFee = 0, Transfer(NoAccount, Zero, MinimumLiquidity))
            issued == When(result' = "Ok", Transfer(NoAccount, u, new))
<1>1. /\ new \in Balance /\ new \in Nat /\ LpToMint \in Ledger /\ fee \in Ledger
      /\ lp \in Ledger /\ SumOf(lp) = totalSupply /\ Zero \in Accounts /\ u \in Accounts
      /\ MinimumLiquidity \in Balance /\ MinimumLiquidity \in Nat
      /\ MinimumLiquidity <= MaxBalance /\ SupplyToMint \in Balance
      /\ LpToMint \in [Accounts -> Nat] /\ fee \in [Accounts -> Nat]
  BY MintType, FeeType, ConfigAssumption DEF TypeOK, SharesConserved, Balance, Ledger
<1>2. seenShares' = Replayed(Replayed(Replayed(lp, FeeEvent), lock), issued)
  BY DEF MintTransfers, ReadTransfers, ObserverAgrees
<1>3. Replayed(lp, FeeEvent) = fee /\ SumOf(fee) = SupplyWithFee
  BY <1>1, ReplayedFee, FeeSum
<1>4. Replayed(fee, lock) = LpToMint /\ SumOf(LpToMint) = SupplyToMint
  <2>1. CASE SupplyWithFee = 0
    <3>1. LpToMint = SatCredit(fee, Zero, MinimumLiquidity)
      BY <2>1 DEF LpToMint, Credit, SatCredit
    <3>2. SumOf(fee) + MinimumLiquidity <= MaxBalance
      BY <1>1, <1>3, <2>1
    <3>. HIDE DEF fee
    <3>3. LpToMint = WithMore(fee, Zero, MinimumLiquidity)
      BY <1>1, <3>1, <3>2, SatCreditPointwise
    <3>4. SumOf(LpToMint) = SumOf(fee) + MinimumLiquidity
      BY <1>1, <3>1, <3>2, SatCreditSum
    <3>5. Replayed(fee, lock) = LpToMint
      BY <1>1, <2>1, <3>3, ReplayedMint DEF When
    <3>. QED  BY <1>1, <1>3, <2>1, <3>4, <3>5 DEF SupplyToMint
  <2>2. CASE SupplyWithFee # 0
    <3>1. lock = NoTransfer /\ LpToMint = fee /\ SupplyToMint = SupplyWithFee
      BY <2>2 DEF When, LpToMint, SupplyToMint
    <3>. HIDE DEF fee, lock
    <3>. QED  BY <1>1, <1>3, <3>1, ReplayedNothing
  <2>. QED  BY <2>1, <2>2
<1>. HIDE DEF fee, lock
<1>5. seenShares' = Replayed(LpToMint, issued)
  BY <1>2, <1>3, <1>4
<1>6. CASE new = 0
  <2>1. lp' = LpToMint /\ result' # "Ok"
    BY <1>6 DEF Mint
  <2>2. issued = NoTransfer
    BY <2>1 DEF When
  <2>. HIDE DEF issued
  <2>. QED  BY <1>1, <1>5, <2>1, <2>2, ReplayedNothing DEF ObserverAgrees
<1>7. CASE new > 0
  <2>1. /\ lp' = SatCredit(LpToMint, u, new) /\ result' = "Ok"
        /\ totalSupply' = SatAdd(SupplyToMint, new)
    BY <1>7 DEF Mint, Credit, SatCredit
  <2>2. issued = Transfer(NoAccount, u, new)
    BY <2>1 DEF When
  <2>. HIDE DEF issued, new
  <2>3. SumOf(LpToMint) + new <= MaxBalance
    BY <1>1, <1>4, <2>1, WidthAssumption DEF SatAdd, Balance
  <2>4. lp' = WithMore(LpToMint, u, new)
    BY <1>1, <2>1, <2>3, SatCreditPointwise
  <2>5. Replayed(LpToMint, issued) = WithMore(LpToMint, u, new)
    BY <1>1, <2>2, ReplayedMint
  <2>. QED  BY <1>5, <2>4, <2>5 DEF ObserverAgrees
<1>. QED  BY <1>1, <1>6, <1>7

\* A deposit that comes to mint is told; one that does not changes no shares.
LEMMA DepositIsTold ==
    ASSUME TypeOK, SharesConserved, SupplyFits, totalSupply' < MaxBalance,
           ObserverAgrees, NEW x \in Assets, NEW u \in Users, NEW n \in Amounts,
           SeenDeposit(x, u, n)
    PROVE  ObserverAgrees'
<1>. DEFINE after == MovedInOrder(bal, u, Contract, ToDeposit(x, n))
<1>1. /\ u \in Accounts /\ Contract \in Accounts
      /\ bal \in [Assets -> Ledger] /\ ToDeposit(x, n) \in [Assets -> Balance]
  BY ToDepositType, ConfigAssumption DEF TypeOK
<1>2. after \in [Assets -> Ledger]
  BY <1>1, MovedInOrderType
<1>. HIDE DEF after
<1>3. \/ UNCHANGED lp /\ result' \notin {"Ok", "InsufficientLiquidityMinted"}
      \/ bal' = after /\ Mint(after, u) /\ result' \in {"Ok", "InsufficientLiquidityMinted"}
  BY DEF SeenDeposit, Deposit, Mint, Fail, MoveBothError, MoveError, after, shareVars
<1>4. CASE UNCHANGED lp /\ result' \notin {"Ok", "InsufficientLiquidityMinted"}
  <2>1. UNCHANGED seenShares
    BY <1>4 DEF SeenDeposit
  <2>. QED  BY <1>4, <2>1 DEF ObserverAgrees
<1>5. CASE bal' = after /\ Mint(after, u) /\ result' \in {"Ok", "InsufficientLiquidityMinted"}
  <2>1. MintTransfers(u)
    BY <1>5 DEF SeenDeposit
  <2>. QED  BY <1>2, <1>5, <2>1, MintIsTold
<1>. QED  BY <1>3, <1>4, <1>5

\* What burn redeems is what the pool account holds after _transfer_liquidity.
LEMMA ToBurnIsHeld ==
    ASSUME TypeOK, SharesConserved, NEW u \in Users, NEW n \in Amounts, n <= lp[u]
    PROVE  ToBurn(n) = TransferLiquidity(lp, u, Contract, n)[Contract]
<1>1. /\ Contract \in Accounts /\ u \in Accounts /\ u # Contract /\ lp \in Ledger
      /\ n \in Balance
  BY ConfigAssumption DEF TypeOK
<1>2. /\ lp[Contract] \in Balance /\ lp[u] \in Balance
  BY <1>1 DEF Ledger
<1>3. lp[u] + lp[Contract] <= SumOf(lp)
  BY <1>1, TwoBelowSum
<1>4. lp[Contract] + n <= MaxBalance
  BY <1>1, <1>2, <1>3, WidthAssumption DEF SharesConserved, TypeOK, Balance
<1>5. ToBurn(n) = lp[Contract] + n
  BY <1>1, <1>2, <1>4, SatAddSpec DEF ToBurn
<1>. QED  BY <1>5, SharesToRedeem

\* A withdrawal deposits an event for the shares it moves to the pool account, for the fee,
\* and for the shares burn destroys, unless it stops before.
LEMMA WithdrawIsTold ==
    ASSUME TypeOK, SharesConserved, SupplyFits, ObserverAgrees,
           NEW u \in Users, NEW n \in Amounts, SeenWithdraw(u, n)
    PROVE  ObserverAgrees'
<1>. DEFINE l     == TransferLiquidity(lp, u, Contract, n)
            fee   == LpWithFee(l)
            burnt == When(result' # "InsufficientLiquidityBurned",
                          Transfer(Contract, NoAccount, ToBurn(n)))
<1>1. /\ Contract \in Accounts /\ u \in Accounts /\ u # Contract /\ n \in Nat
      /\ lp \in Ledger /\ lp[u] \in Nat /\ lp \in [Accounts -> Nat]
  BY ConfigAssumption DEF TypeOK, Ledger, Balance
<1>2. CASE totalSupply # 0 /\ n <= lp[u]
  <2>1. Burn(l, u) /\ BurnTransfers(u, n)
    BY <1>1, <1>2 DEF SeenWithdraw, Withdraw
  <2>2. /\ l = Moved(lp, u, Contract, n) /\ l \in Ledger /\ SumOf(l) = totalSupply
    BY <1>2, SharesToRedeem DEF Moved
  <2>3. ToBurn(n) = l[Contract]
    BY <1>2, ToBurnIsHeld
  <2>4. seenShares'
          = Replayed(Replayed(Replayed(lp, Transfer(u, Contract, n)), FeeEvent), burnt)
    BY <2>1 DEF BurnTransfers, ReadTransfers, ObserverAgrees
  <2>. HIDE DEF l
  <2>5. Replayed(lp, Transfer(u, Contract, n)) = l
    BY <1>1, <2>2, ReplayedMove
  <2>6. Replayed(l, FeeEvent) = fee /\ fee \in Ledger /\ fee \in [Accounts -> Nat]
    BY <2>2, ReplayedFee, FeeType
  <2>7. l[Contract] \in Balance /\ l[Contract] <= fee[Contract]
    <3>1. fee[Contract] >= l[Contract]
      BY <1>1, <2>2, FeeGrows
    <3>2. l[Contract] \in Balance /\ fee[Contract] \in Nat
      BY <1>1, <2>2, <2>6 DEF Ledger
    <3>. HIDE DEF fee
    <3>. QED  BY <3>1, <3>2 DEF Balance
  <2>8. seenShares' = Replayed(fee, burnt)
    BY <2>4, <2>5, <2>6
  <2>9. \/ result' = "InsufficientLiquidityBurned" /\ lp' = fee
        \/ /\ result' # "InsufficientLiquidityBurned"
           /\ lp' = SatDebit(fee, Contract, l[Contract])
    BY <2>1 DEF Burn, MoveBothError, MoveError, SatDebit
  <2>10. CASE result' = "InsufficientLiquidityBurned" /\ lp' = fee
    <3>1. burnt = NoTransfer
      BY <2>10 DEF When
    <3>. HIDE DEF burnt, fee
    <3>. QED  BY <2>6, <2>8, <2>10, <3>1, ReplayedNothing DEF ObserverAgrees
  <2>11. CASE /\ result' # "InsufficientLiquidityBurned"
              /\ lp' = SatDebit(fee, Contract, l[Contract])
    <3>1. burnt = Transfer(Contract, NoAccount, l[Contract])
      BY <2>3, <2>11 DEF When
    <3>. HIDE DEF burnt, fee
    <3>. QED  BY <1>1, <2>6, <2>7, <2>8, <2>11, <3>1, ReplayedBurn DEF ObserverAgrees
  <2>. QED  BY <2>9, <2>10, <2>11
<1>3. CASE ~(totalSupply # 0 /\ n <= lp[u])
  <2>1. UNCHANGED <<lp, seenShares>>
    BY <1>1, <1>3 DEF SeenWithdraw, Withdraw, Fail, shareVars
  <2>. QED  BY <2>1 DEF ObserverAgrees
<1>. QED  BY <1>2, <1>3

\* A step of the pallet with its events is a step of the pallet.
LEMMA EventsAreAside ==
    /\ EventsInit => Init
    /\ [EventsNext]_eventVars => [Next]_vars
<1>1. EventsInit => Init
  BY DEF EventsInit
<1>2. ASSUME EventsNext
      PROVE  Next
  <2>1. SeenSync \/ (Tick /\ UNCHANGED seenVars) => Next
    BY DEF SeenSync, Next
  <2>2. ASSUME NEW u \in Users, Unseen(u)
        PROVE  Extrinsic(u)
    BY <2>2 DEF Unseen, Extrinsic
  <2>3. ASSUME NEW u \in Users, NEW x \in Assets, NEW n \in Amounts,
               SeenDeposit(x, u, n) \/ SeenSwap(x, u, n)
        PROVE  Extrinsic(u)
    BY <2>3 DEF SeenDeposit, SeenSwap, Extrinsic
  <2>4. ASSUME NEW u \in Users, NEW n \in Amounts, SeenWithdraw(u, n)
        PROVE  Extrinsic(u)
    BY <2>4 DEF SeenWithdraw, Extrinsic
  <2>. QED  BY <1>2, <2>1, <2>2, <2>3, <2>4 DEF EventsNext, Next
<1>3. UNCHANGED eventVars => UNCHANGED vars
  BY DEF eventVars
<1>. QED  BY <1>1, <1>2, <1>3

\* Every step tells what it does to the shares.
LEMMA StepIsTold ==
    ASSUME TypeOK, SharesConserved, SupplyFits, totalSupply' < MaxBalance,
           ObserverAgrees, [EventsNext]_eventVars
    PROVE  ObserverAgrees'
<1>1. ASSUME UNCHANGED <<lp, seenShares>>
      PROVE  ObserverAgrees'
  BY <1>1 DEF ObserverAgrees
<1>2. SeenSync \/ (Tick /\ UNCHANGED seenVars) => UNCHANGED <<lp, seenShares>>
  BY DEF SeenSync, Sync, Tick, shareVars, seenVars
<1>3. ASSUME NEW u \in Users, Unseen(u)
      PROVE  UNCHANGED <<lp, seenShares>>
  BY <1>3 DEF Unseen, SetFeeTo, Skim, CurrenciesTransfer, shareVars, seenVars
<1>4. ASSUME NEW u \in Users, NEW x \in Assets, NEW n \in Amounts, SeenSwap(x, u, n)
      PROVE  UNCHANGED <<lp, seenShares>>
  BY <1>4 DEF SeenSwap, Swap, SwapOut, Fail, shareVars
<1>5. UNCHANGED eventVars => UNCHANGED <<lp, seenShares>>
  BY DEF eventVars, vars, shareVars, seenVars
<1>. QED  BY <1>1, <1>2, <1>3, <1>4, <1>5, DepositIsTold, WithdrawIsTold DEF EventsNext

\* Whoever replays the Transfer events knows every account's shares, as long as the supply
\* does not saturate: the fee issued in the middle of a call, a failed mint that keeps the
\* fee and the locked minimum, and a failed burn that strands the caller's shares included.
THEOREM EventsTellShares == EventsSpec /\ []SupplyFits => []ObserverAgrees
<1>1. EventsInit => ObserverAgrees
  BY DEF EventsInit, Init, ObserverAgrees
<1>2. TypeOK /\ SharesConserved /\ SupplyFits /\ SupplyFits' /\ ObserverAgrees
        /\ [EventsNext]_eventVars => ObserverAgrees'
  BY StepIsTold DEF SupplyFits
<1>3. EventsSpec => Spec
  BY EventsAreAside, PTL DEF EventsSpec, Spec
<1>. QED  BY <1>1, <1>2, <1>3, TypeCorrect, SharesAddUp, PTL DEF EventsSpec

-----------------------------------------------------------------------------
(* What the amounts of the events add up to.                               *)

\* The inductive invariant: the amounts are numbers, and below the reserves.
FlowsSound ==
    /\ seenFlow \in [Assets -> Int]
    /\ seenReserve \in [Assets -> Int]
    /\ FlowsCovered

\* A step keeps it that changes no reserve and tells no amounts, or that changes each
\* reserve by at least the amounts it tells.
LEMMA FlowKept ==
    ASSUME FlowsSound, reserve \in [Assets -> Nat], reserve' \in [Assets -> Nat],
           \/ UNCHANGED <<reserve, seenReserve, seenFlow>>
           \/ \E in, out \in [Assets -> Nat] :
                /\ ReadFlow(in, out) /\ result' = "Ok"
                /\ \A z \in Assets : reserve[z] + in[z] - out[z] <= reserve'[z]
    PROVE  FlowsSound'
<1>1. CASE UNCHANGED <<reserve, seenReserve, seenFlow>>
  BY <1>1 DEF FlowsSound, FlowsCovered
<1>2. ASSUME NEW in \in [Assets -> Nat], NEW out \in [Assets -> Nat],
             ReadFlow(in, out), result' = "Ok",
             \A z \in Assets : reserve[z] + in[z] - out[z] <= reserve'[z]
      PROVE  FlowsSound'
  <2>1. /\ seenReserve' = [x \in Assets |-> reserve[x] + in[x] - out[x]]
        /\ seenFlow' = [x \in Assets |-> seenFlow[x] + in[x] - out[x]]
    BY <1>2 DEF ReadFlow, SyncEvent
  <2>2. ASSUME NEW x \in Assets
        PROVE  /\ seenFlow[x] \in Int /\ seenReserve[x] \in Int /\ reserve[x] \in Nat
               /\ seenFlow[x] <= seenReserve[x] /\ seenReserve[x] <= reserve[x]
               /\ in[x] \in Nat /\ out[x] \in Nat
    BY <1>2 DEF FlowsSound, FlowsCovered
  <2>3. seenReserve' \in [Assets -> Int] /\ seenFlow' \in [Assets -> Int]
    BY <2>1, <2>2
  <2>4. ASSUME NEW x \in Assets
        PROVE  seenFlow'[x] <= seenReserve'[x] /\ seenReserve'[x] <= reserve'[x]
    <3>1. /\ seenReserve'[x] = reserve[x] + in[x] - out[x]
          /\ seenFlow'[x] = seenFlow[x] + in[x] - out[x]
      BY <2>1
    <3>. QED  BY <1>2, <2>2, <3>1
  <2>. QED  BY <2>3, <2>4 DEF FlowsSound, FlowsCovered
<1>. QED  BY <1>1, <1>2

\* Every step keeps it.
LEMMA StepFlows ==
    ASSUME IssuanceFits, Sound, Sound', SupplyFits, FlowsSound, [EventsNext]_eventVars
    PROVE  FlowsSound'
<1>1. /\ reserve \in [Assets -> Nat] /\ reserve' \in [Assets -> Nat] /\ TypeOK
      /\ Contract \in Accounts /\ SharesConserved
  BY WidthAssumption, ConfigAssumption DEF Sound, TypeOK, Balance
<1>2. ASSUME NEW z \in Assets
      PROVE  /\ bal[z][Contract] \in Balance /\ bal'[z][Contract] \in Balance
             /\ reserve[z] \in Balance /\ reserve'[z] \in Balance
             /\ reserve[z] <= bal[z][Contract]
             /\ bal[z][Contract] \in Nat /\ bal'[z][Contract] \in Nat
             /\ reserve[z] \in Nat /\ reserve'[z] \in Nat
  BY <1>1 DEF Sound, TypeOK, Ledger, Balance, ReservesCovered
<1>3. Nothing \in [Assets -> Nat] /\ \A z \in Assets : Nothing[z] = 0
  BY DEF Nothing
<1>4. ASSUME UNCHANGED <<reserve, seenReserve, seenFlow>>
      PROVE  FlowsSound'
  BY <1>1, <1>4, FlowKept
<1>5. ASSUME NEW in \in [Assets -> Nat], NEW out \in [Assets -> Nat],
             ReadFlow(in, out), result' = "Ok",
             \A z \in Assets : reserve[z] + in[z] - out[z] <= reserve'[z]
      PROVE  FlowsSound'
  BY <1>1, <1>5, FlowKept
<1>6. ASSUME SeenSync
      PROVE  FlowsSound'
  <2>1. /\ ReadFlow(Nothing, Nothing) /\ result' = "Ok" /\ bal' = bal
        /\ reserve' = [z \in Assets |-> bal[z][Contract]]
    BY <1>6 DEF SeenSync, Sync, Update
  <2>2. \A z \in Assets : reserve[z] + Nothing[z] - Nothing[z] <= reserve'[z]
    BY <1>2, <1>3, <2>1
  <2>. QED  BY <1>3, <1>5, <2>1, <2>2
<1>7. ASSUME NEW u \in Users, Unseen(u)
      PROVE  FlowsSound'
  BY <1>4, <1>7 DEF Unseen, SetFeeTo, Skim, CurrenciesTransfer, poolVars, seenVars
<1>8. ASSUME NEW u \in Users, NEW x \in Assets, NEW n \in Amounts, SeenDeposit(x, u, n)
      PROVE  FlowsSound'
  <2>. DEFINE in == Deposited(bal')
  <2>1. ReadFlow(in, Nothing) /\ Deposit(x, u, n)
    BY <1>8 DEF SeenDeposit
  <2>2. \/ UNCHANGED reserve /\ result' # "Ok"
        \/ result' = "Ok" /\ reserve' = [z \in Assets |-> bal'[z][Contract]]
    <3>1. \/ UNCHANGED reserve /\ result' # "Ok"
          \/ \E b \in [Assets -> Ledger] : bal' = b /\ Mint(b, u)
      BY <1>1, <2>1, DepositEnds
    <3>2. ASSUME NEW b \in [Assets -> Ledger], bal' = b, Mint(b, u)
          PROVE  \/ UNCHANGED reserve /\ result' # "Ok"
                 \/ result' = "Ok" /\ reserve' = [z \in Assets |-> bal'[z][Contract]]
      BY <3>2 DEF Mint, Update, poolVars
    <3>. QED  BY <3>1, <3>2
  <2>3. \A z \in Assets : bal'[z][Contract] >= bal[z][Contract]
    BY <1>1, <2>1, DepositEnds
  <2>4. CASE UNCHANGED reserve /\ result' # "Ok"
    BY <1>4, <2>1, <2>4 DEF ReadFlow
  <2>5. CASE result' = "Ok" /\ reserve' = [z \in Assets |-> bal'[z][Contract]]
    <3>1. ASSUME NEW z \in Assets
          PROVE  in[z] = reserve'[z] - reserve[z] /\ in[z] \in Nat
      <4>1. in[z] = SatSub(bal'[z][Contract], reserve[z]) /\ reserve'[z] = bal'[z][Contract]
        BY <2>5 DEF Deposited
      <4>2. reserve[z] <= bal'[z][Contract]
        BY <1>2, <2>3
      <4>. HIDE DEF in
      <4>. QED  BY <1>2, <4>1, <4>2, SatSubSpec
    <3>2. in \in [Assets -> Nat]
      BY <3>1 DEF Deposited
    <3>. HIDE DEF in
    <3>3. \A z \in Assets : reserve[z] + in[z] - Nothing[z] <= reserve'[z]
      BY <1>2, <1>3, <3>1
    <3>. QED  BY <1>3, <1>5, <2>1, <2>5, <3>2, <3>3
  <2>. QED  BY <2>2, <2>4, <2>5
<1>9. ASSUME NEW u \in Users, NEW n \in Amounts, SeenWithdraw(u, n)
      PROVE  FlowsSound'
  <2>. DEFINE l   == TransferLiquidity(lp, u, Contract, n)
              out == Redeemed(l[Contract])
  <2>1. ReadFlow(Nothing, Redeemed(ToBurn(n))) /\ Withdraw(u, n)
    BY <1>9 DEF SeenWithdraw
  <2>2. \/ UNCHANGED reserve /\ result' # "Ok"
        \/ /\ result' = "Ok" /\ n <= lp[u]
           /\ reserve' = [z \in Assets |-> bal'[z][Contract]]
           /\ \A z \in Assets : out[z] > 0 /\ bal'[z][Contract] = bal[z][Contract] - out[z]
    BY <2>1, WithdrawEnds
  <2>3. CASE UNCHANGED reserve /\ result' # "Ok"
    BY <1>4, <2>1, <2>3 DEF ReadFlow
  <2>4. CASE /\ result' = "Ok" /\ n <= lp[u]
             /\ reserve' = [z \in Assets |-> bal'[z][Contract]]
             /\ \A z \in Assets : out[z] > 0 /\ bal'[z][Contract] = bal[z][Contract] - out[z]
    <3>1. ReadFlow(Nothing, out)
      BY <1>1, <2>1, <2>4, ToBurnIsHeld
    <3>2. out \in [Assets -> Nat]
      <4>1. l \in Ledger
        BY <1>1, <2>4, SharesToRedeem
      <4>2. l[Contract] \in Balance
        BY <1>1, <4>1 DEF Ledger
      <4>3. out \in [Assets -> Balance]
        BY <1>1, <4>2, RedeemedType
      <4>. QED  BY <4>3 DEF Balance
    <3>. HIDE DEF out
    <3>3. \A z \in Assets : reserve[z] + Nothing[z] - out[z] <= reserve'[z]
      BY <1>2, <1>3, <2>4, <3>2
    <3>. QED  BY <1>3, <1>5, <2>4, <3>1, <3>2, <3>3
  <2>. QED  BY <2>2, <2>3, <2>4
<1>10. ASSUME NEW u \in Users, NEW x \in Assets, NEW n \in Amounts, SeenSwap(x, u, n)
       PROVE  FlowsSound'
  <2>. DEFINE y   == Other(x)
              in  == Incoming(bal', y, n)
              out == [Nothing EXCEPT ![y] = n]
  <2>1. ReadFlow(in, out) /\ Swap(x, u, n) /\ y \in Assets
    BY <1>10 DEF SeenSwap, SwapFlow, Other, Assets
  <2>2. n \in Balance /\ n \in Nat /\ Assets = {x, y} /\ x # y
    BY ConfigAssumption DEF Other, Assets, Balance
  <2>3. \/ UNCHANGED reserve /\ result' # "Ok"
        \/ /\ result' = "Ok" /\ reserve' = [z \in Assets |-> bal'[z][Contract]]
           /\ n < reserve[y]
           /\ bal'[x][Contract] = bal[x][Contract] + GetAmountIn(n, reserve[x], reserve[y])
           /\ bal'[y][Contract] = bal[y][Contract] - n
    BY <2>1, SwapEnds
  <2>4. CASE UNCHANGED reserve /\ result' # "Ok"
    BY <1>4, <2>1, <2>4 DEF ReadFlow
  <2>5. CASE /\ result' = "Ok" /\ reserve' = [z \in Assets |-> bal'[z][Contract]]
             /\ n < reserve[y]
             /\ bal'[x][Contract] = bal[x][Contract] + GetAmountIn(n, reserve[x], reserve[y])
             /\ bal'[y][Contract] = bal[y][Contract] - n
    <3>1. GetAmountIn(n, reserve[x], reserve[y]) \in Nat
      <4>1. GetAmountIn(n, reserve[x], reserve[y]) \in Balance
        BY <1>2, <2>1, <2>2, GetAmountInType
      <4>. QED  BY <4>1 DEF Balance
    <3>. HIDE DEF y
    <3>2. out[x] = 0 /\ out[y] = n /\ out \in [Assets -> Nat]
      BY <1>3, <2>1, <2>2
    <3>3. /\ in[x] = SatSub(bal'[x][Contract], SatSub(reserve[x], 0))
          /\ in[y] = SatSub(bal'[y][Contract], SatSub(reserve[y], n))
          /\ in = [z \in Assets |-> in[z]]
      BY <2>1, <2>2 DEF Incoming
    <3>4. SatSub(reserve[x], 0) = reserve[x] /\ SatSub(reserve[y], n) = reserve[y] - n
      <4>1. 0 \in Balance /\ 0 <= reserve[x] /\ n <= reserve[y] /\ reserve[x] - 0 = reserve[x]
        BY <1>2, <2>1, <2>2, <2>5, WidthAssumption DEF Balance
      <4>. QED  BY <1>2, <2>1, <2>2, <4>1, SatSubSpec
    <3>5. reserve[x] <= bal'[x][Contract] /\ reserve[y] - n <= bal'[y][Contract]
          /\ reserve[y] - n \in Balance
      BY <1>2, <2>1, <2>2, <2>5, <3>1, WidthAssumption DEF Balance
    <3>. HIDE DEF in, out
    <3>6. /\ in[x] = bal'[x][Contract] - reserve[x]
          /\ in[y] = bal'[y][Contract] - (reserve[y] - n)
          /\ in[x] \in Nat /\ in[y] \in Nat
      <4>1. /\ in[x] = bal'[x][Contract] - reserve[x]
            /\ in[y] = bal'[y][Contract] - (reserve[y] - n)
        BY <1>2, <2>1, <2>2, <3>3, <3>4, <3>5, SatSubSpec
      <4>. QED  BY <1>2, <2>1, <2>2, <3>5, <4>1
    <3>7. in \in [Assets -> Nat]
      BY <2>2, <3>3, <3>6
    <3>8. \A z \in Assets : reserve[z] + in[z] - out[z] <= reserve'[z]
      BY <1>2, <2>1, <2>2, <2>5, <3>2, <3>6
    <3>. QED  BY <1>5, <2>1, <2>5, <3>2, <3>7, <3>8
  <2>. QED  BY <2>3, <2>4, <2>5
<1>11. ASSUME UNCHANGED eventVars \/ (Tick /\ UNCHANGED seenVars)
       PROVE  FlowsSound'
  BY <1>4, <1>11 DEF eventVars, vars, poolVars, seenVars, Tick
<1>. QED  BY <1>6, <1>7, <1>8, <1>9, <1>10, <1>11 DEF EventsNext

\* Whoever takes the last Sync and the amounts of the event after it never believes the pool
\* to hold more than its reserves, and whoever adds up all amounts believes no more than
\* that: the events miss donated tokens, and they tell no payment that did not happen and
\* leave out no payout.
THEOREM EventsNeverPromiseMore ==
    ASSUME IssuanceFits
    PROVE  EventsSpec /\ []SupplyFits => []FlowsCovered
<1>1. EventsInit => FlowsSound
  BY DEF EventsInit, Init, Nothing, FlowsSound, FlowsCovered
<1>2. Sound /\ Sound' /\ SupplyFits /\ FlowsSound /\ [EventsNext]_eventVars => FlowsSound'
  BY StepFlows
<1>3. EventsSpec => Spec
  BY EventsAreAside, PTL DEF EventsSpec, Spec
<1>4. FlowsSound => FlowsCovered
  BY DEF FlowsSound
<1>. QED  BY <1>1, <1>2, <1>3, <1>4, AlwaysSound, PTL DEF EventsSpec
=============================================================================
