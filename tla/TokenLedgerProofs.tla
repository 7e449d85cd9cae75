------------------------- MODULE TokenLedgerProofs -------------------------
(* Lemmas on the arithmetic of AmmMath, for every width of the type, and on  *)
(* transfers and the sum of a ledger.                                        *)
EXTENDS TokenLedger, FiniteSetTheorems, TLAPS

-----------------------------------------------------------------------------
(* The saturating and checked operations.                                  *)

\* Saturating addition: in range, the exact sum where that fits and the largest value
\* otherwise.
LEMMA SatAddSpec ==
    ASSUME NEW a \in Balance, NEW b \in Balance
    PROVE  /\ SatAdd(a, b) \in Balance
           /\ a + b <= MaxBalance => SatAdd(a, b) = a + b
           /\ a + b > MaxBalance => SatAdd(a, b) = MaxBalance
BY WidthAssumption DEF SatAdd, Balance

\* Saturating subtraction: in range, exact where the difference is not negative.
LEMMA SatSubSpec ==
    ASSUME NEW a \in Balance, NEW b \in Balance
    PROVE  /\ SatSub(a, b) \in Balance
           /\ b <= a => SatSub(a, b) = a - b
           /\ a <= b => SatSub(a, b) = 0
BY WidthAssumption DEF SatSub, Balance

\* The product of naturals is a natural, and grows with its factors.
LEMMA ProductNat ==
    ASSUME NEW a \in Nat, NEW b \in Nat
    PROVE  /\ a * b \in Nat
           /\ b # 0 => a <= a * b
OBVIOUS

\* A natural is at most a quotient exactly when the product fits.
LEMMA QuotientBound ==
    ASSUME NEW a \in Nat, NEW b \in Nat, b # 0, NEW m \in Nat
    PROVE  a <= m \div b <=> a * b <= m
<1>1. m = b * (m \div b) + (m % b) /\ m % b \in 0 .. b - 1 /\ m \div b \in Nat
  OBVIOUS
<1>. DEFINE q == m \div b
<1>2. CASE a <= q
  <2>1. a * b <= q * b
    BY <1>1, <1>2
  <2>. QED  BY <1>1, <1>2, <2>1
<1>3. CASE a > q
  <2>1. a * b >= (q + 1) * b
    BY <1>1, <1>3
  <2>2. (q + 1) * b = b * q + b
    BY <1>1
  <2>. QED  BY <1>1, <1>3, <2>1, <2>2
<1>. QED  BY <1>1, <1>2, <1>3

\* Saturating multiplication, although it is written with a division, is the exact
\* product where that fits and the largest value otherwise.
LEMMA SatMulSpec ==
    ASSUME NEW a \in Balance, NEW b \in Balance
    PROVE  /\ SatMul(a, b) \in Balance
           /\ a * b <= MaxBalance => SatMul(a, b) = a * b
           /\ a * b > MaxBalance => SatMul(a, b) = MaxBalance
<1>1. a \in Nat /\ b \in Nat /\ MaxBalance \in Nat
  BY WidthAssumption DEF Balance
<1>2. CASE b = 0
  BY <1>1, <1>2 DEF SatMul, Balance
<1>3. CASE b # 0
  <2>1. a <= MaxBalance \div b <=> a * b <= MaxBalance
    BY <1>1, <1>3, QuotientBound
  <2>2. a * b \in Nat /\ MaxBalance \div b \in Nat
    BY <1>1, <1>3
  <2>. QED  BY <1>1, <1>3, <2>1, <2>2 DEF SatMul, Balance
<1>. QED  BY <1>2, <1>3

\* Division that yields zero for a zero divisor stays in range.
LEMMA DivOrZeroType ==
    ASSUME NEW a \in Balance, NEW b \in Balance
    PROVE  DivOrZero(a, b) \in Balance /\ DivOrZero(a, b) <= a
<1>1. a \in Nat /\ b \in Nat
  BY WidthAssumption DEF Balance
<1>2. CASE b = 0
  BY <1>1, <1>2 DEF DivOrZero, Balance
<1>3. CASE b # 0
  <2>1. a \div b \in Nat /\ a = b * (a \div b) + (a % b) /\ a % b \in Nat
    BY <1>1, <1>3
  <2>2. b * (a \div b) >= a \div b
    BY <1>1, <1>3, <2>1
  <2>3. a \div b <= a
    BY <1>1, <2>1, <2>2
  <2>. QED  BY WidthAssumption, <1>3, <2>1, <2>3 DEF DivOrZero, Balance
<1>. QED  BY <1>2, <1>3

\* Every natural number has an integer square root.  The proof has no induction: were
\* there none, the successor would map the naturals with a square up to n into
\* themselves, and an injection of a finite set into itself hits zero.
LEMMA SqrtExists ==
    ASSUME NEW n \in Nat
    PROVE  \E r \in 0 .. n : r * r <= n /\ n < (r + 1) * (r + 1)
<1>. SUFFICES ASSUME \A r \in 0 .. n : ~(r * r <= n /\ n < (r + 1) * (r + 1))
              PROVE  FALSE
  OBVIOUS
<1>. DEFINE T == {k \in 0 .. n : k * k <= n}
            f == [k \in T |-> k + 1]
<1>1. IsFiniteSet(T)
  <2>1. IsFiniteSet(0 .. n)
    BY FS_Interval
  <2>2. T \in SUBSET (0 .. n)
    OBVIOUS
  <2>. QED  BY <2>1, <2>2, FS_Subset, Zenon
<1>2. \A k \in T : k + 1 \in T
  <2>. SUFFICES ASSUME NEW k \in T
                PROVE  k + 1 \in T
    OBVIOUS
  <2>1. k \in Nat /\ (k + 1) * (k + 1) <= n
    OBVIOUS
  <2>2. k + 1 <= (k + 1) * (k + 1)
    BY <2>1
  <2>. QED  BY <2>1, <2>2
<1>3. f \in Injection(T, T)
  <2>1. f \in [T -> T]
    BY <1>2
  <2>2. \A a, b \in T : f[a] = f[b] => a = b
    OBVIOUS
  <2>. QED  BY <2>1, <2>2 DEF Injection, IsInjective
<1>4. f \in Surjection(T, T)
  BY <1>1, <1>3, FS_Injection, Zenon
<1>5. 0 \in T
  OBVIOUS
<1>6. PICK k \in T : f[k] = 0
  BY <1>4, <1>5 DEF Surjection
<1>. QED  BY <1>6

\* integer_sqrt is the floor of the root.
LEMMA IntSqrtSpec ==
    ASSUME NEW n \in Nat
    PROVE  /\ IntSqrt(n) \in 0 .. n
           /\ IntSqrt(n) * IntSqrt(n) <= n
           /\ n < (IntSqrt(n) + 1) * (IntSqrt(n) + 1)
BY SqrtExists DEF IntSqrt

\* The root of a value of the type is a value of the type.
LEMMA IntSqrtType ==
    ASSUME NEW n \in Balance
    PROVE  IntSqrt(n) \in Balance
<1>1. n \in Nat
  BY WidthAssumption DEF Balance
<1>2. IntSqrt(n) \in 0 .. n
  BY <1>1, IntSqrtSpec
<1>. QED  BY <1>2, WidthAssumption DEF Balance

-----------------------------------------------------------------------------
(* The wrapping operations of helper.rs.                                   *)

\* overflowing_add is addition modulo the width of the type, for every type.
LEMMA OverflowingAddIsModular ==
    ASSUME NEW max \in Nat, NEW a \in 0 .. max, NEW b \in 0 .. max
    PROVE  /\ OverflowingAdd(a, b, max) \in 0 .. max
           /\ OverflowingAdd(a, b, max) = (a + b) % (max + 1)
<1>1. CASE a <= max - b
  <2>1. a + b \in 0 .. max /\ (a + b) % (max + 1) = a + b
    BY <1>1
  <2>. QED  BY <1>1, <2>1 DEF OverflowingAdd
<1>2. CASE a > max - b
  <2>. DEFINE c == a + b - (max + 1)
  <2>1. c \in 0 .. max /\ a + b = (max + 1) + c
    BY <1>2
  <2>2. (a + b) % (max + 1) = c
    BY <2>1
  <2>. QED  BY <1>2, <2>1, <2>2 DEF OverflowingAdd
<1>. QED  BY <1>1, <1>2

\* overflowing_sub is subtraction modulo the width of the type; for moments that do not
\* run backwards it is the plain difference.
LEMMA OverflowingSubIsModular ==
    ASSUME NEW max \in Nat, NEW a \in 0 .. max, NEW b \in 0 .. max
    PROVE  /\ OverflowingSub(a, b, max) \in 0 .. max
           /\ b <= a => OverflowingSub(a, b, max) = a - b
           /\ (OverflowingSub(a, b, max) + b) % (max + 1) = a
<1>1. CASE a >= b
  BY <1>1 DEF OverflowingSub
<1>2. CASE a < b
  <2>. DEFINE d == max - b + a + 1
  <2>1. d \in 0 .. max /\ d + b = (max + 1) + a
    BY <1>2
  <2>2. (d + b) % (max + 1) = a
    BY <2>1
  <2>. QED  BY <1>2, <2>1, <2>2 DEF OverflowingSub
<1>. QED  BY <1>1, <1>2

-----------------------------------------------------------------------------
(* The formulas of the market maker stay in range.                         *)

\* The literals of the code are values of the type.
LEMMA LiteralsFit == {1, 997, 1000, 1000 * 1000} \subseteq Balance
BY WidthAssumption DEF Balance

\* quote answers with a value of the type.
LEMMA QuoteType ==
    ASSUME NEW a \in Balance, NEW ra \in Balance, NEW rb \in Balance
    PROVE  Quote(a, ra, rb) \in Balance
BY SatMulSpec, DivOrZeroType DEF Quote

\* get_amount_in answers with a value of the type, also when the caller asks for more
\* than the reserve.
LEMMA GetAmountInType ==
    ASSUME NEW n \in Balance, NEW rIn \in Balance, NEW rOut \in Balance
    PROVE  GetAmountIn(n, rIn, rOut) \in Balance
<1>. DEFINE num == SatMul(SatMul(rIn, rOut), 1000)
            den == SatMul(SatSub(rOut, n), 997)
<1>1. num \in Balance /\ den \in Balance
  BY SatMulSpec, SatSubSpec, LiteralsFit
<1>2. CASE den = 0
  BY <1>2, WidthAssumption DEF GetAmountIn, Balance
<1>3. CASE den # 0
  <2>1. num \div den \in Balance
    BY <1>1, <1>3, DivOrZeroType DEF DivOrZero
  <2>2. SatAdd(num \div den, 1) \in Balance
    BY <2>1, SatAddSpec, LiteralsFit
  <2>. QED  BY <1>3, <2>2 DEF GetAmountIn
<1>. QED  BY <1>2, <1>3

\* The first provider's shares are a value of the type.
LEMMA InitialLiquidityType ==
    ASSUME NEW a \in Balance, NEW b \in Balance, NEW m \in Balance
    PROVE  InitialLiquidity(a, b, m) \in Balance
<1>1. SatMul(a, b) \in Balance
  BY SatMulSpec
<1>2. IntSqrt(SatMul(a, b)) \in Balance
  BY <1>1, IntSqrtType
<1>. QED  BY <1>2, SatSubSpec DEF InitialLiquidity

\* A later provider's shares are a value of the type, with an empty reserve too.
LEMMA ProportionalShareType ==
    ASSUME NEW a \in Balance, NEW s \in Balance, NEW r \in Balance
    PROVE  ProportionalShare(a, s, r) \in Balance
BY SatMulSpec, DivOrZeroType DEF ProportionalShare

\* The shares _mint_fee issues are a value of the type.
LEMMA ProtocolFeeType ==
    ASSUME NEW k \in Balance, NEW kl \in Balance, NEW s \in Balance, NEW m \in Balance
    PROVE  ProtocolFee(k, kl, s, m) \in Balance
<1>1. IntSqrt(k) \in Balance /\ IntSqrt(kl) \in Balance
  BY IntSqrtType
<1>2. SatMul(s, SatSub(IntSqrt(k), IntSqrt(kl))) \in Balance
  BY <1>1, SatSubSpec, SatMulSpec
<1>3. SatAdd(SatMul(IntSqrt(k), m), IntSqrt(kl)) \in Balance
  BY <1>1, SatAddSpec, SatMulSpec
<1>. QED  BY <1>2, <1>3, DivOrZeroType, WidthAssumption DEF ProtocolFee, Balance

\* There is no fee on an empty supply.
LEMMA ProtocolFeeOfNothing ==
    ASSUME NEW k \in Balance, NEW kl \in Balance, NEW m \in Balance
    PROVE  ProtocolFee(k, kl, 0, m) = 0
<1>. DEFINE grown == SatSub(IntSqrt(k), IntSqrt(kl))
            base == SatAdd(SatMul(IntSqrt(k), m), IntSqrt(kl))
<1>1. IntSqrt(k) \in Balance /\ IntSqrt(kl) \in Balance
  BY IntSqrtType
<1>2. grown \in Balance /\ base \in Balance
  BY <1>1, SatSubSpec, SatMulSpec, SatAddSpec
<1>. HIDE DEF grown, base
<1>3. SatMul(0, grown) = 0
  BY <1>2, WidthAssumption DEF SatMul, Balance
<1>4. DivOrZero(0, base) = 0
  BY <1>2 DEF DivOrZero, Balance
<1>. QED  BY <1>3, <1>4 DEF ProtocolFee, grown, base

\* What get_amount_out offers never exceeds the reserve it is paid from, at every width
\* of the type: its denominator contains what its numerator is scaled by.
LEMMA GetAmountOutBounded ==
    ASSUME NEW n \in Balance, NEW rIn \in Balance, NEW rOut \in Balance
    PROVE  GetAmountOut(n, rIn, rOut) <= rOut
<1>. DEFINE inFee == SatMul(n, 997)
            num == SatMul(inFee, rOut)
            den == SatAdd(SatMul(rIn, 1000), inFee)
<1>1. inFee \in Balance /\ num \in Balance /\ den \in Balance
  BY SatMulSpec, SatAddSpec, LiteralsFit
<1>2. inFee <= den
  <2>1. SatMul(rIn, 1000) \in Balance
    BY SatMulSpec, LiteralsFit
  <2>. QED  BY <1>1, <2>1, WidthAssumption DEF SatAdd, Balance
<1>3. num <= inFee * rOut
  <2>1. inFee * rOut <= MaxBalance => num = inFee * rOut
    BY <1>1, SatMulSpec
  <2>2. num <= MaxBalance /\ inFee * rOut \in Nat /\ num \in Nat /\ MaxBalance \in Nat
    BY <1>1, ProductNat, WidthAssumption DEF Balance
  <2>. QED  BY <2>1, <2>2
<1>. HIDE DEF inFee, num, den
<1>4. inFee \in Nat /\ num \in Nat /\ den \in Nat /\ rOut \in Nat
  BY <1>1, WidthAssumption DEF Balance
<1>5. inFee * rOut <= den * rOut
  BY <1>2, <1>4
<1>6. num <= den * rOut
  BY <1>3, <1>4, <1>5
<1>7. DivOrZero(num, den) <= rOut
  BY <1>4, <1>6 DEF DivOrZero
<1>. QED  BY <1>7 DEF GetAmountOut, inFee, num, den

-----------------------------------------------------------------------------
(* What the roundings never exceed.                                        *)

\* Saturation only lowers a product.
LEMMA SatMulBelow ==
    ASSUME NEW a \in Balance, NEW b \in Balance
    PROVE  SatMul(a, b) <= a * b /\ a * b \in Nat
<1>1. a \in Nat /\ b \in Nat /\ MaxBalance \in Nat
  BY WidthAssumption DEF Balance
<1>2. a * b \in Nat
  BY <1>1, ProductNat
<1>3. SatMul(a, b) \in Balance
  BY SatMulSpec
<1>4. CASE a * b <= MaxBalance
  BY <1>2, <1>4, SatMulSpec
<1>5. CASE a * b > MaxBalance
  BY <1>1, <1>2, <1>3, <1>5 DEF Balance
<1>. QED  BY <1>1, <1>2, <1>4, <1>5

\* A rounded quotient times its divisor is at most the dividend.
LEMMA QuotientBelow ==
    ASSUME NEW a \in Nat, NEW b \in Nat, b # 0
    PROVE  (a \div b) \in Nat /\ (a \div b) * b <= a
<1>1. a = b * (a \div b) + (a % b) /\ a % b \in Nat /\ a \div b \in Nat
  OBVIOUS
<1>2. (a \div b) * b = b * (a \div b)
  BY <1>1
<1>. QED  BY <1>1, <1>2

\* A part n of s of the amount b, as mint and burn compute it, is never more than that
\* part, at every width of the type.
LEMMA PartBelow ==
    ASSUME NEW n \in Balance, NEW b \in Balance, NEW s \in Balance, s # 0
    PROVE  /\ DivOrZero(SatMul(n, b), s) \in Nat
           /\ DivOrZero(SatMul(n, b), s) * s <= n * b
<1>. DEFINE p == SatMul(n, b)
            q == p \div s
<1>1. p \in Nat /\ s \in Nat /\ p <= n * b /\ n * b \in Nat
  BY SatMulSpec, SatMulBelow, WidthAssumption DEF Balance
<1>. HIDE DEF p
<1>2. q \in Nat /\ q * s <= p
  BY <1>1, QuotientBelow
<1>3. DivOrZero(p, s) = q
  BY DEF DivOrZero
<1>. HIDE DEF q
<1>4. q * s \in Nat
  BY <1>1, <1>2, ProductNat
<1>5. q * s <= n * b
  BY <1>1, <1>2, <1>4
<1>. QED  BY <1>2, <1>3, <1>5 DEF p

\* Redeeming n of s shares pays at most the whole balance, and less than it as long as
\* one share is left.
LEMMA PartOfWhole ==
    ASSUME NEW n \in Balance, NEW b \in Balance, NEW s \in Balance, s # 0, n <= s
    PROVE  /\ DivOrZero(SatMul(n, b), s) <= b
           /\ n < s /\ b > 0 => DivOrZero(SatMul(n, b), s) < b
<1>. DEFINE q == DivOrZero(SatMul(n, b), s)
<1>1. n \in Nat /\ b \in Nat /\ s \in Nat /\ s > 0
  BY WidthAssumption DEF Balance
<1>2. q \in Nat /\ q * s <= n * b
  BY PartBelow
<1>. HIDE DEF q
<1>3. ASSUME q > b
      PROVE  FALSE
  <2>1. q * s >= (b + 1) * s /\ n * b <= s * b /\ (b + 1) * s = s * b + s
    BY <1>1, <1>2, <1>3
  <2>. QED  BY <1>1, <1>2, <2>1
<1>4. ASSUME q = b, n < s, b > 0
      PROVE  FALSE
  <2>1. b * s <= n * b /\ n * b <= (s - 1) * b /\ (s - 1) * b = b * s - b
    BY <1>1, <1>2, <1>4
  <2>. QED  BY <1>1, <1>4, <2>1
<1>. QED  BY <1>1, <1>2, <1>3, <1>4 DEF q

\* The first provider gets shares only for a deposit of both assets.
LEMMA InitialNeedsBoth ==
    ASSUME NEW a \in Balance, NEW b \in Balance, NEW m \in Balance,
           InitialLiquidity(a, b, m) > 0
    PROVE  /\ a > 0 /\ b > 0
           /\ (InitialLiquidity(a, b, m) + m) * (InitialLiquidity(a, b, m) + m) <= a * b
<1>. DEFINE p == SatMul(a, b)
            r == IntSqrt(p)
<1>1. p \in Balance /\ p \in Nat /\ p <= a * b /\ a * b \in Nat /\ a \in Nat /\ b \in Nat
  BY SatMulSpec, SatMulBelow, WidthAssumption DEF Balance
<1>. HIDE DEF p
<1>2. r \in Balance /\ r \in Nat /\ r * r <= p
  BY <1>1, IntSqrtType, IntSqrtSpec
<1>. HIDE DEF r
<1>3. SatSub(r, m) > 0
  BY DEF InitialLiquidity, r, p
<1>4. m \in Nat /\ r > m /\ SatSub(r, m) = r - m
  BY <1>2, <1>3 DEF SatSub, Balance
<1>5. InitialLiquidity(a, b, m) + m = r
  BY <1>2, <1>4 DEF InitialLiquidity, r, p
<1>6. r * r > 0
  BY <1>2, <1>4
<1>7. a * b > 0 /\ r * r <= a * b
  BY <1>1, <1>2, <1>6
<1>8. a > 0 /\ b > 0
  BY <1>1, <1>7
<1>. QED  BY <1>5, <1>7, <1>8

-----------------------------------------------------------------------------
(* What a swap pays, against the constant-product check.                   *)

\* A saturating product does not depend on the order of its factors.
LEMMA SatMulCommutes ==
    ASSUME NEW a \in Balance, NEW b \in Balance
    PROVE  SatMul(a, b) = SatMul(b, a)
<1>1. a \in Nat /\ b \in Nat /\ MaxBalance \in Nat
  BY WidthAssumption DEF Balance
<1>2. a * b = b * a /\ a * b \in Nat
  BY <1>1
<1>. QED  BY <1>1, <1>2, SatMulSpec

\* One side of the check counts what was there in full and what came in with the fee
\* taken off, or it is at least half of the largest value.
LEMMA AdjustedAbove ==
    ASSUME NEW rest \in Nat, NEW in \in Nat, NEW fee \in 0 .. 3,
           6 * (rest + in) <= MaxBalance
    PROVE  /\ Adjusted(rest + in, in, fee) \in Balance
           /\ \/ Adjusted(rest + in, in, fee) >= 1000 * rest + 997 * in
              \/ 2 * Adjusted(rest + in, in, fee) >= MaxBalance
<1>. DEFINE b == rest + in
            p == SatMul(b, 1000)
            q == SatMul(in, fee)
<1>1. /\ b \in Balance /\ in \in Balance /\ fee \in Balance /\ 1000 \in Balance
      /\ MaxBalance \in Nat /\ b \in Nat
  BY WidthAssumption DEF Balance
<1>2. in * fee <= 3 * in /\ in * fee \in Nat
  BY <1>1
<1>3. 2 * (in * fee) <= MaxBalance
  BY <1>1, <1>2
<1>4. q = in * fee /\ q \in Balance
  BY <1>1, <1>2, <1>3, SatMulSpec
<1>5. p \in Balance /\ (p = b * 1000 \/ p = MaxBalance)
  BY <1>1, SatMulSpec
<1>. HIDE DEF p, q
<1>6. q <= p
  BY <1>1, <1>2, <1>3, <1>4, <1>5
<1>7. SatSub(p, q) = p - q /\ SatSub(p, q) \in Balance
  BY <1>4, <1>5, <1>6, SatSubSpec
<1>8. p - q >= 1000 * rest + 997 * in \/ 2 * (p - q) >= MaxBalance
  BY <1>1, <1>2, <1>3, <1>4, <1>5
<1>. QED  BY <1>7, <1>8 DEF Adjusted, p, q

\* The price of a swap, while it is in range, covers the numerator it was computed from,
\* less the fee of three thousandths: get_amount_in rounds up.
LEMMA CostCovers ==
    ASSUME NEW rIn \in Balance, NEW rOut \in Balance, NEW n \in Balance, n < rOut,
           GetAmountIn(n, rIn, rOut) < MaxBalance
    PROVE  LET cost == GetAmountIn(n, rIn, rOut)
           IN  /\ cost \in Nat /\ cost > 0
               /\ 997 * (cost * (rOut - n)) >= SatMul(SatMul(rIn, rOut), 1000)
<1>. DEFINE num == SatMul(SatMul(rIn, rOut), 1000)
            d   == rOut - n
            den == SatMul(d, 997)
            q   == num \div den
<1>1. /\ rIn \in Nat /\ rOut \in Nat /\ n \in Nat /\ MaxBalance \in Nat
      /\ d \in Nat /\ d > 0 /\ d \in Balance /\ num \in Balance /\ num \in Nat
      /\ 997 \in Balance /\ 1 \in Balance
  <2>1. /\ rIn \in Nat /\ rOut \in Nat /\ n \in Nat /\ MaxBalance \in Nat
        /\ d \in Nat /\ d > 0 /\ d \in Balance
    BY WidthAssumption DEF Balance
  <2>2. num \in Balance /\ 997 \in Balance /\ 1 \in Balance
    BY SatMulSpec, LiteralsFit
  <2>. QED  BY <2>1, <2>2 DEF Balance
<1>2. SatSub(rOut, n) = d
  BY <1>1, SatSubSpec
<1>3. den \in Nat /\ den <= 997 * d /\ den > 0 /\ den \in Balance
  <2>1. d * 997 \in Nat /\ d * 997 > 0 /\ MaxBalance > 0 /\ d * 997 = 997 * d
    BY <1>1, WidthAssumption
  <2>2. den \in Balance /\ (den = d * 997 \/ den = MaxBalance) /\ den <= d * 997
    BY <1>1, <2>1, SatMulSpec, SatMulBelow
  <2>. HIDE DEF den
  <2>. QED  BY <2>1, <2>2 DEF Balance
<1>. HIDE DEF num, den, d
<1>4. q \in Nat /\ num < (q + 1) * den
  BY <1>1, <1>3
<1>5. q \in Balance
  <2>1. q <= num
    BY <1>1, <1>3, DivOrZeroType DEF DivOrZero
  <2>. QED  BY <1>1, <1>4, <2>1 DEF Balance
<1>6. GetAmountIn(n, rIn, rOut) = SatAdd(q, 1)
  BY <1>2, <1>3 DEF GetAmountIn, num, den
<1>. HIDE DEF q
<1>7. GetAmountIn(n, rIn, rOut) = q + 1
  BY <1>1, <1>4, <1>5, <1>6, SatAddSpec
<1>8. (q + 1) * den <= (q + 1) * (997 * d)
  BY <1>1, <1>3, <1>4
<1>9. (q + 1) * (997 * d) = 997 * ((q + 1) * d)
  BY <1>1, <1>4
<1>10. 997 * ((q + 1) * d) >= num
  <2>1. (q + 1) * den \in Nat /\ 997 * ((q + 1) * d) \in Nat
    BY <1>1, <1>3, <1>4
  <2>. QED  BY <1>1, <1>4, <1>8, <1>9, <2>1
<1>. QED  BY <1>1, <1>4, <1>7, <1>10 DEF num, d

\* A product of two factors saturates no lower than either factor's share of it allows.
LEMMA SatMulAbove ==
    ASSUME NEW a \in Balance, NEW b \in Balance, NEW m \in Balance, a * b >= m
    PROVE  SatMul(a, b) >= m
<1>1. a \in Nat /\ b \in Nat /\ MaxBalance \in Nat /\ m \in Nat /\ m <= MaxBalance
      /\ a * b \in Nat
  BY WidthAssumption DEF Balance
<1>. QED  BY <1>1, SatMulSpec

\* Whoever pays the price of get_amount_in passes the check of _swap, whatever saturates
\* on the way, as long as six times each balance fits: the check never fails.
LEMMA PriceMeetsK ==
    ASSUME NEW rIn \in Balance, NEW rOut \in Balance, rIn > 0,
           NEW n \in Balance, n < rOut, NEW fee \in 0 .. 3,
           NEW in \in Nat, NEW extra \in Nat,
           6 * (rIn + in) <= MaxBalance, 6 * (rOut - n + extra) <= MaxBalance,
           GetAmountIn(n, rIn, rOut) <= in
    PROVE  SatMul(Adjusted(rIn + in, in, fee), Adjusted(rOut - n + extra, extra, fee))
             >= SatMul(SatMul(rIn, rOut), 1000 * 1000)
<1>. DEFINE cost == GetAmountIn(n, rIn, rOut)
            d    == rOut - n
            k    == SatMul(rIn, rOut)
            num  == SatMul(k, 1000)
            goal == SatMul(k, 1000 * 1000)
            a    == Adjusted(rIn + in, in, fee)
            c    == Adjusted(d + extra, extra, fee)
<1>1. /\ rIn \in Nat /\ rOut \in Nat /\ n \in Nat /\ MaxBalance \in Nat
      /\ MaxBalance >= 1000 * 1000 /\ d \in Nat /\ d > 0 /\ k \in Balance /\ k \in Nat
      /\ 1000 \in Balance /\ 1000 * 1000 \in Balance
  <2>1. /\ rIn \in Nat /\ rOut \in Nat /\ n \in Nat /\ MaxBalance \in Nat
        /\ MaxBalance >= 1000 * 1000 /\ d \in Nat /\ d > 0
    BY WidthAssumption DEF Balance
  <2>2. k \in Balance /\ 1000 \in Balance /\ 1000 * 1000 \in Balance
    BY SatMulSpec, LiteralsFit
  <2>. QED  BY <2>1, <2>2 DEF Balance
<1>2. /\ num \in Nat /\ (num = k * 1000 \/ num = MaxBalance)
      /\ goal \in Balance /\ goal \in Nat /\ goal <= MaxBalance
      /\ goal <= k * (1000 * 1000)
  <2>1. num \in Balance /\ (num = k * 1000 \/ num = MaxBalance)
    BY <1>1, SatMulSpec
  <2>2. goal \in Balance /\ goal <= k * (1000 * 1000)
    BY <1>1, SatMulSpec, SatMulBelow
  <2>. QED  BY <2>1, <2>2 DEF Balance
<1>3. cost \in Nat /\ cost > 0 /\ 997 * (cost * d) >= num
  <2>1. cost \in Balance
    BY GetAmountInType
  <2>2. cost < MaxBalance
    BY <1>1, <2>1 DEF Balance
  <2>. QED  BY <2>2, CostCovers
<1>4. 6 * (d + extra) <= MaxBalance /\ cost <= in
  OBVIOUS
<1>. HIDE DEF d, cost
<1>5. a \in Balance /\ (a >= 1000 * rIn + 997 * in \/ 2 * a >= MaxBalance)
  BY <1>1, AdjustedAbove
<1>6. c \in Balance /\ (c >= 1000 * d + 997 * extra \/ 2 * c >= MaxBalance)
  BY <1>1, <1>4, AdjustedAbove
<1>. HIDE DEF k, num, goal, a, c
<1>7. a \in Nat /\ c \in Nat
  BY <1>5, <1>6 DEF Balance
<1>8. a >= 2 /\ c >= 2
  BY <1>1, <1>5, <1>6, <1>7
<1>9. a * c >= goal
  <2>1. CASE 2 * a >= MaxBalance
    <3>1. a * c >= a * 2
      BY <1>7, <1>8
    <3>. QED  BY <1>1, <1>2, <1>7, <2>1, <3>1
  <2>2. CASE 2 * c >= MaxBalance
    <3>1. a * c >= 2 * c
      BY <1>7, <1>8
    <3>. QED  BY <1>1, <1>2, <1>7, <2>2, <3>1
  <2>3. CASE a >= 1000 * rIn + 997 * in /\ c >= 1000 * d + 997 * extra
    <3>1. a >= 997 * cost /\ c >= 1000 * d
      BY <1>1, <1>3, <1>4, <1>7, <2>3
    <3>2. a * c >= (997 * cost) * (1000 * d)
      <4>1. 997 * cost \in Nat /\ 1000 * d \in Nat
        BY <1>1, <1>3
      <4>2. a * c >= (997 * cost) * c /\ (997 * cost) * c >= (997 * cost) * (1000 * d)
        BY <1>7, <3>1, <4>1
      <4>. QED  BY <1>7, <4>1, <4>2
    <3>3. (997 * cost) * (1000 * d) = 1000 * (997 * (cost * d)) /\ cost * d \in Nat
      BY <1>1, <1>3
    <3>4. a * c >= 1000 * num
      BY <1>2, <1>3, <1>7, <3>2, <3>3
    <3>. QED  BY <1>1, <1>2, <1>7, <3>4
  <2>. QED  BY <1>5, <1>6, <2>1, <2>2, <2>3
<1>10. SatMul(a, c) >= goal
  BY <1>2, <1>5, <1>6, <1>9, SatMulAbove
<1>. QED  BY <1>10 DEF a, c, goal, k, d

-----------------------------------------------------------------------------
(* The value of a share, and the size of the protocol fee.                 *)

\* Two sides that each keep their part of the supply keep the product of both.
LEMMA BothSides ==
    ASSUME NEW a \in Nat, NEW b \in Nat, NEW c \in Nat, NEW d \in Nat,
           NEW s \in Nat, NEW t \in Nat, a * t <= c * s, b * t <= d * s
    PROVE  a * b * t * t <= c * d * s * s
<1>. DEFINE p == a * t
            q == c * s
            v == b * t
            w == d * s
<1>1. p \in Nat /\ q \in Nat /\ v \in Nat /\ w \in Nat /\ p <= q /\ v <= w
  OBVIOUS
<1>2. a * b * t * t = p * v /\ c * d * s * s = q * w
  OBVIOUS
<1>. HIDE DEF p, q, v, w
<1>3. p * v <= q * v /\ q * v <= q * w
  BY <1>1
<1>4. p * v \in Nat /\ q * v \in Nat /\ q * w \in Nat
  BY <1>1
<1>. QED  BY <1>2, <1>3, <1>4

\* m new shares for a deposit of d into a reserve of r, at most in proportion, leave
\* every share at least what it stood for.
LEMMA DepositKeepsValue ==
    ASSUME NEW r \in Nat, NEW d \in Nat, NEW s \in Nat, NEW m \in Nat, m * r <= d * s
    PROVE  r * (s + m) <= (r + d) * s
<1>1. r * (s + m) = r * s + m * r /\ (r + d) * s = r * s + d * s
  OBVIOUS
<1>2. r * s \in Nat /\ m * r \in Nat /\ d * s \in Nat
  OBVIOUS
<1>. QED  BY <1>1, <1>2

\* A payout p for m of s shares, at most in proportion to the balance b, leaves the other
\* shares at least what they stood for.
LEMMA PayoutKeepsValue ==
    ASSUME NEW b \in Nat, NEW r \in Nat, r <= b, NEW s \in Nat, NEW m \in Nat, m <= s,
           NEW p \in Nat, p <= b, p * s <= m * b
    PROVE  r * (s - m) <= (b - p) * s
<1>1. (b - p) * s = b * s - p * s /\ b * (s - m) = b * s - m * b
  OBVIOUS
<1>2. s - m \in Nat /\ b * s \in Nat /\ p * s \in Nat /\ m * b \in Nat
  OBVIOUS
<1>3. r * (s - m) <= b * (s - m)
  BY <1>2
<1>4. r * (s - m) \in Nat /\ b * (s - m) \in Nat /\ (b - p) * s \in Int
  BY <1>2
<1>. QED  BY <1>1, <1>2, <1>3, <1>4

\* The two ways a step keeps the value of the shares: each side keeps its part, or no
\* share is issued and the product grows.
LEMMA ValueKept ==
    ASSUME NEW r0 \in Nat, NEW r1 \in Nat, NEW q0 \in Nat, NEW q1 \in Nat,
           NEW s \in Nat, NEW t \in Nat,
           \/ r0 * t <= q0 * s /\ r1 * t <= q1 * s
           \/ t <= s /\ r0 * r1 <= q0 * q1
    PROVE  r0 * r1 * t * t <= q0 * q1 * s * s
<1>1. CASE r0 * t <= q0 * s /\ r1 * t <= q1 * s
  BY <1>1, BothSides
<1>2. CASE t <= s /\ r0 * r1 <= q0 * q1
  <2>. DEFINE k == r0 * r1
              m == q0 * q1
  <2>1. k \in Nat /\ m \in Nat /\ k <= m
    BY <1>2
  <2>. HIDE DEF k, m
  <2>2. k * t <= m * s
    <3>1. k * t <= m * t /\ m * t <= m * s
      BY <1>2, <2>1
    <3>2. k * t \in Nat /\ m * t \in Nat /\ m * s \in Nat
      BY <2>1
    <3>. QED  BY <3>1, <3>2
  <2>3. (k * t) * t <= (m * s) * s
    <3>. DEFINE v == k * t
                w == m * s
    <3>1. v \in Nat /\ w \in Nat /\ v <= w
      BY <2>1, <2>2
    <3>. HIDE DEF v, w
    <3>2. v * t <= w * t /\ w * t <= w * s
      BY <1>2, <3>1
    <3>3. v * t \in Nat /\ w * t \in Nat /\ w * s \in Nat
      BY <3>1
    <3>4. v * t <= w * s
      BY <3>2, <3>3
    <3>. QED  BY <3>4 DEF v, w
  <2>. QED  BY <2>3 DEF k, m
<1>. QED  BY <1>1, <1>2

\* If the shares are at most the root of the product of the reserves and a step keeps their
\* value, they still are.
LEMMA RootKept ==
    ASSUME NEW k \in Nat, NEW m \in Nat, NEW s \in Nat, NEW t \in Nat,
           k > 0, s * s <= k, k * t * t <= m * s * s
    PROVE  t * t <= m
<1>. DEFINE ss == s * s
            tt == t * t
<1>1. ss \in Nat /\ tt \in Nat /\ ss <= k
  OBVIOUS
<1>2. k * t * t = k * tt /\ m * s * s = m * ss
  OBVIOUS
<1>. HIDE DEF ss, tt
<1>3. m * ss <= m * k /\ m * ss \in Nat /\ m * k \in Nat /\ k * tt \in Nat
  BY <1>1
<1>4. k * tt <= m * k
  BY <1>2, <1>3
<1>5. ASSUME tt >= m + 1
      PROVE  FALSE
  <2>1. k * tt >= k * (m + 1)
    BY <1>1, <1>5
  <2>2. k * (m + 1) = m * k + k
    OBVIOUS
  <2>. QED  BY <1>3, <1>4, <2>1, <2>2
<1>6. tt <= m
  BY <1>1, <1>5
<1>. QED  BY <1>6 DEF tt

\* The price of a swap keeps the product of the reserves, where its numerator is exact.
LEMMA PriceKeepsProduct ==
    ASSUME NEW rIn \in Balance, NEW rOut \in Balance, NEW n \in Balance, n < rOut,
           GetAmountIn(n, rIn, rOut) < MaxBalance, 1000 * (rIn * rOut) <= MaxBalance
    PROVE  rIn * rOut <= (rIn + GetAmountIn(n, rIn, rOut)) * (rOut - n)
<1>. DEFINE cost == GetAmountIn(n, rIn, rOut)
            d == rOut - n
            k == rIn * rOut
            e == cost * d
<1>1. /\ rIn \in Nat /\ rOut \in Nat /\ n \in Nat /\ MaxBalance \in Nat
      /\ k \in Nat /\ d \in Nat /\ d > 0
  BY WidthAssumption DEF Balance
<1>2. SatMul(rIn, rOut) = k /\ k \in Balance
  <2>1. k <= MaxBalance
    BY <1>1
  <2>. QED  BY <1>1, <2>1, SatMulSpec DEF Balance
<1>3. SatMul(k, 1000) = 1000 * k
  <2>1. k * 1000 = 1000 * k /\ 1000 \in Balance
    BY <1>1, LiteralsFit
  <2>. HIDE DEF k
  <2>2. k * 1000 <= MaxBalance
    BY <2>1 DEF k
  <2>. QED  BY <1>2, <2>1, <2>2, SatMulSpec
<1>4. cost \in Nat /\ 997 * e >= 1000 * k
  BY <1>2, <1>3, CostCovers
<1>. HIDE DEF cost, d
<1>5. e \in Nat /\ (rIn + cost) * d = rIn * d + e /\ rIn * d \in Nat
  BY <1>1, <1>4
<1>. HIDE DEF k, e
<1>6. k <= (rIn + cost) * d
  BY <1>1, <1>4, <1>5
<1>. QED  BY <1>6 DEF k, cost, d

\* The protocol fee is at most the fee's part of the supply, for a part of up to a fifth.
LEMMA ProtocolFeeBound ==
    ASSUME NEW k \in Balance, NEW kl \in Balance, NEW s \in Balance, NEW m \in 1 .. 5
    PROVE  ProtocolFee(k, kl, s, m) * m <= s
<1>. DEFINE r   == IntSqrt(k)
            q   == IntSqrt(kl)
            num == SatMul(s, SatSub(r, q))
            den == SatAdd(SatMul(r, m), q)
            fee == DivOrZero(num, den)
<1>1. /\ k \in Nat /\ kl \in Nat /\ s \in Nat /\ MaxBalance \in Nat
      /\ MaxBalance >= 1000 * 1000 /\ k <= MaxBalance /\ m \in Balance /\ m \in Nat
  BY WidthAssumption DEF Balance
<1>2. /\ r \in Balance /\ q \in Balance /\ r \in Nat /\ q \in Nat /\ r * r <= k
  BY <1>1, IntSqrtType, IntSqrtSpec
<1>. HIDE DEF r, q
<1>3. CASE r > q
  <2>1. SatSub(r, q) = r - q /\ r - q \in Balance /\ r - q \in Nat
    BY <1>2, <1>3, SatSubSpec
  <2>2. num \in Nat /\ num \in Balance /\ num <= s * (r - q)
    <3>1. num \in Balance /\ num <= s * (r - q)
      BY <2>1, SatMulSpec, SatMulBelow
    <3>. QED  BY <3>1 DEF Balance
  <2>3. r * m <= 5 * r /\ r * m \in Nat /\ r <= r * m
    BY <1>1, <1>2
  <2>4. 6 * r <= MaxBalance
    <3>1. CASE r < 6
      BY <1>1, <1>2, <3>1
    <3>2. CASE r >= 6
      <4>1. 6 * r <= r * r
        BY <1>2, <3>2
      <4>. QED  BY <1>1, <1>2, <4>1
    <3>. QED  BY <1>2, <3>1, <3>2
  <2>5. SatMul(r, m) = r * m /\ r * m \in Balance
    <3>1. r * m <= MaxBalance
      BY <1>1, <1>2, <2>3, <2>4
    <3>. QED  BY <1>1, <1>2, <2>3, <3>1, SatMulSpec DEF Balance
  <2>6. den = r * m + q
    <3>1. r * m + q <= MaxBalance
      BY <1>1, <1>2, <1>3, <2>3, <2>4
    <3>. QED  BY <1>2, <2>5, <3>1, SatAddSpec
  <2>7. den \in Nat /\ den # 0 /\ r * m <= den
    BY <1>2, <1>3, <2>3, <2>6
  <2>. HIDE DEF num, den
  <2>8. fee \in Nat /\ fee * den <= num
    BY <2>2, <2>7, QuotientBelow DEF DivOrZero
  <2>. HIDE DEF fee
  <2>9. fee * (r * m) <= fee * den /\ s * (r - q) <= s * r
    BY <1>1, <1>2, <2>1, <2>3, <2>7, <2>8
  <2>10. (fee * m) * r <= s * r
    <3>1. (fee * m) * r = fee * (r * m)
      BY <1>1, <1>2, <2>8
    <3>2. /\ fee * (r * m) \in Nat /\ fee * den \in Nat /\ s * (r - q) \in Nat
          /\ s * r \in Nat
      BY <1>1, <1>2, <2>1, <2>3, <2>7, <2>8
    <3>. QED  BY <2>2, <2>8, <2>9, <3>1, <3>2
  <2>11. fee * m <= s
    <3>1. fee * m \in Nat /\ r > 0
      BY <1>1, <1>2, <1>3, <2>8
    <3>. QED  BY <1>1, <1>2, <2>10, <3>1
  <2>. QED  BY <1>3, <2>11 DEF ProtocolFee, fee, num, den, r, q
<1>4. CASE ~(r > q)
  BY <1>1, <1>4 DEF ProtocolFee, r, q
<1>. QED  BY <1>3, <1>4

\* A quotient by the supply grows with its dividend.
LEMMA QuotientGrows ==
    ASSUME NEW a \in Nat, NEW b \in Nat, a <= b, NEW s \in Nat, s # 0
    PROVE  /\ a \div s \in Nat /\ a \div s <= b \div s
           /\ a >= s => a \div s >= 1
<1>1. a \div s \in Nat /\ (a \div s) * s <= a
  BY QuotientBelow
<1>. DEFINE q == a \div s
<1>2. q * s <= b
  <2>. HIDE DEF q
  <2>1. q \in Nat /\ q * s <= a /\ q * s \in Nat
    BY <1>1 DEF q
  <2>. QED  BY <2>1
<1>3. q <= b \div s
  <2>. HIDE DEF q
  <2>1. q \in Nat
    BY <1>1 DEF q
  <2>. QED  BY <1>2, <2>1, QuotientBound
<1>4. a >= s => a \div s >= 1
  <2>1. 1 * s = s
    OBVIOUS
  <2>2. a >= s => 1 <= a \div s
    BY <2>1, QuotientBound
  <2>. QED  BY <1>1, <2>2
<1>. QED  BY <1>1, <1>3, <1>4

\* The product of two naturals grows with both.
LEMMA ProductGrows ==
    ASSUME NEW a \in Nat, NEW b \in Nat, NEW c \in Nat, NEW d \in Nat, a <= c, b <= d
    PROVE  a * b <= c * d /\ a * b \in Nat /\ c * d \in Nat
<1>1. a * b <= c * b /\ c * b <= c * d
  OBVIOUS
<1>2. a * b \in Nat /\ c * b \in Nat /\ c * d \in Nat
  OBVIOUS
<1>. QED  BY <1>1, <1>2

\* Whoever pays the price leaves the product of the pool's balances at least the product
\* of its reserves, whatever the balances hold beyond the reserves.
LEMMA TradeKeepsProduct ==
    ASSUME NEW rIn \in Balance, NEW rOut \in Balance, NEW n \in Balance, n < rOut,
           GetAmountIn(n, rIn, rOut) < MaxBalance, 1000 * (rIn * rOut) <= MaxBalance,
           NEW bIn \in Nat, rIn <= bIn, NEW bOut \in Nat, rOut <= bOut
    PROVE  rIn * rOut <= (bIn + GetAmountIn(n, rIn, rOut)) * (bOut - n)
<1>. DEFINE cost == GetAmountIn(n, rIn, rOut)
            p == rIn + cost
            q == rOut - n
            v == bIn + cost
            w == bOut - n
<1>1. rIn \in Nat /\ rOut \in Nat /\ n \in Nat
  BY WidthAssumption DEF Balance
<1>2. cost \in Nat
  <2>1. cost \in Balance
    BY GetAmountInType
  <2>. QED  BY <2>1 DEF Balance
<1>3. rIn * rOut <= p * q
  BY PriceKeepsProduct
<1>4. p \in Nat /\ q \in Nat /\ v \in Nat /\ w \in Nat /\ p <= v /\ q <= w
  <2>. HIDE DEF cost
  <2>. QED  BY <1>1, <1>2
<1>. HIDE DEF p, q
<1>5. p * q <= v * w /\ p * q \in Nat /\ v * w \in Nat
  <2>. HIDE DEF v, w
  <2>. QED  BY <1>4, ProductGrows
<1>6. rIn * rOut \in Nat
  BY <1>1
<1>. HIDE DEF v, w
<1>7. rIn * rOut <= v * w
  BY <1>3, <1>5, <1>6
<1>. QED  BY <1>7 DEF v, w


-----------------------------------------------------------------------------
(* Transfers keep every balance in range.                                  *)

\* A transfer that the ledger accepts neither overdraws the sender nor overflows the
\* receiver, and a transfer of an account to itself changes nothing.
LEMMA MovedType ==
    ASSUME NEW f \in Ledger, NEW from \in Accounts, NEW to \in Accounts,
           NEW n \in Balance, CanMove(f, from, to, n)
    PROVE  /\ Moved(f, from, to, n) \in Ledger
           /\ from = to => Moved(f, from, to, n) = f
           /\ from # to => /\ Moved(f, from, to, n)[from] = f[from] - n
                           /\ Moved(f, from, to, n)[to] = f[to] + n
           /\ \A a \in Accounts \ {from, to} : Moved(f, from, to, n)[a] = f[a]
<1>. DEFINE g == [f EXCEPT ![from] = @ - n]
            h == [g EXCEPT ![to] = @ + n]
<1>1. /\ f \in [Accounts -> 0 .. MaxBalance] /\ n \in 0 .. MaxBalance /\ MaxBalance \in Nat
      /\ n <= f[from] /\ (from = to \/ f[to] <= MaxBalance - n)
  BY WidthAssumption DEF CanMove, Ledger, Balance
<1>2. /\ g \in [Accounts -> 0 .. MaxBalance] /\ g[from] = f[from] - n
      /\ \A a \in Accounts \ {from} : g[a] = f[a]
  BY <1>1
<1>3. g[to] + n \in 0 .. MaxBalance
  BY <1>1, <1>2
<1>4. /\ h \in [Accounts -> 0 .. MaxBalance] /\ h[to] = g[to] + n
      /\ \A a \in Accounts \ {to} : h[a] = g[a]
  BY <1>2, <1>3
<1>5. from = to => h = f
  <2>. SUFFICES ASSUME from = to
                PROVE  h = f
    OBVIOUS
  <2>1. \A a \in Accounts : h[a] = f[a]
    BY <1>1, <1>2, <1>4
  <2>2. h \in [Accounts -> 0 .. MaxBalance] /\ f \in [Accounts -> 0 .. MaxBalance]
    BY <1>1, <1>4
  <2>. HIDE DEF h
  <2>. QED  BY <2>1, <2>2
<1>6. Moved(f, from, to, n) = h
  BY DEF Moved
<1>7. from # to => h[from] = f[from] - n /\ h[to] = f[to] + n
  BY <1>1, <1>2, <1>4
<1>8. \A a \in Accounts \ {from, to} : h[a] = f[a]
  BY <1>2, <1>4
<1>. HIDE DEF h
<1>. QED  BY <1>4, <1>5, <1>6, <1>7, <1>8 DEF Ledger, Balance

\* Two transfers in a row, the second of which may fail, keep both ledgers in range.
LEMMA MovedInOrderType ==
    ASSUME NEW b \in [Assets -> Ledger], NEW from \in Accounts, NEW to \in Accounts,
           NEW amount \in [Assets -> Balance]
    PROVE  MovedInOrder(b, from, to, amount) \in [Assets -> Ledger]
<1>. SUFFICES ASSUME NEW x \in Assets
              PROVE  (IF \A y \in 0 .. x : CanMove(b[y], from, to, amount[y])
                      THEN Moved(b[x], from, to, amount[x]) ELSE b[x]) \in Ledger
  BY DEF MovedInOrder
<1>1. x \in 0 .. x /\ b[x] \in Ledger /\ amount[x] \in Balance
  BY DEF Assets
<1>2. CanMove(b[x], from, to, amount[x]) => Moved(b[x], from, to, amount[x]) \in Ledger
  BY <1>1, MovedType
<1>. QED  BY <1>1, <1>2

-----------------------------------------------------------------------------
(* The sum of a ledger.                                                    *)

UnitsOf(f, a) == {a} \X (1 .. f[a])

\* A ledger has finitely many units.
LEMMA UnitsFinite ==
    ASSUME NEW f \in [Accounts -> Nat]
    PROVE  IsFiniteSet(Units(f))
<1>. DEFINE S == {UnitsOf(f, a) : a \in Accounts}
            g == [a \in Accounts |-> UnitsOf(f, a)]
<1>1. \A T \in S : IsFiniteSet(T)
  <2>. SUFFICES ASSUME NEW a \in Accounts
                PROVE  IsFiniteSet(UnitsOf(f, a))
    OBVIOUS
  <2>1. IsFiniteSet({a})
    BY FS_Singleton
  <2>2. IsFiniteSet(1 .. f[a])
    BY FS_Interval
  <2>. QED  BY <2>1, <2>2, FS_Product DEF UnitsOf
<1>2. IsFiniteSet(S)
  <2>1. g \in Surjection(Accounts, S)
    BY DEF Surjection
  <2>. QED  BY <2>1, FS_Surjection, AccountsAssumption
<1>. QED  BY <1>1, <1>2, FS_UNION DEF Units, UnitsOf

\* The units of one account count what it owns.
LEMMA UnitsOfCount ==
    ASSUME NEW f \in [Accounts -> Nat], NEW a \in Accounts
    PROVE  IsFiniteSet(UnitsOf(f, a)) /\ Cardinality(UnitsOf(f, a)) = f[a]
<1>1. IsFiniteSet({a}) /\ Cardinality({a}) = 1
  BY FS_Singleton
<1>2. IsFiniteSet(1 .. f[a]) /\ Cardinality(1 .. f[a]) = f[a]
  BY FS_Interval
<1>. QED  BY <1>1, <1>2, FS_Product DEF UnitsOf

\* Setting one account aside: the sum is the rest plus what that account owns.
LEMMA SumSplit ==
    ASSUME NEW f \in [Accounts -> Nat], NEW a \in Accounts
    PROVE  /\ SumOf(f) \in Nat
           /\ SumOf([f EXCEPT ![a] = 0]) \in Nat
           /\ SumOf(f) = SumOf([f EXCEPT ![a] = 0]) + f[a]
<1>. DEFINE g == [f EXCEPT ![a] = 0]
<1>1. g \in [Accounts -> Nat]
  OBVIOUS
<1>2. IsFiniteSet(Units(f)) /\ IsFiniteSet(Units(g))
  BY <1>1, UnitsFinite
<1>3. Units(f) = Units(g) \cup UnitsOf(f, a)
  BY DEF Units, UnitsOf
<1>4. Units(g) \cap UnitsOf(f, a) = {}
  BY DEF Units, UnitsOf
<1>5. Cardinality(Units(f)) = Cardinality(Units(g)) + f[a]
  <2>1. IsFiniteSet(UnitsOf(f, a)) /\ Cardinality(UnitsOf(f, a)) = f[a]
    BY UnitsOfCount
  <2>2. Cardinality(Units(g) \cup UnitsOf(f, a))
          = Cardinality(Units(g)) + Cardinality(UnitsOf(f, a))
            - Cardinality(Units(g) \cap UnitsOf(f, a))
    BY <1>2, <2>1, FS_Union, Zenon
  <2>3. Cardinality(Units(g) \cap UnitsOf(f, a)) = 0
    BY <1>4, FS_EmptySet
  <2>4. Cardinality(Units(g)) \in Nat
    BY <1>2, FS_CardinalityType
  <2>. QED  BY <1>3, <2>1, <2>2, <2>3, <2>4
<1>6. Cardinality(Units(f)) \in Nat /\ Cardinality(Units(g)) \in Nat
  BY <1>2, FS_CardinalityType
<1>. QED  BY <1>5, <1>6 DEF SumOf

\* Changing one account changes the sum by as much.
LEMMA SumExcept ==
    ASSUME NEW f \in [Accounts -> Nat], NEW a \in Accounts, NEW v \in Nat
    PROVE  /\ SumOf([f EXCEPT ![a] = v]) \in Nat
           /\ SumOf([f EXCEPT ![a] = v]) = SumOf(f) - f[a] + v
<1>. DEFINE g == [f EXCEPT ![a] = v]
<1>1. g \in [Accounts -> Nat] /\ [g EXCEPT ![a] = 0] = [f EXCEPT ![a] = 0] /\ g[a] = v
  OBVIOUS
<1>2. SumOf(g) \in Nat /\ SumOf(g) = SumOf([g EXCEPT ![a] = 0]) + g[a]
  BY <1>1, SumSplit
<1>3. SumOf(f) \in Nat /\ SumOf(f) = SumOf([f EXCEPT ![a] = 0]) + f[a]
  BY SumSplit
<1>4. SumOf([f EXCEPT ![a] = 0]) \in Nat
  BY SumSplit
<1>. QED  BY <1>1, <1>2, <1>3, <1>4

\* No account owns more than the sum.
LEMMA SumBoundsEach ==
    ASSUME NEW f \in [Accounts -> Nat], NEW a \in Accounts
    PROVE  f[a] <= SumOf(f) /\ SumOf(f) \in Nat
<1>1. SumOf(f) \in Nat /\ SumOf(f) = SumOf([f EXCEPT ![a] = 0]) + f[a]
  BY SumSplit
<1>2. SumOf([f EXCEPT ![a] = 0]) \in Nat
  BY SumSplit
<1>3. f[a] \in Nat
  OBVIOUS
<1>. QED  BY <1>1, <1>2, <1>3

\* An empty ledger sums up to zero.
LEMMA SumOfNothing ==
    SumOf([a \in Accounts |-> 0]) = 0
<1>1. Units([a \in Accounts |-> 0]) = {}
  BY DEF Units
<1>. QED  BY <1>1, FS_EmptySet DEF SumOf

-----------------------------------------------------------------------------
(* Saturating changes of a ledger, as the share tables are written.        *)

\* Every ledger has a sum, and no account owns more than it.
LEMMA SumOfLedger ==
    ASSUME NEW l \in Ledger, NEW a \in Accounts
    PROVE  SumOf(l) \in Nat /\ l[a] \in Nat /\ l[a] <= SumOf(l) /\ l \in [Accounts -> Nat]
<1>1. l \in [Accounts -> Nat]
  BY WidthAssumption DEF Ledger, Balance
<1>. QED  BY <1>1, SumBoundsEach

SatCredit(l, to, v) == [l EXCEPT ![to] = SatAdd(@, v)]

SatDebit(l, from, v) == [l EXCEPT ![from] = SatSub(@, v)]

\* A saturating credit adds to the sum what it adds to the account, while the sum fits.
LEMMA SatCreditSum ==
    ASSUME NEW l \in Ledger, NEW to \in Accounts, NEW v \in Balance,
           SumOf(l) + v <= MaxBalance
    PROVE  /\ SatCredit(l, to, v) = [l EXCEPT ![to] = @ + v]
           /\ SatCredit(l, to, v) \in Ledger
           /\ SumOf(SatCredit(l, to, v)) = SumOf(l) + v
<1>1. SumOf(l) \in Nat /\ l[to] \in Nat /\ l[to] <= SumOf(l) /\ v \in Nat
      /\ MaxBalance \in Nat /\ l[to] \in Balance /\ l \in [Accounts -> Nat]
  BY SumOfLedger, WidthAssumption DEF Balance, Ledger
<1>2. SatAdd(l[to], v) = l[to] + v /\ l[to] + v \in Balance /\ l[to] + v \in Nat
  BY <1>1, SatAddSpec
<1>3. SatCredit(l, to, v) = [l EXCEPT ![to] = l[to] + v]
  BY <1>2 DEF SatCredit
<1>4. SumOf([l EXCEPT ![to] = l[to] + v]) = SumOf(l) - l[to] + (l[to] + v)
  BY <1>1, <1>2, SumExcept
<1>5. [l EXCEPT ![to] = l[to] + v] \in Ledger
  BY <1>2 DEF Ledger
<1>. QED  BY <1>1, <1>3, <1>4, <1>5

\* A saturating debit of what the account owns takes the same from the sum.
LEMMA SatDebitSum ==
    ASSUME NEW l \in Ledger, NEW from \in Accounts, NEW v \in Balance, v <= l[from]
    PROVE  /\ SatDebit(l, from, v) = [l EXCEPT ![from] = @ - v]
           /\ SatDebit(l, from, v) \in Ledger
           /\ SumOf(SatDebit(l, from, v)) = SumOf(l) - v
<1>1. SumOf(l) \in Nat /\ l[from] \in Nat /\ v \in Nat
      /\ l[from] \in Balance /\ l \in [Accounts -> Nat]
  BY SumOfLedger, WidthAssumption DEF Balance, Ledger
<1>2. SatSub(l[from], v) = l[from] - v /\ l[from] - v \in Balance /\ l[from] - v \in Nat
  BY <1>1, SatSubSpec
<1>3. SatDebit(l, from, v) = [l EXCEPT ![from] = l[from] - v]
  BY <1>2 DEF SatDebit
<1>4. SumOf([l EXCEPT ![from] = l[from] - v]) = SumOf(l) - l[from] + (l[from] - v)
  BY <1>1, <1>2, SumExcept
<1>5. [l EXCEPT ![from] = l[from] - v] \in Ledger
  BY <1>2 DEF Ledger
<1>. QED  BY <1>1, <1>3, <1>4, <1>5

\* A transfer of shares an account owns keeps the sum, and is exact, while the sum fits.
LEMMA SatTransferSum ==
    ASSUME NEW l \in Ledger, NEW from \in Accounts, NEW to \in Accounts, from # to,
           NEW n \in Balance, n <= l[from], SumOf(l) <= MaxBalance
    PROVE  LET t == SatCredit(SatDebit(l, from, n), to, n)
           IN  /\ t \in Ledger
               /\ SumOf(t) = SumOf(l)
               /\ t = [[l EXCEPT ![from] = @ - n] EXCEPT ![to] = @ + n]
               /\ t[from] = l[from] - n /\ t[to] = l[to] + n
<1>. DEFINE g == SatDebit(l, from, n)
            t == SatCredit(g, to, n)
<1>1. g \in Ledger
  BY SatDebitSum
<1>2. SumOf(g) = SumOf(l) - n /\ g = [l EXCEPT ![from] = @ - n]
  BY SatDebitSum
<1>3. SumOf(l) \in Nat /\ n \in Nat /\ SumOf(g) + n = SumOf(l)
      /\ SumOf(g) + n <= MaxBalance
  BY <1>2, SumOfLedger DEF Balance
<1>. HIDE DEF g
<1>4. t \in Ledger /\ SumOf(t) = SumOf(g) + n /\ t = [g EXCEPT ![to] = @ + n]
  BY <1>1, <1>3, SatCreditSum
<1>. HIDE DEF t
<1>5. t = [[l EXCEPT ![from] = @ - n] EXCEPT ![to] = @ + n]
  BY <1>2, <1>4
<1>6. t[from] = l[from] - n /\ t[to] = l[to] + n
  <2>1. /\ DOMAIN l = Accounts /\ DOMAIN g = Accounts
        /\ g[from] = l[from] - n /\ g[to] = l[to]
    BY <1>1, <1>2 DEF Ledger
  <2>. QED  BY <1>4, <2>1
<1>. QED  BY <1>3, <1>4, <1>5, <1>6 DEF g, t

\* A transfer keeps the sum, also one of an account to itself.
LEMMA MovedSum ==
    ASSUME NEW f \in Ledger, NEW from \in Accounts, NEW to \in Accounts,
           NEW n \in Balance, CanMove(f, from, to, n)
    PROVE  SumOf(Moved(f, from, to, n)) = SumOf(f)
<1>. DEFINE g == [f EXCEPT ![from] = f[from] - n]
<1>1. /\ f \in [Accounts -> Nat] /\ n \in Nat /\ n <= f[from] /\ f[from] \in Nat
      /\ SumOf(f) \in Nat
  BY SumOfLedger DEF CanMove, Balance
<1>2. g \in [Accounts -> Nat] /\ f[from] - n \in Nat
  BY <1>1
<1>3. SumOf(g) = SumOf(f) - f[from] + (f[from] - n)
  BY <1>1, <1>2, SumExcept
<1>4. Moved(f, from, to, n) = [g EXCEPT ![to] = g[to] + n]
  BY DEF Moved
<1>. HIDE DEF g
<1>5. g[to] \in Nat /\ g[to] + n \in Nat
  BY <1>1, <1>2
<1>6. SumOf([g EXCEPT ![to] = g[to] + n]) = SumOf(g) - g[to] + (g[to] + n)
      /\ SumOf(g) \in Nat
  BY <1>2, <1>5, SumExcept, SumBoundsEach
<1>. QED  BY <1>1, <1>3, <1>4, <1>5, <1>6

\* The ledger l with v more for the account c.
WithMore(l, c, v) == [a \in Accounts |-> l[a] + (IF a = c THEN v ELSE 0)]

\* A saturating credit, account by account, while the sum fits.
LEMMA SatCreditPointwise ==
    ASSUME NEW l \in Ledger, NEW c \in Accounts, NEW v \in Balance,
           SumOf(l) + v <= MaxBalance
    PROVE  SatCredit(l, c, v) = WithMore(l, c, v)
<1>. DEFINE g == SatCredit(l, c, v)
            h == WithMore(l, c, v)
<1>1. v \in Nat /\ l \in [Accounts -> Nat]
  BY SumOfLedger DEF Balance
<1>2. g = [l EXCEPT ![c] = @ + v]
  BY SatCreditSum
<1>3. g \in [Accounts -> Nat] /\ h \in [Accounts -> Nat]
  BY <1>1, <1>2 DEF WithMore
<1>4. ASSUME NEW a \in Accounts
      PROVE  g[a] = h[a]
  <2>1. CASE a = c
    BY <1>1, <1>2, <2>1 DEF WithMore
  <2>2. CASE a # c
    <3>1. g[a] = l[a] /\ h[a] = l[a] + 0
      BY <1>1, <1>2, <2>2 DEF WithMore
    <3>. QED  BY <1>1, <3>1
  <2>. QED  BY <2>1, <2>2
<1>. HIDE DEF g, h
<1>5. g = h
  BY <1>3, <1>4
<1>. QED  BY <1>5 DEF g, h

-----------------------------------------------------------------------------
(* Transfers while the whole issuance fits the type.                       *)

\* Two accounts own no more than the sum.
LEMMA TwoBelowSum ==
    ASSUME NEW l \in Ledger, NEW a \in Accounts, NEW b \in Accounts, a # b
    PROVE  l[a] + l[b] <= SumOf(l)
<1>. DEFINE g == [l EXCEPT ![a] = 0]
<1>1. l \in [Accounts -> Nat] /\ l[a] \in Nat /\ l[b] \in Nat
  BY SumOfLedger
<1>2. g \in [Accounts -> Nat] /\ g[b] = l[b]
  BY <1>1
<1>3. SumOf(g) \in Nat /\ SumOf(l) = SumOf(g) + l[a]
  BY <1>1, SumSplit
<1>. HIDE DEF g
<1>4. g[b] <= SumOf(g)
  BY <1>2, SumBoundsEach
<1>. QED  BY <1>1, <1>2, <1>3, <1>4

\* Whoever owns the amount can send it: nobody's account can overflow.
LEMMA CanMoveOwned ==
    ASSUME NEW f \in Ledger, NEW from \in Accounts, NEW to \in Accounts, from # to,
           NEW n \in Nat, n <= f[from], SumOf(f) <= MaxBalance
    PROVE  CanMove(f, from, to, n)
<1>1. f[from] + f[to] <= SumOf(f) /\ f[from] \in Nat /\ f[to] \in Nat /\ SumOf(f) \in Nat
  BY TwoBelowSum, SumOfLedger
<1>. QED  BY <1>1, WidthAssumption DEF CanMove

\* Two transfers in a row keep both sums, also when the second one fails.
LEMMA MovedInOrderSum ==
    ASSUME NEW b \in [Assets -> Ledger], NEW from \in Accounts, NEW to \in Accounts,
           NEW amount \in [Assets -> Balance], NEW x \in Assets
    PROVE  SumOf(MovedInOrder(b, from, to, amount)[x]) = SumOf(b[x])
<1>1. x \in 0 .. x /\ b[x] \in Ledger /\ amount[x] \in Balance
  BY DEF Assets
<1>2. CanMove(b[x], from, to, amount[x])
        => SumOf(Moved(b[x], from, to, amount[x])) = SumOf(b[x])
  BY <1>1, MovedSum
<1>3. \/ /\ CanMove(b[x], from, to, amount[x])
         /\ MovedInOrder(b, from, to, amount)[x] = Moved(b[x], from, to, amount[x])
      \/ MovedInOrder(b, from, to, amount)[x] = b[x]
  BY <1>1 DEF MovedInOrder
<1>. QED  BY <1>2, <1>3

\* Two transfers in a row either move an amount as one transfer does or leave it.
LEMMA MovedInOrderEach ==
    ASSUME NEW b \in [Assets -> Ledger], NEW from \in Accounts, NEW to \in Accounts,
           from # to, NEW amount \in [Assets -> Balance], NEW x \in Assets
    PROVE  LET m == MovedInOrder(b, from, to, amount)
           IN  /\ \/ m[x] = b[x]
                  \/ /\ m[x][from] = b[x][from] - amount[x]
                     /\ m[x][to] = b[x][to] + amount[x]
               /\ CanMoveBoth(b, from, to, amount) =>
                     /\ m[x][from] = b[x][from] - amount[x]
                     /\ m[x][to] = b[x][to] + amount[x]
<1>1. x \in 0 .. x /\ 0 .. x \subseteq Assets /\ b[x] \in Ledger /\ amount[x] \in Balance
  BY DEF Assets
<1>2. CanMove(b[x], from, to, amount[x]) =>
        /\ Moved(b[x], from, to, amount[x])[from] = b[x][from] - amount[x]
        /\ Moved(b[x], from, to, amount[x])[to] = b[x][to] + amount[x]
  BY <1>1, MovedType
<1>3. \/ /\ CanMove(b[x], from, to, amount[x])
         /\ MovedInOrder(b, from, to, amount)[x] = Moved(b[x], from, to, amount[x])
      \/ MovedInOrder(b, from, to, amount)[x] = b[x]
  BY <1>1 DEF MovedInOrder
<1>4. CanMoveBoth(b, from, to, amount) =>
        /\ CanMove(b[x], from, to, amount[x])
        /\ MovedInOrder(b, from, to, amount)[x] = Moved(b[x], from, to, amount[x])
  BY <1>1 DEF MovedInOrder, CanMoveBoth
<1>. QED  BY <1>2, <1>3, <1>4

\* It makes no difference whether an account is credited before or after a transfer.
LEMMA CreditAndTransfer ==
    ASSUME NEW l \in [Accounts -> Nat], NEW u \in Accounts, NEW c \in Accounts, u # c,
           NEW n \in Nat, NEW r, NEW v \in Nat
    PROVE  WithMore(Moved(l, u, c, n), r, v) = Moved(WithMore(l, r, v), u, c, n)
<1>. DEFINE g == WithMore(Moved(l, u, c, n), r, v)
            h == Moved(WithMore(l, r, v), u, c, n)
            more(a) == IF a = r THEN v ELSE 0
<1>1. /\ DOMAIN g = Accounts /\ DOMAIN h = Accounts
      /\ g = [a \in Accounts |-> g[a]] /\ h = [a \in Accounts |-> h[a]]
  BY DEF WithMore, Moved
<1>2. ASSUME NEW a \in Accounts
      PROVE  g[a] = h[a]
  <2>1. l[a] \in Nat /\ more(a) \in Nat
    OBVIOUS
  <2>2. g[a] = Moved(l, u, c, n)[a] + more(a) /\ WithMore(l, r, v)[a] = l[a] + more(a)
    BY DEF WithMore
  <2>3. CASE a = u
    <3>1. Moved(l, u, c, n)[a] = l[a] - n
      BY <2>3 DEF Moved
    <3>2. h[a] = WithMore(l, r, v)[a] - n
      BY <2>3 DEF Moved, WithMore
    <3>. QED  BY <2>1, <2>2, <3>1, <3>2
  <2>4. CASE a = c
    <3>1. Moved(l, u, c, n)[a] = l[a] + n
      BY <2>4 DEF Moved
    <3>2. h[a] = WithMore(l, r, v)[a] + n
      BY <2>4 DEF Moved, WithMore
    <3>. QED  BY <2>1, <2>2, <3>1, <3>2
  <2>5. CASE a # u /\ a # c
    <3>1. Moved(l, u, c, n)[a] = l[a]
      BY <2>5 DEF Moved
    <3>2. h[a] = WithMore(l, r, v)[a]
      BY <2>5 DEF Moved, WithMore
    <3>. QED  BY <2>1, <2>2, <3>1, <3>2
  <2>. QED  BY <2>3, <2>4, <2>5
<1>. HIDE DEF g, h
<1>3. g = h
  BY <1>1, <1>2
<1>. QED  BY <1>3 DEF g, h

\* The ledger l with v less for the account c.
WithLess(l, c, v) == [l EXCEPT ![c] = @ - v]

\* Taking n from u and, together with it, what c had: one way to write it and another.
LEMMA TransferAndTake ==
    ASSUME NEW l \in [Accounts -> Nat], NEW u \in Accounts, NEW c \in Accounts, u # c,
           NEW n \in Nat, NEW had \in Nat
    PROVE  WithLess(Moved(l, u, c, n), c, had + n) = WithLess(WithLess(l, u, n), c, had)
<1>. DEFINE g == [Moved(l, u, c, n) EXCEPT ![c] = @ - (had + n)]
            h == [[l EXCEPT ![u] = @ - n] EXCEPT ![c] = @ - had]
<1>1. /\ DOMAIN g = Accounts /\ DOMAIN h = Accounts
      /\ g = [a \in Accounts |-> g[a]] /\ h = [a \in Accounts |-> h[a]]
  BY DEF Moved
<1>2. ASSUME NEW a \in Accounts
      PROVE  g[a] = h[a]
  <2>1. l[a] \in Nat
    OBVIOUS
  <2>2. CASE a = c
    <3>1. g[a] = l[a] + n - (had + n) /\ h[a] = l[a] - had
      BY <2>2 DEF Moved
    <3>. QED  BY <2>1, <3>1
  <2>3. CASE a # c
    <3>1. g[a] = Moved(l, u, c, n)[a]
      BY <2>3 DEF Moved
    <3>2. Moved(l, u, c, n)[a] = [l EXCEPT ![u] = @ - n][a] /\ h[a] = [l EXCEPT ![u] = @ - n][a]
      BY <2>3 DEF Moved
    <3>. QED  BY <3>1, <3>2
  <2>. QED  BY <2>2, <2>3
<1>. HIDE DEF g, h
<1>3. g = h
  BY <1>1, <1>2
<1>. QED  BY <1>3 DEF g, h, WithLess

-----------------------------------------------------------------------------
(* Tokens that change hands between two accounts.                          *)

\* Ledger g differs from f by tokens that u and c exchanged.
Between(f, g, u, c) ==
    /\ g \in Ledger
    /\ SumOf(g) = SumOf(f)
    /\ \A a \in Accounts \ {u, c} : g[a] = f[a]

\* A transfer between two accounts concerns nobody else.
LEMMA MovedBetween ==
    ASSUME NEW f \in Ledger, NEW u \in Accounts, NEW c \in Accounts, NEW n \in Balance
    PROVE  /\ CanMove(f, u, c, n) => Between(f, Moved(f, u, c, n), u, c)
           /\ CanMove(f, c, u, n) => Between(f, Moved(f, c, u, n), u, c)
BY MovedType, MovedSum DEF Between

\* Nor do two transfers in order, whether both are carried out or not.
LEMMA MovedInOrderBetween ==
    ASSUME NEW b \in [Assets -> Ledger], NEW u \in Accounts, NEW c \in Accounts,
           NEW amount \in [Assets -> Balance], NEW x \in Assets
    PROVE  /\ Between(b[x], MovedInOrder(b, u, c, amount)[x], u, c)
           /\ Between(b[x], MovedInOrder(b, c, u, amount)[x], u, c)
<1>1. b[x] \in Ledger /\ amount[x] \in Balance /\ x \in 0 .. x
  BY DEF Assets
<1>2. Between(b[x], b[x], u, c)
  BY <1>1 DEF Between
<1>3. ASSUME NEW from \in Accounts, NEW to \in Accounts
      PROVE  \/ MovedInOrder(b, from, to, amount)[x] = b[x]
             \/ /\ CanMove(b[x], from, to, amount[x])
                /\ MovedInOrder(b, from, to, amount)[x] = Moved(b[x], from, to, amount[x])
  BY <1>1 DEF MovedInOrder
<1>. QED  BY <1>1, <1>2, <1>3, MovedBetween
=============================================================================
