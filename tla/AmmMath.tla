------------------------------- MODULE AmmMath -------------------------------
(***************************************************************************)
(* The arithmetic of the automated market maker.  Both implementations     *)
(* compute on an unsigned integer type (u128 on the test chain) with       *)
(* saturating, checked and wrapping operations; MaxBalance is its largest  *)
(* value.  The saturating and checked operations come from num-traits and  *)
(* are external; the formulas of Uniswap V2 are the code's own.            *)
(*                                                                         *)
(* Where the code returns Err, the operator is only meant for arguments    *)
(* that satisfy the guards of their callers (PositiveReserves).            *)
(***************************************************************************)
EXTENDS Integers

CONSTANT MaxBalance     \* T::Balance::max_value()

\* The literals 1000 and 1000 * 1000 of _swap must be values of the type.
ASSUME WidthAssumption == MaxBalance \in Nat /\ MaxBalance >= 1000 * 1000

Balance == 0 .. MaxBalance

-----------------------------------------------------------------------------
(* External: num-traits Saturating, CheckedDiv, IntegerSquareRoot.         *)

SatAdd(a, b) == IF a > MaxBalance - b THEN MaxBalance ELSE a + b

SatSub(a, b) == IF a < b THEN 0 ELSE a - b

\* Written with a division so that no intermediate value exceeds MaxBalance.
SatMul(a, b) == IF b # 0 /\ a > MaxBalance \div b THEN MaxBalance ELSE a * b

\* checked_div(..).unwrap_or(zero)
DivOrZero(a, b) == IF b = 0 THEN 0 ELSE a \div b

MinOf(a, b) == IF a <= b THEN a ELSE b

IntSqrt(n) == CHOOSE r \in 0 .. n : r * r <= n /\ n < (r + 1) * (r + 1)

-----------------------------------------------------------------------------
(* overflowing_add and overflowing_sub of helper.rs, for a type whose      *)
(* largest value is max.                                                   *)

\* Mutant of OverflowingAdd: the sum stops at the largest value.
OverflowingAddSaturates(augend, addend, max) ==
    IF augend <= max - addend THEN augend + addend ELSE max

OverflowingAdd(augend, addend, max) ==
    IF augend <= max - addend THEN augend + addend
                              ELSE augend - (max - addend) - 1

OverflowingSub(minuend, subtrahend, max) ==
    IF minuend >= subtrahend THEN minuend - subtrahend
                             ELSE max - subtrahend + minuend + 1

-----------------------------------------------------------------------------
(* The Uniswap V2 library formulas.                                        *)

PositiveReserves(reserveA, reserveB) == reserveA > 0 /\ reserveB > 0

Quote(amountA, reserveA, reserveB) ==
    DivOrZero(SatMul(amountA, reserveB), reserveA)

\* Mutant of GetAmountIn: the formula of Uniswap V2 without its final "+ 1".
GetAmountInRoundedDown(amountOut, reserveIn, reserveOut) ==
    DivOrZero(SatMul(SatMul(reserveIn, amountOut), 1000),
              SatMul(SatSub(reserveOut, amountOut), 997))

\* A zero denominator (amount_out >= reserve_out) prices the trade at zero; _swap
\* then refuses it.  The numerator is reserve_in * reserve_out * 1000.
GetAmountIn(amountOut, reserveIn, reserveOut) ==
    LET numerator   == SatMul(SatMul(reserveIn, reserveOut), 1000)
        denominator == SatMul(SatSub(reserveOut, amountOut), 997)
    IN  IF denominator = 0 THEN 0 ELSE SatAdd(numerator \div denominator, 1)

GetAmountOut(amountIn, reserveIn, reserveOut) ==
    LET amountInWithFee == SatMul(amountIn, 997)
    IN  DivOrZero(SatMul(amountInWithFee, reserveOut),
                  SatAdd(SatMul(reserveIn, 1000), amountInWithFee))

\* One side of the constant-product check of _swap: a balance in thousandths, less
\* the trading fee on what came in.
Adjusted(balance, amountIn, baseFee) ==
    SatSub(SatMul(balance, 1000), SatMul(amountIn, baseFee))

\* Shares the first provider gets (on top of the locked minimum), and a later one.
InitialLiquidity(amount0, amount1, minimum) ==
    SatSub(IntSqrt(SatMul(amount0, amount1)), minimum)

ProportionalShare(amount, supply, reserve) ==
    DivOrZero(SatMul(amount, supply), reserve)

\* The shares _mint_fee issues when the root of k has grown since kLast.
ProtocolFee(k, kLast, supply, mintFee) ==
    LET rootK     == IntSqrt(k)
        rootKLast == IntSqrt(kLast)
    IN  IF rootK > rootKLast
        THEN DivOrZero(SatMul(supply, SatSub(rootK, rootKLast)),
                       SatAdd(SatMul(rootK, mintFee), rootKLast))
        ELSE 0
=============================================================================
