-------------------------- MODULE StellarKeyProofs --------------------------
(* Theorems on Stellar keys, for keys of every length: base32 is groups of   *)
(* five bits in both directions; the constructor accepts a text exactly when *)
(* it is the one encode_stellar_key writes for its key; and a text with one  *)
(* slip is never the text of another key.                                    *)
EXTENDS StellarKey, FiniteSetTheorems, TLAPS
-----------------------------------------------------------------------------
(* Induction, and functions that are defined by recursion: a recursive       *)
(* function has the values its definition states only if there is one.       *)

\* Induction over the numbers, for a set: a number n outside S would leave the numbers up
\* to n that are in S with a successor each, an injection of a finite set into itself that
\* does not reach 0.
LEMMA SetInduction ==
    ASSUME NEW S, 0 \in S, \A n \in Nat : n \in S => n + 1 \in S
    PROVE  \A n \in Nat : n \in S
<1>. SUFFICES ASSUME NEW n \in Nat, n \notin S
              PROVE  FALSE
  OBVIOUS
<1>. DEFINE T == {k \in 0 .. n : k \in S}
            f == [k \in T |-> k + 1]
<1>1. IsFiniteSet(T)
  <2>1. IsFiniteSet(0 .. n)
    BY FS_Interval
  <2>2. T \in SUBSET (0 .. n)
    OBVIOUS
  <2>. QED  BY <2>1, <2>2, FS_Subset, Zenon
<1>2. \A k \in T : k + 1 \in T
  <2>. SUFFICES ASSUME NEW k \in T
                PROVE  k + 1 \in T
    OBVIOUS
  <2>1. k \in Nat /\ k + 1 \in S /\ k # n
    OBVIOUS
  <2>. QED  BY <2>1
<1>3. f \in Injection(T, T)
  <2>1. f \in [T -> T]
    BY <1>2
  <2>2. \A a, b \in T : f[a] = f[b] => a = b
    OBVIOUS
  <2>. QED  BY <2>1, <2>2 DEF Injection, IsInjective
<1>4. f \in Surjection(T, T)
  BY <1>1, <1>3, FS_Injection, Zenon
<1>5. 0 \in T
  OBVIOUS
<1>6. PICK k \in T : f[k] = 0
  BY <1>4, <1>5 DEF Surjection
<1>. QED  BY <1>6

\* A function whose value at 0 is given and whose value at i is computed from the one at
\* an earlier argument.
Recursion(X, x, n, g, prev) ==
    /\ x \in X /\ n \in Nat /\ g \in [1 .. n -> [X -> X]]
    /\ prev \in [1 .. n -> Nat] /\ \A i \in 1 .. n : prev[i] < i

Solves(f, X, x, n, g, prev) ==
    /\ f \in [0 .. n -> X]
    /\ f[0] = x /\ \A i \in 1 .. n : f[i] = g[i][f[prev[i]]]

\* Such a function exists: the first values extend to the next.
LEMMA RecursionExists ==
    ASSUME NEW X, NEW x, NEW n, NEW g, NEW prev, Recursion(X, x, n, g, prev)
    PROVE  \E f : Solves(f, X, x, n, g, prev)
<1>0. /\ x \in X /\ n \in Nat /\ g \in [1 .. n -> [X -> X]]
      /\ prev \in [1 .. n -> Nat] /\ \A i \in 1 .. n : prev[i] < i
  BY DEF Recursion
<1>. DEFINE Runs(m, f) == f[0] = x /\ \A i \in 1 .. m : f[i] = g[i][f[prev[i]]]
            Has(m) == \E f \in [0 .. m -> X] : Runs(m, f)
            S == {m \in Nat : m <= n => Has(m)}
<1>1. 0 \in S
  <2>1. [i \in 0 .. 0 |-> x] \in [0 .. 0 -> X] /\ Runs(0, [i \in 0 .. 0 |-> x])
    BY <1>0
  <2>. QED  BY <2>1
<1>2. ASSUME NEW m \in Nat, m \in S
      PROVE  m + 1 \in S
  <2>. SUFFICES ASSUME m + 1 <= n
                PROVE  Has(m + 1)
    <3>. HIDE DEF Has
    <3>. QED  BY <1>0
  <2>1. PICK f \in [0 .. m -> X] : Runs(m, f)
    BY <1>0, <1>2
  <2>2. m + 1 \in 1 .. n /\ prev[m + 1] \in 0 .. m
    BY <1>0
  <2>. DEFINE h == [i \in 0 .. m + 1 |-> IF i <= m THEN f[i] ELSE g[m + 1][f[prev[m + 1]]]]
  <2>3. h \in [0 .. m + 1 -> X]
    BY <1>0, <2>2
  <2>4. Runs(m + 1, h)
    <3>1. h[0] = x
      BY <2>1
    <3>2. ASSUME NEW i \in 1 .. m + 1
          PROVE  h[i] = g[i][h[prev[i]]]
      <4>1. prev[i] \in 0 .. m /\ h[prev[i]] = f[prev[i]]
        BY <1>0, <2>2
      <4>2. CASE i <= m
        BY <2>1, <4>1, <4>2
      <4>3. CASE i = m + 1
        BY <2>2, <4>1, <4>3
      <4>4. i <= m \/ i = m + 1
        OBVIOUS
      <4>. HIDE DEF h
      <4>. QED  BY <4>2, <4>3, <4>4
    <3>. QED  BY <3>1, <3>2
  <2>. QED  BY <2>3, <2>4
<1>. HIDE DEF S
<1>3. n \in S
  BY <1>0, <1>1, <1>2, SetInduction
<1>. QED  BY <1>0, <1>3 DEF S, Solves

\* The recursions of Or and Xor: from the lowest bit upwards, with one[a][b] the lowest bit.
Bitwise(f, one) ==
    f = [a \in Word |-> [b \in Word |->
            IF a = 0 THEN b ELSE 2 * f[a \div 2][b \div 2] + one[a][b]]]

\* The 16 bit numbers are an interval (its bound is kept out of the provers' sight).
LEMMA WordIsInterval == \E n \in Nat : Word = 0 .. n
<1>1. 2^16 - 1 \in Nat
  OBVIOUS
<1>. QED  BY <1>1, Zenon DEF Word

\* Or and Xor recur on the half of a number.
LEMMA HalfOfWord ==
    ASSUME NEW a \in Word
    PROVE  a \in Nat /\ a \div 2 \in Word /\ a % 2 \in 0 .. 1
BY DEF Word

\* One row of the recursion of Or or Xor has natural values.
LEMMA BitwiseStep ==
    ASSUME NEW one \in [Word -> [Word -> 0 .. 1]], NEW a \in Word, NEW h \in [Word -> Nat]
    PROVE  [b \in Word |-> 2 * h[b \div 2] + one[a][b]] \in [Word -> Nat]
<1>1. ASSUME NEW b \in Word
      PROVE  2 * h[b \div 2] + one[a][b] \in Nat
  <2>1. h[b \div 2] \in Nat /\ one[a][b] \in Nat
    BY HalfOfWord
  <2>. QED  BY <2>1
<1>. QED  BY <1>1

\* There is a function that satisfies the recursion of Or and Xor.
LEMMA BitwiseExists ==
    ASSUME NEW one \in [Word -> [Word -> 0 .. 1]]
    PROVE  \E f : Bitwise(f, one)
<1>0. PICK N \in Nat : Word = 0 .. N
  BY WordIsInterval
<1>. DEFINE X == [Word -> Nat]
            x == [b \in Word |-> b]
            g == [a \in 1 .. N |-> [h \in X |-> [b \in Word |-> 2 * h[b \div 2] + one[a][b]]]]
            prev == [a \in 1 .. N |-> a \div 2]
<1>1. x \in X
  BY <1>0
<1>2. g \in [1 .. N -> [X -> X]]
  <2>1. ASSUME NEW a \in 1 .. N, NEW h \in X
        PROVE  [b \in Word |-> 2 * h[b \div 2] + one[a][b]] \in X
    <3>1. a \in Word
      BY <1>0
    <3>. QED  BY <3>1, BitwiseStep
  <2>. HIDE DEF X
  <2>. QED  BY <2>1
<1>3. prev \in [1 .. N -> Nat] /\ \A a \in 1 .. N : prev[a] < a
  BY <1>0
<1>4. \E f : Solves(f, X, x, N, g, prev)
  <2>. HIDE DEF X, x, g, prev
  <2>1. Recursion(X, x, N, g, prev)
    BY <1>1, <1>2, <1>3 DEF Recursion
  <2>. QED  BY <2>1, RecursionExists
<1>5. PICK f \in [Word -> X] : f[0] = x /\ \A a \in 1 .. N : f[a] = g[a][f[prev[a]]]
  <2>. HIDE DEF X, x, g, prev
  <2>. QED  BY <1>0, <1>4 DEF Solves
<1>6. ASSUME NEW a \in Word
      PROVE  f[a] = [b \in Word |-> IF a = 0 THEN b ELSE 2 * f[a \div 2][b \div 2] + one[a][b]]
  <2>1. CASE a = 0
    BY <1>5, <2>1
  <2>2. CASE a # 0
    <3>1. a \in 1 .. N
      BY <1>0, <2>2
    <3>2. prev[a] = a \div 2 /\ f[a \div 2] \in X
      BY <3>1, HalfOfWord
    <3>3. f[a] = g[a][f[a \div 2]]
      BY <1>5, <3>1, <3>2
    <3>4. g[a][f[a \div 2]] = [b \in Word |-> 2 * f[a \div 2][b \div 2] + one[a][b]]
      <4>. HIDE DEF X
      <4>. QED  BY <3>1, <3>2
    <3>. HIDE DEF g
    <3>. QED  BY <2>2, <3>3, <3>4
  <2>. QED  BY <2>1, <2>2
<1>. HIDE DEF X, g, prev
<1>7. f = [a \in Word |-> [b \in Word |->
            IF a = 0 THEN b ELSE 2 * f[a \div 2][b \div 2] + one[a][b]]]
  BY <1>5, <1>6
<1>. QED  BY <1>7 DEF Bitwise

\* Its values are the ones the recursion states.
LEMMA BitwiseValues ==
    ASSUME NEW one \in [Word -> [Word -> 0 .. 1]], NEW f, Bitwise(f, one),
           NEW m \in Word, NEW n \in Word
    PROVE  /\ f[m][n] \in Nat
           /\ f[0][n] = n
           /\ m # 0 => f[m][n] = 2 * f[m \div 2][n \div 2] + one[m][n]
<1>. DEFINE X == [Word -> Nat]
            S == {k \in Nat : \A a \in Word : a <= k => f[a] \in X}
<1>1. ASSUME NEW a \in Word
      PROVE  f[a] = [b \in Word |-> IF a = 0 THEN b ELSE 2 * f[a \div 2][b \div 2] + one[a][b]]
  BY DEF Bitwise
<1>2. 0 \in Word /\ \A a \in Word : a \in Nat
  BY WordIsInterval
<1>3. f[0] = [b \in Word |-> b]
  BY <1>1, <1>2
<1>4. 0 \in S
  BY <1>2, <1>3
<1>5. ASSUME NEW k \in Nat, k \in S
      PROVE  k + 1 \in S
  <2>1. \A a \in Word : a <= k => f[a] \in X
    BY <1>5
  <2>2. ASSUME NEW a \in Word, a = k + 1
        PROVE  f[a] \in X
    <3>1. a \div 2 \in Word /\ a \div 2 <= k /\ a # 0
      BY <1>2, <2>2, HalfOfWord
    <3>. DEFINE h == f[a \div 2]
    <3>2. h \in [Word -> Nat]
      BY <2>1, <3>1
    <3>3. f[a] = [b \in Word |-> 2 * h[b \div 2] + one[a][b]]
      BY <1>1, <3>1
    <3>. HIDE DEF h
    <3>4. [b \in Word |-> 2 * h[b \div 2] + one[a][b]] \in [Word -> Nat]
      BY <3>2, BitwiseStep
    <3>. QED  BY <3>3, <3>4
  <2>. HIDE DEF X
  <2>3. ASSUME NEW a \in Word, a <= k + 1
        PROVE  f[a] \in X
    <3>1. a \in Nat
      BY <1>2
    <3>2. a <= k \/ a = k + 1
      BY <2>3, <3>1
    <3>. QED  BY <2>1, <2>2, <3>2
  <2>. QED  BY <2>3
<1>. HIDE DEF S
<1>6. \A a \in Word : f[a] \in X
  <2>1. \A k \in Nat : k \in S
    BY <1>4, <1>5, SetInduction
  <2>. QED  BY <1>2, <2>1 DEF S
<1>7. f[m][n] \in Nat
  BY <1>6
<1>8. f[0][n] = n
  BY <1>3
<1>9. m # 0 => f[m][n] = 2 * f[m \div 2][n \div 2] + one[m][n]
  BY <1>1
<1>. QED  BY <1>7, <1>8, <1>9

\* Or and Xor, from the lowest bit upwards.
LEMMA OrSteps ==
    ASSUME NEW m \in Word, NEW n \in Word
    PROVE  /\ Or(m, n) \in Nat
           /\ Or(0, n) = n
           /\ m # 0 => Or(m, n) = 2 * Or(m \div 2, n \div 2)
                                  + (IF m % 2 = 1 \/ n % 2 = 1 THEN 1 ELSE 0)
<1>. DEFINE one == [a \in Word |-> [b \in Word |-> IF a % 2 = 1 \/ b % 2 = 1 THEN 1 ELSE 0]]
            Eq(f) == f = [a \in Word |-> [b \in Word |->
                        IF a = 0 THEN b
                        ELSE 2 * f[a \div 2][b \div 2] + (IF a % 2 = 1 \/ b % 2 = 1 THEN 1 ELSE 0)]]
            F == CHOOSE f : Eq(f)
<1>1. one \in [Word -> [Word -> 0 .. 1]]
  OBVIOUS
<1>2. \A f : Eq(f) <=> Bitwise(f, one)
  BY DEF Bitwise
<1>3. \A a, b : Or(a, b) = F[a][b]
  BY DEF Or
<1>. HIDE DEF Eq
<1>4. Bitwise(F, one)
  <2>1. \E f : Eq(f)
    <3>. HIDE DEF one
    <3>. QED  BY <1>1, <1>2, BitwiseExists
  <2>2. Eq(F)
    BY <2>1
  <2>. QED  BY <1>2, <2>2
<1>5. one[m][n] = IF m % 2 = 1 \/ n % 2 = 1 THEN 1 ELSE 0
  OBVIOUS
<1>. HIDE DEF F, one
<1>6. /\ F[m][n] \in Nat /\ F[0][n] = n
      /\ m # 0 => F[m][n] = 2 * F[m \div 2][n \div 2] + one[m][n]
  BY <1>1, <1>4, BitwiseValues
<1>. QED  BY <1>3, <1>5, <1>6

\* The same for exclusive or.
LEMMA XorSteps ==
    ASSUME NEW m \in Word, NEW n \in Word
    PROVE  /\ Xor(m, n) \in Nat
           /\ Xor(0, n) = n
           /\ m # 0 => Xor(m, n) = 2 * Xor(m \div 2, n \div 2) + ((m + n) % 2)
<1>. DEFINE one == [a \in Word |-> [b \in Word |-> (a + b) % 2]]
            Eq(f) == f = [a \in Word |-> [b \in Word |->
                        IF a = 0 THEN b ELSE 2 * f[a \div 2][b \div 2] + ((a + b) % 2)]]
            F == CHOOSE f : Eq(f)
<1>1. one \in [Word -> [Word -> 0 .. 1]]
  <2>1. ASSUME NEW a \in Word, NEW b \in Word
        PROVE  (a + b) % 2 \in 0 .. 1
    <3>1. a \in Nat /\ b \in Nat
      BY HalfOfWord
    <3>. QED  BY <3>1
  <2>. QED  BY <2>1
<1>2. \A f : Eq(f) <=> Bitwise(f, one)
  BY DEF Bitwise
<1>3. \A a, b : Xor(a, b) = F[a][b]
  BY DEF Xor
<1>. HIDE DEF Eq
<1>4. Bitwise(F, one)
  <2>1. \E f : Eq(f)
    <3>. HIDE DEF one
    <3>. QED  BY <1>1, <1>2, BitwiseExists
  <2>2. Eq(F)
    BY <2>1
  <2>. QED  BY <1>2, <2>2
<1>5. one[m][n] = (m + n) % 2
  OBVIOUS
<1>. HIDE DEF F, one
<1>6. /\ F[m][n] \in Nat /\ F[0][n] = n
      /\ m # 0 => F[m][n] = 2 * F[m \div 2][n \div 2] + one[m][n]
  BY <1>1, <1>4, BitwiseValues
<1>. QED  BY <1>3, <1>5, <1>6

-----------------------------------------------------------------------------
(* Or.                                                                     *)

\* Bytes and words are the numbers below 256 and 65536.
LEMMA WordIsNat ==
    /\ Word \subseteq Nat /\ 0 \in Word /\ Byte \subseteq Word
    /\ \A n \in Nat : n \in Word <=> n < 65536
    /\ \A n \in Nat : n \in Byte <=> n < 256
<1>1. \A n \in Nat : n \in Word <=> n < 65536
  BY DEF Word
<1>2. \A n \in Nat : n \in Byte <=> n < 256
  BY DEF Byte
<1>3. Word \subseteq Nat /\ Byte \subseteq Nat
  BY DEF Word, Byte
<1>. QED  BY <1>1, <1>2, <1>3

\* The number that has no bits adds none.
LEMMA OrFromZero ==
    ASSUME NEW m \in Word
    PROVE  Or(m, 0) = m
<1>. DEFINE S == {k \in Nat : \A a \in Word : a <= k => Or(a, 0) = a}
<1>1. 0 \in S
  <2>1. \A a \in Word : a <= 0 => a = 0
    BY WordIsNat
  <2>. QED  BY <2>1, OrSteps, WordIsNat
<1>2. ASSUME NEW k \in Nat, k \in S
      PROVE  k + 1 \in S
  <2>. SUFFICES ASSUME NEW a \in Word, a = k + 1
                PROVE  Or(a, 0) = a
    BY <1>2, WordIsNat
  <2>1. a \in Nat /\ a # 0 /\ a \div 2 <= k /\ a \div 2 \in Word /\ a % 2 \in 0 .. 1 /\ 0 \in Word
    BY HalfOfWord, WordIsNat
  <2>2. Or(a \div 2, 0) = a \div 2
    BY <1>2, <2>1
  <2>3. Or(a, 0) = 2 * Or(a \div 2, 0 \div 2) + (IF a % 2 = 1 \/ 0 % 2 = 1 THEN 1 ELSE 0)
    BY <2>1, OrSteps
  <2>4. 0 \div 2 = 0 /\ 0 % 2 = 0
    OBVIOUS
  <2>. QED  BY <2>1, <2>2, <2>3, <2>4
<1>. HIDE DEF S
<1>3. m \in S
  BY <1>1, <1>2, SetInduction, WordIsNat
<1>. QED  BY <1>3, WordIsNat DEF S

\* Bits of which the lowest is not set.
LEMMA OrEven ==
    ASSUME NEW m \in Word, NEW n \in Word, m % 2 = 0
    PROVE  Or(m, n) = 2 * Or(m \div 2, n \div 2) + (n % 2)
<1>1. n \in Nat /\ n \div 2 \in Word /\ n % 2 \in 0 .. 1
  BY HalfOfWord
<1>2. CASE m = 0
  <2>1. Or(m, n) = n /\ Or(m \div 2, n \div 2) = n \div 2
    BY <1>1, <1>2, OrSteps
  <2>. QED  BY <1>1, <2>1
<1>3. CASE m # 0
  <2>1. Or(m, n) = 2 * Or(m \div 2, n \div 2) + (IF m % 2 = 1 \/ n % 2 = 1 THEN 1 ELSE 0)
    BY <1>3, OrSteps
  <2>. QED  BY <1>1, <2>1
<1>. QED  BY <1>2, <1>3

\* Numbers that share no bits: the one is a multiple of p, the other is below p.
Apart(p) == \A c \in Nat, n \in Word : c * p \in Word /\ n < p => Or(c * p, n) = c * p + n

\* From one power of two to the next.
LEMMA ApartDoubles ==
    ASSUME NEW p \in Nat, Apart(p)
    PROVE  Apart(2 * p)
<1>. SUFFICES ASSUME NEW c \in Nat, NEW n \in Word, c * (2 * p) \in Word, n < 2 * p
              PROVE  Or(c * (2 * p), n) = c * (2 * p) + n
  BY DEF Apart
<1>. DEFINE q == c * p
            h == n \div 2
            r == n % 2
<1>1. q \in Nat /\ c * (2 * p) = 2 * q
  OBVIOUS
<1>2. n \in Nat /\ h \in Word
  BY HalfOfWord
<1>3. h \in Nat /\ h < p /\ r \in Nat /\ n = 2 * h + r
  BY <1>2
<1>. HIDE DEF q
<1>4. 2 * q \in Word /\ (2 * q) % 2 = 0 /\ (2 * q) \div 2 = q
  BY <1>1
<1>5. q \in Word
  BY <1>4, HalfOfWord
<1>6. Or(q, h) = q + h
  BY <1>2, <1>3, <1>5 DEF Apart, q
<1>7. Or(2 * q, n) = 2 * Or(q, h) + r
  BY <1>4, OrEven
<1>. HIDE DEF h, r
<1>. QED  BY <1>1, <1>3, <1>6, <1>7

\* The powers of two the shifts of the code reach.
LEMMA ApartPowers == Apart(2) /\ Apart(4) /\ Apart(8) /\ Apart(16) /\ Apart(32) /\ Apart(64)
                         /\ Apart(128) /\ Apart(256)
<1>0. Apart(1)
  <2>. SUFFICES ASSUME NEW c \in Nat, NEW n \in Word, c * 1 \in Word, n < 1
                PROVE  Or(c * 1, n) = c * 1 + n
    BY DEF Apart
  <2>1. n = 0 /\ c * 1 = c
    BY WordIsNat
  <2>. QED  BY <2>1, OrFromZero
<1>1. Apart(2)
  BY <1>0, ApartDoubles
<1>2. Apart(4)
  BY <1>1, ApartDoubles
<1>3. Apart(8)
  BY <1>2, ApartDoubles
<1>4. Apart(16)
  BY <1>3, ApartDoubles
<1>5. Apart(32)
  BY <1>4, ApartDoubles
<1>6. Apart(64)
  BY <1>5, ApartDoubles
<1>7. Apart(128)
  BY <1>6, ApartDoubles
<1>8. Apart(256)
  BY <1>7, ApartDoubles
<1>. QED  BY <1>1, <1>2, <1>3, <1>4, <1>5, <1>6, <1>7, <1>8

\* The or of numbers that share no bits is their sum: the only way encode and decode use it.
LEMMA OrAdds ==
    ASSUME NEW m \in Word, NEW n \in Word
    PROVE  /\ m % 2 = 0 /\ n < 2 => Or(m, n) = m + n
           /\ m % 4 = 0 /\ n < 4 => Or(m, n) = m + n
           /\ m % 8 = 0 /\ n < 8 => Or(m, n) = m + n
           /\ m % 16 = 0 /\ n < 16 => Or(m, n) = m + n
           /\ m % 32 = 0 /\ n < 32 => Or(m, n) = m + n
           /\ m % 64 = 0 /\ n < 64 => Or(m, n) = m + n
           /\ m % 128 = 0 /\ n < 128 => Or(m, n) = m + n
           /\ m % 256 = 0 /\ n < 256 => Or(m, n) = m + n
<1>1. ASSUME NEW p \in {2, 4, 8, 16, 32, 64, 128, 256}, m % p = 0, n < p
      PROVE  Or(m, n) = m + n
  <2>. DEFINE c == m \div p
  <2>1. m \in Nat
    BY WordIsNat
  <2>2. c \in Nat /\ c * p = m
    BY <1>1, <2>1
  <2>. HIDE DEF c
  <2>3. Apart(p)
    BY ApartPowers
  <2>. QED  BY <1>1, <2>2, <2>3 DEF Apart
<1>. QED  BY <1>1

\* A byte is a number below 256.
LEMMA ByteIsNat ==
    ASSUME NEW n \in Byte
    PROVE  n \in Nat /\ n < 256 /\ n \in Word
<1>1. n \in Nat
  BY WordIsNat
<1>. QED  BY <1>1, WordIsNat

\* A number below 256 is a byte.
LEMMA NatIsByte ==
    ASSUME NEW n \in Nat, n < 256
    PROVE  n \in Byte /\ n \in Word
BY WordIsNat

\* A loop: the state after i rounds.
Loop(X, x, n, g) == x \in X /\ n \in Nat /\ g \in [1 .. n -> [X -> X]]

Run(f, X, x, n, g) ==
    f \in [0 .. n -> X] /\ f[0] = x /\ \A i \in 1 .. n : f[i] = g[i][f[i - 1]]

\* Every loop over a bounded index has its states.
LEMMA LoopRuns ==
    ASSUME NEW X, NEW x, NEW n, NEW g, Loop(X, x, n, g)
    PROVE  \E f : Run(f, X, x, n, g)
<1>. DEFINE prev == [i \in 1 .. n |-> i - 1]
<1>1. Recursion(X, x, n, g, prev)
  BY DEF Loop, Recursion
<1>2. PICK f : Solves(f, X, x, n, g, prev)
  BY <1>1, RecursionExists
<1>3. f \in [0 .. n -> X] /\ f[0] = x /\ \A i \in 1 .. n : f[i] = g[i][f[i - 1]]
  BY <1>2 DEF Solves
<1>. QED  BY <1>3 DEF Run

-----------------------------------------------------------------------------
(* base32::encode.                                                         *)

Letters == {ALPHABET[v] : v \in 0 .. 31}

EncodeStates == [buffer : Seq(Letters), shift : 3 .. 8, carry : Byte]

\* The shifts to the right that the code uses, as divisions.
LEMMA ShiftRights ==
    ASSUME NEW n \in Nat
    PROVE  /\ ShiftRight(n, 1) = n \div 2 /\ ShiftRight(n, 2) = n \div 4
           /\ ShiftRight(n, 3) = n \div 8 /\ ShiftRight(n, 4) = n \div 16
           /\ ShiftRight(n, 5) = n \div 32 /\ ShiftRight(n, 6) = n \div 64
           /\ ShiftRight(n, 7) = n \div 128 /\ ShiftRight(n, 8) = n \div 256
           /\ ShiftRight(n, 0) = n
BY DEF ShiftRight

\* The shifts of a byte to the left: what leaves the byte is lost.
LEMMA ShiftLefts ==
    ASSUME NEW n \in Nat
    PROVE  /\ ShiftLeft(8, n, 0) = n % 256 /\ ShiftLeft(8, n, 1) = (2 * n) % 256
           /\ ShiftLeft(8, n, 2) = (4 * n) % 256 /\ ShiftLeft(8, n, 3) = (8 * n) % 256
           /\ ShiftLeft(8, n, 4) = (16 * n) % 256 /\ ShiftLeft(8, n, 5) = (32 * n) % 256
           /\ ShiftLeft(8, n, 6) = (64 * n) % 256 /\ ShiftLeft(8, n, 7) = (128 * n) % 256
BY DEF ShiftLeft

\* encode writes letters of the alphabet only.
LEMMA LetterType == ASSUME NEW v \in Nat PROVE Letter(v) \in Letters
<1>1. v % 32 \in 0 .. 31
  OBVIOUS
<1>. QED  BY <1>1 DEF Letter, Letters

\* One round of encode keeps shift between 3 and 8, and carry a byte.
LEMMA EncodeByteType ==
    ASSUME NEW s \in EncodeStates, NEW byte \in Byte
    PROVE  EncodeByte(s, byte) \in EncodeStates
<1>. DEFINE left == IF s.shift > 5 THEN s.shift - 5 ELSE s.shift
            first == IF s.shift = 8 THEN s.carry ELSE Or(s.carry, ShiftRight(byte, s.shift))
            more == IF s.shift > 5 THEN <<Letter(ShiftRight(byte, left))>> ELSE <<>>
<1>1. s.buffer \in Seq(Letters) /\ s.shift \in 3 .. 8 /\ s.carry \in Byte
  BY DEF EncodeStates
<1>2. left \in 1 .. 5 /\ 8 - (5 - left) \in 3 .. 8 /\ 5 - left \in 0 .. 4
  BY <1>1
<1>3. byte \in Nat /\ byte < 256 /\ s.carry \in Word
  BY <1>1, ByteIsNat
<1>4. ASSUME NEW k \in 1 .. 8
      PROVE  ShiftRight(byte, k) \in Nat /\ ShiftRight(byte, k) < 256
  <2>1. k = 1 \/ k = 2 \/ k = 3 \/ k = 4 \/ k = 5 \/ k = 6 \/ k = 7 \/ k = 8
    OBVIOUS
  <2>2. /\ ShiftRight(byte, 1) = byte \div 2 /\ ShiftRight(byte, 2) = byte \div 4
        /\ ShiftRight(byte, 3) = byte \div 8 /\ ShiftRight(byte, 4) = byte \div 16
        /\ ShiftRight(byte, 5) = byte \div 32 /\ ShiftRight(byte, 6) = byte \div 64
        /\ ShiftRight(byte, 7) = byte \div 128 /\ ShiftRight(byte, 8) = byte \div 256
    BY <1>3, ShiftRights
  <2>. QED  BY <1>3, <2>1, <2>2
<1>5. first \in Nat
  <2>0. s.shift \in 1 .. 8
    BY <1>1
  <2>1. ShiftRight(byte, s.shift) \in Word
    <3>1. ShiftRight(byte, s.shift) \in Nat /\ ShiftRight(byte, s.shift) < 256
      BY <1>4, <2>0
    <3>. QED  BY <3>1, WordIsNat
  <2>2. Or(s.carry, ShiftRight(byte, s.shift)) \in Nat
    BY <1>3, <2>1, OrSteps
  <2>3. s.carry \in Nat
    BY <1>1, ByteIsNat
  <2>. QED  BY <2>2, <2>3
<1>6. ShiftLeft(8, byte, 5 - left) \in Byte
  <2>1. ASSUME NEW k \in 0 .. 4
        PROVE  ShiftLeft(8, byte, k) \in Nat /\ ShiftLeft(8, byte, k) < 256
    <3>1. k = 0 \/ k = 1 \/ k = 2 \/ k = 3 \/ k = 4
      OBVIOUS
    <3>. QED  BY <1>3, <3>1, ShiftLefts
  <2>. HIDE DEF left
  <2>. QED  BY <1>2, <2>1, WordIsNat
<1>7. ShiftRight(byte, left) \in Nat
  BY <1>2, <1>4
<1>8. Letter(first) \in Letters /\ Letter(ShiftRight(byte, left)) \in Letters
  <2>. HIDE DEF left, first
  <2>. QED  BY <1>5, <1>7, LetterType
<1>9. s.buffer \o <<Letter(first)>> \o more \in Seq(Letters)
  <2>. HIDE DEF left, first
  <2>. QED  BY <1>1, <1>8
<1>10. EncodeByte(s, byte) = [ buffer |-> s.buffer \o <<Letter(first)>> \o more,
                               shift |-> 8 - (5 - left), carry |-> ShiftLeft(8, byte, 5 - left) ]
  BY DEF EncodeByte
<1>. HIDE DEF left, first, more
<1>. QED  BY <1>2, <1>6, <1>9, <1>10 DEF EncodeStates

\* EncodeLoop is the loop: its first state, and one round per byte.
LEMMA EncodeRuns ==
    ASSUME NEW b \in Seq(Byte)
    PROVE  /\ EncodeLoop(b)[0] = [buffer |-> <<>>, shift |-> 3, carry |-> 0]
           /\ \A i \in 1 .. Len(b) : EncodeLoop(b)[i] = EncodeByte(EncodeLoop(b)[i - 1], b[i])
<1>. DEFINE n == Len(b)
            x == [buffer |-> <<>>, shift |-> 3, carry |-> 0]
            X == EncodeStates
            g == [i \in 1 .. n |-> [s \in X |-> EncodeByte(s, b[i])]]
            Eq(f) == f = [i \in 0 .. n |-> IF i = 0 THEN x ELSE EncodeByte(f[i - 1], b[i])]
            F == CHOOSE f : Eq(f)
<1>1. n \in Nat /\ \A i \in 1 .. n : b[i] \in Byte
  OBVIOUS
<1>2. x \in X
  BY WordIsNat DEF EncodeStates
<1>3. g \in [1 .. n -> [X -> X]]
  <2>. HIDE DEF X, n
  <2>. QED  BY <1>1, EncodeByteType DEF X
<1>4. PICK f : Run(f, X, x, n, g)
  <2>. HIDE DEF X, x, g, n
  <2>. QED  BY <1>1, <1>2, <1>3, LoopRuns DEF Loop
<1>5. Eq(f)
  <2>. HIDE DEF X, x, n
  <2>1. ASSUME NEW i \in 0 .. n, i # 0
        PROVE  g[i][f[i - 1]] = EncodeByte(f[i - 1], b[i])
    <3>1. i \in 1 .. n /\ i - 1 \in 0 .. n
      BY <1>1, <2>1
    <3>2. f[i - 1] \in X
      BY <1>4, <3>1 DEF Run
    <3>. QED  BY <3>1, <3>2
  <2>. HIDE DEF g
  <2>2. ASSUME NEW i \in 0 .. n
        PROVE  f[i] = IF i = 0 THEN x ELSE EncodeByte(f[i - 1], b[i])
    <3>1. CASE i = 0
      BY <1>4, <3>1 DEF Run
    <3>2. CASE i # 0
      <4>1. i \in 1 .. n
        BY <1>1, <3>2
      <4>2. f[i] = g[i][f[i - 1]]
        BY <1>4, <4>1 DEF Run
      <4>. QED  BY <2>1, <3>2, <4>2
    <3>. QED  BY <3>1, <3>2
  <2>. QED  BY <1>4, <2>2 DEF Run
<1>6. EncodeLoop(b) = F
  BY DEF EncodeLoop
<1>7. Eq(F)
  <2>. HIDE DEF Eq
  <2>. QED  BY <1>5
<1>. HIDE DEF F, x, n
<1>8. F[0] = x /\ \A i \in 1 .. n : F[i] = EncodeByte(F[i - 1], b[i])
  BY <1>1, <1>7
<1>. QED  BY <1>6, <1>8 DEF x, n

-----------------------------------------------------------------------------
(* The reference: groups of five bits by the bytes they are in.            *)

\* The bytes, followed by zeros.
ByteAt(b, k) == IF k \in 1 .. Len(b) THEN b[k] ELSE 0

\* Bytes followed by zeros are bytes.
LEMMA ByteAtType ==
    ASSUME NEW b \in Seq(Byte), NEW k \in Nat
    PROVE  ByteAt(b, k) \in Byte /\ ByteAt(b, k) \in Nat /\ ByteAt(b, k) < 256
<1>1. 0 \in Byte
  BY NatIsByte
<1>2. ByteAt(b, k) \in Byte
  BY <1>1 DEF ByteAt
<1>. QED  BY <1>2, ByteIsNat

\* Bit r of byte j, counted from zero and from the highest bit.
LEMMA BitAt ==
    ASSUME NEW b \in Seq(Byte), NEW j \in Nat, NEW x, x = ByteAt(b, j + 1)
    PROVE  /\ Bit(b, 8 * j) = (x \div 128) % 2
           /\ Bit(b, 8 * j + 1) = (x \div 64) % 2
           /\ Bit(b, 8 * j + 2) = (x \div 32) % 2
           /\ Bit(b, 8 * j + 3) = (x \div 16) % 2
           /\ Bit(b, 8 * j + 4) = (x \div 8) % 2
           /\ Bit(b, 8 * j + 5) = (x \div 4) % 2
           /\ Bit(b, 8 * j + 6) = (x \div 2) % 2
           /\ Bit(b, 8 * j + 7) = x % 2
<1>1. x \in Nat
  BY ByteAtType
<1>2. ASSUME NEW r \in 0 .. 7
      PROVE  Bit(b, 8 * j + r) = ShiftRight(x, 7 - r) % 2
  <2>. DEFINE i == 8 * j + r
  <2>1. i \div 8 = j /\ i % 8 = r /\ i \in Nat
    OBVIOUS
  <2>2. i < 8 * Len(b) <=> j + 1 \in 1 .. Len(b)
    OBVIOUS
  <2>3. Bit(b, i) = IF i < 8 * Len(b) THEN ShiftRight(b[(i \div 8) + 1], 7 - (i % 8)) % 2 ELSE 0
    BY DEF Bit
  <2>. HIDE DEF i
  <2>4. CASE j + 1 \in 1 .. Len(b)
    BY <2>1, <2>2, <2>3, <2>4 DEF ByteAt
  <2>5. CASE ~(j + 1 \in 1 .. Len(b))
    <3>1. x = 0 /\ Bit(b, i) = 0
      BY <2>2, <2>3, <2>5 DEF ByteAt
    <3>2. /\ ShiftRight(0, 0) = 0 /\ ShiftRight(0, 1) = 0 /\ ShiftRight(0, 2) = 0
          /\ ShiftRight(0, 3) = 0 /\ ShiftRight(0, 4) = 0 /\ ShiftRight(0, 5) = 0
          /\ ShiftRight(0, 6) = 0 /\ ShiftRight(0, 7) = 0
      BY ShiftRights
    <3>3. 7 - r \in {0, 1, 2, 3, 4, 5, 6, 7}
      OBVIOUS
    <3>4. ShiftRight(0, 7 - r) = 0
      BY <3>2, <3>3
    <3>. QED  BY <3>1, <3>4 DEF i
  <2>. QED  BY <2>4, <2>5 DEF i
<1>3. /\ Bit(b, 8 * j) = ShiftRight(x, 7) % 2
      /\ Bit(b, 8 * j + 1) = ShiftRight(x, 6) % 2
      /\ Bit(b, 8 * j + 2) = ShiftRight(x, 5) % 2
      /\ Bit(b, 8 * j + 3) = ShiftRight(x, 4) % 2
      /\ Bit(b, 8 * j + 4) = ShiftRight(x, 3) % 2
      /\ Bit(b, 8 * j + 5) = ShiftRight(x, 2) % 2
      /\ Bit(b, 8 * j + 6) = ShiftRight(x, 1) % 2
      /\ Bit(b, 8 * j + 7) = ShiftRight(x, 0) % 2
  BY <1>2
<1>. QED  BY <1>1, <1>3, ShiftRights

\* The five bits from bit 0 of a byte x.
LEMMA GroupFromZero ==
    ASSUME NEW x \in Nat, x < 256
    PROVE  16 * ((x \div 128) % 2) + 8 * ((x \div 64) % 2) + 4 * ((x \div 32) % 2)
               + 2 * ((x \div 16) % 2) + ((x \div 8) % 2) = x \div 8
OBVIOUS

\* The five bits from bit 1 of a byte x.
LEMMA GroupFromOne ==
    ASSUME NEW x \in Nat, x < 256
    PROVE  16 * ((x \div 64) % 2) + 8 * ((x \div 32) % 2) + 4 * ((x \div 16) % 2)
               + 2 * ((x \div 8) % 2) + ((x \div 4) % 2) = (x \div 4) % 32
OBVIOUS

\* The five bits from bit 2 of a byte x.
LEMMA GroupFromTwo ==
    ASSUME NEW x \in Nat, x < 256
    PROVE  16 * ((x \div 32) % 2) + 8 * ((x \div 16) % 2) + 4 * ((x \div 8) % 2)
               + 2 * ((x \div 4) % 2) + ((x \div 2) % 2) = (x \div 2) % 32
OBVIOUS

\* The five bits from bit 3 of a byte x.
LEMMA GroupFromThree ==
    ASSUME NEW x \in Nat, x < 256
    PROVE  16 * ((x \div 16) % 2) + 8 * ((x \div 8) % 2) + 4 * ((x \div 4) % 2)
               + 2 * ((x \div 2) % 2) + (x % 2) = x % 32
OBVIOUS

\* The five bits from bit 4 of a byte x, with the first of the byte y after it.
GroupFromFour(x, y) == 16 * ((x \div 8) % 2) + 8 * ((x \div 4) % 2) + 4 * ((x \div 2) % 2)
                       + 2 * (x % 2) + ((y \div 128) % 2)

\* Their value.
LEMMA FromFourIs ==
    ASSUME NEW x \in Nat, x < 256, NEW y \in Nat, y < 256
    PROVE  GroupFromFour(x, y) = 2 * (x % 16) + y \div 128
BY DEF GroupFromFour

\* The five bits from bit 5 of a byte x, with the first of the byte y after it.
GroupFromFive(x, y) == 16 * ((x \div 4) % 2) + 8 * ((x \div 2) % 2) + 4 * (x % 2)
                       + 2 * ((y \div 128) % 2) + ((y \div 64) % 2)

\* Their value.
LEMMA FromFiveIs ==
    ASSUME NEW x \in Nat, x < 256, NEW y \in Nat, y < 256
    PROVE  GroupFromFive(x, y) = 4 * (x % 8) + y \div 64
BY DEF GroupFromFive

\* The five bits from bit 6 of a byte x, with the first of the byte y after it.
GroupFromSix(x, y) == 16 * ((x \div 2) % 2) + 8 * (x % 2) + 4 * ((y \div 128) % 2)
                      + 2 * ((y \div 64) % 2) + ((y \div 32) % 2)

\* Their value.
LEMMA FromSixIs ==
    ASSUME NEW x \in Nat, x < 256, NEW y \in Nat, y < 256
    PROVE  GroupFromSix(x, y) = 8 * (x % 4) + y \div 32
BY DEF GroupFromSix

\* The five bits from bit 7 of a byte x, with the first of the byte y after it.
GroupFromSeven(x, y) == 16 * (x % 2) + 8 * ((y \div 128) % 2) + 4 * ((y \div 64) % 2)
                        + 2 * ((y \div 32) % 2) + ((y \div 16) % 2)

\* Their value.
LEMMA FromSevenIs ==
    ASSUME NEW x \in Nat, x < 256, NEW y \in Nat, y < 256
    PROVE  GroupFromSeven(x, y) = 16 * (x % 2) + y \div 16
BY DEF GroupFromSeven

\* A group by the number of its first bit.
LEMMA GroupSum ==
    ASSUME NEW b, NEW g \in Nat, NEW e \in Nat, 5 * g = e
    PROVE  Group(b, g) = 16 * Bit(b, e) + 8 * Bit(b, e + 1) + 4 * Bit(b, e + 2)
                          + 2 * Bit(b, e + 3) + Bit(b, e + 4)
BY DEF Group

\* A group by the byte it begins in and the next, for each bit it may begin at.
LEMMA GroupAt ==
    ASSUME NEW b \in Seq(Byte), NEW g \in Nat, NEW j \in Nat,
           NEW x, x = ByteAt(b, j + 1), NEW y, y = ByteAt(b, j + 2)
    PROVE  /\ 5 * g = 8 * j => Group(b, g) = x \div 8
           /\ 5 * g = 8 * j + 1 => Group(b, g) = (x \div 4) % 32
           /\ 5 * g = 8 * j + 2 => Group(b, g) = (x \div 2) % 32
           /\ 5 * g = 8 * j + 3 => Group(b, g) = x % 32
           /\ 5 * g = 8 * j + 4 => Group(b, g) = 2 * (x % 16) + y \div 128
           /\ 5 * g = 8 * j + 5 => Group(b, g) = 4 * (x % 8) + y \div 64
           /\ 5 * g = 8 * j + 6 => Group(b, g) = 8 * (x % 4) + y \div 32
           /\ 5 * g = 8 * j + 7 => Group(b, g) = 16 * (x % 2) + y \div 16
<1>1. x \in Nat /\ x < 256 /\ y \in Nat /\ y < 256
  BY ByteAtType
<1>2. /\ Bit(b, 8 * j) = (x \div 128) % 2
      /\ Bit(b, 8 * j + 1) = (x \div 64) % 2
      /\ Bit(b, 8 * j + 2) = (x \div 32) % 2
      /\ Bit(b, 8 * j + 3) = (x \div 16) % 2
      /\ Bit(b, 8 * j + 4) = (x \div 8) % 2
      /\ Bit(b, 8 * j + 5) = (x \div 4) % 2
      /\ Bit(b, 8 * j + 6) = (x \div 2) % 2
      /\ Bit(b, 8 * j + 7) = x % 2
  BY BitAt
<1>3. /\ Bit(b, 8 * j + 8) = (y \div 128) % 2
      /\ Bit(b, 8 * j + 9) = (y \div 64) % 2
      /\ Bit(b, 8 * j + 10) = (y \div 32) % 2
      /\ Bit(b, 8 * j + 11) = (y \div 16) % 2
  <2>. DEFINE k == j + 1
  <2>1. k \in Nat /\ k + 1 = j + 2
    OBVIOUS
  <2>2. /\ 8 * k = 8 * j + 8
        /\ 8 * k + 1 = 8 * j + 9
        /\ 8 * k + 2 = 8 * j + 10
        /\ 8 * k + 3 = 8 * j + 11
    OBVIOUS
  <2>. HIDE DEF k
  <2>3. y = ByteAt(b, k + 1)
    BY <2>1
  <2>4. /\ Bit(b, 8 * k) = (y \div 128) % 2
        /\ Bit(b, 8 * k + 1) = (y \div 64) % 2
        /\ Bit(b, 8 * k + 2) = (y \div 32) % 2
        /\ Bit(b, 8 * k + 3) = (y \div 16) % 2
    BY <2>1, <2>3, BitAt
  <2>. QED  BY <2>2, <2>4
<1>4. ASSUME 5 * g = 8 * j
      PROVE  Group(b, g) = x \div 8
  <2>. DEFINE e == 8 * j
  <2>1. /\ e = 8 * j
        /\ e + 1 = 8 * j + 1
        /\ e + 2 = 8 * j + 2
        /\ e + 3 = 8 * j + 3
        /\ e + 4 = 8 * j + 4
        /\ e \in Nat
    OBVIOUS
  <2>. HIDE DEF e
  <2>2. Group(b, g) = 16 * Bit(b, e) + 8 * Bit(b, e + 1) + 4 * Bit(b, e + 2)
                       + 2 * Bit(b, e + 3) + Bit(b, e + 4)
    BY <1>4, <2>1, GroupSum
  <2>3. Group(b, g) = 16 * ((x \div 128) % 2) + 8 * ((x \div 64) % 2) + 4 * ((x \div 32) % 2)
            + 2 * ((x \div 16) % 2) + ((x \div 8) % 2)
    BY <1>2, <1>3, <2>1, <2>2
  <2>4. 16 * ((x \div 128) % 2) + 8 * ((x \div 64) % 2) + 4 * ((x \div 32) % 2)
            + 2 * ((x \div 16) % 2) + ((x \div 8) % 2)
            = x \div 8
    BY <1>1, GroupFromZero
  <2>. QED  BY <2>3, <2>4
<1>5. ASSUME 5 * g = 8 * j + 1
      PROVE  Group(b, g) = (x \div 4) % 32
  <2>. DEFINE e == 8 * j + 1
  <2>1. /\ e = 8 * j + 1
        /\ e + 1 = 8 * j + 2
        /\ e + 2 = 8 * j + 3
        /\ e + 3 = 8 * j + 4
        /\ e + 4 = 8 * j + 5
        /\ e \in Nat
    OBVIOUS
  <2>. HIDE DEF e
  <2>2. Group(b, g) = 16 * Bit(b, e) + 8 * Bit(b, e + 1) + 4 * Bit(b, e + 2)
                       + 2 * Bit(b, e + 3) + Bit(b, e + 4)
    BY <1>5, <2>1, GroupSum
  <2>3. Group(b, g) = 16 * ((x \div 64) % 2) + 8 * ((x \div 32) % 2) + 4 * ((x \div 16) % 2)
            + 2 * ((x \div 8) % 2) + ((x \div 4) % 2)
    BY <1>2, <1>3, <2>1, <2>2
  <2>4. 16 * ((x \div 64) % 2) + 8 * ((x \div 32) % 2) + 4 * ((x \div 16) % 2)
            + 2 * ((x \div 8) % 2) + ((x \div 4) % 2)
            = (x \div 4) % 32
    BY <1>1, GroupFromOne
  <2>. QED  BY <2>3, <2>4
<1>6. ASSUME 5 * g = 8 * j + 2
      PROVE  Group(b, g) = (x \div 2) % 32
  <2>. DEFINE e == 8 * j + 2
  <2>1. /\ e = 8 * j + 2
        /\ e + 1 = 8 * j + 3
        /\ e + 2 = 8 * j + 4
        /\ e + 3 = 8 * j + 5
        /\ e + 4 = 8 * j + 6
        /\ e \in Nat
    OBVIOUS
  <2>. HIDE DEF e
  <2>2. Group(b, g) = 16 * Bit(b, e) + 8 * Bit(b, e + 1) + 4 * Bit(b, e + 2)
                       + 2 * Bit(b, e + 3) + Bit(b, e + 4)
    BY <1>6, <2>1, GroupSum
  <2>3. Group(b, g) = 16 * ((x \div 32) % 2) + 8 * ((x \div 16) % 2) + 4 * ((x \div 8) % 2)
            + 2 * ((x \div 4) % 2) + ((x \div 2) % 2)
    BY <1>2, <1>3, <2>1, <2>2
  <2>4. 16 * ((x \div 32) % 2) + 8 * ((x \div 16) % 2) + 4 * ((x \div 8) % 2)
            + 2 * ((x \div 4) % 2) + ((x \div 2) % 2)
            = (x \div 2) % 32
    BY <1>1, GroupFromTwo
  <2>. QED  BY <2>3, <2>4
<1>7. ASSUME 5 * g = 8 * j + 3
      PROVE  Group(b, g) = x % 32
  <2>. DEFINE e == 8 * j + 3
  <2>1. /\ e = 8 * j + 3
        /\ e + 1 = 8 * j + 4
        /\ e + 2 = 8 * j + 5
        /\ e + 3 = 8 * j + 6
        /\ e + 4 = 8 * j + 7
        /\ e \in Nat
    OBVIOUS
  <2>. HIDE DEF e
  <2>2. Group(b, g) = 16 * Bit(b, e) + 8 * Bit(b, e + 1) + 4 * Bit(b, e + 2)
                       + 2 * Bit(b, e + 3) + Bit(b, e + 4)
    BY <1>7, <2>1, GroupSum
  <2>3. Group(b, g) = 16 * ((x \div 16) % 2) + 8 * ((x \div 8) % 2) + 4 * ((x \div 4) % 2)
            + 2 * ((x \div 2) % 2) + (x % 2)
    BY <1>2, <1>3, <2>1, <2>2
  <2>4. 16 * ((x \div 16) % 2) + 8 * ((x \div 8) % 2) + 4 * ((x \div 4) % 2)
            + 2 * ((x \div 2) % 2) + (x % 2)
            = x % 32
    BY <1>1, GroupFromThree
  <2>. QED  BY <2>3, <2>4
<1>8. ASSUME 5 * g = 8 * j + 4
      PROVE  Group(b, g) = 2 * (x % 16) + y \div 128
  <2>. DEFINE e == 8 * j + 4
  <2>1. /\ e = 8 * j + 4
        /\ e + 1 = 8 * j + 5
        /\ e + 2 = 8 * j + 6
        /\ e + 3 = 8 * j + 7
        /\ e + 4 = 8 * j + 8
        /\ e \in Nat
    OBVIOUS
  <2>. HIDE DEF e
  <2>2. Group(b, g) = 16 * Bit(b, e) + 8 * Bit(b, e + 1) + 4 * Bit(b, e + 2)
                       + 2 * Bit(b, e + 3) + Bit(b, e + 4)
    BY <1>8, <2>1, GroupSum
  <2>3. Group(b, g) = GroupFromFour(x, y)
    BY <1>2, <1>3, <2>1, <2>2 DEF GroupFromFour
  <2>4. GroupFromFour(x, y) = 2 * (x % 16) + y \div 128
    BY <1>1, FromFourIs
  <2>. QED  BY <2>3, <2>4
<1>9. ASSUME 5 * g = 8 * j + 5
      PROVE  Group(b, g) = 4 * (x % 8) + y \div 64
  <2>. DEFINE e == 8 * j + 5
  <2>1. /\ e = 8 * j + 5
        /\ e + 1 = 8 * j + 6
        /\ e + 2 = 8 * j + 7
        /\ e + 3 = 8 * j + 8
        /\ e + 4 = 8 * j + 9
        /\ e \in Nat
    OBVIOUS
  <2>. HIDE DEF e
  <2>2. Group(b, g) = 16 * Bit(b, e) + 8 * Bit(b, e + 1) + 4 * Bit(b, e + 2)
                       + 2 * Bit(b, e + 3) + Bit(b, e + 4)
    BY <1>9, <2>1, GroupSum
  <2>3. Group(b, g) = GroupFromFive(x, y)
    BY <1>2, <1>3, <2>1, <2>2 DEF GroupFromFive
  <2>4. GroupFromFive(x, y) = 4 * (x % 8) + y \div 64
    BY <1>1, FromFiveIs
  <2>. QED  BY <2>3, <2>4
<1>10. ASSUME 5 * g = 8 * j + 6
      PROVE  Group(b, g) = 8 * (x % 4) + y \div 32
  <2>. DEFINE e == 8 * j + 6
  <2>1. /\ e = 8 * j + 6
        /\ e + 1 = 8 * j + 7
        /\ e + 2 = 8 * j + 8
        /\ e + 3 = 8 * j + 9
        /\ e + 4 = 8 * j + 10
        /\ e \in Nat
    OBVIOUS
  <2>. HIDE DEF e
  <2>2. Group(b, g) = 16 * Bit(b, e) + 8 * Bit(b, e + 1) + 4 * Bit(b, e + 2)
                       + 2 * Bit(b, e + 3) + Bit(b, e + 4)
    BY <1>10, <2>1, GroupSum
  <2>3. Group(b, g) = GroupFromSix(x, y)
    BY <1>2, <1>3, <2>1, <2>2 DEF GroupFromSix
  <2>4. GroupFromSix(x, y) = 8 * (x % 4) + y \div 32
    BY <1>1, FromSixIs
  <2>. QED  BY <2>3, <2>4
<1>11. ASSUME 5 * g = 8 * j + 7
      PROVE  Group(b, g) = 16 * (x % 2) + y \div 16
  <2>. DEFINE e == 8 * j + 7
  <2>1. /\ e = 8 * j + 7
        /\ e + 1 = 8 * j + 8
        /\ e + 2 = 8 * j + 9
        /\ e + 3 = 8 * j + 10
        /\ e + 4 = 8 * j + 11
        /\ e \in Nat
    OBVIOUS
  <2>. HIDE DEF e
  <2>2. Group(b, g) = 16 * Bit(b, e) + 8 * Bit(b, e + 1) + 4 * Bit(b, e + 2)
                       + 2 * Bit(b, e + 3) + Bit(b, e + 4)
    BY <1>11, <2>1, GroupSum
  <2>3. Group(b, g) = GroupFromSeven(x, y)
    BY <1>2, <1>3, <2>1, <2>2 DEF GroupFromSeven
  <2>4. GroupFromSeven(x, y) = 16 * (x % 2) + y \div 16
    BY <1>1, FromSevenIs
  <2>. QED  BY <2>3, <2>4
<1>. QED  BY <1>4, <1>5, <1>6, <1>7, <1>8, <1>9, <1>10, <1>11

-----------------------------------------------------------------------------
(* One round of base32::encode, for each value of shift.                   *)

\* The first m letters of the reference.
FirstLetters(b, m) == [g \in 1 .. m |-> ALPHABET[Group(b, g - 1)]]

\* One more letter of the reference.
LEMMA FirstLettersGrow ==
    ASSUME NEW b, NEW m \in Nat
    PROVE  /\ FirstLetters(b, 0) = <<>>
           /\ FirstLetters(b, m + 1) = Append(FirstLetters(b, m), ALPHABET[Group(b, m)])
           /\ FirstLetters(b, m + 1) = FirstLetters(b, m) \o <<ALPHABET[Group(b, m)]>>
<1>. DEFINE A(k) == ALPHABET[Group(b, k)]
            S == {A(k) : k \in Nat}
            s == [g \in 1 .. m |-> A(g - 1)]
            t == [g \in 1 .. m + 1 |-> A(g - 1)]
            u == [g \in 1 .. 0 |-> A(g - 1)]
<1>. HIDE DEF A
<1>1. s \in Seq(S) /\ t \in Seq(S) /\ u \in Seq(S)
  OBVIOUS
<1>2. Len(s) = m /\ Len(t) = m + 1 /\ Len(u) = 0
  OBVIOUS
<1>3. A(m) \in S
  OBVIOUS
<1>4. u = <<>>
  BY <1>1, <1>2
<1>5. t = Append(s, A(m))
  OBVIOUS
<1>6. t = s \o <<A(m)>>
  OBVIOUS
<1>7. FirstLetters(b, 0) = u /\ FirstLetters(b, m) = s /\ FirstLetters(b, m + 1) = t
  BY DEF FirstLetters, A
<1>8. A(m) = ALPHABET[Group(b, m)]
  BY DEF A
<1>. HIDE DEF s, t, u
<1>. QED  BY <1>4, <1>5, <1>6, <1>7, <1>8

\* Two more letters of the reference: bytes with two groups in them.
LEMMA FirstLettersGrowTwo ==
    ASSUME NEW b, NEW m \in Nat
    PROVE  FirstLetters(b, m + 2) = FirstLetters(b, m) \o <<ALPHABET[Group(b, m)]>>
               \o <<ALPHABET[Group(b, m + 1)]>>
<1>1. m + 1 \in Nat /\ (m + 1) + 1 = m + 2
  OBVIOUS
<1>. QED  BY <1>1, FirstLettersGrow

\* The state of the loop as a record.
State(buffer, shift, carry) == [buffer |-> buffer, shift |-> shift, carry |-> carry]

\* One round of encode, for each shift: the first byte.
LEMMA Round3 ==
    ASSUME NEW u, NEW c, NEW y \in Nat
    PROVE  EncodeByte(State(u, 3, c), y)
            = State(u \o <<Letter(Or(c, ShiftRight(y, 3)))>> \o <<>>, 6, (4 * y) % 256)
<1>1. ShiftLeft(8, y, 2) = (4 * y) % 256
  BY ShiftLefts
<1>2. 8 - (5 - 3) = 6 /\ 5 - 3 = 2
  OBVIOUS
<1>. DEFINE s == State(u, 3, c)
            w == 3 > 5
<1>3. w = FALSE
  OBVIOUS
<1>4. s.buffer = u /\ s.shift = 3 /\ s.carry = c
  BY DEF State
<1>. HIDE DEF s
<1>5. EncodeByte(s, y) = [ buffer |-> u \o <<Letter(Or(c, ShiftRight(y, 3)))>> \o <<>>,
                           shift |-> 8 - (5 - 3), carry |-> ShiftLeft(8, y, 5 - 3) ]
  BY <1>3, <1>4 DEF EncodeByte
<1>. QED  BY <1>1, <1>2, <1>5 DEF s, State

\* The second byte of a block of five: two letters.
LEMMA Round6 ==
    ASSUME NEW u, NEW c, NEW y \in Nat
    PROVE  EncodeByte(State(u, 6, c), y)
            = State(u \o <<Letter(Or(c, ShiftRight(y, 6)))>>
                  \o <<Letter(ShiftRight(y, 1))>>, 4, (16 * y) % 256)
<1>1. ShiftLeft(8, y, 4) = (16 * y) % 256
  BY ShiftLefts
<1>2. 8 - (5 - 1) = 4 /\ 5 - 1 = 4
  OBVIOUS
<1>. DEFINE s == State(u, 6, c)
            w == 6 > 5
<1>3. w = TRUE
  OBVIOUS
<1>4. s.buffer = u /\ s.shift = 6 /\ s.carry = c
  BY DEF State
<1>. HIDE DEF s
<1>5. EncodeByte(s, y) = [ buffer |-> u \o <<Letter(Or(c, ShiftRight(y, 6)))>>
          \o <<Letter(ShiftRight(y, 1))>>,
                           shift |-> 8 - (5 - 1), carry |-> ShiftLeft(8, y, 5 - 1) ]
  BY <1>3, <1>4 DEF EncodeByte
<1>. QED  BY <1>1, <1>2, <1>5 DEF s, State

\* The third byte: one letter.
LEMMA Round4 ==
    ASSUME NEW u, NEW c, NEW y \in Nat
    PROVE  EncodeByte(State(u, 4, c), y)
            = State(u \o <<Letter(Or(c, ShiftRight(y, 4)))>> \o <<>>, 7, (2 * y) % 256)
<1>1. ShiftLeft(8, y, 1) = (2 * y) % 256
  BY ShiftLefts
<1>2. 8 - (5 - 4) = 7 /\ 5 - 4 = 1
  OBVIOUS
<1>. DEFINE s == State(u, 4, c)
            w == 4 > 5
<1>3. w = FALSE
  OBVIOUS
<1>4. s.buffer = u /\ s.shift = 4 /\ s.carry = c
  BY DEF State
<1>. HIDE DEF s
<1>5. EncodeByte(s, y) = [ buffer |-> u \o <<Letter(Or(c, ShiftRight(y, 4)))>> \o <<>>,
                           shift |-> 8 - (5 - 4), carry |-> ShiftLeft(8, y, 5 - 4) ]
  BY <1>3, <1>4 DEF EncodeByte
<1>. QED  BY <1>1, <1>2, <1>5 DEF s, State

\* The fourth byte: two letters.
LEMMA Round7 ==
    ASSUME NEW u, NEW c, NEW y \in Nat
    PROVE  EncodeByte(State(u, 7, c), y)
            = State(u \o <<Letter(Or(c, ShiftRight(y, 7)))>>
                  \o <<Letter(ShiftRight(y, 2))>>, 5, (8 * y) % 256)
<1>1. ShiftLeft(8, y, 3) = (8 * y) % 256
  BY ShiftLefts
<1>2. 8 - (5 - 2) = 5 /\ 5 - 2 = 3
  OBVIOUS
<1>. DEFINE s == State(u, 7, c)
            w == 7 > 5
<1>3. w = TRUE
  OBVIOUS
<1>4. s.buffer = u /\ s.shift = 7 /\ s.carry = c
  BY DEF State
<1>. HIDE DEF s
<1>5. EncodeByte(s, y) = [ buffer |-> u \o <<Letter(Or(c, ShiftRight(y, 7)))>>
          \o <<Letter(ShiftRight(y, 2))>>,
                           shift |-> 8 - (5 - 2), carry |-> ShiftLeft(8, y, 5 - 2) ]
  BY <1>3, <1>4 DEF EncodeByte
<1>. QED  BY <1>1, <1>2, <1>5 DEF s, State

\* The fifth byte: one letter.
LEMMA Round5 ==
    ASSUME NEW u, NEW c, NEW y \in Nat
    PROVE  EncodeByte(State(u, 5, c), y)
            = State(u \o <<Letter(Or(c, ShiftRight(y, 5)))>> \o <<>>, 8, y % 256)
<1>1. ShiftLeft(8, y, 0) = y % 256
  BY ShiftLefts
<1>2. 8 - (5 - 5) = 8 /\ 5 - 5 = 0
  OBVIOUS
<1>. DEFINE s == State(u, 5, c)
            w == 5 > 5
<1>3. w = FALSE
  OBVIOUS
<1>4. s.buffer = u /\ s.shift = 5 /\ s.carry = c
  BY DEF State
<1>. HIDE DEF s
<1>5. EncodeByte(s, y) = [ buffer |-> u \o <<Letter(Or(c, ShiftRight(y, 5)))>> \o <<>>,
                           shift |-> 8 - (5 - 5), carry |-> ShiftLeft(8, y, 5 - 5) ]
  BY <1>3, <1>4 DEF EncodeByte
<1>. QED  BY <1>1, <1>2, <1>5 DEF s, State

\* The first byte of the next block: the letter that was complete, and one more.
LEMMA Round8 ==
    ASSUME NEW u, NEW c, NEW y \in Nat
    PROVE  EncodeByte(State(u, 8, c), y)
            = State(u \o <<Letter(c)>> \o <<Letter(ShiftRight(y, 3))>>, 6, (4 * y) % 256)
<1>1. ShiftLeft(8, y, 2) = (4 * y) % 256
  BY ShiftLefts
<1>2. 8 - (5 - 3) = 6 /\ 5 - 3 = 2
  OBVIOUS
<1>. DEFINE s == State(u, 8, c)
            w == 8 > 5
<1>3. w = TRUE
  OBVIOUS
<1>4. s.buffer = u /\ s.shift = 8 /\ s.carry = c
  BY DEF State
<1>. HIDE DEF s
<1>5. EncodeByte(s, y) = [ buffer |-> u \o <<Letter(c)>> \o <<Letter(ShiftRight(y, 3))>>,
                           shift |-> 8 - (5 - 3), carry |-> ShiftLeft(8, y, 5 - 3) ]
  BY <1>3, <1>4 DEF EncodeByte
<1>. QED  BY <1>1, <1>2, <1>5 DEF s, State

\* The bits of a byte that are left for the next letter, in their place.
Rest(x, m) == (m * x) % 256

\* Five bits in the byte x, and five bits that begin in x and end in y.
Within(x, d) == (x \div d) % 32

Across(x, y, m) == m * (x % (32 \div m)) + y \div (256 \div m)

\* The letter that takes the rest of a byte x and the first bits of the next, y.
LEMMA CarriedLetters ==
    ASSUME NEW x \in Nat, x < 256, NEW y \in Nat, y < 256
    PROVE  /\ Letter(Or(Rest(x, 2), ShiftRight(y, 7))) = ALPHABET[Across(x, y, 2)]
           /\ Letter(Or(Rest(x, 4), ShiftRight(y, 6))) = ALPHABET[Across(x, y, 4)]
           /\ Letter(Or(Rest(x, 8), ShiftRight(y, 5))) = ALPHABET[Across(x, y, 8)]
           /\ Letter(Or(Rest(x, 16), ShiftRight(y, 4))) = ALPHABET[Across(x, y, 16)]
<1>1. Letter(Or((2 * x) % 256, ShiftRight(y, 7))) = ALPHABET[2 * (x % 16) + y \div 128]
  <2>. DEFINE c == (2 * x) % 256
              e == y \div 128
  <2>1. c \in Nat /\ c < 256 /\ c % 2 = 0 /\ e \in Nat /\ e < 2
    OBVIOUS
  <2>2. (c + e) % 32 = 2 * (x % 16) + y \div 128
    OBVIOUS
  <2>3. ShiftRight(y, 7) = e
    BY ShiftRights
  <2>. HIDE DEF c, e
  <2>4. c \in Word /\ e \in Word
    BY <2>1, NatIsByte
  <2>5. Or(c, e) = c + e
    BY <2>1, <2>4, OrAdds
  <2>. QED  BY <2>2, <2>3, <2>5 DEF Letter, c
<1>2. Letter(Or((4 * x) % 256, ShiftRight(y, 6))) = ALPHABET[4 * (x % 8) + y \div 64]
  <2>. DEFINE c == (4 * x) % 256
              e == y \div 64
  <2>1. c \in Nat /\ c < 256 /\ c % 4 = 0 /\ e \in Nat /\ e < 4
    OBVIOUS
  <2>2. (c + e) % 32 = 4 * (x % 8) + y \div 64
    OBVIOUS
  <2>3. ShiftRight(y, 6) = e
    BY ShiftRights
  <2>. HIDE DEF c, e
  <2>4. c \in Word /\ e \in Word
    BY <2>1, NatIsByte
  <2>5. Or(c, e) = c + e
    BY <2>1, <2>4, OrAdds
  <2>. QED  BY <2>2, <2>3, <2>5 DEF Letter, c
<1>3. Letter(Or((8 * x) % 256, ShiftRight(y, 5))) = ALPHABET[8 * (x % 4) + y \div 32]
  <2>. DEFINE c == (8 * x) % 256
              e == y \div 32
  <2>1. c \in Nat /\ c < 256 /\ c % 8 = 0 /\ e \in Nat /\ e < 8
    OBVIOUS
  <2>2. (c + e) % 32 = 8 * (x % 4) + y \div 32
    OBVIOUS
  <2>3. ShiftRight(y, 5) = e
    BY ShiftRights
  <2>. HIDE DEF c, e
  <2>4. c \in Word /\ e \in Word
    BY <2>1, NatIsByte
  <2>5. Or(c, e) = c + e
    BY <2>1, <2>4, OrAdds
  <2>. QED  BY <2>2, <2>3, <2>5 DEF Letter, c
<1>4. Letter(Or((16 * x) % 256, ShiftRight(y, 4))) = ALPHABET[16 * (x % 2) + y \div 16]
  <2>. DEFINE c == (16 * x) % 256
              e == y \div 16
  <2>1. c \in Nat /\ c < 256 /\ c % 16 = 0 /\ e \in Nat /\ e < 16
    OBVIOUS
  <2>2. (c + e) % 32 = 16 * (x % 2) + y \div 16
    OBVIOUS
  <2>3. ShiftRight(y, 4) = e
    BY ShiftRights
  <2>. HIDE DEF c, e
  <2>4. c \in Word /\ e \in Word
    BY <2>1, NatIsByte
  <2>5. Or(c, e) = c + e
    BY <2>1, <2>4, OrAdds
  <2>. QED  BY <2>2, <2>3, <2>5 DEF Letter, c
<1>5. /\ Rest(x, 2) = (2 * x) % 256 /\ Across(x, y, 2) = 2 * (x % 16) + y \div 128
      /\ Rest(x, 4) = (4 * x) % 256 /\ Across(x, y, 4) = 4 * (x % 8) + y \div 64
      /\ Rest(x, 8) = (8 * x) % 256 /\ Across(x, y, 8) = 8 * (x % 4) + y \div 32
      /\ Rest(x, 16) = (16 * x) % 256 /\ Across(x, y, 16) = 16 * (x % 2) + y \div 16
  <2>1. /\ 32 \div 2 = 16 /\ 256 \div 2 = 128
        /\ 32 \div 4 = 8 /\ 256 \div 4 = 64
        /\ 32 \div 8 = 4 /\ 256 \div 8 = 32
        /\ 32 \div 16 = 2 /\ 256 \div 16 = 16
    OBVIOUS
  <2>. QED  BY <2>1 DEF Rest, Across
<1>. QED  BY <1>1, <1>2, <1>3, <1>4, <1>5

\* The letters whose bits are in one byte.
LEMMA PlainLetters ==
    ASSUME NEW x \in Nat, x < 256
    PROVE  /\ Letter(Or(0, ShiftRight(x, 3))) = ALPHABET[Within(x, 8)]
           /\ Letter(ShiftRight(x, 3)) = ALPHABET[Within(x, 8)]
           /\ Letter(ShiftRight(x, 2)) = ALPHABET[Within(x, 4)]
           /\ Letter(ShiftRight(x, 1)) = ALPHABET[Within(x, 2)]
           /\ Letter(Rest(x, 1)) = ALPHABET[Within(x, 1)]
<1>1. /\ ShiftRight(x, 3) = x \div 8 /\ ShiftRight(x, 2) = x \div 4
      /\ ShiftRight(x, 1) = x \div 2
  BY ShiftRights
<1>2. (x \div 8) % 32 = x \div 8 /\ (x % 256) % 32 = x % 32
  OBVIOUS
<1>3. x \div 8 \in Nat /\ x \div 8 < 256
  OBVIOUS
<1>4. x \div 8 \in Word
  BY <1>3, NatIsByte
<1>5. Or(0, x \div 8) = x \div 8
  BY <1>4, OrSteps, WordIsNat
<1>6. /\ Within(x, 8) = x \div 8 /\ Within(x, 4) = (x \div 4) % 32
      /\ Within(x, 2) = (x \div 2) % 32 /\ Within(x, 1) = x % 32
      /\ Rest(x, 1) = x % 256
  BY <1>2 DEF Within, Rest
<1>7. /\ Letter(Or(0, x \div 8)) = ALPHABET[x \div 8]
      /\ Letter(x \div 8) = ALPHABET[x \div 8]
      /\ Letter(x \div 4) = ALPHABET[(x \div 4) % 32]
      /\ Letter(x \div 2) = ALPHABET[(x \div 2) % 32]
      /\ Letter(x % 256) = ALPHABET[x % 32]
  BY <1>2, <1>5 DEF Letter
<1>. QED  BY <1>1, <1>6, <1>7

\* The groups by their first bit in a byte.
LEMMA GroupIs ==
    ASSUME NEW b \in Seq(Byte), NEW g \in Nat, NEW j \in Nat,
           NEW x, x = ByteAt(b, j + 1), NEW y, y = ByteAt(b, j + 2)
    PROVE  /\ 5 * g = 8 * j => Group(b, g) = Within(x, 8)
           /\ 5 * g = 8 * j + 1 => Group(b, g) = Within(x, 4)
           /\ 5 * g = 8 * j + 2 => Group(b, g) = Within(x, 2)
           /\ 5 * g = 8 * j + 3 => Group(b, g) = Within(x, 1)
           /\ 5 * g = 8 * j + 4 => Group(b, g) = Across(x, y, 2)
           /\ 5 * g = 8 * j + 5 => Group(b, g) = Across(x, y, 4)
           /\ 5 * g = 8 * j + 6 => Group(b, g) = Across(x, y, 8)
           /\ 5 * g = 8 * j + 7 => Group(b, g) = Across(x, y, 16)
<1>1. x \in Nat /\ x < 256 /\ y \in Nat /\ y < 256
  BY ByteAtType
<1>2. /\ 5 * g = 8 * j => Group(b, g) = x \div 8
      /\ 5 * g = 8 * j + 1 => Group(b, g) = (x \div 4) % 32
      /\ 5 * g = 8 * j + 2 => Group(b, g) = (x \div 2) % 32
      /\ 5 * g = 8 * j + 3 => Group(b, g) = x % 32
      /\ 5 * g = 8 * j + 4 => Group(b, g) = 2 * (x % 16) + y \div 128
      /\ 5 * g = 8 * j + 5 => Group(b, g) = 4 * (x % 8) + y \div 64
      /\ 5 * g = 8 * j + 6 => Group(b, g) = 8 * (x % 4) + y \div 32
      /\ 5 * g = 8 * j + 7 => Group(b, g) = 16 * (x % 2) + y \div 16
  BY GroupAt
<1>3. /\ Within(x, 8) = x \div 8
      /\ Within(x, 4) = (x \div 4) % 32
      /\ Within(x, 2) = (x \div 2) % 32
      /\ Within(x, 1) = x % 32
      /\ Across(x, y, 2) = 2 * (x % 16) + y \div 128
      /\ Across(x, y, 4) = 4 * (x % 8) + y \div 64
      /\ Across(x, y, 8) = 8 * (x % 4) + y \div 32
      /\ Across(x, y, 16) = 16 * (x % 2) + y \div 16
  <2>1. /\ 32 \div 2 = 16 /\ 256 \div 2 = 128
        /\ 32 \div 4 = 8 /\ 256 \div 4 = 64
        /\ 32 \div 8 = 4 /\ 256 \div 8 = 32
        /\ 32 \div 16 = 2 /\ 256 \div 16 = 16
    OBVIOUS
  <2>2. /\ Within(x, 8) = x \div 8
        /\ Within(x, 4) = (x \div 4) % 32
        /\ Within(x, 2) = (x \div 2) % 32
        /\ Within(x, 1) = x % 32
    BY <1>1 DEF Within
  <2>3. /\ Across(x, y, 2) = 2 * (x % 16) + y \div 128
        /\ Across(x, y, 4) = 4 * (x % 8) + y \div 64
        /\ Across(x, y, 8) = 8 * (x % 4) + y \div 32
        /\ Across(x, y, 16) = 16 * (x % 2) + y \div 16
    BY <2>1 DEF Across
  <2>. QED  BY <2>2, <2>3
<1>. QED  BY <1>2, <1>3

\* The letters encode makes of its carry and the next byte are the letters of the groups.
LEMMA ReadsBytes ==
    ASSUME NEW x \in Nat, x < 256, NEW y \in Nat, y < 256
    PROVE  /\ Letter(Or(Rest(x, 2), ShiftRight(y, 7))) = ALPHABET[Across(x, y, 2)]
           /\ Letter(Or(Rest(x, 4), ShiftRight(y, 6))) = ALPHABET[Across(x, y, 4)]
           /\ Letter(Or(Rest(x, 8), ShiftRight(y, 5))) = ALPHABET[Across(x, y, 8)]
           /\ Letter(Or(Rest(x, 16), ShiftRight(y, 4))) = ALPHABET[Across(x, y, 16)]
           /\ Letter(Or(0, ShiftRight(y, 3))) = ALPHABET[Within(y, 8)]
           /\ Letter(ShiftRight(y, 3)) = ALPHABET[Within(y, 8)]
           /\ Letter(ShiftRight(y, 2)) = ALPHABET[Within(y, 4)]
           /\ Letter(ShiftRight(y, 1)) = ALPHABET[Within(y, 2)]
           /\ Letter(Rest(x, 1)) = ALPHABET[Within(x, 1)]
<1>1. /\ Letter(Or(Rest(x, 2), ShiftRight(y, 7))) = ALPHABET[Across(x, y, 2)]
      /\ Letter(Or(Rest(x, 4), ShiftRight(y, 6))) = ALPHABET[Across(x, y, 4)]
      /\ Letter(Or(Rest(x, 8), ShiftRight(y, 5))) = ALPHABET[Across(x, y, 8)]
      /\ Letter(Or(Rest(x, 16), ShiftRight(y, 4))) = ALPHABET[Across(x, y, 16)]
  BY CarriedLetters
<1>2. /\ Letter(Or(0, ShiftRight(y, 3))) = ALPHABET[Within(y, 8)]
      /\ Letter(ShiftRight(y, 3)) = ALPHABET[Within(y, 8)]
      /\ Letter(ShiftRight(y, 2)) = ALPHABET[Within(y, 4)]
      /\ Letter(ShiftRight(y, 1)) = ALPHABET[Within(y, 2)]
  BY PlainLetters
<1>3. Letter(Rest(x, 1)) = ALPHABET[Within(x, 1)]
  BY PlainLetters
<1>. QED  BY <1>1, <1>2, <1>3

\* One round, at each of the five places of a block.
LEMMA RoundAtFirst ==
    ASSUME NEW y \in Nat, y < 256
    PROVE  EncodeByte(State(<<>>, 3, 0), y) = State(<<ALPHABET[Within(y, 8)]>>, 6, Rest(y, 4))
<1>1. Letter(Or(0, ShiftRight(y, 3))) = ALPHABET[Within(y, 8)]
  BY ReadsBytes
<1>2. EncodeByte(State(<<>>, 3, 0), y)
        = State(<<>> \o <<Letter(Or(0, ShiftRight(y, 3)))>> \o <<>>, 6, (4 * y) % 256)
  <2>. DEFINE u == <<>>
              c == 0
  <2>. HIDE DEF u, c
  <2>1. EncodeByte(State(u, 3, c), y)
          = State(u \o <<Letter(Or(c, ShiftRight(y, 3)))>> \o <<>>, 6, (4 * y) % 256)
    BY Round3
  <2>. QED  BY <2>1 DEF u, c
<1>3. <<>> \o <<Letter(Or(0, ShiftRight(y, 3)))>> \o <<>> = <<Letter(Or(0, ShiftRight(y, 3)))>>
  OBVIOUS
<1>. QED  BY <1>1, <1>2, <1>3 DEF Rest

\* After the first byte of a block.
LEMMA RoundAt1 ==
    ASSUME NEW u, NEW x \in Nat, x < 256, NEW y \in Nat, y < 256
    PROVE  EncodeByte(State(u, 6, Rest(x, 4)), y)
            = State(u \o <<ALPHABET[Across(x, y, 4)]>>
                  \o <<ALPHABET[Within(y, 2)]>>, 4, Rest(y, 16))
<1>. DEFINE c == Rest(x, 4)
<1>1. Letter(Or(Rest(x, 4), ShiftRight(y, 6))) = ALPHABET[Across(x, y, 4)]
  BY ReadsBytes
<1>2. Letter(ShiftRight(y, 1)) = ALPHABET[Within(y, 2)]
  BY ReadsBytes
<1>3. (16 * y) % 256 = Rest(y, 16)
  BY DEF Rest
<1>. HIDE DEF c
<1>4. EncodeByte(State(u, 6, c), y)
        = State(u \o <<Letter(Or(c, ShiftRight(y, 6)))>>
              \o <<Letter(ShiftRight(y, 1))>>, 4, (16 * y) % 256)
  BY Round6
<1>5. EncodeByte(State(u, 6, c), y)
        = State(u \o <<ALPHABET[Across(x, y, 4)]>> \o <<ALPHABET[Within(y, 2)]>>, 4, Rest(y, 16))
  BY <1>1, <1>2, <1>3, <1>4 DEF c
<1>. QED  BY <1>5 DEF c

\* After the second.
LEMMA RoundAt2 ==
    ASSUME NEW u, NEW x \in Nat, x < 256, NEW y \in Nat, y < 256
    PROVE  EncodeByte(State(u, 4, Rest(x, 16)), y)
            = State(u \o <<ALPHABET[Across(x, y, 16)]>> \o <<>>, 7, Rest(y, 2))
<1>. DEFINE c == Rest(x, 16)
<1>1. Letter(Or(Rest(x, 16), ShiftRight(y, 4))) = ALPHABET[Across(x, y, 16)]
  BY ReadsBytes
<1>3. (2 * y) % 256 = Rest(y, 2)
  BY DEF Rest
<1>. HIDE DEF c
<1>4. EncodeByte(State(u, 4, c), y)
        = State(u \o <<Letter(Or(c, ShiftRight(y, 4)))>> \o <<>>, 7, (2 * y) % 256)
  BY Round4
<1>5. EncodeByte(State(u, 4, c), y)
        = State(u \o <<ALPHABET[Across(x, y, 16)]>> \o <<>>, 7, Rest(y, 2))
  BY <1>1, <1>3, <1>4 DEF c
<1>. QED  BY <1>5 DEF c

\* After the third.
LEMMA RoundAt3 ==
    ASSUME NEW u, NEW x \in Nat, x < 256, NEW y \in Nat, y < 256
    PROVE  EncodeByte(State(u, 7, Rest(x, 2)), y)
            = State(u \o <<ALPHABET[Across(x, y, 2)]>> \o <<ALPHABET[Within(y, 4)]>>, 5, Rest(y, 8))
<1>. DEFINE c == Rest(x, 2)
<1>1. Letter(Or(Rest(x, 2), ShiftRight(y, 7))) = ALPHABET[Across(x, y, 2)]
  BY ReadsBytes
<1>2. Letter(ShiftRight(y, 2)) = ALPHABET[Within(y, 4)]
  BY ReadsBytes
<1>3. (8 * y) % 256 = Rest(y, 8)
  BY DEF Rest
<1>. HIDE DEF c
<1>4. EncodeByte(State(u, 7, c), y)
        = State(u \o <<Letter(Or(c, ShiftRight(y, 7)))>>
              \o <<Letter(ShiftRight(y, 2))>>, 5, (8 * y) % 256)
  BY Round7
<1>5. EncodeByte(State(u, 7, c), y)
        = State(u \o <<ALPHABET[Across(x, y, 2)]>> \o <<ALPHABET[Within(y, 4)]>>, 5, Rest(y, 8))
  BY <1>1, <1>2, <1>3, <1>4 DEF c
<1>. QED  BY <1>5 DEF c

\* After the fourth.
LEMMA RoundAt4 ==
    ASSUME NEW u, NEW x \in Nat, x < 256, NEW y \in Nat, y < 256
    PROVE  EncodeByte(State(u, 5, Rest(x, 8)), y)
            = State(u \o <<ALPHABET[Across(x, y, 8)]>> \o <<>>, 8, Rest(y, 1))
<1>. DEFINE c == Rest(x, 8)
<1>1. Letter(Or(Rest(x, 8), ShiftRight(y, 5))) = ALPHABET[Across(x, y, 8)]
  BY ReadsBytes
<1>3. y % 256 = Rest(y, 1)
  BY DEF Rest
<1>. HIDE DEF c
<1>4. EncodeByte(State(u, 5, c), y)
        = State(u \o <<Letter(Or(c, ShiftRight(y, 5)))>> \o <<>>, 8, y % 256)
  BY Round5
<1>5. EncodeByte(State(u, 5, c), y)
        = State(u \o <<ALPHABET[Across(x, y, 8)]>> \o <<>>, 8, Rest(y, 1))
  BY <1>1, <1>3, <1>4 DEF c
<1>. QED  BY <1>5 DEF c

\* After the fifth, with which a letter is complete.
LEMMA RoundAt5 ==
    ASSUME NEW u, NEW x \in Nat, x < 256, NEW y \in Nat, y < 256
    PROVE  EncodeByte(State(u, 8, Rest(x, 1)), y)
            = State(u \o <<ALPHABET[Within(x, 1)]>> \o <<ALPHABET[Within(y, 8)]>>, 6, Rest(y, 4))
<1>. DEFINE c == Rest(x, 1)
<1>1. Letter(Rest(x, 1)) = ALPHABET[Within(x, 1)]
  BY ReadsBytes
<1>2. Letter(ShiftRight(y, 3)) = ALPHABET[Within(y, 8)]
  BY ReadsBytes
<1>3. (4 * y) % 256 = Rest(y, 4)
  BY DEF Rest
<1>. HIDE DEF c
<1>4. EncodeByte(State(u, 8, c), y)
        = State(u \o <<Letter(c)>> \o <<Letter(ShiftRight(y, 3))>>, 6, (4 * y) % 256)
  BY Round8
<1>5. EncodeByte(State(u, 8, c), y)
        = State(u \o <<ALPHABET[Within(x, 1)]>> \o <<ALPHABET[Within(y, 8)]>>, 6, Rest(y, 4))
  BY <1>1, <1>2, <1>3, <1>4 DEF c
<1>. QED  BY <1>5 DEF c

-----------------------------------------------------------------------------
\* The state of the loop after byte i.
EncodeAt(b, i, m, shift, carry) == EncodeLoop(b)[i] = State(FirstLetters(b, m), shift, carry)

\* Number i is the t-th of its block of five.
InBlock(i, q, t) == i = 5 * q + t

\* The bytes i and i + 1.
Follows(b, i, x, y) ==
    i \in 1 .. Len(b) /\ i + 1 \in 1 .. Len(b) /\ b[i] = x /\ b[i + 1] = y

\* A byte and the one after it.
LEMMA BytesInRow ==
    ASSUME NEW b \in Seq(Byte), NEW i \in 1 .. Len(b)
    PROVE  /\ b[i] \in Nat /\ b[i] < 256
           /\ i - 1 \in Nat
           /\ ByteAt(b, (i - 1) + 1) = b[i]
           /\ i + 1 \in 1 .. Len(b) => ByteAt(b, (i - 1) + 2) = b[i + 1]
           /\ i = Len(b) => ByteAt(b, (i - 1) + 2) = 0
<1>1. b[i] \in Byte
  OBVIOUS
<1>2. b[i] \in Nat /\ b[i] < 256
  BY <1>1, ByteIsNat
<1>3. i - 1 \in Nat /\ (i - 1) + 1 = i /\ (i - 1) + 2 = i + 1
  OBVIOUS
<1>4. i = Len(b) => ~(i + 1 \in 1 .. Len(b))
  OBVIOUS
<1>. QED  BY <1>2, <1>3, <1>4 DEF ByteAt

\* The loop after its first byte.
LEMMA EncodeFirst ==
    ASSUME NEW b \in Seq(Byte), 1 \in 1 .. Len(b)
    PROVE  EncodeAt(b, 1, 1, 6, Rest(b[1], 4))
<1>. DEFINE y == b[1]
<1>1. y \in Nat /\ y < 256 /\ ByteAt(b, 0 + 1) = y
  BY BytesInRow
<1>2. EncodeLoop(b)[1] = EncodeByte(State(<<>>, 3, 0), y)
  BY EncodeRuns DEF State
<1>. HIDE DEF y
<1>3. EncodeLoop(b)[1] = State(<<ALPHABET[Within(y, 8)]>>, 6, Rest(y, 4))
  BY <1>1, <1>2, RoundAtFirst
<1>4. Group(b, 0) = Within(y, 8)
  <2>. DEFINE j == 0
              z == ByteAt(b, j + 2)
  <2>1. j \in Nat /\ 5 * j = 8 * j /\ y = ByteAt(b, j + 1) /\ z = ByteAt(b, j + 2)
    BY <1>1
  <2>. HIDE DEF j, z
  <2>2. Group(b, j) = Within(y, 8)
    BY <2>1, GroupIs
  <2>. QED  BY <2>2 DEF j
<1>5. FirstLetters(b, 0 + 1) = <<>> \o <<ALPHABET[Group(b, 0)]>>
  BY FirstLettersGrow
<1>6. FirstLetters(b, 1) = <<ALPHABET[Within(y, 8)]>>
  BY <1>4, <1>5
<1>. QED  BY <1>3, <1>6 DEF EncodeAt, y

\* The loop from the first byte of a block to the second: two letters more.
LEMMA EncodeStep1 ==
    ASSUME NEW b \in Seq(Byte), NEW q \in Nat, NEW i \in Nat, InBlock(i, q, 1),
           NEW x \in Nat, x < 256, NEW y \in Nat, y < 256, Follows(b, i, x, y),
           EncodeAt(b, i, 8 * q + 1, 6, Rest(x, 4))
    PROVE  EncodeAt(b, i + 1, 8 * q + 3, 4, Rest(y, 16))
<1>. DEFINE m == 8 * q + 1
<1>1. /\ m \in Nat /\ i - 1 \in Nat /\ (i - 1) + 1 = i /\ (i + 1) - 1 = i
      /\ m + 2 = 8 * q + 3 /\ 5 * m = 8 * (i - 1) + 5 /\ 5 * (m + 1) = 8 * i + 2
  BY DEF InBlock
<1>2. ByteAt(b, (i - 1) + 1) = x /\ ByteAt(b, (i - 1) + 2) = y /\ ByteAt(b, i + 1) = y
  BY <1>1, BytesInRow DEF Follows
<1>3. EncodeLoop(b)[i + 1] = EncodeByte(EncodeLoop(b)[i], y)
  BY <1>1, EncodeRuns DEF Follows
<1>4. EncodeLoop(b)[i] = State(FirstLetters(b, m), 6, Rest(x, 4))
  BY DEF EncodeAt
<1>. HIDE DEF m
<1>5. Group(b, m) = Across(x, y, 4)
  <2>. DEFINE j == i - 1
  <2>1. j \in Nat /\ x = ByteAt(b, j + 1) /\ y = ByteAt(b, j + 2) /\ 5 * m = 8 * j + 5
    BY <1>1, <1>2
  <2>. HIDE DEF j
  <2>. QED  BY <1>1, <2>1, GroupIs
<1>6. Group(b, m + 1) = Within(y, 2)
  <2>. DEFINE z == ByteAt(b, i + 2)
              g == m + 1
  <2>1. z = ByteAt(b, i + 2) /\ g \in Nat /\ 5 * g = 8 * i + 2 /\ y = ByteAt(b, i + 1)
    BY <1>1, <1>2
  <2>. HIDE DEF z, g
  <2>2. Group(b, g) = Within(y, 2)
    BY <2>1, GroupIs
  <2>. QED  BY <2>2 DEF g
<1>7. FirstLetters(b, m) \o <<ALPHABET[Across(x, y, 4)]>> \o <<ALPHABET[Within(y, 2)]>>
          = FirstLetters(b, m + 2)
  BY <1>1, <1>5, <1>6, FirstLettersGrowTwo
<1>8. EncodeByte(EncodeLoop(b)[i], y)
       = State(FirstLetters(b, m) \o <<ALPHABET[Across(x, y, 4)]>>
             \o <<ALPHABET[Within(y, 2)]>>, 4, Rest(y, 16))
  BY <1>4, RoundAt1
<1>. QED  BY <1>1, <1>3, <1>7, <1>8 DEF EncodeAt

\* From the second to the third: one letter more.
LEMMA EncodeStep2 ==
    ASSUME NEW b \in Seq(Byte), NEW q \in Nat, NEW i \in Nat, InBlock(i, q, 2),
           NEW x \in Nat, x < 256, NEW y \in Nat, y < 256, Follows(b, i, x, y),
           EncodeAt(b, i, 8 * q + 3, 4, Rest(x, 16))
    PROVE  EncodeAt(b, i + 1, 8 * q + 4, 7, Rest(y, 2))
<1>. DEFINE m == 8 * q + 3
<1>1. /\ m \in Nat /\ i - 1 \in Nat /\ (i - 1) + 1 = i /\ (i + 1) - 1 = i
      /\ m + 1 = 8 * q + 4 /\ 5 * m = 8 * (i - 1) + 7 /\ 5 * (m + 1) = 8 * (i - 1) + 12
  BY DEF InBlock
<1>2. ByteAt(b, (i - 1) + 1) = x /\ ByteAt(b, (i - 1) + 2) = y /\ ByteAt(b, i + 1) = y
  BY <1>1, BytesInRow DEF Follows
<1>3. EncodeLoop(b)[i + 1] = EncodeByte(EncodeLoop(b)[i], y)
  BY <1>1, EncodeRuns DEF Follows
<1>4. EncodeLoop(b)[i] = State(FirstLetters(b, m), 4, Rest(x, 16))
  BY DEF EncodeAt
<1>. HIDE DEF m
<1>5. Group(b, m) = Across(x, y, 16)
  <2>. DEFINE j == i - 1
  <2>1. j \in Nat /\ x = ByteAt(b, j + 1) /\ y = ByteAt(b, j + 2) /\ 5 * m = 8 * j + 7
    BY <1>1, <1>2
  <2>. HIDE DEF j
  <2>. QED  BY <1>1, <2>1, GroupIs
<1>7. FirstLetters(b, m) \o <<ALPHABET[Across(x, y, 16)]>> \o <<>> = FirstLetters(b, m + 1)
  <2>1. FirstLetters(b, m + 1) = FirstLetters(b, m) \o <<ALPHABET[Across(x, y, 16)]>>
    BY <1>1, <1>5, FirstLettersGrow
  <2>2. FirstLetters(b, m + 1) \o <<>> = FirstLetters(b, m + 1)
    <3>1. FirstLetters(b, m + 1) \in Seq({ALPHABET[Group(b, k)] : k \in Nat})
      BY <1>1 DEF FirstLetters
    <3>. QED  BY <3>1
  <2>. QED  BY <2>1, <2>2
<1>8. EncodeByte(EncodeLoop(b)[i], y)
       = State(FirstLetters(b, m) \o <<ALPHABET[Across(x, y, 16)]>> \o <<>>, 7, Rest(y, 2))
  BY <1>4, RoundAt2
<1>. QED  BY <1>1, <1>3, <1>7, <1>8 DEF EncodeAt

\* From the third to the fourth: two letters more.
LEMMA EncodeStep3 ==
    ASSUME NEW b \in Seq(Byte), NEW q \in Nat, NEW i \in Nat, InBlock(i, q, 3),
           NEW x \in Nat, x < 256, NEW y \in Nat, y < 256, Follows(b, i, x, y),
           EncodeAt(b, i, 8 * q + 4, 7, Rest(x, 2))
    PROVE  EncodeAt(b, i + 1, 8 * q + 6, 5, Rest(y, 8))
<1>. DEFINE m == 8 * q + 4
<1>1. /\ m \in Nat /\ i - 1 \in Nat /\ (i - 1) + 1 = i /\ (i + 1) - 1 = i
      /\ m + 2 = 8 * q + 6 /\ 5 * m = 8 * (i - 1) + 4 /\ 5 * (m + 1) = 8 * i + 1
  BY DEF InBlock
<1>2. ByteAt(b, (i - 1) + 1) = x /\ ByteAt(b, (i - 1) + 2) = y /\ ByteAt(b, i + 1) = y
  BY <1>1, BytesInRow DEF Follows
<1>3. EncodeLoop(b)[i + 1] = EncodeByte(EncodeLoop(b)[i], y)
  BY <1>1, EncodeRuns DEF Follows
<1>4. EncodeLoop(b)[i] = State(FirstLetters(b, m), 7, Rest(x, 2))
  BY DEF EncodeAt
<1>. HIDE DEF m
<1>5. Group(b, m) = Across(x, y, 2)
  <2>. DEFINE j == i - 1
  <2>1. j \in Nat /\ x = ByteAt(b, j + 1) /\ y = ByteAt(b, j + 2) /\ 5 * m = 8 * j + 4
    BY <1>1, <1>2
  <2>. HIDE DEF j
  <2>. QED  BY <1>1, <2>1, GroupIs
<1>6. Group(b, m + 1) = Within(y, 4)
  <2>. DEFINE z == ByteAt(b, i + 2)
              g == m + 1
  <2>1. z = ByteAt(b, i + 2) /\ g \in Nat /\ 5 * g = 8 * i + 1 /\ y = ByteAt(b, i + 1)
    BY <1>1, <1>2
  <2>. HIDE DEF z, g
  <2>2. Group(b, g) = Within(y, 4)
    BY <2>1, GroupIs
  <2>. QED  BY <2>2 DEF g
<1>7. FirstLetters(b, m) \o <<ALPHABET[Across(x, y, 2)]>> \o <<ALPHABET[Within(y, 4)]>>
          = FirstLetters(b, m + 2)
  BY <1>1, <1>5, <1>6, FirstLettersGrowTwo
<1>8. EncodeByte(EncodeLoop(b)[i], y)
       = State(FirstLetters(b, m) \o <<ALPHABET[Across(x, y, 2)]>>
             \o <<ALPHABET[Within(y, 4)]>>, 5, Rest(y, 8))
  BY <1>4, RoundAt3
<1>. QED  BY <1>1, <1>3, <1>7, <1>8 DEF EncodeAt

\* From the fourth to the fifth: one letter more.
LEMMA EncodeStep4 ==
    ASSUME NEW b \in Seq(Byte), NEW q \in Nat, NEW i \in Nat, InBlock(i, q, 4),
           NEW x \in Nat, x < 256, NEW y \in Nat, y < 256, Follows(b, i, x, y),
           EncodeAt(b, i, 8 * q + 6, 5, Rest(x, 8))
    PROVE  EncodeAt(b, i + 1, 8 * q + 7, 8, Rest(y, 1))
<1>. DEFINE m == 8 * q + 6
<1>1. /\ m \in Nat /\ i - 1 \in Nat /\ (i - 1) + 1 = i /\ (i + 1) - 1 = i
      /\ m + 1 = 8 * q + 7 /\ 5 * m = 8 * (i - 1) + 6 /\ 5 * (m + 1) = 8 * (i - 1) + 11
  BY DEF InBlock
<1>2. ByteAt(b, (i - 1) + 1) = x /\ ByteAt(b, (i - 1) + 2) = y /\ ByteAt(b, i + 1) = y
  BY <1>1, BytesInRow DEF Follows
<1>3. EncodeLoop(b)[i + 1] = EncodeByte(EncodeLoop(b)[i], y)
  BY <1>1, EncodeRuns DEF Follows
<1>4. EncodeLoop(b)[i] = State(FirstLetters(b, m), 5, Rest(x, 8))
  BY DEF EncodeAt
<1>. HIDE DEF m
<1>5. Group(b, m) = Across(x, y, 8)
  <2>. DEFINE j == i - 1
  <2>1. j \in Nat /\ x = ByteAt(b, j + 1) /\ y = ByteAt(b, j + 2) /\ 5 * m = 8 * j + 6
    BY <1>1, <1>2
  <2>. HIDE DEF j
  <2>. QED  BY <1>1, <2>1, GroupIs
<1>7. FirstLetters(b, m) \o <<ALPHABET[Across(x, y, 8)]>> \o <<>> = FirstLetters(b, m + 1)
  <2>1. FirstLetters(b, m + 1) = FirstLetters(b, m) \o <<ALPHABET[Across(x, y, 8)]>>
    BY <1>1, <1>5, FirstLettersGrow
  <2>2. FirstLetters(b, m + 1) \o <<>> = FirstLetters(b, m + 1)
    <3>1. FirstLetters(b, m + 1) \in Seq({ALPHABET[Group(b, k)] : k \in Nat})
      BY <1>1 DEF FirstLetters
    <3>. QED  BY <3>1
  <2>. QED  BY <2>1, <2>2
<1>8. EncodeByte(EncodeLoop(b)[i], y)
       = State(FirstLetters(b, m) \o <<ALPHABET[Across(x, y, 8)]>> \o <<>>, 8, Rest(y, 1))
  BY <1>4, RoundAt4
<1>. QED  BY <1>1, <1>3, <1>7, <1>8 DEF EncodeAt

\* From the fifth to the first of the next block: two letters more.
LEMMA EncodeStep5 ==
    ASSUME NEW b \in Seq(Byte), NEW q \in Nat, NEW i \in Nat, InBlock(i, q, 5),
           NEW x \in Nat, x < 256, NEW y \in Nat, y < 256, Follows(b, i, x, y),
           EncodeAt(b, i, 8 * q + 7, 8, Rest(x, 1))
    PROVE  EncodeAt(b, i + 1, 8 * q + 9, 6, Rest(y, 4))
<1>. DEFINE m == 8 * q + 7
<1>1. /\ m \in Nat /\ i - 1 \in Nat /\ (i - 1) + 1 = i /\ (i + 1) - 1 = i
      /\ m + 2 = 8 * q + 9 /\ 5 * m = 8 * (i - 1) + 3 /\ 5 * (m + 1) = 8 * i
  BY DEF InBlock
<1>2. ByteAt(b, (i - 1) + 1) = x /\ ByteAt(b, (i - 1) + 2) = y /\ ByteAt(b, i + 1) = y
  BY <1>1, BytesInRow DEF Follows
<1>3. EncodeLoop(b)[i + 1] = EncodeByte(EncodeLoop(b)[i], y)
  BY <1>1, EncodeRuns DEF Follows
<1>4. EncodeLoop(b)[i] = State(FirstLetters(b, m), 8, Rest(x, 1))
  BY DEF EncodeAt
<1>. HIDE DEF m
<1>5. Group(b, m) = Within(x, 1)
  <2>. DEFINE j == i - 1
  <2>1. j \in Nat /\ x = ByteAt(b, j + 1) /\ y = ByteAt(b, j + 2) /\ 5 * m = 8 * j + 3
    BY <1>1, <1>2
  <2>. HIDE DEF j
  <2>. QED  BY <1>1, <2>1, GroupIs
<1>6. Group(b, m + 1) = Within(y, 8)
  <2>. DEFINE z == ByteAt(b, i + 2)
              g == m + 1
  <2>1. z = ByteAt(b, i + 2) /\ g \in Nat /\ 5 * g = 8 * i /\ y = ByteAt(b, i + 1)
    BY <1>1, <1>2
  <2>. HIDE DEF z, g
  <2>2. Group(b, g) = Within(y, 8)
    BY <2>1, GroupIs
  <2>. QED  BY <2>2 DEF g
<1>7. FirstLetters(b, m) \o <<ALPHABET[Within(x, 1)]>> \o <<ALPHABET[Within(y, 8)]>>
          = FirstLetters(b, m + 2)
  BY <1>1, <1>5, <1>6, FirstLettersGrowTwo
<1>8. EncodeByte(EncodeLoop(b)[i], y)
       = State(FirstLetters(b, m) \o <<ALPHABET[Within(x, 1)]>>
             \o <<ALPHABET[Within(y, 8)]>>, 6, Rest(y, 4))
  BY <1>4, RoundAt5
<1>. QED  BY <1>1, <1>3, <1>7, <1>8 DEF EncodeAt

-----------------------------------------------------------------------------
(* The invariant of the loop of base32::encode, and its end.               *)

\* The state of the loop after byte i, which is one of a block of five.
EncodePlace(b, i) ==
    \E q \in Nat :
        \/ InBlock(i, q, 1) /\ EncodeAt(b, i, 8 * q + 1, 6, Rest(b[i], 4))
        \/ InBlock(i, q, 2) /\ EncodeAt(b, i, 8 * q + 3, 4, Rest(b[i], 16))
        \/ InBlock(i, q, 3) /\ EncodeAt(b, i, 8 * q + 4, 7, Rest(b[i], 2))
        \/ InBlock(i, q, 4) /\ EncodeAt(b, i, 8 * q + 6, 5, Rest(b[i], 8))
        \/ InBlock(i, q, 5) /\ EncodeAt(b, i, 8 * q + 7, 8, Rest(b[i], 1))

\* The invariant of the loop of encode, from one byte to the next.
LEMMA EncodeOn ==
    ASSUME NEW b \in Seq(Byte), NEW i \in Nat, i \in 1 .. Len(b), i + 1 \in 1 .. Len(b),
           EncodePlace(b, i)
    PROVE  EncodePlace(b, i + 1)
<1>. DEFINE x == b[i]
            y == b[i + 1]
<1>1. x \in Nat /\ x < 256 /\ y \in Nat /\ y < 256 /\ Follows(b, i, x, y)
  BY BytesInRow DEF Follows
<1>. HIDE DEF x, y
<1>2. PICK q \in Nat :
        \/ InBlock(i, q, 1) /\ EncodeAt(b, i, 8 * q + 1, 6, Rest(x, 4))
        \/ InBlock(i, q, 2) /\ EncodeAt(b, i, 8 * q + 3, 4, Rest(x, 16))
        \/ InBlock(i, q, 3) /\ EncodeAt(b, i, 8 * q + 4, 7, Rest(x, 2))
        \/ InBlock(i, q, 4) /\ EncodeAt(b, i, 8 * q + 6, 5, Rest(x, 8))
        \/ InBlock(i, q, 5) /\ EncodeAt(b, i, 8 * q + 7, 8, Rest(x, 1))
  BY DEF EncodePlace, x
<1>3. CASE InBlock(i, q, 1) /\ EncodeAt(b, i, 8 * q + 1, 6, Rest(x, 4))
  <2>1. EncodeAt(b, i + 1, 8 * q + 3, 4, Rest(y, 16))
    BY <1>1, <1>3, EncodeStep1
  <2>2. InBlock(i + 1, q, 2)
    BY <1>3 DEF InBlock
  <2>. QED  BY <2>1, <2>2 DEF EncodePlace, y
<1>4. CASE InBlock(i, q, 2) /\ EncodeAt(b, i, 8 * q + 3, 4, Rest(x, 16))
  <2>1. EncodeAt(b, i + 1, 8 * q + 4, 7, Rest(y, 2))
    BY <1>1, <1>4, EncodeStep2
  <2>2. InBlock(i + 1, q, 3)
    BY <1>4 DEF InBlock
  <2>. QED  BY <2>1, <2>2 DEF EncodePlace, y
<1>5. CASE InBlock(i, q, 3) /\ EncodeAt(b, i, 8 * q + 4, 7, Rest(x, 2))
  <2>1. EncodeAt(b, i + 1, 8 * q + 6, 5, Rest(y, 8))
    BY <1>1, <1>5, EncodeStep3
  <2>2. InBlock(i + 1, q, 4)
    BY <1>5 DEF InBlock
  <2>. QED  BY <2>1, <2>2 DEF EncodePlace, y
<1>6. CASE InBlock(i, q, 4) /\ EncodeAt(b, i, 8 * q + 6, 5, Rest(x, 8))
  <2>1. EncodeAt(b, i + 1, 8 * q + 7, 8, Rest(y, 1))
    BY <1>1, <1>6, EncodeStep4
  <2>2. InBlock(i + 1, q, 5)
    BY <1>6 DEF InBlock
  <2>. QED  BY <2>1, <2>2 DEF EncodePlace, y
<1>7. CASE InBlock(i, q, 5) /\ EncodeAt(b, i, 8 * q + 7, 8, Rest(x, 1))
  <2>. DEFINE r == q + 1
  <2>1. EncodeAt(b, i + 1, 8 * q + 9, 6, Rest(y, 4))
    BY <1>1, <1>7, EncodeStep5
  <2>2. r \in Nat /\ InBlock(i + 1, r, 1) /\ 8 * q + 9 = 8 * r + 1
    BY <1>7 DEF InBlock
  <2>. HIDE DEF r
  <2>. QED  BY <2>1, <2>2 DEF EncodePlace, y
<1>. QED  BY <1>2, <1>3, <1>4, <1>5, <1>6, <1>7

\* It holds after every byte, by induction.
LEMMA EncodePlaces ==
    ASSUME NEW b \in Seq(Byte)
    PROVE  \A i \in 1 .. Len(b) : EncodePlace(b, i)
<1>. DEFINE S == {k \in Nat : k + 1 \in 1 .. Len(b) => EncodePlace(b, k + 1)}
<1>1. 0 \in S
  <2>. SUFFICES ASSUME 1 \in 1 .. Len(b)
                PROVE  EncodePlace(b, 1)
    OBVIOUS
  <2>1. EncodeAt(b, 1, 1, 6, Rest(b[1], 4))
    BY EncodeFirst
  <2>. DEFINE q == 0
  <2>2. q \in Nat /\ 8 * q + 1 = 1 /\ InBlock(1, q, 1)
    BY DEF InBlock
  <2>. HIDE DEF q
  <2>. QED  BY <2>1, <2>2 DEF EncodePlace
<1>2. ASSUME NEW n \in Nat, n \in S
      PROVE  n + 1 \in S
  <2>. SUFFICES ASSUME (n + 1) + 1 \in 1 .. Len(b)
                PROVE  EncodePlace(b, (n + 1) + 1)
    OBVIOUS
  <2>. DEFINE i == n + 1
  <2>1. i \in Nat /\ i \in 1 .. Len(b) /\ i + 1 \in 1 .. Len(b)
    OBVIOUS
  <2>2. EncodePlace(b, i)
    BY <1>2, <2>1
  <2>. HIDE DEF i
  <2>3. EncodePlace(b, i + 1)
    BY <2>1, <2>2, EncodeOn
  <2>. QED  BY <2>3 DEF i
<1>. HIDE DEF S
<1>3. \A n \in Nat : n \in S
  BY <1>1, <1>2, SetInduction
<1>. QED
  <2>. TAKE i \in 1 .. Len(b)
  <2>1. i - 1 \in S /\ i - 1 \in Nat /\ (i - 1) + 1 = i
    BY <1>3
  <2>. QED  BY <2>1 DEF S

-----------------------------------------------------------------------------
\* The letter that the rest of the last byte makes.
LEMMA LastLetter ==
    ASSUME NEW x \in Nat, x < 256
    PROVE  /\ Letter(Rest(x, 2)) = ALPHABET[Across(x, 0, 2)]
           /\ Letter(Rest(x, 4)) = ALPHABET[Across(x, 0, 4)]
           /\ Letter(Rest(x, 8)) = ALPHABET[Across(x, 0, 8)]
           /\ Letter(Rest(x, 16)) = ALPHABET[Across(x, 0, 16)]
           /\ Letter(Rest(x, 1)) = ALPHABET[Within(x, 1)]
<1>1. Letter(Rest(x, 2)) = ALPHABET[Across(x, 0, 2)]
  <2>1. 32 \div 2 = 16 /\ 0 \div (256 \div 2) = 0
    OBVIOUS
  <2>2. ((2 * x) % 256) % 32 = 2 * (x % 16)
    OBVIOUS
  <2>. QED  BY <2>1, <2>2 DEF Letter, Rest, Across
<1>2. Letter(Rest(x, 4)) = ALPHABET[Across(x, 0, 4)]
  <2>1. 32 \div 4 = 8 /\ 0 \div (256 \div 4) = 0
    OBVIOUS
  <2>2. ((4 * x) % 256) % 32 = 4 * (x % 8)
    OBVIOUS
  <2>. QED  BY <2>1, <2>2 DEF Letter, Rest, Across
<1>3. Letter(Rest(x, 8)) = ALPHABET[Across(x, 0, 8)]
  <2>1. 32 \div 8 = 4 /\ 0 \div (256 \div 8) = 0
    OBVIOUS
  <2>2. ((8 * x) % 256) % 32 = 8 * (x % 4)
    OBVIOUS
  <2>. QED  BY <2>1, <2>2 DEF Letter, Rest, Across
<1>4. Letter(Rest(x, 16)) = ALPHABET[Across(x, 0, 16)]
  <2>1. 32 \div 16 = 2 /\ 0 \div (256 \div 16) = 0
    OBVIOUS
  <2>2. ((16 * x) % 256) % 32 = 16 * (x % 2)
    OBVIOUS
  <2>. QED  BY <2>1, <2>2 DEF Letter, Rest, Across
<1>5. Letter(Rest(x, 1)) = ALPHABET[Within(x, 1)]
  BY ReadsBytes
<1>. QED  BY <1>1, <1>2, <1>3, <1>4, <1>5

\* The end of Encode, at each of the five places of a block.
LEMMA EncodeEnd1 ==
    ASSUME NEW b \in Seq(Byte), NEW q \in Nat, NEW i \in Nat, InBlock(i, q, 1), i = Len(b),
           NEW x \in Nat, x < 256, x = b[i], EncodeAt(b, i, 8 * q + 1, 6, Rest(x, 4))
    PROVE  Encode(b) = GroupsOfFive(b)
<1>. DEFINE m == 8 * q + 1
<1>1. /\ m \in Nat /\ i - 1 \in Nat /\ (i - 1) + 1 = i /\ i \in 1 .. Len(b)
      /\ 5 * m = 8 * (i - 1) + 5
  BY DEF InBlock
<1>2. (8 * Len(b) + 4) \div 5 = m + 1
  <2>1. 8 * Len(b) + 4 = 5 * (m + 1) + 2
    BY DEF InBlock
  <2>. HIDE DEF m
  <2>. QED  BY <1>1, <2>1
<1>3. Encoding(b) = State(FirstLetters(b, m), 6, Rest(x, 4))
  BY DEF EncodeAt, Encoding
<1>. HIDE DEF m
<1>4. Group(b, m) = Across(x, 0, 4)
  <2>. DEFINE j == i - 1
              z == 0
  <2>1. j \in Nat /\ x = ByteAt(b, j + 1) /\ z = ByteAt(b, j + 2) /\ 5 * m = 8 * j + 5
    BY <1>1, BytesInRow
  <2>. HIDE DEF j, z
  <2>2. Group(b, m) = Across(x, z, 4)
    BY <1>1, <2>1, GroupIs
  <2>. QED  BY <2>2 DEF z
<1>5. Letter(Rest(x, 4)) = ALPHABET[Group(b, m)]
  BY <1>4, LastLetter
<1>6. Encode(b) = Append(FirstLetters(b, m), Letter(Rest(x, 4)))
  BY <1>3 DEF Encode, State
<1>7. FirstLetters(b, m + 1) = Append(FirstLetters(b, m), ALPHABET[Group(b, m)])
  BY <1>1, FirstLettersGrow
<1>. QED  BY <1>2, <1>5, <1>6, <1>7 DEF GroupsOfFive, FirstLetters

\* Two bytes over: seven bits wait, and make a letter.
LEMMA EncodeEnd2 ==
    ASSUME NEW b \in Seq(Byte), NEW q \in Nat, NEW i \in Nat, InBlock(i, q, 2), i = Len(b),
           NEW x \in Nat, x < 256, x = b[i], EncodeAt(b, i, 8 * q + 3, 4, Rest(x, 16))
    PROVE  Encode(b) = GroupsOfFive(b)
<1>. DEFINE m == 8 * q + 3
<1>1. /\ m \in Nat /\ i - 1 \in Nat /\ (i - 1) + 1 = i /\ i \in 1 .. Len(b)
      /\ 5 * m = 8 * (i - 1) + 7
  BY DEF InBlock
<1>2. (8 * Len(b) + 4) \div 5 = m + 1
  <2>1. 8 * Len(b) + 4 = 5 * (m + 1) + 0
    BY DEF InBlock
  <2>. HIDE DEF m
  <2>. QED  BY <1>1, <2>1
<1>3. Encoding(b) = State(FirstLetters(b, m), 4, Rest(x, 16))
  BY DEF EncodeAt, Encoding
<1>. HIDE DEF m
<1>4. Group(b, m) = Across(x, 0, 16)
  <2>. DEFINE j == i - 1
              z == 0
  <2>1. j \in Nat /\ x = ByteAt(b, j + 1) /\ z = ByteAt(b, j + 2) /\ 5 * m = 8 * j + 7
    BY <1>1, BytesInRow
  <2>. HIDE DEF j, z
  <2>2. Group(b, m) = Across(x, z, 16)
    BY <1>1, <2>1, GroupIs
  <2>. QED  BY <2>2 DEF z
<1>5. Letter(Rest(x, 16)) = ALPHABET[Group(b, m)]
  BY <1>4, LastLetter
<1>6. Encode(b) = Append(FirstLetters(b, m), Letter(Rest(x, 16)))
  BY <1>3 DEF Encode, State
<1>7. FirstLetters(b, m + 1) = Append(FirstLetters(b, m), ALPHABET[Group(b, m)])
  BY <1>1, FirstLettersGrow
<1>. QED  BY <1>2, <1>5, <1>6, <1>7 DEF GroupsOfFive, FirstLetters

\* Three bytes over.
LEMMA EncodeEnd3 ==
    ASSUME NEW b \in Seq(Byte), NEW q \in Nat, NEW i \in Nat, InBlock(i, q, 3), i = Len(b),
           NEW x \in Nat, x < 256, x = b[i], EncodeAt(b, i, 8 * q + 4, 7, Rest(x, 2))
    PROVE  Encode(b) = GroupsOfFive(b)
<1>. DEFINE m == 8 * q + 4
<1>1. /\ m \in Nat /\ i - 1 \in Nat /\ (i - 1) + 1 = i /\ i \in 1 .. Len(b)
      /\ 5 * m = 8 * (i - 1) + 4
  BY DEF InBlock
<1>2. (8 * Len(b) + 4) \div 5 = m + 1
  <2>1. 8 * Len(b) + 4 = 5 * (m + 1) + 3
    BY DEF InBlock
  <2>. HIDE DEF m
  <2>. QED  BY <1>1, <2>1
<1>3. Encoding(b) = State(FirstLetters(b, m), 7, Rest(x, 2))
  BY DEF EncodeAt, Encoding
<1>. HIDE DEF m
<1>4. Group(b, m) = Across(x, 0, 2)
  <2>. DEFINE j == i - 1
              z == 0
  <2>1. j \in Nat /\ x = ByteAt(b, j + 1) /\ z = ByteAt(b, j + 2) /\ 5 * m = 8 * j + 4
    BY <1>1, BytesInRow
  <2>. HIDE DEF j, z
  <2>2. Group(b, m) = Across(x, z, 2)
    BY <1>1, <2>1, GroupIs
  <2>. QED  BY <2>2 DEF z
<1>5. Letter(Rest(x, 2)) = ALPHABET[Group(b, m)]
  BY <1>4, LastLetter
<1>6. Encode(b) = Append(FirstLetters(b, m), Letter(Rest(x, 2)))
  BY <1>3 DEF Encode, State
<1>7. FirstLetters(b, m + 1) = Append(FirstLetters(b, m), ALPHABET[Group(b, m)])
  BY <1>1, FirstLettersGrow
<1>. QED  BY <1>2, <1>5, <1>6, <1>7 DEF GroupsOfFive, FirstLetters

\* Four bytes over.
LEMMA EncodeEnd4 ==
    ASSUME NEW b \in Seq(Byte), NEW q \in Nat, NEW i \in Nat, InBlock(i, q, 4), i = Len(b),
           NEW x \in Nat, x < 256, x = b[i], EncodeAt(b, i, 8 * q + 6, 5, Rest(x, 8))
    PROVE  Encode(b) = GroupsOfFive(b)
<1>. DEFINE m == 8 * q + 6
<1>1. /\ m \in Nat /\ i - 1 \in Nat /\ (i - 1) + 1 = i /\ i \in 1 .. Len(b)
      /\ 5 * m = 8 * (i - 1) + 6
  BY DEF InBlock
<1>2. (8 * Len(b) + 4) \div 5 = m + 1
  <2>1. 8 * Len(b) + 4 = 5 * (m + 1) + 1
    BY DEF InBlock
  <2>. HIDE DEF m
  <2>. QED  BY <1>1, <2>1
<1>3. Encoding(b) = State(FirstLetters(b, m), 5, Rest(x, 8))
  BY DEF EncodeAt, Encoding
<1>. HIDE DEF m
<1>4. Group(b, m) = Across(x, 0, 8)
  <2>. DEFINE j == i - 1
              z == 0
  <2>1. j \in Nat /\ x = ByteAt(b, j + 1) /\ z = ByteAt(b, j + 2) /\ 5 * m = 8 * j + 6
    BY <1>1, BytesInRow
  <2>. HIDE DEF j, z
  <2>2. Group(b, m) = Across(x, z, 8)
    BY <1>1, <2>1, GroupIs
  <2>. QED  BY <2>2 DEF z
<1>5. Letter(Rest(x, 8)) = ALPHABET[Group(b, m)]
  BY <1>4, LastLetter
<1>6. Encode(b) = Append(FirstLetters(b, m), Letter(Rest(x, 8)))
  BY <1>3 DEF Encode, State
<1>7. FirstLetters(b, m + 1) = Append(FirstLetters(b, m), ALPHABET[Group(b, m)])
  BY <1>1, FirstLettersGrow
<1>. QED  BY <1>2, <1>5, <1>6, <1>7 DEF GroupsOfFive, FirstLetters

\* No byte over: the letter that is complete is still to be written.
LEMMA EncodeEnd5 ==
    ASSUME NEW b \in Seq(Byte), NEW q \in Nat, NEW i \in Nat, InBlock(i, q, 5), i = Len(b),
           NEW x \in Nat, x < 256, x = b[i], EncodeAt(b, i, 8 * q + 7, 8, Rest(x, 1))
    PROVE  Encode(b) = GroupsOfFive(b)
<1>. DEFINE m == 8 * q + 7
<1>1. /\ m \in Nat /\ i - 1 \in Nat /\ (i - 1) + 1 = i /\ i \in 1 .. Len(b)
      /\ 5 * m = 8 * (i - 1) + 3
  BY DEF InBlock
<1>2. (8 * Len(b) + 4) \div 5 = m + 1
  <2>1. 8 * Len(b) + 4 = 5 * (m + 1) + 4
    BY DEF InBlock
  <2>. HIDE DEF m
  <2>. QED  BY <1>1, <2>1
<1>3. Encoding(b) = State(FirstLetters(b, m), 8, Rest(x, 1))
  BY DEF EncodeAt, Encoding
<1>. HIDE DEF m
<1>4. Group(b, m) = Within(x, 1)
  <2>. DEFINE j == i - 1
              z == 0
  <2>1. j \in Nat /\ x = ByteAt(b, j + 1) /\ z = ByteAt(b, j + 2) /\ 5 * m = 8 * j + 3
    BY <1>1, BytesInRow
  <2>. HIDE DEF j, z
  <2>2. Group(b, m) = Within(x, 1)
    BY <1>1, <2>1, GroupIs
  <2>. QED  BY <2>2 DEF z
<1>5. Letter(Rest(x, 1)) = ALPHABET[Group(b, m)]
  BY <1>4, LastLetter
<1>6. Encode(b) = Append(FirstLetters(b, m), Letter(Rest(x, 1)))
  BY <1>3 DEF Encode, State
<1>7. FirstLetters(b, m + 1) = Append(FirstLetters(b, m), ALPHABET[Group(b, m)])
  BY <1>1, FirstLettersGrow
<1>. QED  BY <1>2, <1>5, <1>6, <1>7 DEF GroupsOfFive, FirstLetters

\* base32::encode writes the groups of five bits of the reference.
THEOREM EncodeIsGroups == \A b \in Seq(Byte) : Encode(b) = GroupsOfFive(b)
<1>. TAKE b \in Seq(Byte)
<1>1. CASE Len(b) = 0
  <2>1. Encoding(b) = [buffer |-> <<>>, shift |-> 3, carry |-> 0]
    BY <1>1, EncodeRuns DEF Encoding
  <2>2. Encode(b) = <<>>
    BY <2>1 DEF Encode
  <2>3. (8 * Len(b) + 4) \div 5 = 0
    BY <1>1
  <2>4. GroupsOfFive(b) = FirstLetters(b, 0)
    BY <2>3 DEF GroupsOfFive, FirstLetters
  <2>. QED  BY <2>2, <2>4, FirstLettersGrow
<1>2. CASE Len(b) # 0
  <2>. DEFINE i == Len(b)
              x == b[i]
  <2>1. i \in Nat /\ i \in 1 .. Len(b)
    BY <1>2
  <2>2. EncodePlace(b, i)
    BY <2>1, EncodePlaces
  <2>3. i = Len(b) /\ x = b[i] /\ x \in Nat /\ x < 256
    BY <2>1, BytesInRow
  <2>. HIDE DEF i, x
  <2>4. PICK q \in Nat :
        \/ InBlock(i, q, 1) /\ EncodeAt(b, i, 8 * q + 1, 6, Rest(x, 4))
        \/ InBlock(i, q, 2) /\ EncodeAt(b, i, 8 * q + 3, 4, Rest(x, 16))
        \/ InBlock(i, q, 3) /\ EncodeAt(b, i, 8 * q + 4, 7, Rest(x, 2))
        \/ InBlock(i, q, 4) /\ EncodeAt(b, i, 8 * q + 6, 5, Rest(x, 8))
        \/ InBlock(i, q, 5) /\ EncodeAt(b, i, 8 * q + 7, 8, Rest(x, 1))
    BY <2>2, <2>3 DEF EncodePlace
  <2>5. CASE InBlock(i, q, 1) /\ EncodeAt(b, i, 8 * q + 1, 6, Rest(x, 4))
    BY <2>1, <2>3, <2>5, EncodeEnd1
  <2>6. CASE InBlock(i, q, 2) /\ EncodeAt(b, i, 8 * q + 3, 4, Rest(x, 16))
    BY <2>1, <2>3, <2>6, EncodeEnd2
  <2>7. CASE InBlock(i, q, 3) /\ EncodeAt(b, i, 8 * q + 4, 7, Rest(x, 2))
    BY <2>1, <2>3, <2>7, EncodeEnd3
  <2>8. CASE InBlock(i, q, 4) /\ EncodeAt(b, i, 8 * q + 6, 5, Rest(x, 8))
    BY <2>1, <2>3, <2>8, EncodeEnd4
  <2>9. CASE InBlock(i, q, 5) /\ EncodeAt(b, i, 8 * q + 7, 8, Rest(x, 1))
    BY <2>1, <2>3, <2>9, EncodeEnd5
  <2>. QED  BY <2>4, <2>5, <2>6, <2>7, <2>8, <2>9
<1>. QED  BY <1>1, <1>2

-----------------------------------------------------------------------------
(* One round of base32::decode, for each value of shift.                   *)

\* The state of the loop of base32::decode, as a record.
Gathered(bytes, shift, carry) == [bytes |-> bytes, shift |-> shift, carry |-> carry]

\* What is still to be filled of the byte that carry begins is zero.
Fits(shift, carry) ==
    \/ shift = 1 /\ carry % 2 = 0
    \/ shift = 2 /\ carry % 4 = 0
    \/ shift = 3 /\ carry % 8 = 0
    \/ shift = 4 /\ carry % 16 = 0
    \/ shift = 5 /\ carry % 32 = 0
    \/ shift = 6 /\ carry % 64 = 0
    \/ shift = 7 /\ carry % 128 = 0
    \/ shift = 8 /\ carry % 256 = 0

DecodeStates == {s \in [bytes : Seq(Byte), shift : 1 .. 8, carry : Byte] : Fits(s.shift, s.carry)}

Quintet == 0 .. 31

\* The values of letters are numbers below 32.
LEMMA QuintetIsNat == ASSUME NEW v \in Quintet PROVE v \in Nat /\ v < 32 /\ v < 256 /\ v \in Byte
<1>1. v \in Nat /\ v < 32 /\ v < 256
  BY DEF Quintet
<1>. QED  BY <1>1, NatIsByte

\* And the numbers below 32 are values of letters.
LEMMA NatIsQuintet == ASSUME NEW v \in Nat, v < 32 PROVE v \in Quintet
BY DEF Quintet

\* -shift in decode is positive where it is used.
LEMMA Negate == ASSUME NEW h \in Int, NEW k \in Nat, h + k = 0 PROVE -h = k
OBVIOUS

\* A value that completes a byte and begins the next one.
LEMMA DecodeBelow ==
    ASSUME NEW s, s.shift \in Nat, NEW v, NEW k \in Nat, s.shift + k = 5, k > 0
    PROVE  DecodeValue(s, v) = [ bytes |-> Append(s.bytes, Or(s.carry, ShiftRight(v, k))),
                                 shift |-> s.shift + 3, carry |-> ShiftLeft(8, v, s.shift + 3) ]
<1>. DEFINE h == s.shift - 5
<1>1. h \in Int /\ h + k = 0 /\ h < 0 /\ ~(h > 0) /\ h + 8 = s.shift + 3
  OBVIOUS
<1>2. -h = k
  <2>. HIDE DEF h
  <2>. QED  BY <1>1, Negate
<1>3. DecodeValue(s, v) = [ bytes |-> Append(s.bytes, Or(s.carry, ShiftRight(v, -h))),
                            shift |-> h + 8, carry |-> ShiftLeft(8, v, h + 8) ]
  BY <1>1, Zenon DEF DecodeValue
<1>. HIDE DEF h
<1>. QED  BY <1>1, <1>2, <1>3

\* One round of decode, for each number of bits that are missing: one bit.
LEMMA Gather1 ==
    ASSUME NEW u, NEW c \in Nat, c < 256, c % 2 = 0, NEW v \in Nat, v < 32
    PROVE  /\ DecodeValue(Gathered(u, 1, c), v)
                = Gathered(Append(u, c + v \div 16), 4, (16 * v) % 256)
           /\ c + v \div 16 < 256
           /\ (16 * v) % 256 < 256 /\ ((16 * v) % 256) % 16 = 0
<1>. DEFINE e == v \div 16
            f == (16 * v) % 256
            s == Gathered(u, 1, c)
<1>1. e \in Nat /\ e < 2 /\ e < 256
  OBVIOUS
<1>2. ShiftRight(v, 4) = e
  BY ShiftRights
<1>3. c + e < 256
  <2>. HIDE DEF e, f
  <2>. QED  BY <1>1
<1>4. f \in Nat /\ f < 256 /\ f % 16 = 0 /\ ShiftLeft(8, v, 4) = f
  BY ShiftLefts
<1>. HIDE DEF e, f
<1>5. c \in Word /\ e \in Word
  BY <1>1, NatIsByte
<1>6. Or(c, e) = c + e
  BY <1>1, <1>5, OrAdds
<1>8. s.bytes = u /\ s.shift = 1 /\ s.carry = c
  BY DEF Gathered
<1>. HIDE DEF s
<1>9. DecodeValue(s, v) = [ bytes |-> Append(u, Or(c, ShiftRight(v, 4))),
                            shift |-> 4, carry |-> ShiftLeft(8, v, 4) ]
  <2>1. /\ s.shift \in Nat /\ 4 \in Nat /\ 4 > 0
        /\ s.shift + 4 = 5 /\ s.shift + 3 = 4
    BY <1>8
  <2>2. DecodeValue(s, v) = [ bytes |-> Append(s.bytes, Or(s.carry, ShiftRight(v, 4))),
                              shift |-> s.shift + 3, carry |-> ShiftLeft(8, v, s.shift + 3) ]
    BY <2>1, DecodeBelow
  <2>. QED  BY <1>8, <2>1, <2>2
<1>10. DecodeValue(s, v) = Gathered(Append(u, c + e), 4, f)
  BY <1>2, <1>4, <1>6, <1>9 DEF Gathered
<1>. QED  BY <1>3, <1>4, <1>10 DEF e, f, s

\* Two bits are missing.
LEMMA Gather2 ==
    ASSUME NEW u, NEW c \in Nat, c < 256, c % 4 = 0, NEW v \in Nat, v < 32
    PROVE  /\ DecodeValue(Gathered(u, 2, c), v)
                = Gathered(Append(u, c + v \div 8), 5, (32 * v) % 256)
           /\ c + v \div 8 < 256
           /\ (32 * v) % 256 < 256 /\ ((32 * v) % 256) % 32 = 0
<1>. DEFINE e == v \div 8
            f == (32 * v) % 256
            s == Gathered(u, 2, c)
<1>1. e \in Nat /\ e < 4 /\ e < 256
  OBVIOUS
<1>2. ShiftRight(v, 3) = e
  BY ShiftRights
<1>3. c + e < 256
  <2>. HIDE DEF e, f
  <2>. QED  BY <1>1
<1>4. f \in Nat /\ f < 256 /\ f % 32 = 0 /\ ShiftLeft(8, v, 5) = f
  BY ShiftLefts
<1>. HIDE DEF e, f
<1>5. c \in Word /\ e \in Word
  BY <1>1, NatIsByte
<1>6. Or(c, e) = c + e
  BY <1>1, <1>5, OrAdds
<1>8. s.bytes = u /\ s.shift = 2 /\ s.carry = c
  BY DEF Gathered
<1>. HIDE DEF s
<1>9. DecodeValue(s, v) = [ bytes |-> Append(u, Or(c, ShiftRight(v, 3))),
                            shift |-> 5, carry |-> ShiftLeft(8, v, 5) ]
  <2>1. /\ s.shift \in Nat /\ 3 \in Nat /\ 3 > 0
        /\ s.shift + 3 = 5 /\ s.shift + 3 = 5
    BY <1>8
  <2>2. DecodeValue(s, v) = [ bytes |-> Append(s.bytes, Or(s.carry, ShiftRight(v, 3))),
                              shift |-> s.shift + 3, carry |-> ShiftLeft(8, v, s.shift + 3) ]
    BY <2>1, DecodeBelow
  <2>. QED  BY <1>8, <2>1, <2>2
<1>10. DecodeValue(s, v) = Gathered(Append(u, c + e), 5, f)
  BY <1>2, <1>4, <1>6, <1>9 DEF Gathered
<1>. QED  BY <1>3, <1>4, <1>10 DEF e, f, s

\* Three bits are missing.
LEMMA Gather3 ==
    ASSUME NEW u, NEW c \in Nat, c < 256, c % 8 = 0, NEW v \in Nat, v < 32
    PROVE  /\ DecodeValue(Gathered(u, 3, c), v)
                = Gathered(Append(u, c + v \div 4), 6, (64 * v) % 256)
           /\ c + v \div 4 < 256
           /\ (64 * v) % 256 < 256 /\ ((64 * v) % 256) % 64 = 0
<1>. DEFINE e == v \div 4
            f == (64 * v) % 256
            s == Gathered(u, 3, c)
<1>1. e \in Nat /\ e < 8 /\ e < 256
  OBVIOUS
<1>2. ShiftRight(v, 2) = e
  BY ShiftRights
<1>3. c + e < 256
  <2>. HIDE DEF e, f
  <2>. QED  BY <1>1
<1>4. f \in Nat /\ f < 256 /\ f % 64 = 0 /\ ShiftLeft(8, v, 6) = f
  BY ShiftLefts
<1>. HIDE DEF e, f
<1>5. c \in Word /\ e \in Word
  BY <1>1, NatIsByte
<1>6. Or(c, e) = c + e
  BY <1>1, <1>5, OrAdds
<1>8. s.bytes = u /\ s.shift = 3 /\ s.carry = c
  BY DEF Gathered
<1>. HIDE DEF s
<1>9. DecodeValue(s, v) = [ bytes |-> Append(u, Or(c, ShiftRight(v, 2))),
                            shift |-> 6, carry |-> ShiftLeft(8, v, 6) ]
  <2>1. /\ s.shift \in Nat /\ 2 \in Nat /\ 2 > 0
        /\ s.shift + 2 = 5 /\ s.shift + 3 = 6
    BY <1>8
  <2>2. DecodeValue(s, v) = [ bytes |-> Append(s.bytes, Or(s.carry, ShiftRight(v, 2))),
                              shift |-> s.shift + 3, carry |-> ShiftLeft(8, v, s.shift + 3) ]
    BY <2>1, DecodeBelow
  <2>. QED  BY <1>8, <2>1, <2>2
<1>10. DecodeValue(s, v) = Gathered(Append(u, c + e), 6, f)
  BY <1>2, <1>4, <1>6, <1>9 DEF Gathered
<1>. QED  BY <1>3, <1>4, <1>10 DEF e, f, s

\* Four bits are missing.
LEMMA Gather4 ==
    ASSUME NEW u, NEW c \in Nat, c < 256, c % 16 = 0, NEW v \in Nat, v < 32
    PROVE  /\ DecodeValue(Gathered(u, 4, c), v)
                = Gathered(Append(u, c + v \div 2), 7, (128 * v) % 256)
           /\ c + v \div 2 < 256
           /\ (128 * v) % 256 < 256 /\ ((128 * v) % 256) % 128 = 0
<1>. DEFINE e == v \div 2
            f == (128 * v) % 256
            s == Gathered(u, 4, c)
<1>1. e \in Nat /\ e < 16 /\ e < 256
  OBVIOUS
<1>2. ShiftRight(v, 1) = e
  BY ShiftRights
<1>3. c + e < 256
  <2>. HIDE DEF e, f
  <2>. QED  BY <1>1
<1>4. f \in Nat /\ f < 256 /\ f % 128 = 0 /\ ShiftLeft(8, v, 7) = f
  BY ShiftLefts
<1>. HIDE DEF e, f
<1>5. c \in Word /\ e \in Word
  BY <1>1, NatIsByte
<1>6. Or(c, e) = c + e
  BY <1>1, <1>5, OrAdds
<1>8. s.bytes = u /\ s.shift = 4 /\ s.carry = c
  BY DEF Gathered
<1>. HIDE DEF s
<1>9. DecodeValue(s, v) = [ bytes |-> Append(u, Or(c, ShiftRight(v, 1))),
                            shift |-> 7, carry |-> ShiftLeft(8, v, 7) ]
  <2>1. /\ s.shift \in Nat /\ 1 \in Nat /\ 1 > 0
        /\ s.shift + 1 = 5 /\ s.shift + 3 = 7
    BY <1>8
  <2>2. DecodeValue(s, v) = [ bytes |-> Append(s.bytes, Or(s.carry, ShiftRight(v, 1))),
                              shift |-> s.shift + 3, carry |-> ShiftLeft(8, v, s.shift + 3) ]
    BY <2>1, DecodeBelow
  <2>. QED  BY <1>8, <2>1, <2>2
<1>10. DecodeValue(s, v) = Gathered(Append(u, c + e), 7, f)
  BY <1>2, <1>4, <1>6, <1>9 DEF Gathered
<1>. QED  BY <1>3, <1>4, <1>10 DEF e, f, s

\* Five bits are missing: the byte is complete and nothing is left of the value.
LEMMA Gather5 ==
    ASSUME NEW u, NEW c \in Nat, c < 256, c % 32 = 0, NEW v \in Nat, v < 32
    PROVE  /\ DecodeValue(Gathered(u, 5, c), v) = Gathered(Append(u, c + v), 8, 0)
           /\ c + v < 256
<1>. DEFINE s == Gathered(u, 5, c)
<1>3. c + v < 256 /\ v < 256
  OBVIOUS
<1>4. c \in Word /\ v \in Word
  BY <1>3, NatIsByte
<1>5. Or(c, v) = c + v
  BY <1>4, OrAdds
<1>6. 5 - 5 = 0
  OBVIOUS
<1>7. s.bytes = u /\ s.shift = 5 /\ s.carry = c
  BY DEF Gathered
<1>8. DecodeValue(s, v) = [bytes |-> Append(u, Or(c, v)), shift |-> 8, carry |-> 0]
  <2>. HIDE DEF s
  <2>. QED  BY <1>6, <1>7 DEF DecodeValue
<1>. QED  BY <1>3, <1>5, <1>8 DEF Gathered

\* Six bits are missing: the value does not complete the byte.
LEMMA Gather6 ==
    ASSUME NEW u, NEW c \in Nat, c < 256, c % 64 = 0, NEW v \in Nat, v < 32
    PROVE  /\ DecodeValue(Gathered(u, 6, c), v) = Gathered(u, 1, c + 2 * v)
           /\ c + 2 * v < 256 /\ (c + 2 * v) % 2 = 0
<1>. DEFINE e == 2 * v
            s == Gathered(u, 6, c)
<1>1. e \in Nat /\ e < 64 /\ e < 256
  OBVIOUS
<1>2. ShiftLeft(8, v, 1) = e
  <2>1. ShiftLeft(8, v, 1) = (2 * v) % 256
    BY ShiftLefts
  <2>. QED  BY <1>1, <2>1
<1>3. c + e < 256 /\ (c + e) % 2 = 0
  OBVIOUS
<1>. HIDE DEF e
<1>4. c \in Word /\ e \in Word
  BY <1>1, NatIsByte
<1>5. Or(c, e) = c + e
  BY <1>1, <1>4, OrAdds
<1>6. 6 - 5 = 1 /\ 1 > 0
  OBVIOUS
<1>7. s.bytes = u /\ s.shift = 6 /\ s.carry = c
  BY DEF Gathered
<1>8. DecodeValue(s, v) = [s EXCEPT !.shift = 1, !.carry = Or(@, ShiftLeft(8, v, 1))]
  <2>. HIDE DEF s
  <2>. QED  BY <1>6, <1>7 DEF DecodeValue
<1>9. DecodeValue(s, v) = Gathered(u, 1, c + e)
  BY <1>2, <1>5, <1>8 DEF Gathered
<1>. QED  BY <1>3, <1>9 DEF e

\* Seven bits are missing.
LEMMA Gather7 ==
    ASSUME NEW u, NEW c \in Nat, c < 256, c % 128 = 0, NEW v \in Nat, v < 32
    PROVE  /\ DecodeValue(Gathered(u, 7, c), v) = Gathered(u, 2, c + 4 * v)
           /\ c + 4 * v < 256 /\ (c + 4 * v) % 4 = 0
<1>. DEFINE e == 4 * v
            s == Gathered(u, 7, c)
<1>1. e \in Nat /\ e < 128 /\ e < 256
  OBVIOUS
<1>2. ShiftLeft(8, v, 2) = e
  <2>1. ShiftLeft(8, v, 2) = (4 * v) % 256
    BY ShiftLefts
  <2>. QED  BY <1>1, <2>1
<1>3. c + e < 256 /\ (c + e) % 4 = 0
  OBVIOUS
<1>. HIDE DEF e
<1>4. c \in Word /\ e \in Word
  BY <1>1, NatIsByte
<1>5. Or(c, e) = c + e
  BY <1>1, <1>4, OrAdds
<1>6. 7 - 5 = 2 /\ 2 > 0
  OBVIOUS
<1>7. s.bytes = u /\ s.shift = 7 /\ s.carry = c
  BY DEF Gathered
<1>8. DecodeValue(s, v) = [s EXCEPT !.shift = 2, !.carry = Or(@, ShiftLeft(8, v, 2))]
  <2>. HIDE DEF s
  <2>. QED  BY <1>6, <1>7 DEF DecodeValue
<1>9. DecodeValue(s, v) = Gathered(u, 2, c + e)
  BY <1>2, <1>5, <1>8 DEF Gathered
<1>. QED  BY <1>3, <1>9 DEF e

\* A byte begins.
LEMMA Gather8 ==
    ASSUME NEW u, NEW c \in Nat, c < 256, c % 256 = 0, NEW v \in Nat, v < 32
    PROVE  /\ DecodeValue(Gathered(u, 8, c), v) = Gathered(u, 3, c + 8 * v)
           /\ c + 8 * v < 256 /\ (c + 8 * v) % 8 = 0
<1>. DEFINE e == 8 * v
            s == Gathered(u, 8, c)
<1>1. e \in Nat /\ e < 256 /\ e < 256
  OBVIOUS
<1>2. ShiftLeft(8, v, 3) = e
  <2>1. ShiftLeft(8, v, 3) = (8 * v) % 256
    BY ShiftLefts
  <2>. QED  BY <1>1, <2>1
<1>3. c + e < 256 /\ (c + e) % 8 = 0
  OBVIOUS
<1>. HIDE DEF e
<1>4. c \in Word /\ e \in Word
  BY <1>1, NatIsByte
<1>5. Or(c, e) = c + e
  BY <1>1, <1>4, OrAdds
<1>6. 8 - 5 = 3 /\ 3 > 0
  OBVIOUS
<1>7. s.bytes = u /\ s.shift = 8 /\ s.carry = c
  BY DEF Gathered
<1>8. DecodeValue(s, v) = [s EXCEPT !.shift = 3, !.carry = Or(@, ShiftLeft(8, v, 3))]
  <2>. HIDE DEF s
  <2>. QED  BY <1>6, <1>7 DEF DecodeValue
<1>9. DecodeValue(s, v) = Gathered(u, 3, c + e)
  BY <1>2, <1>5, <1>8 DEF Gathered
<1>. QED  BY <1>3, <1>9 DEF e

\* The states of the loop of decode.
LEMMA GatheredIsState ==
    ASSUME NEW u \in Seq(Byte), NEW s \in 1 .. 8, NEW c \in Nat, c < 256, Fits(s, c)
    PROVE  Gathered(u, s, c) \in DecodeStates
<1>1. c \in Byte
  BY NatIsByte
<1>. QED  BY <1>1 DEF Gathered, DecodeStates

\* decode gathers bytes.
LEMMA AppendByte ==
    ASSUME NEW u \in Seq(Byte), NEW c \in Nat, c < 256
    PROVE  Append(u, c) \in Seq(Byte)
<1>1. c \in Byte
  BY NatIsByte
<1>. QED  BY <1>1

\* One round of decode leads from states of its loop to states of its loop.
LEMMA DecodeValueType ==
    ASSUME NEW s \in DecodeStates, NEW v \in Quintet
    PROVE  DecodeValue(s, v) \in DecodeStates
<1>. DEFINE u == s.bytes
            c == s.carry
            h == s.shift
<1>1. u \in Seq(Byte) /\ h \in 1 .. 8 /\ c \in Byte /\ Fits(h, c) /\ s = Gathered(u, h, c)
  BY DEF DecodeStates, Gathered
<1>2. c \in Nat /\ c < 256 /\ v \in Nat /\ v < 32
  BY <1>1, ByteIsNat, QuintetIsNat
<1>. HIDE DEF u, c, h
<1>3. CASE h = 1 /\ c % 2 = 0
  <2>. DEFINE d == (16 * v) % 256
              e == c + v \div 16
  <2>1. DecodeValue(Gathered(u, 1, c), v) = Gathered(Append(u, e), 4, d)
    BY <1>2, <1>3, Gather1
  <2>2. d \in Nat /\ d < 256 /\ d % 16 = 0 /\ 4 \in 1 .. 8
    BY <1>2, <1>3, Gather1
  <2>3. e \in Nat /\ e < 256
    BY <1>2, <1>3, Gather1
  <2>. HIDE DEF d, e
  <2>4. Fits(4, d) /\ Append(u, e) \in Seq(Byte)
    BY <1>1, <2>2, <2>3, AppendByte DEF Fits
  <2>. QED  BY <1>1, <1>3, <2>1, <2>2, <2>4, GatheredIsState
<1>4. CASE h = 2 /\ c % 4 = 0
  <2>. DEFINE d == (32 * v) % 256
              e == c + v \div 8
  <2>1. DecodeValue(Gathered(u, 2, c), v) = Gathered(Append(u, e), 5, d)
    BY <1>2, <1>4, Gather2
  <2>2. d \in Nat /\ d < 256 /\ d % 32 = 0 /\ 5 \in 1 .. 8
    BY <1>2, <1>4, Gather2
  <2>3. e \in Nat /\ e < 256
    BY <1>2, <1>4, Gather2
  <2>. HIDE DEF d, e
  <2>4. Fits(5, d) /\ Append(u, e) \in Seq(Byte)
    BY <1>1, <2>2, <2>3, AppendByte DEF Fits
  <2>. QED  BY <1>1, <1>4, <2>1, <2>2, <2>4, GatheredIsState
<1>5. CASE h = 3 /\ c % 8 = 0
  <2>. DEFINE d == (64 * v) % 256
              e == c + v \div 4
  <2>1. DecodeValue(Gathered(u, 3, c), v) = Gathered(Append(u, e), 6, d)
    BY <1>2, <1>5, Gather3
  <2>2. d \in Nat /\ d < 256 /\ d % 64 = 0 /\ 6 \in 1 .. 8
    BY <1>2, <1>5, Gather3
  <2>3. e \in Nat /\ e < 256
    BY <1>2, <1>5, Gather3
  <2>. HIDE DEF d, e
  <2>4. Fits(6, d) /\ Append(u, e) \in Seq(Byte)
    BY <1>1, <2>2, <2>3, AppendByte DEF Fits
  <2>. QED  BY <1>1, <1>5, <2>1, <2>2, <2>4, GatheredIsState
<1>6. CASE h = 4 /\ c % 16 = 0
  <2>. DEFINE d == (128 * v) % 256
              e == c + v \div 2
  <2>1. DecodeValue(Gathered(u, 4, c), v) = Gathered(Append(u, e), 7, d)
    BY <1>2, <1>6, Gather4
  <2>2. d \in Nat /\ d < 256 /\ d % 128 = 0 /\ 7 \in 1 .. 8
    BY <1>2, <1>6, Gather4
  <2>3. e \in Nat /\ e < 256
    BY <1>2, <1>6, Gather4
  <2>. HIDE DEF d, e
  <2>4. Fits(7, d) /\ Append(u, e) \in Seq(Byte)
    BY <1>1, <2>2, <2>3, AppendByte DEF Fits
  <2>. QED  BY <1>1, <1>6, <2>1, <2>2, <2>4, GatheredIsState
<1>7. CASE h = 5 /\ c % 32 = 0
  <2>. DEFINE d == 0
              e == c + v
  <2>1. DecodeValue(Gathered(u, 5, c), v) = Gathered(Append(u, e), 8, d)
    BY <1>2, <1>7, Gather5
  <2>2. d \in Nat /\ d < 256 /\ d % 256 = 0 /\ 8 \in 1 .. 8
    BY <1>2, <1>7, Gather5
  <2>3. e \in Nat /\ e < 256
    BY <1>2, <1>7, Gather5
  <2>. HIDE DEF d, e
  <2>4. Fits(8, d) /\ Append(u, e) \in Seq(Byte)
    BY <1>1, <2>2, <2>3, AppendByte DEF Fits
  <2>. QED  BY <1>1, <1>7, <2>1, <2>2, <2>4, GatheredIsState
<1>8. CASE h = 6 /\ c % 64 = 0
  <2>. DEFINE d == c + 2 * v
  <2>1. DecodeValue(Gathered(u, 6, c), v) = Gathered(u, 1, d)
    BY <1>2, <1>8, Gather6
  <2>2. d \in Nat /\ d < 256 /\ d % 2 = 0 /\ 1 \in 1 .. 8
    BY <1>2, <1>8, Gather6
  <2>. HIDE DEF d
  <2>4. Fits(1, d) /\ u \in Seq(Byte)
    BY <1>1, <2>2 DEF Fits
  <2>. QED  BY <1>1, <1>8, <2>1, <2>2, <2>4, GatheredIsState
<1>9. CASE h = 7 /\ c % 128 = 0
  <2>. DEFINE d == c + 4 * v
  <2>1. DecodeValue(Gathered(u, 7, c), v) = Gathered(u, 2, d)
    BY <1>2, <1>9, Gather7
  <2>2. d \in Nat /\ d < 256 /\ d % 4 = 0 /\ 2 \in 1 .. 8
    BY <1>2, <1>9, Gather7
  <2>. HIDE DEF d
  <2>4. Fits(2, d) /\ u \in Seq(Byte)
    BY <1>1, <2>2 DEF Fits
  <2>. QED  BY <1>1, <1>9, <2>1, <2>2, <2>4, GatheredIsState
<1>10. CASE h = 8 /\ c % 256 = 0
  <2>. DEFINE d == c + 8 * v
  <2>1. DecodeValue(Gathered(u, 8, c), v) = Gathered(u, 3, d)
    BY <1>2, <1>10, Gather8
  <2>2. d \in Nat /\ d < 256 /\ d % 8 = 0 /\ 3 \in 1 .. 8
    BY <1>2, <1>10, Gather8
  <2>. HIDE DEF d
  <2>4. Fits(3, d) /\ u \in Seq(Byte)
    BY <1>1, <2>2 DEF Fits
  <2>. QED  BY <1>1, <1>10, <2>1, <2>2, <2>4, GatheredIsState
<1>. QED  BY <1>1, <1>3, <1>4, <1>5, <1>6, <1>7, <1>8, <1>9, <1>10 DEF Fits

\* DecodeLoop is the loop: its first state, and one round per value.
LEMMA DecodeRuns ==
    ASSUME NEW w \in Seq(Quintet)
    PROVE  /\ \A i \in 0 .. Len(w) : DecodeLoop(w)[i] \in DecodeStates
           /\ DecodeLoop(w)[0] = Gathered(<<>>, 8, 0)
           /\ \A i \in 1 .. Len(w) : DecodeLoop(w)[i] = DecodeValue(DecodeLoop(w)[i - 1], w[i])
<1>. DEFINE n == Len(w)
            x == [bytes |-> <<>>, shift |-> 8, carry |-> 0]
            X == DecodeStates
            g == [i \in 1 .. n |-> [s \in X |-> DecodeValue(s, w[i])]]
            Eq(f) == f = [i \in 0 .. n |-> IF i = 0 THEN x ELSE DecodeValue(f[i - 1], w[i])]
            F == CHOOSE f : Eq(f)
<1>1. n \in Nat /\ \A i \in 1 .. n : w[i] \in Quintet
  OBVIOUS
<1>2. x \in X /\ x = Gathered(<<>>, 8, 0)
  <2>1. x = Gathered(<<>>, 8, 0)
    BY DEF Gathered
  <2>2. Fits(8, 0)
    BY DEF Fits
  <2>. HIDE DEF x
  <2>3. <<>> \in Seq(Byte)
    OBVIOUS
  <2>4. Gathered(<<>>, 8, 0) \in DecodeStates
    <3>1. 8 \in 1 .. 8 /\ 0 \in Nat /\ 0 < 256
      OBVIOUS
    <3>. QED  BY <3>1, <2>2, <2>3, GatheredIsState
  <2>. QED  BY <2>1, <2>4
<1>3. g \in [1 .. n -> [X -> X]]
  <2>. HIDE DEF X, n
  <2>. QED  BY <1>1, DecodeValueType DEF X
<1>4. PICK f : Run(f, X, x, n, g)
  <2>. HIDE DEF X, x, g, n
  <2>. QED  BY <1>1, <1>2, <1>3, LoopRuns DEF Loop
<1>5. Eq(f)
  <2>. HIDE DEF X, x, n
  <2>1. ASSUME NEW i \in 0 .. n, i # 0
        PROVE  g[i][f[i - 1]] = DecodeValue(f[i - 1], w[i])
    <3>1. i \in 1 .. n /\ i - 1 \in 0 .. n
      BY <1>1, <2>1
    <3>2. f[i - 1] \in X
      BY <1>4, <3>1 DEF Run
    <3>. QED  BY <3>1, <3>2
  <2>. HIDE DEF g
  <2>2. ASSUME NEW i \in 0 .. n
        PROVE  f[i] = IF i = 0 THEN x ELSE DecodeValue(f[i - 1], w[i])
    <3>1. CASE i = 0
      BY <1>4, <3>1 DEF Run
    <3>2. CASE i # 0
      <4>1. i \in 1 .. n
        BY <1>1, <3>2
      <4>2. f[i] = g[i][f[i - 1]]
        BY <1>4, <4>1 DEF Run
      <4>. QED  BY <2>1, <3>2, <4>2
    <3>. QED  BY <3>1, <3>2
  <2>. QED  BY <1>4, <2>2 DEF Run
<1>6. DecodeLoop(w) = F
  BY DEF DecodeLoop
<1>7. Eq(F)
  <2>. HIDE DEF Eq
  <2>. QED  BY <1>5
<1>. HIDE DEF F, x, n
<1>8. F[0] = x /\ \A i \in 1 .. n : F[i] = DecodeValue(F[i - 1], w[i])
  BY <1>1, <1>7
<1>9. \A i \in 0 .. n : F[i] \in X
  <2>. DEFINE S == {k \in Nat : k \in 0 .. n => F[k] \in X}
  <2>1. 0 \in S
    BY <1>2, <1>8
  <2>2. ASSUME NEW k \in Nat, k \in S
        PROVE  k + 1 \in S
    <3>. SUFFICES ASSUME k + 1 \in 0 .. n
                  PROVE  F[k + 1] \in X
      OBVIOUS
    <3>. DEFINE i == k + 1
    <3>1. i \in 1 .. n /\ i - 1 = k /\ k \in 0 .. n
      BY <1>1
    <3>2. F[k] \in X /\ w[i] \in Quintet
      BY <1>1, <2>2, <3>1
    <3>. HIDE DEF i, X
    <3>3. F[i] = DecodeValue(F[k], w[i])
      BY <1>8, <3>1
    <3>4. DecodeValue(F[k], w[i]) \in X
      BY <3>2, DecodeValueType DEF X
    <3>. QED  BY <3>3, <3>4 DEF i
  <2>. HIDE DEF S
  <2>3. \A k \in Nat : k \in S
    BY <2>1, <2>2, SetInduction
  <2>. QED  BY <2>3 DEF S
<1>. QED  BY <1>2, <1>6, <1>8, <1>9 DEF n

-----------------------------------------------------------------------------
(* One round of base32::decode on a group that base32::encode wrote.       *)

\* The highest bits of a byte, down to the one that is worth d.
Top(x, d) == x - (x % d)

\* decode reads a group that begins with a byte.
LEMMA GatherAt0 ==
    ASSUME NEW u, NEW x \in Nat, x < 256, NEW y \in Nat, y < 256
    PROVE  DecodeValue(Gathered(u, 8, Top(x, 256)), Within(x, 8)) = Gathered(u, 3, Top(x, 8))
<1>. DEFINE c == Top(x, 256)
            w == Within(x, 8)
<1>1. w = x \div 8
  BY DEF Within
<1>2. c = x - (x % 256)
  BY DEF Top
<1>. HIDE DEF c, w
<1>3. c \in Nat /\ c < 256 /\ c % 256 = 0 /\ w \in Nat /\ w < 32
  BY <1>1, <1>2
<1>4. c + 8 * w = Top(x, 8)
  BY <1>1, <1>2 DEF Top
<1>5. DecodeValue(Gathered(u, 8, c), w) = Gathered(u, 3, c + 8 * w)
  BY <1>3, Gather8
<1>. QED  BY <1>4, <1>5 DEF c, w

\* A group that begins at bit 1 of a byte.
LEMMA GatherAt1 ==
    ASSUME NEW u, NEW x \in Nat, x < 256, NEW y \in Nat, y < 256
    PROVE  DecodeValue(Gathered(u, 7, Top(x, 128)), Within(x, 4)) = Gathered(u, 2, Top(x, 4))
<1>. DEFINE c == Top(x, 128)
            w == Within(x, 4)
<1>1. w = (x \div 4) % 32
  BY DEF Within
<1>2. c = x - (x % 128)
  BY DEF Top
<1>. HIDE DEF c, w
<1>3. c \in Nat /\ c < 256 /\ c % 128 = 0 /\ w \in Nat /\ w < 32
  BY <1>1, <1>2
<1>4. c + 4 * w = Top(x, 4)
  BY <1>1, <1>2 DEF Top
<1>5. DecodeValue(Gathered(u, 7, c), w) = Gathered(u, 2, c + 4 * w)
  BY <1>3, Gather7
<1>. QED  BY <1>4, <1>5 DEF c, w

\* A group that begins at bit 2.
LEMMA GatherAt2 ==
    ASSUME NEW u, NEW x \in Nat, x < 256, NEW y \in Nat, y < 256
    PROVE  DecodeValue(Gathered(u, 6, Top(x, 64)), Within(x, 2)) = Gathered(u, 1, Top(x, 2))
<1>. DEFINE c == Top(x, 64)
            w == Within(x, 2)
<1>1. w = (x \div 2) % 32
  BY DEF Within
<1>2. c = x - (x % 64)
  BY DEF Top
<1>. HIDE DEF c, w
<1>3. c \in Nat /\ c < 256 /\ c % 64 = 0 /\ w \in Nat /\ w < 32
  BY <1>1, <1>2
<1>4. c + 2 * w = Top(x, 2)
  BY <1>1, <1>2 DEF Top
<1>5. DecodeValue(Gathered(u, 6, c), w) = Gathered(u, 1, c + 2 * w)
  BY <1>3, Gather6
<1>. QED  BY <1>4, <1>5 DEF c, w

\* A group that begins at bit 3, and ends with the byte.
LEMMA GatherAt3 ==
    ASSUME NEW u, NEW x \in Nat, x < 256, NEW y \in Nat, y < 256
    PROVE  DecodeValue(Gathered(u, 5, Top(x, 32)), Within(x, 1))
               = Gathered(Append(u, x), 8, Top(y, 256))
<1>. DEFINE c == Top(x, 32)
            w == Within(x, 1)
<1>1. w = x % 32
  BY DEF Within
<1>2. c = x - (x % 32)
  BY DEF Top
<1>. HIDE DEF c, w
<1>3. c \in Nat /\ c < 256 /\ c % 32 = 0 /\ w \in Nat /\ w < 32
  BY <1>1, <1>2
<1>4. c + w = x
  BY <1>1, <1>2
<1>5. Top(y, 256) = 0
  BY DEF Top
<1>6. DecodeValue(Gathered(u, 5, c), w) = Gathered(Append(u, c + w), 8, 0)
  BY <1>3, Gather5
<1>. QED  BY <1>4, <1>5, <1>6 DEF c, w

\* A group with four bits in the byte and one in the next.
LEMMA GatherAt4 ==
    ASSUME NEW u, NEW x \in Nat, x < 256, NEW y \in Nat, y < 256
    PROVE  DecodeValue(Gathered(u, 4, Top(x, 16)), Across(x, y, 2))
               = Gathered(Append(u, x), 7, Top(y, 128))
<1>. DEFINE c == Top(x, 16)
            w == Across(x, y, 2)
<1>1. w = 2 * (x % 16) + y \div 128
  <2>1. 32 \div 2 = 16 /\ 256 \div 2 = 128
    OBVIOUS
  <2>. QED  BY <2>1 DEF Across
<1>2. c = x - (x % 16)
  BY DEF Top
<1>. HIDE DEF c, w
<1>3. c \in Nat /\ c < 256 /\ c % 16 = 0 /\ w \in Nat /\ w < 32
  BY <1>1, <1>2
<1>4. c + w \div 2 = x
  BY <1>1, <1>2
<1>5. (128 * w) % 256 = Top(y, 128)
  BY <1>1 DEF Top
<1>6. DecodeValue(Gathered(u, 4, c), w) = Gathered(Append(u, c + w \div 2), 7, (128 * w) % 256)
  BY <1>3, Gather4
<1>. QED  BY <1>4, <1>5, <1>6 DEF c, w

\* A group with three bits in the byte.
LEMMA GatherAt5 ==
    ASSUME NEW u, NEW x \in Nat, x < 256, NEW y \in Nat, y < 256
    PROVE  DecodeValue(Gathered(u, 3, Top(x, 8)), Across(x, y, 4))
               = Gathered(Append(u, x), 6, Top(y, 64))
<1>. DEFINE c == Top(x, 8)
            w == Across(x, y, 4)
<1>1. w = 4 * (x % 8) + y \div 64
  <2>1. 32 \div 4 = 8 /\ 256 \div 4 = 64
    OBVIOUS
  <2>. QED  BY <2>1 DEF Across
<1>2. c = x - (x % 8)
  BY DEF Top
<1>. HIDE DEF c, w
<1>3. c \in Nat /\ c < 256 /\ c % 8 = 0 /\ w \in Nat /\ w < 32
  BY <1>1, <1>2
<1>4. c + w \div 4 = x
  BY <1>1, <1>2
<1>5. (64 * w) % 256 = Top(y, 64)
  BY <1>1 DEF Top
<1>6. DecodeValue(Gathered(u, 3, c), w) = Gathered(Append(u, c + w \div 4), 6, (64 * w) % 256)
  BY <1>3, Gather3
<1>. QED  BY <1>4, <1>5, <1>6 DEF c, w

\* A group with two bits in the byte.
LEMMA GatherAt6 ==
    ASSUME NEW u, NEW x \in Nat, x < 256, NEW y \in Nat, y < 256
    PROVE  DecodeValue(Gathered(u, 2, Top(x, 4)), Across(x, y, 8))
               = Gathered(Append(u, x), 5, Top(y, 32))
<1>. DEFINE c == Top(x, 4)
            w == Across(x, y, 8)
<1>1. w = 8 * (x % 4) + y \div 32
  <2>1. 32 \div 8 = 4 /\ 256 \div 8 = 32
    OBVIOUS
  <2>. QED  BY <2>1 DEF Across
<1>2. c = x - (x % 4)
  BY DEF Top
<1>. HIDE DEF c, w
<1>3. c \in Nat /\ c < 256 /\ c % 4 = 0 /\ w \in Nat /\ w < 32
  BY <1>1, <1>2
<1>4. c + w \div 8 = x
  BY <1>1, <1>2
<1>5. (32 * w) % 256 = Top(y, 32)
  BY <1>1 DEF Top
<1>6. DecodeValue(Gathered(u, 2, c), w) = Gathered(Append(u, c + w \div 8), 5, (32 * w) % 256)
  BY <1>3, Gather2
<1>. QED  BY <1>4, <1>5, <1>6 DEF c, w

\* A group with one bit in the byte.
LEMMA GatherAt7 ==
    ASSUME NEW u, NEW x \in Nat, x < 256, NEW y \in Nat, y < 256
    PROVE  DecodeValue(Gathered(u, 1, Top(x, 2)), Across(x, y, 16))
               = Gathered(Append(u, x), 4, Top(y, 16))
<1>. DEFINE c == Top(x, 2)
            w == Across(x, y, 16)
<1>1. w = 16 * (x % 2) + y \div 16
  <2>1. 32 \div 16 = 2 /\ 256 \div 16 = 16
    OBVIOUS
  <2>. QED  BY <2>1 DEF Across
<1>2. c = x - (x % 2)
  BY DEF Top
<1>. HIDE DEF c, w
<1>3. c \in Nat /\ c < 256 /\ c % 2 = 0 /\ w \in Nat /\ w < 32
  BY <1>1, <1>2
<1>4. c + w \div 16 = x
  BY <1>1, <1>2
<1>5. (16 * w) % 256 = Top(y, 16)
  BY <1>1 DEF Top
<1>6. DecodeValue(Gathered(u, 1, c), w) = Gathered(Append(u, c + w \div 16), 4, (16 * w) % 256)
  BY <1>3, Gather1
<1>. QED  BY <1>4, <1>5, <1>6 DEF c, w

-----------------------------------------------------------------------------

\* A group is a number of five bits.
LEMMA GroupType ==
    ASSUME NEW b \in Seq(Byte), NEW g \in Nat
    PROVE  Group(b, g) \in Quintet
<1>. DEFINE j == (5 * g) \div 8
            x == ByteAt(b, j + 1)
            y == ByteAt(b, j + 2)
<1>1. j \in Nat /\ (\/ 5 * g = 8 * j
        \/ 5 * g = 8 * j + 1
        \/ 5 * g = 8 * j + 2
        \/ 5 * g = 8 * j + 3
        \/ 5 * g = 8 * j + 4
        \/ 5 * g = 8 * j + 5
        \/ 5 * g = 8 * j + 6
        \/ 5 * g = 8 * j + 7)
  OBVIOUS
<1>. HIDE DEF j
<1>2. x \in Nat /\ x < 256 /\ y \in Nat /\ y < 256
  <2>. DEFINE m == j + 1
              n == j + 2
  <2>1. m \in Nat /\ n \in Nat
    BY <1>1
  <2>. HIDE DEF m, n
  <2>2. ByteAt(b, m) \in Nat /\ ByteAt(b, m) < 256
    BY <2>1, ByteAtType
  <2>3. ByteAt(b, n) \in Nat /\ ByteAt(b, n) < 256
    BY <2>1, ByteAtType
  <2>. QED  BY <2>2, <2>3 DEF m, n
<1>3. x = ByteAt(b, j + 1) /\ y = ByteAt(b, j + 2)
  OBVIOUS
<1>. HIDE DEF x, y
<1>4. /\ 5 * g = 8 * j => Group(b, g) = x \div 8
      /\ 5 * g = 8 * j + 1 => Group(b, g) = (x \div 4) % 32
      /\ 5 * g = 8 * j + 2 => Group(b, g) = (x \div 2) % 32
      /\ 5 * g = 8 * j + 3 => Group(b, g) = x % 32
      /\ 5 * g = 8 * j + 4 => Group(b, g) = 2 * (x % 16) + y \div 128
      /\ 5 * g = 8 * j + 5 => Group(b, g) = 4 * (x % 8) + y \div 64
      /\ 5 * g = 8 * j + 6 => Group(b, g) = 8 * (x % 4) + y \div 32
      /\ 5 * g = 8 * j + 7 => Group(b, g) = 16 * (x % 2) + y \div 16
  BY <1>1, <1>3, GroupAt
<1>5. /\ x \div 8 \in Nat /\ x \div 8 < 32
      /\ (x \div 4) % 32 \in Nat /\ (x \div 4) % 32 < 32
      /\ (x \div 2) % 32 \in Nat /\ (x \div 2) % 32 < 32
      /\ x % 32 \in Nat /\ x % 32 < 32
      /\ 2 * (x % 16) + y \div 128 \in Nat /\ 2 * (x % 16) + y \div 128 < 32
      /\ 4 * (x % 8) + y \div 64 \in Nat /\ 4 * (x % 8) + y \div 64 < 32
      /\ 8 * (x % 4) + y \div 32 \in Nat /\ 8 * (x % 4) + y \div 32 < 32
      /\ 16 * (x % 2) + y \div 16 \in Nat /\ 16 * (x % 2) + y \div 16 < 32
  BY <1>2
<1>6. Group(b, g) \in Nat /\ Group(b, g) < 32
  BY <1>1, <1>4, <1>5
<1>. QED  BY <1>6, NatIsQuintet

\* decode reads each letter of the alphabet as the value encode wrote it for.
LEMMA AlphabetValues ==
    ASSUME NEW v \in Quintet
    PROVE  /\ ALPHABET[v] \in 0 .. 127 /\ ~IsPadding(ALPHABET[v])
           /\ ascii_to_value_5bit(ALPHABET[v]) = v
<1>1. v \in Nat /\ v < 32
  BY QuintetIsNat
<1>2. ALPHABET[v] = IF v < 26 THEN 65 + v ELSE 50 + (v - 26)
  BY DEF ALPHABET, Quintet
<1>3. CASE v < 26
  <2>1. ALPHABET[v] = 65 + v
    BY <1>2, <1>3
  <2>. DEFINE c == 65 + v
  <2>2. /\ c \in Nat /\ c \in 0 .. 127 /\ c # 61 /\ c \in 65 .. 90 /\ c - 65 = v
        /\ ~(c \in 97 .. 122)
    BY <1>1, <1>3
  <2>3. ~(c \in 50 .. 55) /\ c # 48 /\ c # 49
    BY <1>1
  <2>. HIDE DEF c
  <2>4. ascii_to_value_5bit(c) = c - 65
    BY <2>2, <2>3 DEF ascii_to_value_5bit
  <2>5. ~IsPadding(c)
    BY <2>2 DEF IsPadding
  <2>. QED  BY <2>1, <2>2, <2>4, <2>5 DEF c
<1>4. CASE ~(v < 26)
  <2>1. ALPHABET[v] = 50 + (v - 26)
    BY <1>2, <1>4
  <2>. DEFINE c == 50 + (v - 26)
  <2>2. /\ c \in Nat /\ c \in 0 .. 127 /\ c # 61 /\ c \in 50 .. 55 /\ c - 50 + 26 = v
        /\ ~(c \in 97 .. 122)
    BY <1>1, <1>4
  <2>3. ~(c \in 65 .. 90) /\ c # 48 /\ c # 49
    BY <1>1, <1>4
  <2>. HIDE DEF c
  <2>4. ascii_to_value_5bit(c) = c - 50 + 26
    BY <2>2, <2>3 DEF ascii_to_value_5bit
  <2>5. ~IsPadding(c)
    BY <2>2 DEF IsPadding
  <2>. QED  BY <2>1, <2>2, <2>4, <2>5 DEF c
<1>. QED  BY <1>3, <1>4

Count(b) == (8 * Len(b) + 4) \div 5

\* What encode writes, letter by letter.
LEMMA EncodeType ==
    ASSUME NEW b \in Seq(Byte)
    PROVE  /\ Count(b) \in Nat
           /\ Encode(b) = [g \in 1 .. Count(b) |-> ALPHABET[Group(b, g - 1)]]
           /\ Encode(b) \in Seq(0 .. 127) /\ Len(Encode(b)) = Count(b)
<1>1. Encode(b) = [g \in 1 .. Count(b) |-> ALPHABET[Group(b, g - 1)]]
  BY EncodeIsGroups DEF GroupsOfFive, Count
<1>2. Count(b) \in Nat
  BY DEF Count
<1>3. \A g \in 1 .. Count(b) : ALPHABET[Group(b, g - 1)] \in 0 .. 127
  <2>. TAKE g \in 1 .. Count(b)
  <2>1. g - 1 \in Nat
    BY <1>2
  <2>. QED  BY <2>1, GroupType, AlphabetValues
<1>. DEFINE n == Count(b)
            A(g) == ALPHABET[Group(b, g - 1)]
            s == [g \in 1 .. n |-> A(g)]
<1>4. s \in Seq(0 .. 127) /\ Len(s) = n
  <2>1. n \in Nat /\ \A g \in 1 .. n : A(g) \in 0 .. 127
    BY <1>2, <1>3
  <2>. HIDE DEF n, A
  <2>. QED  BY <2>1
<1>. QED  BY <1>1, <1>2, <1>4

\* A text without "=" is read to its end.
LEMMA NoPadding ==
    ASSUME NEW string \in Seq(0 .. 127), \A i \in 1 .. Len(string) : ~IsPadding(string[i])
    PROVE  BeforePadding(string) = string
<1>1. {i \in 1 .. Len(string) : IsPadding(string[i])} = {}
  OBVIOUS
<1>2. SelectInSeq(string, IsPadding) = 0
  BY <1>1 DEF SelectInSeq
<1>. QED  BY <1>2 DEF BeforePadding

\* decode reads what encode wrote as the groups of the bytes.
LEMMA ValuesOfEncode ==
    ASSUME NEW b \in Seq(Byte)
    PROVE  /\ Values(Encode(b)) = [g \in 1 .. Count(b) |-> Group(b, g - 1)]
           /\ Values(Encode(b)) \in Seq(Quintet) /\ Len(Values(Encode(b))) = Count(b)
           /\ IsBase32(Encode(b))
<1>. DEFINE e == Encode(b)
            n == Count(b)
            w == [g \in 1 .. n |-> Group(b, g - 1)]
<1>1. n \in Nat /\ e = [g \in 1 .. n |-> ALPHABET[Group(b, g - 1)]] /\ e \in Seq(0 .. 127)
          /\ Len(e) = n
  BY EncodeType
<1>. HIDE DEF e, n
<1>2. ASSUME NEW g \in 1 .. n
      PROVE  /\ Group(b, g - 1) \in Quintet /\ e[g] = ALPHABET[Group(b, g - 1)]
             /\ ~IsPadding(e[g]) /\ ascii_to_value_5bit(e[g]) = Group(b, g - 1)
  <2>1. g - 1 \in Nat
    BY <1>1
  <2>2. Group(b, g - 1) \in Quintet
    BY <2>1, GroupType
  <2>3. e[g] = ALPHABET[Group(b, g - 1)]
    BY <1>1
  <2>. QED  BY <2>2, <2>3, AlphabetValues
<1>3. BeforePadding(e) = e
  BY <1>1, <1>2, NoPadding
<1>4. Values(e) = [i \in 1 .. n |-> ascii_to_value_5bit(e[i])]
  BY <1>1, <1>3 DEF Values
<1>5. Values(e) = w
  BY <1>2, <1>4
<1>6. w \in Seq(Quintet) /\ Len(w) = n /\ DOMAIN w = 1 .. n
  BY <1>1, <1>2
<1>7. IsBase32(e)
  <2>1. \A i \in 1 .. n : w[i] # NoValue
    <3>. TAKE i \in 1 .. n
    <3>1. w[i] \in Nat
      BY <1>2, QuintetIsNat
    <3>. QED  BY <3>1 DEF NoValue
  <2>. HIDE DEF w
  <2>. QED  BY <1>5, <1>6, <2>1 DEF IsBase32
<1>. QED  BY <1>5, <1>6, <1>7 DEF e, n

-----------------------------------------------------------------------------
(* The invariant of the loop of base32::decode on what encode wrote.       *)

\* The first j bytes.
Prefix(b, j) == [k \in 1 .. j |-> ByteAt(b, k)]

\* Group g begins at bit r of byte j.
BitOfGroup(g, j, r) == 5 * g = 8 * j + r

\* The state of the loop over what Encode wrote, after g of its letters: j bytes are whole,
\* and the next one down to the bit that is worth d is in carry.
DecodeAt(b, g, j, shift, d) ==
    DecodeLoop(Values(Encode(b)))[g] = Gathered(Prefix(b, j), shift, Top(ByteAt(b, j + 1), d))

DecodePlace(b, g) ==
    \E j \in Nat :
        \/ BitOfGroup(g, j, 0) /\ DecodeAt(b, g, j, 8, 256)
        \/ BitOfGroup(g, j, 1) /\ DecodeAt(b, g, j, 7, 128)
        \/ BitOfGroup(g, j, 2) /\ DecodeAt(b, g, j, 6, 64)
        \/ BitOfGroup(g, j, 3) /\ DecodeAt(b, g, j, 5, 32)
        \/ BitOfGroup(g, j, 4) /\ DecodeAt(b, g, j, 4, 16)
        \/ BitOfGroup(g, j, 5) /\ DecodeAt(b, g, j, 3, 8)
        \/ BitOfGroup(g, j, 6) /\ DecodeAt(b, g, j, 2, 4)
        \/ BitOfGroup(g, j, 7) /\ DecodeAt(b, g, j, 1, 2)

\* The first bytes, one by one, up to all of them.
LEMMA PrefixGrows ==
    ASSUME NEW b \in Seq(Byte), NEW j \in Nat
    PROVE  /\ Prefix(b, 0) = <<>>
           /\ Prefix(b, j + 1) = Append(Prefix(b, j), ByteAt(b, j + 1))
           /\ Prefix(b, Len(b)) = b
<1>1. \A k \in 1 .. j + 1 : ByteAt(b, k) \in Byte
  <2>. TAKE k \in 1 .. j + 1
  <2>1. k \in Nat
    OBVIOUS
  <2>. QED  BY <2>1, ByteAtType
<1>. DEFINE A(k) == ByteAt(b, k)
            s == [k \in 1 .. j |-> A(k)]
            t == [k \in 1 .. j + 1 |-> A(k)]
            u == [k \in 1 .. 0 |-> A(k)]
            w == [k \in 1 .. Len(b) |-> A(k)]
<1>2. \A k \in 1 .. Len(b) : A(k) = b[k]
  BY DEF ByteAt
<1>3. w = b
  <2>. HIDE DEF A
  <2>. QED  BY <1>2
<1>4. t = Append(s, A(j + 1)) /\ u = <<>>
  <2>1. \A k \in 1 .. j + 1 : A(k) \in Byte
    BY <1>1
  <2>. HIDE DEF A
  <2>2. s \in Seq(Byte) /\ t \in Seq(Byte) /\ u \in Seq(Byte)
    BY <2>1
  <2>3. Len(s) = j /\ Len(t) = j + 1 /\ Len(u) = 0
    OBVIOUS
  <2>. QED  BY <2>2, <2>3
<1>. QED  BY <1>3, <1>4 DEF Prefix

\* Two bytes in a row.
LEMMA TwoBytes ==
    ASSUME NEW b \in Seq(Byte), NEW j \in Nat
    PROVE  /\ ByteAt(b, j + 1) \in Nat /\ ByteAt(b, j + 1) < 256
           /\ ByteAt(b, j + 2) \in Nat /\ ByteAt(b, j + 2) < 256
           /\ ByteAt(b, (j + 1) + 1) = ByteAt(b, j + 2)
<1>. DEFINE k == j + 1
            l == j + 2
<1>1. k \in Nat /\ l \in Nat /\ (j + 1) + 1 = l
  OBVIOUS
<1>. HIDE DEF k, l
<1>2. ByteAt(b, k) \in Nat /\ ByteAt(b, k) < 256 /\ ByteAt(b, l) \in Nat /\ ByteAt(b, l) < 256
  BY <1>1, ByteAtType
<1>. QED  BY <1>1, <1>2 DEF k, l

\* The loop of decode before the first letter.
LEMMA DecodeStart ==
    ASSUME NEW b \in Seq(Byte)
    PROVE  DecodePlace(b, 0)
<1>. DEFINE j == 0
            x == ByteAt(b, j + 1)
<1>1. j \in Nat /\ BitOfGroup(0, j, 0)
  BY DEF BitOfGroup
<1>2. Prefix(b, j) = <<>>
  BY <1>1, PrefixGrows
<1>3. x \in Nat /\ x < 256
  BY <1>1, ByteAtType
<1>. HIDE DEF x
<1>4. Top(x, 256) = 0
  BY <1>3 DEF Top
<1>5. DecodeLoop(Values(Encode(b)))[0] = Gathered(<<>>, 8, 0)
  BY ValuesOfEncode, DecodeRuns
<1>6. DecodeAt(b, 0, j, 8, 256)
  BY <1>2, <1>4, <1>5 DEF DecodeAt, x
<1>. HIDE DEF j
<1>. QED  BY <1>1, <1>6 DEF DecodePlace

\* A letter that begins with a byte: three bits are missing after it.
LEMMA DecodeStep0 ==
    ASSUME NEW b \in Seq(Byte), NEW g \in Nat, g + 1 \in 1 .. Count(b), NEW j \in Nat,
           BitOfGroup(g, j, 0), DecodeAt(b, g, j, 8, 256)
    PROVE  DecodeAt(b, g + 1, j, 3, 8)
<1>. DEFINE x == ByteAt(b, j + 1)
            y == ByteAt(b, j + 2)
            w == Values(Encode(b))
<1>1. x \in Nat /\ x < 256 /\ y \in Nat /\ y < 256
  BY TwoBytes
<1>2. w \in Seq(Quintet) /\ Len(w) = Count(b) /\ w[g + 1] = Group(b, g)
  <2>1. (g + 1) - 1 = g
    OBVIOUS
  <2>. QED  BY <2>1, ValuesOfEncode
<1>3. DecodeLoop(w)[g + 1] = DecodeValue(DecodeLoop(w)[g], w[g + 1])
  <2>1. (g + 1) - 1 = g
    OBVIOUS
  <2>. QED  BY <1>2, <2>1, DecodeRuns
<1>4. Group(b, g) = Within(x, 8)
  <2>1. x = ByteAt(b, j + 1) /\ y = ByteAt(b, j + 2) /\ 5 * g = 8 * j
    BY DEF BitOfGroup
  <2>. HIDE DEF x, y
  <2>. QED  BY <2>1, GroupIs
<1>5. DecodeLoop(w)[g] = Gathered(Prefix(b, j), 8, Top(x, 256))
  BY DEF DecodeAt
<1>6. Prefix(b, j + 1) = Append(Prefix(b, j), x) /\ ByteAt(b, (j + 1) + 1) = y
  BY TwoBytes, PrefixGrows
<1>. HIDE DEF x, y, w
<1>7. DecodeValue(Gathered(Prefix(b, j), 8, Top(x, 256)), Within(x, 8))
       = Gathered(Prefix(b, j), 3, Top(x, 8))
  BY <1>1, GatherAt0
<1>. QED  BY <1>2, <1>3, <1>4, <1>5, <1>6, <1>7 DEF DecodeAt, w, x

\* A letter that begins at bit 1: two bits are missing after it.
LEMMA DecodeStep1 ==
    ASSUME NEW b \in Seq(Byte), NEW g \in Nat, g + 1 \in 1 .. Count(b), NEW j \in Nat,
           BitOfGroup(g, j, 1), DecodeAt(b, g, j, 7, 128)
    PROVE  DecodeAt(b, g + 1, j, 2, 4)
<1>. DEFINE x == ByteAt(b, j + 1)
            y == ByteAt(b, j + 2)
            w == Values(Encode(b))
<1>1. x \in Nat /\ x < 256 /\ y \in Nat /\ y < 256
  BY TwoBytes
<1>2. w \in Seq(Quintet) /\ Len(w) = Count(b) /\ w[g + 1] = Group(b, g)
  <2>1. (g + 1) - 1 = g
    OBVIOUS
  <2>. QED  BY <2>1, ValuesOfEncode
<1>3. DecodeLoop(w)[g + 1] = DecodeValue(DecodeLoop(w)[g], w[g + 1])
  <2>1. (g + 1) - 1 = g
    OBVIOUS
  <2>. QED  BY <1>2, <2>1, DecodeRuns
<1>4. Group(b, g) = Within(x, 4)
  <2>1. x = ByteAt(b, j + 1) /\ y = ByteAt(b, j + 2) /\ 5 * g = 8 * j + 1
    BY DEF BitOfGroup
  <2>. HIDE DEF x, y
  <2>. QED  BY <2>1, GroupIs
<1>5. DecodeLoop(w)[g] = Gathered(Prefix(b, j), 7, Top(x, 128))
  BY DEF DecodeAt
<1>6. Prefix(b, j + 1) = Append(Prefix(b, j), x) /\ ByteAt(b, (j + 1) + 1) = y
  BY TwoBytes, PrefixGrows
<1>. HIDE DEF x, y, w
<1>7. DecodeValue(Gathered(Prefix(b, j), 7, Top(x, 128)), Within(x, 4))
       = Gathered(Prefix(b, j), 2, Top(x, 4))
  BY <1>1, GatherAt1
<1>. QED  BY <1>2, <1>3, <1>4, <1>5, <1>6, <1>7 DEF DecodeAt, w, x

\* A letter that begins at bit 2: one bit is missing after it.
LEMMA DecodeStep2 ==
    ASSUME NEW b \in Seq(Byte), NEW g \in Nat, g + 1 \in 1 .. Count(b), NEW j \in Nat,
           BitOfGroup(g, j, 2), DecodeAt(b, g, j, 6, 64)
    PROVE  DecodeAt(b, g + 1, j, 1, 2)
<1>. DEFINE x == ByteAt(b, j + 1)
            y == ByteAt(b, j + 2)
            w == Values(Encode(b))
<1>1. x \in Nat /\ x < 256 /\ y \in Nat /\ y < 256
  BY TwoBytes
<1>2. w \in Seq(Quintet) /\ Len(w) = Count(b) /\ w[g + 1] = Group(b, g)
  <2>1. (g + 1) - 1 = g
    OBVIOUS
  <2>. QED  BY <2>1, ValuesOfEncode
<1>3. DecodeLoop(w)[g + 1] = DecodeValue(DecodeLoop(w)[g], w[g + 1])
  <2>1. (g + 1) - 1 = g
    OBVIOUS
  <2>. QED  BY <1>2, <2>1, DecodeRuns
<1>4. Group(b, g) = Within(x, 2)
  <2>1. x = ByteAt(b, j + 1) /\ y = ByteAt(b, j + 2) /\ 5 * g = 8 * j + 2
    BY DEF BitOfGroup
  <2>. HIDE DEF x, y
  <2>. QED  BY <2>1, GroupIs
<1>5. DecodeLoop(w)[g] = Gathered(Prefix(b, j), 6, Top(x, 64))
  BY DEF DecodeAt
<1>6. Prefix(b, j + 1) = Append(Prefix(b, j), x) /\ ByteAt(b, (j + 1) + 1) = y
  BY TwoBytes, PrefixGrows
<1>. HIDE DEF x, y, w
<1>7. DecodeValue(Gathered(Prefix(b, j), 6, Top(x, 64)), Within(x, 2))
       = Gathered(Prefix(b, j), 1, Top(x, 2))
  BY <1>1, GatherAt2
<1>. QED  BY <1>2, <1>3, <1>4, <1>5, <1>6, <1>7 DEF DecodeAt, w, x

\* A letter that begins at bit 3 completes the byte.
LEMMA DecodeStep3 ==
    ASSUME NEW b \in Seq(Byte), NEW g \in Nat, g + 1 \in 1 .. Count(b), NEW j \in Nat,
           BitOfGroup(g, j, 3), DecodeAt(b, g, j, 5, 32)
    PROVE  DecodeAt(b, g + 1, j + 1, 8, 256)
<1>. DEFINE x == ByteAt(b, j + 1)
            y == ByteAt(b, j + 2)
            w == Values(Encode(b))
<1>1. x \in Nat /\ x < 256 /\ y \in Nat /\ y < 256
  BY TwoBytes
<1>2. w \in Seq(Quintet) /\ Len(w) = Count(b) /\ w[g + 1] = Group(b, g)
  <2>1. (g + 1) - 1 = g
    OBVIOUS
  <2>. QED  BY <2>1, ValuesOfEncode
<1>3. DecodeLoop(w)[g + 1] = DecodeValue(DecodeLoop(w)[g], w[g + 1])
  <2>1. (g + 1) - 1 = g
    OBVIOUS
  <2>. QED  BY <1>2, <2>1, DecodeRuns
<1>4. Group(b, g) = Within(x, 1)
  <2>1. x = ByteAt(b, j + 1) /\ y = ByteAt(b, j + 2) /\ 5 * g = 8 * j + 3
    BY DEF BitOfGroup
  <2>. HIDE DEF x, y
  <2>. QED  BY <2>1, GroupIs
<1>5. DecodeLoop(w)[g] = Gathered(Prefix(b, j), 5, Top(x, 32))
  BY DEF DecodeAt
<1>6. Prefix(b, j + 1) = Append(Prefix(b, j), x) /\ ByteAt(b, (j + 1) + 1) = y
  BY TwoBytes, PrefixGrows
<1>. HIDE DEF x, y, w
<1>7. DecodeValue(Gathered(Prefix(b, j), 5, Top(x, 32)), Within(x, 1))
       = Gathered(Append(Prefix(b, j), x), 8, Top(y, 256))
  BY <1>1, GatherAt3
<1>8. DecodeLoop(w)[g + 1] = Gathered(Append(Prefix(b, j), x), 8, Top(y, 256))
  BY <1>2, <1>3, <1>4, <1>5, <1>7
<1>. QED  BY <1>6, <1>8 DEF DecodeAt, w

\* A letter that begins at bit 4 completes the byte and begins the next.
LEMMA DecodeStep4 ==
    ASSUME NEW b \in Seq(Byte), NEW g \in Nat, g + 1 \in 1 .. Count(b), NEW j \in Nat,
           BitOfGroup(g, j, 4), DecodeAt(b, g, j, 4, 16)
    PROVE  DecodeAt(b, g + 1, j + 1, 7, 128)
<1>. DEFINE x == ByteAt(b, j + 1)
            y == ByteAt(b, j + 2)
            w == Values(Encode(b))
<1>1. x \in Nat /\ x < 256 /\ y \in Nat /\ y < 256
  BY TwoBytes
<1>2. w \in Seq(Quintet) /\ Len(w) = Count(b) /\ w[g + 1] = Group(b, g)
  <2>1. (g + 1) - 1 = g
    OBVIOUS
  <2>. QED  BY <2>1, ValuesOfEncode
<1>3. DecodeLoop(w)[g + 1] = DecodeValue(DecodeLoop(w)[g], w[g + 1])
  <2>1. (g + 1) - 1 = g
    OBVIOUS
  <2>. QED  BY <1>2, <2>1, DecodeRuns
<1>4. Group(b, g) = Across(x, y, 2)
  <2>1. x = ByteAt(b, j + 1) /\ y = ByteAt(b, j + 2) /\ 5 * g = 8 * j + 4
    BY DEF BitOfGroup
  <2>. HIDE DEF x, y
  <2>. QED  BY <2>1, GroupIs
<1>5. DecodeLoop(w)[g] = Gathered(Prefix(b, j), 4, Top(x, 16))
  BY DEF DecodeAt
<1>6. Prefix(b, j + 1) = Append(Prefix(b, j), x) /\ ByteAt(b, (j + 1) + 1) = y
  BY TwoBytes, PrefixGrows
<1>. HIDE DEF x, y, w
<1>7. DecodeValue(Gathered(Prefix(b, j), 4, Top(x, 16)), Across(x, y, 2))
       = Gathered(Append(Prefix(b, j), x), 7, Top(y, 128))
  BY <1>1, GatherAt4
<1>. QED  BY <1>2, <1>3, <1>4, <1>5, <1>6, <1>7 DEF DecodeAt, w

\* The same at bit 5.
LEMMA DecodeStep5 ==
    ASSUME NEW b \in Seq(Byte), NEW g \in Nat, g + 1 \in 1 .. Count(b), NEW j \in Nat,
           BitOfGroup(g, j, 5), DecodeAt(b, g, j, 3, 8)
    PROVE  DecodeAt(b, g + 1, j + 1, 6, 64)
<1>. DEFINE x == ByteAt(b, j + 1)
            y == ByteAt(b, j + 2)
            w == Values(Encode(b))
<1>1. x \in Nat /\ x < 256 /\ y \in Nat /\ y < 256
  BY TwoBytes
<1>2. w \in Seq(Quintet) /\ Len(w) = Count(b) /\ w[g + 1] = Group(b, g)
  <2>1. (g + 1) - 1 = g
    OBVIOUS
  <2>. QED  BY <2>1, ValuesOfEncode
<1>3. DecodeLoop(w)[g + 1] = DecodeValue(DecodeLoop(w)[g], w[g + 1])
  <2>1. (g + 1) - 1 = g
    OBVIOUS
  <2>. QED  BY <1>2, <2>1, DecodeRuns
<1>4. Group(b, g) = Across(x, y, 4)
  <2>1. x = ByteAt(b, j + 1) /\ y = ByteAt(b, j + 2) /\ 5 * g = 8 * j + 5
    BY DEF BitOfGroup
  <2>. HIDE DEF x, y
  <2>. QED  BY <2>1, GroupIs
<1>5. DecodeLoop(w)[g] = Gathered(Prefix(b, j), 3, Top(x, 8))
  BY DEF DecodeAt
<1>6. Prefix(b, j + 1) = Append(Prefix(b, j), x) /\ ByteAt(b, (j + 1) + 1) = y
  BY TwoBytes, PrefixGrows
<1>. HIDE DEF x, y, w
<1>7. DecodeValue(Gathered(Prefix(b, j), 3, Top(x, 8)), Across(x, y, 4))
       = Gathered(Append(Prefix(b, j), x), 6, Top(y, 64))
  BY <1>1, GatherAt5
<1>. QED  BY <1>2, <1>3, <1>4, <1>5, <1>6, <1>7 DEF DecodeAt, w

\* The same at bit 6.
LEMMA DecodeStep6 ==
    ASSUME NEW b \in Seq(Byte), NEW g \in Nat, g + 1 \in 1 .. Count(b), NEW j \in Nat,
           BitOfGroup(g, j, 6), DecodeAt(b, g, j, 2, 4)
    PROVE  DecodeAt(b, g + 1, j + 1, 5, 32)
<1>. DEFINE x == ByteAt(b, j + 1)
            y == ByteAt(b, j + 2)
            w == Values(Encode(b))
<1>1. x \in Nat /\ x < 256 /\ y \in Nat /\ y < 256
  BY TwoBytes
<1>2. w \in Seq(Quintet) /\ Len(w) = Count(b) /\ w[g + 1] = Group(b, g)
  <2>1. (g + 1) - 1 = g
    OBVIOUS
  <2>. QED  BY <2>1, ValuesOfEncode
<1>3. DecodeLoop(w)[g + 1] = DecodeValue(DecodeLoop(w)[g], w[g + 1])
  <2>1. (g + 1) - 1 = g
    OBVIOUS
  <2>. QED  BY <1>2, <2>1, DecodeRuns
<1>4. Group(b, g) = Across(x, y, 8)
  <2>1. x = ByteAt(b, j + 1) /\ y = ByteAt(b, j + 2) /\ 5 * g = 8 * j + 6
    BY DEF BitOfGroup
  <2>. HIDE DEF x, y
  <2>. QED  BY <2>1, GroupIs
<1>5. DecodeLoop(w)[g] = Gathered(Prefix(b, j), 2, Top(x, 4))
  BY DEF DecodeAt
<1>6. Prefix(b, j + 1) = Append(Prefix(b, j), x) /\ ByteAt(b, (j + 1) + 1) = y
  BY TwoBytes, PrefixGrows
<1>. HIDE DEF x, y, w
<1>7. DecodeValue(Gathered(Prefix(b, j), 2, Top(x, 4)), Across(x, y, 8))
       = Gathered(Append(Prefix(b, j), x), 5, Top(y, 32))
  BY <1>1, GatherAt6
<1>. QED  BY <1>2, <1>3, <1>4, <1>5, <1>6, <1>7 DEF DecodeAt, w

\* The same at bit 7.
LEMMA DecodeStep7 ==
    ASSUME NEW b \in Seq(Byte), NEW g \in Nat, g + 1 \in 1 .. Count(b), NEW j \in Nat,
           BitOfGroup(g, j, 7), DecodeAt(b, g, j, 1, 2)
    PROVE  DecodeAt(b, g + 1, j + 1, 4, 16)
<1>. DEFINE x == ByteAt(b, j + 1)
            y == ByteAt(b, j + 2)
            w == Values(Encode(b))
<1>1. x \in Nat /\ x < 256 /\ y \in Nat /\ y < 256
  BY TwoBytes
<1>2. w \in Seq(Quintet) /\ Len(w) = Count(b) /\ w[g + 1] = Group(b, g)
  <2>1. (g + 1) - 1 = g
    OBVIOUS
  <2>. QED  BY <2>1, ValuesOfEncode
<1>3. DecodeLoop(w)[g + 1] = DecodeValue(DecodeLoop(w)[g], w[g + 1])
  <2>1. (g + 1) - 1 = g
    OBVIOUS
  <2>. QED  BY <1>2, <2>1, DecodeRuns
<1>4. Group(b, g) = Across(x, y, 16)
  <2>1. x = ByteAt(b, j + 1) /\ y = ByteAt(b, j + 2) /\ 5 * g = 8 * j + 7
    BY DEF BitOfGroup
  <2>. HIDE DEF x, y
  <2>. QED  BY <2>1, GroupIs
<1>5. DecodeLoop(w)[g] = Gathered(Prefix(b, j), 1, Top(x, 2))
  BY DEF DecodeAt
<1>6. Prefix(b, j + 1) = Append(Prefix(b, j), x) /\ ByteAt(b, (j + 1) + 1) = y
  BY TwoBytes, PrefixGrows
<1>. HIDE DEF x, y, w
<1>7. DecodeValue(Gathered(Prefix(b, j), 1, Top(x, 2)), Across(x, y, 16))
       = Gathered(Append(Prefix(b, j), x), 4, Top(y, 16))
  BY <1>1, GatherAt7
<1>. QED  BY <1>2, <1>3, <1>4, <1>5, <1>6, <1>7 DEF DecodeAt, w

\* The invariant of the loop of decode, from one letter to the next.
LEMMA DecodeOn ==
    ASSUME NEW b \in Seq(Byte), NEW g \in Nat, g + 1 \in 1 .. Count(b), DecodePlace(b, g)
    PROVE  DecodePlace(b, g + 1)
<1>1. PICK j \in Nat :
        \/ BitOfGroup(g, j, 0) /\ DecodeAt(b, g, j, 8, 256)
        \/ BitOfGroup(g, j, 1) /\ DecodeAt(b, g, j, 7, 128)
        \/ BitOfGroup(g, j, 2) /\ DecodeAt(b, g, j, 6, 64)
        \/ BitOfGroup(g, j, 3) /\ DecodeAt(b, g, j, 5, 32)
        \/ BitOfGroup(g, j, 4) /\ DecodeAt(b, g, j, 4, 16)
        \/ BitOfGroup(g, j, 5) /\ DecodeAt(b, g, j, 3, 8)
        \/ BitOfGroup(g, j, 6) /\ DecodeAt(b, g, j, 2, 4)
        \/ BitOfGroup(g, j, 7) /\ DecodeAt(b, g, j, 1, 2)
  BY DEF DecodePlace
<1>. DEFINE k == j + 1
<1>2. k \in Nat
  OBVIOUS
<1>3. CASE BitOfGroup(g, j, 0) /\ DecodeAt(b, g, j, 8, 256)
  <2>1. DecodeAt(b, g + 1, j, 3, 8)
    BY <1>3, DecodeStep0
  <2>2. BitOfGroup(g + 1, j, 5)
    BY <1>3 DEF BitOfGroup
  <2>. HIDE DEF k
  <2>. QED  BY <1>2, <2>1, <2>2 DEF DecodePlace
<1>4. CASE BitOfGroup(g, j, 1) /\ DecodeAt(b, g, j, 7, 128)
  <2>1. DecodeAt(b, g + 1, j, 2, 4)
    BY <1>4, DecodeStep1
  <2>2. BitOfGroup(g + 1, j, 6)
    BY <1>4 DEF BitOfGroup
  <2>. HIDE DEF k
  <2>. QED  BY <1>2, <2>1, <2>2 DEF DecodePlace
<1>5. CASE BitOfGroup(g, j, 2) /\ DecodeAt(b, g, j, 6, 64)
  <2>1. DecodeAt(b, g + 1, j, 1, 2)
    BY <1>5, DecodeStep2
  <2>2. BitOfGroup(g + 1, j, 7)
    BY <1>5 DEF BitOfGroup
  <2>. HIDE DEF k
  <2>. QED  BY <1>2, <2>1, <2>2 DEF DecodePlace
<1>6. CASE BitOfGroup(g, j, 3) /\ DecodeAt(b, g, j, 5, 32)
  <2>1. DecodeAt(b, g + 1, k, 8, 256)
    BY <1>6, DecodeStep3
  <2>2. BitOfGroup(g + 1, k, 0)
    BY <1>6 DEF BitOfGroup
  <2>. HIDE DEF k
  <2>. QED  BY <1>2, <2>1, <2>2 DEF DecodePlace
<1>7. CASE BitOfGroup(g, j, 4) /\ DecodeAt(b, g, j, 4, 16)
  <2>1. DecodeAt(b, g + 1, k, 7, 128)
    BY <1>7, DecodeStep4
  <2>2. BitOfGroup(g + 1, k, 1)
    BY <1>7 DEF BitOfGroup
  <2>. HIDE DEF k
  <2>. QED  BY <1>2, <2>1, <2>2 DEF DecodePlace
<1>8. CASE BitOfGroup(g, j, 5) /\ DecodeAt(b, g, j, 3, 8)
  <2>1. DecodeAt(b, g + 1, k, 6, 64)
    BY <1>8, DecodeStep5
  <2>2. BitOfGroup(g + 1, k, 2)
    BY <1>8 DEF BitOfGroup
  <2>. HIDE DEF k
  <2>. QED  BY <1>2, <2>1, <2>2 DEF DecodePlace
<1>9. CASE BitOfGroup(g, j, 6) /\ DecodeAt(b, g, j, 2, 4)
  <2>1. DecodeAt(b, g + 1, k, 5, 32)
    BY <1>9, DecodeStep6
  <2>2. BitOfGroup(g + 1, k, 3)
    BY <1>9 DEF BitOfGroup
  <2>. HIDE DEF k
  <2>. QED  BY <1>2, <2>1, <2>2 DEF DecodePlace
<1>10. CASE BitOfGroup(g, j, 7) /\ DecodeAt(b, g, j, 1, 2)
  <2>1. DecodeAt(b, g + 1, k, 4, 16)
    BY <1>10, DecodeStep7
  <2>2. BitOfGroup(g + 1, k, 4)
    BY <1>10 DEF BitOfGroup
  <2>. HIDE DEF k
  <2>. QED  BY <1>2, <2>1, <2>2 DEF DecodePlace
<1>. QED  BY <1>1, <1>3, <1>4, <1>5, <1>6, <1>7, <1>8, <1>9, <1>10

\* It holds after every letter, by induction.
LEMMA DecodePlaces ==
    ASSUME NEW b \in Seq(Byte)
    PROVE  \A g \in 0 .. Count(b) : DecodePlace(b, g)
<1>. DEFINE S == {k \in Nat : k \in 0 .. Count(b) => DecodePlace(b, k)}
<1>1. 0 \in S
  BY DecodeStart
<1>2. ASSUME NEW k \in Nat, k \in S
      PROVE  k + 1 \in S
  <2>. SUFFICES ASSUME k + 1 \in 0 .. Count(b)
                PROVE  DecodePlace(b, k + 1)
    OBVIOUS
  <2>1. Count(b) \in Nat
    BY EncodeType
  <2>2. k + 1 \in 1 .. Count(b) /\ k \in 0 .. Count(b)
    BY <2>1
  <2>3. DecodePlace(b, k)
    BY <1>2, <2>2
  <2>. QED  BY <2>2, <2>3, DecodeOn
<1>. HIDE DEF S
<1>3. \A k \in Nat : k \in S
  BY <1>1, <1>2, SetInduction
<1>. QED  BY <1>3 DEF S

\* base32::decode returns from what base32::encode wrote to the bytes.
THEOREM DecodeOfEncode == \A b \in Seq(Byte) : Decode(Encode(b)) = b
<1>. TAKE b \in Seq(Byte)
<1>. DEFINE g == Count(b)
            w == Values(Encode(b))
            s == DecodeLoop(w)[g]
<1>1. g \in Nat /\ Len(w) = g
  BY EncodeType, ValuesOfEncode
<1>2. DecodePlace(b, g)
  BY <1>1, DecodePlaces
<1>3. PICK j \in Nat :
        \/ BitOfGroup(g, j, 0) /\ DecodeAt(b, g, j, 8, 256)
        \/ BitOfGroup(g, j, 1) /\ DecodeAt(b, g, j, 7, 128)
        \/ BitOfGroup(g, j, 2) /\ DecodeAt(b, g, j, 6, 64)
        \/ BitOfGroup(g, j, 3) /\ DecodeAt(b, g, j, 5, 32)
        \/ BitOfGroup(g, j, 4) /\ DecodeAt(b, g, j, 4, 16)
        \/ BitOfGroup(g, j, 5) /\ DecodeAt(b, g, j, 3, 8)
        \/ BitOfGroup(g, j, 6) /\ DecodeAt(b, g, j, 2, 4)
        \/ BitOfGroup(g, j, 7) /\ DecodeAt(b, g, j, 1, 2)
  BY <1>2 DEF DecodePlace
<1>4. j = Len(b) /\ (DecodeAt(b, g, j, 8, 256) \/ DecodeAt(b, g, j, 7, 128)
          \/ DecodeAt(b, g, j, 6, 64) \/ DecodeAt(b, g, j, 5, 32) \/ DecodeAt(b, g, j, 4, 16))
  <2>1. Len(b) \in Nat /\ 5 * g >= 8 * Len(b) /\ 5 * g <= 8 * Len(b) + 4
    BY DEF Count
  <2>. HIDE DEF g
  <2>. QED  BY <1>1, <1>3, <2>1 DEF BitOfGroup
<1>5. ByteAt(b, j + 1) = 0
  BY <1>4 DEF ByteAt
<1>6. /\ Top(0, 256) = 0 /\ Top(0, 128) = 0 /\ Top(0, 64) = 0
      /\ Top(0, 32) = 0 /\ Top(0, 16) = 0
  BY DEF Top
<1>7. Prefix(b, j) = b
  BY <1>4, PrefixGrows
<1>8. s.bytes = b /\ s.carry = 0
  <2>. HIDE DEF g, w
  <2>. QED  BY <1>4, <1>5, <1>6, <1>7 DEF DecodeAt, Gathered, w
<1>9. Decode(Encode(b)) = IF s.shift # 8 /\ s.carry # 0 THEN Append(s.bytes, s.carry) ELSE s.bytes
  BY <1>1 DEF Decode
<1>. HIDE DEF s
<1>. QED  BY <1>8, <1>9

-----------------------------------------------------------------------------
(* base32::decode on any text.                                             *)

\* SelectInSeq finds its least index.
LEMMA LeastOfNat ==
    ASSUME NEW S \in SUBSET Nat, S # {}
    PROVE  Min(S) \in S
<1>1. PICK n \in S : TRUE
  OBVIOUS
<1>. SUFFICES ASSUME \A m \in S : \E k \in S : ~(m <= k)
              PROVE  FALSE
  BY DEF Min
<1>. DEFINE T == {i \in Nat : \A m \in S : i < m}
<1>2. 0 \in T
  <2>. SUFFICES ASSUME NEW m \in S
                PROVE  0 < m
    OBVIOUS
  <2>1. PICK k \in S : ~(m <= k)
    OBVIOUS
  <2>. QED  BY <2>1
<1>3. ASSUME NEW i \in Nat, i \in T
      PROVE  i + 1 \in T
  <2>. SUFFICES ASSUME NEW m \in S
                PROVE  i + 1 < m
    OBVIOUS
  <2>1. PICK k \in S : ~(m <= k)
    OBVIOUS
  <2>2. i < k
    BY <1>3
  <2>. QED  BY <2>1, <2>2
<1>. HIDE DEF T
<1>4. \A i \in Nat : i \in T
  BY <1>2, <1>3, SetInduction
<1>. QED  BY <1>1, <1>4 DEF T

\* The text before the padding is a text.
LEMMA BeforePaddingType ==
    ASSUME NEW S, NEW string \in Seq(S)
    PROVE  BeforePadding(string) \in Seq(S)
<1>. DEFINE I == {i \in 1 .. Len(string) : IsPadding(string[i])}
            pad == SelectInSeq(string, IsPadding)
<1>1. pad = IF I # {} THEN Min(I) ELSE 0
  BY DEF SelectInSeq
<1>2. CASE I = {}
  BY <1>1, <1>2 DEF BeforePadding
<1>3. CASE I # {}
  <2>1. I \in SUBSET Nat
    OBVIOUS
  <2>. HIDE DEF I
  <2>2. pad \in I
    BY <1>1, <1>3, <2>1, LeastOfNat
  <2>3. pad \in 1 .. Len(string)
    BY <2>2 DEF I
  <2>. HIDE DEF pad
  <2>4. SubSeq(string, 1, pad - 1) \in Seq(S)
    BY <2>3
  <2>5. pad # 0
    BY <2>3
  <2>. QED  BY <2>4, <2>5 DEF BeforePadding, pad
<1>. QED  BY <1>2, <1>3

\* A character has no value or one of five bits.
LEMMA ValueType == \A c : ascii_to_value_5bit(c) = NoValue \/ ascii_to_value_5bit(c) \in Quintet
<1>. TAKE c
<1>1. CASE c \in 97 .. 122
  <2>1. ascii_to_value_5bit(c) = c - 97
    BY <1>1 DEF ascii_to_value_5bit
  <2>. QED  BY <1>1, <2>1, NatIsQuintet
<1>2. CASE ~(c \in 97 .. 122) /\ c \in 65 .. 90
  <2>1. ~(c \in 50 .. 55) /\ c # 48 /\ c # 49
    BY <1>2
  <2>2. ascii_to_value_5bit(c) = c - 65
    BY <1>2, <2>1 DEF ascii_to_value_5bit
  <2>. QED  BY <1>2, <2>2, NatIsQuintet
<1>3. CASE ~(c \in 97 .. 122) /\ ~(c \in 65 .. 90) /\ c \in 50 .. 55
  <2>1. c # 48 /\ c # 49
    BY <1>3
  <2>2. ascii_to_value_5bit(c) = c - 50 + 26
    BY <1>3, <2>1 DEF ascii_to_value_5bit
  <2>. QED  BY <1>3, <2>2, NatIsQuintet
<1>4. CASE ~(c \in 97 .. 122) /\ ~(c \in 65 .. 90) /\ ~(c \in 50 .. 55)
  <2>1. ascii_to_value_5bit(c) = IF c = 48 THEN 14 ELSE IF c = 49 THEN 8 ELSE NoValue
    BY <1>4 DEF ascii_to_value_5bit
  <2>2. 14 \in Quintet /\ 8 \in Quintet
    BY NatIsQuintet
  <2>. QED  BY <2>1, <2>2
<1>. QED  BY <1>1, <1>2, <1>3, <1>4

\* Whatever text is read as base32, bytes are read.
THEOREM DecodeType ==
    ASSUME NEW S, NEW string \in Seq(S), IsBase32(string)
    PROVE  Decode(string) \in Seq(Byte)
<1>. DEFINE w == Values(string)
            body == BeforePadding(string)
<1>1. body \in Seq(S)
  BY BeforePaddingType
<1>2. w = [i \in 1 .. Len(body) |-> ascii_to_value_5bit(body[i])]
  BY <1>1 DEF Values
<1>3. \A i \in 1 .. Len(body) : w[i] \in Quintet
  <2>. TAKE i \in 1 .. Len(body)
  <2>1. w[i] = ascii_to_value_5bit(body[i]) /\ DOMAIN w = 1 .. Len(body)
    BY <1>2
  <2>2. w[i] # NoValue
    BY <2>1 DEF IsBase32
  <2>. QED  BY <2>1, <2>2, ValueType
<1>. HIDE DEF body
<1>4. w \in Seq(Quintet)
  <2>1. Len(body) \in Nat
    BY <1>1
  <2>. HIDE DEF w
  <2>. QED  BY <1>2, <1>3, <2>1
<1>. DEFINE s == DecodeLoop(w)[Len(w)]
<1>. HIDE DEF w
<1>5. s \in DecodeStates
  <2>1. Len(w) \in 0 .. Len(w)
    BY <1>4
  <2>. QED  BY <1>4, <2>1, DecodeRuns
<1>6. s.bytes \in Seq(Byte) /\ s.carry \in Byte
  <2>. HIDE DEF s
  <2>. QED  BY <1>5 DEF DecodeStates
<1>7. Decode(string) = IF s.shift # 8 /\ s.carry # 0 THEN Append(s.bytes, s.carry) ELSE s.bytes
  BY DEF Decode, w
<1>. HIDE DEF s
<1>. QED  BY <1>6, <1>7

-----------------------------------------------------------------------------
(* Exclusive or.                                                           *)

\* Exclusive or, from the lowest bit upwards and also where the first number is 0.
LEMMA XorHalf ==
    ASSUME NEW m \in Word, NEW n \in Word
    PROVE  /\ Xor(m, n) \in Nat /\ Xor(m \div 2, n \div 2) \in Nat
           /\ Xor(m, n) = 2 * Xor(m \div 2, n \div 2) + ((m + n) % 2)
<1>1. m \in Nat /\ n \in Nat /\ m \div 2 \in Word /\ n \div 2 \in Word
  BY HalfOfWord
<1>2. Xor(m, n) \in Nat /\ Xor(m \div 2, n \div 2) \in Nat
  BY <1>1, XorSteps
<1>3. CASE m = 0
  <2>1. m \div 2 = 0 /\ (m + n) % 2 = n % 2
    BY <1>1, <1>3
  <2>2. Xor(m, n) = n /\ Xor(m \div 2, n \div 2) = n \div 2
    BY <1>1, <1>3, <2>1, XorSteps
  <2>. QED  BY <1>1, <1>2, <2>1, <2>2
<1>. QED  BY <1>2, <1>3, XorSteps

\* Exclusive or of numbers below a power of two stays below it.
Closed(p) == \A m \in Word, n \in Word : m < p /\ n < p => Xor(m, n) < p

\* From one power of two to the next.
LEMMA ClosedDoubles ==
    ASSUME NEW p \in Nat, Closed(p)
    PROVE  Closed(2 * p)
<1>. SUFFICES ASSUME NEW m \in Word, NEW n \in Word, m < 2 * p, n < 2 * p
              PROVE  Xor(m, n) < 2 * p
  BY DEF Closed
<1>1. m \in Nat /\ n \in Nat /\ m \div 2 \in Word /\ n \div 2 \in Word
  BY HalfOfWord
<1>2. m \div 2 < p /\ n \div 2 < p
  BY <1>1
<1>3. Xor(m \div 2, n \div 2) < p
  BY <1>1, <1>2 DEF Closed
<1>. DEFINE a == Xor(m, n)
            c == Xor(m \div 2, n \div 2)
            d == (m + n) % 2
<1>4. a \in Nat /\ c \in Nat /\ a = 2 * c + d /\ d \in 0 .. 1
  BY <1>1, XorHalf
<1>. HIDE DEF a, c, d
<1>5. a < 2 * p
  BY <1>3, <1>4 DEF c
<1>. QED  BY <1>5 DEF a

\* The widths the checksum uses.
LEMMA ClosedPowers == Closed(16) /\ Closed(256) /\ Closed(65536)
<1>0. Closed(1)
  <2>. SUFFICES ASSUME NEW m \in Word, NEW n \in Word, m < 1, n < 1
                PROVE  Xor(m, n) < 1
    BY DEF Closed
  <2>1. m = 0 /\ n = 0
    BY WordIsNat
  <2>. QED  BY <2>1, XorSteps
<1>1. Closed(2)
  BY <1>0, ClosedDoubles
<1>2. Closed(4)
  BY <1>1, ClosedDoubles
<1>3. Closed(8)
  BY <1>2, ClosedDoubles
<1>4. Closed(16)
  BY <1>3, ClosedDoubles
<1>5. Closed(32)
  BY <1>4, ClosedDoubles
<1>6. Closed(64)
  BY <1>5, ClosedDoubles
<1>7. Closed(128)
  BY <1>6, ClosedDoubles
<1>8. Closed(256)
  BY <1>7, ClosedDoubles
<1>9. Closed(512)
  BY <1>8, ClosedDoubles
<1>10. Closed(1024)
  BY <1>9, ClosedDoubles
<1>11. Closed(2048)
  BY <1>10, ClosedDoubles
<1>12. Closed(4096)
  BY <1>11, ClosedDoubles
<1>13. Closed(8192)
  BY <1>12, ClosedDoubles
<1>14. Closed(16384)
  BY <1>13, ClosedDoubles
<1>15. Closed(32768)
  BY <1>14, ClosedDoubles
<1>16. Closed(65536)
  BY <1>15, ClosedDoubles
<1>. QED  BY <1>4, <1>8, <1>16

\* Exclusive or of words is a word.
LEMMA XorType ==
    ASSUME NEW m \in Word, NEW n \in Word
    PROVE  Xor(m, n) \in Word
<1>1. m < 65536 /\ n < 65536
  BY WordIsNat
<1>2. Xor(m, n) \in Nat /\ Xor(m, n) < 65536
  BY <1>1, XorSteps, ClosedPowers DEF Closed
<1>. QED  BY <1>2, WordIsNat

\* The shifts of the checksum stay within 16 bits.
LEMMA WordShifts ==
    ASSUME NEW m \in Word, NEW k \in 1 .. 8
    PROVE  ShiftRight(m, k) \in Word /\ ShiftLeft(16, m, k) \in Word
<1>1. m \in Nat /\ m < 65536
  BY WordIsNat
<1>2. k = 1 \/ k = 2 \/ k = 3 \/ k = 4 \/ k = 5 \/ k = 6 \/ k = 7 \/ k = 8
  OBVIOUS
<1>3. /\ ShiftRight(m, 1) = m \div 2 /\ ShiftRight(m, 2) = m \div 4
      /\ ShiftRight(m, 3) = m \div 8 /\ ShiftRight(m, 4) = m \div 16
      /\ ShiftRight(m, 5) = m \div 32 /\ ShiftRight(m, 6) = m \div 64
      /\ ShiftRight(m, 7) = m \div 128 /\ ShiftRight(m, 8) = m \div 256
  BY <1>1, ShiftRights
<1>4. /\ ShiftLeft(16, m, 1) = (m * 2) % 65536 /\ ShiftLeft(16, m, 2) = (m * 4) % 65536
      /\ ShiftLeft(16, m, 3) = (m * 8) % 65536 /\ ShiftLeft(16, m, 4) = (m * 16) % 65536
      /\ ShiftLeft(16, m, 5) = (m * 32) % 65536 /\ ShiftLeft(16, m, 6) = (m * 64) % 65536
      /\ ShiftLeft(16, m, 7) = (m * 128) % 65536 /\ ShiftLeft(16, m, 8) = (m * 256) % 65536
  BY DEF ShiftLeft
<1>5. ShiftRight(m, k) \in Nat /\ ShiftRight(m, k) < 65536
  BY <1>1, <1>2, <1>3
<1>6. ShiftLeft(16, m, k) \in Nat /\ ShiftLeft(16, m, k) < 65536
  BY <1>1, <1>2, <1>4
<1>. QED  BY <1>5, <1>6, WordIsNat

\* One round of the checksum leads from words to words.
LEMMA CrcByteType ==
    ASSUME NEW crc \in Word, NEW byte \in Byte
    PROVE  CrcByte(crc, byte) \in Word
<1>. DEFINE c0 == Xor(ShiftRight(crc, 8), byte)
            c1 == Xor(c0, ShiftRight(c0, 4))
            c2 == ShiftLeft(16, c1, 5)
            c3 == ShiftLeft(16, c2, 7)
<1>0. 8 \in 1 .. 8 /\ 4 \in 1 .. 8 /\ 5 \in 1 .. 8 /\ 7 \in 1 .. 8
  OBVIOUS
<1>1. c0 \in Word
  BY <1>0, WordShifts, XorType, ByteIsNat
<1>. HIDE DEF c0
<1>2. c1 \in Word
  BY <1>0, <1>1, WordShifts, XorType
<1>. HIDE DEF c1
<1>3. c2 \in Word
  BY <1>0, <1>2, WordShifts
<1>. HIDE DEF c2
<1>4. c3 \in Word
  BY <1>0, <1>3, WordShifts
<1>. HIDE DEF c3
<1>5. ShiftLeft(16, crc, 8) \in Word
  BY <1>0, WordShifts
<1>6. Xor(Xor(Xor(ShiftLeft(16, crc, 8), c1), c2), c3) \in Word
  BY <1>2, <1>3, <1>4, <1>5, XorType
<1>. QED  BY <1>6 DEF CrcByte, c3, c2, c1, c0

\* CrcLoop is the loop: its first state, and one round per byte.
LEMMA CrcRuns ==
    ASSUME NEW b \in Seq(Byte)
    PROVE  /\ \A i \in 0 .. Len(b) : CrcLoop(b)[i] \in Word
           /\ CrcLoop(b)[0] = 0
           /\ \A i \in 1 .. Len(b) : CrcLoop(b)[i] = CrcByte(CrcLoop(b)[i - 1], b[i])
<1>. DEFINE n == Len(b)
            X == Word
            g == [i \in 1 .. n |-> [s \in X |-> CrcByte(s, b[i])]]
            Eq(f) == f = [i \in 0 .. n |-> IF i = 0 THEN 0 ELSE CrcByte(f[i - 1], b[i])]
            F == CHOOSE f : Eq(f)
<1>1. n \in Nat /\ \A i \in 1 .. n : b[i] \in Byte
  OBVIOUS
<1>2. 0 \in X
  BY WordIsNat
<1>3. g \in [1 .. n -> [X -> X]]
  <2>. HIDE DEF X, n
  <2>. QED  BY <1>1, CrcByteType DEF X
<1>4. PICK f : Run(f, X, 0, n, g)
  <2>. HIDE DEF X, g, n
  <2>. QED  BY <1>1, <1>2, <1>3, LoopRuns DEF Loop
<1>5. Eq(f) /\ f \in [0 .. n -> X]
  <2>. HIDE DEF X, n
  <2>1. ASSUME NEW i \in 0 .. n, i # 0
        PROVE  g[i][f[i - 1]] = CrcByte(f[i - 1], b[i])
    <3>1. i \in 1 .. n /\ i - 1 \in 0 .. n
      BY <1>1, <2>1
    <3>2. f[i - 1] \in X
      BY <1>4, <3>1 DEF Run
    <3>. QED  BY <3>1, <3>2
  <2>. HIDE DEF g
  <2>2. ASSUME NEW i \in 0 .. n
        PROVE  f[i] = IF i = 0 THEN 0 ELSE CrcByte(f[i - 1], b[i])
    <3>1. CASE i = 0
      BY <1>4, <3>1 DEF Run
    <3>2. CASE i # 0
      <4>1. i \in 1 .. n
        BY <1>1, <3>2
      <4>2. f[i] = g[i][f[i - 1]]
        BY <1>4, <4>1 DEF Run
      <4>. QED  BY <2>1, <3>2, <4>2
    <3>. QED  BY <3>1, <3>2
  <2>. QED  BY <1>4, <2>2 DEF Run
<1>6. CrcLoop(b) = F
  BY DEF CrcLoop
<1>7. Eq(F)
  <2>. HIDE DEF Eq
  <2>. QED  BY <1>5
<1>. HIDE DEF F, n
<1>8. F[0] = 0 /\ \A i \in 1 .. n : F[i] = CrcByte(F[i - 1], b[i])
  BY <1>1, <1>7
<1>9. \A i \in 0 .. n : F[i] \in X
  <2>. DEFINE S == {k \in Nat : k \in 0 .. n => F[k] \in X}
  <2>1. 0 \in S
    BY <1>2, <1>8
  <2>2. ASSUME NEW k \in Nat, k \in S
        PROVE  k + 1 \in S
    <3>. SUFFICES ASSUME k + 1 \in 0 .. n
                  PROVE  F[k + 1] \in X
      OBVIOUS
    <3>. DEFINE i == k + 1
    <3>1. i \in 1 .. n /\ i - 1 = k /\ k \in 0 .. n
      BY <1>1
    <3>2. F[k] \in X /\ b[i] \in Byte
      BY <1>1, <2>2, <3>1
    <3>. HIDE DEF i, X
    <3>3. F[i] = CrcByte(F[k], b[i])
      BY <1>8, <3>1
    <3>4. CrcByte(F[k], b[i]) \in X
      BY <3>2, CrcByteType DEF X
    <3>. QED  BY <3>3, <3>4 DEF i
  <2>. HIDE DEF S
  <2>3. \A k \in Nat : k \in S
    BY <2>1, <2>2, SetInduction
  <2>. QED  BY <2>3 DEF S
<1>. QED  BY <1>6, <1>8, <1>9 DEF n

\* The checksum is a word.
LEMMA CrcType == ASSUME NEW b \in Seq(Byte) PROVE Crc(b) \in Word
<1>1. Len(b) \in 0 .. Len(b)
  OBVIOUS
<1>. QED  BY <1>1, CrcRuns DEF Crc

-----------------------------------------------------------------------------
(* Keys with their checksum.                                               *)

\* The bytes of a key: what is checked, and the checksum, low byte first.
Checked(u) == u \o <<Crc(u) % 256, ShiftRight(Crc(u), 8)>>

\* decode_stellar_key reads the checksum encode_stellar_key wrote.
LEMMA WordBytes ==
    ASSUME NEW w \in Word
    PROVE  /\ w % 256 \in Byte /\ ShiftRight(w, 8) \in Byte
           /\ Or(ShiftLeft(16, ShiftRight(w, 8), 8), w % 256) = w
<1>. DEFINE lo == w % 256
            hi == w \div 256
<1>1. w \in Nat /\ w < 65536
  BY WordIsNat
<1>2. lo \in Nat /\ lo < 256 /\ hi \in Nat /\ hi < 256 /\ 256 * hi + lo = w
  BY <1>1
<1>3. ShiftRight(w, 8) = hi
  BY <1>1, ShiftRights
<1>. HIDE DEF lo, hi
<1>4. ShiftLeft(16, hi, 8) = 256 * hi /\ (256 * hi) % 256 = 0 /\ 256 * hi < 65536
  BY <1>2 DEF ShiftLeft
<1>5. lo \in Word /\ 256 * hi \in Word /\ lo \in Byte /\ hi \in Byte
  BY <1>2, <1>4, WordIsNat
<1>6. Or(256 * hi, lo) = 256 * hi + lo
  BY <1>2, <1>4, <1>5, OrAdds
<1>. QED  BY <1>2, <1>3, <1>4, <1>5, <1>6 DEF lo

\* Two bytes that read as a checksum are the bytes of it.
LEMMA BytesOfWord ==
    ASSUME NEW lo \in Byte, NEW hi \in Byte, NEW w, w = Or(ShiftLeft(16, hi, 8), lo)
    PROVE  w % 256 = lo /\ ShiftRight(w, 8) = hi
<1>1. lo \in Nat /\ lo < 256 /\ hi \in Nat /\ hi < 256
  BY ByteIsNat
<1>2. ShiftLeft(16, hi, 8) = 256 * hi /\ (256 * hi) % 256 = 0 /\ 256 * hi < 65536
  BY <1>1 DEF ShiftLeft
<1>3. lo \in Word /\ 256 * hi \in Word
  BY <1>1, <1>2, WordIsNat
<1>4. Or(256 * hi, lo) = 256 * hi + lo
  BY <1>1, <1>2, <1>3, OrAdds
<1>5. w = 256 * hi + lo
  BY <1>2, <1>4
<1>6. w \in Nat /\ w % 256 = lo /\ w \div 256 = hi
  BY <1>1, <1>5
<1>. QED  BY <1>6, ShiftRights

\* Bytes with their checksum pass its check.
LEMMA CheckedBytes ==
    ASSUME NEW u \in Seq(Byte)
    PROVE  /\ Checked(u) \in Seq(Byte) /\ Len(Checked(u)) = Len(u) + 2
           /\ SubSeq(Checked(u), 1, Len(u)) = u
           /\ ChecksumHolds(Checked(u))
<1>. DEFINE w == Crc(u)
            lo == w % 256
            hi == ShiftRight(w, 8)
            c == u \o <<lo, hi>>
            n == Len(u)
<1>1. w \in Word
  BY CrcType
<1>2. lo \in Byte /\ hi \in Byte /\ Or(ShiftLeft(16, hi, 8), lo) = w
  BY <1>1, WordBytes
<1>3. n \in Nat
  OBVIOUS
<1>4. Checked(u) = c
  BY DEF Checked
<1>. HIDE DEF lo, hi, w
<1>5. /\ c \in Seq(Byte) /\ Len(c) = n + 2 /\ c[n + 1] = lo /\ c[n + 2] = hi
      /\ \A i \in 1 .. n : c[i] = u[i]
  BY <1>2
<1>. HIDE DEF c
<1>6. SubSeq(c, 1, n) = u
  BY <1>5
<1>7. ChecksumHolds(c)
  <2>. DEFINE length == Len(c)
  <2>1. length = n + 2 /\ length - 1 = n + 1 /\ length - 2 = n
    BY <1>3, <1>5
  <2>2. ChecksumHolds(c) <=> Or(ShiftLeft(16, c[length], 8), c[length - 1])
            = Crc(SubSeq(c, 1, length - 2))
    BY DEF ChecksumHolds
  <2>. HIDE DEF length, n
  <2>. QED  BY <1>2, <1>5, <1>6, <2>1, <2>2 DEF w
<1>. QED  BY <1>4, <1>5, <1>6, <1>7

\* Bytes that pass the check are what comes before the last two, with its checksum.
LEMMA ChecksumOnly ==
    ASSUME NEW bytes \in Seq(Byte), NEW n \in Nat, Len(bytes) = n + 2, ChecksumHolds(bytes)
    PROVE  bytes = Checked(SubSeq(bytes, 1, n))
<1>. DEFINE u == SubSeq(bytes, 1, n)
            lo == bytes[n + 1]
            hi == bytes[n + 2]
            w == Crc(u)
<1>1. lo \in Byte /\ hi \in Byte /\ u \in Seq(Byte) /\ Len(u) = n
  OBVIOUS
<1>2. w = Or(ShiftLeft(16, hi, 8), lo)
  <2>. DEFINE length == Len(bytes)
  <2>1. length = n + 2 /\ length - 1 = n + 1 /\ length - 2 = n
    OBVIOUS
  <2>2. ChecksumHolds(bytes) <=> Or(ShiftLeft(16, bytes[length], 8), bytes[length - 1])
            = Crc(SubSeq(bytes, 1, length - 2))
    BY DEF ChecksumHolds
  <2>. HIDE DEF length
  <2>. QED  BY <2>1, <2>2
<1>3. bytes = u \o <<lo, hi>>
  OBVIOUS
<1>. HIDE DEF u, lo, hi
<1>4. w % 256 = lo /\ ShiftRight(w, 8) = hi
  BY <1>1, <1>2, BytesOfWord
<1>. QED  BY <1>3, <1>4 DEF Checked, u

\* A key after its version byte.
LEMMA KeyBytesType ==
    ASSUME NEW key \in Keys, NEW version \in Byte
    PROVE  /\ key \in Seq(Byte) /\ Len(key) = BYTE_LENGTH
           /\ <<version>> \o key \in Seq(Byte) /\ Len(<<version>> \o key) = 1 + BYTE_LENGTH
<1>1. BYTE_LENGTH \in Nat /\ KeyBytes \subseteq Byte
  BY KeyAssumption
<1>2. key \in [1 .. BYTE_LENGTH -> Byte]
  BY <1>1 DEF Keys
<1>3. key \in Seq(Byte) /\ Len(key) = BYTE_LENGTH
  BY <1>1, <1>2
<1>. QED  BY <1>1, <1>3

\* encode_stellar_key in these words.
LEMMA EncodeStellarKey ==
    ASSUME NEW key, NEW version
    PROVE  encode_stellar_key(key, version) = Encode(Checked(<<version>> \o key))
BY DEF encode_stellar_key, Checked

\* The version bytes of keys and seeds are bytes, and not the same.
LEMMA VersionsAreBytes ==
    /\ ED25519_PUBLIC_KEY_VERSION_BYTE \in Byte /\ ED25519_SECRET_SEED_VERSION_BYTE \in Byte
    /\ ED25519_PUBLIC_KEY_VERSION_BYTE # ED25519_SECRET_SEED_VERSION_BYTE
BY NatIsByte DEF ED25519_PUBLIC_KEY_VERSION_BYTE, ED25519_SECRET_SEED_VERSION_BYTE

\* The constructor decodes what encode_stellar_key writes, to the same key.
THEOREM EncodedKeyIsDecoded ==
    ASSUME NEW key \in Keys, NEW version \in Byte
    PROVE  LET string == encode_stellar_key(key, version)
           IN  /\ string \in Seq(0 .. 127)
               /\ Verdict(string, version) = "Ok"
               /\ decode_stellar_key(string) = key
<1>. DEFINE u == <<version>> \o key
            bytes == Checked(u)
            string == encode_stellar_key(key, version)
            n == BYTE_LENGTH
<1>0. n \in Nat
  BY KeyAssumption
<1>1. u \in Seq(Byte) /\ Len(u) = 1 + n /\ key \in Seq(Byte) /\ Len(key) = n
  BY KeyBytesType
<1>2. u[1] = version /\ \A i \in 1 .. n : u[i + 1] = key[i]
  BY <1>0, <1>1
<1>3. string = Encode(bytes)
  BY EncodeStellarKey
<1>. HIDE DEF string, u
<1>4. bytes \in Seq(Byte) /\ Len(bytes) = Len(u) + 2 /\ SubSeq(bytes, 1, Len(u)) = u
          /\ ChecksumHolds(bytes)
  BY <1>1, CheckedBytes
<1>. HIDE DEF bytes
<1>5. Decode(string) = bytes /\ IsBase32(string) /\ string \in Seq(0 .. 127)
  BY <1>3, <1>4, DecodeOfEncode, ValuesOfEncode, EncodeType
<1>6. Len(bytes) = 3 + n
  BY <1>0, <1>1, <1>4
<1>7. \A i \in 1 .. 1 + n : bytes[i] = u[i]
  <2>. HIDE DEF n
  <2>. QED  BY <1>0, <1>1, <1>4, <1>6
<1>8. bytes[1] = version
  BY <1>0, <1>2, <1>7
<1>9. InNormalForm(string)
  BY <1>3, <1>5 DEF InNormalForm
<1>10. Verdict(string, version) = "Ok"
  BY <1>4, <1>5, <1>6, <1>8, <1>9 DEF Verdict
<1>11. decode_stellar_key(string) = key
  <2>1. decode_stellar_key(string) = SubSeq(bytes, 2, 1 + n)
    BY <1>5 DEF decode_stellar_key
  <2>. HIDE DEF n
  <2>2. \A i \in 1 .. n : bytes[i + 1] = key[i]
    <3>. TAKE i \in 1 .. n
    <3>1. i + 1 \in 1 .. 1 + n
      BY <1>0
    <3>. QED  BY <1>2, <1>7, <3>1
  <2>3. SubSeq(bytes, 2, 1 + n) = key
    BY <1>0, <1>1, <1>4, <1>6, <2>2
  <2>. QED  BY <2>1, <2>3
<1>. QED  BY <1>5, <1>10, <1>11 DEF string

\* A text that is accepted is the one encode_stellar_key writes for its key.
THEOREM AcceptedIsEncoded ==
    ASSUME NEW S, NEW string \in Seq(S), NEW version, Verdict(string, version) = "Ok"
    PROVE  /\ encode_stellar_key(decode_stellar_key(string), version) = string
           /\ decode_stellar_key(string) \in Seq(Byte)
           /\ Len(decode_stellar_key(string)) = BYTE_LENGTH
<1>. DEFINE bytes == Decode(string)
            n == BYTE_LENGTH
            key == decode_stellar_key(string)
<1>0. n \in Nat
  BY KeyAssumption
<1>1. /\ IsBase32(string) /\ string = Encode(bytes) /\ Len(bytes) = 3 + n
      /\ ChecksumHolds(bytes) /\ bytes[1] = version
  BY DEF Verdict, InNormalForm
<1>2. bytes \in Seq(Byte)
  BY <1>1, DecodeType
<1>3. key = SubSeq(bytes, 2, 1 + n)
  BY DEF decode_stellar_key
<1>. HIDE DEF bytes, key, n
<1>4. bytes = Checked(SubSeq(bytes, 1, 1 + n))
  <2>1. 1 + n \in Nat /\ Len(bytes) = (1 + n) + 2
    BY <1>0, <1>1
  <2>. QED  BY <1>1, <1>2, <2>1, ChecksumOnly
<1>5. key \in Seq(Byte) /\ Len(key) = n
  BY <1>0, <1>1, <1>2, <1>3
<1>6. SubSeq(bytes, 1, 1 + n) = <<version>> \o key
  <2>1. version \in Byte
    BY <1>0, <1>1, <1>2
  <2>2. \A i \in 1 .. n : key[i] = bytes[i + 1]
    BY <1>0, <1>1, <1>2, <1>3
  <2>. DEFINE s == SubSeq(bytes, 1, 1 + n)
              t == <<version>> \o key
  <2>3. s \in Seq(Byte) /\ Len(s) = 1 + n /\ \A i \in 1 .. 1 + n : s[i] = bytes[i]
    BY <1>0, <1>1, <1>2
  <2>4. t \in Seq(Byte) /\ Len(t) = 1 + n /\ t[1] = version /\ \A i \in 1 .. n : t[i + 1] = key[i]
    BY <1>0, <1>5, <2>1
  <2>. HIDE DEF s, t
  <2>5. \A i \in 1 .. 1 + n : s[i] = t[i]
    <3>. TAKE i \in 1 .. 1 + n
    <3>1. CASE i = 1
      BY <1>0, <1>1, <2>3, <2>4, <3>1
    <3>2. CASE i # 1
      <4>1. i - 1 \in 1 .. n /\ (i - 1) + 1 = i
        BY <1>0, <3>2
      <4>. QED  BY <2>2, <2>3, <2>4, <4>1
    <3>. QED  BY <3>1, <3>2
  <2>6. s = t
    BY <1>0, <2>3, <2>4, <2>5
  <2>. QED  BY <2>6 DEF s, t
<1>. QED  BY <1>1, <1>4, <1>5, <1>6, EncodeStellarKey DEF n, key, bytes

-----------------------------------------------------------------------------
(* Exclusive or, bit by bit.                                               *)

\* The half and the lowest bit of an exclusive or.
LEMMA XorOfHalves ==
    ASSUME NEW m \in Word, NEW n \in Word
    PROVE  Xor(m, n) \div 2 = Xor(m \div 2, n \div 2) /\ Xor(m, n) % 2 = (m + n) % 2
<1>1. m \in Nat /\ n \in Nat
  BY HalfOfWord
<1>. DEFINE a == Xor(m, n)
            c == Xor(m \div 2, n \div 2)
            d == (m + n) % 2
<1>2. a \in Nat /\ c \in Nat /\ a = 2 * c + d /\ d \in 0 .. 1
  BY <1>1, XorHalf
<1>. HIDE DEF a, c, d
<1>3. a \div 2 = c /\ a % 2 = d
  BY <1>2
<1>. QED  BY <1>3 DEF a, c, d

\* A word without its lowest bits is a word.
LEMMA WordDivided ==
    ASSUME NEW m \in Word
    PROVE  /\ m \in Nat
           /\ m \div 2 \in Word
           /\ m \div 4 \in Word
           /\ m \div 8 \in Word
           /\ m \div 16 \in Word
           /\ m \div 32 \in Word
           /\ m \div 64 \in Word
           /\ m \div 128 \in Word
           /\ m \div 256 \in Word
<1>1. m \in Nat /\ m < 65536
  BY WordIsNat
<1>2. /\ m \div 2 \in Nat /\ m \div 2 < 65536
      /\ m \div 4 \in Nat /\ m \div 4 < 65536
      /\ m \div 8 \in Nat /\ m \div 8 < 65536
      /\ m \div 16 \in Nat /\ m \div 16 < 65536
      /\ m \div 32 \in Nat /\ m \div 32 < 65536
      /\ m \div 64 \in Nat /\ m \div 64 < 65536
      /\ m \div 128 \in Nat /\ m \div 128 < 65536
      /\ m \div 256 \in Nat /\ m \div 256 < 65536
  BY <1>1
<1>. QED  BY <1>1, <1>2, WordIsNat

\* Halving once more.
LEMMA Halves ==
    ASSUME NEW m \in Nat
    PROVE  /\ (m \div 2) \div 2 = m \div 4
           /\ (m \div 4) \div 2 = m \div 8
           /\ (m \div 8) \div 2 = m \div 16
           /\ (m \div 16) \div 2 = m \div 32
           /\ (m \div 32) \div 2 = m \div 64
           /\ (m \div 64) \div 2 = m \div 128
           /\ (m \div 128) \div 2 = m \div 256
OBVIOUS

\* Exclusive or without the lowest bits, and its bits.
LEMMA XorDivided ==
    ASSUME NEW m \in Word, NEW n \in Word
    PROVE  /\ Xor(m, n) \div 2 = Xor(m \div 2, n \div 2)
           /\ Xor(m, n) \div 4 = Xor(m \div 4, n \div 4)
           /\ Xor(m, n) \div 8 = Xor(m \div 8, n \div 8)
           /\ Xor(m, n) \div 16 = Xor(m \div 16, n \div 16)
           /\ Xor(m, n) \div 32 = Xor(m \div 32, n \div 32)
           /\ Xor(m, n) \div 64 = Xor(m \div 64, n \div 64)
           /\ Xor(m, n) \div 128 = Xor(m \div 128, n \div 128)
           /\ Xor(m, n) \div 256 = Xor(m \div 256, n \div 256)
<1>0. Xor(m, n) \in Nat /\ m \in Nat /\ n \in Nat
  BY XorHalf, HalfOfWord
<1>1. Xor(m, n) \div 2 = Xor(m \div 2, n \div 2)
  BY XorOfHalves
<1>2. Xor(m, n) \div 4 = Xor(m \div 4, n \div 4)
  <2>. DEFINE a == m \div 2
              c == n \div 2
  <2>1. a \in Word /\ c \in Word
    BY WordDivided
  <2>2. a \div 2 = m \div 4 /\ c \div 2 = n \div 4 /\ (Xor(m, n) \div 2) \div 2 = Xor(m, n) \div 4
    BY <1>0, Halves
  <2>3. Xor(m, n) \div 2 = Xor(a, c)
    BY <1>1
  <2>. HIDE DEF a, c
  <2>4. Xor(a, c) \div 2 = Xor(a \div 2, c \div 2)
    BY <2>1, XorOfHalves
  <2>. QED  BY <2>2, <2>3, <2>4
<1>3. Xor(m, n) \div 8 = Xor(m \div 8, n \div 8)
  <2>. DEFINE a == m \div 4
              c == n \div 4
  <2>1. a \in Word /\ c \in Word
    BY WordDivided
  <2>2. a \div 2 = m \div 8 /\ c \div 2 = n \div 8 /\ (Xor(m, n) \div 4) \div 2 = Xor(m, n) \div 8
    BY <1>0, Halves
  <2>3. Xor(m, n) \div 4 = Xor(a, c)
    BY <1>2
  <2>. HIDE DEF a, c
  <2>4. Xor(a, c) \div 2 = Xor(a \div 2, c \div 2)
    BY <2>1, XorOfHalves
  <2>. QED  BY <2>2, <2>3, <2>4
<1>4. Xor(m, n) \div 16 = Xor(m \div 16, n \div 16)
  <2>. DEFINE a == m \div 8
              c == n \div 8
  <2>1. a \in Word /\ c \in Word
    BY WordDivided
  <2>2. a \div 2 = m \div 16 /\ c \div 2 = n \div 16
            /\ (Xor(m, n) \div 8) \div 2 = Xor(m, n) \div 16
    BY <1>0, Halves
  <2>3. Xor(m, n) \div 8 = Xor(a, c)
    BY <1>3
  <2>. HIDE DEF a, c
  <2>4. Xor(a, c) \div 2 = Xor(a \div 2, c \div 2)
    BY <2>1, XorOfHalves
  <2>. QED  BY <2>2, <2>3, <2>4
<1>5. Xor(m, n) \div 32 = Xor(m \div 32, n \div 32)
  <2>. DEFINE a == m \div 16
              c == n \div 16
  <2>1. a \in Word /\ c \in Word
    BY WordDivided
  <2>2. a \div 2 = m \div 32 /\ c \div 2 = n \div 32
            /\ (Xor(m, n) \div 16) \div 2 = Xor(m, n) \div 32
    BY <1>0, Halves
  <2>3. Xor(m, n) \div 16 = Xor(a, c)
    BY <1>4
  <2>. HIDE DEF a, c
  <2>4. Xor(a, c) \div 2 = Xor(a \div 2, c \div 2)
    BY <2>1, XorOfHalves
  <2>. QED  BY <2>2, <2>3, <2>4
<1>6. Xor(m, n) \div 64 = Xor(m \div 64, n \div 64)
  <2>. DEFINE a == m \div 32
              c == n \div 32
  <2>1. a \in Word /\ c \in Word
    BY WordDivided
  <2>2. a \div 2 = m \div 64 /\ c \div 2 = n \div 64
            /\ (Xor(m, n) \div 32) \div 2 = Xor(m, n) \div 64
    BY <1>0, Halves
  <2>3. Xor(m, n) \div 32 = Xor(a, c)
    BY <1>5
  <2>. HIDE DEF a, c
  <2>4. Xor(a, c) \div 2 = Xor(a \div 2, c \div 2)
    BY <2>1, XorOfHalves
  <2>. QED  BY <2>2, <2>3, <2>4
<1>7. Xor(m, n) \div 128 = Xor(m \div 128, n \div 128)
  <2>. DEFINE a == m \div 64
              c == n \div 64
  <2>1. a \in Word /\ c \in Word
    BY WordDivided
  <2>2. a \div 2 = m \div 128 /\ c \div 2 = n \div 128
            /\ (Xor(m, n) \div 64) \div 2 = Xor(m, n) \div 128
    BY <1>0, Halves
  <2>3. Xor(m, n) \div 64 = Xor(a, c)
    BY <1>6
  <2>. HIDE DEF a, c
  <2>4. Xor(a, c) \div 2 = Xor(a \div 2, c \div 2)
    BY <2>1, XorOfHalves
  <2>. QED  BY <2>2, <2>3, <2>4
<1>8. Xor(m, n) \div 256 = Xor(m \div 256, n \div 256)
  <2>. DEFINE a == m \div 128
              c == n \div 128
  <2>1. a \in Word /\ c \in Word
    BY WordDivided
  <2>2. a \div 2 = m \div 256 /\ c \div 2 = n \div 256
            /\ (Xor(m, n) \div 128) \div 2 = Xor(m, n) \div 256
    BY <1>0, Halves
  <2>3. Xor(m, n) \div 128 = Xor(a, c)
    BY <1>7
  <2>. HIDE DEF a, c
  <2>4. Xor(a, c) \div 2 = Xor(a \div 2, c \div 2)
    BY <2>1, XorOfHalves
  <2>. QED  BY <2>2, <2>3, <2>4
<1>. QED  BY <1>1, <1>2, <1>3, <1>4, <1>5, <1>6, <1>7, <1>8

\* Bit k of a number.
Bin(n, k) == (n \div 2^k) % 2

\* The eight lowest bits.
LEMMA Bins ==
    ASSUME NEW n \in Nat
    PROVE  /\ Bin(n, 0) = n % 2
           /\ Bin(n, 1) = (n \div 2) % 2
           /\ Bin(n, 2) = (n \div 4) % 2
           /\ Bin(n, 3) = (n \div 8) % 2
           /\ Bin(n, 4) = (n \div 16) % 2
           /\ Bin(n, 5) = (n \div 32) % 2
           /\ Bin(n, 6) = (n \div 64) % 2
           /\ Bin(n, 7) = (n \div 128) % 2
BY DEF Bin

\* A bit is 0 or 1.
LEMMA BinType == ASSUME NEW n \in Nat PROVE \A k \in 0 .. 7 : Bin(n, k) \in 0 .. 1
<1>1. \A k \in 0 .. 7 : k = 0 \/ k = 1 \/ k = 2 \/ k = 3 \/ k = 4 \/ k = 5 \/ k = 6 \/ k = 7
  OBVIOUS
<1>2. /\ Bin(n, 0) \in 0 .. 1
      /\ Bin(n, 1) \in 0 .. 1
      /\ Bin(n, 2) \in 0 .. 1
      /\ Bin(n, 3) \in 0 .. 1
      /\ Bin(n, 4) \in 0 .. 1
      /\ Bin(n, 5) \in 0 .. 1
      /\ Bin(n, 6) \in 0 .. 1
      /\ Bin(n, 7) \in 0 .. 1
  <2>1. /\ Bin(n, 0) = (n) % 2
        /\ Bin(n, 1) = (n \div 2) % 2
        /\ Bin(n, 2) = (n \div 4) % 2
        /\ Bin(n, 3) = (n \div 8) % 2
        /\ Bin(n, 4) = (n \div 16) % 2
        /\ Bin(n, 5) = (n \div 32) % 2
        /\ Bin(n, 6) = (n \div 64) % 2
        /\ Bin(n, 7) = (n \div 128) % 2
    BY Bins
  <2>2. /\ (n) % 2 \in 0 .. 1
        /\ (n \div 2) % 2 \in 0 .. 1
        /\ (n \div 4) % 2 \in 0 .. 1
        /\ (n \div 8) % 2 \in 0 .. 1
        /\ (n \div 16) % 2 \in 0 .. 1
        /\ (n \div 32) % 2 \in 0 .. 1
        /\ (n \div 64) % 2 \in 0 .. 1
        /\ (n \div 128) % 2 \in 0 .. 1
    OBVIOUS
  <2>. QED  BY <2>1, <2>2
<1>. QED  BY <1>1, <1>2

\* Exclusive or, bit by bit.
LEMMA XorBits ==
    ASSUME NEW m \in Word, NEW n \in Word
    PROVE  \A k \in 0 .. 7 : Bin(Xor(m, n), k) = (Bin(m, k) + Bin(n, k)) % 2
<1>0. m \in Nat /\ n \in Nat /\ Xor(m, n) \in Nat
  BY XorHalf, HalfOfWord
<1>1. Bin(Xor(m, n), 0) = (Bin(m, 0) + Bin(n, 0)) % 2
  <2>. DEFINE a == m
              c == n
              x == Xor(m, n)
  <2>1. a \in Word /\ c \in Word /\ a \in Nat /\ c \in Nat
    BY <1>0, WordDivided
  <2>2. x = Xor(a, c)
    BY XorDivided
  <2>3. Bin(m, 0) = a % 2 /\ Bin(n, 0) = c % 2 /\ Bin(Xor(m, n), 0) = x % 2
    BY <1>0, Bins
  <2>. HIDE DEF a, c, x
  <2>4. Xor(a, c) % 2 = (a + c) % 2
    BY <2>1, XorOfHalves
  <2>5. (a + c) % 2 = ((a % 2) + (c % 2)) % 2
    BY <2>1
  <2>. QED  BY <2>2, <2>3, <2>4, <2>5
<1>2. Bin(Xor(m, n), 1) = (Bin(m, 1) + Bin(n, 1)) % 2
  <2>. DEFINE a == m \div 2
              c == n \div 2
              x == Xor(m, n) \div 2
  <2>1. a \in Word /\ c \in Word /\ a \in Nat /\ c \in Nat
    BY <1>0, WordDivided
  <2>2. x = Xor(a, c)
    BY XorDivided
  <2>3. Bin(m, 1) = a % 2 /\ Bin(n, 1) = c % 2 /\ Bin(Xor(m, n), 1) = x % 2
    BY <1>0, Bins
  <2>. HIDE DEF a, c, x
  <2>4. Xor(a, c) % 2 = (a + c) % 2
    BY <2>1, XorOfHalves
  <2>5. (a + c) % 2 = ((a % 2) + (c % 2)) % 2
    BY <2>1
  <2>. QED  BY <2>2, <2>3, <2>4, <2>5
<1>3. Bin(Xor(m, n), 2) = (Bin(m, 2) + Bin(n, 2)) % 2
  <2>. DEFINE a == m \div 4
              c == n \div 4
              x == Xor(m, n) \div 4
  <2>1. a \in Word /\ c \in Word /\ a \in Nat /\ c \in Nat
    BY <1>0, WordDivided
  <2>2. x = Xor(a, c)
    BY XorDivided
  <2>3. Bin(m, 2) = a % 2 /\ Bin(n, 2) = c % 2 /\ Bin(Xor(m, n), 2) = x % 2
    BY <1>0, Bins
  <2>. HIDE DEF a, c, x
  <2>4. Xor(a, c) % 2 = (a + c) % 2
    BY <2>1, XorOfHalves
  <2>5. (a + c) % 2 = ((a % 2) + (c % 2)) % 2
    BY <2>1
  <2>. QED  BY <2>2, <2>3, <2>4, <2>5
<1>4. Bin(Xor(m, n), 3) = (Bin(m, 3) + Bin(n, 3)) % 2
  <2>. DEFINE a == m \div 8
              c == n \div 8
              x == Xor(m, n) \div 8
  <2>1. a \in Word /\ c \in Word /\ a \in Nat /\ c \in Nat
    BY <1>0, WordDivided
  <2>2. x = Xor(a, c)
    BY XorDivided
  <2>3. Bin(m, 3) = a % 2 /\ Bin(n, 3) = c % 2 /\ Bin(Xor(m, n), 3) = x % 2
    BY <1>0, Bins
  <2>. HIDE DEF a, c, x
  <2>4. Xor(a, c) % 2 = (a + c) % 2
    BY <2>1, XorOfHalves
  <2>5. (a + c) % 2 = ((a % 2) + (c % 2)) % 2
    BY <2>1
  <2>. QED  BY <2>2, <2>3, <2>4, <2>5
<1>5. Bin(Xor(m, n), 4) = (Bin(m, 4) + Bin(n, 4)) % 2
  <2>. DEFINE a == m \div 16
              c == n \div 16
              x == Xor(m, n) \div 16
  <2>1. a \in Word /\ c \in Word /\ a \in Nat /\ c \in Nat
    BY <1>0, WordDivided
  <2>2. x = Xor(a, c)
    BY XorDivided
  <2>3. Bin(m, 4) = a % 2 /\ Bin(n, 4) = c % 2 /\ Bin(Xor(m, n), 4) = x % 2
    BY <1>0, Bins
  <2>. HIDE DEF a, c, x
  <2>4. Xor(a, c) % 2 = (a + c) % 2
    BY <2>1, XorOfHalves
  <2>5. (a + c) % 2 = ((a % 2) + (c % 2)) % 2
    BY <2>1
  <2>. QED  BY <2>2, <2>3, <2>4, <2>5
<1>6. Bin(Xor(m, n), 5) = (Bin(m, 5) + Bin(n, 5)) % 2
  <2>. DEFINE a == m \div 32
              c == n \div 32
              x == Xor(m, n) \div 32
  <2>1. a \in Word /\ c \in Word /\ a \in Nat /\ c \in Nat
    BY <1>0, WordDivided
  <2>2. x = Xor(a, c)
    BY XorDivided
  <2>3. Bin(m, 5) = a % 2 /\ Bin(n, 5) = c % 2 /\ Bin(Xor(m, n), 5) = x % 2
    BY <1>0, Bins
  <2>. HIDE DEF a, c, x
  <2>4. Xor(a, c) % 2 = (a + c) % 2
    BY <2>1, XorOfHalves
  <2>5. (a + c) % 2 = ((a % 2) + (c % 2)) % 2
    BY <2>1
  <2>. QED  BY <2>2, <2>3, <2>4, <2>5
<1>7. Bin(Xor(m, n), 6) = (Bin(m, 6) + Bin(n, 6)) % 2
  <2>. DEFINE a == m \div 64
              c == n \div 64
              x == Xor(m, n) \div 64
  <2>1. a \in Word /\ c \in Word /\ a \in Nat /\ c \in Nat
    BY <1>0, WordDivided
  <2>2. x = Xor(a, c)
    BY XorDivided
  <2>3. Bin(m, 6) = a % 2 /\ Bin(n, 6) = c % 2 /\ Bin(Xor(m, n), 6) = x % 2
    BY <1>0, Bins
  <2>. HIDE DEF a, c, x
  <2>4. Xor(a, c) % 2 = (a + c) % 2
    BY <2>1, XorOfHalves
  <2>5. (a + c) % 2 = ((a % 2) + (c % 2)) % 2
    BY <2>1
  <2>. QED  BY <2>2, <2>3, <2>4, <2>5
<1>8. Bin(Xor(m, n), 7) = (Bin(m, 7) + Bin(n, 7)) % 2
  <2>. DEFINE a == m \div 128
              c == n \div 128
              x == Xor(m, n) \div 128
  <2>1. a \in Word /\ c \in Word /\ a \in Nat /\ c \in Nat
    BY <1>0, WordDivided
  <2>2. x = Xor(a, c)
    BY XorDivided
  <2>3. Bin(m, 7) = a % 2 /\ Bin(n, 7) = c % 2 /\ Bin(Xor(m, n), 7) = x % 2
    BY <1>0, Bins
  <2>. HIDE DEF a, c, x
  <2>4. Xor(a, c) % 2 = (a + c) % 2
    BY <2>1, XorOfHalves
  <2>5. (a + c) % 2 = ((a % 2) + (c % 2)) % 2
    BY <2>1
  <2>. QED  BY <2>2, <2>3, <2>4, <2>5
<1>9. \A k \in 0 .. 7 : k = 0 \/ k = 1 \/ k = 2 \/ k = 3 \/ k = 4 \/ k = 5 \/ k = 6 \/ k = 7
  OBVIOUS
<1>. QED  BY <1>1, <1>2, <1>3, <1>4, <1>5, <1>6, <1>7, <1>8, <1>9

\* Exclusive or is commutative.
LEMMA XorCommutes ==
    ASSUME NEW m \in Word, NEW n \in Word
    PROVE  Xor(m, n) = Xor(n, m)
<1>. DEFINE S == {k \in Nat : \A a \in Word, c \in Word : a <= k /\ c <= k => Xor(a, c) = Xor(c, a)}
<1>1. 0 \in S
  <2>1. \A a \in Word : a <= 0 => a = 0
    BY WordIsNat
  <2>. QED  BY <2>1
<1>2. ASSUME NEW k \in Nat, k \in S
      PROVE  k + 1 \in S
  <2>. SUFFICES ASSUME NEW a \in Word, NEW c \in Word, a <= k + 1, c <= k + 1
                PROVE  Xor(a, c) = Xor(c, a)
    OBVIOUS
  <2>. DEFINE e == a \div 2
              f == c \div 2
  <2>1. a \in Nat /\ c \in Nat /\ e \in Word /\ f \in Word /\ e <= k /\ f <= k
    BY HalfOfWord
  <2>2. Xor(e, f) = Xor(f, e)
    BY <1>2, <2>1
  <2>3. (a + c) % 2 = (c + a) % 2
    BY <2>1
  <2>. HIDE DEF S
  <2>. QED  BY <2>2, <2>3, XorHalf
<1>. HIDE DEF S
<1>3. \A k \in Nat : k \in S
  BY <1>1, <1>2, SetInduction
<1>. DEFINE k == m + n
<1>4. k \in Nat /\ m <= k /\ n <= k
  BY WordIsNat
<1>. HIDE DEF k
<1>. QED  BY <1>3, <1>4 DEF S

\* Equal numbers have equal halves and equal lowest bits.
LEMMA HalfAndBit ==
    ASSUME NEW x \in Nat, NEW y \in Nat, NEW a \in Nat, NEW c \in Nat, NEW m \in Nat,
           2 * x + ((m + a) % 2) = 2 * y + ((m + c) % 2)
    PROVE  x = y /\ a % 2 = c % 2
OBVIOUS

\* The first number of an exclusive or can be cancelled, by induction on it.
LEMMA XorCancels ==
    ASSUME NEW m \in Word, NEW n \in Word, NEW p \in Word, Xor(m, n) = Xor(m, p)
    PROVE  n = p
<1>. DEFINE S == {k \in Nat : \A l \in Word, a \in Word, c \in Word :
                    l <= k /\ a <= k /\ c <= k /\ Xor(l, a) = Xor(l, c) => a = c}
<1>1. 0 \in S
  <2>1. \A a \in Word : a <= 0 => a = 0
    BY WordIsNat
  <2>. QED  BY <2>1
<1>2. ASSUME NEW k \in Nat, k \in S
      PROVE  k + 1 \in S
  <2>. SUFFICES ASSUME NEW l \in Word, NEW a \in Word, NEW c \in Word,
                       l <= k + 1, a <= k + 1, c <= k + 1, Xor(l, a) = Xor(l, c)
                PROVE  a = c
    OBVIOUS
  <2>. DEFINE x == Xor(l \div 2, a \div 2)
              y == Xor(l \div 2, c \div 2)
  <2>1. /\ l \in Nat /\ a \in Nat /\ c \in Nat
        /\ l \div 2 \in Word /\ a \div 2 \in Word /\ c \div 2 \in Word
    BY HalfOfWord
  <2>2. l \div 2 <= k /\ a \div 2 <= k /\ c \div 2 <= k
    BY <2>1
  <2>3. x \in Nat /\ y \in Nat /\ 2 * x + ((l + a) % 2) = 2 * y + ((l + c) % 2)
    BY XorHalf
  <2>. HIDE DEF x, y, S
  <2>4. x = y /\ a % 2 = c % 2
    BY <2>1, <2>3, HalfAndBit
  <2>5. a \div 2 = c \div 2
    BY <1>2, <2>1, <2>2, <2>4 DEF S, x, y
  <2>. QED  BY <2>1, <2>4, <2>5
<1>. HIDE DEF S
<1>3. \A k \in Nat : k \in S
  BY <1>1, <1>2, SetInduction
<1>. DEFINE k == m + n + p
<1>4. k \in Nat /\ m <= k /\ n <= k /\ p <= k
  BY WordIsNat
<1>. HIDE DEF k
<1>. QED  BY <1>3, <1>4 DEF S

\* And so can the second.
LEMMA XorCancelsRight ==
    ASSUME NEW m \in Word, NEW n \in Word, NEW p \in Word, Xor(n, m) = Xor(p, m)
    PROVE  n = p
BY XorCommutes, XorCancels

\* Exclusive or with 0.
LEMMA XorWithZero == ASSUME NEW m \in Word PROVE Xor(m, 0) = m /\ Xor(0, m) = m
BY XorCommutes, XorSteps, WordIsNat

-----------------------------------------------------------------------------
(* One round of the checksum, bit by bit.                                  *)

\* A byte is its bits.
LEMMA EightBits ==
    ASSUME NEW a \in Nat, a < 256, NEW c \in Nat, c < 256, \A k \in 0 .. 7 : Bin(a, k) = Bin(c, k)
    PROVE  a = c
<1>0. /\ a % 2 = c % 2
      /\ (a \div 2) % 2 = (c \div 2) % 2
      /\ (a \div 4) % 2 = (c \div 4) % 2
      /\ (a \div 8) % 2 = (c \div 8) % 2
      /\ (a \div 16) % 2 = (c \div 16) % 2
      /\ (a \div 32) % 2 = (c \div 32) % 2
      /\ (a \div 64) % 2 = (c \div 64) % 2
      /\ (a \div 128) % 2 = (c \div 128) % 2
  <2>1. /\ Bin(a, 0) = Bin(c, 0)
        /\ Bin(a, 1) = Bin(c, 1)
        /\ Bin(a, 2) = Bin(c, 2)
        /\ Bin(a, 3) = Bin(c, 3)
        /\ Bin(a, 4) = Bin(c, 4)
        /\ Bin(a, 5) = Bin(c, 5)
        /\ Bin(a, 6) = Bin(c, 6)
        /\ Bin(a, 7) = Bin(c, 7)
    OBVIOUS
  <2>2. /\ Bin(a, 0) = a % 2
        /\ Bin(a, 1) = (a \div 2) % 2
        /\ Bin(a, 2) = (a \div 4) % 2
        /\ Bin(a, 3) = (a \div 8) % 2
        /\ Bin(a, 4) = (a \div 16) % 2
        /\ Bin(a, 5) = (a \div 32) % 2
        /\ Bin(a, 6) = (a \div 64) % 2
        /\ Bin(a, 7) = (a \div 128) % 2
    BY Bins
  <2>3. /\ Bin(c, 0) = c % 2
        /\ Bin(c, 1) = (c \div 2) % 2
        /\ Bin(c, 2) = (c \div 4) % 2
        /\ Bin(c, 3) = (c \div 8) % 2
        /\ Bin(c, 4) = (c \div 16) % 2
        /\ Bin(c, 5) = (c \div 32) % 2
        /\ Bin(c, 6) = (c \div 64) % 2
        /\ Bin(c, 7) = (c \div 128) % 2
    BY Bins
  <2>. QED  BY <2>1, <2>2, <2>3
<1>1. a \div 128 = c \div 128
  BY <1>0
<1>2. (a \div 64) = (c \div 64)
  BY <1>0, <1>1
<1>3. (a \div 32) = (c \div 32)
  BY <1>0, <1>2
<1>4. (a \div 16) = (c \div 16)
  BY <1>0, <1>3
<1>5. (a \div 8) = (c \div 8)
  BY <1>0, <1>4
<1>6. (a \div 4) = (c \div 4)
  BY <1>0, <1>5
<1>7. (a \div 2) = (c \div 2)
  BY <1>0, <1>6
<1>8. a = c
  BY <1>0, <1>7
<1>. QED  BY <1>8

\* What CrcByte makes of the high byte and the next byte, before it is spread.
Mix(d) == Xor(d, d \div 16)

\* The higher half of a byte is not mixed, the lower half takes the higher in.
LEMMA MixFacts ==
    ASSUME NEW d \in Nat, d < 256
    PROVE  /\ d \in Word /\ Mix(d) \in Nat /\ Mix(d) < 256 /\ Mix(d) \in Word
           /\ Mix(d) \div 16 = d \div 16
           /\ Mix(d) \div 128 = d \div 128
           /\ Mix(d) % 2 = (d + (d \div 16)) % 2
           /\ Mix(d) \div 2 = Xor(d \div 2, d \div 32)
<1>. DEFINE e == d \div 16
<1>1. e \in Nat /\ e < 16 /\ e < 256 /\ e \div 16 = 0 /\ e \div 2 = d \div 32
  OBVIOUS
<1>2. d \in Word /\ e \in Word
  BY <1>1, NatIsByte
<1>. HIDE DEF e
<1>3. Xor(d, e) \in Nat /\ Xor(d, e) \in Word /\ Xor(d, e) < 256
  <2>1. Xor(d, e) < 256
    BY <1>1, <1>2, ClosedPowers DEF Closed
  <2>. QED  BY <1>2, <2>1, XorHalf, XorType
<1>4. Xor(d, e) \div 16 = Xor(d \div 16, e \div 16) /\ Xor(d, e) \div 2 = Xor(d \div 2, e \div 2)
  BY <1>2, XorDivided
<1>5. Xor(d, e) % 2 = (d + e) % 2
  BY <1>2, XorOfHalves
<1>6. Xor(e, 0) = e
  BY <1>2, XorWithZero
<1>. DEFINE m == Xor(d, e)
<1>7. m \in Nat /\ m \div 16 = d \div 16
  BY <1>1, <1>3, <1>4, <1>6 DEF e
<1>. HIDE DEF m
<1>8. m \div 128 = (m \div 16) \div 8 /\ d \div 128 = (d \div 16) \div 8
  BY <1>7
<1>. QED  BY <1>1, <1>2, <1>3, <1>4, <1>5, <1>7, <1>8 DEF Mix, e, m

\* Mixing loses nothing.
LEMMA MixInjective ==
    ASSUME NEW d \in Nat, d < 256, NEW e \in Nat, e < 256, Mix(d) = Mix(e)
    PROVE  d = e
<1>1. d \div 16 = e \div 16
  <2>1. Mix(d) \div 16 = d \div 16
    BY MixFacts
  <2>2. Mix(e) \div 16 = e \div 16
    BY MixFacts
  <2>. QED  BY <2>1, <2>2
<1>2. d \in Word /\ e \in Word /\ d \div 16 \in Word
  BY MixFacts, WordDivided
<1>. QED  BY <1>1, <1>2, XorCancelsRight DEF Mix

\* The high byte of a checksum.
Hi(s) == s \div 256

\* The bits of the new low byte w from c = Mix(..), and those of the new high byte from the
\* old low byte a and c.
LowBits(w, c) ==
    /\ \A k \in 0 .. 4 : Bin(w, k) = Bin(c, k)
    /\ \A k \in 5 .. 7 : Bin(w, k) = (Bin(c, k) + Bin(c, k - 5)) % 2

HighByte(a, c) == Xor(Xor(a, c \div 8), 16 * (c % 16))

HighBits(h, a, c) ==
    /\ \A k \in 0 .. 3 : Bin(h, k) = (Bin(a, k) + Bin(c, k + 3)) % 2
    /\ Bin(h, 4) = (Bin(a, 4) + Bin(c, 7) + Bin(c, 0)) % 2
    /\ \A k \in 5 .. 7 : Bin(h, k) = (Bin(a, k) + Bin(c, k - 4)) % 2

\* The numbers of bits.
LEMMA EightCases ==
    /\ \A k \in 0 .. 7 : k = 0 \/ k = 1 \/ k = 2 \/ k = 3 \/ k = 4 \/ k = 5 \/ k = 6 \/ k = 7
    /\ \A k \in 0 .. 4 : k \in 0 .. 7 /\ (k = 0 \/ k = 1 \/ k = 2 \/ k = 3 \/ k = 4)
    /\ \A k \in 5 .. 7 : k \in 0 .. 7 /\ (k = 5 \/ k = 6 \/ k = 7)
    /\ \A k \in 0 .. 3 : k \in 0 .. 7 /\ (k = 0 \/ k = 1 \/ k = 2 \/ k = 3)
OBVIOUS

\* What is shifted by eight bits or more leaves the low byte alone.
LEMMA ZeroBits ==
    ASSUME NEW e \in Nat
    PROVE  \A k \in 0 .. 7 : Bin(256 * e, k) = 0 /\ Bin(4096 * e, k) = 0
<1>1. 256 * e \in Nat /\ 4096 * e \in Nat
  OBVIOUS
<1>2. /\ (256 * e) % 2 = 0
      /\ ((256 * e) \div 2) % 2 = 0
      /\ ((256 * e) \div 4) % 2 = 0
      /\ ((256 * e) \div 8) % 2 = 0
      /\ ((256 * e) \div 16) % 2 = 0
      /\ ((256 * e) \div 32) % 2 = 0
      /\ ((256 * e) \div 64) % 2 = 0
      /\ ((256 * e) \div 128) % 2 = 0
  OBVIOUS
<1>3. /\ (4096 * e) % 2 = 0
      /\ ((4096 * e) \div 2) % 2 = 0
      /\ ((4096 * e) \div 4) % 2 = 0
      /\ ((4096 * e) \div 8) % 2 = 0
      /\ ((4096 * e) \div 16) % 2 = 0
      /\ ((4096 * e) \div 32) % 2 = 0
      /\ ((4096 * e) \div 64) % 2 = 0
      /\ ((4096 * e) \div 128) % 2 = 0
  OBVIOUS
<1>4. /\ Bin(256 * e, 0) = 0
      /\ Bin(256 * e, 1) = 0
      /\ Bin(256 * e, 2) = 0
      /\ Bin(256 * e, 3) = 0
      /\ Bin(256 * e, 4) = 0
      /\ Bin(256 * e, 5) = 0
      /\ Bin(256 * e, 6) = 0
      /\ Bin(256 * e, 7) = 0
  BY <1>1, <1>2, Bins
<1>5. /\ Bin(4096 * e, 0) = 0
      /\ Bin(4096 * e, 1) = 0
      /\ Bin(4096 * e, 2) = 0
      /\ Bin(4096 * e, 3) = 0
      /\ Bin(4096 * e, 4) = 0
      /\ Bin(4096 * e, 5) = 0
      /\ Bin(4096 * e, 6) = 0
      /\ Bin(4096 * e, 7) = 0
  BY <1>1, <1>3, Bins
<1>. QED  BY <1>4, <1>5, EightCases

\* The bits of what is shifted by five.
LEMMA SpreadBits ==
    ASSUME NEW c \in Nat, c < 256
    PROVE  /\ \A k \in 0 .. 4 : Bin(32 * c, k) = 0
           /\ \A k \in 5 .. 7 : Bin(32 * c, k) = Bin(c, k - 5)
<1>0. 32 * c \in Nat
  OBVIOUS
<1>1. /\ (32 * c) % 2 = 0
      /\ ((32 * c) \div 2) % 2 = 0
      /\ ((32 * c) \div 4) % 2 = 0
      /\ ((32 * c) \div 8) % 2 = 0
      /\ ((32 * c) \div 16) % 2 = 0
      /\ ((32 * c) \div 32) % 2 = c % 2
      /\ ((32 * c) \div 64) % 2 = (c \div 2) % 2
      /\ ((32 * c) \div 128) % 2 = (c \div 4) % 2
  OBVIOUS
<1>2. /\ Bin(32 * c, 0) = 0
      /\ Bin(32 * c, 1) = 0
      /\ Bin(32 * c, 2) = 0
      /\ Bin(32 * c, 3) = 0
      /\ Bin(32 * c, 4) = 0
      /\ Bin(32 * c, 5) = Bin(c, 0)
      /\ Bin(32 * c, 6) = Bin(c, 1)
      /\ Bin(32 * c, 7) = Bin(c, 2)
  BY <1>0, <1>1, Bins
<1>3. 5 - 5 = 0 /\ 6 - 5 = 1 /\ 7 - 5 = 2
  OBVIOUS
<1>. QED  BY <1>2, <1>3, EightCases

\* The bits of the new high byte.
LEMMA HighBitsHold ==
    ASSUME NEW a \in Nat, a < 256, NEW c \in Nat, c < 256
    PROVE  HighBits(HighByte(a, c), a, c)
<1>. DEFINE q == c \div 8
            h == c % 16
            r == 16 * h
            u == Xor(a, q)
            w == Xor(u, r)
<1>1. q \in Nat /\ q < 256 /\ h \in Nat /\ h < 16 /\ r \in Nat /\ r < 256
  OBVIOUS
<1>2. /\ q % 2 = (c \div 8) % 2
      /\ (q \div 2) % 2 = (c \div 16) % 2
      /\ (q \div 4) % 2 = (c \div 32) % 2
      /\ (q \div 8) % 2 = (c \div 64) % 2
      /\ (q \div 16) % 2 = (c \div 128) % 2
      /\ (q \div 32) % 2 = 0
      /\ (q \div 64) % 2 = 0
      /\ (q \div 128) % 2 = 0
  OBVIOUS
<1>3. /\ h % 2 = c % 2
      /\ (h \div 2) % 2 = (c \div 2) % 2
      /\ (h \div 4) % 2 = (c \div 4) % 2
      /\ (h \div 8) % 2 = (c \div 8) % 2
  OBVIOUS
<1>. HIDE DEF h
<1>4. /\ r % 2 = 0
      /\ (r \div 2) % 2 = 0
      /\ (r \div 4) % 2 = 0
      /\ (r \div 8) % 2 = 0
      /\ (r \div 16) % 2 = h % 2
      /\ (r \div 32) % 2 = (h \div 2) % 2
      /\ (r \div 64) % 2 = (h \div 4) % 2
      /\ (r \div 128) % 2 = (h \div 8) % 2
  BY <1>1
<1>. HIDE DEF q, r
<1>5. a \in Word /\ q \in Word /\ r \in Word /\ u \in Word
  BY <1>1, NatIsByte, XorType
<1>6. \A k \in 0 .. 7 : Bin(u, k) = (Bin(a, k) + Bin(q, k)) % 2
  BY <1>5, XorBits
<1>. HIDE DEF u
<1>7. \A k \in 0 .. 7 : Bin(w, k) = (Bin(u, k) + Bin(r, k)) % 2
  BY <1>5, XorBits
<1>. HIDE DEF w
<1>8. \A k \in 0 .. 7 : Bin(a, k) \in 0 .. 1 /\ Bin(q, k) \in 0 .. 1 /\ Bin(r, k) \in 0 .. 1
          /\ Bin(c, k) \in 0 .. 1
  BY <1>1, BinType
<1>9. /\ Bin(q, 0) = Bin(c, 3)
      /\ Bin(q, 1) = Bin(c, 4)
      /\ Bin(q, 2) = Bin(c, 5)
      /\ Bin(q, 3) = Bin(c, 6)
      /\ Bin(q, 4) = Bin(c, 7)
      /\ Bin(q, 5) = 0
      /\ Bin(q, 6) = 0
      /\ Bin(q, 7) = 0
  <2>1. /\ Bin(c, 0) = c % 2
        /\ Bin(c, 1) = (c \div 2) % 2
        /\ Bin(c, 2) = (c \div 4) % 2
        /\ Bin(c, 3) = (c \div 8) % 2
        /\ Bin(c, 4) = (c \div 16) % 2
        /\ Bin(c, 5) = (c \div 32) % 2
        /\ Bin(c, 6) = (c \div 64) % 2
        /\ Bin(c, 7) = (c \div 128) % 2
    BY Bins
  <2>2. /\ Bin(q, 0) = q % 2
        /\ Bin(q, 1) = (q \div 2) % 2
        /\ Bin(q, 2) = (q \div 4) % 2
        /\ Bin(q, 3) = (q \div 8) % 2
        /\ Bin(q, 4) = (q \div 16) % 2
        /\ Bin(q, 5) = (q \div 32) % 2
        /\ Bin(q, 6) = (q \div 64) % 2
        /\ Bin(q, 7) = (q \div 128) % 2
    BY <1>1, Bins
  <2>. QED  BY <1>2, <2>1, <2>2
<1>10. /\ Bin(r, 0) = 0
       /\ Bin(r, 1) = 0
       /\ Bin(r, 2) = 0
       /\ Bin(r, 3) = 0
       /\ Bin(r, 4) = Bin(c, 0)
       /\ Bin(r, 5) = Bin(c, 1)
       /\ Bin(r, 6) = Bin(c, 2)
       /\ Bin(r, 7) = Bin(c, 3)
  <2>1. /\ Bin(c, 0) = c % 2
        /\ Bin(c, 1) = (c \div 2) % 2
        /\ Bin(c, 2) = (c \div 4) % 2
        /\ Bin(c, 3) = (c \div 8) % 2
        /\ Bin(c, 4) = (c \div 16) % 2
        /\ Bin(c, 5) = (c \div 32) % 2
        /\ Bin(c, 6) = (c \div 64) % 2
        /\ Bin(c, 7) = (c \div 128) % 2
    BY Bins
  <2>2. /\ Bin(r, 0) = r % 2
        /\ Bin(r, 1) = (r \div 2) % 2
        /\ Bin(r, 2) = (r \div 4) % 2
        /\ Bin(r, 3) = (r \div 8) % 2
        /\ Bin(r, 4) = (r \div 16) % 2
        /\ Bin(r, 5) = (r \div 32) % 2
        /\ Bin(r, 6) = (r \div 64) % 2
        /\ Bin(r, 7) = (r \div 128) % 2
    BY <1>1, Bins
  <2>. QED  BY <1>3, <1>4, <2>1, <2>2
<1>11. \A k \in 0 .. 7 : Bin(w, k) = (Bin(a, k) + Bin(q, k) + Bin(r, k)) % 2
  BY <1>6, <1>7, <1>8
<1>12. \A k \in 0 .. 3 : Bin(w, k) = (Bin(a, k) + Bin(c, k + 3)) % 2
  <2>1. 0 + 3 = 3 /\ 1 + 3 = 4 /\ 2 + 3 = 5 /\ 3 + 3 = 6
    OBVIOUS
  <2>2. \A k \in 0 .. 3 : k \in 0 .. 7 /\ Bin(q, k) = Bin(c, k + 3) /\ Bin(r, k) = 0
    BY <1>9, <1>10, <2>1, EightCases
  <2>. QED  BY <1>8, <1>11, <2>2
<1>13. Bin(w, 4) = (Bin(a, 4) + Bin(c, 7) + Bin(c, 0)) % 2
  BY <1>9, <1>10, <1>11
<1>14. \A k \in 5 .. 7 : Bin(w, k) = (Bin(a, k) + Bin(c, k - 4)) % 2
  <2>1. 5 - 4 = 1 /\ 6 - 4 = 2 /\ 7 - 4 = 3
    OBVIOUS
  <2>2. \A k \in 5 .. 7 : k \in 0 .. 7 /\ Bin(q, k) = 0 /\ Bin(r, k) = Bin(c, k - 4)
    BY <1>9, <1>10, <2>1, EightCases
  <2>. QED  BY <1>8, <1>11, <2>2
<1>. QED  BY <1>12, <1>13, <1>14 DEF HighBits, HighByte, w, u, r, q, h

\* One round of the checksum, by its two bytes.
LEMMA CrcParts ==
    ASSUME NEW s \in Word, NEW x \in Byte,
           NEW d, d = Xor(Hi(s), x), NEW c, c = Mix(d), NEW w, w = CrcByte(s, x)
    PROVE  /\ d \in Nat /\ d < 256 /\ c \in Nat /\ c < 256 /\ w \in Word
           /\ LowBits(w, c) /\ Hi(w) = HighByte(s % 256, c) /\ HighBits(Hi(w), s % 256, c)
<1>1. s \in Nat /\ s < 65536 /\ x \in Nat /\ x < 256 /\ x \in Word
  BY WordIsNat, ByteIsNat
<1>2. Hi(s) \in Nat /\ Hi(s) < 256 /\ Hi(s) \in Word /\ ShiftRight(s, 8) = Hi(s)
  <2>1. s \div 256 \in Nat /\ s \div 256 < 256
    BY <1>1
  <2>. QED  BY <1>1, <2>1, NatIsByte, ShiftRights DEF Hi
<1>3. d \in Nat /\ d < 256 /\ d \in Word
  <2>1. Xor(Hi(s), x) \in Word /\ Xor(Hi(s), x) \in Nat
    BY <1>1, <1>2, XorHalf, XorType
  <2>2. Xor(Hi(s), x) < 256
    BY <1>1, <1>2, ClosedPowers DEF Closed
  <2>. QED  BY <2>1, <2>2
<1>4. c \in Nat /\ c < 256 /\ c \in Word
  BY <1>3, MixFacts
<1>5. w \in Word
  BY CrcByteType
<1>. DEFINE e == s % 256
            h == c % 16
            p == 256 * e
            r == 32 * c
            t == 4096 * h
<1>6. /\ ShiftLeft(16, s, 8) = p /\ ShiftLeft(16, c, 5) = r /\ ShiftLeft(16, r, 7) = t
      /\ e \in Nat /\ e < 256 /\ h \in Nat /\ h < 16
  <2>1. ShiftLeft(16, s, 8) = (s * 256) % 65536 /\ ShiftLeft(16, c, 5) = (c * 32) % 65536
    BY DEF ShiftLeft
  <2>2. (s * 256) % 65536 = 256 * (s % 256) /\ (c * 32) % 65536 = 32 * c
    BY <1>1, <1>4
  <2>3. ShiftLeft(16, 32 * c, 7) = ((32 * c) * 128) % 65536
    BY DEF ShiftLeft
  <2>4. ((32 * c) * 128) % 65536 = 4096 * (c % 16)
    BY <1>4
  <2>5. e \in Nat /\ e < 256 /\ h \in Nat /\ h < 16
    BY <1>1, <1>4
  <2>. QED  BY <2>1, <2>2, <2>3, <2>4, <2>5
<1>7. w = Xor(Xor(Xor(p, c), r), t)
  <2>1. ShiftRight(d, 4) = d \div 16
    BY <1>3, ShiftRights
  <2>. HIDE DEF p, r, t
  <2>. QED  BY <1>2, <1>6, <2>1 DEF CrcByte, Mix
<1>8. /\ p \div 256 = e /\ c \div 256 = 0 /\ r \div 256 = c \div 8 /\ t \div 256 = 16 * h
      /\ p \in Nat /\ p < 65536 /\ r \in Nat /\ r < 65536 /\ t \in Nat /\ t < 65536
  <2>. HIDE DEF e, h
  <2>1. p \div 256 = e /\ p \in Nat /\ p < 65536
    BY <1>6
  <2>2. t \div 256 = 16 * h /\ t \in Nat /\ t < 65536
    BY <1>6
  <2>3. c \div 256 = 0 /\ r \div 256 = c \div 8 /\ r \in Nat /\ r < 65536
    BY <1>4
  <2>. QED  BY <2>1, <2>2, <2>3
<1>9. \A k \in 0 .. 7 : Bin(p, k) = 0 /\ Bin(t, k) = 0
  <2>. HIDE DEF e, h
  <2>. QED  BY <1>6, ZeroBits
<1>10. /\ \A k \in 0 .. 4 : Bin(r, k) = 0
       /\ \A k \in 5 .. 7 : Bin(r, k) = Bin(c, k - 5)
  BY <1>4, SpreadBits
<1>. DEFINE u == Xor(p, c)
            v == Xor(u, r)
<1>. HIDE DEF p, r, t
<1>11. p \in Word /\ r \in Word /\ t \in Word /\ u \in Word /\ v \in Word
  <2>1. p \in Word /\ r \in Word /\ t \in Word
    BY <1>8, WordIsNat
  <2>. QED  BY <1>4, <2>1, XorType
<1>12. Hi(w) = HighByte(e, c)
  <2>1. e \in Word
    BY <1>6, NatIsByte
  <2>2. u \div 256 = Xor(e, 0)
    BY <1>4, <1>8, <1>11, XorDivided
  <2>3. u \div 256 = e
    BY <2>1, <2>2, XorWithZero
  <2>. HIDE DEF u, e, h
  <2>4. v \div 256 = Xor(e, c \div 8)
    BY <1>8, <1>11, <2>3, XorDivided
  <2>. HIDE DEF v
  <2>5. Xor(v, t) \div 256 = Xor(v \div 256, t \div 256)
    BY <1>11, XorDivided
  <2>. QED  BY <1>7, <1>8, <2>4, <2>5 DEF Hi, HighByte, u, v, h
<1>13. \A k \in 0 .. 7 : Bin(w, k) = (Bin(c, k) + Bin(r, k)) % 2
  <2>. TAKE k \in 0 .. 7
  <2>1. Bin(u, k) = (Bin(p, k) + Bin(c, k)) % 2
    BY <1>4, <1>11, XorBits
  <2>. HIDE DEF u
  <2>2. Bin(v, k) = (Bin(u, k) + Bin(r, k)) % 2
    BY <1>11, XorBits
  <2>. HIDE DEF v
  <2>3. Bin(w, k) = (Bin(v, k) + Bin(t, k)) % 2
    BY <1>7, <1>11, XorBits DEF u, v
  <2>4. Bin(c, k) \in 0 .. 1 /\ Bin(r, k) \in 0 .. 1
    BY <1>4, <1>8, BinType
  <2>5. Bin(p, k) = 0 /\ Bin(t, k) = 0
    BY <1>9
  <2>. QED  BY <2>1, <2>2, <2>3, <2>4, <2>5
<1>14. LowBits(w, c)
  <2>1. \A k \in 0 .. 7 : Bin(c, k) \in 0 .. 1
    BY <1>4, BinType
  <2>2. \A k \in 0 .. 4 : Bin(w, k) = Bin(c, k)
    BY <1>10, <1>13, <2>1, EightCases
  <2>3. \A k \in 5 .. 7 : Bin(w, k) = (Bin(c, k) + Bin(c, k - 5)) % 2
    BY <1>10, <1>13, EightCases
  <2>. QED  BY <2>2, <2>3 DEF LowBits
<1>. QED  BY <1>3, <1>4, <1>5, <1>6, <1>12, <1>14, HighBitsHold

-----------------------------------------------------------------------------
(* The bits of the checksum after one round.                               *)

\* The byte that one round of the checksum mixes and spreads.
Mixed(s, x) == Mix(Xor(Hi(s), x))

\* The low byte of a word has the word's lowest bits.
LEMMA LowByteBits ==
    ASSUME NEW s \in Word
    PROVE  /\ s \in Nat /\ s % 256 \in Nat /\ s % 256 < 256
           /\ Hi(s) \in Nat /\ Hi(s) < 256 /\ Hi(s) \in Word
           /\ \A k \in 0 .. 7 : Bin(s % 256, k) = Bin(s, k) /\ Bin(s, k) \in 0 .. 1
<1>1. s \in Nat /\ s < 65536
  BY WordIsNat
<1>. DEFINE a == s % 256
<1>2. a \in Nat /\ a < 256 /\ s \div 256 \in Nat /\ s \div 256 < 256
  BY <1>1
<1>3. /\ a % 2 = s % 2
      /\ (a \div 2) % 2 = (s \div 2) % 2
      /\ (a \div 4) % 2 = (s \div 4) % 2
      /\ (a \div 8) % 2 = (s \div 8) % 2
      /\ (a \div 16) % 2 = (s \div 16) % 2
      /\ (a \div 32) % 2 = (s \div 32) % 2
      /\ (a \div 64) % 2 = (s \div 64) % 2
      /\ (a \div 128) % 2 = (s \div 128) % 2
  BY <1>1
<1>. HIDE DEF a
<1>4. /\ Bin(a, 0) = a % 2
      /\ Bin(a, 1) = (a \div 2) % 2
      /\ Bin(a, 2) = (a \div 4) % 2
      /\ Bin(a, 3) = (a \div 8) % 2
      /\ Bin(a, 4) = (a \div 16) % 2
      /\ Bin(a, 5) = (a \div 32) % 2
      /\ Bin(a, 6) = (a \div 64) % 2
      /\ Bin(a, 7) = (a \div 128) % 2
  BY <1>2, Bins
<1>5. /\ Bin(s, 0) = s % 2
      /\ Bin(s, 1) = (s \div 2) % 2
      /\ Bin(s, 2) = (s \div 4) % 2
      /\ Bin(s, 3) = (s \div 8) % 2
      /\ Bin(s, 4) = (s \div 16) % 2
      /\ Bin(s, 5) = (s \div 32) % 2
      /\ Bin(s, 6) = (s \div 64) % 2
      /\ Bin(s, 7) = (s \div 128) % 2
  BY <1>1, Bins
<1>6. \A k \in 0 .. 7 : Bin(a, k) = Bin(s, k)
  BY <1>3, <1>4, <1>5, EightCases
<1>7. \A k \in 0 .. 7 : Bin(s, k) \in 0 .. 1
  BY <1>1, BinType
<1>8. Hi(s) \in Nat /\ Hi(s) < 256 /\ Hi(s) \in Word
  BY <1>2, NatIsByte DEF Hi
<1>. QED  BY <1>1, <1>2, <1>6, <1>7, <1>8 DEF a

\* A word is its two bytes.
LEMMA WordIsBytes ==
    ASSUME NEW s \in Word, NEW t \in Word, Hi(s) = Hi(t), \A k \in 0 .. 7 : Bin(s, k) = Bin(t, k)
    PROVE  s = t
<1>. DEFINE a == s % 256
            e == t % 256
<1>1. /\ s \in Nat /\ t \in Nat /\ a \in Nat /\ a < 256 /\ e \in Nat /\ e < 256
      /\ \A k \in 0 .. 7 : Bin(a, k) = Bin(s, k) /\ Bin(e, k) = Bin(t, k)
  BY LowByteBits
<1>2. a = e
  <2>. HIDE DEF a, e
  <2>. QED  BY <1>1, EightBits
<1>3. s \div 256 = t \div 256
  BY DEF Hi
<1>. QED  BY <1>1, <1>2, <1>3

\* The bits of the checksum after one round.
LEMMA RoundBits ==
    ASSUME NEW s \in Word, NEW x \in Byte, NEW c, c = Mixed(s, x), NEW w, w = CrcByte(s, x)
    PROVE  /\ Xor(Hi(s), x) \in Nat /\ Xor(Hi(s), x) < 256 /\ c = Mix(Xor(Hi(s), x))
           /\ c \in Nat /\ c < 256 /\ w \in Word /\ LowBits(w, c) /\ HighBits(Hi(w), s, c)
           /\ \A k \in 0 .. 7 : Bin(c, k) \in 0 .. 1 /\ Bin(s, k) \in 0 .. 1 /\ Bin(w, k) \in 0 .. 1
<1>. DEFINE d == Xor(Hi(s), x)
            a == s % 256
<1>1. c = Mix(d)
  BY DEF Mixed
<1>. HIDE DEF d
<1>2. /\ d \in Nat /\ d < 256 /\ c \in Nat /\ c < 256 /\ w \in Word
      /\ LowBits(w, c) /\ HighBits(Hi(w), a, c)
  BY <1>1, CrcParts DEF d
<1>. HIDE DEF a
<1>3. \A k \in 0 .. 7 : Bin(a, k) = Bin(s, k)
  BY LowByteBits DEF a
<1>4. HighBits(Hi(w), s, c)
  <2>1. /\ \A k \in 0 .. 3 : k \in 0 .. 7
        /\ \A k \in 5 .. 7 : k \in 0 .. 7
        /\ 4 \in 0 .. 7
    OBVIOUS
  <2>2. \A k \in 0 .. 3 : Bin(a, k) = Bin(s, k)
    BY <1>3, <2>1
  <2>3. \A k \in 5 .. 7 : Bin(a, k) = Bin(s, k)
    BY <1>3, <2>1
  <2>4. Bin(a, 4) = Bin(s, 4)
    BY <1>3, <2>1
  <2>. QED  BY <1>2, <2>2, <2>3, <2>4 DEF HighBits
<1>5. \A k \in 0 .. 7 : Bin(c, k) \in 0 .. 1
  BY <1>2, BinType
<1>6. \A k \in 0 .. 7 : Bin(s, k) \in 0 .. 1
  BY LowByteBits
<1>7. \A k \in 0 .. 7 : Bin(w, k) \in 0 .. 1
  BY <1>2, LowByteBits
<1>. QED  BY <1>1, <1>2, <1>4, <1>5, <1>6, <1>7 DEF d

\* The same, bit by bit.
LowEight(w, c) ==
    /\ Bin(w, 0) = Bin(c, 0) /\ Bin(w, 1) = Bin(c, 1) /\ Bin(w, 2) = Bin(c, 2)
    /\ Bin(w, 3) = Bin(c, 3) /\ Bin(w, 4) = Bin(c, 4)
    /\ Bin(w, 5) = (Bin(c, 5) + Bin(c, 0)) % 2
    /\ Bin(w, 6) = (Bin(c, 6) + Bin(c, 1)) % 2
    /\ Bin(w, 7) = (Bin(c, 7) + Bin(c, 2)) % 2

HighEight(h, s, c) ==
    /\ Bin(h, 0) = (Bin(s, 0) + Bin(c, 3)) % 2
    /\ Bin(h, 1) = (Bin(s, 1) + Bin(c, 4)) % 2
    /\ Bin(h, 2) = (Bin(s, 2) + Bin(c, 5)) % 2
    /\ Bin(h, 3) = (Bin(s, 3) + Bin(c, 6)) % 2
    /\ Bin(h, 4) = (Bin(s, 4) + Bin(c, 7) + Bin(c, 0)) % 2
    /\ Bin(h, 5) = (Bin(s, 5) + Bin(c, 1)) % 2
    /\ Bin(h, 6) = (Bin(s, 6) + Bin(c, 2)) % 2
    /\ Bin(h, 7) = (Bin(s, 7) + Bin(c, 3)) % 2

AreBits(n) ==
    /\ Bin(n, 0) \in 0 .. 1 /\ Bin(n, 1) \in 0 .. 1 /\ Bin(n, 2) \in 0 .. 1 /\ Bin(n, 3) \in 0 .. 1
    /\ Bin(n, 4) \in 0 .. 1 /\ Bin(n, 5) \in 0 .. 1 /\ Bin(n, 6) \in 0 .. 1 /\ Bin(n, 7) \in 0 .. 1

\* One round of the checksum, bit by bit.
LEMMA RoundEight ==
    ASSUME NEW s \in Word, NEW x \in Byte, NEW c, c = Mixed(s, x), NEW w, w = CrcByte(s, x)
    PROVE  /\ c \in Nat /\ c < 256 /\ w \in Word
           /\ LowEight(w, c) /\ HighEight(Hi(w), s, c) /\ AreBits(c) /\ AreBits(s) /\ AreBits(w)
<1>1. /\ c \in Nat /\ c < 256 /\ w \in Word /\ LowBits(w, c) /\ HighBits(Hi(w), s, c)
      /\ \A k \in 0 .. 7 : Bin(c, k) \in 0 .. 1 /\ Bin(s, k) \in 0 .. 1 /\ Bin(w, k) \in 0 .. 1
  BY RoundBits
<1>2. LowEight(w, c)
  <2>1. 0 \in 0 .. 4 /\ 1 \in 0 .. 4 /\ 2 \in 0 .. 4 /\ 3 \in 0 .. 4 /\ 4 \in 0 .. 4
    OBVIOUS
  <2>2. 5 \in 5 .. 7 /\ 6 \in 5 .. 7 /\ 7 \in 5 .. 7 /\ 5 - 5 = 0 /\ 6 - 5 = 1 /\ 7 - 5 = 2
    OBVIOUS
  <2>. QED  BY <1>1, <2>1, <2>2 DEF LowBits, LowEight
<1>3. HighEight(Hi(w), s, c)
  <2>1. 0 \in 0 .. 3 /\ 1 \in 0 .. 3 /\ 2 \in 0 .. 3 /\ 3 \in 0 .. 3
    OBVIOUS
  <2>2. 0 + 3 = 3 /\ 1 + 3 = 4 /\ 2 + 3 = 5 /\ 3 + 3 = 6
    OBVIOUS
  <2>3. 5 \in 5 .. 7 /\ 6 \in 5 .. 7 /\ 7 \in 5 .. 7 /\ 5 - 4 = 1 /\ 6 - 4 = 2 /\ 7 - 4 = 3
    OBVIOUS
  <2>. QED  BY <1>1, <2>1, <2>2, <2>3 DEF HighBits, HighEight
<1>4. 0 \in 0 .. 7 /\ 1 \in 0 .. 7 /\ 2 \in 0 .. 7 /\ 3 \in 0 .. 7 /\ 4 \in 0 .. 7
          /\ 5 \in 0 .. 7 /\ 6 \in 0 .. 7 /\ 7 \in 0 .. 7
  OBVIOUS
<1>5. AreBits(c) /\ AreBits(s) /\ AreBits(w)
  BY <1>1, <1>4 DEF AreBits
<1>. QED  BY <1>1, <1>2, <1>3, <1>5

-----------------------------------------------------------------------------
(* What the checksum, or a part of it, tells of the bytes it was made of:    *)
(* the low byte mixes only what came in, the high byte takes the old low     *)
(* byte in, so that bytes that differ in ten bits in a row cannot hide.      *)

\* Numbers with the same low byte.
SameEight(n, m) ==
    /\ Bin(n, 0) = Bin(m, 0) /\ Bin(n, 1) = Bin(m, 1) /\ Bin(n, 2) = Bin(m, 2)
    /\ Bin(n, 3) = Bin(m, 3) /\ Bin(n, 4) = Bin(m, 4) /\ Bin(n, 5) = Bin(m, 5)
    /\ Bin(n, 6) = Bin(m, 6) /\ Bin(n, 7) = Bin(m, 7)

\* Words and bytes that have their bits in common are the same.
LEMMA SameBits ==
    /\ \A s \in Word, t \in Word : SameEight(s, t) /\ Hi(s) = Hi(t) => s = t
    /\ \A c \in Nat, e \in Nat : c < 256 /\ e < 256 /\ SameEight(c, e) => c = e
<1>1. ASSUME NEW n, NEW m, SameEight(n, m)
      PROVE  \A k \in 0 .. 7 : Bin(n, k) = Bin(m, k)
  BY <1>1, EightCases DEF SameEight
<1>2. ASSUME NEW s \in Word, NEW t \in Word, SameEight(s, t), Hi(s) = Hi(t)
      PROVE  s = t
  BY <1>1, <1>2, WordIsBytes
<1>3. ASSUME NEW c \in Nat, NEW e \in Nat, c < 256, e < 256, SameEight(c, e)
      PROVE  c = e
  BY <1>1, <1>3, EightBits
<1>. QED  BY <1>2, <1>3

\* Two rounds with the same result had the same byte to mix and began with the same low byte.
LEMMA RoundBack ==
    ASSUME NEW s \in Word, NEW t \in Word, NEW x \in Byte, NEW y \in Byte,
           CrcByte(s, x) = CrcByte(t, y)
    PROVE  Mixed(s, x) = Mixed(t, y) /\ SameEight(s, t)
<1>. DEFINE w == CrcByte(s, x)
            c == Mixed(s, x)
            e == Mixed(t, y)
<1>1. /\ c \in Nat /\ c < 256 /\ LowEight(w, c) /\ HighEight(Hi(w), s, c) /\ AreBits(c)
             /\ AreBits(s)
      /\ e \in Nat /\ e < 256 /\ LowEight(w, e) /\ HighEight(Hi(w), t, e) /\ AreBits(e)
             /\ AreBits(t)
  BY RoundEight
<1>. HIDE DEF w, c, e
<1>2. SameEight(c, e)
  <2>1. Bin(c, 0) = Bin(e, 0) /\ Bin(c, 1) = Bin(e, 1) /\ Bin(c, 2) = Bin(e, 2)
            /\ Bin(c, 3) = Bin(e, 3) /\ Bin(c, 4) = Bin(e, 4)
    BY <1>1 DEF LowEight
  <2>2. (Bin(c, 5) + Bin(c, 0)) % 2 = (Bin(e, 5) + Bin(e, 0)) % 2
    BY <1>1 DEF LowEight
  <2>3. (Bin(c, 6) + Bin(c, 1)) % 2 = (Bin(e, 6) + Bin(e, 1)) % 2
    BY <1>1 DEF LowEight
  <2>4. (Bin(c, 7) + Bin(c, 2)) % 2 = (Bin(e, 7) + Bin(e, 2)) % 2
    BY <1>1 DEF LowEight
  <2>5. Bin(c, 5) = Bin(e, 5)
    BY <1>1, <2>1, <2>2 DEF AreBits
  <2>6. Bin(c, 6) = Bin(e, 6)
    BY <1>1, <2>1, <2>3 DEF AreBits
  <2>7. Bin(c, 7) = Bin(e, 7)
    BY <1>1, <2>1, <2>4 DEF AreBits
  <2>. QED  BY <2>1, <2>5, <2>6, <2>7 DEF SameEight
<1>3. c = e
  BY <1>1, <1>2, SameBits
<1>4. SameEight(s, t)
  <2>. DEFINE h == Hi(w)
  <2>1. HighEight(h, s, c) /\ HighEight(h, t, c)
    BY <1>1, <1>3
  <2>. HIDE DEF h
  <2>2. Bin(s, 0) = Bin(t, 0) /\ Bin(s, 1) = Bin(t, 1)
    BY <1>1, <2>1 DEF HighEight, AreBits
  <2>3. Bin(s, 2) = Bin(t, 2) /\ Bin(s, 3) = Bin(t, 3)
    BY <1>1, <2>1 DEF HighEight, AreBits
  <2>4. Bin(s, 4) = Bin(t, 4) /\ Bin(s, 5) = Bin(t, 5)
    BY <1>1, <2>1 DEF HighEight, AreBits
  <2>5. Bin(s, 6) = Bin(t, 6) /\ Bin(s, 7) = Bin(t, 7)
    BY <1>1, <2>1 DEF HighEight, AreBits
  <2>. QED  BY <2>2, <2>3, <2>4, <2>5 DEF SameEight
<1>. QED  BY <1>3, <1>4 DEF c, e

\* What is mixed tells the byte from the high byte of the checksum, and the other way round.
LEMMA MixedTells ==
    ASSUME NEW s \in Word, NEW t \in Word, NEW x \in Byte, NEW y \in Byte,
           Mixed(s, x) = Mixed(t, y)
    PROVE  /\ Xor(Hi(s), x) = Xor(Hi(t), y)
           /\ s = t => x = y
           /\ x = y => Hi(s) = Hi(t)
<1>. DEFINE d == Xor(Hi(s), x)
            f == Xor(Hi(t), y)
<1>1. d \in Nat /\ d < 256 /\ f \in Nat /\ f < 256
  BY RoundBits
<1>2. Mix(d) = Mix(f)
  BY DEF Mixed
<1>3. d = f
  <2>. HIDE DEF d, f
  <2>. QED  BY <1>1, <1>2, MixInjective
<1>4. Hi(s) \in Word /\ Hi(t) \in Word /\ x \in Word /\ y \in Word
  BY LowByteBits, ByteIsNat
<1>5. s = t => x = y
  BY <1>3, <1>4, XorCancels
<1>6. x = y => Hi(s) = Hi(t)
  BY <1>3, <1>4, XorCancelsRight
<1>. QED  BY <1>3, <1>5, <1>6

\* A round with the same byte can be undone.
LEMMA CrcUndone ==
    ASSUME NEW s \in Word, NEW t \in Word, NEW x \in Byte, CrcByte(s, x) = CrcByte(t, x)
    PROVE  s = t
<1>1. Mixed(s, x) = Mixed(t, x) /\ SameEight(s, t)
  BY RoundBack
<1>2. Hi(s) = Hi(t)
  BY <1>1, MixedTells
<1>. QED  BY <1>1, <1>2, SameBits

\* The low byte of the checksum tells the last byte.
LEMMA LowByteTells ==
    ASSUME NEW s \in Word, NEW x \in Byte, NEW y \in Byte,
           SameEight(CrcByte(s, x), CrcByte(s, y))
    PROVE  x = y
<1>. DEFINE w == CrcByte(s, x)
            v == CrcByte(s, y)
            c == Mixed(s, x)
            e == Mixed(s, y)
<1>1. /\ c \in Nat /\ c < 256 /\ LowEight(w, c) /\ AreBits(c)
      /\ e \in Nat /\ e < 256 /\ LowEight(v, e) /\ AreBits(e)
  BY RoundEight
<1>2. SameEight(w, v)
  OBVIOUS
<1>. HIDE DEF w, v, c, e
<1>3. SameEight(c, e)
  <2>1. Bin(c, 0) = Bin(e, 0) /\ Bin(c, 1) = Bin(e, 1) /\ Bin(c, 2) = Bin(e, 2)
            /\ Bin(c, 3) = Bin(e, 3) /\ Bin(c, 4) = Bin(e, 4)
    BY <1>1, <1>2 DEF LowEight, SameEight
  <2>2. (Bin(c, 5) + Bin(c, 0)) % 2 = (Bin(e, 5) + Bin(e, 0)) % 2
    BY <1>1, <1>2 DEF LowEight, SameEight
  <2>3. (Bin(c, 6) + Bin(c, 1)) % 2 = (Bin(e, 6) + Bin(e, 1)) % 2
    BY <1>1, <1>2 DEF LowEight, SameEight
  <2>4. (Bin(c, 7) + Bin(c, 2)) % 2 = (Bin(e, 7) + Bin(e, 2)) % 2
    BY <1>1, <1>2 DEF LowEight, SameEight
  <2>5. Bin(c, 5) = Bin(e, 5)
    BY <1>1, <2>1, <2>2 DEF AreBits
  <2>6. Bin(c, 6) = Bin(e, 6)
    BY <1>1, <2>1, <2>3 DEF AreBits
  <2>7. Bin(c, 7) = Bin(e, 7)
    BY <1>1, <2>1, <2>4 DEF AreBits
  <2>. QED  BY <2>1, <2>5, <2>6, <2>7 DEF SameEight
<1>4. c = e
  BY <1>1, <1>3, SameBits
<1>. QED  BY <1>4, MixedTells DEF c, e

\* Two bytes in a row are told by the checksum.
LEMMA TwoBytesTold ==
    ASSUME NEW s \in Word, NEW x \in Byte, NEW y \in Byte, NEW x2 \in Byte, NEW y2 \in Byte,
           CrcByte(CrcByte(s, x), x2) = CrcByte(CrcByte(s, y), y2)
    PROVE  x = y /\ x2 = y2
<1>. DEFINE w == CrcByte(s, x)
            v == CrcByte(s, y)
<1>1. w \in Word /\ v \in Word
  BY CrcByteType
<1>2. CrcByte(w, x2) = CrcByte(v, y2)
  OBVIOUS
<1>3. Mixed(w, x2) = Mixed(v, y2) /\ SameEight(w, v)
  <2>. HIDE DEF w, v
  <2>. QED  BY <1>1, <1>2, RoundBack
<1>4. x = y
  BY <1>3, LowByteTells
<1>5. w = v
  BY <1>4
<1>6. x2 = y2
  <2>. HIDE DEF w, v
  <2>. QED  BY <1>1, <1>3, <1>5, MixedTells
<1>. QED  BY <1>4, <1>6

\* The bits of what is mixed of bytes that differ in their lowest bit only, or not in their highest.
LEMMA LowestMixed ==
    ASSUME NEW s \in Word, NEW x \in Byte, NEW y \in Byte,
           NEW c, c = Mixed(s, x), NEW e, e = Mixed(s, y)
    PROVE  /\ x \div 128 = y \div 128 => Bin(c, 7) = Bin(e, 7)
           /\ x \div 2 = y \div 2 /\ Bin(c, 0) = Bin(e, 0) => x = y
<1>. DEFINE d == Xor(Hi(s), x)
            f == Xor(Hi(s), y)
<1>1. d \in Nat /\ d < 256 /\ f \in Nat /\ f < 256 /\ c = Mix(d) /\ e = Mix(f)
  BY RoundBits
<1>2. /\ Hi(s) \in Word /\ x \in Word /\ y \in Word
      /\ x \in Nat /\ y \in Nat /\ x < 256 /\ y < 256
  BY LowByteBits, ByteIsNat
<1>3. /\ d \div 128 = Xor(Hi(s) \div 128, x \div 128) /\ d \div 2 = Xor(Hi(s) \div 2, x \div 2)
      /\ f \div 128 = Xor(Hi(s) \div 128, y \div 128) /\ f \div 2 = Xor(Hi(s) \div 2, y \div 2)
  <2>. DEFINE z == Hi(s)
  <2>1. z \in Word
    BY <1>2
  <2>. HIDE DEF z
  <2>2. Xor(z, x) \div 128 = Xor(z \div 128, x \div 128)
            /\ Xor(z, x) \div 2 = Xor(z \div 2, x \div 2)
    BY <1>2, <2>1, XorDivided
  <2>3. Xor(z, y) \div 128 = Xor(z \div 128, y \div 128)
            /\ Xor(z, y) \div 2 = Xor(z \div 2, y \div 2)
    BY <1>2, <2>1, XorDivided
  <2>. QED  BY <2>2, <2>3 DEF z
<1>4. /\ c \in Nat /\ c \div 128 = d \div 128 /\ c % 2 = (d + (d \div 16)) % 2
      /\ e \in Nat /\ e \div 128 = f \div 128 /\ e % 2 = (f + (f \div 16)) % 2
  <2>. HIDE DEF d, f
  <2>. QED  BY <1>1, MixFacts
<1>5. d = f => x = y
  BY <1>2, XorCancels
<1>6. Bin(c, 7) = (c \div 128) % 2 /\ Bin(e, 7) = (e \div 128) % 2
  BY <1>4, Bins
<1>7. Bin(c, 0) = c % 2 /\ Bin(e, 0) = e % 2
  BY <1>4, Bins
<1>8. x \div 128 = y \div 128 => d \div 128 = f \div 128
  BY <1>3
<1>9. x \div 2 = y \div 2 => d \div 2 = f \div 2
  BY <1>3
<1>. HIDE DEF d, f
<1>10. x \div 128 = y \div 128 => Bin(c, 7) = Bin(e, 7)
  BY <1>4, <1>6, <1>8
<1>11. ASSUME x \div 2 = y \div 2, Bin(c, 0) = Bin(e, 0)
       PROVE  x = y
  <2>1. d \div 2 = f \div 2
    BY <1>9, <1>11
  <2>2. (d + (d \div 16)) % 2 = (f + (f \div 16)) % 2
    BY <1>4, <1>7, <1>11
  <2>3. d \div 16 = f \div 16
    BY <1>1, <2>1
  <2>4. d % 2 = f % 2
    BY <1>1, <2>2, <2>3
  <2>5. d = f
    BY <1>1, <2>1, <2>4
  <2>. QED  BY <1>5, <2>5
<1>. QED  BY <1>10, <1>11

\* So the lowest bit of the checksum tells the lowest bit of the last byte.
LEMMA LowestTells ==
    ASSUME NEW s \in Word, NEW x \in Byte, NEW y \in Byte, x \div 2 = y \div 2,
           Bin(CrcByte(s, x), 0) = Bin(CrcByte(s, y), 0)
    PROVE  x = y
<1>1. Bin(CrcByte(s, x), 0) = Bin(Mixed(s, x), 0) /\ Bin(CrcByte(s, y), 0) = Bin(Mixed(s, y), 0)
  BY RoundEight DEF LowEight
<1>. QED  BY <1>1, LowestMixed

\* Three bytes in a row, if they differ in nine bits at most that are in a row.
LEMMA ThreeBytesTold ==
    ASSUME NEW s \in Word, NEW x \in Byte, NEW y \in Byte, NEW x2 \in Byte, NEW y2 \in Byte,
           NEW x3 \in Byte, NEW y3 \in Byte,
           CrcByte(CrcByte(CrcByte(s, x), x2), x3) = CrcByte(CrcByte(CrcByte(s, y), y2), y3),
           x \div 2 = y \div 2, x3 % 2 = y3 % 2
    PROVE  x = y /\ x2 = y2 /\ x3 = y3
<1>. DEFINE w == CrcByte(s, x)
            v == CrcByte(s, y)
            p == CrcByte(w, x2)
            q == CrcByte(v, y2)
            c == Mixed(w, x2)
            e == Mixed(v, y2)
<1>1. w \in Word /\ v \in Word /\ p \in Word /\ q \in Word
  BY CrcByteType
<1>2. Mixed(p, x3) = Mixed(q, y3) /\ SameEight(p, q)
  <2>1. CrcByte(p, x3) = CrcByte(q, y3)
    OBVIOUS
  <2>. HIDE DEF p, q
  <2>. QED  BY <1>1, <2>1, RoundBack
<1>3. Bin(Hi(p), 0) = Bin(Hi(q), 0)
  <2>1. Xor(Hi(p), x3) = Xor(Hi(q), y3)
    <3>. HIDE DEF p, q
    <3>. QED  BY <1>1, <1>2, MixedTells
  <2>. DEFINE h == Hi(p)
              k == Hi(q)
  <2>2. h \in Nat /\ k \in Nat /\ h \in Word /\ k \in Word
    <3>. HIDE DEF p, q
    <3>. QED  BY <1>1, LowByteBits
  <2>3. Xor(h, x3) = Xor(k, y3)
    BY <2>1
  <2>. HIDE DEF h, k
  <2>4. x3 \in Nat /\ y3 \in Nat /\ x3 \in Word /\ y3 \in Word
    BY ByteIsNat
  <2>5. Xor(h, x3) % 2 = (h + x3) % 2 /\ Xor(k, y3) % 2 = (k + y3) % 2
    BY <2>2, <2>4, XorOfHalves
  <2>6. (h + x3) % 2 = (k + y3) % 2
    BY <2>3, <2>5
  <2>7. h % 2 = k % 2
    BY <2>2, <2>4, <2>6
  <2>8. Bin(h, 0) = h % 2 /\ Bin(k, 0) = k % 2
    BY <2>2, Bins
  <2>. QED  BY <2>7, <2>8 DEF h, k
<1>4. /\ c \in Nat /\ c < 256 /\ LowEight(p, c) /\ HighEight(Hi(p), w, c) /\ AreBits(c)
             /\ AreBits(w)
      /\ e \in Nat /\ e < 256 /\ LowEight(q, e) /\ HighEight(Hi(q), v, e) /\ AreBits(e)
             /\ AreBits(v)
  <2>. HIDE DEF w, v
  <2>. QED  BY <1>1, RoundEight
<1>5. Bin(w, 0) = Bin(v, 0)
  <2>. HIDE DEF w, v, p, q, c, e
  <2>1. Bin(c, 3) = Bin(e, 3)
    BY <1>2, <1>4 DEF LowEight, SameEight
  <2>2. Bin(Hi(p), 0) = (Bin(w, 0) + Bin(c, 3)) % 2 /\ Bin(Hi(q), 0) = (Bin(v, 0) + Bin(e, 3)) % 2
    BY <1>4 DEF HighEight
  <2>3. Bin(c, 3) \in 0 .. 1 /\ Bin(w, 0) \in 0 .. 1 /\ Bin(v, 0) \in 0 .. 1
    BY <1>4 DEF AreBits
  <2>4. (Bin(w, 0) + Bin(c, 3)) % 2 = (Bin(v, 0) + Bin(c, 3)) % 2
    BY <1>3, <2>1, <2>2
  <2>. QED  BY <2>3, <2>4
<1>6. x = y
  BY <1>5, LowestTells
<1>7. w = v
  BY <1>6
<1>8. CrcByte(CrcByte(w, x2), x3) = CrcByte(CrcByte(w, y2), y3)
  BY <1>7
<1>9. x2 = y2 /\ x3 = y3
  <2>. HIDE DEF w, v
  <2>. QED  BY <1>1, <1>8, TwoBytesTold
<1>. QED  BY <1>6, <1>9

\* The high byte of the checksum tells the last byte, if its highest bit or the lowest bit of the
\* checksum is known.
LEMMA HighByteTells ==
    ASSUME NEW s \in Word, NEW x \in Byte, NEW y \in Byte,
           Hi(CrcByte(s, x)) = Hi(CrcByte(s, y)),
           \/ x \div 128 = y \div 128
           \/ Bin(CrcByte(s, x), 0) = Bin(CrcByte(s, y), 0)
    PROVE  x = y
<1>. DEFINE w == CrcByte(s, x)
            v == CrcByte(s, y)
            h == Hi(w)
            c == Mixed(s, x)
            e == Mixed(s, y)
<1>1. /\ c \in Nat /\ c < 256 /\ LowEight(w, c) /\ HighEight(h, s, c) /\ AreBits(c) /\ AreBits(s)
      /\ e \in Nat /\ e < 256 /\ LowEight(v, e) /\ HighEight(h, s, e) /\ AreBits(e)
  BY RoundEight
<1>2. \/ Bin(c, 7) = Bin(e, 7)
      \/ Bin(c, 0) = Bin(e, 0)
  <2>1. CASE x \div 128 = y \div 128
    BY <2>1, LowestMixed
  <2>2. CASE Bin(w, 0) = Bin(v, 0)
    <3>. HIDE DEF w, v, c, e
    <3>. QED  BY <1>1, <2>2 DEF LowEight
  <2>. QED  BY <2>1, <2>2
<1>. HIDE DEF w, v, c, e, h
<1>3. SameEight(c, e)
  <2>1. Bin(c, 1) = Bin(e, 1) /\ Bin(c, 2) = Bin(e, 2)
    BY <1>1 DEF HighEight, AreBits
  <2>2. Bin(c, 3) = Bin(e, 3) /\ Bin(c, 4) = Bin(e, 4)
    BY <1>1 DEF HighEight, AreBits
  <2>3. Bin(c, 5) = Bin(e, 5) /\ Bin(c, 6) = Bin(e, 6)
    BY <1>1 DEF HighEight, AreBits
  <2>4. (Bin(s, 4) + Bin(c, 7) + Bin(c, 0)) % 2 = (Bin(s, 4) + Bin(e, 7) + Bin(e, 0)) % 2
    BY <1>1 DEF HighEight
  <2>5. /\ Bin(s, 4) \in 0 .. 1 /\ Bin(c, 7) \in 0 .. 1 /\ Bin(c, 0) \in 0 .. 1
        /\ Bin(e, 7) \in 0 .. 1 /\ Bin(e, 0) \in 0 .. 1
    BY <1>1 DEF AreBits
  <2>6. Bin(c, 7) = Bin(e, 7) /\ Bin(c, 0) = Bin(e, 0)
    BY <1>2, <2>4, <2>5
  <2>. QED  BY <2>1, <2>2, <2>3, <2>6 DEF SameEight
<1>4. c = e
  BY <1>1, <1>3, SameBits
<1>. QED  BY <1>4, MixedTells DEF c, e

\* Two bytes and the highest bit of the checksum's low byte, if the first byte differs in its lowest
\* bit at most.
LEMMA TwoBytesTop ==
    ASSUME NEW s \in Word, NEW x \in Byte, NEW y \in Byte, NEW x2 \in Byte, NEW y2 \in Byte,
           NEW p, p = CrcByte(CrcByte(s, x), x2), NEW q, q = CrcByte(CrcByte(s, y), y2),
           x \div 2 = y \div 2, Hi(p) = Hi(q), Bin(p, 0) = Bin(q, 0), Bin(p, 3) = Bin(q, 3)
    PROVE  x = y /\ x2 = y2
<1>. DEFINE w == CrcByte(s, x)
            v == CrcByte(s, y)
            h == Hi(p)
            c == Mixed(w, x2)
            e == Mixed(v, y2)
<1>1. w \in Word /\ v \in Word
  BY CrcByteType
<1>2. /\ LowEight(p, c) /\ HighEight(h, w, c) /\ AreBits(c) /\ AreBits(w)
      /\ LowEight(q, e) /\ HighEight(h, v, e) /\ AreBits(e) /\ AreBits(v)
  <2>1. p = CrcByte(w, x2) /\ q = CrcByte(v, y2) /\ Hi(q) = h
    OBVIOUS
  <2>. HIDE DEF w, v, h
  <2>2. HighEight(Hi(p), w, c) /\ HighEight(Hi(q), v, e)
    BY <1>1, <2>1, RoundEight
  <2>3. HighEight(h, w, c)
    BY <2>2 DEF h
  <2>. QED  BY <1>1, <2>1, <2>2, <2>3, RoundEight
<1>3. Bin(w, 0) = Bin(v, 0)
  <2>. HIDE DEF w, v, c, e, h
  <2>1. Bin(c, 3) = Bin(e, 3)
    BY <1>2 DEF LowEight
  <2>2. (Bin(w, 0) + Bin(c, 3)) % 2 = (Bin(v, 0) + Bin(e, 3)) % 2
    BY <1>2 DEF HighEight
  <2>3. Bin(c, 3) \in 0 .. 1 /\ Bin(w, 0) \in 0 .. 1 /\ Bin(v, 0) \in 0 .. 1
    BY <1>2 DEF AreBits
  <2>. QED  BY <2>1, <2>2, <2>3
<1>4. x = y
  BY <1>3, LowestTells
<1>5. w = v
  BY <1>4
<1>6. Hi(CrcByte(w, x2)) = Hi(CrcByte(w, y2)) /\ Bin(CrcByte(w, x2), 0) = Bin(CrcByte(w, y2), 0)
  BY <1>5
<1>7. x2 = y2
  <2>. HIDE DEF w, v
  <2>. QED  BY <1>1, <1>6, HighByteTells
<1>. QED  BY <1>4, <1>7

\* The lowest bit of the last byte is told by bit 4 of the checksum's high byte.
LEMMA LowestByHigh ==
    ASSUME NEW s \in Word, NEW x \in Byte, NEW y \in Byte, x \div 2 = y \div 2,
           Bin(Hi(CrcByte(s, x)), 4) = Bin(Hi(CrcByte(s, y)), 4)
    PROVE  x = y
<1>. DEFINE w == CrcByte(s, x)
            v == CrcByte(s, y)
            c == Mixed(s, x)
            e == Mixed(s, y)
<1>1. /\ HighEight(Hi(w), s, c) /\ AreBits(c) /\ AreBits(s)
      /\ HighEight(Hi(v), s, e) /\ AreBits(e)
  BY RoundEight
<1>2. x \div 128 = y \div 128
  <2>1. x \in Nat /\ y \in Nat
    BY ByteIsNat
  <2>. QED  BY <2>1
<1>3. Bin(c, 7) = Bin(e, 7)
  BY <1>2, LowestMixed
<1>4. Bin(c, 0) = Bin(e, 0)
  <2>1. Bin(Hi(w), 4) = Bin(Hi(v), 4)
    OBVIOUS
  <2>. HIDE DEF w, v, c, e
  <2>2. (Bin(s, 4) + Bin(c, 7) + Bin(c, 0)) % 2 = (Bin(s, 4) + Bin(e, 7) + Bin(e, 0)) % 2
    BY <1>1, <2>1 DEF HighEight
  <2>3. /\ Bin(s, 4) \in 0 .. 1 /\ Bin(c, 7) \in 0 .. 1 /\ Bin(c, 0) \in 0 .. 1
        /\ Bin(e, 7) \in 0 .. 1 /\ Bin(e, 0) \in 0 .. 1
    BY <1>1 DEF AreBits
  <2>. QED  BY <1>3, <2>2, <2>3
<1>. QED  BY <1>4, LowestMixed

-----------------------------------------------------------------------------
(* Two letters in a row are ten bits in a row, and those are in at most      *)
(* three bytes.                                                              *)

\* Bytes of which all groups but two in a row are the same.
Near(b, d, g) == \A k \in Nat : k \notin {g, g + 1} => Group(b, k) = Group(d, k)

\* A bit is 0 or 1, and 0 after the last byte.
LEMMA BitType ==
    ASSUME NEW b \in Seq(Byte), NEW i \in Nat
    PROVE  Bit(b, i) \in 0 .. 1 /\ (i >= 8 * Len(b) => Bit(b, i) = 0)
<1>1. CASE i < 8 * Len(b)
  <2>1. (i \div 8) + 1 \in 1 .. Len(b) /\ 7 - (i % 8) \in 0 .. 7
    BY <1>1
  <2>. DEFINE x == b[(i \div 8) + 1]
              k == 7 - (i % 8)
  <2>2. x \in Nat
    BY <2>1, ByteIsNat
  <2>3. Bit(b, i) = ShiftRight(x, k) % 2
    BY <1>1 DEF Bit
  <2>. HIDE DEF x
  <2>4. k \in 0 .. 7
    BY <2>1
  <2>. HIDE DEF k
  <2>5. ShiftRight(x, k) % 2 = Bin(x, k)
    BY DEF ShiftRight, Bin
  <2>6. Bit(b, i) \in 0 .. 1
    BY <2>2, <2>3, <2>4, <2>5, BinType
  <2>. QED  BY <1>1, <2>6
<1>2. CASE ~(i < 8 * Len(b))
  BY <1>2 DEF Bit
<1>. QED  BY <1>1, <1>2

\* Bit i is the t-th of group k.
BitInGroup(i, k, t) == i = 5 * k + t

\* The same groups have the same bits.
LEMMA SameGroup ==
    ASSUME NEW b \in Seq(Byte), NEW d \in Seq(Byte), NEW k \in Nat, Group(b, k) = Group(d, k),
           NEW i \in Nat, NEW t \in 0 .. 4, BitInGroup(i, k, t)
    PROVE  Bit(b, i) = Bit(d, i)
<1>. DEFINE e == 5 * k
<1>1. e \in Nat /\ e + 1 \in Nat /\ e + 2 \in Nat /\ e + 3 \in Nat /\ e + 4 \in Nat
  OBVIOUS
<1>2. /\ Group(b, k) = 16 * Bit(b, e) + 8 * Bit(b, e + 1) + 4 * Bit(b, e + 2)
                        + 2 * Bit(b, e + 3) + Bit(b, e + 4)
      /\ Group(d, k) = 16 * Bit(d, e) + 8 * Bit(d, e + 1) + 4 * Bit(d, e + 2)
                        + 2 * Bit(d, e + 3) + Bit(d, e + 4)
  BY <1>1, GroupSum
<1>3. i = e \/ i = e + 1 \/ i = e + 2 \/ i = e + 3 \/ i = e + 4
  BY DEF BitInGroup
<1>. HIDE DEF e
<1>4. /\ Bit(b, e) \in 0 .. 1 /\ Bit(b, e + 1) \in 0 .. 1 /\ Bit(b, e + 2) \in 0 .. 1
      /\ Bit(b, e + 3) \in 0 .. 1 /\ Bit(b, e + 4) \in 0 .. 1
  BY <1>1, BitType
<1>5. /\ Bit(d, e) \in 0 .. 1 /\ Bit(d, e + 1) \in 0 .. 1 /\ Bit(d, e + 2) \in 0 .. 1
      /\ Bit(d, e + 3) \in 0 .. 1 /\ Bit(d, e + 4) \in 0 .. 1
  BY <1>1, BitType
<1>. DEFINE b0 == Bit(b, e)
            b1 == Bit(b, e + 1)
            b2 == Bit(b, e + 2)
            b3 == Bit(b, e + 3)
            b4 == Bit(b, e + 4)
            d0 == Bit(d, e)
            d1 == Bit(d, e + 1)
            d2 == Bit(d, e + 2)
            d3 == Bit(d, e + 3)
            d4 == Bit(d, e + 4)
<1>6. b0 = d0 /\ b1 = d1 /\ b2 = d2 /\ b3 = d3 /\ b4 = d4
  <2>1. /\ Group(b, k) = 16 * b0 + 8 * b1 + 4 * b2 + 2 * b3 + b4
        /\ Group(d, k) = 16 * d0 + 8 * d1 + 4 * d2 + 2 * d3 + d4
    BY <1>2
  <2>2. /\ b0 \in 0 .. 1 /\ b1 \in 0 .. 1 /\ b2 \in 0 .. 1 /\ b3 \in 0 .. 1 /\ b4 \in 0 .. 1
        /\ d0 \in 0 .. 1 /\ d1 \in 0 .. 1 /\ d2 \in 0 .. 1 /\ d3 \in 0 .. 1 /\ d4 \in 0 .. 1
    BY <1>4, <1>5
  <2>. HIDE DEF b0, b1, b2, b3, b4, d0, d1, d2, d3, d4
  <2>3. 16 * b0 + 8 * b1 + 4 * b2 + 2 * b3 + b4 = 16 * d0 + 8 * d1 + 4 * d2 + 2 * d3 + d4
    BY <2>1
  <2>. QED  BY <2>2, <2>3
<1>. QED  BY <1>3, <1>6

\* Bit i is not in group g or the one after it.
Outside(i, g) == i < 5 * g \/ i >= 5 * g + 10

\* The bits outside of the two groups are the same.
LEMMA NearBit ==
    ASSUME NEW b \in Seq(Byte), NEW d \in Seq(Byte), NEW g \in Nat, Near(b, d, g),
           NEW i \in Nat, Outside(i, g)
    PROVE  Bit(b, i) = Bit(d, i)
<1>. DEFINE k == i \div 5
            t == i % 5
<1>1. k \in Nat /\ t \in 0 .. 4 /\ BitInGroup(i, k, t)
  BY DEF BitInGroup
<1>. HIDE DEF k, t
<1>2. k # g /\ k # g + 1
  BY <1>1 DEF BitInGroup, Outside
<1>3. Group(b, k) = Group(d, k)
  BY <1>1, <1>2 DEF Near
<1>. QED  BY <1>1, <1>3, SameGroup

\* The bits of two bytes in the same place.
LEMMA NearBins ==
    ASSUME NEW b \in Seq(Byte), NEW d \in Seq(Byte), NEW g \in Nat, Near(b, d, g),
           NEW j \in Nat, NEW x, x = ByteAt(b, j + 1), NEW y, y = ByteAt(d, j + 1)
    PROVE  /\ Outside(8 * j, g) => Bin(x, 7) = Bin(y, 7)
           /\ Outside(8 * j + 1, g) => Bin(x, 6) = Bin(y, 6)
           /\ Outside(8 * j + 2, g) => Bin(x, 5) = Bin(y, 5)
           /\ Outside(8 * j + 3, g) => Bin(x, 4) = Bin(y, 4)
           /\ Outside(8 * j + 4, g) => Bin(x, 3) = Bin(y, 3)
           /\ Outside(8 * j + 5, g) => Bin(x, 2) = Bin(y, 2)
           /\ Outside(8 * j + 6, g) => Bin(x, 1) = Bin(y, 1)
           /\ Outside(8 * j + 7, g) => Bin(x, 0) = Bin(y, 0)
<1>1. x \in Nat /\ y \in Nat
  BY ByteAtType
<1>. DEFINE Same(i) == Bit(b, i) = Bit(d, i)
<1>2. \A i \in Nat : Outside(i, g) => Same(i)
  BY NearBit
<1>3. /\ Same(8 * j) => Bin(x, 7) = Bin(y, 7)
      /\ Same(8 * j + 1) => Bin(x, 6) = Bin(y, 6)
      /\ Same(8 * j + 2) => Bin(x, 5) = Bin(y, 5)
      /\ Same(8 * j + 3) => Bin(x, 4) = Bin(y, 4)
      /\ Same(8 * j + 4) => Bin(x, 3) = Bin(y, 3)
      /\ Same(8 * j + 5) => Bin(x, 2) = Bin(y, 2)
      /\ Same(8 * j + 6) => Bin(x, 1) = Bin(y, 1)
      /\ Same(8 * j + 7) => Bin(x, 0) = Bin(y, 0)
  <2>1. /\ Bit(b, 8 * j) = (x \div 128) % 2
        /\ Bit(b, 8 * j + 1) = (x \div 64) % 2
        /\ Bit(b, 8 * j + 2) = (x \div 32) % 2
        /\ Bit(b, 8 * j + 3) = (x \div 16) % 2
        /\ Bit(b, 8 * j + 4) = (x \div 8) % 2
        /\ Bit(b, 8 * j + 5) = (x \div 4) % 2
        /\ Bit(b, 8 * j + 6) = (x \div 2) % 2
        /\ Bit(b, 8 * j + 7) = x % 2
    BY BitAt
  <2>2. /\ Bit(d, 8 * j) = (y \div 128) % 2
        /\ Bit(d, 8 * j + 1) = (y \div 64) % 2
        /\ Bit(d, 8 * j + 2) = (y \div 32) % 2
        /\ Bit(d, 8 * j + 3) = (y \div 16) % 2
        /\ Bit(d, 8 * j + 4) = (y \div 8) % 2
        /\ Bit(d, 8 * j + 5) = (y \div 4) % 2
        /\ Bit(d, 8 * j + 6) = (y \div 2) % 2
        /\ Bit(d, 8 * j + 7) = y % 2
    BY BitAt
  <2>3. /\ Bin(x, 0) = x % 2
        /\ Bin(x, 1) = (x \div 2) % 2
        /\ Bin(x, 2) = (x \div 4) % 2
        /\ Bin(x, 3) = (x \div 8) % 2
        /\ Bin(x, 4) = (x \div 16) % 2
        /\ Bin(x, 5) = (x \div 32) % 2
        /\ Bin(x, 6) = (x \div 64) % 2
        /\ Bin(x, 7) = (x \div 128) % 2
    BY <1>1, Bins
  <2>4. /\ Bin(y, 0) = y % 2
        /\ Bin(y, 1) = (y \div 2) % 2
        /\ Bin(y, 2) = (y \div 4) % 2
        /\ Bin(y, 3) = (y \div 8) % 2
        /\ Bin(y, 4) = (y \div 16) % 2
        /\ Bin(y, 5) = (y \div 32) % 2
        /\ Bin(y, 6) = (y \div 64) % 2
        /\ Bin(y, 7) = (y \div 128) % 2
    BY <1>1, Bins
  <2>. QED  BY <2>1, <2>2, <2>3, <2>4
<1>. HIDE DEF Same
<1>4. /\ 8 * j \in Nat /\ 8 * j + 1 \in Nat /\ 8 * j + 2 \in Nat /\ 8 * j + 3 \in Nat
      /\ 8 * j + 4 \in Nat /\ 8 * j + 5 \in Nat /\ 8 * j + 6 \in Nat /\ 8 * j + 7 \in Nat
  OBVIOUS
<1>. QED  BY <1>2, <1>3, <1>4

\* The last bit of a byte that the two lists do not differ in.
LEMMA NearLastBin ==
    ASSUME NEW b \in Seq(Byte), NEW d \in Seq(Byte), NEW g \in Nat, Near(b, d, g),
           NEW m \in Nat, Outside(8 * m + 7, g),
           NEW x, x = ByteAt(b, m + 1), NEW y, y = ByteAt(d, m + 1)
    PROVE  Bin(x, 0) = Bin(y, 0)
BY NearBins

\* The highest bit, and all bits but the lowest.
LEMMA HighestBits ==
    ASSUME NEW x \in Nat, x < 256, NEW y \in Nat, y < 256
    PROVE  /\ Bin(x, 7) = Bin(y, 7) => x \div 128 = y \div 128
           /\ /\ Bin(x, 7) = Bin(y, 7) /\ Bin(x, 6) = Bin(y, 6) /\ Bin(x, 5) = Bin(y, 5)
              /\ Bin(x, 4) = Bin(y, 4) /\ Bin(x, 3) = Bin(y, 3) /\ Bin(x, 2) = Bin(y, 2)
              /\ Bin(x, 1) = Bin(y, 1)
              => x \div 2 = y \div 2
           /\ Bin(x, 0) = Bin(y, 0) => x % 2 = y % 2
<1>1. /\ Bin(x, 0) = x % 2
      /\ Bin(x, 1) = (x \div 2) % 2
      /\ Bin(x, 2) = (x \div 4) % 2
      /\ Bin(x, 3) = (x \div 8) % 2
      /\ Bin(x, 4) = (x \div 16) % 2
      /\ Bin(x, 5) = (x \div 32) % 2
      /\ Bin(x, 6) = (x \div 64) % 2
      /\ Bin(x, 7) = (x \div 128) % 2
  BY Bins
<1>2. /\ Bin(y, 0) = y % 2
      /\ Bin(y, 1) = (y \div 2) % 2
      /\ Bin(y, 2) = (y \div 4) % 2
      /\ Bin(y, 3) = (y \div 8) % 2
      /\ Bin(y, 4) = (y \div 16) % 2
      /\ Bin(y, 5) = (y \div 32) % 2
      /\ Bin(y, 6) = (y \div 64) % 2
      /\ Bin(y, 7) = (y \div 128) % 2
  BY Bins
<1>3. (x \div 128) % 2 = (y \div 128) % 2 => x \div 128 = y \div 128
  OBVIOUS
<1>4. ASSUME /\ (x \div 128) % 2 = (y \div 128) % 2 /\ (x \div 64) % 2 = (y \div 64) % 2
             /\ (x \div 32) % 2 = (y \div 32) % 2 /\ (x \div 16) % 2 = (y \div 16) % 2
             /\ (x \div 8) % 2 = (y \div 8) % 2 /\ (x \div 4) % 2 = (y \div 4) % 2
             /\ (x \div 2) % 2 = (y \div 2) % 2
      PROVE  x \div 2 = y \div 2
  <2>1. x \div 128 = y \div 128
    BY <1>4, <1>3
  <2>2. x \div 64 = y \div 64
    BY <1>4, <2>1
  <2>3. x \div 32 = y \div 32
    BY <1>4, <2>2
  <2>4. x \div 16 = y \div 16
    BY <1>4, <2>3
  <2>5. x \div 8 = y \div 8
    BY <1>4, <2>4
  <2>6. x \div 4 = y \div 4
    BY <1>4, <2>5
  <2>. QED  BY <1>4, <2>6
<1>. QED  BY <1>1, <1>2, <1>3, <1>4

\* Byte i, counted from zero, lies outside of the two groups.
ByteOutside(i, g) == 8 * i + 7 < 5 * g \/ 8 * i >= 5 * g + 10

\* The bytes outside of the two groups are the same.
LEMMA NearByte ==
    ASSUME NEW b \in Seq(Byte), NEW d \in Seq(Byte), NEW g \in Nat, Near(b, d, g),
           NEW i \in Nat, ByteOutside(i, g)
    PROVE  ByteAt(b, i + 1) = ByteAt(d, i + 1)
<1>. DEFINE x == ByteAt(b, i + 1)
            y == ByteAt(d, i + 1)
<1>1. x \in Nat /\ x < 256 /\ y \in Nat /\ y < 256
  <2>. DEFINE k == i + 1
  <2>1. k \in Nat
    OBVIOUS
  <2>2. x = ByteAt(b, k) /\ y = ByteAt(d, k)
    OBVIOUS
  <2>. HIDE DEF k, x, y
  <2>. QED  BY <2>1, <2>2, ByteAtType
<1>2. /\ Outside(8 * i, g) /\ Outside(8 * i + 1, g) /\ Outside(8 * i + 2, g)
             /\ Outside(8 * i + 3, g)
      /\ Outside(8 * i + 4, g) /\ Outside(8 * i + 5, g) /\ Outside(8 * i + 6, g)
             /\ Outside(8 * i + 7, g)
  BY DEF Outside, ByteOutside
<1>3. SameEight(x, y)
  BY <1>2, NearBins DEF SameEight
<1>. HIDE DEF x, y
<1>4. x = y
  BY <1>1, <1>3, SameBits
<1>. QED  BY <1>4 DEF x, y

\* Bytes that differ in places of S at most.
AlikeBut(b, d, S) == \A i \in 1 .. Len(b) : i \notin S => b[i] = d[i]

\* Two letters are spoilt: the bits of at most three bytes in a row that may have changed.
Spoilt(b, d, j) ==
    \/ /\ AlikeBut(b, d, {j + 1, j + 2})
       /\ \/ ByteAt(b, j + 1) \div 128 = ByteAt(d, j + 1) \div 128
          \/ Bin(ByteAt(b, j + 2), 0) = Bin(ByteAt(d, j + 2), 0)
    \/ /\ AlikeBut(b, d, {j + 1, j + 2, j + 3})
       /\ ByteAt(b, j + 1) \div 2 = ByteAt(d, j + 1) \div 2
       /\ Bin(ByteAt(b, j + 3), 0) = Bin(ByteAt(d, j + 3), 0)
       /\ Bin(ByteAt(b, j + 3), 3) = Bin(ByteAt(d, j + 3), 3)
       /\ Bin(ByteAt(b, j + 3), 4) = Bin(ByteAt(d, j + 3), 4)

\* The two groups are in two bytes, or in three.
LEMMA PlaceOfGroups ==
    ASSUME NEW g \in Nat
    PROVE  \E j \in Nat :
              /\ \A i \in Nat : i \notin {j, j + 1, j + 2} => ByteOutside(i, g)
              /\ \/ /\ ByteOutside(j + 2, g)
                    /\ Outside(8 * j, g) \/ Outside(8 * (j + 1) + 7, g)
                 \/ /\ Outside(8 * j, g) /\ Outside(8 * j + 1, g) /\ Outside(8 * j + 2, g)
                    /\ Outside(8 * j + 3, g) /\ Outside(8 * j + 4, g) /\ Outside(8 * j + 5, g)
                    /\ Outside(8 * j + 6, g)
                    /\ Outside(8 * (j + 2) + 7, g) /\ Outside(8 * (j + 2) + 4, g)
                    /\ Outside(8 * (j + 2) + 3, g)
<1>. DEFINE e == 5 * g
            j == e \div 8
            r == e % 8
<1>1. e \in Nat /\ j \in Nat /\ r \in 0 .. 7 /\ e = 8 * j + r
  OBVIOUS
<1>. HIDE DEF j, r
<1>2. \A i \in Nat : i \notin {j, j + 1, j + 2} => ByteOutside(i, g)
  <2>. SUFFICES ASSUME NEW i \in Nat, i # j, i # j + 1, i # j + 2
                PROVE  8 * i + 7 < e \/ 8 * i >= e + 10
    BY DEF ByteOutside
  <2>. HIDE DEF e
  <2>. QED  BY <1>1
<1>3. CASE r = 7
  <2>1. /\ Outside(8 * j, g) /\ Outside(8 * j + 1, g) /\ Outside(8 * j + 2, g)
        /\ Outside(8 * j + 3, g) /\ Outside(8 * j + 4, g) /\ Outside(8 * j + 5, g)
        /\ Outside(8 * j + 6, g)
        /\ Outside(8 * (j + 2) + 7, g) /\ Outside(8 * (j + 2) + 4, g)
        /\ Outside(8 * (j + 2) + 3, g)
    BY <1>1, <1>3 DEF Outside
  <2>. QED  BY <1>1, <1>2, <2>1
<1>4. CASE r # 7
  <2>1. ByteOutside(j + 2, g)
    BY <1>1, <1>4 DEF ByteOutside
  <2>2. Outside(8 * j, g) \/ Outside(8 * (j + 1) + 7, g)
    BY <1>1, <1>4 DEF Outside
  <2>. QED  BY <1>1, <1>2, <2>1, <2>2
<1>. QED  BY <1>3, <1>4

\* Near groups are in two bytes or three.
LEMMA NearIsSpoilt ==
    ASSUME NEW b \in Seq(Byte), NEW d \in Seq(Byte), Len(b) = Len(d), NEW g \in Nat, Near(b, d, g)
    PROVE  \E j \in Nat : Spoilt(b, d, j)
<1>1. PICK j \in Nat :
              /\ \A i \in Nat : i \notin {j, j + 1, j + 2} => ByteOutside(i, g)
              /\ \/ /\ ByteOutside(j + 2, g)
                    /\ Outside(8 * j, g) \/ Outside(8 * (j + 1) + 7, g)
                 \/ /\ Outside(8 * j, g) /\ Outside(8 * j + 1, g) /\ Outside(8 * j + 2, g)
                    /\ Outside(8 * j + 3, g) /\ Outside(8 * j + 4, g) /\ Outside(8 * j + 5, g)
                    /\ Outside(8 * j + 6, g)
                    /\ Outside(8 * (j + 2) + 7, g) /\ Outside(8 * (j + 2) + 4, g)
                    /\ Outside(8 * (j + 2) + 3, g)
  BY PlaceOfGroups
<1>2. ASSUME NEW i \in 1 .. Len(b), i # j + 1, i # j + 2, i = j + 3 => ByteOutside(j + 2, g)
      PROVE  b[i] = d[i]
  <2>. DEFINE k == i - 1
  <2>1. k \in Nat /\ k + 1 = i /\ (k = j + 2 <=> i = j + 3)
    OBVIOUS
  <2>2. k # j /\ k # j + 1
    BY <1>2
  <2>. HIDE DEF k
  <2>3. ByteOutside(k, g)
    BY <1>1, <1>2, <2>1, <2>2
  <2>4. ByteAt(b, k + 1) = ByteAt(d, k + 1)
    BY <2>1, <2>3, NearByte
  <2>. QED  BY <2>1, <2>4 DEF ByteAt
<1>. DEFINE m == j + 1
            n == j + 2
            x0 == ByteAt(b, j + 1)
            y0 == ByteAt(d, j + 1)
            x1 == ByteAt(b, j + 2)
            y1 == ByteAt(d, j + 2)
            x2 == ByteAt(b, j + 3)
            y2 == ByteAt(d, j + 3)
<1>3. /\ x0 \in Nat /\ x0 < 256 /\ y0 \in Nat /\ y0 < 256
      /\ m \in Nat /\ m + 1 = j + 2 /\ n \in Nat /\ n + 1 = j + 3
  <2>1. m \in Nat /\ m + 1 = j + 2 /\ n \in Nat /\ n + 1 = j + 3
    OBVIOUS
  <2>2. x0 = ByteAt(b, m) /\ y0 = ByteAt(d, m)
    OBVIOUS
  <2>. HIDE DEF m, n, x0, y0
  <2>. QED  BY <2>1, <2>2, ByteAtType
<1>4. CASE ByteOutside(j + 2, g) /\ (Outside(8 * j, g) \/ Outside(8 * (j + 1) + 7, g))
  <2>1. AlikeBut(b, d, {j + 1, j + 2})
    BY <1>2, <1>4 DEF AlikeBut
  <2>2. CASE Outside(8 * j, g)
    <3>1. Bin(x0, 7) = Bin(y0, 7)
      BY <2>2, NearBins
    <3>. HIDE DEF x0, y0
    <3>2. x0 \div 128 = y0 \div 128
      BY <1>3, <3>1, HighestBits
    <3>. QED  BY <2>1, <3>2 DEF Spoilt, x0, y0
  <2>3. CASE Outside(8 * (j + 1) + 7, g)
    <3>0. Outside(8 * m + 7, g) /\ x1 = ByteAt(b, m + 1) /\ y1 = ByteAt(d, m + 1)
      BY <1>3, <2>3
    <3>. HIDE DEF m, x1, y1
    <3>1. Bin(x1, 0) = Bin(y1, 0)
      BY <1>3, <3>0, NearLastBin
    <3>. QED  BY <2>1, <3>1 DEF Spoilt, x1, y1
  <2>. QED  BY <1>4, <2>2, <2>3
<1>5. CASE /\ Outside(8 * j, g) /\ Outside(8 * j + 1, g) /\ Outside(8 * j + 2, g)
           /\ Outside(8 * j + 3, g) /\ Outside(8 * j + 4, g) /\ Outside(8 * j + 5, g)
           /\ Outside(8 * j + 6, g)
           /\ Outside(8 * (j + 2) + 7, g) /\ Outside(8 * (j + 2) + 4, g)
           /\ Outside(8 * (j + 2) + 3, g)
  <2>1. AlikeBut(b, d, {j + 1, j + 2, j + 3})
    BY <1>2 DEF AlikeBut
  <2>2. x0 \div 2 = y0 \div 2
    <3>1. /\ Bin(x0, 7) = Bin(y0, 7) /\ Bin(x0, 6) = Bin(y0, 6) /\ Bin(x0, 5) = Bin(y0, 5)
          /\ Bin(x0, 4) = Bin(y0, 4) /\ Bin(x0, 3) = Bin(y0, 3) /\ Bin(x0, 2) = Bin(y0, 2)
          /\ Bin(x0, 1) = Bin(y0, 1)
      BY <1>5, NearBins
    <3>. HIDE DEF x0, y0
    <3>. QED  BY <1>3, <3>1, HighestBits
  <2>3. Bin(x2, 0) = Bin(y2, 0) /\ Bin(x2, 3) = Bin(y2, 3) /\ Bin(x2, 4) = Bin(y2, 4)
    <3>0. /\ Outside(8 * n + 7, g) /\ Outside(8 * n + 4, g) /\ Outside(8 * n + 3, g)
          /\ x2 = ByteAt(b, n + 1) /\ y2 = ByteAt(d, n + 1)
      BY <1>3, <1>5
    <3>. HIDE DEF n, x2, y2
    <3>. QED  BY <1>3, <3>0, NearBins
  <2>. QED  BY <2>1, <2>2, <2>3 DEF Spoilt
<1>. QED  BY <1>1, <1>4, <1>5

-----------------------------------------------------------------------------
(* The checksum along the bytes, forwards and backwards.                   *)

\* The checksum after k bytes.
CrcAt(u, k) == CrcLoop(u)[k]

\* The loop of the checksum.
LEMMA CrcSteps ==
    ASSUME NEW u \in Seq(Byte)
    PROVE  /\ \A k \in Nat : k <= Len(u) => CrcAt(u, k) \in Word
           /\ CrcAt(u, 0) = 0 /\ Crc(u) = CrcAt(u, Len(u)) /\ Crc(u) \in Word
           /\ \A k \in Nat, i \in Nat : i = k + 1 /\ i <= Len(u)
                 => CrcAt(u, i) = CrcByte(CrcAt(u, k), u[i]) /\ u[i] \in Byte
<1>1. /\ \A k \in 0 .. Len(u) : CrcAt(u, k) \in Word
      /\ CrcAt(u, 0) = 0
      /\ \A i \in 1 .. Len(u) : CrcAt(u, i) = CrcByte(CrcAt(u, i - 1), u[i])
  BY CrcRuns DEF CrcAt
<1>2. Crc(u) = CrcAt(u, Len(u)) /\ Crc(u) \in Word
  BY CrcType DEF Crc, CrcAt
<1>3. \A k \in Nat : k <= Len(u) => CrcAt(u, k) \in Word
  BY <1>1
<1>4. ASSUME NEW k \in Nat, NEW i \in Nat, i = k + 1, i <= Len(u)
      PROVE  CrcAt(u, i) = CrcByte(CrcAt(u, k), u[i]) /\ u[i] \in Byte
  <2>1. i \in 1 .. Len(u) /\ i - 1 = k
    BY <1>4
  <2>2. CrcAt(u, i) = CrcByte(CrcAt(u, i - 1), u[i])
    BY <1>1, <2>1
  <2>. QED  BY <2>1, <2>2
<1>. QED  BY <1>1, <1>2, <1>3, <1>4

\* Equal bytes up to number m have equal checksums up to it.
LEMMA CrcForward ==
    ASSUME NEW u \in Seq(Byte), NEW v \in Seq(Byte), Len(u) = Len(v), NEW m \in Nat, m <= Len(u),
           \A i \in 1 .. Len(u) : i <= m => u[i] = v[i]
    PROVE  CrcAt(u, m) = CrcAt(v, m)
<1>. DEFINE S == {k \in Nat : k <= m => CrcAt(u, k) = CrcAt(v, k)}
<1>1. 0 \in S
  BY CrcSteps
<1>2. ASSUME NEW k \in Nat, k \in S
      PROVE  k + 1 \in S
  <2>. DEFINE i == k + 1
  <2>. SUFFICES ASSUME i <= m
                PROVE  CrcAt(u, i) = CrcAt(v, i)
    OBVIOUS
  <2>1. i \in Nat /\ i = k + 1 /\ i <= Len(u) /\ i <= Len(v) /\ k <= m /\ i \in 1 .. Len(u)
    OBVIOUS
  <2>2. CrcAt(u, k) = CrcAt(v, k)
    BY <1>2, <2>1
  <2>. HIDE DEF i
  <2>3. u[i] = v[i]
    BY <2>1
  <2>4. CrcAt(u, i) = CrcByte(CrcAt(u, k), u[i])
    BY <2>1, CrcSteps
  <2>5. CrcAt(v, i) = CrcByte(CrcAt(v, k), v[i])
    BY <2>1, CrcSteps
  <2>. QED  BY <2>2, <2>3, <2>4, <2>5
<1>. HIDE DEF S
<1>3. m \in S
  BY <1>1, <1>2, SetInduction
<1>. QED  BY <1>3 DEF S

\* Equal checksums of bytes that are equal after number m were equal after number m.
LEMMA CrcBackward ==
    ASSUME NEW u \in Seq(Byte), NEW v \in Seq(Byte), Len(u) = Len(v), NEW m \in Nat, m <= Len(u),
           \A i \in 1 .. Len(u) : i > m => u[i] = v[i], Crc(u) = Crc(v)
    PROVE  CrcAt(u, m) = CrcAt(v, m)
<1>. DEFINE n == Len(u)
            S == {k \in Nat : k <= n - m => CrcAt(u, n - k) = CrcAt(v, n - k)}
<1>0. n \in Nat
  OBVIOUS
<1>1. 0 \in S
  <2>1. n - 0 = n
    BY <1>0
  <2>2. CrcAt(u, n) = CrcAt(v, n)
    BY CrcSteps
  <2>. HIDE DEF n
  <2>. QED  BY <2>1, <2>2
<1>2. ASSUME NEW k \in Nat, k \in S
      PROVE  k + 1 \in S
  <2>. DEFINE i == n - k
              h == n - (k + 1)
  <2>. SUFFICES ASSUME k + 1 <= n - m
                PROVE  CrcAt(u, h) = CrcAt(v, h)
    OBVIOUS
  <2>1. /\ i \in Nat /\ h \in Nat /\ i = h + 1 /\ i <= Len(u) /\ i <= Len(v) /\ i \in 1 .. Len(u)
        /\ i > m /\ k <= n - m /\ h <= Len(u) /\ h <= Len(v)
    BY <1>0
  <2>2. CrcAt(u, i) = CrcAt(v, i)
    BY <1>2, <2>1
  <2>. HIDE DEF i, h
  <2>3. u[i] = v[i]
    BY <2>1
  <2>4. CrcAt(u, i) = CrcByte(CrcAt(u, h), u[i]) /\ CrcAt(u, h) \in Word /\ u[i] \in Byte
    BY <2>1, CrcSteps
  <2>5. CrcAt(v, i) = CrcByte(CrcAt(v, h), v[i]) /\ CrcAt(v, h) \in Word
    BY <2>1, CrcSteps
  <2>6. CrcByte(CrcAt(u, h), u[i]) = CrcByte(CrcAt(v, h), u[i])
    BY <2>2, <2>3, <2>4, <2>5
  <2>. QED  BY <2>4, <2>5, <2>6, CrcUndone
<1>. DEFINE p == n - m
<1>3. p \in Nat /\ n - p = m /\ p <= n - m
  BY <1>0
<1>. HIDE DEF S, p
<1>4. p \in S
  BY <1>1, <1>2, <1>3, SetInduction
<1>5. CrcAt(u, n - p) = CrcAt(v, n - p)
  BY <1>3, <1>4 DEF S
<1>. QED  BY <1>3, <1>5

\* The bytes of a key: what is checked, then the checksum.
LEMMA CheckedAt ==
    ASSUME NEW u \in Seq(Byte), NEW n, n = Len(u), NEW w, w = Crc(u)
    PROVE  /\ n \in Nat /\ Checked(u) \in Seq(Byte) /\ Len(Checked(u)) = n + 2 /\ w \in Word
           /\ \A i \in 1 .. n : Checked(u)[i] = u[i] /\ ByteAt(Checked(u), i) = u[i]
                  /\ u[i] \in Byte
           /\ Checked(u)[n + 1] = w % 256 /\ ByteAt(Checked(u), n + 1) = w % 256
           /\ Checked(u)[n + 2] = Hi(w) /\ ByteAt(Checked(u), n + 2) = Hi(w)
<1>1. w \in Word /\ w \in Nat
  BY CrcType, LowByteBits
<1>. DEFINE lo == w % 256
            hi == Hi(w)
<1>2. Checked(u) = u \o <<lo, hi>>
  <2>1. ShiftRight(w, 8) = w \div 256
    BY <1>1, ShiftRights
  <2>. QED  BY <2>1 DEF Checked, Hi
<1>3. Checked(u) \in Seq(Byte) /\ Len(Checked(u)) = n + 2 /\ n \in Nat
  BY CheckedBytes
<1>. HIDE DEF lo, hi
<1>4. /\ \A i \in 1 .. n : Checked(u)[i] = u[i] /\ u[i] \in Byte
      /\ Checked(u)[n + 1] = lo
      /\ Checked(u)[n + 2] = hi
  BY <1>2, <1>3
<1>5. \A i \in 1 .. n + 2 : ByteAt(Checked(u), i) = Checked(u)[i]
  BY <1>3 DEF ByteAt
<1>6. (\A i \in 1 .. n : i \in 1 .. n + 2) /\ n + 1 \in 1 .. n + 2 /\ n + 2 \in 1 .. n + 2
  BY <1>3
<1>. QED  BY <1>1, <1>3, <1>4, <1>5, <1>6 DEF lo, hi

-----------------------------------------------------------------------------
(* Bytes with their checksums of which two or three in a row differ.       *)

\* u and v are bytes of the same number n, and w and q their checksums.
Pair(u, v, n, w, q) ==
    /\ u \in Seq(Byte) /\ v \in Seq(Byte) /\ n = Len(u) /\ n = Len(v)
    /\ w = Crc(u) /\ q = Crc(v)

\* What two sequences with their checksums have in common.
LEMMA PairFacts ==
    ASSUME NEW u, NEW v, NEW n, NEW w, NEW q, Pair(u, v, n, w, q)
    PROVE  /\ u \in Seq(Byte) /\ v \in Seq(Byte) /\ n \in Nat /\ w \in Word /\ q \in Word
           /\ w = CrcAt(u, n) /\ q = CrcAt(v, n)
           /\ \A k \in Nat : k <= n => CrcAt(u, k) \in Word /\ CrcAt(v, k) \in Word
           /\ \A k \in Nat, i \in Nat : i = k + 1 /\ i <= n
                 => /\ CrcAt(u, i) = CrcByte(CrcAt(u, k), u[i]) /\ u[i] \in Byte
                    /\ CrcAt(v, i) = CrcByte(CrcAt(v, k), v[i]) /\ v[i] \in Byte
           /\ \A m \in Nat : m <= n /\ (\A i \in 1 .. n : i <= m => u[i] = v[i])
                 => CrcAt(u, m) = CrcAt(v, m)
           /\ \A m \in Nat : m <= n /\ (\A i \in 1 .. n : i > m => u[i] = v[i]) /\ w = q
                 => CrcAt(u, m) = CrcAt(v, m)
           /\ (\A i \in 1 .. n : u[i] = v[i]) => u = v
<1>1. u \in Seq(Byte) /\ v \in Seq(Byte) /\ n = Len(u) /\ n = Len(v) /\ w = Crc(u)
          /\ q = Crc(v) /\ n \in Nat
  BY DEF Pair
<1>2. /\ w \in Word /\ w = CrcAt(u, n) /\ \A k \in Nat : k <= n => CrcAt(u, k) \in Word
      /\ \A k \in Nat, i \in Nat : i = k + 1 /\ i <= n
                 => CrcAt(u, i) = CrcByte(CrcAt(u, k), u[i]) /\ u[i] \in Byte
  BY <1>1, CrcSteps
<1>3. /\ q \in Word /\ q = CrcAt(v, n) /\ \A k \in Nat : k <= n => CrcAt(v, k) \in Word
      /\ \A k \in Nat, i \in Nat : i = k + 1 /\ i <= n
                 => CrcAt(v, i) = CrcByte(CrcAt(v, k), v[i]) /\ v[i] \in Byte
  BY <1>1, CrcSteps
<1>4. ASSUME NEW m \in Nat, m <= n, \A i \in 1 .. n : i <= m => u[i] = v[i]
      PROVE  CrcAt(u, m) = CrcAt(v, m)
  BY <1>1, <1>4, CrcForward
<1>5. ASSUME NEW m \in Nat, m <= n, \A i \in 1 .. n : i > m => u[i] = v[i], w = q
      PROVE  CrcAt(u, m) = CrcAt(v, m)
  BY <1>1, <1>5, CrcBackward
<1>6. ASSUME \A i \in 1 .. n : u[i] = v[i]
      PROVE  u = v
  <2>1. Len(u) = Len(v) /\ \A i \in 1 .. Len(u) : u[i] = v[i]
    BY <1>1, <1>6
  <2>. QED  BY <1>1, <2>1
<1>. QED  BY <1>1, <1>2, <1>3, <1>4, <1>5, <1>6

\* Bytes with their checksums of which at most two in a row are not the same.
LEMMA TwoInRow ==
    ASSUME NEW u, NEW v, NEW n, NEW w, NEW q, Pair(u, v, n, w, q), NEW j \in Nat,
           NEW j1 \in Nat, j1 = j + 1, NEW j2 \in Nat, j2 = j + 2,
           \A i \in 1 .. n : i \notin {j1, j2} => u[i] = v[i],
           j2 <= n => w = q,
           j1 = n => /\ Hi(w) = Hi(q)
                     /\ \/ u[j1] \div 128 = v[j1] \div 128
                        \/ Bin(w, 0) = Bin(q, 0)
    PROVE  u = v
<1>1. /\ n \in Nat /\ w \in Word /\ q \in Word /\ w = CrcAt(u, n) /\ q = CrcAt(v, n)
      /\ \A k \in Nat : k <= n => CrcAt(u, k) \in Word /\ CrcAt(v, k) \in Word
  BY PairFacts
<1>2. \A k \in Nat, i \in Nat : i = k + 1 /\ i <= n
                 => /\ CrcAt(u, i) = CrcByte(CrcAt(u, k), u[i]) /\ u[i] \in Byte
                    /\ CrcAt(v, i) = CrcByte(CrcAt(v, k), v[i]) /\ v[i] \in Byte
  BY PairFacts
<1>3. j <= n => CrcAt(u, j) = CrcAt(v, j)
  <2>1. \A i \in 1 .. n : i <= j => u[i] = v[i]
    OBVIOUS
  <2>. QED  BY <2>1, PairFacts
<1>4. \A i \in 1 .. n : u[i] = v[i]
  <2>1. CASE j1 > n
    BY <1>1, <2>1
  <2>2. CASE j1 = n
    <3>. DEFINE s == CrcAt(u, j)
                x == u[j1]
                y == v[j1]
    <3>1. s \in Word /\ s = CrcAt(v, j)
      BY <1>1, <1>3, <2>2
    <3>2. w = CrcByte(s, x) /\ q = CrcByte(s, y) /\ x \in Byte /\ y \in Byte
      BY <1>1, <1>2, <2>2, <3>1
    <3>3. Hi(w) = Hi(q) /\ (x \div 128 = y \div 128 \/ Bin(w, 0) = Bin(q, 0))
      BY <2>2
    <3>. HIDE DEF s, x, y
    <3>4. x = y
      BY <3>1, <3>2, <3>3, HighByteTells
    <3>5. u[j1] = v[j1]
      BY <3>4 DEF x, y
    <3>. QED  BY <1>1, <2>2, <3>5
  <2>3. CASE j2 <= n
    <3>. DEFINE s == CrcAt(u, j)
                x == u[j1]
                y == v[j1]
                x2 == u[j2]
                y2 == v[j2]
    <3>1. s \in Word /\ s = CrcAt(v, j)
      BY <1>1, <1>3, <2>3
    <3>2. CrcAt(u, j2) = CrcAt(v, j2)
      <4>1. \A i \in 1 .. n : i > j2 => u[i] = v[i]
        OBVIOUS
      <4>. QED  BY <2>3, <4>1, PairFacts
    <3>3. CrcAt(u, j1) = CrcByte(s, x) /\ CrcAt(v, j1) = CrcByte(s, y) /\ x \in Byte /\ y \in Byte
      BY <1>1, <1>2, <2>3, <3>1
    <3>4. j2 = j1 + 1
      OBVIOUS
    <3>5. /\ CrcAt(u, j2) = CrcByte(CrcAt(u, j1), x2) /\ CrcAt(v, j2) = CrcByte(CrcAt(v, j1), y2)
          /\ x2 \in Byte /\ y2 \in Byte
      BY <1>1, <1>2, <2>3, <3>4
    <3>6. CrcByte(CrcByte(s, x), x2) = CrcByte(CrcByte(s, y), y2)
      BY <3>2, <3>3, <3>5
    <3>. HIDE DEF s, x, y, x2, y2
    <3>7. x = y /\ x2 = y2
      BY <3>1, <3>3, <3>5, <3>6, TwoBytesTold
    <3>8. u[j1] = v[j1] /\ u[j2] = v[j2]
      BY <3>7 DEF x, y, x2, y2
    <3>. QED  BY <1>1, <3>8
  <2>. QED  BY <1>1, <2>1, <2>2, <2>3
<1>. QED  BY <1>4, PairFacts

\* The same for three bytes in a row, if the first differs in its lowest bit at most and the last
\* in its highest.
LEMMA ThreeInRow ==
    ASSUME NEW u, NEW v, NEW n, NEW w, NEW q, Pair(u, v, n, w, q), NEW j \in Nat,
           NEW j1 \in Nat, j1 = j + 1, NEW j2 \in Nat, j2 = j + 2, NEW j3 \in Nat, j3 = j + 3,
           \A i \in 1 .. n : i \notin {j1, j2, j3} => u[i] = v[i],
           j1 <= n => u[j1] \div 2 = v[j1] \div 2,
           j3 <= n => w = q /\ u[j3] % 2 = v[j3] % 2,
           j2 = n => Hi(w) = Hi(q) /\ Bin(w, 0) = Bin(q, 0) /\ Bin(w, 3) = Bin(q, 3),
           j1 = n => Bin(Hi(w), 4) = Bin(Hi(q), 4)
    PROVE  u = v
<1>1. /\ n \in Nat /\ w \in Word /\ q \in Word /\ w = CrcAt(u, n) /\ q = CrcAt(v, n)
      /\ \A k \in Nat : k <= n => CrcAt(u, k) \in Word /\ CrcAt(v, k) \in Word
  BY PairFacts
<1>2. \A k \in Nat, i \in Nat : i = k + 1 /\ i <= n
                 => /\ CrcAt(u, i) = CrcByte(CrcAt(u, k), u[i]) /\ u[i] \in Byte
                    /\ CrcAt(v, i) = CrcByte(CrcAt(v, k), v[i]) /\ v[i] \in Byte
  BY PairFacts
<1>3. j <= n => CrcAt(u, j) = CrcAt(v, j)
  <2>1. \A i \in 1 .. n : i <= j => u[i] = v[i]
    OBVIOUS
  <2>. QED  BY <2>1, PairFacts
<1>4. \A i \in 1 .. n : u[i] = v[i]
  <2>1. CASE j1 > n
    BY <1>1, <2>1
  <2>2. CASE j1 <= n
    <3>. DEFINE s == CrcAt(u, j)
                x == u[j1]
                y == v[j1]
                x2 == u[j2]
                y2 == v[j2]
                x3 == u[j3]
                y3 == v[j3]
    <3>1. s \in Word /\ s = CrcAt(v, j)
      BY <1>1, <1>3, <2>2
    <3>2. CrcAt(u, j1) = CrcByte(s, x) /\ CrcAt(v, j1) = CrcByte(s, y) /\ x \in Byte /\ y \in Byte
      BY <1>1, <1>2, <2>2, <3>1
    <3>3. x \div 2 = y \div 2
      BY <2>2
    <3>4. j2 = j1 + 1 /\ j3 = j2 + 1
      OBVIOUS
    <3>5. j2 <= n => /\ CrcAt(u, j2) = CrcByte(CrcAt(u, j1), x2)
                     /\ CrcAt(v, j2) = CrcByte(CrcAt(v, j1), y2)
                     /\ x2 \in Byte /\ y2 \in Byte
      BY <1>1, <1>2, <3>4
    <3>6. j3 <= n => /\ CrcAt(u, j3) = CrcByte(CrcAt(u, j2), x3)
                     /\ CrcAt(v, j3) = CrcByte(CrcAt(v, j2), y3)
                     /\ x3 \in Byte /\ y3 \in Byte
      BY <1>1, <1>2, <3>4
    <3>7. CASE j1 = n
      <4>1. w = CrcByte(s, x) /\ q = CrcByte(s, y) /\ Bin(Hi(w), 4) = Bin(Hi(q), 4)
        BY <1>1, <3>2, <3>7
      <4>2. x = y
        <5>. HIDE DEF s, x, y
        <5>. QED  BY <3>1, <3>2, <3>3, <4>1, LowestByHigh
      <4>. QED  BY <1>1, <3>7, <4>2
    <3>8. CASE j2 = n
      <4>1. w = CrcByte(CrcByte(s, x), x2) /\ q = CrcByte(CrcByte(s, y), y2) /\ x2 \in Byte
                /\ y2 \in Byte
        BY <1>1, <3>2, <3>5, <3>8
      <4>2. Hi(w) = Hi(q) /\ Bin(w, 0) = Bin(q, 0) /\ Bin(w, 3) = Bin(q, 3)
        BY <3>8
      <4>3. x = y /\ x2 = y2
        <5>. HIDE DEF s, x, y, x2, y2
        <5>. QED  BY <3>1, <3>2, <3>3, <4>1, <4>2, TwoBytesTop
      <4>. QED  BY <1>1, <3>8, <4>3
    <3>9. CASE j3 <= n
      <4>1. CrcAt(u, j3) = CrcAt(v, j3)
        <5>1. \A i \in 1 .. n : i > j3 => u[i] = v[i]
          OBVIOUS
        <5>. QED  BY <3>9, <5>1, PairFacts
      <4>2. j2 <= n
        BY <1>1, <3>9
      <4>3. CrcByte(CrcByte(CrcByte(s, x), x2), x3) = CrcByte(CrcByte(CrcByte(s, y), y2), y3)
        BY <3>2, <3>5, <3>6, <3>9, <4>1, <4>2
      <4>4. x2 \in Byte /\ y2 \in Byte /\ x3 \in Byte /\ y3 \in Byte /\ x3 % 2 = y3 % 2
        BY <3>5, <3>6, <3>9, <4>2
      <4>5. x = y /\ x2 = y2 /\ x3 = y3
        <5>. HIDE DEF s, x, y, x2, y2, x3, y3
        <5>. QED  BY <3>1, <3>2, <3>3, <4>3, <4>4, ThreeBytesTold
      <4>6. u[j1] = v[j1] /\ u[j2] = v[j2] /\ u[j3] = v[j3]
        BY <4>5
      <4>. QED  BY <1>1, <4>6
    <3>. QED  BY <1>1, <2>2, <3>7, <3>8, <3>9
  <2>. QED  BY <1>1, <2>1, <2>2
<1>. QED  BY <1>4, PairFacts

\* A word by its two bytes, and the bits of its low byte.
LEMMA TwoBytesOfWord ==
    ASSUME NEW w \in Word, NEW q \in Word
    PROVE  /\ w % 256 = q % 256 /\ Hi(w) = Hi(q) => w = q
           /\ Bin(w % 256, 0) = Bin(w, 0) /\ Bin(w % 256, 3) = Bin(w, 3)
<1>1. w \in Nat /\ q \in Nat /\ \A k \in 0 .. 7 : Bin(w % 256, k) = Bin(w, k)
  BY LowByteBits
<1>2. ASSUME w % 256 = q % 256, Hi(w) = Hi(q)
      PROVE  w = q
  <2>1. w \div 256 = q \div 256
    BY <1>2 DEF Hi
  <2>. QED  BY <1>1, <1>2, <2>1
<1>3. 0 \in 0 .. 7 /\ 3 \in 0 .. 7
  OBVIOUS
<1>. QED  BY <1>1, <1>2, <1>3

\* Bytes with their checksums that are the same but for two letters are the same.
LEMMA SpoiltIsTold ==
    ASSUME NEW u \in Seq(Byte), NEW v \in Seq(Byte), Len(u) = Len(v), NEW j \in Nat,
           Spoilt(Checked(u), Checked(v), j)
    PROVE  u = v
<1>. DEFINE n == Len(u)
            w == Crc(u)
            q == Crc(v)
            b == Checked(u)
            d == Checked(v)
            j1 == j + 1
            j2 == j + 2
            j3 == j + 3
<1>1. /\ n \in Nat /\ b \in Seq(Byte) /\ Len(b) = n + 2 /\ w \in Word
      /\ \A i \in 1 .. n : b[i] = u[i] /\ ByteAt(b, i) = u[i] /\ u[i] \in Byte
      /\ b[n + 1] = w % 256 /\ ByteAt(b, n + 1) = w % 256
      /\ b[n + 2] = Hi(w) /\ ByteAt(b, n + 2) = Hi(w)
  BY CheckedAt
<1>2. /\ d \in Seq(Byte) /\ q \in Word
      /\ \A i \in 1 .. n : d[i] = v[i] /\ ByteAt(d, i) = v[i] /\ v[i] \in Byte
      /\ d[n + 1] = q % 256 /\ ByteAt(d, n + 1) = q % 256
      /\ d[n + 2] = Hi(q) /\ ByteAt(d, n + 2) = Hi(q)
  <2>. DEFINE m == Len(v)
  <2>1. m = n
    OBVIOUS
  <2>2. /\ d \in Seq(Byte) /\ q \in Word
        /\ \A i \in 1 .. m : d[i] = v[i] /\ ByteAt(d, i) = v[i] /\ v[i] \in Byte
        /\ d[m + 1] = q % 256 /\ ByteAt(d, m + 1) = q % 256
        /\ d[m + 2] = Hi(q) /\ ByteAt(d, m + 2) = Hi(q)
    BY CheckedAt
  <2>. HIDE DEF m, n, d, q
  <2>. QED  BY <2>1, <2>2
<1>3. Pair(u, v, n, w, q)
  BY DEF Pair
<1>4. Spoilt(b, d, j)
  OBVIOUS
<1>5. j1 \in Nat /\ j1 = j + 1 /\ j2 \in Nat /\ j2 = j + 2 /\ j3 \in Nat /\ j3 = j + 3
  OBVIOUS
<1>. HIDE DEF n, w, q, b, d, j1, j2, j3
<1>6. /\ w % 256 = q % 256 /\ Hi(w) = Hi(q) => w = q
      /\ Bin(w % 256, 0) = Bin(w, 0) /\ Bin(w % 256, 3) = Bin(w, 3)
      /\ Bin(q % 256, 0) = Bin(q, 0) /\ Bin(q % 256, 3) = Bin(q, 3)
  BY <1>1, <1>2, TwoBytesOfWord
<1>7. (\A i \in 1 .. n : i \in 1 .. n + 2) /\ n + 1 \in 1 .. n + 2 /\ n + 2 \in 1 .. n + 2
  BY <1>1
<1>8. CASE /\ AlikeBut(b, d, {j + 1, j + 2})
           /\ \/ ByteAt(b, j + 1) \div 128 = ByteAt(d, j + 1) \div 128
              \/ Bin(ByteAt(b, j + 2), 0) = Bin(ByteAt(d, j + 2), 0)
  <2>1. \A i \in 1 .. n + 2 : i \notin {j1, j2} => b[i] = d[i]
    BY <1>1, <1>5, <1>8 DEF AlikeBut
  <2>2. \A i \in 1 .. n : i \notin {j1, j2} => u[i] = v[i]
    BY <1>1, <1>2, <1>7, <2>1
  <2>3. j2 <= n => w = q
    <3>1. j2 <= n => n + 1 \notin {j1, j2} /\ n + 2 \notin {j1, j2}
      BY <1>1, <1>5
    <3>. QED  BY <1>1, <1>2, <1>6, <1>7, <2>1, <3>1
  <2>4. ASSUME j1 = n
        PROVE  /\ Hi(w) = Hi(q)
               /\ \/ u[j1] \div 128 = v[j1] \div 128
                  \/ Bin(w, 0) = Bin(q, 0)
    <3>1. n + 2 \notin {j1, j2} /\ n \in 1 .. n /\ j + 1 = n /\ j + 2 = n + 1
      BY <1>1, <1>5, <2>4
    <3>2. Hi(w) = Hi(q)
      BY <1>1, <1>2, <1>7, <2>1, <3>1
    <3>3. ByteAt(b, j + 1) = u[j1] /\ ByteAt(d, j + 1) = v[j1]
      BY <1>1, <1>2, <2>4, <3>1
    <3>4. ByteAt(b, j + 2) = w % 256 /\ ByteAt(d, j + 2) = q % 256
      BY <1>1, <1>2, <3>1
    <3>. QED  BY <1>6, <1>8, <3>2, <3>3, <3>4
  <2>. QED  BY <1>3, <1>5, <2>2, <2>3, <2>4, TwoInRow
<1>9. CASE /\ AlikeBut(b, d, {j + 1, j + 2, j + 3})
           /\ ByteAt(b, j + 1) \div 2 = ByteAt(d, j + 1) \div 2
           /\ Bin(ByteAt(b, j + 3), 0) = Bin(ByteAt(d, j + 3), 0)
           /\ Bin(ByteAt(b, j + 3), 3) = Bin(ByteAt(d, j + 3), 3)
           /\ Bin(ByteAt(b, j + 3), 4) = Bin(ByteAt(d, j + 3), 4)
  <2>1. \A i \in 1 .. n + 2 : i \notin {j1, j2, j3} => b[i] = d[i]
    BY <1>1, <1>5, <1>9 DEF AlikeBut
  <2>2. \A i \in 1 .. n : i \notin {j1, j2, j3} => u[i] = v[i]
    BY <1>1, <1>2, <1>7, <2>1
  <2>3. ASSUME j1 <= n
        PROVE  u[j1] \div 2 = v[j1] \div 2
    <3>1. j1 \in 1 .. n
      BY <1>1, <1>5, <2>3
    <3>2. ByteAt(b, j + 1) = u[j1] /\ ByteAt(d, j + 1) = v[j1]
      BY <1>1, <1>2, <1>5, <3>1
    <3>. QED  BY <1>9, <3>2
  <2>4. ASSUME j3 <= n
        PROVE  w = q /\ u[j3] % 2 = v[j3] % 2
    <3>1. n + 1 \notin {j1, j2, j3} /\ n + 2 \notin {j1, j2, j3} /\ j3 \in 1 .. n
      BY <1>1, <1>5, <2>4
    <3>2. w = q
      BY <1>1, <1>2, <1>6, <1>7, <2>1, <3>1
    <3>. DEFINE x == u[j3]
                y == v[j3]
    <3>3. ByteAt(b, j + 3) = x /\ ByteAt(d, j + 3) = y /\ x \in Byte /\ y \in Byte
      BY <1>1, <1>2, <1>5, <3>1
    <3>4. Bin(x, 0) = Bin(y, 0)
      BY <1>9, <3>3
    <3>. HIDE DEF x, y
    <3>5. x \in Nat /\ y \in Nat
      BY <3>3, ByteIsNat
    <3>6. Bin(x, 0) = x % 2 /\ Bin(y, 0) = y % 2
      <4>1. Bin(x, 0) = x % 2
        BY <3>5, Bins
      <4>2. Bin(y, 0) = y % 2
        BY <3>5, Bins
      <4>. QED  BY <4>1, <4>2
    <3>7. x % 2 = y % 2
      BY <3>4, <3>6
    <3>. QED  BY <3>2, <3>7 DEF x, y
  <2>5. ASSUME j2 = n
        PROVE  Hi(w) = Hi(q) /\ Bin(w, 0) = Bin(q, 0) /\ Bin(w, 3) = Bin(q, 3)
    <3>1. n + 2 \notin {j1, j2, j3} /\ j + 3 = n + 1
      BY <1>1, <1>5, <2>5
    <3>2. Hi(w) = Hi(q)
      BY <1>1, <1>2, <1>7, <2>1, <3>1
    <3>3. ByteAt(b, j + 3) = w % 256 /\ ByteAt(d, j + 3) = q % 256
      BY <1>1, <1>2, <3>1
    <3>. QED  BY <1>6, <1>9, <3>2, <3>3
  <2>6. ASSUME j1 = n
        PROVE  Bin(Hi(w), 4) = Bin(Hi(q), 4)
    <3>1. j + 3 = n + 2
      BY <1>1, <1>5, <2>6
    <3>2. ByteAt(b, j + 3) = Hi(w) /\ ByteAt(d, j + 3) = Hi(q)
      BY <1>1, <1>2, <3>1
    <3>. QED  BY <1>9, <3>2
  <2>. QED  BY <1>3, <1>5, <2>2, <2>3, <2>4, <2>5, <2>6, ThreeInRow
<1>. QED  BY <1>4, <1>8, <1>9 DEF Spoilt

-----------------------------------------------------------------------------
(* Texts with one slip.                                                    *)

\* Texts of different lengths, or the same but for two characters in a row.
NearText(typed, string) ==
    \/ Len(typed) # Len(string)
    \/ \E g \in Nat : \A k \in 1 .. Len(string) : k \notin {g + 1, g + 2} => typed[k] = string[k]

\* The groups of near texts are near.
LEMMA NearTextIsNear ==
    ASSUME NEW b \in Seq(Byte), NEW d \in Seq(Byte), Len(b) = Len(d),
           NearText(Encode(b), Encode(d))
    PROVE  \E g \in Nat : Near(b, d, g)
<1>. DEFINE n == Count(b)
            e == Encode(b)
            f == Encode(d)
<1>1. /\ n \in Nat /\ e = [g \in 1 .. n |-> ALPHABET[Group(b, g - 1)]] /\ Len(e) = n
      /\ f = [g \in 1 .. n |-> ALPHABET[Group(d, g - 1)]] /\ Len(f) = n
  <2>1. Count(d) = n
    BY DEF Count
  <2>. QED  BY <2>1, EncodeType
<1>2. NearText(e, f)
  OBVIOUS
<1>. HIDE DEF e, f
<1>3. PICK g \in Nat : \A k \in 1 .. n : k \notin {g + 1, g + 2} => e[k] = f[k]
  <2>. HIDE DEF n
  <2>. QED  BY <1>1, <1>2 DEF NearText
<1>4. ASSUME NEW k \in Nat, k \notin {g, g + 1}
      PROVE  Group(b, k) = Group(d, k)
  <2>1. CASE k < n
    <3>. DEFINE i == k + 1
    <3>1. i \in 1 .. n /\ i \notin {g + 1, g + 2} /\ i - 1 = k
      BY <1>1, <1>4, <2>1
    <3>. HIDE DEF n, i
    <3>2. ALPHABET[Group(b, i - 1)] = ALPHABET[Group(d, i - 1)]
      BY <1>1, <1>3, <3>1
    <3>. DEFINE x == Group(b, k)
                y == Group(d, k)
    <3>3. x \in Quintet /\ y \in Quintet
      BY GroupType
    <3>4. ALPHABET[x] = ALPHABET[y]
      BY <3>1, <3>2
    <3>. HIDE DEF x, y
    <3>5. x = y
      BY <3>3, <3>4, AlphabetValues
    <3>. QED  BY <3>5 DEF x, y
  <2>2. CASE k >= n
    <3>. DEFINE i == 5 * k
    <3>1. i >= 8 * Len(b) /\ i \in Nat
      <4>1. Len(b) \in Nat
        OBVIOUS
      <4>. QED  BY <2>2, <4>1 DEF Count
    <3>2. /\ i + 1 \in Nat /\ i + 2 \in Nat /\ i + 3 \in Nat /\ i + 4 \in Nat
          /\ i + 1 >= 8 * Len(b) /\ i + 2 >= 8 * Len(b) /\ i + 3 >= 8 * Len(b)
                 /\ i + 4 >= 8 * Len(b)
      BY <3>1
    <3>3. /\ Group(b, k) = 16 * Bit(b, i) + 8 * Bit(b, i + 1) + 4 * Bit(b, i + 2)
                             + 2 * Bit(b, i + 3) + Bit(b, i + 4)
          /\ Group(d, k) = 16 * Bit(d, i) + 8 * Bit(d, i + 1) + 4 * Bit(d, i + 2)
                             + 2 * Bit(d, i + 3) + Bit(d, i + 4)
      BY <3>1, GroupSum
    <3>. HIDE DEF i, n
    <3>4. /\ Bit(b, i) = 0 /\ Bit(b, i + 1) = 0 /\ Bit(b, i + 2) = 0 /\ Bit(b, i + 3) = 0
                 /\ Bit(b, i + 4) = 0
          /\ Bit(d, i) = 0 /\ Bit(d, i + 1) = 0 /\ Bit(d, i + 2) = 0 /\ Bit(d, i + 3) = 0
                 /\ Bit(d, i + 4) = 0
      BY <3>1, <3>2, BitType
    <3>. QED  BY <3>3, <3>4
  <2>. QED  BY <1>1, <2>1, <2>2
<1>. QED  BY <1>4 DEF Near

-----------------------------------------------------------------------------
(* The machine.                                                            *)

(* The text is what encode_stellar_key wrote until a slip spoils it, and     *)
(* what the constructor decided it decided about this very text.             *)
KeyInv ==
    /\ meant \in [ key : Keys,
                   version : {ED25519_PUBLIC_KEY_VERSION_BYTE, ED25519_SECRET_SEED_VERSION_BYTE} ]
    /\ text \in Seq(0 .. 127)
    /\ slips \in Nat
    /\ slips = 0 => text = encode_stellar_key(meant.key, meant.version)
    /\ result # "none" => result = Verdict(text, ED25519_PUBLIC_KEY_VERSION_BYTE)
    /\ issuer = IF result = "Ok" THEN decode_stellar_key(text) ELSE NoKey

\* KeyInv holds when nothing was typed wrong yet.
LEMMA KeyInvInit == Init => KeyInv
<1>. SUFFICES ASSUME Init
              PROVE  KeyInv
  OBVIOUS
<1>1. text \in Seq(0 .. 127)
  <2>1. meant.key \in Keys /\ meant.version \in Byte
    BY VersionsAreBytes DEF Init
  <2>2. text = encode_stellar_key(meant.key, meant.version)
    BY DEF Init
  <2>. QED  BY <2>1, <2>2, EncodedKeyIsDecoded
<1>. QED  BY <1>1 DEF Init, KeyInv

\* What a slip makes of a text is a text.
LEMMA SlipsAreTexts ==
    ASSUME NEW s \in Seq(0 .. 127), NEW c \in 0 .. 127
    PROVE  /\ \A i \in DOMAIN s : ReplaceAt(s, i, c) \in Seq(0 .. 127)
           /\ \A i \in 1 .. Len(s) - 1 :
                [s EXCEPT ![i] = s[i + 1], ![i + 1] = s[i]] \in Seq(0 .. 127)
           /\ \A i \in DOMAIN s : RemoveAt(s, i) \in Seq(0 .. 127)
           /\ \A i \in 1 .. Len(s) + 1 : InsertAt(s, i, c) \in Seq(0 .. 127)
           /\ \A n \in 0 .. Len(s) - 1 : SubSeq(s, 1, n) \in Seq(0 .. 127)
<1>. DEFINE S == 0 .. 127
<1>. HIDE DEF S
<1>0. s \in Seq(S) /\ c \in S
  BY DEF S
<1>1. \A i \in DOMAIN s : ReplaceAt(s, i, c) \in Seq(S)
  BY <1>0 DEF ReplaceAt
<1>2. \A i \in 1 .. Len(s) - 1 : [s EXCEPT ![i] = s[i + 1], ![i + 1] = s[i]] \in Seq(S)
  <2>. TAKE i \in 1 .. Len(s) - 1
  <2>1. i \in 1 .. Len(s) /\ i + 1 \in 1 .. Len(s)
    BY <1>0
  <2>2. s[i] \in S /\ s[i + 1] \in S
    BY <1>0, <2>1
  <2>. QED  BY <1>0, <2>1, <2>2
<1>3. \A i \in DOMAIN s : RemoveAt(s, i) \in Seq(S)
  <2>. TAKE i \in DOMAIN s
  <2>1. SubSeq(s, 1, i - 1) \in Seq(S) /\ SubSeq(s, i + 1, Len(s)) \in Seq(S)
    BY <1>0
  <2>. QED  BY <2>1 DEF RemoveAt
<1>4. \A i \in 1 .. Len(s) + 1 : InsertAt(s, i, c) \in Seq(S)
  <2>. TAKE i \in 1 .. Len(s) + 1
  <2>1. SubSeq(s, 1, i - 1) \in Seq(S) /\ SubSeq(s, i, Len(s)) \in Seq(S) /\ <<c>> \in Seq(S)
    BY <1>0
  <2>. QED  BY <2>1 DEF InsertAt
<1>5. \A n \in 0 .. Len(s) - 1 : SubSeq(s, 1, n) \in Seq(S)
  BY <1>0
<1>. QED  BY <1>1, <1>2, <1>3, <1>4, <1>5 DEF S

\* A slip keeps KeyInv.
LEMMA SlipPreserves ==
    ASSUME KeyInv, NEW typed \in Seq(0 .. 127), Slip(typed)
    PROVE  KeyInv'
<1>1. text' = typed /\ slips' = slips + 1 /\ result = "none" /\ UNCHANGED <<meant, result, issuer>>
  BY DEF Slip
<1>2. slips' \in Nat /\ slips' # 0
  BY <1>1 DEF KeyInv
<1>3. issuer' = NoKey
  BY <1>1 DEF KeyInv
<1>. QED  BY <1>1, <1>2, <1>3 DEF KeyInv

\* Every slip and the constructor keep KeyInv.
LEMMA KeyInvNext == KeyInv /\ [Next]_vars => KeyInv'
<1>. SUFFICES ASSUME KeyInv, [Next]_vars
              PROVE  KeyInv'
  OBVIOUS
<1>0. text \in Seq(0 .. 127) /\ SlipChars \subseteq 0 .. 127 /\ 0 \in 0 .. 127
  BY KeyAssumption DEF KeyInv
<1>1. CASE Mistype
  <2>1. PICK i \in DOMAIN text, c \in SlipChars : Slip(ReplaceAt(text, i, c))
    BY <1>1 DEF Mistype
  <2>2. ReplaceAt(text, i, c) \in Seq(0 .. 127)
    BY <1>0, SlipsAreTexts
  <2>. QED  BY <2>1, <2>2, SlipPreserves
<1>2. CASE Transpose
  <2>1. PICK i \in 1 .. Len(text) - 1 : Slip([text EXCEPT ![i] = text[i + 1], ![i + 1] = text[i]])
    BY <1>2 DEF Transpose
  <2>2. [text EXCEPT ![i] = text[i + 1], ![i + 1] = text[i]] \in Seq(0 .. 127)
    BY <1>0, SlipsAreTexts
  <2>. QED  BY <2>1, <2>2, SlipPreserves
<1>3. CASE Leave
  <2>1. PICK i \in DOMAIN text : Slip(RemoveAt(text, i))
    BY <1>3 DEF Leave
  <2>2. RemoveAt(text, i) \in Seq(0 .. 127)
    BY <1>0, SlipsAreTexts
  <2>. QED  BY <2>1, <2>2, SlipPreserves
<1>4. CASE Insert
  <2>1. PICK i \in 1 .. Len(text) + 1, c \in SlipChars : Slip(InsertAt(text, i, c))
    BY <1>4 DEF Insert
  <2>2. InsertAt(text, i, c) \in Seq(0 .. 127)
    BY <1>0, SlipsAreTexts
  <2>. QED  BY <2>1, <2>2, SlipPreserves
<1>5. CASE CutOff
  <2>1. PICK n \in 0 .. Len(text) - 1 : Slip(SubSeq(text, 1, n))
    BY <1>5 DEF CutOff
  <2>2. SubSeq(text, 1, n) \in Seq(0 .. 127)
    BY <1>0, SlipsAreTexts
  <2>. QED  BY <2>1, <2>2, SlipPreserves
<1>6. CASE DecodeIssuer
  BY <1>6 DEF DecodeIssuer, KeyInv
<1>7. CASE UNCHANGED vars
  BY <1>7 DEF vars, KeyInv
<1>. QED  BY <1>1, <1>2, <1>3, <1>4, <1>5, <1>6, <1>7 DEF Next

\* KeyInv holds in every reachable state, for keys of every length.
THEOREM KeyInvariant == Spec => []KeyInv
BY KeyInvInit, KeyInvNext, PTL DEF Spec

\* KeyInv implies EveryKeyAccepted.
LEMMA KeysAreAccepted == KeyInv => EveryKeyAccepted
<1>. SUFFICES ASSUME KeyInv, result # "none", slips = 0,
                     meant.version = ED25519_PUBLIC_KEY_VERSION_BYTE
              PROVE  issuer = meant.key
  BY DEF EveryKeyAccepted
<1>1. meant.key \in Keys /\ text = encode_stellar_key(meant.key, ED25519_PUBLIC_KEY_VERSION_BYTE)
  BY DEF KeyInv
<1>2. /\ Verdict(text, ED25519_PUBLIC_KEY_VERSION_BYTE) = "Ok"
      /\ decode_stellar_key(text) = meant.key
  BY <1>1, EncodedKeyIsDecoded, VersionsAreBytes
<1>. QED  BY <1>2 DEF KeyInv

\* The constructor accepts the text encode_stellar_key writes for a key and stores that key,
\* for every key of every length.
THEOREM KeysAccepted == Spec => []EveryKeyAccepted
BY KeyInvariant, KeysAreAccepted, PTL

\* KeyInv implies IssuerReadsBack.
LEMMA IssuersRead == KeyInv => IssuerReadsBack
<1>. SUFFICES ASSUME KeyInv, issuer # NoKey
              PROVE  issuer_1 = text
  BY DEF IssuerReadsBack
<1>1. result = "Ok" /\ issuer = decode_stellar_key(text)
  BY DEF KeyInv
<1>2. text \in Seq(0 .. 127) /\ Verdict(text, ED25519_PUBLIC_KEY_VERSION_BYTE) = "Ok"
  BY <1>1 DEF KeyInv
<1>3. encode_stellar_key(decode_stellar_key(text), ED25519_PUBLIC_KEY_VERSION_BYTE) = text
  BY <1>2, AcceptedIsEncoded
<1>. QED  BY <1>1, <1>3 DEF issuer_1

\* issuer_1 returns the very text the constructor accepted, whatever text that was.
THEOREM IssuersReadBack == Spec => []IssuerReadsBack
BY KeyInvariant, IssuersRead, PTL

\* KeyInv implies Base32IsGroupsOfFive.
LEMMA TextsAreGroups == KeyInv => Base32IsGroupsOfFive
<1>. SUFFICES ASSUME KeyInv, IsBase32(text)
              PROVE  /\ Encode(Decode(text)) = GroupsOfFive(Decode(text))
                     /\ Decode(Encode(Decode(text))) = Decode(text)
  BY DEF Base32IsGroupsOfFive
<1>1. Decode(text) \in Seq(Byte)
  BY DecodeType DEF KeyInv
<1>. QED  BY <1>1, EncodeIsGroups, DecodeOfEncode

\* On every text that is base32 at all, encode writes the groups of five bits of what decode
\* reads, and decode returns from them.
THEOREM Base32Groups == Spec => []Base32IsGroupsOfFive
BY KeyInvariant, TextsAreGroups, PTL

(* With one slip the text is near the one the caller should have typed.      *)
SlipInv ==
    /\ KeyInv
    /\ slips <= MaxSlips
    /\ slips <= 1 => NearText(text, encode_stellar_key(meant.key, meant.version))

\* The length of three sequences in a row.
LEMMA LengthOfThree ==
    ASSUME NEW S, NEW p \in Seq(S), NEW q \in Seq(S), NEW r \in Seq(S)
    PROVE  Len(p \o q \o r) = Len(p) + Len(q) + Len(r)
<1>1. p \o q \in Seq(S) /\ Len(p \o q) = Len(p) + Len(q)
  OBVIOUS
<1>. QED  BY <1>1

\* What one slip makes of a text is near it.
LEMMA SlipsAreNear ==
    ASSUME NEW s \in Seq(0 .. 127), NEW c \in 0 .. 127
    PROVE  /\ NearText(s, s)
           /\ \A i \in DOMAIN s : NearText(ReplaceAt(s, i, c), s)
           /\ \A i \in 1 .. Len(s) - 1 :
                NearText([s EXCEPT ![i] = s[i + 1], ![i + 1] = s[i]], s)
           /\ \A i \in DOMAIN s : NearText(RemoveAt(s, i), s)
           /\ \A i \in 1 .. Len(s) + 1 : NearText(InsertAt(s, i, c), s)
           /\ \A n \in 0 .. Len(s) - 1 : NearText(SubSeq(s, 1, n), s)
<1>. DEFINE S == 0 .. 127
<1>. HIDE DEF S
<1>0. s \in Seq(S) /\ c \in S /\ Len(s) \in Nat
  BY DEF S
<1>1. NearText(s, s)
  BY DEF NearText
<1>2. \A i \in DOMAIN s : NearText(ReplaceAt(s, i, c), s)
  <2>. SUFFICES ASSUME NEW i \in DOMAIN s
                PROVE  NearText(ReplaceAt(s, i, c), s)
    OBVIOUS
  <2>. DEFINE g == i - 1
  <2>1. g \in Nat /\ g + 1 = i
    BY <1>0
  <2>2. \A k \in 1 .. Len(s) : k # i => ReplaceAt(s, i, c)[k] = s[k]
    BY <1>0 DEF ReplaceAt
  <2>3. \A k \in 1 .. Len(s) : k \notin {g + 1, g + 2} => ReplaceAt(s, i, c)[k] = s[k]
    BY <2>1, <2>2
  <2>. HIDE DEF g
  <2>. QED  BY <2>1, <2>3 DEF NearText
<1>3. \A i \in 1 .. Len(s) - 1 : NearText([s EXCEPT ![i] = s[i + 1], ![i + 1] = s[i]], s)
  <2>. SUFFICES ASSUME NEW i \in 1 .. Len(s) - 1
                PROVE  NearText([s EXCEPT ![i] = s[i + 1], ![i + 1] = s[i]], s)
    OBVIOUS
  <2>. DEFINE g == i - 1
              t == [s EXCEPT ![i] = s[i + 1], ![i + 1] = s[i]]
  <2>1. g \in Nat /\ g + 1 = i /\ g + 2 = i + 1
    BY <1>0
  <2>2. \A k \in 1 .. Len(s) : k # i /\ k # i + 1 => t[k] = s[k]
    BY <1>0
  <2>. HIDE DEF g, t
  <2>3. \A k \in 1 .. Len(s) : k \notin {g + 1, g + 2} => t[k] = s[k]
    BY <2>1, <2>2
  <2>4. NearText(t, s)
    BY <2>1, <2>3 DEF NearText
  <2>. QED  BY <2>4 DEF t
<1>4. \A i \in DOMAIN s : NearText(RemoveAt(s, i), s)
  <2>. SUFFICES ASSUME NEW i \in DOMAIN s
                PROVE  Len(RemoveAt(s, i)) # Len(s)
    BY DEF NearText
  <2>1. i \in 1 .. Len(s)
    BY <1>0
  <2>2. Len(SubSeq(s, 1, i - 1)) = i - 1 /\ SubSeq(s, 1, i - 1) \in Seq(S)
    BY <1>0, <2>1
  <2>3. Len(SubSeq(s, i + 1, Len(s))) = Len(s) - i /\ SubSeq(s, i + 1, Len(s)) \in Seq(S)
    BY <1>0, <2>1
  <2>4. Len(RemoveAt(s, i)) = (i - 1) + (Len(s) - i)
    BY <2>2, <2>3 DEF RemoveAt
  <2>. QED  BY <1>0, <2>1, <2>4
<1>5. \A i \in 1 .. Len(s) + 1 : NearText(InsertAt(s, i, c), s)
  <2>. SUFFICES ASSUME NEW i \in 1 .. Len(s) + 1
                PROVE  Len(InsertAt(s, i, c)) # Len(s)
    BY DEF NearText
  <2>1. Len(SubSeq(s, 1, i - 1)) = i - 1 /\ SubSeq(s, 1, i - 1) \in Seq(S)
    BY <1>0
  <2>2. Len(SubSeq(s, i, Len(s))) = Len(s) - i + 1 /\ SubSeq(s, i, Len(s)) \in Seq(S)
    BY <1>0
  <2>3. Len(<<c>>) = 1 /\ <<c>> \in Seq(S)
    BY <1>0
  <2>. DEFINE a == SubSeq(s, 1, i - 1)
              e == <<c>>
              z == SubSeq(s, i, Len(s))
  <2>4. Len(InsertAt(s, i, c)) = (i - 1) + 1 + (Len(s) - i + 1)
    <3>1. InsertAt(s, i, c) = a \o e \o z
      BY DEF InsertAt
    <3>2. /\ a \in Seq(S) /\ Len(a) = i - 1
          /\ e \in Seq(S) /\ Len(e) = 1
          /\ z \in Seq(S) /\ Len(z) = Len(s) - i + 1
      BY <2>1, <2>2, <2>3
    <3>. HIDE DEF a, e, z
    <3>3. a \in Seq(S) /\ e \in Seq(S) /\ z \in Seq(S)
      BY <3>2
    <3>4. Len(a \o e \o z) = Len(a) + Len(e) + Len(z)
      BY <3>3, LengthOfThree
    <3>. QED  BY <3>1, <3>2, <3>4
  <2>. QED  BY <1>0, <2>4
<1>6. \A n \in 0 .. Len(s) - 1 : NearText(SubSeq(s, 1, n), s)
  <2>. SUFFICES ASSUME NEW n \in 0 .. Len(s) - 1
                PROVE  Len(SubSeq(s, 1, n)) # Len(s)
    BY DEF NearText
  <2>1. Len(SubSeq(s, 1, n)) = n
    BY <1>0
  <2>. QED  BY <1>0, <2>1
<1>. QED  BY <1>1, <1>2, <1>3, <1>4, <1>5, <1>6

\* SlipInv holds when nothing was typed wrong yet.
LEMMA SlipInvInit == Init => SlipInv
<1>. SUFFICES ASSUME Init
              PROVE  SlipInv
  OBVIOUS
<1>1. KeyInv
  BY KeyInvInit
<1>2. NearText(text, text)
  BY DEF NearText
<1>3. slips = 0 /\ text = encode_stellar_key(meant.key, meant.version)
  BY DEF Init
<1>4. 0 <= MaxSlips
  BY KeyAssumption
<1>. QED  BY <1>1, <1>2, <1>3, <1>4 DEF SlipInv

\* A slip keeps SlipInv: only the first one makes a text of which it says anything.
LEMMA SlipStaysNear ==
    ASSUME SlipInv, KeyInv', NEW typed, Slip(typed), NearText(typed, text)
    PROVE  SlipInv'
<1>1. /\ text' = typed /\ slips' = slips + 1 /\ UNCHANGED meant
      /\ slips \in Nat /\ slips < MaxSlips
  BY DEF Slip, SlipInv, KeyInv
<1>2. slips' <= MaxSlips
  BY <1>1, KeyAssumption
<1>3. ASSUME slips' <= 1
      PROVE  NearText(text, encode_stellar_key(meant.key, meant.version))'
  <2>1. slips = 0
    BY <1>1, <1>3
  <2>2. text = encode_stellar_key(meant.key, meant.version)
    BY <2>1 DEF SlipInv, KeyInv
  <2>3. NearText(typed, encode_stellar_key(meant.key, meant.version))
    BY <2>2
  <2>. QED  BY <1>1, <2>3
<1>. QED  BY <1>2, <1>3 DEF SlipInv

\* Every slip and the constructor keep SlipInv.
LEMMA SlipInvNext == SlipInv /\ [Next]_vars => SlipInv'
<1>. SUFFICES ASSUME SlipInv, [Next]_vars
              PROVE  SlipInv'
  OBVIOUS
<1>0. text \in Seq(0 .. 127) /\ SlipChars \subseteq 0 .. 127 /\ 0 \in 0 .. 127 /\ KeyInv'
  BY KeyAssumption, KeyInvNext DEF SlipInv, KeyInv
<1>1. CASE Mistype
  <2>1. PICK i \in DOMAIN text, c \in SlipChars : Slip(ReplaceAt(text, i, c))
    BY <1>1 DEF Mistype
  <2>2. NearText(ReplaceAt(text, i, c), text)
    BY <1>0, SlipsAreNear
  <2>. QED  BY <1>0, <2>1, <2>2, SlipStaysNear
<1>2. CASE Transpose
  <2>1. PICK i \in 1 .. Len(text) - 1 : Slip([text EXCEPT ![i] = text[i + 1], ![i + 1] = text[i]])
    BY <1>2 DEF Transpose
  <2>2. NearText([text EXCEPT ![i] = text[i + 1], ![i + 1] = text[i]], text)
    BY <1>0, SlipsAreNear
  <2>. QED  BY <1>0, <2>1, <2>2, SlipStaysNear
<1>3. CASE Leave
  <2>1. PICK i \in DOMAIN text : Slip(RemoveAt(text, i))
    BY <1>3 DEF Leave
  <2>2. NearText(RemoveAt(text, i), text)
    BY <1>0, SlipsAreNear
  <2>. QED  BY <1>0, <2>1, <2>2, SlipStaysNear
<1>4. CASE Insert
  <2>1. PICK i \in 1 .. Len(text) + 1, c \in SlipChars : Slip(InsertAt(text, i, c))
    BY <1>4 DEF Insert
  <2>2. NearText(InsertAt(text, i, c), text)
    BY <1>0, SlipsAreNear
  <2>. QED  BY <1>0, <2>1, <2>2, SlipStaysNear
<1>5. CASE CutOff
  <2>1. PICK n \in 0 .. Len(text) - 1 : Slip(SubSeq(text, 1, n))
    BY <1>5 DEF CutOff
  <2>2. NearText(SubSeq(text, 1, n), text)
    BY <1>0, SlipsAreNear
  <2>. QED  BY <1>0, <2>1, <2>2, SlipStaysNear
<1>6. CASE DecodeIssuer
  BY <1>0, <1>6 DEF DecodeIssuer, SlipInv
<1>7. CASE UNCHANGED vars
  BY <1>0, <1>7 DEF vars, SlipInv
<1>. QED  BY <1>1, <1>2, <1>3, <1>4, <1>5, <1>6, <1>7 DEF Next

\* SlipInv holds in every reachable state, whatever the bound on the slips.
THEOREM SlipInvariant == Spec => []SlipInv
BY SlipInvInit, SlipInvNext, PTL DEF Spec

\* A version byte before a key can be told from another one before another key.
LEMMA VersionAndKey ==
    ASSUME NEW u \in Seq(Byte), NEW v \in Seq(Byte), Len(u) = Len(v), NEW x, NEW y,
           <<x>> \o u = <<y>> \o v
    PROVE  x = y /\ u = v
<1>1. x = y
  <2>1. (<<x>> \o u)[1] = x /\ (<<y>> \o v)[1] = y
    OBVIOUS
  <2>. QED  BY <2>1
<1>2. ASSUME NEW i \in 1 .. Len(u)
      PROVE  u[i] = v[i]
  <2>1. (<<x>> \o u)[i + 1] = u[i] /\ (<<y>> \o v)[i + 1] = v[i]
    OBVIOUS
  <2>. QED  BY <2>1
<1>3. u = v
  BY <1>2
<1>. QED  BY <1>1, <1>3

\* A key that is accepted after one slip at most is the one the caller has in mind.
LEMMA SlipIsCaught == SlipInv /\ slips <= 1 => IssuerIsTheOneMeant
<1>. SUFFICES ASSUME SlipInv, slips <= 1, issuer # NoKey
              PROVE  meant = [key |-> issuer, version |-> ED25519_PUBLIC_KEY_VERSION_BYTE]
  BY DEF IssuerIsTheOneMeant
<1>. DEFINE g == ED25519_PUBLIC_KEY_VERSION_BYTE
            key == meant.key
            version == meant.version
            u == <<g>> \o issuer
            v == <<version>> \o key
<1>1. result = "Ok" /\ issuer = decode_stellar_key(text)
  BY DEF SlipInv, KeyInv
<1>2. text \in Seq(0 .. 127) /\ Verdict(text, g) = "Ok"
  BY <1>1 DEF SlipInv, KeyInv
<1>3. encode_stellar_key(issuer, g) = text /\ issuer \in Seq(Byte) /\ Len(issuer) = BYTE_LENGTH
  BY <1>1, <1>2, AcceptedIsEncoded
<1>4. key \in Keys /\ version \in Byte /\ g \in Byte /\ meant = [key |-> key, version |-> version]
  BY VersionsAreBytes DEF SlipInv, KeyInv
<1>5. key \in Seq(Byte) /\ Len(key) = BYTE_LENGTH /\ v \in Seq(Byte) /\ Len(v) = 1 + BYTE_LENGTH
  BY <1>4, KeyBytesType
<1>6. u \in Seq(Byte) /\ Len(u) = 1 + BYTE_LENGTH
  BY <1>3, <1>4
<1>7. text = Encode(Checked(u)) /\ encode_stellar_key(key, version) = Encode(Checked(v))
  BY <1>3, EncodeStellarKey
<1>8. NearText(Encode(Checked(u)), Encode(Checked(v)))
  BY <1>7 DEF SlipInv
<1>. HIDE DEF g, key, version, u, v
<1>9. /\ Checked(u) \in Seq(Byte) /\ Checked(v) \in Seq(Byte)
      /\ Len(Checked(u)) = Len(Checked(v))
  BY <1>5, <1>6, CheckedBytes
<1>10. PICK k \in Nat : Near(Checked(u), Checked(v), k)
  BY <1>8, <1>9, NearTextIsNear
<1>11. PICK j \in Nat : Spoilt(Checked(u), Checked(v), j)
  BY <1>9, <1>10, NearIsSpoilt
<1>12. u = v
  BY <1>5, <1>6, <1>11, SpoiltIsTold
<1>13. g = version /\ issuer = key
  BY <1>3, <1>5, <1>12, VersionAndKey DEF u, v
<1>. QED  BY <1>4, <1>13 DEF g

\* However often the caller may slip: as long as there was one slip at most, the issuer that a
\* contract stores is the key the caller has in mind, and no seed is stored as a key.
THEOREM OneSlipIsCaught == Spec => [](slips <= 1 => IssuerIsTheOneMeant)
BY SlipInvariant, SlipIsCaught, PTL

\* With callers that slip once at most, no contract has another issuer than the one meant.
THEOREM IssuersAreMeant ==
    ASSUME MaxSlips <= 1
    PROVE  Spec => []IssuerIsTheOneMeant
<1>1. SlipInv => IssuerIsTheOneMeant
  <2>1. SlipInv => slips <= 1
    BY KeyAssumption DEF SlipInv, KeyInv
  <2>. QED  BY <2>1, SlipIsCaught
<1>. QED  BY <1>1, SlipInvariant, PTL
=============================================================================
