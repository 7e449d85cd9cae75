-------------------------- MODULE TestChainProofs --------------------------
(* The test chain: no ready transaction is left behind by instant seal, and  *)
(* the pallet and the contract share a ledger without a loss to either, if   *)
(* no other contract names them as the payer.                                *)
EXTENDS TestChain, AmmPalletProofs

-----------------------------------------------------------------------------
(* Instant seal.                                                           *)

Transactions == [signer : Users, nonce : Nat]

\* The inductive invariant.  The pool holds no transaction whose nonce was used, a block
\* is made of transactions of the pool, and one that is ready and not in the block has a
\* notification to come.
NodeSound ==
    /\ nonce \in [Users -> Nat]
    /\ notified \in Nat
    /\ pending \subseteq Transactions
    /\ \A tx \in pending : tx.nonce >= nonce[tx.signer]
    /\ block = NotSealing \/ block \subseteq pending
    /\ ReadyIn(pending) \ block # {} => notified > 0

\* A transaction that enters the pool without being ready makes no other one ready.
LEMMA SubmitKeeps ==
    ASSUME NodeSound, NEW u \in Users, NEW n \in 0 .. MaxNonce, Submit(u, n)
    PROVE  NodeSound'
<1>. DEFINE t == Transaction(u, n)
<1>1. /\ nonce \in [Users -> Nat] /\ notified \in Nat /\ pending \subseteq Transactions
      /\ \A tx \in pending : tx.nonce >= nonce[tx.signer]
      /\ block = NotSealing \/ block \subseteq pending
      /\ ReadyIn(pending) \ block # {} => notified > 0
  BY DEF NodeSound
<1>2. t \in Transactions /\ t.signer = u /\ t.nonce = n /\ n \in Nat
  BY TestChainAssumption DEF Transaction, Transactions
<1>3. /\ n >= nonce[u] /\ pending' = pending \cup {t}
      /\ notified' = notified + (IF IsReady(t, pending') THEN 1 ELSE 0)
      /\ nonce' = nonce /\ block' = block
  BY DEF Submit
<1>4. notified' \in Nat /\ (notified > 0 => notified' > 0)
  BY <1>1, <1>3
<1>5. ASSUME NEW tx \in ReadyIn(pending') \ block, tx \notin ReadyIn(pending)
      PROVE  IsReady(t, pending')
  <2>1. tx \in pending' /\ tx \in Transactions /\ IsReady(tx, pending')
    BY <1>1, <1>2, <1>3, <1>5 DEF ReadyIn
  <2>2. tx.signer \in Users /\ tx.nonce \in Nat
    BY <2>1 DEF Transactions
  <2>3. CASE tx = t
    BY <2>1, <2>3
  <2>4. CASE tx # t
    <3>1. tx \in pending /\ ~IsReady(tx, pending)
      BY <1>3, <1>5, <2>1, <2>4 DEF ReadyIn
    <3>2. PICK k \in nonce[tx.signer] .. tx.nonce : Transaction(tx.signer, k) \notin pending
      BY <3>1 DEF IsReady
    <3>3. Transaction(tx.signer, k) = t
      BY <1>3, <2>1, <3>2 DEF IsReady
    <3>4. tx.signer = u /\ k = n
      BY <3>3 DEF Transaction
    <3>5. nonce[u] \in Nat
      BY <1>1
    <3>6. \A j \in nonce[u] .. n : j \in nonce[tx.signer] .. tx.nonce
      BY <1>2, <2>2, <3>2, <3>4, <3>5
    <3>. QED  BY <1>2, <2>1, <3>4, <3>6 DEF IsReady
  <2>. QED  BY <2>3, <2>4
<1>6. IsReady(t, pending') => notified' > 0
  BY <1>1, <1>3
<1>8. ReadyIn(pending)' = ReadyIn(pending')
  BY <1>3 DEF ReadyIn, IsReady
<1>9. (ReadyIn(pending) \ block # {} => notified > 0)'
  BY <1>1, <1>3, <1>4, <1>5, <1>6, <1>8
<1>10. \A tx \in pending' : tx.nonce >= nonce'[tx.signer]
  BY <1>1, <1>2, <1>3
<1>. QED  BY <1>1, <1>2, <1>3, <1>4, <1>9, <1>10 DEF NodeSound

\* A transaction that is ready after another one was executed was ready before.
LEMMA ApplyKeeps ==
    ASSUME NodeSound, NEW t \in block \ NotSealing, ApplyExtrinsic(t)
    PROVE  NodeSound'
<1>1. /\ nonce \in [Users -> Nat] /\ notified \in Nat /\ pending \subseteq Transactions
      /\ \A tx \in pending : tx.nonce >= nonce[tx.signer]
      /\ ReadyIn(pending) \ block # {} => notified > 0
  BY DEF NodeSound
<1>2. block \subseteq pending /\ t \in pending
  BY DEF NodeSound
<1>3. t.signer \in Users /\ t.nonce \in Nat
  BY <1>1, <1>2 DEF Transactions
<1>4. /\ t.nonce = nonce[t.signer] /\ nonce' = [nonce EXCEPT ![t.signer] = @ + 1]
      /\ block' = block \ {t} /\ pending' = pending \ {t} /\ notified' = notified
  BY DEF ApplyExtrinsic, Take
<1>5. /\ nonce' \in [Users -> Nat] /\ nonce'[t.signer] = t.nonce + 1
      /\ \A u \in Users \ {t.signer} : nonce'[u] = nonce[u]
  BY <1>1, <1>3, <1>4
<1>6. ASSUME NEW tx \in pending'
      PROVE  /\ tx \in pending /\ tx.signer \in Users /\ tx.nonce \in Nat
             /\ tx.nonce >= nonce'[tx.signer]
  <2>1. tx \in pending /\ tx # t
    BY <1>4
  <2>2. /\ tx \in Transactions /\ t \in Transactions
        /\ tx.signer \in Users /\ tx.nonce \in Nat /\ nonce[tx.signer] \in Nat
    BY <1>1, <1>2, <2>1 DEF Transactions
  <2>3. CASE tx.signer = t.signer
    <3>1. tx.nonce # t.nonce
      BY <2>1, <2>2, <2>3 DEF Transactions
    <3>. QED  BY <1>1, <1>3, <1>4, <1>5, <2>1, <2>2, <2>3, <3>1
  <2>4. CASE tx.signer # t.signer
    BY <1>1, <1>5, <2>1, <2>2, <2>4
  <2>. QED  BY <2>1, <2>2, <2>3, <2>4
<1>7. ASSUME NEW tx \in ReadyIn(pending)'
      PROVE  tx \in ReadyIn(pending) /\ tx # t
  <2>1. /\ tx \in pending' /\ tx \in pending /\ tx # t
        /\ \A n \in nonce'[tx.signer] .. tx.nonce : Transaction(tx.signer, n) \in pending'
    BY <1>4, <1>7 DEF ReadyIn, IsReady
  <2>2. tx.signer \in Users /\ tx.nonce \in Nat /\ nonce[tx.signer] \in Nat
    BY <1>1, <1>6, <2>1
  <2>3. ASSUME NEW n \in nonce[tx.signer] .. tx.nonce
        PROVE  Transaction(tx.signer, n) \in pending
    <3>1. CASE tx.signer # t.signer
      BY <1>4, <1>5, <2>1, <2>2, <3>1
    <3>2. CASE tx.signer = t.signer /\ n # t.nonce
      <4>1. n \in nonce'[tx.signer] .. tx.nonce
        BY <1>3, <1>4, <1>5, <2>2, <3>2
      <4>. QED  BY <1>4, <2>1, <4>1
    <3>3. CASE tx.signer = t.signer /\ n = t.nonce
      <4>1. t = Transaction(t.signer, t.nonce)
        BY <1>1, <1>2 DEF Transaction, Transactions
      <4>. QED  BY <1>2, <3>3, <4>1
    <3>. QED  BY <3>1, <3>2, <3>3
  <2>. QED  BY <2>1, <2>3 DEF ReadyIn, IsReady
<1>8. (ReadyIn(pending) \ block # {} => notified > 0)'
  BY <1>1, <1>4, <1>7
<1>9. pending' \subseteq Transactions /\ block' \subseteq pending'
  BY <1>1, <1>2, <1>4
<1>. QED  BY <1>1, <1>4, <1>5, <1>6, <1>8, <1>9 DEF NodeSound

\* Every step of the node keeps the inductive invariant.
LEMMA NodeStep ==
    ASSUME NodeSound, [ChainNext]_chainVars
    PROVE  NodeSound'
<1>1. ASSUME UNCHANGED <<pending, nonce>>, notified' \in Nat,
             block' = NotSealing \/ block' \subseteq pending,
             ReadyIn(pending) \ block' # {} => notified' > 0
      PROVE  NodeSound'
  <2>1. ReadyIn(pending)' = ReadyIn(pending)
    BY <1>1 DEF ReadyIn, IsReady
  <2>. QED  BY <1>1, <2>1 DEF NodeSound
<1>2. CASE UNCHANGED chainVars
  BY <1>1, <1>2 DEF chainVars, nodeVars, NodeSound
<1>3. CASE BeginBlock
  <2>1. /\ block = NotSealing /\ notified > 0 /\ notified' = notified - 1
        /\ UNCHANGED <<pending, nonce>> /\ notified \in Nat
        /\ \/ ReadyIn(pending) = {} /\ block' = block
           \/ block' = ReadyIn(pending)
    BY <1>3 DEF BeginBlock, Proposed, NodeSound
  <2>2. ReadyIn(pending) \subseteq pending
    BY DEF ReadyIn
  <2>. QED  BY <1>1, <2>1, <2>2
<1>4. CASE EndBlock
  <2>1. /\ block = {} /\ block' = NotSealing /\ UNCHANGED <<pending, nonce, notified>>
        /\ notified \in Nat /\ (ReadyIn(pending) \ block # {} => notified > 0)
    BY <1>4 DEF EndBlock, NodeSound
  <2>. QED  BY <1>1, <2>1
<1>. QED  BY <1>2, <1>3, <1>4, SubmitKeeps, ApplyKeeps DEF ChainNext, Author

\* However the submissions interleave with the making of blocks, a transaction that is
\* ready while no block is in the making has a notification to come: the one that comes
\* too late for a block, or becomes ready by it, is never forgotten by instant seal.
THEOREM NobodyIsForgotten == ChainSpec => []NoneStranded
<1>1. ChainInit => NodeSound
  BY DEF ChainInit, NodeSound, ReadyIn
<1>2. NodeSound /\ [ChainNext]_chainVars => NodeSound'
  BY NodeStep
<1>3. NodeSound => NoneStranded
  <2>. SUFFICES ASSUME NodeSound, block = NotSealing, NEW tx \in ReadyIn(pending)
                PROVE  notified > 0
    BY DEF NoneStranded
  <2>1. tx \in Transactions
    BY DEF NodeSound, ReadyIn
  <2>2. tx.signer \in Users /\ NoAccount \notin Users
    BY <2>1, ConfigAssumption DEF Transactions
  <2>3. tx \notin NotSealing
    BY <2>2 DEF NotSealing
  <2>. QED  BY <2>3 DEF NodeSound
<1>. QED  BY <1>1, <1>2, <1>3, PTL DEF ChainSpec

-----------------------------------------------------------------------------
(* The contract on the chain.  PairFacts has the contract's lemmas, on the *)
(* same state as Pair.                                                     *)

PairFacts ==
    INSTANCE AmmContractProofs WITH
        Contract <- PairAccount, MINIMUM_LIQUIDITY <- MinimumLiquidity,
        MaxTimestamp <- MaxMoment, reserve <- pairReserve, tsLast <- pairTsLast,
        price <- pairPrice, kLast <- pairKLast, feeTo <- pairFeeTo,
        totalSupply <- pairSupply, lp <- pairLp, result <- pairResult

\* The contract's assumptions hold on the chain.
LEMMA PairIsAllowed ==
    PairFacts!WidthAssumption /\ PairFacts!AccountsAssumption /\ PairFacts!PairAssumption
<1>1. PairFacts!WidthAssumption
  BY WidthAssumption DEF PairFacts!WidthAssumption
<1>2. PairFacts!AccountsAssumption
  BY AccountsAssumption, Zenon
     DEF PairFacts!AccountsAssumption, PairFacts!IsFiniteSet, IsFiniteSet
<1>3. PairFacts!PairAssumption
  BY ConfigAssumption, TestChainAssumption
     DEF PairFacts!PairAssumption, PairFacts!Assets, Assets, PairFacts!Ledger, Ledger,
         PairFacts!Balance, Balance
<1>. QED  BY <1>1, <1>2, <1>3

\* The arithmetic and the ledger are the same under both names.
LEMMA SameLedger ==
    /\ Pair!Assets = PairFacts!Assets
    /\ \A x : Pair!Other(x) = PairFacts!Other(x)
    /\ \A a, b : Pair!PositiveReserves(a, b) <=> PairFacts!PositiveReserves(a, b)
    /\ \A a, b : Pair!SatAdd(a, b) = PairFacts!SatAdd(a, b)
    /\ \A a, b : Pair!SatSub(a, b) = PairFacts!SatSub(a, b)
    /\ \A a, b : Pair!SatMul(a, b) = PairFacts!SatMul(a, b)
    /\ \A a, b : Pair!DivOrZero(a, b) = PairFacts!DivOrZero(a, b)
    /\ \A n, a, b : Pair!GetAmountIn(n, a, b) = PairFacts!GetAmountIn(n, a, b)
    /\ \A f, a, b, n : Pair!CanMove(f, a, b, n) <=> PairFacts!CanMove(f, a, b, n)
    /\ \A f, a, b, n : Pair!Moved(f, a, b, n) = PairFacts!Moved(f, a, b, n)
    /\ \A f, a, b, n : Pair!Sent(f, a, b, n) = PairFacts!Sent(f, a, b, n)
<1>1. /\ Pair!Assets = PairFacts!Assets
      /\ \A x : Pair!Other(x) = PairFacts!Other(x)
      /\ \A a, b : Pair!PositiveReserves(a, b) <=> PairFacts!PositiveReserves(a, b)
      /\ \A a, b : Pair!SatAdd(a, b) = PairFacts!SatAdd(a, b)
      /\ \A a, b : Pair!SatSub(a, b) = PairFacts!SatSub(a, b)
      /\ \A a, b : Pair!SatMul(a, b) = PairFacts!SatMul(a, b)
      /\ \A a, b : Pair!DivOrZero(a, b) = PairFacts!DivOrZero(a, b)
  BY DEF Pair!Assets, PairFacts!Assets, Pair!Other, PairFacts!Other,
         Pair!PositiveReserves, PairFacts!PositiveReserves, Pair!SatAdd,
         PairFacts!SatAdd, Pair!SatSub, PairFacts!SatSub, Pair!SatMul,
         PairFacts!SatMul, Pair!DivOrZero, PairFacts!DivOrZero
<1>2. \A n, a, b : Pair!GetAmountIn(n, a, b) = PairFacts!GetAmountIn(n, a, b)
  BY DEF Pair!GetAmountIn, PairFacts!GetAmountIn, Pair!SatMul, PairFacts!SatMul,
         Pair!SatSub, PairFacts!SatSub, Pair!SatAdd, PairFacts!SatAdd
<1>3. /\ \A f, a, b, n : Pair!CanMove(f, a, b, n) <=> PairFacts!CanMove(f, a, b, n)
      /\ \A f, a, b, n : Pair!Moved(f, a, b, n) = PairFacts!Moved(f, a, b, n)
  BY DEF Pair!CanMove, PairFacts!CanMove, Pair!Moved, PairFacts!Moved
<1>4. \A f, a, b, n : Pair!Sent(f, a, b, n) = PairFacts!Sent(f, a, b, n)
  BY <1>3 DEF Pair!Sent, PairFacts!Sent
<1>. QED  BY <1>1, <1>2, <1>3, <1>4

\* So are the helpers.
LEMMA SameHelpers ==
    /\ \A l, to, v : Pair!Credit(l, to, v) = PairFacts!Credit(l, to, v)
    /\ \A l, from, to, n :
        Pair!TransferLiquidity(l, from, to, n) = PairFacts!TransferLiquidity(l, from, to, n)
    /\ Pair!FeeShares = PairFacts!FeeShares
    /\ Pair!SupplyWithFee = PairFacts!SupplyWithFee
    /\ \A l : Pair!LpWithFee(l) = PairFacts!LpWithFee(l)
    /\ Pair!KLastAfter = PairFacts!KLastAfter
    /\ \A b : Pair!Deposited(b) = PairFacts!Deposited(b)
    /\ \A b, y, n : Pair!Incoming(b, y, n) = PairFacts!Incoming(b, y, n)
    /\ Pair!Surplus = PairFacts!Surplus
    /\ Pair!First <=> PairFacts!First
    /\ Pair!LpToMint = PairFacts!LpToMint
<1>1. /\ \A l, to, v : Pair!Credit(l, to, v) = PairFacts!Credit(l, to, v)
      /\ \A l, from, to, n :
          Pair!TransferLiquidity(l, from, to, n) = PairFacts!TransferLiquidity(l, from, to, n)
  BY DEF Pair!Credit, PairFacts!Credit, Pair!TransferLiquidity,
         PairFacts!TransferLiquidity, Pair!SatAdd, PairFacts!SatAdd, Pair!SatSub,
         PairFacts!SatSub
<1>2. Pair!FeeShares = PairFacts!FeeShares
  BY DEF Pair!FeeShares, PairFacts!FeeShares, Pair!FeeOn, PairFacts!FeeOn,
         Pair!ProtocolFee, PairFacts!ProtocolFee, Pair!IntSqrt, PairFacts!IntSqrt,
         Pair!SatMul, PairFacts!SatMul, Pair!SatSub, PairFacts!SatSub, Pair!SatAdd,
         PairFacts!SatAdd, Pair!DivOrZero, PairFacts!DivOrZero
<1>3. Pair!SupplyWithFee = PairFacts!SupplyWithFee
  BY <1>2, SameLedger DEF Pair!SupplyWithFee, PairFacts!SupplyWithFee
<1>4. \A l : Pair!LpWithFee(l) = PairFacts!LpWithFee(l)
  BY <1>1, <1>2 DEF Pair!LpWithFee, PairFacts!LpWithFee
<1>5. Pair!KLastAfter = PairFacts!KLastAfter
  BY DEF Pair!KLastAfter, PairFacts!KLastAfter, Pair!FeeOn, PairFacts!FeeOn,
         Pair!SatMul, PairFacts!SatMul
<1>6. /\ \A b : Pair!Deposited(b) = PairFacts!Deposited(b)
      /\ \A b, y, n : Pair!Incoming(b, y, n) = PairFacts!Incoming(b, y, n)
      /\ Pair!Surplus = PairFacts!Surplus
  BY DEF Pair!Deposited, PairFacts!Deposited, Pair!Incoming, PairFacts!Incoming,
         Pair!Surplus, PairFacts!Surplus, Pair!SatSub, PairFacts!SatSub,
         Pair!Assets, PairFacts!Assets
<1>7. /\ Pair!First <=> PairFacts!First
      /\ Pair!LpToMint = PairFacts!LpToMint
  BY <1>1, <1>3, <1>4 DEF Pair!First, PairFacts!First, Pair!LpToMint,
                          PairFacts!LpToMint
<1>. QED  BY <1>1, <1>2, <1>3, <1>4, <1>5, <1>6, <1>7

\* So are the amounts that the messages compute.
LEMMA SameAmounts ==
    /\ \A amount : Pair!Liquidity(amount) = PairFacts!Liquidity(amount)
    /\ \A n : Pair!Redeemed(n) = PairFacts!Redeemed(n)
    /\ \A b, amount : Pair!KHolds(b, amount) <=> PairFacts!KHolds(b, amount)
    /\ Pair!NoReserves <=> PairFacts!NoReserves
    /\ \A x, n : Pair!ToDeposit(x, n) = PairFacts!ToDeposit(x, n)
    /\ \A from, amount : Pair!HasBoth(from, amount) <=> PairFacts!HasBoth(from, amount)
    /\ \A from, to, amount :
        Pair!SentBoth(from, to, amount) = PairFacts!SentBoth(from, to, amount)
    /\ \A f, a, n : Pair!MoveError(f, a, n) = PairFacts!MoveError(f, a, n)
<1>1. \A amount : Pair!Liquidity(amount) = PairFacts!Liquidity(amount)
  BY SameHelpers DEF Pair!Liquidity, PairFacts!Liquidity, Pair!First,
                     PairFacts!First, Pair!InitialLiquidity,
                     PairFacts!InitialLiquidity, Pair!MinOf, PairFacts!MinOf,
                     Pair!ProportionalShare, PairFacts!ProportionalShare,
                     Pair!IntSqrt, PairFacts!IntSqrt, Pair!SatMul, PairFacts!SatMul,
                     Pair!SatSub, PairFacts!SatSub, Pair!SatAdd, PairFacts!SatAdd,
                     Pair!DivOrZero, PairFacts!DivOrZero
<1>2. \A n : Pair!Redeemed(n) = PairFacts!Redeemed(n)
  BY SameHelpers, SameLedger DEF Pair!Redeemed, PairFacts!Redeemed
<1>3. \A b, amount : Pair!KHolds(b, amount) <=> PairFacts!KHolds(b, amount)
  BY SameLedger DEF Pair!KHolds, PairFacts!KHolds, Pair!Adjusted, PairFacts!Adjusted
<1>4. /\ Pair!NoReserves <=> PairFacts!NoReserves
      /\ \A x, n : Pair!ToDeposit(x, n) = PairFacts!ToDeposit(x, n)
  BY SameLedger DEF Pair!NoReserves, PairFacts!NoReserves, Pair!ToDeposit,
                    PairFacts!ToDeposit, Pair!Quote, PairFacts!Quote
<1>5. /\ \A from, amount : Pair!HasBoth(from, amount) <=> PairFacts!HasBoth(from, amount)
      /\ \A from, to, amount :
          Pair!SentBoth(from, to, amount) = PairFacts!SentBoth(from, to, amount)
  BY SameLedger DEF Pair!HasBoth, PairFacts!HasBoth, Pair!SentBoth,
                    PairFacts!SentBoth
<1>6. \A f, a, n : Pair!MoveError(f, a, n) = PairFacts!MoveError(f, a, n)
  BY DEF Pair!MoveError, PairFacts!MoveError
<1>. QED  BY <1>1, <1>2, <1>3, <1>4, <1>5, <1>6

\* And the steps that the messages end with.
LEMMA SameEnds ==
    /\ \A e : Pair!Revert(e) <=> PairFacts!Revert(e)
    /\ Pair!TimeElapsed = PairFacts!TimeElapsed
    /\ \A x : Pair!CumulativePrice(x) = PairFacts!CumulativePrice(x)
    /\ \A b : Pair!Update(b) <=> PairFacts!Update(b)
    /\ \A b, to : Pair!Mint(b, to) <=> PairFacts!Mint(b, to)
    /\ \A l, to : Pair!Burn(l, to) <=> PairFacts!Burn(l, to)
    /\ \A b, y, n, to : Pair!SwapOut(b, y, n, to) <=> PairFacts!SwapOut(b, y, n, to)
<1>1. \A e : Pair!Revert(e) <=> PairFacts!Revert(e)
  BY DEF Pair!Revert, PairFacts!Revert, Pair!pairVars, PairFacts!pairVars
<1>2. /\ Pair!TimeElapsed = PairFacts!TimeElapsed
      /\ \A x : Pair!CumulativePrice(x) = PairFacts!CumulativePrice(x)
  BY SameLedger DEF Pair!TimeElapsed, PairFacts!TimeElapsed, Pair!CumulativePrice,
                    PairFacts!CumulativePrice, Pair!OverflowingSub,
                    PairFacts!OverflowingSub, Pair!OverflowingAdd,
                    PairFacts!OverflowingAdd
<1>3. \A b : Pair!Update(b) <=> PairFacts!Update(b)
  BY <1>2, SameLedger DEF Pair!Update, PairFacts!Update
<1>4. \A b, to : Pair!Mint(b, to) <=> PairFacts!Mint(b, to)
  BY <1>1, <1>3, SameLedger, SameHelpers, SameAmounts DEF Pair!Mint, PairFacts!Mint
<1>5. \A l, to : Pair!Burn(l, to) <=> PairFacts!Burn(l, to)
  BY <1>1, <1>3, SameLedger, SameHelpers, SameAmounts DEF Pair!Burn, PairFacts!Burn
<1>6. \A b, y, n, to : Pair!SwapOut(b, y, n, to) <=> PairFacts!SwapOut(b, y, n, to)
  <2>. TAKE b, y, n, to
  <2>. DEFINE out   == [b EXCEPT ![y] = Pair!Sent(b[y], PairAccount, to, n)]
              outF  == [b EXCEPT ![y] = PairFacts!Sent(b[y], PairAccount, to, n)]
  <2>1. out = outF
    BY SameLedger
  <2>2. Pair!Incoming(out, y, n) = PairFacts!Incoming(outF, y, n)
    BY <2>1, SameHelpers
  <2>3. /\ Pair!KHolds(out, Pair!Incoming(out, y, n))
            <=> PairFacts!KHolds(outF, PairFacts!Incoming(outF, y, n))
        /\ Pair!Update(out) <=> PairFacts!Update(outF)
    BY <1>3, <2>1, <2>2, SameAmounts
  <2>. QED  BY <1>1, <2>1, <2>2, <2>3 DEF Pair!SwapOut, PairFacts!SwapOut
<1>. QED  BY <1>1, <1>2, <1>3, <1>4, <1>5, <1>6

\* A message of Pair is one of PairFacts.
LEMMA SameMessages ==
    /\ \A x, u, n : Pair!deposit(x, u, n) => PairFacts!deposit(x, u, n)
    /\ \A u, n : Pair!withdraw(u, n) => PairFacts!withdraw(u, n)
    /\ \A x, u, n : Pair!swap(x, u, n) => PairFacts!swap(x, u, n)
    /\ \A x, u, n : Pair!CurrenciesTransfer(x, u, n) => PairFacts!CurrenciesTransfer(x, u, n)
    /\ \A u, a : Pair!set_fee_to(u, a) => PairFacts!set_fee_to(u, a)
    /\ \A u : Pair!Message(u) => PairFacts!Message(u)
    /\ Pair!sync => PairFacts!sync
    /\ \A to : Pair!skim(to) => PairFacts!skim(to)
<1>1. \A x, u, n : Pair!deposit(x, u, n) => PairFacts!deposit(x, u, n)
  BY SameEnds, SameLedger, SameAmounts DEF Pair!deposit, PairFacts!deposit
<1>2. \A u, n : Pair!withdraw(u, n) => PairFacts!withdraw(u, n)
  BY SameEnds, SameHelpers DEF Pair!withdraw, PairFacts!withdraw
<1>3. \A x, u, n : Pair!swap(x, u, n) => PairFacts!swap(x, u, n)
  <2>. TAKE x, u, n
  <2>. DEFINE cost  == Pair!GetAmountIn(n, pairReserve[x], pairReserve[Pair!Other(x)])
              paid  == [bal EXCEPT ![x] = Pair!Sent(bal[x], u, PairAccount, cost)]
              costF == PairFacts!GetAmountIn(n, pairReserve[x], pairReserve[PairFacts!Other(x)])
              paidF == [bal EXCEPT ![x] = PairFacts!Sent(bal[x], u, PairAccount, costF)]
  <2>1. Pair!Other(x) = PairFacts!Other(x) /\ cost = costF
    BY SameLedger
  <2>2. paid = paidF
    BY <2>1, SameLedger
  <2>3. Pair!SwapOut(paid, Pair!Other(x), n, u)
            <=> PairFacts!SwapOut(paidF, PairFacts!Other(x), n, u)
    BY <2>1, <2>2, SameEnds
  <2>4. Pair!PositiveReserves(pairReserve[0], pairReserve[1])
            <=> PairFacts!PositiveReserves(pairReserve[0], pairReserve[1])
    BY SameLedger
  <2>. QED  BY <2>1, <2>3, <2>4, SameEnds DEF Pair!swap, PairFacts!swap
<1>4. /\ \A x, u, n : Pair!CurrenciesTransfer(x, u, n) => PairFacts!CurrenciesTransfer(x, u, n)
      /\ \A u, a : Pair!set_fee_to(u, a) => PairFacts!set_fee_to(u, a)
  BY SameLedger, SameAmounts DEF Pair!CurrenciesTransfer,
                                 PairFacts!CurrenciesTransfer, Pair!set_fee_to,
                                 PairFacts!set_fee_to, Pair!pairVars,
                                 PairFacts!pairVars
<1>5. \A u : Pair!Message(u) => PairFacts!Message(u)
  BY <1>1, <1>2, <1>3, <1>4, SameLedger DEF Pair!Message, PairFacts!Message
<1>6. /\ Pair!sync => PairFacts!sync
      /\ \A to : Pair!skim(to) => PairFacts!skim(to)
  BY SameEnds, SameHelpers, SameAmounts DEF Pair!sync, PairFacts!sync, Pair!skim,
                                            PairFacts!skim, Pair!pairVars,
                                            PairFacts!pairVars
<1>. QED  BY <1>1, <1>2, <1>3, <1>4, <1>5, <1>6

\* So are the types, the constructor and what the contract owes.
LEMMA SameState ==
    /\ PairFacts!Assets = Assets
    /\ PairFacts!Ledger = Ledger
    /\ \A f : PairFacts!SumOf(f) = SumOf(f)
    /\ Pair!Init => PairFacts!Init
    /\ PairFacts!ReservesCovered => Pair!ReservesCovered
<1>1. PairFacts!Assets = Assets /\ PairFacts!Ledger = Ledger
  BY DEF PairFacts!Assets, Assets, PairFacts!Ledger, Ledger, PairFacts!Balance, Balance
<1>2. \A f : PairFacts!SumOf(f) = SumOf(f)
  <2>1. \A S : PairFacts!Cardinality(S) = Cardinality(S)
    BY Zenon DEF PairFacts!Cardinality, Cardinality
  <2>2. \A f : PairFacts!Units(f) = Units(f)
    BY DEF PairFacts!Units, Units
  <2>. QED  BY <2>1, <2>2, Zenon DEF PairFacts!SumOf, SumOf
<1>3. Pair!Init => PairFacts!Init
  BY DEF Pair!Init, PairFacts!Init, Pair!Assets, PairFacts!Assets
<1>4. PairFacts!ReservesCovered => Pair!ReservesCovered
  BY SameLedger DEF Pair!ReservesCovered, PairFacts!ReservesCovered
<1>. QED  BY <1>1, <1>2, <1>3, <1>4

-----------------------------------------------------------------------------
(* One call on the chain.                                                  *)

\* A call of the pallet: tokens move between the signer and the pallet's pool only, and
\* the contract is as it was.
LEMMA PalletParties ==
    ASSUME TypeOK, PairFacts!TypeOK, NEW u \in Users, PalletCall(u)
    PROVE  /\ TypeOK' /\ PairFacts!TypeOK'
           /\ \A x \in Assets : Between(bal[x], bal'[x], u, Contract)
<1>1. /\ Extrinsic(u) \/ Sync
      /\ UNCHANGED <<pairReserve, pairTsLast, pairPrice, pairKLast, pairFeeTo, pairSupply,
                     pairLp, pairResult>>
  BY DEF PalletCall, pairVars, pairState
<1>2. Next
  BY <1>1 DEF Next
<1>3. TypeOK'
  BY <1>2, StepTypeOK
<1>4. ASSUME NEW x \in Assets
      PROVE  Between(bal[x], bal'[x], u, Contract)
  <2>1. CASE Sync
    BY <2>1 DEF Sync, Between, TypeOK
  <2>. QED  BY <1>1, <2>1, ExtrinsicParties
<1>5. PairFacts!TypeOK'
  BY <1>1, <1>3, SameState DEF PairFacts!TypeOK, TypeOK
<1>. QED  BY <1>3, <1>4, <1>5

\* A call of the contract: tokens move between its account and one other, and nobody pays
\* but the contract and the signer; the pallet's storage is as it was.
LEMMA PairParties ==
    ASSUME TypeOK, PairFacts!TypeOK, NEW u \in Users, PairCall(u)
    PROVE  /\ TypeOK' /\ PairFacts!TypeOK'
           /\ PairFacts!Next
           /\ \A x \in Assets :
                /\ \E a \in Accounts : Between(bal[x], bal'[x], a, PairAccount)
                /\ \A a \in Accounts \ {u, PairAccount} : bal'[x][a] >= bal[x][a]
<1>1. /\ \/ PairFacts!Message(u) \/ PairFacts!sync
         \/ \E to \in Accounts : PairFacts!skim(to)
      /\ UNCHANGED <<reserve, tsLast, price, totalSupply, lp, kLast, feeTo, result>>
  BY SameMessages DEF PairCall, palletVars, poolVars, shareVars
<1>2. PairFacts!Next
  BY <1>1 DEF PairFacts!Next
<1>3. PairFacts!TypeOK'
  BY <1>2, PairIsAllowed, PairFacts!StepTypeOK
<1>4. bal' \in [Assets -> Ledger] /\ now' \in 0 .. MaxMoment
  BY <1>3, SameState DEF PairFacts!TypeOK
<1>5. TypeOK'
  BY <1>1, <1>4 DEF TypeOK
<1>6. ASSUME NEW x \in Assets
      PROVE  /\ \E a \in Accounts : Between(bal[x], bal'[x], a, PairAccount)
             /\ \A a \in Accounts \ {u, PairAccount} : bal'[x][a] >= bal[x][a]
  <2>1. /\ bal[x] \in Ledger /\ \A a \in Accounts : bal[x][a] \in Nat
        /\ x \in PairFacts!Assets /\ u \in Accounts
    BY SameState, ConfigAssumption DEF TypeOK, Ledger, Balance
  <2>2. \A f, g, a : PairFacts!Between(f, g, a, PairAccount) => Between(f, g, a, PairAccount)
    BY SameState DEF PairFacts!Between, Between
  <2>3. CASE PairFacts!Message(u)
    <3>1. Between(bal[x], bal'[x], u, PairAccount)
      BY <2>1, <2>2, <2>3, PairIsAllowed, PairFacts!MessageParties
    <3>. QED  BY <2>1, <3>1 DEF Between
  <2>4. CASE PairFacts!sync
    <3>1. bal'[x] = bal[x]
      BY <2>4 DEF PairFacts!sync
    <3>. QED  BY <2>1, <3>1 DEF Between
  <2>5. CASE \E to \in Accounts : PairFacts!skim(to)
    <3>1. PICK to \in Accounts : PairFacts!skim(to)
      BY <2>5
    <3>2. /\ PairFacts!Between(bal[x], bal'[x], to, PairAccount)
          /\ \A a \in Accounts \ {PairAccount} : bal'[x][a] >= bal[x][a]
      BY <2>1, <3>1, PairIsAllowed, PairFacts!SkimParties
    <3>. QED  BY <2>2, <3>2
  <2>. QED  BY <1>1, <2>3, <2>4, <2>5
<1>. QED  BY <1>2, <1>3, <1>5, <1>6

\* A call of another contract: tokens move between two accounts, the payer is one of
\* Payers, and both pools are as they were.
LEMMA OtherContractParties ==
    ASSUME TypeOK, PairFacts!TypeOK, OtherContractCall
    PROVE  /\ TypeOK' /\ PairFacts!TypeOK'
           /\ \A x \in Assets :
                /\ SumOf(bal'[x]) = SumOf(bal[x])
                /\ \A a \in Accounts \ Payers : bal'[x][a] >= bal[x][a]
<1>1. UNCHANGED <<reserve, tsLast, price, totalSupply, lp, kLast, feeTo, now, result,
                  pairReserve, pairTsLast, pairPrice, pairKLast, pairFeeTo, pairSupply,
                  pairLp, pairResult>>
  BY DEF OtherContractCall, palletVars, poolVars, shareVars, pairVars, pairState
<1>2. PICK y \in Assets, from \in Payers, to \in Accounts, n \in Amounts :
        \/ CanMove(bal[y], from, to, n) /\ bal' = [bal EXCEPT ![y] = Moved(@, from, to, n)]
        \/ UNCHANGED bal
  BY DEF OtherContractCall
<1>3. from \in Accounts /\ n \in Balance /\ n \in Nat /\ bal \in [Assets -> Ledger]
  BY TestChainAssumption, ConfigAssumption DEF TypeOK, Balance
<1>4. \A x \in Assets : bal[x] \in Ledger /\ \A a \in Accounts : bal[x][a] \in Nat
  BY <1>3 DEF Ledger, Balance
<1>5. CASE UNCHANGED bal
  BY <1>1, <1>4, <1>5 DEF TypeOK, PairFacts!TypeOK
<1>6. CASE /\ CanMove(bal[y], from, to, n)
           /\ bal' = [bal EXCEPT ![y] = Moved(@, from, to, n)]
  <2>1. /\ Moved(bal[y], from, to, n) \in Ledger
        /\ SumOf(Moved(bal[y], from, to, n)) = SumOf(bal[y])
    BY <1>3, <1>4, <1>6, MovedType, MovedSum
  <2>2. ASSUME NEW a \in Accounts \ Payers
        PROVE  Moved(bal[y], from, to, n)[a] >= bal[y][a]
    <3>1. a # from /\ bal[y][a] \in Nat
      BY <1>4
    <3>2. CASE a = to
      <4>1. Moved(bal[y], from, to, n)[to] = bal[y][to] + n
        BY <1>3, <1>4, <1>6, <3>1, <3>2, MovedType
      <4>. QED  BY <1>3, <3>1, <3>2, <4>1
    <3>3. CASE a # to
      <4>1. Moved(bal[y], from, to, n)[a] = bal[y][a]
        BY <1>3, <1>4, <1>6, <3>1, <3>3, MovedType
      <4>. QED  BY <3>1, <4>1
    <3>. QED  BY <3>2, <3>3
  <2>3. /\ bal'[y] = Moved(bal[y], from, to, n)
        /\ \A x \in Assets \ {y} : bal'[x] = bal[x]
        /\ bal' \in [Assets -> Ledger]
    BY <1>3, <1>6, <2>1
  <2>4. TypeOK' /\ PairFacts!TypeOK'
    BY <1>1, <2>3, SameState DEF TypeOK, PairFacts!TypeOK
  <2>. QED  BY <1>4, <2>1, <2>2, <2>3, <2>4
<1>. QED  BY <1>2, <1>5, <1>6

-----------------------------------------------------------------------------
(* The tokens.                                                             *)

\* The timestamp, which grows with every block, is still a value of its type.
ClockFits == now <= MaxMoment

\* The inductive invariant: the storage of both pools is well typed, and calls run as users.
ChainTyped ==
    /\ TypeOK /\ PairFacts!TypeOK
    /\ NodeSound

\* A step of the chain is a call of one of the pools that a user signed, a call of another
\* contract, or leaves both pools and all balances alone.
LEMMA StepCalls ==
    ASSUME ChainTyped, [ChainNext]_chainVars
    PROVE  \/ \E u \in Users : PalletCall(u) \/ PairCall(u)
           \/ OtherContractCall
           \/ /\ UNCHANGED <<bal, palletVars, result, pairVars>>
              /\ now' \in {now, now + MinimumPeriod}
<1>1. CASE UNCHANGED chainVars
  BY <1>1 DEF chainVars, vars, palletVars
<1>2. CASE BeginBlock
  BY <1>2 DEF BeginBlock
<1>3. CASE EndBlock
  BY <1>3 DEF EndBlock, vars, palletVars
<1>4. CASE \E u \in Users, n \in 0 .. MaxNonce : Submit(u, n)
  BY <1>4 DEF Submit, vars, palletVars
<1>5. CASE \E tx \in block \ NotSealing : ApplyExtrinsic(tx)
  <2>1. PICK tx \in block \ NotSealing : ApplyExtrinsic(tx)
    BY <1>5
  <2>2. tx.signer \in Users
    BY <2>1 DEF ChainTyped, NodeSound, Transactions
  <2>3. PalletCall(tx.signer) \/ PairCall(tx.signer) \/ OtherContractCall
    BY <2>1 DEF ApplyExtrinsic, Take, Origin
  <2>. QED  BY <2>2, <2>3
<1>. QED  BY <1>1, <1>2, <1>3, <1>4, <1>5 DEF ChainNext, Author

LEMMA StepTyped ==
    ASSUME ChainTyped, ClockFits', [ChainNext]_chainVars
    PROVE  ChainTyped' /\ \A x \in Assets : SumOf(bal'[x]) = SumOf(bal[x])
<1>1. NodeSound'
  BY NodeStep DEF ChainTyped
<1>2. CASE \E u \in Users : PalletCall(u) \/ PairCall(u)
  BY <1>1, <1>2, PalletParties, PairParties DEF ChainTyped, Between
<1>3. CASE OtherContractCall
  BY <1>1, <1>3, OtherContractParties DEF ChainTyped
<1>4. CASE /\ UNCHANGED <<bal, palletVars, result, pairVars>>
           /\ now' \in {now, now + MinimumPeriod}
  <2>1. now' \in 0 .. MaxMoment
    BY <1>4, TestChainAssumption, ConfigAssumption DEF ChainTyped, TypeOK, ClockFits
  <2>2. UNCHANGED <<bal, reserve, tsLast, price, totalSupply, lp, kLast, feeTo, result,
                    pairReserve, pairTsLast, pairPrice, pairKLast, pairFeeTo, pairSupply,
                    pairLp, pairResult>>
    BY <1>4 DEF palletVars, poolVars, shareVars, pairVars, pairState
  <2>3. TypeOK'
    BY <2>1, <2>2 DEF ChainTyped, TypeOK
  <2>4. PairFacts!TypeOK'
    BY <2>1, <2>2 DEF ChainTyped, PairFacts!TypeOK
  <2>. QED  BY <1>1, <2>2, <2>3, <2>4 DEF ChainTyped
<1>. QED  BY <1>2, <1>3, <1>4, StepCalls

LEMMA InitTyped ==
    ASSUME ChainInit
    PROVE  ChainTyped /\ bal = Genesis
<1>1. TypeOK /\ bal = Genesis
  BY InitTypeOK DEF ChainInit, Init
<1>2. PairFacts!TypeOK
  BY SameState, PairIsAllowed, PairFacts!InitTypeOK DEF ChainInit
<1>3. NodeSound
  BY DEF ChainInit, NodeSound, ReadyIn
<1>. QED  BY <1>1, <1>2, <1>3 DEF ChainTyped

LEMMA AlwaysTyped == ChainSpec /\ []ClockFits => []ChainTyped
<1>1. ChainTyped /\ ClockFits' /\ [ChainNext]_chainVars => ChainTyped'
  BY StepTyped
<1>. QED  BY <1>1, InitTyped, PTL DEF ChainSpec

\* Whatever users call, on either pool and in any order, no token is made or lost: also
\* where a pool pays itself, a transfer fails, or the contract ignores that it failed, and
\* whoever's tokens other contracts transfer.
THEOREM TokensAddUp ==
    ASSUME Genesis = testnet_genesis
    PROVE  ChainSpec /\ []ClockFits => []TokensConserved
<1>1. ChainInit => TokensConserved
  BY InitTyped DEF TokensConserved
<1>2. TokensConserved /\ ChainTyped /\ ClockFits' /\ [ChainNext]_chainVars => TokensConserved'
  BY StepTyped DEF TokensConserved, testnet_genesis
<1>. QED  BY <1>1, <1>2, AlwaysTyped, PTL DEF ChainSpec

-----------------------------------------------------------------------------
(* The reserves.                                                           *)

\* The inductive invariant of both pools together.
ChainSound ==
    /\ ChainTyped
    /\ Sound
    /\ PairFacts!ReservesCovered /\ PairFacts!SupplyHasReserves

\* No other contract names the account of a pool as the payer.  The chain extension asks
\* nobody's consent, so this is a condition on the contracts that are deployed.
PoolsUnnamed == {Contract, PairAccount} \cap Payers = {}

\* A step that moves tokens without taking any from the pallet's pool, and leaves its
\* storage alone, keeps its invariant.
LEMMA DonationKeepsSound ==
    ASSUME Sound, TypeOK', UNCHANGED palletVars,
           \A x \in Assets :
                SumOf(bal'[x]) = SumOf(bal[x]) /\ bal'[x][Contract] >= bal[x][Contract]
    PROVE  Sound'
<1>1. UNCHANGED <<reserve, totalSupply, lp>>
  BY DEF palletVars, poolVars, shareVars
<1>2. Contract \in Accounts
  BY ConfigAssumption
<1>3. ASSUME NEW x \in Assets
      PROVE  reserve'[x] <= bal'[x][Contract]
  <2>1. reserve[x] \in Nat /\ bal[x][Contract] \in Nat /\ bal'[x][Contract] \in Nat
    BY <1>2 DEF Sound, TypeOK, Ledger, Balance
  <2>. QED  BY <1>1, <2>1 DEF Sound, ReservesCovered
<1>4. SharesConserved' /\ MinLiquidityLocked'
  BY <1>1 DEF Sound, SharesConserved, MinLiquidityLocked
<1>5. IssuanceKept'
  BY DEF Sound, IssuanceKept
<1>. QED  BY <1>3, <1>4, <1>5 DEF Sound, ReservesCovered

\* A call of the contract takes nothing from the pallet's pool.
LEMMA PairLeavesPallet ==
    ASSUME ChainTyped, Sound, NEW u \in Users, PairCall(u)
    PROVE  Sound'
<1>1. /\ TypeOK' /\ Contract \in Accounts \ {u, PairAccount}
      /\ \A x \in Assets :
            SumOf(bal'[x]) = SumOf(bal[x]) /\ bal'[x][Contract] >= bal[x][Contract]
  BY PairParties, ConfigAssumption, TestChainAssumption DEF ChainTyped, Between
<1>2. UNCHANGED palletVars
  BY DEF PairCall
<1>. QED  BY <1>1, <1>2, DonationKeepsSound

\* And a call of the pallet nothing from the contract.
LEMMA PalletLeavesPair ==
    ASSUME ChainSound, NEW u \in Users, PalletCall(u)
    PROVE  PairFacts!ReservesCovered' /\ PairFacts!SupplyHasReserves'
<1>1. UNCHANGED <<pairReserve, pairSupply>>
  BY DEF PalletCall, pairVars, pairState
<1>2. \A x \in Assets : bal'[x][PairAccount] = bal[x][PairAccount]
  BY PalletParties, TestChainAssumption DEF ChainSound, ChainTyped, Between
<1>3. PairFacts!ReservesCovered'
  BY <1>1, <1>2, SameState DEF ChainSound, PairFacts!ReservesCovered
<1>4. PairFacts!SupplyHasReserves'
  BY <1>1 DEF ChainSound, PairFacts!SupplyHasReserves, PairFacts!PositiveReserves
<1>. QED  BY <1>3, <1>4

\* Nor does a call of another contract take from either, if no contract names them.
LEMMA OthersLeaveBoth ==
    ASSUME PoolsUnnamed, ChainSound, OtherContractCall
    PROVE  Sound' /\ PairFacts!ReservesCovered' /\ PairFacts!SupplyHasReserves'
<1>1. /\ Contract \in Accounts \ Payers /\ PairAccount \in Accounts \ Payers
      /\ TypeOK /\ PairFacts!TypeOK
  BY ConfigAssumption, TestChainAssumption DEF PoolsUnnamed, ChainSound, ChainTyped
<1>2. /\ TypeOK'
      /\ \A x \in Assets : /\ SumOf(bal'[x]) = SumOf(bal[x])
                           /\ bal'[x][Contract] >= bal[x][Contract]
                           /\ bal'[x][PairAccount] >= bal[x][PairAccount]
  BY <1>1, OtherContractParties
<1>3. UNCHANGED palletVars /\ UNCHANGED <<pairReserve, pairSupply>>
  BY DEF OtherContractCall, pairVars, pairState
<1>4. Sound'
  BY <1>2, <1>3, DonationKeepsSound DEF ChainSound
<1>5. ASSUME NEW x \in PairFacts!Assets
      PROVE  pairReserve'[x] <= bal'[x][PairAccount]
  <2>1. /\ x \in Assets /\ pairReserve[x] \in Nat /\ bal[x][PairAccount] \in Nat
        /\ bal'[x][PairAccount] \in Nat
    BY <1>1, <1>2, SameState
       DEF TypeOK, Ledger, Balance, PairFacts!TypeOK, PairFacts!Balance
  <2>. QED  BY <1>2, <1>3, <2>1 DEF ChainSound, PairFacts!ReservesCovered
<1>6. PairFacts!SupplyHasReserves'
  BY <1>3 DEF ChainSound, PairFacts!SupplyHasReserves, PairFacts!PositiveReserves
<1>. QED  BY <1>4, <1>5, <1>6 DEF PairFacts!ReservesCovered

LEMMA StepBothSound ==
    ASSUME IssuanceFits, PoolsUnnamed, ChainSound, ClockFits', SupplyFits, totalSupply' < MaxBalance,
           [ChainNext]_chainVars
    PROVE  ChainSound'
<1>1. ChainTyped'
  BY StepTyped DEF ChainSound
<1>2. CASE \E u \in Users : PalletCall(u)
  <2>1. PICK u \in Users : PalletCall(u)
    BY <1>2
  <2>2. Next
    BY <2>1 DEF PalletCall, Next
  <2>3. Sound'
    BY <2>2, StepSound DEF ChainSound
  <2>. QED  BY <1>1, <2>1, <2>3, PalletLeavesPair DEF ChainSound
<1>3. CASE \E u \in Users : PairCall(u)
  <2>1. PICK u \in Users : PairCall(u)
    BY <1>3
  <2>2. Sound'
    BY <2>1, PairLeavesPallet DEF ChainSound
  <2>3. PairFacts!Next /\ PairFacts!TypeOK'
    BY <2>1, PairParties DEF ChainSound, ChainTyped
  <2>4. PairFacts!ReservesCovered' /\ PairFacts!SupplyHasReserves'
    BY <2>3, PairIsAllowed, PairFacts!StepCovers DEF ChainSound, ChainTyped
  <2>. QED  BY <1>1, <2>2, <2>4 DEF ChainSound
<1>4. CASE UNCHANGED <<bal, palletVars, result, pairVars>>
  <2>1. UNCHANGED <<bal, reserve, totalSupply, lp, pairReserve, pairSupply>>
    BY <1>4 DEF palletVars, poolVars, shareVars, pairVars, pairState
  <2>2. Sound'
    BY <1>1, <2>1 DEF ChainSound, ChainTyped, Sound, SharesConserved, MinLiquidityLocked,
                      ReservesCovered, IssuanceKept
  <2>3. PairFacts!ReservesCovered' /\ PairFacts!SupplyHasReserves'
    BY <2>1 DEF ChainSound, PairFacts!ReservesCovered, PairFacts!SupplyHasReserves,
                PairFacts!PositiveReserves
  <2>. QED  BY <1>1, <2>2, <2>3 DEF ChainSound
<1>5. CASE OtherContractCall
  BY <1>1, <1>5, OthersLeaveBoth DEF ChainSound
<1>. QED  BY <1>2, <1>3, <1>4, <1>5, StepCalls DEF ChainSound

\* Both pools stay solvent on the shared ledger, for any number of users and any width of
\* the type: what anybody does to one pool never leaves the other short of its reserves.
\* Nor do the transfers of other contracts, as long as none names a pool as the payer.
THEOREM BothPoolsSolvent ==
    ASSUME IssuanceFits, PoolsUnnamed
    PROVE  ChainSpec /\ []ClockFits /\ []SupplyFits => []PoolsSolvent
<1>1. ChainInit => ChainSound
  <2>. SUFFICES ASSUME ChainInit PROVE ChainSound
    OBVIOUS
  <2>1. Sound
    BY InitSound DEF ChainInit
  <2>2. PairFacts!Init
    BY SameState DEF ChainInit
  <2>3. PairFacts!ReservesCovered /\ PairFacts!SupplyHasReserves
    <3>1. ASSUME NEW x \in PairFacts!Assets
          PROVE  pairReserve[x] <= bal[x][PairAccount]
      <4>1. bal[x][PairAccount] \in Nat /\ pairReserve[x] = 0
        BY <2>1, <2>2, SameState, TestChainAssumption
           DEF Sound, TypeOK, Ledger, Balance, PairFacts!Init
      <4>. QED  BY <4>1
    <3>. QED  BY <2>2, <3>1 DEF PairFacts!Init, PairFacts!ReservesCovered,
                                PairFacts!SupplyHasReserves
  <2>. QED  BY <2>1, <2>3, InitTyped DEF ChainSound
<1>2. ChainSound /\ ClockFits' /\ SupplyFits /\ SupplyFits' /\ [ChainNext]_chainVars
        => ChainSound'
  BY StepBothSound DEF SupplyFits
<1>3. ChainSound => PoolsSolvent
  BY SameState DEF ChainSound, Sound, PoolsSolvent
<1>. QED  BY <1>1, <1>2, <1>3, PTL DEF ChainSpec
=============================================================================
