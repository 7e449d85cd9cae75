\* The pool without saturation: every product stays below MaxBalance.
CONSTANTS
    MaxBalance = 2147483647
    MaxMoment = 0
    Accounts = {alice, bob, pool, zero}
    Users = {alice, bob}
    alice = alice
    bob = bob
    Contract = pool
    Zero = zero
    FeeToSetter = alice
    NoAccount = NoAccount
    Genesis <- MCGenesis
    AliceTokens = 30
    BobTokens = 15
    Amounts = {0, 1, 10}
    FeeRecipients = {pool, bob}
    MinimumLiquidity = 2
    MintFee = 5
    BaseFee = 3
    MaxCalls = 6
SPECIFICATION MCSpec
VIEW WithoutResult
INVARIANTS
    TypeOK
    KLastOnlyWithFee
    MinLiquidityLocked
    SharesConserved
    ReservesCovered
PROPERTY
    FailedCallCostsNothing
    ImplementsPool
