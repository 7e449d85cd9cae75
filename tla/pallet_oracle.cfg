\* A narrow balance type and a skewed pool: the cumulative price wraps around.
CONSTANTS
    MaxBalance = 1000000
    MaxMoment = 3
    Accounts = {alice, pool, zero}
    Users = {alice}
    alice = alice
    Contract = pool
    Zero = zero
    FeeToSetter = alice
    NoAccount = NoAccount
    Genesis <- MCGenesis
    AliceTokens = 700000
    Amounts = {1, 600000}
    FeeRecipients = {}
    MinimumLiquidity = 2
    MintFee = 5
    BaseFee = 3
    MaxCalls = 7
SPECIFICATION MCSpec
VIEW WithoutResult
INVARIANT OracleExact
