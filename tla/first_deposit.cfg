\* A first deposit that is too small, and the ones after it.
CONSTANTS
    MaxBalance = 2147483647
    MaxMoment = 0
    Accounts = {alice, bob, pool, zero}
    Users = {alice}
    alice = alice
    bob = bob
    Contract = pool
    Zero = zero
    FeeToSetter = alice
    NoAccount = NoAccount
    Genesis <- MCGenesis
    AliceTokens = 30
    BobTokens = 15
    Amounts = {1, 10}
    FeeRecipients = {bob}
    MinimumLiquidity = 1
    MintFee = 5
    BaseFee = 3
    MaxCalls = 3
SPECIFICATION MCSpec
VIEW WithoutResult
PROPERTY InitialDepositOpensPool
