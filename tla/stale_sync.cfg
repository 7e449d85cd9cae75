\* What the last Sync event tells after a first deposit and a second call.
CONSTANTS
    MaxBalance = 2147483647
    MaxMoment = 0
    Accounts = {alice, bob, pool, zero}
    Users = {alice}
    alice = alice
    bob = bob
    Contract = pool
    Zero = zero
    FeeToSetter = alice
    NoAccount = NoAccount
    Genesis <- MCGenesis
    AliceTokens = 30
    BobTokens = 15
    Amounts = {1, 10}
    FeeRecipients = {bob}
    MinimumLiquidity = 2
    MintFee = 5
    BaseFee = 3
    MaxCalls = 3
SPECIFICATION MCSpec
INVARIANT SyncTellsReserves
