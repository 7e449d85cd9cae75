\* The contract without saturation: every product stays below MaxBalance.
CONSTANTS
    MaxBalance = 2147483647
    MaxTimestamp = 1
    Accounts = {alice, bob, pool, zero}
    Users = {alice, bob}
    alice = alice
    bob = bob
    Contract = pool
    Zero = zero
    FeeToSetter = alice
    NoAccount = NoAccount
    Genesis <- MCGenesis
    AliceTokens = 30
    BobTokens = 15
    Amounts = {0, 1, 10}
    FeeRecipients = {bob}
    MINIMUM_LIQUIDITY = 2
    MaxCalls = 5
SPECIFICATION MCSpec
VIEW WithoutResult
INVARIANTS
    TypeOK
    SharesConserved
    ReservesCovered
    SupplyHasReserves
    NoStrandedShares
PROPERTIES
    ImplementsPallet
    ImplementsPool
    ShareValueNeverDrops
    ProviderCanLeave
