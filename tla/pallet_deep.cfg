\* The pool without saturation, one user, longer behaviours.
CONSTANTS
    MaxBalance = 2147483647
    MaxMoment = 1
    Accounts = {alice, bob, pool, zero}
    Users = {alice}
    alice = alice
    bob = bob
    Contract = pool
    Zero = zero
    FeeToSetter = alice
    NoAccount = NoAccount
    Genesis <- MCGenesis
    AliceTokens = 30
    BobTokens = 15
    Amounts = {1, 10}
    FeeRecipients = {pool, bob}
    MinimumLiquidity = 2
    MintFee = 5
    BaseFee = 3
    MaxCalls = 7
SPECIFICATION MCSpec
VIEW WithoutResult
INVARIANTS
    ObserverAgrees
    FlowsCovered
PROPERTIES
    ShareValueNeverDrops
    NeverDrained
    ImplementsPool
    ProviderCanLeave
