\* Both pools on one ledger, and up to two transactions of each user, for calls that come
\* to swaps as well.  Other contracts may transfer the tokens of bob.
CONSTANTS
    MaxBalance = 2147483647
    MaxMoment = 4
    Accounts = {alice, bob, pool, pair, zero}
    Users = {alice, bob}
    Contract = pool
    PairAccount = pair
    Zero = zero
    FeeToSetter = alice
    NoAccount = NoAccount
    Genesis <- testnet_genesis
    Endowment = 21
    Amounts = {4}
    FeeRecipients = {}
    MinimumLiquidity = 2
    MintFee = 5
    BaseFee = 3
    Payers = {bob}
    MinimumPeriod = 1
    MaxNonce = 1
SPECIFICATION MCSpec
VIEW WithoutResult
INVARIANTS
    NoneStranded
    TokensConserved
    PoolsSolvent
PROPERTIES
    ReadyIsExecuted
