\* What kLast holds after deposits and withdrawals with the fee on.
CONSTANTS
    MaxBalance = 2147483647
    MaxMoment = 0
    Accounts = {alice, bob, pool, zero}
    Users = {alice}
    alice = alice
    bob = bob
    Contract = pool
    Zero = zero
    FeeToSetter = alice
    NoAccount = NoAccount
    Genesis <- MCGenesis
    AliceTokens = 30
    BobTokens = 15
    Amounts = {1, 10}
    FeeRecipients = {bob}
    MinimumLiquidity = 2
    MintFee = 5
    BaseFee = 3
    MaxCalls = 4
SPECIFICATION MCSpec
VIEW WithoutResult
PROPERTY KLastIsCurrent
