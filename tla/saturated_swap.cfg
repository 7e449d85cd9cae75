\* Products of the reserves beyond the width of the balance type.
CONSTANTS
    MaxBalance = 1000000
    MaxMoment = 0
    Accounts = {alice, bob, pool, zero}
    Users = {alice}
    alice = alice
    bob = bob
    Contract = pool
    Zero = zero
    FeeToSetter = alice
    NoAccount = NoAccount
    Genesis <- MCGenesis
    AliceTokens = 200
    BobTokens = 0
    Amounts = {30, 40}
    FeeRecipients = {bob}
    MinimumLiquidity = 2
    MintFee = 5
    BaseFee = 3
    MaxCalls = 3
SPECIFICATION MCSpec
VIEW WithoutResult
PROPERTY SwapKeepsK
