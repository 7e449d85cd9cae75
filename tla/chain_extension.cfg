\* Codes of at most 1 and at most 2 characters instead of 4 and 12; "A", "B" and "-".
CONSTANTS
    MaxBalance = 1000000
    Accounts = {alice, pair, other}
    Contracts = {pair, other}
    Bytes4 = 1
    Bytes12 = 2
    Characters = {65, 66, 45}
    Alphanumeric = {65, 66}
    AssetIssuer = {i1, i2}
    Amounts = {1, 2}
    Endowment = 2
    NoAsset = NoAsset
SPECIFICATION Spec
INVARIANTS
    TradesNamedCurrency
    CodeReadsBack
PROPERTY
    NoSharedLedger
