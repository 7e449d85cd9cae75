# TLA+ models of the Pendulum AMM

The repository implements one automated market maker, after Uniswap V2, twice: as a
Substrate pallet (`pallet/`) and as an ink! smart contract (`smart_contract/`).  A test
chain (`testchain/`) runs both.  This directory holds TLA+ models of the two
implementations, configurations for TLC, and proofs for TLAPS.

## 1. Inventory of the system

| Part | Source | State | Operations |
|---|---|---|---|
| AMM pallet | `pallet/src/lib.rs`, `helper.rs` | `Reserves` (two reserves, last timestamp), cumulative prices, `KLast`, `FeeTo`, `TotalSupply`, `LpBalances`; fixed at genesis: `PalletAccountId`, `AddressZero`, `FeeToSetter` | `set_fee_to`, `skim`, `sync`, `deposit_asset_1/2`, `withdraw`, `swap_asset_1_for_asset_2`, `swap_asset_2_for_asset_1` |
| AMM arithmetic | `helper.rs`, contract `lib.rs` | none | `quote`, `get_amount_in`, `get_amount_out`, share and fee formulas, `overflowing_add/sub` |
| Price oracle | `_update` in `helper.rs` | cumulative prices | advanced by every call that ends in `_update` |
| Token ledger | runtime `Extension`, orml-tokens | balance per asset and account | `fetch_balance`, `transfer_balance` |
| AMM contract | `smart_contract/src/lib.rs` | the fields of `Pair` (as the pallet) | the same messages, `skim` with a recipient |
| Stellar keys, asset codes | contract `lib.rs`, `util`, `base32`, `key_encoding` | none | decoded once, in the constructor; encoded by `issuer_1/2`, `asset_1/2` |
| Chain extension, `CurrencyId` | `testchain/runtime/src/lib.rs` | none | func ids 1101 and 1102, `try_from` |
| Events of the pallet | `Event` in `lib.rs`, `deposit_event` in `helper.rs` | the event log | `Transfer`, `Mint`, `Burn`, `Swap`, `Sync` |
| Test chain | `testchain/node/src/service.rs`, `chain_spec.rs`, runtime `lib.rs` | genesis, nonces, transaction pool, the block in the making | submit, begin a block, apply a transaction, end a block |
| Weights, benchmarks, networking, RPC, command line | `pallet/src/weights.rs`, `benchmarking.rs`, `testchain/node/` | - | no logic of the AMM |

How the parts interact.  Users sign extrinsics of the pallet or call messages of the
contract.  Both move tokens through the ledger: the pallet through `AmmExtension`, the
contract through the chain extension, whose answer it ignores.  The ledger is shared
with the rest of the chain: anybody can send tokens to the pool account with a plain
transfer, and anybody can deploy a contract, which the chain extension lets name the payer
of a transfer; the AMM learns of either only from the balance.  Extrinsics and messages run
one at a time, so there is no preemption inside one.  On the test chain they come out of
the node's transaction pool: a transaction is ready when its predecessors by nonce are
there, a ready one that is imported notifies the authoring task, and the task makes a
block of everything that is ready.

What is hard here.

* **Failure half way.**  The pallet is built on `polkadot-v0.9.18`, where an extrinsic
  that returns `Err` keeps the storage writes it made before (no call is marked
  `#[transactional]`).  Deposits, withdrawals and swaps make several transfers and
  writes before their last check.  A message of the contract, in contrast, is rolled
  back when it returns `Err` or traps.
* **Order.**  `_swap` pays out before it checks; `mint` and `burn` read the reserves
  before `_update` and use them after it; the fee is minted in the middle of `burn`.
* **Numbers.**  Every operation saturates, wraps or yields zero on a zero divisor, and
  each of these can hide a wrong result from the checks that follow.
* **Waiting.**  Instant seal makes blocks on notifications only; a transaction that was
  left out of a block without a notification to come would wait for a stranger's.
* **Two pools, one ledger.**  Calls of the pallet and of the contract are mixed in a block
  and move the same balances; `skim` of the contract can pay either pool's account, and
  other contracts move balances in between.
* **Long legal sequences.**  Donations, `skim`, `sync`, fees and roundings combine.

`PROJECT.json` lists these hazards line by line with the properties that watch them.

## 2. Modules

| Module | Models | Extends |
|---|---|---|
| `AmmMath` | the arithmetic, with the largest balance `MaxBalance` as a parameter | |
| `TokenLedger` | the ledger as the AMM sees it: a transfer, two transfers in a row, the sum of a ledger | `AmmMath` |
| `AmmPallet` | the pallet, one action per extrinsic | `TokenLedger` |
| `AmmOracle` | the pallet with history variables for the oracle | `AmmPallet` |
| `AmmEvents` | the pallet with the events of every call and a reader of them | `AmmPallet` |
| `AmmContract` | the contract, one action per message, and its refinement mapping to `AmmPallet` | `TokenLedger`, instance of `AmmPallet` |
| `LiquidityPool` | the abstract specification: what a pool promises the owners of its shares | |
| `TestChain` | pallet and contract on one ledger, behind the transaction pool and instant seal | `AmmPallet`, instance of `AmmContract` |
| `StellarKey` | the texts of issuers: base32, checksum, version byte, and the caller who types them | |
| `ChainExtension` | asset codes, `CurrencyId`, the calls 1101 and 1102, several contracts on one ledger | `TokenLedger` |
| `MCPallet`, `MCOracle`, `MCEvents`, `MCContract`, `MCChain` | instances for TLC: genesis balances and a call budget | |
| `TokenLedgerProofs` | lemmas about the arithmetic, transfers and the sum of a ledger | `TokenLedger` |
| `AmmPalletProofs` | theorems about the pallet: at every width; while nothing saturates | `AmmPallet`, `TokenLedgerProofs` |
| `AmmHistoryProofs` | theorems about the oracle and the events | `AmmOracle`, `AmmEvents`, `AmmPalletProofs` |
| `AmmContractProofs`, `AmmContractSafety` | theorems about the contract: at every width; while nothing saturates | `AmmContract`, `TokenLedgerProofs` |
| `TestChainProofs` | theorems about the chain with both pools | `TestChain`, `AmmPalletProofs`, instance of `AmmContractProofs` |
| `ChainExtensionProofs` | theorems about asset codes and currencies | `ChainExtension` |
| `StellarKeyProofs` | theorems about base32, the checksum and the issuers that are accepted | `StellarKey` |

### State and actions of `AmmPallet`

`bal[x][a]` is the ledger, `reserve`/`tsLast` are `Reserves`, `price` the cumulative
prices, `kLast`, `feeTo`, `totalSupply`, `lp` the storage items of those names, `now`
the chain's timestamp, and `result` what the last extrinsic returned.  `result` is read
by no action; properties use it.

Assets are 0 and 1 (`asset_1` and `asset_2` of the user-facing names), and the pairs of
mirrored extrinsics are one action with the asset as a parameter: `Deposit(x, u, n)`
and `Swap(x, u, n)`.  The helpers keep their names: `Mint`, `Burn`, `SwapOut` (`_swap`),
`Update` (`_update`), `Credit` (`_mint`), `TransferLiquidity`; `_mint_fee` is the group
`FeeShares`, `SupplyWithFee`, `LpWithFee`, `KLastAfterFee`.

An action has one disjunct per way the call can end, with exactly the writes made until
then.  A `Deposit` whose `mint` fails, for instance, keeps the transfers, the protocol
fee and the locked minimum, and leaves `reserve` alone.

Two actions stand for the rest of the chain: `CurrenciesTransfer` (a donation to the
pool account) and `Tick` (time between blocks).

### Differences of `AmmContract`

A failed message changes nothing (`Revert`).  A division by zero traps: in `mint` if
there is a supply without reserves, in `get_amount_in` if the whole reserve is asked
for.  `transfer_tokens` checks the sender's balance and ignores the answer of the chain
extension (`Sent`).  The fee multipliers 5 and 3 and the minimum liquidity are literals.
`skim` takes any recipient, from any caller.

### `LiquidityPool`, the abstract specification

It keeps reserves, supply, shares and the fee recipient and says nothing of prices, time,
tokens or roundings.  The bounds are exact: `Open` issues at most the geometric mean of the
first deposit, `Provide` at most the part of the shares that the deposit is of *each*
reserve, `Redeem` leaves each reserve at least the part of the shares that remain, `Trade`
(swaps and `sync`) never lowers the product of the reserves, and a protocol fee is at most
one part in `MintFee` of the supply.  The new share table is given in full, so nobody but
the caller and the pool account ever loses a share.  `Strand` and `Lock` are what a failed
call may leave behind; they are there for the pallet only (`Transactional` is `FALSE`).
Both implementations are checked against it under the refinement mapping `supply <-
totalSupply`, `shares <- lp` (`ImplementsPool`).

### `AmmEvents`

The `Transfer` events of a call are at most three, in a fixed order: `MintTransfers` (fee,
locked minimum, new shares) and `BurnTransfers` (shares to the pool account, fee, shares
burnt), with the same formulas as the writes and only those that the call came to.  Events
are storage writes, so those of a call that fails stay.  A call that succeeds also deposits
`Sync`, which `_update` fills with the reserves it was *called* with (`SyncEvent`), and then
`Mint`, `Burn` or `Swap` with the amounts that came in and went out.

The history variables are what a reader of the log believes: `seenShares` replays the
`Transfer` events, `seenSync` is the last `Sync`, `seenReserve` the last `Sync` with the
amounts of the event after it, and `seenFlow` adds up all the amounts.

### `TestChain`

`pending` is the pool, `notified` counts the import notifications the authoring task has
not read, `block` holds what is left of the block in the making (`NotSealing` if none is),
and `nonce` is `frame_system`'s.  `Submit` models `validate_transaction` and the import:
only a transaction that is ready on arrival is notified, the later ones of its signer that
it makes ready are not.  `BeginBlock` reads one notification; it takes a snapshot of what
is ready and sets the timestamp, or does nothing if nothing is ready.  `ApplyExtrinsic`
uses up the nonce and executes a call of the pallet or of the contract, which may fail;
`EndBlock` closes the block.  The actions of the AMM are those of `AmmPallet` and
`AmmContract` (an `INSTANCE` whose variables start with `pair`), both with the one `bal`;
`pairResult` is what the last message returned.

`OtherContractCall` is a transaction that calls a contract other than the Pair.  Of such a
contract only the transfers matter here.  Func id 1102 takes the payer from the contract's
input and compares it neither with the contract nor with its caller, so a contract can move
the tokens of any account it names; which accounts contracts do name is the constant
`Payers`.  What 1102 answers is the contract's own business, and a contract that makes
several transfers in one call is several steps for the ledger.  A contract that calls the
Pair is a user of it like any other.

What a transaction calls is chosen when it is executed; nothing in the pool depends on it.
Transactions are removed from the pool and nonces advance call by call, while the node does
both when the block is imported: a transaction that arrives in between is treated alike,
since a nonce that is in the block is refused either way and its successors are ready
either way.  A block has room for everything that is ready, accounts can pay the fees, and
the clock advances by the least period (`AmmOracle` looks at other gaps).  The transaction
pool and the sealing task are Substrate's and are modelled from how `new_full` uses them.

### `StellarKey` and `ChainExtension`

The constructor of the contract reads a code and an issuer for each of its assets and
treats both assets alike; the two modules model it for one asset, `StellarKey` for the
issuer and `ChainExtension` for the code.

`StellarKey` keeps the loops of `base32::encode`, `base32::decode` and `crc` as recursive
functions that give the state of the loop (`shift`, `carry`) after each round, with
eight-bit bytes, `|` and `^` bit by bit, and shifts that lose what leaves a byte.  Its actions are the slips of
a caller (a wrong, missing, additional or transposed character, a text cut off, a seed in
place of a key) and `DecodeIssuer`, the call in the constructor.  `Verdict` lists the checks
of `decode_stellar_key` in their order.

In `ChainExtension` a code is a sequence of characters that `asset_from_string` pads with
zeros and the chain extension trims again; the lengths 4 and 12 are parameters.
`TransferTokens` is the contract's `transfer_tokens`, with 1101 and then 1102, between any
two accounts: that the contract itself is one of them is the Pair's habit, and 1102 does not
ask for it.  Issuers are abstract there.

### Assumptions

* Nobody signs for the pool account or the zero account, although `chain_spec.rs` derives
  both from development seeds; at genesis all three accounts are configured, so no
  `unwrap()` panics.
* The root account does not use `Currencies::update_balance` or other privileged calls.
* The two assets differ, neither is the chain's native currency, the existential
  deposit is zero and nothing is locked or reserved, as on the test chain.
* The contract of `TestChain` has been instantiated by the account that also sets the
  pallet's fee recipient, and trades the pallet's two assets (`ChainExtension` shows that
  the same code and issuer name the same currency).
* No contract names the account of a pool as the payer of a transfer, other than the Pair its
  own.  Nothing in the runtime enforces this, since 1102 does not ask for the payer's
  consent (`runtime/src/lib.rs:529-556`) and anybody may deploy a contract: it is an
  assumption about the contracts on the chain.  `AmmPallet` and `AmmContract` make it
  tacitly, since nothing else there takes tokens from the pool.  In `TestChain` it is a condition
  (`PoolsUnnamed`) of `PoolsSolvent` only; the other properties hold whoever is named.  That
  a user's tokens move in the user's own transactions only is *not* claimed, for the same
  reason: the chain does not have this property.
* In `ChainExtension` the genesis endows users with every currency a contract can name.
* Weights and transaction fees are left out; so are the contract's events, which are those
  of the pallet less the ones of rolled back messages.

## 3. What TLC checks

In the pool runs a behaviour has at most `MaxCalls` calls and blocks (`calls` in the MC modules).  The
`VIEW` drops `result`, which no action reads.

| Run | Instance | Shows |
|---|---|---|
| `pallet_pool` | two users, fee recipient another user or the pool account, amounts 0, 1 and 10, 6 calls | `TypeOK`, `KLastOnlyWithFee`, `MinLiquidityLocked`, `SharesConserved`, `ReservesCovered`, `FailedCallCostsNothing`, `ImplementsPool` |
| `pallet_deep` | one user, fee recipient another account or the pool account, amounts 1 and 10, 7 calls and blocks, with events | `ShareValueNeverDrops`, `NeverDrained`, `ImplementsPool`, `ProviderCanLeave`, `ObserverAgrees`, `FlowsCovered` |
| `pallet_oracle` | a type with 10^6 as its largest value, a pool that can be skewed by 600000 to 1, 7 calls and blocks | `OracleExact` |
| `contract_pool` | two users, amounts 0, 1 and 10, 5 messages | the contract's invariants, `ImplementsPallet`, `ImplementsPool`, `ShareValueNeverDrops`, `ProviderCanLeave` |
| `test_chain` | both pools, two users with two transactions each, submitted in any order, at any time, and for any call; other contracts that name one of the users as the payer | `NoneStranded`, `ReadyIsExecuted`, `TokensConserved`, `PoolsSolvent` |
| `stellar_key` | keys of two bytes out of 0, 1, 90 and 255, public keys and seeds, every single slip | `EveryKeyAccepted`, `IssuerIsTheOneMeant`, `IssuerReadsBack`, `Base32IsGroupsOfFive` |
| `chain_extension` | two contracts, codes of up to three characters with widths 1 and 2, two issuers | `TradesNamedCurrency`, `CodeReadsBack`, `NoSharedLedger` |

What the properties say:

* `SharesConserved`: the accounts' shares add up to the supply, after failed calls too.
* `MinLiquidityLocked`: the minimum liquidity stays with the zero account.
* `KLastOnlyWithFee`: `KLast` is zero before the first `set_fee_to`, so no fee is charged for
  the growth until then.  `FeeTo` is never `None` again, since `set_fee_to` stores `Some`: the
  fee cannot be switched off, and the reset at `helper.rs:312` never meets a `KLast` that
  is not zero.
* `ReservesCovered`: the pool account owns what the pool accounts for.
* `FailedCallCostsNothing`: a call that fails never leaves the pool with fewer tokens,
  although payouts come before checks and nothing is rolled back.
* `ShareValueNeverDrops`: what a share stands for, the product of the reserves over the
  square of the supply, never falls, other than by the shares issued as protocol fee.  A
  fee that is due is allowed for in every step, whether the step issues it or not; that a
  swap or `sync` that issues none never lowers the product is `ImplementsPool` (`Trade`).
* `NeverDrained`: a reserve that was filled is never empty again.
* `OracleExact`: the cumulative prices are the time-weighted spot rates modulo the
  width of the type, as long as no product saturates.
* `SupplyHasReserves` (contract): a supply comes with both reserves, so `mint` and
  `burn` never divide by zero.  The pallet does not have this property, see below.
* `NoStrandedShares` (contract): a refused withdrawal leaves no shares with the pool
  account, where the next caller would redeem them.  In the pallet it does leave them.
* `ImplementsPallet`: every message does what the pallet's extrinsic does when it
  succeeds, or nothing.
* `ImplementsPool`: every call is a step of `LiquidityPool`, see above.
* `ProviderCanLeave`: whoever asks back shares worth a unit of each asset is paid at least
  their part of both reserves, whatever others did before.  In `pallet_deep` the others are
  the admin's role of the one user and the fee recipient, in `contract_pool` other providers;
  the theorems are about any number of users.
* `ObserverAgrees`: a reader who replays the `Transfer` events knows every account's
  shares, after failed calls too.
* `FlowsCovered`: a reader who adds the amounts of `Mint`, `Burn` or `Swap` to the `Sync`
  before it never overestimates the reserves, and one who adds up all amounts never comes
  to more than that; donations are missing from the events, nothing else.
* `NoneStranded`: a ready transaction has a block in the making or a notification to come.
* `ReadyIsExecuted`: every transaction that becomes ready is executed (liveness).
* `TokensConserved`: all accounts together own what genesis issued, payments of a pool to
  itself and transfers by other contracts included.
* `PoolsSolvent`: each pool account covers its own reserves, as long as no other contract
  names it as a payer.
* `EveryKeyAccepted`: the constructor accepts the text of every key and stores that key.
* `IssuerIsTheOneMeant`: no single slip, and no seed, makes a contract for another issuer.
* `IssuerReadsBack`: `issuer_1` returns the text given, so an issuer has one spelling,
  although `base32::decode` reads lower case, 0, 1 and padded texts too.
* `Base32IsGroupsOfFive`: the loops over bytes agree with base32 as groups of five bits.
* `TradesNamedCurrency`: a contract trades the currency that `CurrencyId::try_from` gives
  the pallet and the genesis for the same code and issuer.
* `NoSharedLedger`: contracts for different assets never move the same balance.
* `CodeReadsBack`: `asset_1` returns the code the constructor was given.

### Bounds and why they are enough

* **Amounts and balances.**  With `MaxBalance` = 2^31 - 1 and at most 45 tokens of an
  asset, no product reaches `MaxBalance` (the largest is r0 * r1 * 10^6), so these runs
  show the AMM without saturation.  `saturated_swap` and the oracle run use
  `MaxBalance` = 10^6, where every product saturates early, to show the AMM at the limit
  of its type; it scales the 128 bits of the chain down.  The amount 1 hits all the
  roundings, 10 opens a pool, 0 the early returns.
* **Minimum liquidity** is 1 or 2 instead of 1000, so that small amounts open a pool.
* **Calls.**  Five or six calls by two users cover: set the fee, open the pool, deposit again,
  and a deposit or withdrawal at which the fee is issued.  Seven calls by one user leave
  room for donations, swaps, syncs and a second round in between.
* **Which ends of a call are reached.**  In the runs without saturation `_swap` always
  passes its constant-product check, because `get_amount_in` asks for far too much; the
  ends `InvalidK`, `InsufficientInputAmount` and a payout larger than the balance occur
  in `pallet_oracle`.  `InvalidK` needs a payment of about a third of the largest
  value.  A failing payout in `burn` needs an issuance beyond the largest value, which
  orml-tokens prevents, or saturated shares; no run reaches it, the proofs cover it.
* **Transactions.**  Two transactions of each user suffice for one that arrives before its
  predecessor, one that arrives while a block is made, blocks of several transactions,
  notifications that find nothing, and for four calls over both pools: open, donate, skim
  and trade.  With 21 tokens and the amount 4 a swap can be paid for in either pool.
* **A fee multiplier above 3** is not among the instances (`BaseFee` is 3, as in both
  runtimes); the theorems exclude it with `IssuanceFits`.
* **Keys** of two bytes make texts of 40 bits, which end on a group of five as the 280
  bits of a real key do; texts that are cut off have every other remainder.  The bytes
  include all zeros and all ones.  A wrong or transposed
  character changes at most ten adjacent bits, which a 16 bit checksum always notices;
  for two independent slips it cannot promise that, so `MaxSlips` is 1.
* **Codes** have the widths 1 and 2 instead of 4 and 12, so that empty, short, long, full
  and too long codes all occur.
* Deadlock is checked; when the budget is used up, the explicit `Done` stutters.  Only
  `stellar_key` switches it off, since the constructor runs once.

### Fairness

`TestChain` assumes weak fairness of the steps of the authoring task (`AuthoringIsFair`).
It is stated of the node's part of these steps, `Authoring`: a call that a block takes always
ends somehow, so `Author` can go on exactly when `Authoring` can.
`new_full` spawns `run_instant_seal` as an *essential* task on a thread of its own: it runs
as long as the node does, and the node stops with it.  None of the users' steps is fair:
nobody has to submit anything, so `ReadyIsExecuted` speaks of transactions that are ready
and says nothing of one whose predecessor never comes.  The modules of the pools assume no
fairness: each of their steps is a call some user chooses to make.

### Where the code differs from what it says

Each of these runs checks one statement of the documentation, a comment or a check in
the code, and TLC finds it violated.

| Run | Statement | What happens |
|---|---|---|
| `swap_price` | `README.md:4`, the calculations follow Uniswap V2 | `get_amount_in` multiplies by `reserve_out` where Uniswap V2 multiplies by `amountOut`: one unit from a pool of 10/10 costs 12, not 2 |
| `fee_base` | `README.md:4` | `KLast` is the product of the reserves *before* the deposit or withdrawal, so the next fee is charged on deposited liquidity too |
| `first_deposit` | `pallet/README.md:21`, at least 10000 for the initial deposit | after a first deposit that is too small, the minimum stays locked with empty reserves, and every later deposit fails and keeps the caller's tokens, until somebody calls `sync` |
| `saturated_swap` | the check at `helper.rs:194` | both sides saturate, compare equal, and a swap that lowers the product passes |
| `stale_sync` | `README.md:4` | `Sync` tells the reserves *before* the call, in the pallet and in the contract: after the first deposit the last `Sync` says that the pool is empty |

The comment at `helper.rs:256` says of the product of rate and elapsed time that it "never
overflows".  It saturates in a skewed pool that is left alone; `pallet_oracle` reaches such
steps, and `OracleExact` speaks of the time before the first one (`exact`).

## 4. What is proved

The proofs hold for every width of the balance type from 10^6 on (the literals of
`_swap` must fit), every finite set of accounts, every genesis, every set of amounts and
every configuration.  The assumptions on the constants are `WidthAssumption`,
`AccountsAssumption`, `ConfigAssumption`, `PairAssumption` and their like; TLC evaluates
them in every run.  Every safety invariant and every action property that a run checks is
also a theorem.

### Conditions

Some properties do not hold at the limit of the type, or only of some chains; their theorems
say where they do:

* `SupplyFits`: the supply, with the fee due, is below the largest value, always.  Beyond
  it `_mint` saturates the supply and the accounts separately.  It is a condition on the
  behaviour, not on the constants, because no constant bounds the supply: a protocol fee
  adds shares without tokens, as often as the reserves grow.  For the contract it follows
  from `IssuanceFits` and `PricesFit` as long as no fee recipient is named
  (`SupplyAlwaysFits`).
* `IssuanceFits` (pallet): `BaseFee` is at most 3 and six times the issuance of an asset is
  a value of the type.  The first is what `get_amount_in` charges for with its hard-coded
  997; the second keeps the constant-product check from failing after the payout: a payment
  of about a third of the largest value can end in `InvalidK`.  The test chain satisfies
  both: twelve accounts with 10^36 of each asset are below a sixth of 2^128.
* `IssuanceFits` (contract): the issuance of an asset is below the largest value.  A failing
  check is rolled back there, so no more is needed.
* `PricesFit`: a thousand times the product of both issuances is a value of the type, so
  that `get_amount_in` does not saturate.  Where it does, `saturated_swap` shows that the
  product of the reserves can fall.  The test chain's endowments do not satisfy it.
* `PayoutsFit`: the supply times a balance of the pool is a value of the type, always, so
  that `burn` does not saturate.
* `MintFee` is 1 to 5: the abstract specification grants the protocol that much.
* `ClockFits` (test chain): the timestamp has not run over; `BeginBlock` does not stop it.
* `MaxSlips <= 1` (issuers): a 16 bit checksum promises nothing about two slips.
  `OneSlipIsCaught` says the same without a condition on the constant, of the states of any
  behaviour in which at most one slip was made.
* `PoolsUnnamed` (test chain): no contract but the Pair names the account of a pool as the payer
  of a transfer, see the assumptions in section 2.
* `Genesis = testnet_genesis`: the issuance is what the chain specification endows.

The instances of section 3 meet the conditions, apart from those that are about saturation:
6 * 45 and 1000 * 45 * 45 are below 2^31, and supply and reserves stay below a hundred.

### The pallet

* `TypeCorrect` (`TypeOK`).  Inductive; one lemma per formula (it stays in range, from
  `SatMulSpec` and its like) and one per helper that writes.  `SatMul` is written with a
  division and proved to be the saturated product; that an integer square root exists is
  proved without induction, from the pigeonhole principle for finite sets (`SqrtExists`).
* `FeeBaseDropped` (`KLastOnlyWithFee`).  Inductive: a step either leaves `feeTo` alone and
  writes `KLast` as `_mint_fee`, `mint` and `burn` do, or names a recipient and leaves
  `KLast` alone (`KLastStep`).
* `LockIsPermanent` (`MinLiquidityLocked`).  Inductive relative to `TypeOK`.  The delicate
  case is a `mint` that finds a supply: it was there before, since a fee on an empty supply
  is zero (`NoFeeWithoutSupply`).
* `SharesAddUp` (`SharesConserved`; `SupplyFits`).  The sum is a cardinality, so the proof
  needs no induction over the accounts: `SumExcept` says what changing one account does.
* `PalletSolvent` (`ReservesCovered`), `FailuresAreFree` (`FailedCallCostsNothing`) and
  `PoolStaysOpen` (`NeverDrained`); `IssuanceFits`, `SupplyFits`.  `ReservesCovered` alone is
  not inductive.  The invariant `Sound` adds the types, the sum of the shares, the locked
  minimum and that no call makes or destroys tokens.  From it: `burn` can always pay, since
  the locked shares are never redeemed (`RedeemedCanBePaid`); `skim` pays exactly the
  surplus; and the constant-product check of a swap that came to its payout holds
  (`CheckHolds`, from `PriceMeetsK`).  So each call ends either with `_update` or with at
  least what the pool had (`StepEnds`).
* `PalletIsAPool` (`ImplementsPool`; also `PricesFit`, `MintFee`).  Step by step: an end of
  `mint` maps to `Open`, `Provide` or `Lock`, of `withdraw` to `Redeem` or `Strand`, of
  `_swap` and `sync` to `Trade`, and every other step to a stutter.  The bounds come from
  `InitialNeedsBoth`, `PartBelow`, `TradeKeepsProduct` and `ProtocolFeeBound`.
* `SharesKeepTheirValue` (`ShareValueNeverDrops`; `IssuanceFits`, `PricesFit`, `SupplyFits`)
  from the same ends of the calls, with `DepositKeepsValue` and `PayoutKeepsValue`.
* `ProvidersCanLeave` (`ProviderCanLeave`; `IssuanceFits`, `SupplyFits`, `PayoutsFit`).
* `OracleAddsUp` (`OracleExact`), without conditions.  The invariant `OracleSound` adds that
  the clock is never behind `tsLast`, so that the elapsed time does not wrap around.
  `UpdateAdds` is the step of `_update` modulo the width, and the lemmas on remainders
  (`ModAdd`, `ModUnique`) do the rest.
* `EventsTellShares` (`ObserverAgrees`; `SupplyFits`): each event, replayed, is the write it
  stands for (`ReplayedFee`, `ReplayedMove`, `ReplayedBurn`), and each end of a call has
  the events of the writes it came to (`MintIsTold`, `WithdrawIsTold`).
* `EventsNeverPromiseMore` (`FlowsCovered`; `IssuanceFits`, `SupplyFits`).  The condition on
  the issuance is needed because the amounts of an event are saturating differences; they
  are exact while the pool owns its reserves (`Sound`).

### The contract

* `TypeCorrect` (`TypeOK`), `ContractSolvent` (`ReservesCovered`), `SupplyIsBacked`
  (`SupplyHasReserves`) and `NothingStranded` (`NoStrandedShares`), at every width and
  without conditions: rolling back makes the difference to the pallet.
* `SharesAddUp` (`SharesConserved`; `SupplyFits`).
* `ContractIsAPool` (`ImplementsPool`; `IssuanceFits`, `PricesFit`, `SupplyFits`) and
  `ProvidersCanLeave` (`ProviderCanLeave`; `IssuanceFits`, `SupplyFits`, `PayoutsFit`), along
  the same argument as for the pallet.
* `SharesKeepTheirValue` (`ShareValueNeverDrops`; `IssuanceFits`, `PricesFit`, `SupplyFits`).
  `ReserveStep` says what a step does to reserves and supply, `StepRatio` that it leaves
  each side its part for every share, or issues only the fee and lets the product grow.
* `SupplyAlwaysFits` (`IssuanceFits`, `PricesFit`): as long as no fee recipient is named,
  `SupplyFits` need not be assumed.  The invariant `Backed`, that the square of the supply is
  at most the product of the reserves, holds after the first deposit because the shares are
  the root of it, and every later step keeps it because it keeps the value of a share
  (`RootKept`).  It has to be proved together with `Sound`, which needs that the supply fits.
  With a recipient `Backed` does not hold: `KLast` is the product before a deposit
  (`fee_base`), so the fee issues shares for tokens that others were credited for already.
  In the pallet it does not hold either: a first deposit that fails leaves the locked minimum
  without reserves.  `PoolWithoutFee` gives the consequences.
* `ContractIsThePallet` (`ImplementsPallet`; `IssuanceFits`): a message that succeeds is the
  disjunct of the pallet's action that ends in `Ok`.  The condition is what the contract's
  ignoring of refused transfers needs; nothing is asked of supply or prices, which saturate
  in both alike.

### The chain

* `NobodyIsForgotten` (`NoneStranded`), without conditions and for any number of users.  The
  invariant `NodeSound`: the pool holds no used nonce, a block is made of transactions of
  the pool, and what is ready and not in the block has a notification to come.
* `TokensAddUp` (`TokensConserved`): every call of either pool moves tokens between its
  parties only (`Between`), and a transfer of another contract between two accounts.
* `BothPoolsSolvent` (`PoolsSolvent`; `IssuanceFits`, `SupplyFits`, `PoolsUnnamed`): a call of
  one pool, and of another contract, is at most a donation to the other pool
  (`DonationKeepsSound`).  `TestChainProofs` takes the contract's lemmas from an
  instance of `AmmContractProofs`; the lemmas named `Same...` show that its definitions and
  those of the instance in `TestChain` agree.
* `TradesWhatItWasNamedFor`, `CodesReadBack`, `LedgersStayApart` (`TradesNamedCurrency`,
  `CodeReadsBack`, `NoSharedLedger`), for every width of the code arrays: padding and
  trimming a code gives it back (`RoundTrip`), and two names never share a currency
  (`NamesApart`).

### Issuers

For keys of every length, every set of key bytes and every ASCII character a slip may type.

*Loops.*  What a loop leaves after any number of rounds is proved from invariants of its
rounds.  The library's induction theorems take operators as parameters, which the provers
cannot instantiate, so `SetInduction` states induction for a set of numbers and is proved
from the finiteness of intervals; `RecursionExists` and `LoopRuns` show that the recursive
functions of the model exist and satisfy their equations.

* `EncodeIsGroups`: after each byte the loop of `encode` has written the groups of five bits
  that are complete, and `shift` and `carry` hold the rest (`EncodePlace`).  A block of five
  bytes is eight letters, with one lemma for each place in the block (`RoundAtFirst`,
  `RoundAt1` to `RoundAt4`).  `|` of numbers without a common bit is their sum (`OrAdds`).
* `DecodeOfEncode`: the same for `decode`, whose `shift` is signed (`DecodePlace`).  What is
  left in `carry` after the last letter is padding and is zero, so no byte is added.
* `Base32Groups` (`Base32IsGroupsOfFive`) follows, since `decode` returns bytes for whatever
  text it accepts (`DecodeType`).
* `EncodedKeyIsDecoded` and `AcceptedIsEncoded`: a key's text passes all checks of
  `decode_stellar_key`, and a text that passes them is the text of the key that is returned.
  The invariant `KeyInv` adds to the types that the text is the one of the meant key until a
  slip, and that an issuer was read from the text as it is.  `KeysAccepted`
  (`EveryKeyAccepted`) and `IssuersReadBack` (`IssuerReadsBack`) follow from it.
* `IssuersAreMeant` (`IssuerIsTheOneMeant`; `MaxSlips <= 1`) and `OneSlipIsCaught`.  The
  invariant `SlipInv` says that with one slip the text is of another length than the right
  one, or differs from it in one place or in two adjacent ones.  A text of another length is
  refused, since an accepted one has the length of a key's.  Two adjacent letters are ten
  bits in a row, so at most three adjacent bytes differ, and if there are three the outer
  two differ in few bits.  A round of `crc` is undone bit by bit (`RoundBack`), so a
  difference is not lost in later rounds, and two bytes that differ leave different
  checksums (`TwoBytesTold`); the third byte and the checksum's own two bytes are split into
  cases (`ThreeBytesTold`, `HighByteTells`, `TwoBytesTop`, `LowestByHigh`).  Equal bytes
  have one version byte and one key (`VersionAndKey`).

### Other lemmas worth knowing

`OverflowingAddIsModular` and `OverflowingSubIsModular` (the hand-written wrapping operations
are addition and subtraction modulo the width, for every type) and `GetAmountOutBounded` (an
offer never exceeds the reserve).

### Only model-checked

* `ReadyIsExecuted`: liveness under fairness is out of the prover's reach.
* The five statements that do not hold (section 3) are refuted by TLC and by no theorem.

## 5. Not modelled

* The SCALE decoding of the chain extension's input, and func ids the contract never calls.
* What contracts other than the Pair do besides transfers, and contracts that transfer the
  tokens of a pool.
* Networking, RPC, telemetry and the command line of the node: no logic of the AMM.
* Weights, the weight limit of a block and transaction fees.  A block that is full leaves
  transactions for the next notification, and one that its predecessor made ready has none
  of its own; the model's blocks are never full.
* Restarts of the node: the pool is kept in memory and no code of the repository restores
  it; what is in a block is the database's.
* Weights and benchmarks (generated constants and the code that measures them), and
  the test doubles of `mock.rs`.
* Pairs of one asset with itself, which the constructor does not refuse.
* The read-only messages of the contract.  `_get_amount_out` is defined and proved about,
  but no extrinsic calls it.

## 6. Plan

Done: the models of section 2 with their runs, and the theorems of section 4.

Left, a proof: that `LiquidityPool` by itself implies that the product of the reserves over
the square of the supply never falls, apart from the fee, so that both implementations
inherit from the refinement what is proved of each of them now.
