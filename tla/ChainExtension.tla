--------------------------- MODULE ChainExtension ---------------------------
(***************************************************************************)
(* How the ink! contract reaches the tokens of the chain.  Its constructor *)
(* turns an asset code into an array padded with zeros; the runtime's      *)
(* BalanceChainExtension turns the array into a CurrencyId of orml-tokens, *)
(* the same type the pallet and the genesis name their assets with.        *)
(* Several contracts and plain transfers share the ledger.                 *)
(*                                                                         *)
(* Characters are their codes, 0 the padding.  The widths 4 and 12 of the  *)
(* codes are parameters, issuers are abstract (StellarKey has their        *)
(* encoding).                                                              *)
(***************************************************************************)
EXTENDS TokenLedger, SequencesExt

CONSTANTS
    Bytes4, Bytes12,    \* the lengths of the short and of the long code
    Characters,         \* characters that callers type
    Alphanumeric,       \* those of them the contract accepts
    AssetIssuer,        \* the issuers
    Contracts,          \* addresses of contracts, which own tokens as well
    Amounts,            \* the amounts contracts transfer
    Endowment,          \* what an endowed account owns of a currency at genesis
    NoAsset             \* what a contract that does not exist yet trades

ASSUME CodeAssumption ==
    /\ Bytes4 \in Nat /\ Bytes12 \in Nat /\ Bytes4 < Bytes12
    /\ Characters \subseteq 1 .. 127
    /\ Alphanumeric \subseteq Characters
    /\ Contracts \subseteq Accounts
    /\ Amounts \subseteq Balance
    /\ Endowment \in Balance

VARIABLES
    tokens,     \* orml-tokens: the ledger of every currency
    named,      \* the code and the issuer each contract was created for
    asset,      \* the field of each contract: the array and the issuer
    answer      \* what the last call of the chain extension returned

vars == <<tokens, named, asset, answer>>

\* The codes callers may type: one character more than fits is enough.
Codes == BoundedSeq(Characters, Bytes12 + 1)

-----------------------------------------------------------------------------
(* The contract's side: util::asset_from_string and util::trim_zeros.      *)

Padded(str, length) == [i \in 1 .. length |-> IF i <= Len(str) THEN str[i] ELSE 0]

CodeError(str) ==
    IF Len(str) > Bytes12 THEN "AssetCodeTooLong"
    ELSE IF ~(ToSet(str) \subseteq Alphanumeric) THEN "InvalidAssetCodeCharacter"
    ELSE "Ok"

asset_from_string(str) == Padded(str, Bytes12)

NotZero(char) == char # 0

\* x without the zeros at both ends.
Trimmed(x) ==
    IF SelectInSeq(x, NotZero) = 0 THEN <<>>
    ELSE SubSeq(x, SelectInSeq(x, NotZero), SelectLastInSeq(x, NotZero))

\* Mutant of trim_zeros: the range ends before the last character.
trim_zeros_exclusive(x) == IF Trimmed(x) = <<>> THEN <<>> ELSE Front(Trimmed(x))

trim_zeros(x) == Trimmed(x)

-----------------------------------------------------------------------------
(* The runtime's side: CurrencyId and its try_from, and how the chain      *)
(* extension makes one from an array.  A contract's array holds ASCII, so  *)
(* from_utf8 does not fail.                                                *)

NoCurrency == "More than 12 bytes not supported"

\* Mutant of try_from: a long code is told apart by its beginning only.
try_from_short(slice, issuer) ==
    IF Len(slice) <= Bytes12
    THEN [ kind |-> IF Len(slice) <= Bytes4 THEN "AlphaNum4" ELSE "AlphaNum12",
           code |-> Padded(slice, Bytes4),
           issuer |-> issuer ]
    ELSE NoCurrency

try_from(slice, issuer) ==
    CASE Len(slice) <= Bytes4 ->
            [kind |-> "AlphaNum4", code |-> Padded(slice, Bytes4), issuer |-> issuer]
      [] Len(slice) \in Bytes4 + 1 .. Bytes12 ->
            [kind |-> "AlphaNum12", code |-> Padded(slice, Bytes12), issuer |-> issuer]
      [] OTHER -> NoCurrency

\* The currencies whose codes a contract can have.
Currencies == {try_from(c, i) : c \in BoundedSeq(Alphanumeric, Bytes12), i \in AssetIssuer}

\* Mutant of asset_str: the padding stays.
asset_str_padded(asset_code) == asset_code

\* str::trim_matches(char::from(0))
asset_str(asset_code) == Trimmed(asset_code)

CurrencyOf(a) == try_from(asset_str(a.code), a.issuer)

-----------------------------------------------------------------------------
(* The calls of the chain extension: 1101 reads the balance of an account, *)
(* 1102 transfers and writes the outcome, which the contract does not      *)
(* read, to the output.                                                    *)

fetch_balance(owner, a) == tokens[CurrencyOf(a)][owner]

transfer_balance(from, to, a, amount) ==
    LET currency_id == CurrencyOf(a)
    IN  IF CanMove(tokens[currency_id], from, to, amount)
        THEN tokens' = [tokens EXCEPT ![currency_id] = Moved(@, from, to, amount)]
        ELSE UNCHANGED tokens

-----------------------------------------------------------------------------
(* The contracts.                                                          *)

\* The genesis endows accounts that are not contracts, here with every currency.
Init ==
    /\ tokens = [x \in Currencies |->
                    [a \in Accounts |-> IF a \in Contracts THEN 0 ELSE Endowment]]
    /\ named = [c \in Contracts |-> NoAsset]
    /\ asset = [c \in Contracts |-> NoAsset]
    /\ answer = "none"

\* The constructor, for one of the two assets and an issuer that can be decoded
\* (StellarKey): it traps on a code that asset_from_string refuses.
New(c, code, issuer) ==
    /\ asset[c] = NoAsset
    /\ answer' = CodeError(code)
    /\ IF answer' = "Ok"
       THEN /\ named' = [named EXCEPT ![c] = [code |-> code, issuer |-> issuer]]
            /\ asset' = [asset EXCEPT ![c] = [code |-> asset_from_string(code), issuer |-> issuer]]
       ELSE UNCHANGED <<named, asset>>
    /\ UNCHANGED tokens

\* transfer_tokens, with which the messages take from the caller and pay out.  A Pair is
\* always one of the two parties; 1102 does not ask for it, nor does this action.
TransferTokens(c, from, to, amount) ==
    /\ asset[c] # NoAsset
    /\ IF fetch_balance(from, asset[c]) < amount
       THEN answer' = "InsufficientBalance" /\ UNCHANGED tokens
       ELSE answer' = "Ok" /\ transfer_balance(from, to, asset[c], amount)
    /\ UNCHANGED <<named, asset>>

Next ==
    \E c \in Contracts :
        \/ \E code \in Codes, issuer \in AssetIssuer : New(c, code, issuer)
        \/ \E from, to \in Accounts, amount \in Amounts : TransferTokens(c, from, to, amount)

Spec == Init /\ [][Next]_vars

-----------------------------------------------------------------------------
(* The messages asset_1 and asset_2 of a contract.                         *)

asset_1(c) == trim_zeros(asset[c].code)

-----------------------------------------------------------------------------
(* Properties.                                                             *)

Exists(c) == asset[c] # NoAsset

\* What contract c reads of every account.
View(c) == [a \in Accounts |-> fetch_balance(a, asset[c])]

(* A contract trades the currency its deployer named: after padding by       *)
(* asset_from_string and trimming by the chain extension the code is again   *)
(* the one that CurrencyId::try_from gives the pallet and the genesis for    *)
(* the same text, short or long.                                             *)
TradesNamedCurrency ==
    \A c \in Contracts : Exists(c) =>
        CurrencyOf(asset[c]) = try_from(named[c].code, named[c].issuer)

(* Contracts for different assets never meet in one ledger: whatever a       *)
(* transfer does, it changes the balances that transfer_tokens reads for at  *)
(* most one code and issuer, however similar the codes.                      *)
NoSharedLedger ==
    [][\A c, d \in Contracts :
        Exists(c) /\ Exists(d) /\ named[c] # named[d]
            => View(c)' = View(c) \/ View(d)' = View(d)]_vars

(* The code reads back: asset_1 returns what the constructor was given, for  *)
(* codes of every length, also those that fill the array and the empty one.  *)
CodeReadsBack == \A c \in Contracts : Exists(c) => asset_1(c) = named[c].code
=============================================================================
