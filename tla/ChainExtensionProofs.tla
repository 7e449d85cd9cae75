------------------------ MODULE ChainExtensionProofs ------------------------
(* Contracts trade the currencies they were created for, whatever the widths *)
(* of the codes and however many contracts there are.                        *)
EXTENDS ChainExtension, TLAPS

-----------------------------------------------------------------------------
(* Padding and trimming.                                                   *)

\* The codes of at most n characters.
CodesUpTo(n) == UNION {[1 .. m -> 1 .. 127] : m \in 0 .. n}

\* A code is a sequence.
LEMMA CodeType ==
    ASSUME NEW n \in Nat, NEW str \in CodesUpTo(n)
    PROVE  /\ str \in Seq(1 .. 127) /\ Len(str) \in 0 .. n
           /\ str \in [1 .. Len(str) -> 1 .. 127]
           /\ str = [i \in 1 .. Len(str) |-> str[i]]
           /\ \A i \in 1 .. Len(str) : str[i] \in 1 .. 127
<1>1. PICK m \in 0 .. n : str \in [1 .. m -> 1 .. 127]
  BY DEF CodesUpTo
<1>2. str \in Seq(1 .. 127) /\ Len(str) = m
  BY <1>1
<1>. QED  BY <1>1, <1>2

\* A padded code fills its array.
LEMMA PaddedType ==
    ASSUME NEW n \in Nat, NEW str \in CodesUpTo(n)
    PROVE  /\ Padded(str, n) \in Seq(0 .. 127) /\ Len(Padded(str, n)) = n
           /\ \A i \in 1 .. n : Padded(str, n)[i] = IF i <= Len(str) THEN str[i] ELSE 0
<1>1. Padded(str, n) \in [1 .. n -> 0 .. 127]
  BY CodeType DEF Padded
<1>. QED  BY <1>1 DEF Padded

\* Trimming takes away what padding added, and nothing else.
LEMMA RoundTrip ==
    ASSUME NEW n \in Nat, NEW str \in CodesUpTo(n)
    PROVE  Trimmed(Padded(str, n)) = str
<1>. DEFINE p == Padded(str, n)
            I == {i \in 1 .. Len(p) : NotZero(p[i])}
<1>1. /\ p \in Seq(0 .. 127) /\ Len(p) = n /\ Len(str) \in 0 .. n
      /\ \A i \in 1 .. n : p[i] = IF i <= Len(str) THEN str[i] ELSE 0
      /\ \A i \in 1 .. Len(str) : str[i] \in 1 .. 127
      /\ str \in Seq(1 .. 127)
  BY CodeType, PaddedType
<1>. HIDE DEF p
<1>2. I = 1 .. Len(str)
  <2>1. ASSUME NEW i \in 1 .. n
        PROVE  NotZero(p[i]) <=> i <= Len(str)
    <3>1. p[i] = IF i <= Len(str) THEN str[i] ELSE 0
      BY <1>1
    <3>2. i <= Len(str) => i \in 1 .. Len(str)
      BY <1>1
    <3>3. i <= Len(str) => p[i] \in 1 .. 127
      BY <1>1, <3>1, <3>2
    <3>4. CASE i <= Len(str)
      <4>1. p[i] \in 1 .. 127
        BY <3>3, <3>4
      <4>2. p[i] # 0
        BY <4>1
      <4>3. NotZero(p[i])
        BY <4>2 DEF NotZero
      <4>. QED BY <4>3, <3>4
    <3>5. CASE ~(i <= Len(str))
      BY <3>1, <3>5 DEF NotZero
    <3>. QED  BY <3>4, <3>5
  <2>2. I = {i \in 1 .. n : i <= Len(str)}
    BY <1>1, <2>1
  <2>. QED  BY <1>1, <2>2
<1>3. CASE Len(str) = 0
  <2>1. SelectInSeq(p, NotZero) = 0
    BY <1>2, <1>3 DEF SelectInSeq
  <2>2. str = <<>>
    BY <1>1, <1>3
  <2>. QED  BY <2>1, <2>2 DEF Trimmed, p
<1>4. CASE Len(str) > 0
  <2>1. Min(I) = 1 /\ Max(I) = Len(str) /\ I # {}
    BY <1>1, <1>2, <1>4 DEF Min, Max
  <2>2. SelectInSeq(p, NotZero) = 1 /\ SelectLastInSeq(p, NotZero) = Len(str)
    BY <2>1 DEF SelectInSeq, SelectLastInSeq
  <2>3. SubSeq(p, 1, Len(str)) = str
    <3>1. SubSeq(p, 1, Len(str)) = [i \in 1 .. Len(str) |-> p[i]]
      BY <1>1, <1>4
    <3>. QED  BY <1>1, <3>1, CodeType
  <2>. QED  BY <2>2, <2>3 DEF Trimmed, p
<1>. QED  BY <1>1, <1>3, <1>4

-----------------------------------------------------------------------------
(* What a contract trades.                                                 *)

\* A code and an issuer that the constructor accepts.
Names == [code : {s \in CodesUpTo(Bytes12) : ToSet(s) \subseteq Alphanumeric},
          issuer : AssetIssuer]

\* The field of a contract that is created for the name n.
FieldOf(n) == [code |-> asset_from_string(n.code), issuer |-> n.issuer]

\* The inductive invariant: every contract has the padded form of what it was named for,
\* and there is a ledger for every currency that can be named.
AssetsSound ==
    /\ DOMAIN asset = Contracts /\ DOMAIN named = Contracts
    /\ DOMAIN tokens = Currencies
    /\ \A c \in Contracts :
        Exists(c) => named[c] \in Names /\ asset[c] = FieldOf(named[c])

\* The two ends of the chain extension agree on every name.
LEMMA NameKept ==
    ASSUME NEW n \in Names
    PROVE  /\ CurrencyOf(FieldOf(n)) = try_from(n.code, n.issuer)
           /\ trim_zeros(FieldOf(n).code) = n.code
<1>1. n.code \in CodesUpTo(Bytes12) /\ Bytes12 \in Nat
  BY CodeAssumption DEF Names
<1>2. Trimmed(FieldOf(n).code) = n.code /\ FieldOf(n).issuer = n.issuer
  BY <1>1, RoundTrip DEF FieldOf, asset_from_string
<1>. QED  BY <1>2 DEF CurrencyOf, asset_str, trim_zeros

\* A short code fills the short array, a long one the long array.
LEMMA CurrencyParts ==
    ASSUME NEW n \in Names
    PROVE  LET t == try_from(n.code, n.issuer)
           IN  /\ t.issuer = n.issuer
               /\ \/ /\ t.kind = "AlphaNum4" /\ n.code \in CodesUpTo(Bytes4)
                     /\ t.code = Padded(n.code, Bytes4)
                  \/ /\ t.kind = "AlphaNum12" /\ n.code \in CodesUpTo(Bytes12)
                     /\ t.code = Padded(n.code, Bytes12)
<1>1. /\ n.code \in CodesUpTo(Bytes12)
      /\ Bytes12 \in Nat /\ Bytes4 \in Nat /\ Bytes4 < Bytes12
  BY CodeAssumption DEF Names
<1>2. Len(n.code) \in 0 .. Bytes12 /\ n.code \in [1 .. Len(n.code) -> 1 .. 127]
  BY <1>1, CodeType
<1>3. CASE Len(n.code) <= Bytes4
  <2>1. n.code \in CodesUpTo(Bytes4)
    BY <1>1, <1>2, <1>3 DEF CodesUpTo
  <2>2. try_from(n.code, n.issuer) =
            [kind |-> "AlphaNum4", code |-> Padded(n.code, Bytes4), issuer |-> n.issuer]
    BY <1>1, <1>2, <1>3 DEF try_from
  <2>. QED  BY <2>1, <2>2
<1>4. CASE ~(Len(n.code) <= Bytes4)
  <2>1. Len(n.code) \in Bytes4 + 1 .. Bytes12
    BY <1>1, <1>2, <1>4
  <2>2. try_from(n.code, n.issuer) =
            [kind |-> "AlphaNum12", code |-> Padded(n.code, Bytes12), issuer |-> n.issuer]
    BY <1>4, <2>1 DEF try_from
  <2>. QED  BY <1>1, <2>2
<1>. QED  BY <1>3, <1>4

\* No two names are one currency.
LEMMA NamesApart ==
    ASSUME NEW m \in Names, NEW n \in Names,
           try_from(m.code, m.issuer) = try_from(n.code, n.issuer)
    PROVE  m = n
<1>1. /\ m = [code |-> m.code, issuer |-> m.issuer]
      /\ n = [code |-> n.code, issuer |-> n.issuer]
      /\ Bytes12 \in Nat /\ Bytes4 \in Nat
  BY CodeAssumption DEF Names
<1>. DEFINE t == try_from(m.code, m.issuer)
<1>2. m.issuer = n.issuer
  BY CurrencyParts
<1>3. ASSUME NEW k \in Nat, m.code \in CodesUpTo(k), n.code \in CodesUpTo(k),
             Padded(m.code, k) = Padded(n.code, k)
      PROVE  m.code = n.code
  BY <1>3, RoundTrip
<1>4. CASE t.kind = "AlphaNum4"
  BY <1>1, <1>3, <1>4, CurrencyParts
<1>5. CASE t.kind = "AlphaNum12"
  BY <1>1, <1>3, <1>5, CurrencyParts
<1>6. t.kind \in {"AlphaNum4", "AlphaNum12"}
  BY CurrencyParts
<1>. QED  BY <1>1, <1>2, <1>4, <1>5, <1>6

-----------------------------------------------------------------------------
(* The contracts.                                                          *)

\* A code that the constructor accepts makes a name, whose currency has a ledger.
LEMMA AcceptedIsName ==
    ASSUME NEW code \in Codes, NEW issuer \in AssetIssuer, CodeError(code) = "Ok"
    PROVE  [code |-> code, issuer |-> issuer] \in Names
<1>1. /\ Bytes12 \in Nat /\ Characters \subseteq 1 .. 127
      /\ Len(code) <= Bytes12 /\ ToSet(code) \subseteq Alphanumeric
  BY CodeAssumption DEF CodeError
<1>2. PICK m \in 0 .. Bytes12 + 1 : code \in [1 .. m -> Characters]
  BY DEF Codes, BoundedSeq, SeqOf
<1>3. m \in 0 .. Bytes12
  <2>1. code \in Seq(Characters) /\ Len(code) = m /\ m \in Nat
    BY <1>1, <1>2
  <2>. QED  BY <1>1, <2>1
<1>4. code \in CodesUpTo(Bytes12)
  <2>1. code \in [1 .. m -> 1 .. 127]
    BY <1>1, <1>2
  <2>. QED  BY <1>3, <2>1 DEF CodesUpTo
<1>. QED  BY <1>1, <1>4 DEF Names

LEMMA NameHasLedger ==
    ASSUME NEW n \in Names
    PROVE  try_from(n.code, n.issuer) \in Currencies
<1>1. /\ n.code \in CodesUpTo(Bytes12) /\ ToSet(n.code) \subseteq Alphanumeric
      /\ n.issuer \in AssetIssuer /\ Bytes12 \in Nat
  BY CodeAssumption DEF Names
<1>2. Len(n.code) \in 0 .. Bytes12 /\ n.code \in [1 .. Len(n.code) -> 1 .. 127]
  BY <1>1, CodeType
<1>3. n.code \in [1 .. Len(n.code) -> Alphanumeric]
  BY <1>1, <1>2 DEF ToSet
<1>4. n.code \in BoundedSeq(Alphanumeric, Bytes12)
  BY <1>2, <1>3 DEF BoundedSeq, SeqOf
<1>. QED  BY <1>1, <1>4 DEF Currencies

\* A contract that exists keeps its field and its name.
LEMMA FieldsAreFixed ==
    ASSUME AssetsSound, [Next]_vars, NEW c \in Contracts, Exists(c)
    PROVE  asset'[c] = asset[c] /\ named'[c] = named[c] /\ Exists(c)'
<1>1. DOMAIN asset = Contracts /\ DOMAIN named = Contracts /\ asset[c] # NoAsset
  BY DEF AssetsSound, Exists
<1>2. CASE UNCHANGED <<named, asset>>
  BY <1>1, <1>2 DEF Exists
<1>3. ASSUME NEW d \in Contracts, NEW code, NEW issuer, New(d, code, issuer)
      PROVE  asset'[c] = asset[c] /\ named'[c] = named[c] /\ Exists(c)'
  BY <1>1, <1>2, <1>3 DEF New, Exists
<1>. QED  BY <1>2, <1>3 DEF Next, TransferTokens, vars

LEMMA StepAssets ==
    ASSUME AssetsSound, [Next]_vars
    PROVE  AssetsSound'
<1>1. DOMAIN asset = Contracts /\ DOMAIN named = Contracts /\ DOMAIN tokens = Currencies
  BY DEF AssetsSound
<1>2. DOMAIN tokens' = Currencies
  BY <1>1 DEF Next, New, TransferTokens, transfer_balance, vars
<1>3. DOMAIN asset' = Contracts /\ DOMAIN named' = Contracts
  BY <1>1 DEF Next, New, TransferTokens, vars
<1>4. ASSUME NEW c \in Contracts, Exists(c)'
      PROVE  named'[c] \in Names /\ asset'[c] = FieldOf(named'[c])
  <2>1. CASE Exists(c)
    BY <2>1, FieldsAreFixed DEF AssetsSound
  <2>2. CASE ~Exists(c)
    <3>1. PICK d \in Contracts, code \in Codes, issuer \in AssetIssuer : New(d, code, issuer)
      BY <1>4, <2>2 DEF Next, TransferTokens, vars, Exists
    <3>2. /\ CodeError(code) = "Ok" /\ d = c
          /\ named'[c] = [code |-> code, issuer |-> issuer]
          /\ asset'[c] = [code |-> asset_from_string(code), issuer |-> issuer]
      BY <1>1, <1>4, <2>2, <3>1 DEF New, Exists
    <3>. QED  BY <3>2, AcceptedIsName DEF FieldOf
  <2>. QED  BY <2>1, <2>2
<1>. QED  BY <1>2, <1>3, <1>4 DEF AssetsSound

LEMMA AlwaysSound == Spec => []AssetsSound
<1>1. Init => AssetsSound
  BY DEF Init, AssetsSound, Exists
<1>. QED  BY <1>1, StepAssets, PTL DEF Spec

\* For all lengths of codes, numbers of contracts and issuers: after padding and trimming
\* a contract reads and moves the currency that its deployer named.
THEOREM TradesWhatItWasNamedFor == Spec => []TradesNamedCurrency
<1>1. AssetsSound => TradesNamedCurrency
  BY NameKept DEF AssetsSound, TradesNamedCurrency
<1>. QED  BY <1>1, AlwaysSound, PTL

\* And asset_1 and asset_2 return the code the constructor was given.
THEOREM CodesReadBack == Spec => []CodeReadsBack
<1>1. AssetsSound => CodeReadsBack
  BY NameKept DEF AssetsSound, CodeReadsBack, asset_1
<1>. QED  BY <1>1, AlwaysSound, PTL

\* Contracts for different assets never meet in one ledger.
THEOREM LedgersStayApart == Spec => NoSharedLedger
<1>1. ASSUME AssetsSound, [Next]_vars, NEW c \in Contracts, NEW d \in Contracts,
             Exists(c), Exists(d), named[c] # named[d]
      PROVE  View(c)' = View(c) \/ View(d)' = View(d)
  <2>1. asset'[c] = asset[c] /\ asset'[d] = asset[d]
    BY <1>1, FieldsAreFixed
  <2>2. /\ CurrencyOf(asset[c]) \in DOMAIN tokens /\ CurrencyOf(asset[d]) \in DOMAIN tokens
        /\ CurrencyOf(asset[c]) # CurrencyOf(asset[d])
    BY <1>1, NameKept, NamesApart, NameHasLedger DEF AssetsSound
  <2>3. PICK k : \A j \in DOMAIN tokens : j # k => tokens'[j] = tokens[j]
    BY <1>1 DEF Next, New, TransferTokens, transfer_balance, vars
  <2>4. ASSUME NEW e \in Contracts, asset'[e] = asset[e],
               CurrencyOf(asset[e]) \in DOMAIN tokens, CurrencyOf(asset[e]) # k
        PROVE  View(e)' = View(e)
    BY <2>3, <2>4 DEF View, fetch_balance, CurrencyOf
  <2>. QED  BY <2>1, <2>2, <2>4
<1>2. AssetsSound /\ [Next]_vars
        => [\A c, d \in Contracts :
                Exists(c) /\ Exists(d) /\ named[c] # named[d]
                    => View(c)' = View(c) \/ View(d)' = View(d)]_vars
  BY <1>1
<1>. QED  BY <1>2, AlwaysSound, PTL DEF Spec, NoSharedLedger
=============================================================================
