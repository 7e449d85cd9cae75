--------------------------- MODULE LiquidityPool ---------------------------
(***************************************************************************)
(* What a liquidity pool promises the owners of its shares, whatever way   *)
(* it computes: which reserves stand behind the shares, and who may gain   *)
(* or lose shares in one call.  Tokens, prices, time and the fee's base    *)
(* are left to the implementations; both are shown to implement this.      *)
(*                                                                         *)
(* Every bound is exact: it compares products of integers, where the       *)
(* implementations round.                                                  *)
(***************************************************************************)
EXTENDS Integers

CONSTANTS
    Accounts,
    Pool,               \* the pool's own account: shares sent there are redeemed
    Zero,               \* the account that holds the locked shares
    NoAccount,          \* no fee recipient is named
    MinimumLiquidity,   \* the shares locked when the pool opens
    MintFee,            \* at most one new share in MintFee is a protocol fee
    Transactional       \* whether a call that fails leaves no trace

VARIABLES
    reserve,            \* asset -> the tokens behind the shares
    supply,             \* the shares there are
    shares,             \* account -> its shares
    feeTo               \* the recipient of the protocol fee

vars == <<reserve, supply, shares, feeTo>>

Sides == {0, 1}         \* the two assets of the pool

Init ==
    /\ reserve = [x \in Sides |-> 0]
    /\ supply = 0
    /\ shares = [a \in Accounts |-> 0]
    /\ feeTo = NoAccount

-----------------------------------------------------------------------------
(* A call that touches shares may first issue a protocol fee.              *)

Fees == 0 .. (IF feeTo = NoAccount THEN 0 ELSE supply \div MintFee)

WithFee(fee) == [a \in Accounts |-> shares[a] + (IF a = feeTo THEN fee ELSE 0)]

-----------------------------------------------------------------------------
(* The calls.  The shares minted or burnt are told from the new supply.    *)

\* The first provider: the minimum is locked, and no more shares are issued than the
\* geometric mean of the deposit.
Open(u) ==
    LET issued == supply'
        added  == [x \in Sides |-> reserve'[x] - reserve[x]]
    IN  /\ supply = 0
        /\ issued > MinimumLiquidity
        /\ \A x \in Sides : added[x] >= 0
        /\ issued * issued <= added[0] * added[1]
        /\ shares' = [[shares EXCEPT ![Zero] = @ + MinimumLiquidity]
                              EXCEPT ![u] = @ + issued - MinimumLiquidity]
        /\ UNCHANGED feeTo

\* A later provider gets at most the part of the shares that the deposit is of the
\* reserves, on either side.
Provide(u, fee) ==
    LET minted == supply' - supply - fee
    IN  /\ supply > 0 /\ minted > 0
        /\ \A x \in Sides :
                /\ reserve[x] > 0
                /\ minted * reserve[x] <= (reserve'[x] - reserve[x]) * (supply + fee)
        /\ shares' = [WithFee(fee) EXCEPT ![u] = @ + minted]
        /\ UNCHANGED feeTo

\* A provider leaves with at most the part of the reserves that the shares are of the
\* supply.  Shares the pool's account held go with the caller's.
Redeem(u, fee) ==
    LET burnt == supply + fee - supply'
        own   == burnt - shares[Pool]
    IN  /\ supply' > 0 /\ burnt > 0
        /\ own \in 0 .. shares[u]
        /\ \A x \in Sides :
                reserve'[x] * (supply + fee) >= reserve[x] * supply'
        /\ shares' = [[WithFee(fee) EXCEPT ![u] = @ - own] EXCEPT ![Pool] = @ - shares[Pool]]
        /\ UNCHANGED feeTo

\* A trade, or tokens that were sent to the pool: the product of the reserves does not
\* fall, and no share moves.
Trade ==
    /\ reserve'[0] * reserve'[1] >= reserve[0] * reserve[1]
    /\ \A x \in Sides : reserve[x] > 0 => reserve'[x] > 0
    /\ UNCHANGED <<supply, shares, feeTo>>

NameRecipient ==
    /\ feeTo' \in Accounts
    /\ UNCHANGED <<reserve, supply, shares>>

-----------------------------------------------------------------------------
(* What a call that fails leaves behind when it is not rolled back.        *)

\* The fee has been issued, and the caller's shares wait in the pool's account.
Strand(u, fee) ==
    LET moved == WithFee(fee)[u] - shares'[u]
    IN  /\ ~Transactional
        /\ moved \in 0 .. shares[u]
        /\ shares' = [[WithFee(fee) EXCEPT ![u] = @ - moved] EXCEPT ![Pool] = @ + moved]
        /\ supply' = supply + fee
        /\ UNCHANGED <<reserve, feeTo>>

\* The minimum has been locked, and the first provider got nothing.
Lock ==
    /\ ~Transactional
    /\ supply = 0
    /\ supply' = MinimumLiquidity
    /\ shares' = [shares EXCEPT ![Zero] = @ + MinimumLiquidity]
    /\ UNCHANGED <<reserve, feeTo>>

-----------------------------------------------------------------------------
Next ==
    \/ Trade
    \/ NameRecipient
    \/ Lock
    \/ \E u \in Accounts \ {Pool} :
            \/ Open(u)
            \/ \E fee \in Fees : Provide(u, fee) \/ Redeem(u, fee) \/ Strand(u, fee)

Spec == Init /\ [][Next]_vars
=============================================================================
