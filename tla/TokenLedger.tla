---------------------------- MODULE TokenLedger ----------------------------
(***************************************************************************)
(* The token balances the AMM trades in, as it sees them: orml-tokens      *)
(* behind the runtime's Extension (fetch_balance, transfer_balance).  The  *)
(* ledger of one asset is a function from accounts to balances.  The       *)
(* existential deposit is zero and nothing is locked or reserved, so the   *)
(* free balance is the total balance.                                      *)
(***************************************************************************)
EXTENDS AmmMath, FiniteSets

CONSTANT Accounts       \* every account id in play

ASSUME AccountsAssumption == IsFiniteSet(Accounts)

Assets == {0, 1}        \* T::Asset0 and T::Asset1

Other(x) == 1 - x

Ledger == [Accounts -> Balance]

-----------------------------------------------------------------------------
(* One transfer.  The AMM checks the sender's balance; orml-tokens refuses *)
(* a credit beyond the width of the type.                                  *)

\* Mutant of CanMove: the sender's balance is not checked.
CanMoveUnchecked(ledger, from, to, amount) ==
    from = to \/ ledger[to] <= MaxBalance - amount

CanMove(ledger, from, to, amount) ==
    /\ amount <= ledger[from]
    /\ from = to \/ ledger[to] <= MaxBalance - amount

\* Mutant of Moved: both balances are read before either is written.
MovedStale(ledger, from, to, amount) ==
    [ledger EXCEPT ![from] = ledger[from] - amount, ![to] = ledger[to] + amount]

Moved(ledger, from, to, amount) ==
    [[ledger EXCEPT ![from] = @ - amount] EXCEPT ![to] = @ + amount]

MoveError(ledger, from, amount) ==
    IF ledger[from] < amount THEN "InsufficientBalance" ELSE "Overflow"

-----------------------------------------------------------------------------
(* A transfer of asset 0 followed by one of asset 1, as two statements     *)
(* that each end in "?": the first one stands when the second one fails.   *)

CanMoveBoth(bal, from, to, amount) ==
    \A x \in Assets : CanMove(bal[x], from, to, amount[x])

MovedInOrder(bal, from, to, amount) ==
    [x \in Assets |->
        IF \A y \in 0 .. x : CanMove(bal[y], from, to, amount[y])
        THEN Moved(bal[x], from, to, amount[x])
        ELSE bal[x]]

MoveBothError(bal, from, to, amount) ==
    LET failed == IF CanMove(bal[0], from, to, amount[0]) THEN 1 ELSE 0
    IN  MoveError(bal[failed], from, amount[failed])

-----------------------------------------------------------------------------
(* The sum of a ledger, as the number of its units: Units(f) holds one     *)
(* element for every unit of every account.                                *)

Units(f) == UNION {{a} \X (1 .. f[a]) : a \in Accounts}

SumOf(f) == Cardinality(Units(f))
=============================================================================
