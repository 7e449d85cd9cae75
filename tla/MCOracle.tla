------------------------------ MODULE MCOracle ------------------------------
(* A small instance of AmmOracle for TLC: one user, and a bound on the       *)
(* number of extrinsics and blocks of a behaviour.                           *)
EXTENDS AmmOracle

CONSTANTS
    AliceTokens,                \* what the user owns of each asset at genesis
    alice,                      \* the user
    MaxCalls                    \* bound on the number of steps of a behaviour

VARIABLE calls                  \* how many steps were taken

MCGenesis ==
    [x \in Assets |-> [a \in Accounts |-> IF a = alice THEN AliceTokens ELSE 0]]

MCInit == OracleInit /\ calls = 0

Call == calls < MaxCalls /\ OracleNext /\ calls' = calls + 1

Done == calls = MaxCalls /\ UNCHANGED <<oracleVars, calls>>

MCNext == Call \/ Done

MCSpec == MCInit /\ [][MCNext]_<<oracleVars, calls>>

\* No action reads result, so states that differ only there need not be told apart.
WithoutResult == <<bal, poolVars, shareVars, feeTo, now, history, exact, calls>>
=============================================================================
