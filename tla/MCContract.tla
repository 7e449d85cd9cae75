----------------------------- MODULE MCContract -----------------------------
(* Small instances of AmmContract for TLC: two users, and a bound on the     *)
(* number of messages (and blocks) of a behaviour.                           *)
EXTENDS AmmContract

CONSTANTS
    AliceTokens, BobTokens,     \* what each user owns of each asset at genesis
    alice, bob,                 \* the users
    MaxCalls                    \* bound on the number of steps of a behaviour

VARIABLE calls                  \* how many steps were taken

MCGenesis ==
    [x \in Assets |-> [a \in Accounts |->
        IF a = alice THEN AliceTokens ELSE IF a = bob THEN BobTokens ELSE 0]]

MCInit == Init /\ calls = 0

Call == calls < MaxCalls /\ Next /\ calls' = calls + 1

Done == calls = MaxCalls /\ UNCHANGED <<vars, calls>>

MCNext == Call \/ Done

MCSpec == MCInit /\ [][MCNext]_<<vars, calls>>

\* No action reads result, so states that differ only there need not be told apart.
WithoutResult == <<bal, pairVars, feeTo, now, calls>>
=============================================================================
