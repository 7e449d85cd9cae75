------------------------------ MODULE MCEvents ------------------------------
(* Small instances of AmmEvents for TLC: two users, and a bound on the       *)
(* number of extrinsics (and blocks) of a behaviour.                         *)
EXTENDS AmmEvents

CONSTANTS
    AliceTokens, BobTokens,     \* what each user owns of each asset at genesis
    alice, bob,                 \* the users
    MaxCalls                    \* bound on the number of steps of a behaviour

VARIABLE calls                  \* how many steps were taken

MCGenesis ==
    [x \in Assets |-> [a \in Accounts |->
        IF a = alice THEN AliceTokens ELSE IF a = bob THEN BobTokens ELSE 0]]

MCInit == EventsInit /\ calls = 0

Call == calls < MaxCalls /\ EventsNext /\ calls' = calls + 1

Done == calls = MaxCalls /\ UNCHANGED <<eventVars, calls>>

MCNext == Call \/ Done

MCSpec == MCInit /\ [][MCNext]_<<eventVars, calls>>

\* No action reads result or seenSync, so states that differ only there need not be told
\* apart; a run that asks for seenSync does without this view.
WithoutResult ==
    <<bal, poolVars, shareVars, feeTo, now, seenShares, seenReserve, seenFlow, calls>>
=============================================================================
