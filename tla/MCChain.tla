------------------------------ MODULE MCChain ------------------------------
(* A small instance of TestChain for TLC.  When every transaction the bound  *)
(* allows is executed, the chain rests.                                      *)
EXTENDS TestChain

Rest ==
    /\ \A u \in Users : nonce[u] > MaxNonce
    /\ block = NotSealing /\ notified = 0
    /\ UNCHANGED chainVars

MCNext == ChainNext \/ Rest

MCSpec == ChainInit /\ [][MCNext]_chainVars /\ AuthoringIsFair

\* No action reads what a call returned, so states that differ only there need not be
\* told apart.
WithoutResult == <<bal, palletVars, now, pairState, nonce, nodeVars>>
=============================================================================
