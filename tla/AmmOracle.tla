----------------------------- MODULE AmmOracle -----------------------------
(***************************************************************************)
(* The price oracle of the pallet: a reader takes the difference of two    *)
(* readings of a cumulative price and divides it by the time between them. *)
(* History variables record what the readings ought to add up to, the      *)
(* spot rate of every unit of time that has passed.                        *)
(***************************************************************************)
EXTENDS AmmPallet

VARIABLES
    history,            \* per asset, the sum of the spot rates over time
    exact               \* no multiplication of _update has saturated so far

oracleVars == <<vars, history, exact>>

SpotRate(x) == IF PositiveReserves(reserve[0], reserve[1]) THEN Rate(x) ELSE 0

\* The multiplication that _update adds to a cumulative price does not saturate.
PriceStepFits ==
    TimeElapsed > 0 => \A x \in Assets : Rate(x) <= MaxBalance \div TimeElapsed

OracleInit ==
    /\ Init
    /\ history = [x \in Assets |-> 0]
    /\ exact = TRUE

OracleNext ==
    /\ Next
    /\ history' = [x \in Assets |-> history[x] + SpotRate(x) * (now' - now)]
    /\ exact' = (exact /\ (tsLast' # tsLast => PriceStepFits))

OracleSpec == OracleInit /\ [][OracleNext]_oracleVars

\* As long as the multiplication does not saturate, the cumulative prices brought up to
\* the present are the time-weighted sums of all spot rates, modulo the width of the
\* type: _update closes every period with the reserves that were in force during it,
\* whatever donations, failed calls and idle blocks lie in between.
OracleExact ==
    exact => \A x \in Assets :
        (price[x] + SpotRate(x) * (now - tsLast)) % (MaxBalance + 1)
            = history[x] % (MaxBalance + 1)
=============================================================================
