-------------------------------- MODULE Money --------------------------------
(***************************************************************************)
(* Money is an integer count of cents.  Decimal odds are the one ratio in  *)
(* the money path; here they are integers, OddsUnit of them to 1.0 (the    *)
(* odds column keeps four decimals, so OddsUnit is 10000 in the database). *)
(***************************************************************************)
EXTENDS Integers

CONSTANT OddsUnit

ASSUME MoneyAssumption == OddsUnit \in Nat \ {0}

\* What Math.round makes of amount / OddsUnit when that is computed in doubles:
\* the nearest, and of two that are as near the one the product's last bit says.
Roundings(amount) ==
    LET below == amount \div OddsUnit
    IN  {r \in {below, below + 1} :
            /\ 2 * (r * OddsUnit - amount) <= OddsUnit
            /\ 2 * (amount - r * OddsUnit) <= OddsUnit}

\* Math.round(stake * (odds - 1)), never below zero, with the half rounded up as
\* in exact arithmetic: 250 at 1.13 are 33 here and 32 in doubles.  Nothing that
\* uses it compares two roundings.
ProfitCents(stakeCents, odds) ==
    LET profit == (2 * stakeCents * (odds - OddsUnit) + OddsUnit)
                      \div (2 * OddsUnit)
    IN IF profit > 0 THEN profit ELSE 0
=============================================================================
