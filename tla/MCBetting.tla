------------------------------ MODULE MCBetting ------------------------------
(***************************************************************************)
(* Small instances of Betting.  Two bets share one player whose balance    *)
(* covers either stake and not both; the first also has a price whose      *)
(* profit rounds to zero.  A MaxColumn of 4 is too narrow for the larger   *)
(* profit, 5.                                                              *)
(***************************************************************************)
EXTENDS BettingInvariant, TLC

CONSTANTS b1, b2, alice, e1, e2, home, away, m1, m2

OneBet == {b1}
TwoBets == {b1, b2}
OneUser == {alice}
OneEvent == {e1}
TwoEvents == {e1, e2}
Sides == {home, away}
OneMsg == {m1}
TwoMsgs == {m1, m2}

AllAlice == [b \in Bets |-> alice]
SameEvent == [b \in Bets |-> e1]
OwnEvent == (b1 :> e1 @@ b2 :> e2)
BothHome == [b \in Bets |-> home]
OppositeSides == (b1 :> home @@ b2 :> away)
Stakes == [b \in Bets |-> IF b = b1 THEN 2 ELSE 3]
CoversOne == [u \in Users |-> 4]
CoversBoth == [u \in Users |-> 5]

\* Ten odds units to 1.0: 1.2 pays nothing on a stake of 2 cents and 1 cent
\* on 3; 2.5 pays 3 cents on 2 and 5 on 3.
LowOdds == {25}
BothOdds == {12, 25}
=============================================================================
