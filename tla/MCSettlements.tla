---------------------------- MODULE MCSettlements ----------------------------
(***************************************************************************)
(* A small instance of Settlements: three bets of two users on two days,   *)
(* one that names its user, behind a message that never parses, with or    *)
(* without rows from before.  The leaderboard asks for two bets and has    *)
(* room for two.  With the earlier rows three players come to qualify:     *)
(* Cat with two bets from before, Ann with a loss, and Bob whose second    *)
(* bet brings him to Cat's ROI and takes Ann off the board.                *)
(***************************************************************************)
EXTENDS Settlements, TLC

CONSTANTS ann, bob, cat, b1, b2, b3, b4, b5, b6, b7, Ann

FourMessages == 1..4
Bet(b, user, name, at, stake, won, payout) ==
    [bet |-> b, user |-> user, name |-> name, at |-> at,
     stake |-> stake, won |-> won, payout |-> payout]
BetOf == <<
    Bet(b1, ann, None, 0, 1, TRUE, 1),
    Bet(b2, ann, None, 0, 1, TRUE, 1),
    Bet(b3, ann, Ann, 3, 6, FALSE, 0),
    Bet(b4, bob, None, 1, 3, TRUE, 2)>>
ThreeRows == <<
    RowOf(b5, cat, None, 0, 2, 3),
    RowOf(b6, bob, None, 1, 1, -1),
    RowOf(b7, cat, None, 2, 2, -2)>>
Poison == {1}
ThreeConns == 1..3
=============================================================================
