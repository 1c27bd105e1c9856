----------------------------- MODULE MCAccounts -----------------------------
(***************************************************************************)
(* A small instance of Accounts: three requests and two adjustments, one   *)
(* up and one down, of one new user.                                       *)
(***************************************************************************)
EXTENDS Accounts, TLC

CONSTANTS ann, r1, r2, r3, a1, a2

OneUser == {ann}
ThreeRequests == {r1, r2, r3}
AllAnn == [r \in Requests |-> ann]
TwoAdjustments == {a1, a2}
OfAnn == [a \in Adjustments |-> ann]
UpAndDown == [a \in Adjustments |-> IF a = a1 THEN 6 ELSE 1]
Stakes == [r \in Requests |-> IF r = r1 THEN 2 ELSE 3]
=============================================================================
