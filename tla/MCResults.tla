----------------------------- MODULE MCResults ------------------------------
(***************************************************************************)
(* A small instance of Results: three fixtures of one league, two played   *)
(* and one called off, polled two at a time, beside a mock event an admin  *)
(* resolves.                                                               *)
(***************************************************************************)
EXTENDS Results, TLC

CONSTANTS apifootball, mock, f1, f2, f3, m1, a1, home, away

FootballAndMock == {apifootball, mock}
Fixtures == {f1, f2, f3, m1}
OriginOf == [e \in Events |-> IF e = m1 THEN mock ELSE apifootball]
\* The two fixtures that are played start together.
StartsAt == [e \in Events |-> IF e = f3 THEN 0 ELSE 1]
EndsAt == [e \in Events |-> 2]
Played == [e \in Events |-> IF e \in {f3, m1} THEN None ELSE home]
OneAdmin == {a1}
Sides == {home, away}
=============================================================================
