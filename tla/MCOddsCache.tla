----------------------------- MODULE MCOddsCache -----------------------------
(***************************************************************************)
(* A small instance of OddsCache: one event of a two-way sport, so that    *)
(* the draw has no price, and lines in tenths.                             *)
(***************************************************************************)
EXTENDS OddsCache

CONSTANTS e1, home, draw

OneEvent == {e1}
Sides == {home, draw}
Quoted(p) == [s \in Sides |-> IF s = home THEN p ELSE 0]
OneLine == {Quoted(15)}
=============================================================================
