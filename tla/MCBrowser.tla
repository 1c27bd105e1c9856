------------------------------ MODULE MCBrowser ------------------------------
(***************************************************************************)
(* A tab's session and lists, and the pages in it.  They share no state    *)
(* but the balance, which Pages lets move as it likes; so a behaviour is   *)
(* of one or of the other, and the run has the sum of their states.        *)
(*                                                                         *)
(* The pages have a soccer fixture whose line moves, which an admin may    *)
(* resolve, and one of basketball, which has no draw; money fields hold    *)
(* whole, partial and refused amounts.                                     *)
(***************************************************************************)
EXTENDS Tab, Pages

VARIABLE watched

CONSTANTS q1, q2, r1

TwoQuotes == {q1, q2}

OneResult == {r1}

AllLists == {"bets", "balance", "odds"}

\* Of changes and faults together, in a tab: a list of several items has more
\* to confuse.
MaxEvents == IF list = "odds" THEN 3 ELSE 2

JustBalance == {"balance"}

SomeBalances == {5, 250}

SomeTexts ==
    {Empty, Text(2, TRUE, <<>>), Text(2, TRUE, <<5>>),
     Text(0, TRUE, <<3, 3, 3>>),
     [Text(1, TRUE, <<0, 0>>) EXCEPT !.minus = TRUE]}

SomeFixtures ==
    {[id |-> 1, sport |-> "soccer", league |-> 1, origin |-> "mock",
      lines |-> {[home |-> 250, draw |-> 333, away |-> 301],
                 [home |-> 113, draw |-> 333, away |-> 301]}],
     [id |-> 2, sport |-> "basketball", league |-> 2, origin |-> "real",
      lines |-> {[home |-> 187, draw |-> 0, away |-> 205], NoMarket}]}

BrowserInit ==
    /\ Init /\ PagesInit
    /\ list = "odds" => DOMAIN server = {q1, r1}
    /\ account = 250 /\ \A f \in Fixtures : events[f].line.home \notin {0, 113}
    /\ \/ watched = "tab"
       \/ watched = "pages" /\ ~sso /\ ~flag /\ list = "balance"

BrowserNext ==
    /\ UNCHANGED watched
    /\ \/ watched = "tab" /\ Next /\ changes' + faults' <= MaxEvents /\ UNCHANGED pagesVars
       \/ watched = "pages" /\ PagesNext /\ UNCHANGED vars

BrowserSpec ==
    BrowserInit /\ [][BrowserNext]_<<vars, pagesVars, watched>> /\ Fairness
=============================================================================
