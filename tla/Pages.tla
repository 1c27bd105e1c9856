-------------------------------- MODULE Pages --------------------------------
(***************************************************************************)
(* The pages that change something: the dashboard with its filters, board  *)
(* and bet slip, and the admin's lists of users and events.  What a page   *)
(* shows are copies, of different ages, of what the services have; a page  *)
(* that is left loses its state.  Amounts are cents, odds as in Money.     *)
(*                                                                         *)
(* The user is logged in, and one user's balance stands for all.  SWR      *)
(* keeps the last answer under every key and shows it until the next: an   *)
(* answer, and a tick, may be of any age.  Drafts and stakes are whole     *)
(* texts, since a keystroke that is refused changes nothing.  A drawer     *)
(* that is closed is not used.  Lines, outcomes and the balance change     *)
(* MaxMoves times.  A definition Name_Variant is Name with one mistake.    *)
(***************************************************************************)
EXTENDS Money, Sequences

CONSTANTS
    None,           \* null
    Fixtures,       \* [id, sport, league, origin, lines: those it may have]
    Balances,       \* what the user's balance may be
    Texts,          \* what may be typed or pasted into a money field
    MaxMoves

ASSUME PagesAssumption ==
    /\ Balances \subseteq Nat /\ MaxMoves \in Nat /\ None \notin Nat
    /\ \A t \in Texts : t \in [minus : BOOLEAN, whole : Nat \union {None},
                              dot : BOOLEAN, frac : Seq(0..9)]
    /\ \A f, g \in Fixtures : /\ f.id = g.id => f = g
                              /\ f.league = g.league => f.sport = g.sport
    /\ \A f \in Fixtures : \A l \in f.lines :
           /\ l \in [home : Nat, draw : Nat, away : Nat]
           /\ 0 \in {l.home, l.away} => l.home = 0 /\ l.away = 0 /\ l.draw = 0

VARIABLES
    events,         \* fixture -> its line and outcome, at the odds service
    account,        \* the balance, at core
    past,           \* what both have been
    moves,
    route,          \* "dashboard", or the "users" or "events" tab of "/admin"
    filters,        \* useDashboardFilters
    board,          \* the events shown: of which filters, and as of when
    balance,        \* useBalance
    slip,           \* DashboardPage's selection
    stake,          \* the text in the slip
    placing,        \* POST /bets under way
    row,            \* the user's row: last balance, draft, was the draft typed
    saving,         \* PUT /admin/users/:id/balance under way
    busy            \* each POST /odds/events/:id/result under way

serverVars == <<events, account, past, moves>>
boardVars == <<filters, board>>
slipVars == <<balance, slip, stake, placing>>
adminVars == <<row, saving, busy>>
pagesVars == <<serverVars, route, boardVars, slipVars, adminVars>>

Outcomes == {"home", "draw", "away"}

Sports == {f.sport : f \in Fixtures}

\* What is served for an event that has no h2h market, or not both its sides.
NoMarket == [home |-> 0, draw |-> 0, away |-> 0]

-----------------------------------------------------------------------------
(* lib/money.ts                                                            *)

\* A text: digits before the point (None if there are none), and after it.
Text(whole, dot, frac) == [minus |-> FALSE, whole |-> whole, dot |-> dot, frac |-> frac]

Empty == Text(None, FALSE, <<>>)

\* MONEY_INPUT_RE.
IsMoneyInput(t) == ~t.minus /\ Len(t.frac) <= 2

\* padEnd(2, "0").
Padded(frac) == frac \o [i \in 1..(2 - Len(frac)) |-> 0]

ParseCents(t) ==
    IF ~IsMoneyInput(t) \/ t = Empty \/ (t.dot /\ t.frac = <<>>)
    THEN None
    ELSE LET f == Padded(t.frac)
         IN  (IF t.whole = None THEN 0 ELSE t.whole) * 100 + f[1] * 10 + f[2]

\* Balances are not negative.
FormatCents(cents) ==
    [minus |-> FALSE, whole |-> cents \div 100, dot |-> TRUE,
     frac |-> <<(cents % 100) \div 10, cents % 10>>]

-----------------------------------------------------------------------------
(* What the components compute                                             *)

NoFilter == [sport |-> None, league |-> None]

\* GET /odds/events takes both parameters, and an event must fit both.
Fetched(f) ==
    {e \in Fixtures : /\ f.sport \in {None, e.sport}
                      /\ f.league \in {None, e.league}}

\* GET /odds/leagues takes the sport.
LeagueChips(f) == {[id |-> e.league, sport |-> e.sport] :
                      e \in {g \in Fixtures : f.sport \in {None, g.sport}}}

\* The draw whatever the sport.
Segments_Always(line) == Outcomes

\* The choices of the slip, and the buttons of the admin's row.
Segments(line) == {"home", "away"} \union (IF line.draw > 0 THEN {"draw"} ELSE {})

\* Math.round(stakeCents * odds), in doubles.
PotentialReturns(stakeCents, odds) == Roundings(stakeCents * odds)

OnTheHalf(amount) == (2 * amount) % (2 * OddsUnit) = OddsUnit

\* Core's Math.round(stakeCents * (odds - 1)), in doubles, where that is a profit.
Profits(stakeCents, odds) == Roundings(stakeCents * (odds - OddsUnit))

OverBalance(cents) == balance # None /\ cents > balance

StakeValid(cents) == cents # None /\ cents > 0

Row(cents) == [balance |-> cents, draft |-> FormatCents(cents), typed |-> FALSE]

\* The draft stays what it was.
Refetched_KeepsDraft(cents) ==
    IF row = None THEN Row(cents) ELSE [row EXCEPT !.balance = cents]

\* The effect on user.balanceCents, and the first render of a row.
Refetched(cents) ==
    IF row # None /\ row.balance = cents THEN row ELSE Row(cents)

Dirty == row.draft # FormatCents(row.balance)

CanConfirm == ParseCents(row.draft) \notin {None, row.balance}

-----------------------------------------------------------------------------

NoBoard == [of |-> None, events |-> <<>>]

PagesInit ==
    /\ \E line \in [Fixtures -> UNION {f.lines : f \in Fixtures}] :
           /\ \A f \in Fixtures : line[f] \in f.lines
           /\ events = [f \in Fixtures |-> [line |-> line[f], outcome |-> None]]
    /\ account \in Balances
    /\ past = {[events |-> events, account |-> account]}
    /\ moves = 0
    /\ route = "dashboard"
    /\ filters = NoFilter /\ board = NoBoard
    /\ balance = None /\ slip = None /\ stake = Empty /\ placing = None
    /\ row = None /\ saving = None /\ busy = {}

(* The services                                                            *)

Moves ==
    /\ moves < MaxMoves
    /\ moves' = moves + 1
    /\ past' = past \union {[events |-> events', account |-> account']}

LineMoves ==
    /\ \E f \in Fixtures : \E line \in f.lines : events' = [events EXCEPT ![f].line = line]
    /\ UNCHANGED <<account, route, boardVars, slipVars, adminVars>>
    /\ Moves

\* Another admin's click, or a poll's result.
EventResolves ==
    /\ \E f \in Fixtures, o \in Outcomes :
           /\ events[f].outcome = None
           /\ events' = [events EXCEPT ![f].outcome = o]
    /\ UNCHANGED <<account, route, boardVars, slipVars, adminVars>>
    /\ Moves

BalanceMoves ==
    /\ account' \in Balances
    /\ UNCHANGED <<events, route, boardVars, slipVars, adminVars>>
    /\ Moves

\* A tick is merged into the answer, if there is one for these filters.  A line
\* without h2h is not published.
Tick ==
    /\ route = "dashboard" /\ board.of = filters
    /\ \E f \in DOMAIN board.events, p \in past :
           /\ p.events[f].line # NoMarket
           /\ board' = [board EXCEPT !.events[f].line = p.events[f].line]
    /\ UNCHANGED <<serverVars, route, filters, slipVars, adminVars>>

\* Of useOdds, which keeps the data of the filters before until it comes, and of
\* EventsPanel, which asks for all events, every 15 seconds and after a result.
BoardAnswered ==
    /\ route # "users"
    /\ LET f == IF route = "events" THEN NoFilter ELSE filters
       IN  \E p \in past :
               board' = [of |-> f, events |-> [e \in Fetched(f) |-> p.events[e]]]
    /\ UNCHANGED <<serverVars, route, filters, slipVars, adminVars>>

\* Fetched or pushed; the layout keeps it from page to page.
BalanceShown ==
    /\ \E p \in past : balance' = p.account
    /\ UNCHANGED <<serverVars, route, boardVars, slip, stake, placing, adminVars>>

\* Of UsersPanel, every 15 seconds and after a save.
UsersAnswered ==
    /\ route = "users"
    /\ \E p \in past : row' = Refetched(p.account)
    /\ UNCHANGED <<serverVars, route, boardVars, slipVars, saving, busy>>

\* The components of the page that is left are unmounted.
Navigate ==
    /\ route' \in {"dashboard", "users", "events"} \ {route}
    /\ filters' = NoFilter /\ board' = NoBoard
    /\ slip' = None /\ stake' = Empty /\ placing' = None
    /\ row' = None /\ saving' = None /\ busy' = {}
    /\ UNCHANGED <<serverVars, balance>>

-----------------------------------------------------------------------------
(* The dashboard                                                           *)

\* The league of the sport before stays.
SelectSport_KeepsLeague(sport) == filters' = [filters EXCEPT !.sport = sport]

SelectSport(sport) == filters' = [sport |-> sport, league |-> None]

SelectLeague(league) ==
    filters' = IF league = None THEN [filters EXCEPT !.league = None]
               ELSE [sport |-> league.sport, league |-> league.id]

\* While the drawer is open its backdrop covers the page.
Filter ==
    /\ route = "dashboard" /\ slip = None
    /\ \/ \E s \in Sports \union {None} : SelectSport(s)
       \/ \E l \in LeagueChips(filters) \union {None} : SelectLeague(l)
    /\ UNCHANGED <<serverVars, route, board, slipVars, adminVars>>

\* A card opens the slip, unless it is inert.
Click ==
    /\ route = "dashboard" /\ slip = None
    /\ \E f \in DOMAIN board.events :
           /\ board.events[f].outcome = None
           /\ slip' = [fixture |-> f, line |-> board.events[f].line, choice |-> "home"]
    /\ UNCHANGED <<serverVars, route, boardVars, balance, stake, placing, adminVars>>

Close ==
    /\ slip # None
    /\ slip' = None
    /\ UNCHANGED <<serverVars, route, boardVars, balance, stake, placing, adminVars>>

Choose ==
    /\ slip # None
    /\ \E c \in Segments(slip.line) : slip' = [slip EXCEPT !.choice = c]
    /\ UNCHANGED <<serverVars, route, boardVars, balance, stake, placing, adminVars>>

TypeStake ==
    /\ slip # None
    /\ stake' \in {t \in Texts : IsMoneyInput(t)}
    /\ UNCHANGED <<serverVars, route, boardVars, balance, slip, placing, adminVars>>

\* submit, with the return the slip has shown.  The button is disabled while a
\* request is under way.
Submit ==
    /\ slip # None /\ placing = None
    /\ LET cents == ParseCents(stake)
       IN  /\ StakeValid(cents) /\ ~OverBalance(cents)
           /\ \E shown \in PotentialReturns(cents, slip.line[slip.choice]) :
                  placing' = [fixture |-> slip.fixture, selection |-> slip.choice,
                              stakeCents |-> cents, odds |-> slip.line[slip.choice],
                              quoted |-> shown]
    /\ UNCHANGED <<serverVars, route, boardVars, balance, slip, stake, adminVars>>

\* The answer closes the slip that is open by now, and an error leaves it.
Placed ==
    /\ placing # None
    /\ placing' = None
    /\ \/ stake' = Empty /\ slip' = None
       \/ UNCHANGED <<stake, slip>>
    /\ UNCHANGED <<serverVars, route, boardVars, balance, adminVars>>

-----------------------------------------------------------------------------
(* The admin                                                               *)

TypeDraft ==
    /\ row # None /\ saving = None
    /\ \E t \in {t \in Texts : IsMoneyInput(t)} :
           row' = [row EXCEPT !.draft = t, !.typed = TRUE]
    /\ UNCHANGED <<serverVars, route, boardVars, slipVars, saving, busy>>

Discard ==
    /\ row # None /\ saving = None
    /\ Dirty
    /\ row' = Row(row.balance)
    /\ UNCHANGED <<serverVars, route, boardVars, slipVars, saving, busy>>

Confirm ==
    /\ row # None /\ saving = None
    /\ Dirty /\ CanConfirm
    /\ saving' = ParseCents(row.draft)
    /\ UNCHANGED <<serverVars, route, boardVars, slipVars, row, busy>>

\* Core sets the balance, or fails.
Saved ==
    /\ saving # None
    /\ saving' = None
    /\ UNCHANGED <<events, route, boardVars, slipVars, row, busy>>
    /\ \/ account' = saving /\ Moves
       \/ UNCHANGED <<account, past, moves>>

\* The buttons that are not disabled: a row's, while it waits for an answer.
ClickResult ==
    /\ route = "events"
    /\ \E f \in DOMAIN board.events :
           /\ board.events[f].outcome = None
           /\ f.origin = "mock"
           /\ \A b \in busy : b.fixture # f
           /\ \E o \in Segments(board.events[f].line) :
                  busy' = busy \union {[fixture |-> f, outcome |-> o]}
    /\ UNCHANGED <<serverVars, route, boardVars, slipVars, row, saving>>

\* Odds records the outcome, whatever it was, or fails.
ResultAnswered ==
    /\ UNCHANGED <<account, route, boardVars, slipVars, row, saving>>
    /\ \E b \in busy :
           /\ busy' = busy \ {b}
           /\ \/ events' = [events EXCEPT ![b.fixture].outcome = b.outcome] /\ Moves
              \/ UNCHANGED <<events, past, moves>>

-----------------------------------------------------------------------------

ServiceStep == LineMoves \/ EventResolves \/ BalanceMoves

AnswerStep == Tick \/ BoardAnswered \/ BalanceShown \/ UsersAnswered

DashboardStep == Filter \/ Click \/ Close \/ Choose \/ TypeStake \/ Submit \/ Placed

AdminStep == TypeDraft \/ Discard \/ Confirm \/ Saved \/ ClickResult \/ ResultAnswered

PagesNext == ServiceStep \/ AnswerStep \/ Navigate \/ DashboardStep \/ AdminStep

PagesSpec == PagesInit /\ [][PagesNext]_pagesVars

-----------------------------------------------------------------------------
(* Properties                                                              *)

\* Whenever the list is refetched and whoever moved the balance meanwhile, a
\* field the admin has not touched since it showed another balance does not offer
\* to save (admin/page.tsx:143-153).
EditsAreExact == row # None => (Dirty => row.typed) /\ (CanConfirm => Dirty)

\* However the board moves under the slip, and choices and texts change, the slip
\* quotes an outcome that has a price, unless the event has no market at all
\* (mappers.ts:20), which core refuses; and when a bet is sent at odds core takes,
\* the return that was shown is the stake and the profit core pays at these odds,
\* give or take the cent by which two roundings of doubles differ: it is exact
\* unless the profit lies on half a cent (BetSlip.tsx:71-73, core's money.ts:19-21).
SlipSells ==
    /\ slip # None => slip.line[slip.choice] > 0 \/ slip.line = NoMarket
    /\ placing # None /\ placing.odds >= OddsUnit =>
           \A profit \in Profits(placing.stakeCents, placing.odds) :
               /\ placing.stakeCents > 0
               /\ placing.quoted - (placing.stakeCents + profit) \in {-1, 0, 1}
               /\ \/ OnTheHalf(placing.stakeCents * placing.odds)
                  \/ placing.quoted = placing.stakeCents + profit

\* Whatever chips are picked in whatever order and whichever answer the board
\* still shows, the league never meets the sport of another: a board that has its
\* answer has every event of the league (useDashboardFilters.ts:21-26).
FiltersAgree ==
    /\ filters.league # None =>
           \E f \in Fixtures : f.league = filters.league /\ f.sport = filters.sport
    /\ board.of # None /\ board.of.league # None =>
           {f \in Fixtures : f.league = board.of.league} \subseteq DOMAIN board.events
=============================================================================
