----------------------------- MODULE BrowserProofs -----------------------------
(***************************************************************************)
(* Proofs about the browser: its pages (Pages) and its session, socket and *)
(* lists (Tab), which MCBrowser runs side by side.                         *)
(***************************************************************************)
EXTENDS Tab, Pages, SequenceTheorems, TLAPS

-----------------------------------------------------------------------------
(* For any fixtures, lines, balances and texts, and services that move as  *)
(* often as they like: the filters agree with each other and with the      *)
(* board, the slip shows what core pays but for a cent of rounding, and an *)
(* admin's field offers to save only what was typed.                       *)
(* What the pages show is of some state of the past, so the invariant says *)
(* of every such state what the server's own has (ServicesOk), and of each *)
(* part of a page what it took from there.                                 *)

Lines == UNION {f.lines : f \in Fixtures}

Quoted == [line : Lines, outcome : Outcomes \union {None}]

ServicesOk ==
    /\ events \in [Fixtures -> Quoted]
    /\ account \in Nat
    /\ past \subseteq [events : [Fixtures -> Quoted], account : Nat]

\* A league comes with its sport.
Picked ==
    {f \in [sport : Sports \union {None},
            league : {e.league : e \in Fixtures} \union {None}] :
        f.league # None =>
            \E e \in Fixtures : e.league = f.league /\ e.sport = f.sport}

BoardOk ==
    /\ filters \in Picked
    /\ \/ board = NoBoard
       \/ \E f \in Picked : board \in [of : {f}, events : [Fetched(f) -> Quoted]]

Typed ==
    [minus : BOOLEAN, whole : Nat \union {None}, dot : BOOLEAN, frac : Seq(0..9)]

SlipOk ==
    /\ stake \in Typed
    /\ slip # None => /\ slip \in [fixture : Fixtures, line : Lines, choice : Outcomes]
                      /\ slip.choice \in Segments(slip.line)

PlacingOk ==
    placing # None =>
        /\ placing.stakeCents \in Nat \ {0}
        /\ placing.odds \in Nat
        /\ placing.quoted \in PotentialReturns(placing.stakeCents, placing.odds)

RowOk ==
    /\ row # None => /\ row \in [balance : Nat, draft : Typed, typed : BOOLEAN]
                     /\ ~row.typed => row.draft = FormatCents(row.balance)
    /\ saving # None => saving \in Nat

BusyOk == busy \subseteq [fixture : Fixtures, outcome : Outcomes]

PagesInv == ServicesOk /\ BoardOk /\ SlipOk /\ PlacingOk /\ RowOk /\ BusyOk

-----------------------------------------------------------------------------
(* Money                                                                   *)

LEMMA PaddedCents ==
    ASSUME NEW s \in Seq(0..9), Len(s) <= 2
    PROVE  Padded(s)[1] \in 0..9 /\ Padded(s)[2] \in 0..9
<1> DEFINE z == [i \in 1..(2 - Len(s)) |-> 0]
<1>1. Len(s) \in Nat
  BY LenProperties
<1>2. z \in Seq(0..9) /\ Len(z) = 2 - Len(s)
  <2>1. 2 - Len(s) \in Nat
    BY <1>1
  <2>2. z \in [1..(2 - Len(s)) -> 0..9]
    OBVIOUS
  <2> QED BY <2>1, <2>2
<1>3. /\ s \o z \in Seq(0..9)
      /\ Len(s \o z) = 2
  BY <1>1, <1>2, ConcatProperties
<1>4. Padded(s) = s \o z
  BY DEF Padded
<1> HIDE DEF z
<1> QED BY <1>3, <1>4, ElementOfSeq

\* What is parsed is an amount.
LEMMA ParsedCents ==
    ASSUME NEW t \in Typed, ParseCents(t) # None
    PROVE  ParseCents(t) \in Nat
<1> DEFINE f == Padded(t.frac)
           whole == IF t.whole = None THEN 0 ELSE t.whole
<1>1. t.frac \in Seq(0..9) /\ Len(t.frac) <= 2
  BY DEF Typed, ParseCents, IsMoneyInput
<1>2. f[1] \in 0..9 /\ f[2] \in 0..9
  BY <1>1, PaddedCents
<1>3. whole \in Nat
  BY DEF Typed
<1>4. ParseCents(t) = whole * 100 + f[1] * 10 + f[2]
  BY DEF ParseCents
<1> HIDE DEF f, whole
<1> QED BY <1>2, <1>3, <1>4

\* A balance that is shown reads back as it is.
LEMMA RoundTrip ==
    ASSUME NEW cents \in Nat
    PROVE  /\ FormatCents(cents) \in Typed
           /\ ParseCents(FormatCents(cents)) = cents
<1> DEFINE t == FormatCents(cents)
           a == (cents % 100) \div 10
           b == cents % 10
           s == <<a, b>>
           z == [i \in 1..(2 - Len(s)) |-> 0]
<1>1. a \in 0..9 /\ b \in 0..9 /\ cents \div 100 \in Nat
  OBVIOUS
<1>2. /\ t.minus = FALSE /\ t.whole = cents \div 100 /\ t.dot = TRUE /\ t.frac = s
      /\ t \in [minus : BOOLEAN, whole : Nat, dot : BOOLEAN, frac : Seq(0..9)]
  BY <1>1 DEF FormatCents
<1>3. s \in Seq(0..9) /\ Len(s) = 2 /\ s[1] = a /\ s[2] = b /\ s # <<>>
  BY <1>1
<1>4. z \in Seq(0..9) /\ Len(z) = 0
  <2>1. z \in [1..0 -> 0..9]
    BY <1>3
  <2> QED BY <2>1
<1>5. Padded(t.frac) = s \o z
  BY <1>2 DEF Padded
<1>6. Padded(t.frac)[1] = a /\ Padded(t.frac)[2] = b
  BY <1>3, <1>4, <1>5, ConcatProperties
<1>7. IsMoneyInput(t) /\ t # Empty
  BY <1>2, <1>3 DEF IsMoneyInput, Empty, Text
<1>8. t.whole # None
  BY <1>1, <1>2, PagesAssumption
<1>9. ParseCents(t) = t.whole * 100 + Padded(t.frac)[1] * 10 + Padded(t.frac)[2]
  BY <1>2, <1>3, <1>7, <1>8 DEF ParseCents
<1>10. ParseCents(t) = (cents \div 100) * 100 + a * 10 + b
  BY <1>2, <1>6, <1>9
<1>11. (cents \div 100) * 100 + a * 10 + b = cents
  OBVIOUS
<1> QED BY <1>2, <1>10, <1>11 DEF Typed

LEMMA RemainderIsUnique ==
    ASSUME NEW d \in Nat \ {0}, NEW a \in Nat, NEW q \in Int, NEW r \in 0..(d - 1),
           a = d * q + r
    PROVE  a % d = r
<1> DEFINE p == a \div d
           m == a % d
<1>1. p \in Int /\ m \in 0..(d - 1) /\ a = d * p + m
  OBVIOUS
<1> HIDE DEF p, m
<1>2. d * (p - q) = r - m
  BY <1>1
<1>3. p - q = 0
  <2>1. CASE p - q >= 1
    <3>1. d * (p - q) >= d
      BY <1>1, <2>1
    <3> QED BY <1>1, <1>2, <3>1
  <2>2. CASE p - q <= -1
    <3>1. d * (p - q) <= -d
      BY <1>1, <2>2
    <3> QED BY <1>1, <1>2, <3>1
  <2> QED BY <1>1, <2>1, <2>2
<1>4. m = r
  BY <1>1, <1>2, <1>3
<1> QED BY <1>4 DEF m

\* A rounding is an integer at most half a unit away.
LEMMA RoundingIsNear ==
    ASSUME NEW amount \in Int, NEW r \in Roundings(amount)
    PROVE  /\ r \in Int
           /\ 2 * (r * OddsUnit - amount) <= OddsUnit
           /\ 2 * (amount - r * OddsUnit) <= OddsUnit
<1>1. amount \div OddsUnit \in Int
  BY MoneyAssumption
<1> QED BY <1>1 DEF Roundings

\* Two that are as near to the same amount are the same, or it lies between them.
LEMMA RoundingsAreClose ==
    ASSUME NEW u \in Nat \ {0}, NEW a \in Int, NEW q \in Int, NEW r \in Int,
           2 * (q * u - a) <= u, 2 * (a - q * u) <= u,
           2 * (r * u - a) <= u, 2 * (a - r * u) <= u
    PROVE  /\ q \in (r - 1)..(r + 1)
           /\ q # r => 2 * a = 2 * q * u - u \/ 2 * a = 2 * q * u + u
<1>1. (q - r) * u <= u /\ (r - q) * u <= u
  OBVIOUS
<1>2. q - r <= 1
  <2>1. CASE q - r >= 2
    <3>1. (q - r) * u >= 2 * u
      BY <2>1
    <3> QED BY <1>1, <3>1
  <2> QED BY <2>1
<1>3. r - q <= 1
  <2>1. CASE r - q >= 2
    <3>1. (r - q) * u >= 2 * u
      BY <2>1
    <3> QED BY <1>1, <3>1
  <2> QED BY <2>1
<1>4. q \in (r - 1)..(r + 1)
  BY <1>2, <1>3
<1>5. CASE q = r + 1
  <2>1. q * u = r * u + u
    BY <1>5
  <2>2. 2 * (q * u) = 2 * q * u
    OBVIOUS
  <2> QED BY <1>4, <2>1, <2>2
<1>6. CASE q = r - 1
  <2>1. q * u = r * u - u
    BY <1>6
  <2>2. 2 * (q * u) = 2 * q * u
    OBVIOUS
  <2> QED BY <1>4, <2>1, <2>2
<1> QED BY <1>4, <1>5, <1>6

LEMMA HalvesAreSeen ==
    ASSUME NEW amount \in Nat, NEW q \in Int,
           \/ 2 * amount = 2 * q * OddsUnit - OddsUnit
           \/ 2 * amount = 2 * q * OddsUnit + OddsUnit
    PROVE  OnTheHalf(amount)
<1> DEFINE d == 2 * OddsUnit
<1>1. d \in Nat \ {0} /\ OddsUnit \in 0..(d - 1) /\ 2 * amount \in Nat
  BY MoneyAssumption
<1>2. PICK p \in {q - 1, q} : 2 * amount = 2 * p * OddsUnit + OddsUnit
  <2>1. 2 * (q - 1) * OddsUnit + OddsUnit = 2 * q * OddsUnit - OddsUnit
    BY MoneyAssumption
  <2> QED BY <2>1
<1>3. p \in Int /\ 2 * amount = d * p + OddsUnit
  BY <1>2, MoneyAssumption
<1> HIDE DEF d
<1>4. (2 * amount) % d = OddsUnit
  BY <1>1, <1>3, RemainderIsUnique
<1> QED BY <1>4 DEF OnTheHalf, d

\* The return that is shown and the profit that is paid are rounded apart.
LEMMA ReturnIsStakeAndProfit ==
    ASSUME NEW cents \in Nat, NEW odds \in Nat, odds >= OddsUnit,
           NEW quoted \in PotentialReturns(cents, odds), NEW profit \in Profits(cents, odds)
    PROVE  /\ quoted - (cents + profit) \in {-1, 0, 1}
           /\ OnTheHalf(cents * odds) \/ quoted = cents + profit
<1> DEFINE a == cents * odds
           b == cents * (odds - OddsUnit)
<1>1. OddsUnit \in Nat \ {0} /\ a \in Nat /\ b \in Nat
  BY MoneyAssumption
<1>2. a = b + cents * OddsUnit
  BY <1>1
<1>3. quoted \in Roundings(a) /\ profit \in Roundings(b)
  BY DEF PotentialReturns, Profits
<1> HIDE DEF a, b
<1> SUFFICES /\ quoted - (cents + profit) \in {-1, 0, 1}
             /\ OnTheHalf(a) \/ quoted = cents + profit
  BY DEF a
<1> DEFINE r == cents + profit
<1>4. /\ quoted \in Int
      /\ 2 * (quoted * OddsUnit - a) <= OddsUnit
      /\ 2 * (a - quoted * OddsUnit) <= OddsUnit
  BY <1>1, <1>3, RoundingIsNear
<1>5. /\ profit \in Int
      /\ 2 * (profit * OddsUnit - b) <= OddsUnit
      /\ 2 * (b - profit * OddsUnit) <= OddsUnit
  BY <1>1, <1>3, RoundingIsNear
<1>6. r \in Int /\ r * OddsUnit - a = profit * OddsUnit - b
  <2>1. r * OddsUnit = cents * OddsUnit + profit * OddsUnit
    BY <1>1, <1>5
  <2>2. cents * OddsUnit \in Int /\ profit * OddsUnit \in Int
    BY <1>1, <1>5
  <2> QED BY <1>1, <1>2, <1>5, <2>1, <2>2
<1>7. 2 * (r * OddsUnit - a) <= OddsUnit /\ 2 * (a - r * OddsUnit) <= OddsUnit
  <2>1. r * OddsUnit \in Int /\ profit * OddsUnit \in Int
    BY <1>1, <1>5, <1>6
  <2> QED BY <1>1, <1>5, <1>6, <2>1
<1> HIDE DEF r
<1>8. /\ quoted \in (r - 1)..(r + 1)
      /\ quoted # r =>
             \/ 2 * a = 2 * quoted * OddsUnit - OddsUnit
             \/ 2 * a = 2 * quoted * OddsUnit + OddsUnit
  BY <1>1, <1>4, <1>6, <1>7, RoundingsAreClose
<1>9. OnTheHalf(a) \/ quoted = r
  BY <1>1, <1>4, <1>8, HalvesAreSeen
<1>10. quoted - r \in {-1, 0, 1}
  BY <1>4, <1>6, <1>8
<1> QED BY <1>9, <1>10 DEF r

\* What a slip offers has a price, if the event has any.
LEMMA SlipIsPriced ==
    ASSUME SlipOk, slip # None
    PROVE  /\ slip.line[slip.choice] \in Nat
           /\ slip.line[slip.choice] > 0 \/ slip.line = NoMarket
<1>1. /\ slip.line \in [home : Nat, draw : Nat, away : Nat]
      /\ 0 \in {slip.line.home, slip.line.away} =>
             slip.line.home = 0 /\ slip.line.away = 0 /\ slip.line.draw = 0
  BY PagesAssumption DEF SlipOk, Lines
<1>2. \/ slip.choice \in {"home", "away"}
      \/ slip.choice = "draw" /\ slip.line.draw > 0
  <2>1. slip.choice \in {"home", "away"} \union (IF slip.line.draw > 0 THEN {"draw"} ELSE {})
    BY DEF SlipOk, Segments
  <2> QED BY <2>1
<1>3. CASE slip.choice = "draw" /\ slip.line.draw > 0
  BY <1>1, <1>3
<1>4. CASE slip.choice \in {"home", "away"}
  <2>1. CASE slip.line.home = 0 \/ slip.line.away = 0
    <3>1. slip.line.home = 0 /\ slip.line.away = 0 /\ slip.line.draw = 0
      BY <1>1, <2>1
    <3>2. slip.line = NoMarket
      BY <1>1, <3>1 DEF NoMarket
    <3> QED BY <1>1, <1>4, <3>2
  <2>2. CASE slip.line.home # 0 /\ slip.line.away # 0
    BY <1>1, <1>4, <2>2
  <2> QED BY <2>1, <2>2
<1> QED BY <1>2, <1>3, <1>4

LEMMA EmptyIsTyped == Empty \in Typed
  BY DEF Empty, Text, Typed

LEMMA RowsAreOk ==
    ASSUME NEW cents \in Nat
    PROVE  /\ Row(cents) \in [balance : Nat, draft : Typed, typed : BOOLEAN]
           /\ Row(cents).draft = FormatCents(Row(cents).balance)
  BY RoundTrip DEF Row

-----------------------------------------------------------------------------
(* Each part of the invariant, where a step can disturb it                 *)

LEMMA Initially == PagesInit => PagesInv
<1> SUFFICES ASSUME PagesInit PROVE PagesInv
  OBVIOUS
<1>1. ServicesOk
  <2>1. PICK line \in [Fixtures -> UNION {f.lines : f \in Fixtures}] :
            events = [f \in Fixtures |-> [line |-> line[f], outcome |-> None]]
    BY DEF PagesInit
  <2>2. events \in [Fixtures -> Quoted]
    BY <2>1 DEF Quoted, Lines
  <2>3. account \in Nat
    BY PagesAssumption DEF PagesInit
  <2>4. past = {[events |-> events, account |-> account]}
    BY DEF PagesInit
  <2>5. [events |-> events, account |-> account] \in [events : [Fixtures -> Quoted], account : Nat]
    BY <2>2, <2>3
  <2> QED BY <2>2, <2>3, <2>4, <2>5 DEF ServicesOk
<1>2. BoardOk
  BY DEF PagesInit, BoardOk, Picked, NoFilter
<1>3. SlipOk
  BY EmptyIsTyped DEF PagesInit, SlipOk
<1>4. PlacingOk /\ RowOk /\ BusyOk
  BY DEF PagesInit, PlacingOk, RowOk, BusyOk
<1> QED BY <1>1, <1>2, <1>3, <1>4 DEF PagesInv

LEMMA PastGrows ==
    ASSUME ServicesOk, events' \in [Fixtures -> Quoted], account' \in Nat, Moves
    PROVE  ServicesOk'
  BY DEF ServicesOk, Moves

LEMMA ServicesStay ==
    ASSUME PagesInv, [PagesNext]_pagesVars
    PROVE  ServicesOk'
<1> USE DEF PagesInv
<1>1. CASE UNCHANGED serverVars
  BY <1>1 DEF serverVars, ServicesOk
<1>2. CASE LineMoves
  <2>1. events' \in [Fixtures -> Quoted]
    <3>1. PICK f \in Fixtures : \E line \in f.lines : events' = [events EXCEPT ![f].line = line]
      BY <1>2 DEF LineMoves
    <3>2. PICK line \in f.lines : events' = [events EXCEPT ![f].line = line]
      BY <3>1
    <3>3. line \in Lines /\ events[f] \in Quoted
      BY DEF Lines, ServicesOk
    <3>4. [events[f] EXCEPT !.line = line] \in Quoted
      BY <3>3 DEF Quoted
    <3> QED BY <3>2, <3>4 DEF ServicesOk
  <2> QED BY <1>2, <2>1, PastGrows DEF LineMoves, ServicesOk
<1>3. CASE EventResolves
  <2>1. events' \in [Fixtures -> Quoted]
    <3>2. PICK f \in Fixtures, o \in Outcomes : events' = [events EXCEPT ![f].outcome = o]
      BY <1>3 DEF EventResolves
    <3>3. o \in Outcomes /\ events[f] \in Quoted
      BY DEF ServicesOk
    <3>4. [events[f] EXCEPT !.outcome = o] \in Quoted
      BY <3>3 DEF Quoted
    <3> QED BY <3>2, <3>4 DEF ServicesOk
  <2> QED BY <1>3, <2>1, PastGrows DEF EventResolves, ServicesOk
<1>4. CASE BalanceMoves
  BY <1>4, PastGrows, PagesAssumption DEF BalanceMoves, ServicesOk
<1>5. CASE Saved
  <2>1. CASE account' = saving /\ Moves
    BY <1>5, <2>1, PastGrows DEF Saved, ServicesOk, RowOk
  <2>2. CASE UNCHANGED <<account, past, moves>>
    BY <1>5, <2>2 DEF Saved, ServicesOk
  <2> QED BY <1>5, <2>1, <2>2 DEF Saved
<1>6. CASE ResultAnswered
  <2>1. PICK b \in busy :
            \/ events' = [events EXCEPT ![b.fixture].outcome = b.outcome] /\ Moves
            \/ UNCHANGED <<events, past, moves>>
    BY <1>6 DEF ResultAnswered
  <2>2. CASE events' = [events EXCEPT ![b.fixture].outcome = b.outcome] /\ Moves
    <3>1. b.outcome \in Outcomes /\ b.fixture \in Fixtures
      BY <2>1 DEF BusyOk
    <3>2. events[b.fixture] \in Quoted
      BY <3>1 DEF ServicesOk
    <3>3. [events[b.fixture] EXCEPT !.outcome = b.outcome] \in Quoted
      BY <3>1, <3>2 DEF Quoted
    <3>4. events' \in [Fixtures -> Quoted]
      BY <2>2, <3>1, <3>3 DEF ServicesOk
    <3> QED BY <1>6, <2>2, <3>4, PastGrows DEF ResultAnswered, ServicesOk
  <2>3. CASE UNCHANGED <<events, past, moves>>
    BY <1>6, <2>3 DEF ResultAnswered, ServicesOk
  <2> QED BY <2>1, <2>2, <2>3
<1>7. \/ UNCHANGED serverVars
      \/ LineMoves \/ EventResolves \/ BalanceMoves \/ Saved \/ ResultAnswered
  BY DEF pagesVars, PagesNext, ServiceStep, AnswerStep, Navigate, DashboardStep, AdminStep,
         Tick, BoardAnswered, BalanceShown, UsersAnswered, Filter, Click, Close, Choose,
         TypeStake, Submit, Placed, TypeDraft, Discard, Confirm, ClickResult
<1> QED BY <1>1, <1>2, <1>3, <1>4, <1>5, <1>6, <1>7

LEMMA PickedStays ==
    ASSUME BoardOk, Filter
    PROVE  filters' \in Picked
<1>1. filters \in Picked
  BY DEF BoardOk
<1>2. CASE \E s \in Sports \union {None} : SelectSport(s)
  BY <1>2 DEF SelectSport, Picked
<1>3. CASE \E l \in LeagueChips(filters) \union {None} : SelectLeague(l)
  <2>1. PICK l \in LeagueChips(filters) \union {None} : SelectLeague(l)
    BY <1>3
  <2>2. CASE l = None
    <3>1. filters' = [filters EXCEPT !.league = None]
      BY <2>1, <2>2 DEF SelectLeague
    <3> QED BY <1>1, <3>1 DEF Picked
  <2>3. CASE l # None
    <3>1. filters' = [sport |-> l.sport, league |-> l.id]
      BY <2>1, <2>3 DEF SelectLeague
    <3>2. PICK e \in Fixtures : l = [id |-> e.league, sport |-> e.sport]
      BY <2>3 DEF LeagueChips
    <3> QED BY <3>1, <3>2 DEF Picked, Sports
  <2> QED BY <2>2, <2>3
<1> QED BY <1>2, <1>3 DEF Filter

LEMMA BoardStays ==
    ASSUME PagesInv, [PagesNext]_pagesVars
    PROVE  BoardOk'
<1> USE DEF PagesInv
<1>1. CASE UNCHANGED boardVars
  BY <1>1 DEF boardVars, BoardOk
<1>2. CASE Tick
  <2>1. filters' = filters
    BY <1>2 DEF Tick
  <2>2. PICK f \in DOMAIN board.events, p \in past :
            board' = [board EXCEPT !.events[f].line = p.events[f].line]
    BY <1>2 DEF Tick
  <2>3. board # NoBoard
    BY <2>2 DEF NoBoard
  <2>4. PICK g \in Picked : board \in [of : {g}, events : [Fetched(g) -> Quoted]]
    BY <2>3 DEF BoardOk
  <2>5. f \in Fixtures /\ f \in Fetched(g)
    BY <2>2, <2>4 DEF Fetched
  <2>6. p.events[f].line \in Lines /\ board.events[f] \in Quoted
    BY <2>2, <2>4, <2>5 DEF ServicesOk, Quoted
  <2>7. [board.events[f] EXCEPT !.line = p.events[f].line] \in Quoted
    BY <2>6 DEF Quoted
  <2>8. board' \in [of : {g}, events : [Fetched(g) -> Quoted]]
    BY <2>2, <2>4, <2>5, <2>7
  <2> QED BY <2>1, <2>4, <2>8 DEF BoardOk
<1>3. CASE BoardAnswered
  <2> DEFINE f == IF route = "events" THEN NoFilter ELSE filters
  <2>1. filters' = filters
    BY <1>3 DEF BoardAnswered
  <2>2. f \in Picked
    BY DEF BoardOk, Picked, NoFilter
  <2>3. PICK p \in past :
            board' = [of |-> f, events |-> [e \in Fetched(f) |-> p.events[e]]]
    BY <1>3 DEF BoardAnswered
  <2>4. \A e \in Fetched(f) : p.events[e] \in Quoted
    BY <2>3 DEF ServicesOk, Fetched
  <2> HIDE DEF f
  <2>5. board' \in [of : {f}, events : [Fetched(f) -> Quoted]]
    BY <2>3, <2>4
  <2> QED BY <2>1, <2>2, <2>5 DEF BoardOk
<1>4. CASE Navigate
  BY <1>4 DEF Navigate, BoardOk, Picked, NoFilter
<1>5. CASE Filter
  BY <1>5, PickedStays DEF Filter, BoardOk
<1>6. UNCHANGED boardVars \/ Tick \/ BoardAnswered \/ Navigate \/ Filter
  BY DEF pagesVars, PagesNext, ServiceStep, AnswerStep, DashboardStep, AdminStep,
         LineMoves, EventResolves, BalanceMoves, BalanceShown, UsersAnswered, Click, Close,
         Choose, TypeStake, Submit, Placed, TypeDraft, Discard, Confirm, Saved, ClickResult,
         ResultAnswered
<1> QED BY <1>1, <1>2, <1>3, <1>4, <1>5, <1>6

LEMMA SlipStays ==
    ASSUME PagesInv, [PagesNext]_pagesVars
    PROVE  SlipOk'
<1> USE DEF PagesInv
<1>1. CASE UNCHANGED <<slip, stake>>
  BY <1>1 DEF SlipOk
<1>2. CASE slip' = None /\ stake' \in {stake, Empty}
  BY <1>2, EmptyIsTyped DEF SlipOk
<1>3. CASE Click
  <2>1. PICK f \in DOMAIN board.events :
            slip' = [fixture |-> f, line |-> board.events[f].line, choice |-> "home"]
    BY <1>3 DEF Click
  <2>2. board # NoBoard
    BY <2>1 DEF NoBoard
  <2>3. PICK g \in Picked : board \in [of : {g}, events : [Fetched(g) -> Quoted]]
    BY <2>2 DEF BoardOk
  <2>4. f \in Fixtures /\ board.events[f].line \in Lines
    BY <2>1, <2>3 DEF Fetched, Quoted
  <2>5. stake' = stake
    BY <1>3 DEF Click
  <2> QED BY <2>1, <2>4, <2>5 DEF SlipOk, Segments, Outcomes
<1>4. CASE Choose
  <2>1. PICK c \in Segments(slip.line) : slip' = [slip EXCEPT !.choice = c]
    BY <1>4 DEF Choose
  <2>2. c \in Outcomes /\ slip # None /\ stake' = stake
    BY <1>4, <2>1 DEF Choose, Segments, Outcomes
  <2>3. slip' \in [fixture : Fixtures, line : Lines, choice : Outcomes]
    BY <2>1, <2>2 DEF SlipOk
  <2>4. slip'.line = slip.line /\ slip'.choice = c
    BY <2>1, <2>2 DEF SlipOk
  <2>5. slip'.choice \in Segments(slip'.line)
    BY <2>1, <2>4
  <2> QED BY <2>2, <2>3, <2>5 DEF SlipOk
<1>5. CASE TypeStake
  BY <1>5, PagesAssumption DEF TypeStake, SlipOk, Typed
<1>6. \/ UNCHANGED <<slip, stake>>
      \/ slip' = None /\ stake' \in {stake, Empty}
      \/ Click \/ Choose \/ TypeStake
  BY DEF pagesVars, slipVars, PagesNext, ServiceStep, AnswerStep, DashboardStep, AdminStep,
         LineMoves, EventResolves, BalanceMoves, Tick, BoardAnswered, BalanceShown,
         UsersAnswered, Navigate, Filter, Close, Submit, Placed, TypeDraft, Discard, Confirm,
         Saved, ClickResult, ResultAnswered
<1> QED BY <1>1, <1>2, <1>3, <1>4, <1>5, <1>6

LEMMA PlacingStays ==
    ASSUME PagesInv, [PagesNext]_pagesVars
    PROVE  PlacingOk'
<1> USE DEF PagesInv
<1>1. CASE placing' \in {placing, None}
  BY <1>1 DEF PlacingOk
<1>2. CASE Submit
  <2> DEFINE cents == ParseCents(stake)
             odds == slip.line[slip.choice]
  <2>1. /\ slip # None /\ cents # None /\ cents > 0
    BY <1>2 DEF Submit, StakeValid
  <2>2. PICK quoted \in PotentialReturns(cents, odds) :
            placing' = [fixture |-> slip.fixture, selection |-> slip.choice,
                        stakeCents |-> cents, odds |-> odds, quoted |-> quoted]
    BY <1>2 DEF Submit
  <2>3. cents \in Nat \ {0}
    BY <2>1, ParsedCents DEF SlipOk
  <2>4. odds \in Nat
    BY <2>1, SlipIsPriced
  <2> HIDE DEF cents, odds
  <2> QED BY <2>2, <2>3, <2>4 DEF PlacingOk
<1>3. placing' \in {placing, None} \/ Submit
  BY DEF pagesVars, slipVars, PagesNext, ServiceStep, AnswerStep, DashboardStep, AdminStep,
         LineMoves, EventResolves, BalanceMoves, Tick, BoardAnswered, BalanceShown,
         UsersAnswered, Navigate, Filter, Click, Close, Choose, TypeStake, Placed, TypeDraft,
         Discard, Confirm, Saved, ClickResult, ResultAnswered
<1> QED BY <1>1, <1>2, <1>3

LEMMA RowStays ==
    ASSUME PagesInv, [PagesNext]_pagesVars
    PROVE  RowOk'
<1> USE DEF PagesInv
<1>1. CASE row' \in {row, None} /\ saving' \in {saving, None}
  BY <1>1 DEF RowOk
<1>2. CASE UsersAnswered
  <2>1. PICK p \in past : row' = Refetched(p.account)
    BY <1>2 DEF UsersAnswered
  <2>2. p.account \in Nat /\ saving' = saving
    BY <1>2, <2>1 DEF UsersAnswered, ServicesOk
  <2>3. row' \in {row, Row(p.account)}
    BY <2>1 DEF Refetched
  <2> QED BY <2>2, <2>3, RowsAreOk DEF RowOk
<1>3. CASE TypeDraft
  <2>1. PICK t \in Texts : row' = [row EXCEPT !.draft = t, !.typed = TRUE]
    BY <1>3 DEF TypeDraft
  <2>2. t \in Typed /\ row # None /\ saving' = saving
    BY <1>3, <2>1, PagesAssumption DEF TypeDraft, Typed
  <2> QED BY <2>1, <2>2 DEF RowOk
<1>4. CASE Discard
  <2>1. row # None /\ row' = Row(row.balance) /\ saving' = saving
    BY <1>4 DEF Discard
  <2>2. row.balance \in Nat
    BY <2>1 DEF RowOk
  <2> QED BY <2>1, <2>2, RowsAreOk DEF RowOk
<1>5. CASE Confirm
  <2>1. row # None /\ row' = row /\ saving' = ParseCents(row.draft)
    BY <1>5 DEF Confirm
  <2>2. row.draft \in Typed /\ ParseCents(row.draft) # None
    BY <1>5, <2>1 DEF Confirm, CanConfirm, RowOk
  <2> QED BY <2>1, <2>2, ParsedCents DEF RowOk
<1>6. \/ row' \in {row, None} /\ saving' \in {saving, None}
      \/ UsersAnswered \/ TypeDraft \/ Discard \/ Confirm
  BY DEF pagesVars, adminVars, PagesNext, ServiceStep, AnswerStep, DashboardStep, AdminStep,
         LineMoves, EventResolves, BalanceMoves, Tick, BoardAnswered, BalanceShown,
         Navigate, Filter, Click, Close, Choose, TypeStake, Submit, Placed, Saved,
         ClickResult, ResultAnswered
<1> QED BY <1>1, <1>2, <1>3, <1>4, <1>5, <1>6

LEMMA BusyStays ==
    ASSUME PagesInv, [PagesNext]_pagesVars
    PROVE  BusyOk'
<1> USE DEF PagesInv
<1>1. CASE busy' \subseteq busy
  BY <1>1 DEF BusyOk
<1>2. CASE ClickResult
  <2>1. PICK f \in DOMAIN board.events : \E o \in Segments(board.events[f].line) :
            busy' = busy \union {[fixture |-> f, outcome |-> o]}
    BY <1>2 DEF ClickResult
  <2>2. PICK o \in Segments(board.events[f].line) :
            busy' = busy \union {[fixture |-> f, outcome |-> o]}
    BY <2>1
  <2>3. board # NoBoard
    BY <2>1 DEF NoBoard
  <2>4. PICK g \in Picked : board \in [of : {g}, events : [Fetched(g) -> Quoted]]
    BY <2>3 DEF BoardOk
  <2>5. f \in Fixtures /\ o \in Outcomes
    BY <2>1, <2>4 DEF Fetched, Segments, Outcomes
  <2> QED BY <2>2, <2>5 DEF BusyOk
<1>3. busy' \subseteq busy \/ ClickResult
  BY DEF pagesVars, adminVars, PagesNext, ServiceStep, AnswerStep, DashboardStep, AdminStep,
         LineMoves, EventResolves, BalanceMoves, Tick, BoardAnswered, BalanceShown,
         UsersAnswered, Navigate, Filter, Click, Close, Choose, TypeStake, Submit, Placed,
         TypeDraft, Discard, Confirm, Saved, ResultAnswered
<1> QED BY <1>1, <1>2, <1>3

-----------------------------------------------------------------------------
(* The theorems                                                            *)

\* What the pages hold comes from what the services have been, and a league
\* that is picked comes with its sport.
THEOREM PagesInvariance == PagesSpec => []PagesInv
<1>1. PagesInv /\ [PagesNext]_pagesVars => PagesInv'
  BY ServicesStay, BoardStays, SlipStays, PlacingStays, RowStays, BusyStays DEF PagesInv
<1> QED BY <1>1, Initially, PTL DEF PagesSpec

\* The filters and the board agree, whatever is picked and whatever comes late
\* (useDashboardFilters.ts:21-26).
THEOREM FiltersAlwaysAgree == PagesSpec => []FiltersAgree
<1>1. PagesInv => FiltersAgree
  <2> SUFFICES ASSUME PagesInv PROVE FiltersAgree
    OBVIOUS
  <2>1. filters.league # None =>
            \E f \in Fixtures : f.league = filters.league /\ f.sport = filters.sport
    BY DEF PagesInv, BoardOk, Picked
  <2>2. ASSUME board.of # None, board.of.league # None
        PROVE  {f \in Fixtures : f.league = board.of.league} \subseteq DOMAIN board.events
    <3>1. board # NoBoard
      BY <2>2 DEF NoBoard
    <3>2. PICK g \in Picked : board \in [of : {g}, events : [Fetched(g) -> Quoted]]
      BY <3>1 DEF PagesInv, BoardOk
    <3>3. board.of = g /\ DOMAIN board.events = Fetched(g)
      BY <3>2
    <3>4. PICK e \in Fixtures : e.league = g.league /\ e.sport = g.sport
      BY <2>2, <3>2, <3>3 DEF Picked
    <3> QED BY <3>3, <3>4, PagesAssumption DEF Fetched
  <2> QED BY <2>1, <2>2 DEF FiltersAgree
<1> QED BY <1>1, PagesInvariance, PTL

\* The slip quotes what has a price, and shows the return core pays but for the
\* cent of two roundings (BetSlip.tsx:71-73, core's money.ts:19-21).
THEOREM SlipAlwaysSells == PagesSpec => []SlipSells
<1>1. PagesInv => SlipSells
  <2> SUFFICES ASSUME PagesInv PROVE SlipSells
    OBVIOUS
  <2>1. slip # None => slip.line[slip.choice] > 0 \/ slip.line = NoMarket
    BY SlipIsPriced DEF PagesInv
  <2>2. ASSUME placing # None, placing.odds >= OddsUnit,
               NEW profit \in Profits(placing.stakeCents, placing.odds)
        PROVE  /\ placing.stakeCents > 0
               /\ placing.quoted - (placing.stakeCents + profit) \in {-1, 0, 1}
               /\ \/ OnTheHalf(placing.stakeCents * placing.odds)
                  \/ placing.quoted = placing.stakeCents + profit
    <3>1. /\ placing.stakeCents \in Nat \ {0} /\ placing.odds \in Nat
          /\ placing.quoted \in PotentialReturns(placing.stakeCents, placing.odds)
      BY <2>2 DEF PagesInv, PlacingOk
    <3>2. placing.stakeCents > 0 /\ placing.stakeCents \in Nat
      BY <3>1
    <3> QED BY <2>2, <3>1, <3>2, ReturnIsStakeAndProfit
  <2> QED BY <2>1, <2>2 DEF SlipSells
<1> QED BY <1>1, PagesInvariance, PTL

\* An admin's field offers to save only what was typed (admin/page.tsx:143-153).
THEOREM EditsAlwaysExact == PagesSpec => []EditsAreExact
<1>1. PagesInv => EditsAreExact
  <2> SUFFICES ASSUME PagesInv, row # None
               PROVE  (Dirty => row.typed) /\ (CanConfirm => Dirty)
    BY DEF EditsAreExact
  <2>1. row.balance \in Nat /\ row.typed \in BOOLEAN
    BY DEF PagesInv, RowOk
  <2>2. Dirty => row.typed
    BY <2>1 DEF PagesInv, RowOk, Dirty
  <2>3. CanConfirm => Dirty
    BY <2>1, RoundTrip DEF CanConfirm, Dirty
  <2> QED BY <2>2, <2>3
<1> QED BY <1>1, PagesInvariance, PTL

-----------------------------------------------------------------------------
(* For any events, any number of changes and faults of every kind: a quiet *)
(* tab shows what the server has, of all items but those it was not told   *)
(* of.                                                                     *)
(* A tab that is not quiet may show anything, so the invariant says what   *)
(* will bring each item up to date (CatchesUp): that it is missed or       *)
(* current already, that a notification with the server's version is       *)
(* coming (BringsLatest), that the hook asks or will ask at the connect.   *)
(* Of the notifications that are not late the last one brings what the     *)
(* server has (LastIsLatest); that it still does when the first is relayed *)
(* is because they are published in the order of their versions (InOrder). *)

\* A notification of the item is under way that does not take the tab back.
Coming(i) ==
    \/ \E s \in sends : s.item = i /\ ~s.late
    \/ \E k \in DOMAIN pushes : pushes[k].item = i /\ ~pushes[k].late

\* One is under way that brings what the server has, or will have read it.
BringsLatest(i) ==
    \/ \E s \in sends : s.item = i /\ ~s.late /\ s.version \in {Unread, server[i]}
    \/ \E k \in DOMAIN pushes :
           pushes[k].item = i /\ ~pushes[k].late /\ pushes[k].version = server[i]

LastIsLatest == \A i \in Items : Coming(i) => BringsLatest(i)

\* Nothing is ahead of the server, and nothing that is not late is behind what was
\* published before it.
InOrder ==
    /\ \A i \in DOMAIN server : server[i] <= changes
    /\ \A s \in sends : s.item \in DOMAIN server /\ s.version <= server[s.item]
    /\ \A k \in DOMAIN pushes :
           /\ pushes[k].item \in DOMAIN server
           /\ pushes[k].version <= server[pushes[k].item]
    /\ \A k \in DOMAIN pushes : \A s \in sends :
           s.item = pushes[k].item /\ ~s.late /\ s.version # Unread
               => pushes[k].version <= s.version
    /\ \A k, m \in DOMAIN pushes :
           m > k /\ pushes[m].item = pushes[k].item /\ ~pushes[m].late
               => pushes[k].version <= pushes[m].version

\* The next connect makes the hook ask.
Reconnects == OnConnect /\ socket # "up"

Current(i, data, behind) ==
    i \in behind \/ data[i] = server[i] \/ BringsLatest(i) \/ Reconnects

CatchesUp ==
    /\ \A i \in DOMAIN shown :
           Current(i, shown, missed) \/ (OnConnect /\ fetch.at # "none")
    /\ fetch.at = "answered" =>
           \A i \in DOMAIN fetch.answer : Current(i, fetch.answer, fetch.since)

\* What is not public is there as a whole, or on its way.
HasData ==
    ~Public =>
        /\ DOMAIN server = Items
        /\ fetch.at = "answered" => DOMAIN fetch.answer = Items
        /\ token # "none" => shown # NoData \/ fetch.at # "none"

Known == DOMAIN shown \subseteq DOMAIN server /\ DOMAIN fetch.answer \subseteq DOMAIN server

TabInv == TypeOK /\ InOrder /\ LastIsLatest /\ CatchesUp /\ HasData /\ Known

-----------------------------------------------------------------------------
(* Types                                                                   *)

\* The sets below depend on the list that is watched, which no step changes.
LEMMA SetsStay ==
    ASSUME list' = list
    PROVE  Items' = Items /\ Data' = Data /\ Sends' = Sends /\ Pushes' = Pushes
<1>1. Items' = Items
  BY DEF Items
<1> QED BY <1>1 DEF Data, Sends, Pushes

LEMMA DataIsKnown ==
    ASSUME NEW data \in Data
    PROVE  DOMAIN data \subseteq Items /\ data \in [DOMAIN data -> Versions]
<1>1. PICK known \in SUBSET Items : data \in [known -> Versions]
  BY DEF Data
<1> QED BY <1>1

LEMMA KnownIsData ==
    ASSUME NEW known \in SUBSET Items, NEW data \in [known -> Versions]
    PROVE  data \in Data
  BY DEF Data

LEMMA NoDataIsData == NoData \in Data
<1>1. NoData \in [{} -> Versions]
  BY DEF NoData
<1> QED BY <1>1, KnownIsData

Fetches == [at : {"none", "asked", "answered", "retry"}, answer : Data, since : SUBSET Items]

LEMMA FetchesAreTyped ==
    ASSUME NEW at \in {"none", "asked", "answered", "retry"}
    PROVE  Fetch(at) \in Fetches /\ Fetch(at).at = at /\ Fetch(at).answer = NoData
  BY NoDataIsData DEF Fetch, Fetches

LEMMA FaultsAreCounted ==
    ASSUME TypeOK, NEW kind, Fault(kind)
    PROVE  faults' \in 0..MaxFaults
  BY TabAssumption DEF TypeOK, Fault

\* The list's data, its fetch and what was missed.
ListOk == shown \in Data /\ fetch \in Fetches /\ missed \subseteq Items

\* What is sent of the list.
SourceOk ==
    /\ changes \in Versions
    /\ server \in Data
    /\ sends \subseteq Sends
    /\ pushes \in Seq(Pushes)

SessionOk ==
    /\ {sso, flag} \subseteq BOOLEAN
    /\ page \in {"app", "leaving", "away", "failed"}
    /\ token \in {"none", "good", "stale"}
    /\ {refresh, renew} \subseteq {"idle", "asked", "granted", "refused"}
    /\ socket \in {"off", "asking", "refusing", "up", "down", "dead"}
    /\ list \in Lists
    /\ faults \in 0..MaxFaults

LEMMA TypeParts == TypeOK <=> SessionOk /\ SourceOk /\ ListOk
  BY DEF TypeOK, SessionOk, SourceOk, ListOk, Fetches

LEMMA TypePartsLater == TypeOK' <=> SessionOk' /\ SourceOk' /\ ListOk'
  BY DEF TypeOK, SessionOk, SourceOk, ListOk, Fetches

LEMMA SourceStays ==
    ASSUME SourceOk, list' = list, UNCHANGED <<sourceVars, pushes>>
    PROVE  SourceOk'
  BY SetsStay DEF SourceOk, sourceVars

LEMMA ListOkStays ==
    ASSUME list' = list, shown' \in Data, fetch' \in Fetches, missed' \subseteq Items
    PROVE  ListOk'
  BY SetsStay DEF ListOk, Fetches

LEMMA NewsOfUpdate ==
    ASSUME TypeOK, NEW i \in Items, changes < MaxChanges
    PROVE  /\ changes + 1 \in Versions
           /\ [j \in DOMAIN server \union {i} |->
                  IF j = i THEN changes + 1 ELSE server[j]] \in Data
<1>1. changes + 1 \in Versions
  BY TabAssumption DEF TypeOK, Versions
<1>2. DOMAIN server \subseteq Items /\ server \in [DOMAIN server -> Versions]
  BY DataIsKnown DEF TypeOK
<1>3. DOMAIN server \union {i} \in SUBSET Items
  BY <1>2
<1>4. [j \in DOMAIN server \union {i} |-> IF j = i THEN changes + 1 ELSE server[j]]
          \in [DOMAIN server \union {i} -> Versions]
  BY <1>1, <1>2
<1> QED BY <1>1, <1>3, <1>4, KnownIsData

LEMMA PushTypes ==
    ASSUME TypeOK, pushes # <<>>
    PROVE  /\ Head(pushes) \in Pushes /\ Tail(pushes) \in Seq(Pushes)
           /\ Head(pushes) = pushes[1] /\ 1 \in DOMAIN pushes
  BY DEF TypeOK

LEMMA MissesTypes ==
    ASSUME TypeOK, NEW items \in SUBSET Items, Misses(items)
    PROVE  fetch' \in Fetches /\ missed' \subseteq Items
<1>1. fetch \in Fetches /\ missed \subseteq Items
  BY DEF TypeOK, Fetches
<1>2. fetch.since \union items \in SUBSET Items
  BY <1>1 DEF Fetches
<1> QED BY <1>1, <1>2 DEF Misses, Fetches

LEMMA WritesTypes ==
    ASSUME TypeOK, NEW data, Writes(data)
    PROVE  /\ fetch' \in Fetches /\ shown' = data
           /\ fetch'.at \in {"none", "retry"}
           /\ fetch'.answer \in {fetch.answer, NoData}
<1>1. fetch \in Fetches
  BY DEF TypeOK, Fetches
<1> QED BY <1>1, FetchesAreTyped DEF Writes, Fetches

LEMMA PushedTypes ==
    ASSUME TypeOK, pushes # <<>>, OnPush(Head(pushes))
    PROVE  shown' \in Data /\ fetch' \in Fetches /\ missed' \subseteq Items
<1> DEFINE push == Head(pushes)
<1>1. push.item \in Items /\ push.version \in Versions
  BY PushTypes DEF Pushes
<1>2. shown \in Data /\ missed \subseteq Items
  BY DEF TypeOK
<1> HIDE DEF push
<1>3. Learns(push) => missed' \subseteq Items
  BY <1>1, <1>2 DEF Learns
<1>4. CASE OnBets
  BY <1>2, <1>4, FetchesAreTyped DEF OnBets, Asks
<1>5. CASE OnBalance(push)
  <2>1. [i \in Items |-> push.version] \in [Items -> Versions]
    BY <1>1
  <2>2. [i \in Items |-> push.version] \in Data
    BY <2>1, KnownIsData
  <2> QED BY <1>3, <1>5, <2>2, WritesTypes DEF OnBalance
<1>6. CASE OnOdds(push)
  <2>1. shown \in [DOMAIN shown -> Versions] /\ DOMAIN shown \in SUBSET Items
    BY <1>2, DataIsKnown
  <2>2. [shown EXCEPT ![push.item] = push.version] \in [DOMAIN shown -> Versions]
    BY <1>1, <2>1
  <2>3. [shown EXCEPT ![push.item] = push.version] \in Data
    BY <2>1, <2>2, KnownIsData
  <2> QED BY <1>2, <1>3, <1>6, <2>3, WritesTypes DEF OnOdds
<1> QED BY <1>4, <1>5, <1>6 DEF OnPush, push

LEMMA LoadedTypes ==
    ASSUME TypeOK, UserLoaded
    PROVE  /\ token' = "good" /\ flag' = TRUE
           /\ socket' \in {"off", "asking", "refusing", "up", "down", "dead"}
           /\ socket' = socket \/ (socket' = "asking" /\ socket = "off")
  BY DEF UserLoaded, ToSession, TypeOK

LEMMA KeyTypes ==
    ASSUME TypeOK, KeyAppears \/ Asks
    PROVE  fetch' \in Fetches /\ (fetch' = fetch \/ fetch' = Fetch("asked"))
  BY FetchesAreTyped DEF KeyAppears, Asks, TypeOK, Fetches

LEMMA AnswersAreTyped ==
    ASSUME TypeOK, Answer(refresh) \/ Answer(renew)
    PROVE  /\ faults' \in 0..MaxFaults
           /\ Answer(refresh) => refresh' \in {"granted", "refused"}
           /\ Answer(renew) => renew' \in {"granted", "refused"}
  BY FaultsAreCounted DEF TypeOK, Answer

LEMMA ForgetsTypes ==
    ASSUME TypeOK, list' = list, Forgets
    PROVE  ListOk' /\ token' = "none" /\ refresh' = "idle" /\ renew' = "idle" /\ socket' = "off"
  BY FetchesAreTyped, NoDataIsData, ListOkStays DEF Forgets

LEMMA ListUntouched ==
    ASSUME TypeOK, UNCHANGED <<list, listVars>>
    PROVE  ListOk'
  BY ListOkStays, TypeParts DEF ListOk, listVars

LEMMA SessionTypes ==
    ASSUME TypeOK, SessionStep
    PROVE  TypeOK' /\ list' = list /\ UNCHANGED <<sourceVars, pushes>>
<1>1. list' = list /\ UNCHANGED <<sourceVars, pushes>>
  BY DEF SessionStep, RefreshStep, RenewStep, Load, Login, Callback, Logout, SignedOut,
         RefreshAnswered, RefreshGranted, RefreshRefused, RenewStarts, RenewAnswered,
         RenewGranted, Expires, Sleep, Elsewhere
<1>2. SourceOk'
  BY <1>1, SourceStays, TypeParts
<1>3. SessionOk' /\ ListOk'
  <2>1. CASE Load
    <3>1. fetch' \in Fetches
      BY <2>1, FetchesAreTyped DEF Load
    <3>2. ListOk'
      BY <1>1, <2>1, <3>1, NoDataIsData, ListOkStays DEF Load
    <3> QED BY <2>1, <3>2 DEF Load, TypeOK, SessionOk
  <2>2. CASE Login
    BY <2>2, ForgetsTypes DEF Login, TypeOK, SessionOk
  <2>3. CASE Callback
    <3>1. CASE page' = "app" /\ UserLoaded /\ Asks /\ UNCHANGED <<shown, missed, faults>>
      <4>1. ListOk'
        BY <1>1, <3>1, KeyTypes, ListOkStays, TypeParts DEF ListOk
      <4> QED BY <2>3, <3>1, <4>1, LoadedTypes DEF Callback, TypeOK, SessionOk
    <3>2. CASE /\ Fault("network") /\ page' = "failed"
               /\ UNCHANGED <<token, flag, socket, listVars>>
      BY <1>1, <2>3, <3>2, ListUntouched, FaultsAreCounted DEF Callback, TypeOK, SessionOk
    <3> QED BY <2>3, <3>1, <3>2 DEF Callback
  <2>4. CASE SignedOut
    <3>1. CASE /\ page' = "away" /\ sso' = FALSE /\ flag' \in {flag, FALSE}
               /\ Forgets /\ UNCHANGED faults
      BY <1>1, <3>1, ForgetsTypes DEF TypeOK, SessionOk
    <3>2. CASE /\ Fault("network") /\ page' = "app"
               /\ UNCHANGED <<sso, flag, token, refresh, renew, socket, listVars>>
      BY <1>1, <3>2, ListUntouched, FaultsAreCounted DEF TypeOK, SessionOk
    <3> QED BY <2>4, <3>1, <3>2 DEF SignedOut
  <2>5. CASE RefreshGranted \/ RenewGranted
    <3>1. UserLoaded /\ KeyAppears /\ UNCHANGED <<shown, missed>>
      BY <2>5 DEF RefreshGranted, RenewGranted
    <3>2. ListOk'
      BY <1>1, <3>1, KeyTypes, ListOkStays, TypeParts DEF ListOk
    <3> QED BY <2>5, <3>1, <3>2, LoadedTypes DEF RefreshGranted, RenewGranted, TypeOK, SessionOk
  <2>6. CASE Logout
    BY <1>1, <2>6, ListUntouched DEF Logout, TypeOK, SessionOk
  <2>7. CASE RefreshAnswered
    BY <1>1, <2>7, AnswersAreTyped, ListUntouched DEF RefreshAnswered, TypeOK, SessionOk
  <2>8. CASE RefreshRefused
    BY <1>1, <2>8, ListUntouched DEF RefreshRefused, TypeOK, SessionOk
  <2>9. CASE RenewStarts
    BY <1>1, <2>9, ListUntouched DEF RenewStarts, TypeOK, SessionOk
  <2>10. CASE RenewAnswered
    BY <1>1, <2>10, AnswersAreTyped, ListUntouched DEF RenewAnswered, TypeOK, SessionOk
  <2>11. CASE Expires
    <3>1. refresh' \in {refresh, "asked"} /\ renew' \in {renew, "idle"}
      BY <2>11 DEF Expires, StartRefresh
    <3> QED BY <1>1, <2>11, <3>1, ListUntouched DEF Expires, TypeOK, SessionOk
  <2>12. CASE Sleep
    BY <1>1, <2>12, FaultsAreCounted, ListUntouched DEF Sleep, TypeOK, SessionOk
  <2>13. CASE Elsewhere
    <3>1. sso' \in BOOLEAN /\ flag' \in BOOLEAN
      BY <2>13 DEF Elsewhere, TypeOK
    <3> QED BY <1>1, <2>13, <3>1, FaultsAreCounted, ListUntouched DEF Elsewhere, TypeOK, SessionOk
  <2> QED
    BY <2>1, <2>2, <2>3, <2>4, <2>5, <2>6, <2>7, <2>8, <2>9, <2>10, <2>11, <2>12, <2>13
    DEF SessionStep, RefreshStep, RenewStep
<1> QED BY <1>1, <1>2, <1>3, TypePartsLater

LEMMA PassedByTypes ==
    ASSUME TypeOK, NEW items \in SUBSET Items, NEW connection, PassedBy(items, connection),
           list' = list, shown' = shown
    PROVE  ListOk'
<1>1. shown' \in Data /\ fetch \in Fetches /\ missed \subseteq Items
  BY DEF TypeOK, Fetches
<1>2. fetch' \in Fetches /\ missed' \subseteq Items
  BY <1>1, MissesTypes DEF PassedBy
<1> QED BY <1>1, <1>2, ListOkStays

LEMMA SocketTypes ==
    ASSUME TypeOK, SocketStep
    PROVE  TypeOK' /\ list' = list /\ UNCHANGED sourceVars
<1>1. list' = list /\ UNCHANGED sourceVars
  BY DEF SocketStep, SocketAccepted, SocketRefused, SocketDrops, SocketReconnects,
         Relay, RelayLosesQueue
<1>2. pushes \in Seq(Pushes) /\ Pushes' = Pushes /\ Data' = Data /\ Sends' = Sends
  BY <1>1, SetsStay DEF TypeOK
<1>3. pushes' \in Seq(Pushes)
  <2>1. \/ pushes' = pushes
        \/ pushes # <<>> /\ pushes' = Tail(pushes)
        \/ pushes' = <<>>
    BY DEF SocketStep, SocketAccepted, SocketRefused, SocketDrops, SocketReconnects,
           Relay, RelayLosesQueue
  <2>2. pushes # <<>> => Tail(pushes) \in Seq(Pushes)
    BY PushTypes
  <2>3. <<>> \in Seq(Pushes)
    OBVIOUS
  <2> QED BY <1>2, <2>1, <2>2, <2>3
<1>4. SourceOk'
  BY <1>1, <1>2, <1>3, TypeParts DEF SourceOk, sourceVars
<1>5. SessionOk' /\ ListOk'
  <2>1. CASE SocketAccepted
    <3>1. fetch' \in Fetches /\ missed' \subseteq Items
      BY <2>1, KeyTypes, MissesTypes DEF SocketAccepted, TypeOK, Fetches
    <3>2. ListOk'
      BY <1>1, <2>1, <3>1, ListOkStays DEF SocketAccepted, TypeOK
    <3> QED BY <2>1, <3>2 DEF SocketAccepted, TypeOK, SessionOk, sessionVars
  <2>2. CASE SocketRefused
    <3>1. refresh' \in {refresh, "asked"}
      BY <2>2 DEF SocketRefused, StartRefresh
    <3> QED BY <1>1, <2>2, <3>1, ListUntouched DEF SocketRefused, TypeOK, SessionOk
  <2>3. CASE SocketDrops
    BY <1>1, <2>3, FaultsAreCounted, ListUntouched
    DEF SocketDrops, TypeOK, SessionOk, sessionVars
  <2>4. CASE SocketReconnects
    BY <1>1, <2>4, ListUntouched DEF SocketReconnects, TypeOK, SessionOk, sessionVars
  <2>5. CASE Relay
    <3>1. ListOk'
      <4>1. Head(pushes).item \in Items
        BY <2>5, PushTypes DEF Relay, Pushes
      <4>2. CASE OnPush(Head(pushes))
        BY <1>1, <2>5, <4>2, PushedTypes, ListOkStays DEF Relay
      <4>3. CASE PassedBy({Head(pushes).item}, socket) /\ UNCHANGED shown
        BY <1>1, <4>1, <4>3, PassedByTypes
      <4> QED BY <2>5, <4>2, <4>3 DEF Relay
    <3> QED BY <2>5, <3>1 DEF Relay, TypeOK, SessionOk, sessionVars
  <2>6. CASE RelayLosesQueue
    <3> DEFINE items == {pushes[k].item : k \in DOMAIN pushes}
    <3>1. items \in SUBSET Items
      <4>1. \A k \in DOMAIN pushes : pushes[k] \in Pushes
        BY <1>2
      <4> QED BY <4>1 DEF Pushes
    <3>2. PICK connection \in {socket, IF socket = "up" THEN "down" ELSE socket} :
              socket' = connection /\ PassedBy(items, connection)
      BY <2>6 DEF RelayLosesQueue
    <3> HIDE DEF items
    <3>3. ListOk'
      BY <1>1, <2>6, <3>1, <3>2, PassedByTypes DEF RelayLosesQueue
    <3>4. socket' \in {socket, "down"}
      BY <3>2
    <3> QED BY <2>6, <3>3, <3>4, FaultsAreCounted DEF RelayLosesQueue, TypeOK, SessionOk, sessionVars
  <2> QED BY <2>1, <2>2, <2>3, <2>4, <2>5, <2>6 DEF SocketStep
<1> QED BY <1>1, <1>4, <1>5, TypePartsLater

LEMMA LateTypes ==
    ASSUME NEW late \in BOOLEAN
    PROVE  /\ \A s \in Sends : [s EXCEPT !.late = @ \/ late] \in Sends
           /\ \A p \in Pushes : [p EXCEPT !.late = @ \/ late] \in Pushes
  BY DEF Sends, Pushes

LEMMA ListTypes ==
    ASSUME TypeOK, InOrder, ListStep
    PROVE  TypeOK' /\ list' = list
<1>1. list' = list
  BY DEF ListStep, Change, ChangeUntold, BalanceRead, Publish, FetchServed,
         FetchUnauthenticated, FetchFails, FetchApplied, FetchRetries, sessionVars
<1>2. /\ Items' = Items /\ Data' = Data /\ Sends' = Sends /\ Pushes' = Pushes
      /\ changes \in Versions /\ server \in Data /\ sends \subseteq Sends
      /\ pushes \in Seq(Pushes)
  BY <1>1, SetsStay DEF TypeOK
<1>3. CASE Change
  <2>1. PICK i \in Items \ Results :
            /\ server' = [j \in DOMAIN server \union {i} |->
                             IF j = i THEN changes + 1 ELSE server[j]]
            /\ sends' = sends \union
                   {[item |-> i, of |-> changes + 1, late |-> FALSE,
                     version |-> IF list = "balance" THEN Unread ELSE changes + 1]}
    BY <1>3 DEF Change
  <2>2. changes' \in Versions /\ server' \in Data
    BY <1>3, <2>1, NewsOfUpdate DEF Change
  <2>3. Unread \in Versions
    BY TabAssumption DEF Unread, Versions
  <2>4. sends' \subseteq Sends
    BY <1>2, <1>3, <2>1, <2>2, <2>3 DEF Sends, Change
  <2>5. SourceOk'
    BY <1>2, <1>3, <2>2, <2>4 DEF SourceOk, Change
  <2> QED BY <1>1, <1>3, <2>5, ListUntouched, TypePartsLater
          DEF Change, TypeOK, SessionOk, sessionVars
<1>4. CASE ChangeUntold
  <2>1. PICK i \in Items :
            /\ server' = [j \in DOMAIN server \union {i} |->
                             IF j = i THEN changes + 1 ELSE server[j]]
            /\ pushes' = [k \in DOMAIN pushes |->
                             [pushes[k] EXCEPT !.late = @ \/ pushes[k].item = i]]
            /\ Misses({i})
    BY <1>4 DEF ChangeUntold
  <2>2. changes' \in Versions /\ server' \in Data
    BY <1>4, <2>1, NewsOfUpdate DEF ChangeUntold
  <2>3. pushes' \in Seq(Pushes)
    <3>1. ASSUME NEW k \in DOMAIN pushes
          PROVE  [pushes[k] EXCEPT !.late = @ \/ pushes[k].item = i] \in Pushes
      <4>1. pushes[k] \in Pushes
        BY <1>2, <3>1
      <4> QED BY <4>1, LateTypes
    <3> QED BY <1>2, <2>1, <3>1
  <2>4. SourceOk'
    BY <1>2, <1>4, <2>2, <2>3 DEF SourceOk, ChangeUntold
  <2>5. shown' \in Data /\ fetch' \in Fetches /\ missed' \subseteq Items
    BY <1>4, <2>1, MissesTypes DEF ChangeUntold, TypeOK
  <2>6. ListOk'
    BY <1>1, <2>5, ListOkStays
  <2> QED BY <1>1, <1>4, <2>4, <2>6, TypePartsLater
          DEF ChangeUntold, TypeOK, SessionOk, sessionVars
<1>5. CASE BalanceRead
  <2>1. PICK s \in sends :
            sends' = (sends \ {s}) \union {[s EXCEPT !.version = server[s.item]]}
    BY <1>5 DEF BalanceRead
  <2>2. server[s.item] \in Versions
    BY <1>2, <2>1, DataIsKnown DEF InOrder
  <2>3. sends' \subseteq Sends
    BY <1>2, <2>1, <2>2 DEF Sends
  <2>4. SourceOk'
    BY <1>2, <1>5, <2>3 DEF SourceOk, BalanceRead
  <2> QED BY <1>1, <1>5, <2>4, ListUntouched, TypePartsLater
          DEF BalanceRead, TypeOK, SessionOk, sessionVars
<1>6. CASE Publish
  <2>1. PICK s \in sends :
            /\ pushes' = Append(pushes, [item |-> s.item, version |-> s.version, late |-> s.late])
            /\ sends' = {[t EXCEPT !.late = @ \/ Overtaken(t, s)] : t \in sends \ {s}}
    BY <1>6 DEF Publish
  <2>2. sends' \subseteq Sends
    BY <1>2, <2>1, LateTypes
  <2>3. [item |-> s.item, version |-> s.version, late |-> s.late] \in Pushes
    BY <1>2, <2>1 DEF Sends, Pushes
  <2>4. pushes' \in Seq(Pushes)
    BY <1>2, <2>1, <2>3
  <2>5. SourceOk'
    BY <1>2, <1>6, <2>2, <2>4 DEF SourceOk, Publish
  <2> QED BY <1>1, <1>6, <2>5, ListUntouched, TypePartsLater
          DEF Publish, TypeOK, SessionOk, sessionVars
<1>7. CASE \/ FetchServed \/ FetchUnauthenticated \/ FetchFails \/ FetchApplied \/ FetchRetries
  <2>1. SourceOk'
    BY <1>1, <1>7, SourceStays, TypeParts
    DEF FetchServed, FetchUnauthenticated, FetchFails, FetchApplied, FetchRetries
  <2>2. fetch' \in Fetches
    BY <1>2, <1>7, FetchesAreTyped
    DEF FetchServed, FetchUnauthenticated, FetchFails, FetchApplied, FetchRetries, Fetches, Asks
  <2>3. shown' \in Data /\ missed' \subseteq Items
    BY <1>7
    DEF FetchServed, FetchUnauthenticated, FetchFails, FetchApplied, FetchRetries, TypeOK
  <2>4. ListOk'
    BY <1>1, <2>2, <2>3, ListOkStays
  <2>5. refresh' \in {refresh, "asked"} /\ faults' \in 0..MaxFaults
    BY <1>7, FaultsAreCounted
    DEF FetchServed, FetchUnauthenticated, FetchFails, FetchApplied, FetchRetries, StartRefresh,
        TypeOK, sessionVars
  <2>6. SessionOk'
    BY <1>1, <1>7, <2>5
    DEF FetchServed, FetchUnauthenticated, FetchFails, FetchApplied, FetchRetries,
        TypeOK, SessionOk, sessionVars
  <2> QED BY <1>1, <2>1, <2>4, <2>6, TypePartsLater
<1> QED BY <1>3, <1>4, <1>5, <1>6, <1>7 DEF ListStep

-----------------------------------------------------------------------------
(* What is under way                                                       *)

\* Whatever is sent or pushed has an item and two numbers.
LEMMA UnderWayIsTyped ==
    ASSUME TypeOK
    PROVE  /\ changes \in Int /\ changes + 1 > changes /\ Unread = 0
           /\ \A i \in DOMAIN server : i \in Items /\ server[i] \in Int
           /\ \A s \in sends : s.item \in Items /\ s.version \in Int /\ s.late \in BOOLEAN
           /\ \A k \in DOMAIN pushes : /\ k \in Int /\ pushes[k].item \in Items
                                       /\ pushes[k].version \in Int /\ pushes[k].late \in BOOLEAN
<1>1. changes \in Int /\ Versions \subseteq Int
  BY TabAssumption DEF TypeOK, Versions
<1>2. DOMAIN server \subseteq Items /\ server \in [DOMAIN server -> Versions]
  BY DataIsKnown DEF TypeOK
<1>3. \A k \in DOMAIN pushes : k \in Int /\ pushes[k] \in Pushes
  BY DEF TypeOK
<1>4. \A s \in sends : s \in Sends
  BY DEF TypeOK
<1> QED BY <1>1, <1>2, <1>3, <1>4 DEF Sends, Pushes, Unread

\* A step after which the server has what it had of an item, and what brought it
\* still does, or something brings what it has now.
Upheld(i) == BringsLatest(i)' \/ (server'[i] = server[i] /\ ~BringsLatest(i))

LEMMA SourceKept ==
    ASSUME InOrder, LastIsLatest, list' = list, UNCHANGED <<sourceVars, pushes>>
    PROVE  /\ InOrder' /\ LastIsLatest'
           /\ \A i \in DOMAIN server : Upheld(i)
<1>1. Items' = Items
  BY SetsStay
<1> QED BY <1>1 DEF InOrder, LastIsLatest, Coming, BringsLatest, Upheld, sourceVars

LEMMA ChangeKeeps ==
    ASSUME TypeOK, InOrder, LastIsLatest, Change
    PROVE  /\ InOrder' /\ LastIsLatest'
           /\ \A i \in DOMAIN server : Upheld(i)
<1>1. list' = list /\ Items' = Items /\ changes' = changes + 1 /\ pushes' = pushes
  BY SetsStay DEF Change, sessionVars
<1>2. PICK i \in Items \ Results :
          /\ server' = [j \in DOMAIN server \union {i} |->
                           IF j = i THEN changes + 1 ELSE server[j]]
          /\ sends' = sends \union
                 {[item |-> i, of |-> changes + 1, late |-> FALSE,
                   version |-> IF list = "balance" THEN Unread ELSE changes + 1]}
  BY DEF Change
<1> DEFINE news == [item |-> i, of |-> changes + 1, late |-> FALSE,
                    version |-> IF list = "balance" THEN Unread ELSE changes + 1]
<1>3. /\ news \in sends' /\ news.item = i /\ ~news.late
      /\ news.version \in {Unread, changes + 1}
      /\ \A s \in sends' : s \in sends \/ s = news
      /\ sends \subseteq sends'
  BY <1>2
<1>4. /\ DOMAIN server' = DOMAIN server \union {i} /\ server'[i] = changes + 1
      /\ \A j \in DOMAIN server : j # i => server'[j] = server[j]
  BY <1>2
<1> HIDE DEF news
<1>5. \A j \in DOMAIN server : server[j] <= server'[j]
  BY <1>4, UnderWayIsTyped DEF InOrder
<1>6. InOrder'
  <2>1. (\A j \in DOMAIN server : server[j] <= changes)'
    BY <1>1, <1>4, UnderWayIsTyped DEF InOrder
  <2>2. ASSUME NEW s \in sends'
        PROVE  s.item \in DOMAIN server' /\ s.version <= server'[s.item]
    <3>1. CASE s = news
      BY <1>3, <1>4, <3>1, UnderWayIsTyped, TabAssumption DEF TypeOK, Versions
    <3>2. CASE s \in sends
      BY <1>4, <1>5, <3>2, UnderWayIsTyped DEF InOrder
    <3> QED BY <1>3, <3>1, <3>2
  <2>3. ASSUME NEW k \in DOMAIN pushes
        PROVE  pushes[k].item \in DOMAIN server' /\ pushes[k].version <= server'[pushes[k].item]
    BY <1>4, <1>5, <2>3, UnderWayIsTyped DEF InOrder
  <2>4. ASSUME NEW k \in DOMAIN pushes, NEW s \in sends',
               s.item = pushes[k].item, ~s.late, s.version # Unread
        PROVE  pushes[k].version <= s.version
    <3>1. CASE s = news
      BY <1>3, <1>4, <2>3, <2>4, <3>1, UnderWayIsTyped DEF InOrder
    <3>2. CASE s \in sends
      BY <2>4, <3>2 DEF InOrder
    <3> QED BY <1>3, <3>1, <3>2
  <2> QED BY <1>1, <2>1, <2>2, <2>3, <2>4 DEF InOrder
<1>7. BringsLatest(i)'
  BY <1>3, <1>4 DEF BringsLatest
<1>8. ASSUME NEW j \in DOMAIN server, j # i, BringsLatest(j)
      PROVE  BringsLatest(j)'
  BY <1>1, <1>3, <1>4, <1>8 DEF BringsLatest
<1>9. ASSUME NEW j \in Items, Coming(j)'
      PROVE  BringsLatest(j)'
  <2>1. CASE j # i
    <3>1. Coming(j)
      BY <1>1, <1>3, <1>9, <2>1 DEF Coming
    <3>2. j \in DOMAIN server
      BY <3>1 DEF Coming, InOrder
    <3> QED BY <1>8, <2>1, <3>1, <3>2 DEF LastIsLatest
  <2> QED BY <1>7, <2>1
<1>10. \A j \in DOMAIN server : Upheld(j)
  BY <1>4, <1>7, <1>8 DEF Upheld
<1> QED BY <1>1, <1>6, <1>9, <1>10 DEF LastIsLatest

\* A step that nobody is told of.
LEMMA UntoldKeeps ==
    ASSUME TypeOK, InOrder, LastIsLatest, ChangeUntold
    PROVE  /\ InOrder' /\ LastIsLatest'
           /\ \E i \in Items : Misses({i}) /\ DOMAIN server \subseteq DOMAIN server'
                               /\ \A j \in DOMAIN server : j = i \/ Upheld(j)
<1>1. list' = list /\ Items' = Items /\ changes' = changes + 1 /\ sends' = sends
  BY SetsStay DEF ChangeUntold, sessionVars
<1>2. PICK i \in Items :
          /\ \A s \in sends : s.item # i
          /\ server' = [j \in DOMAIN server \union {i} |->
                           IF j = i THEN changes + 1 ELSE server[j]]
          /\ pushes' = [k \in DOMAIN pushes |->
                           [pushes[k] EXCEPT !.late = @ \/ pushes[k].item = i]]
          /\ Misses({i})
  BY DEF ChangeUntold
<1>3. /\ DOMAIN pushes' = DOMAIN pushes
      /\ \A k \in DOMAIN pushes :
             /\ pushes'[k].item = pushes[k].item /\ pushes'[k].version = pushes[k].version
             /\ pushes'[k].late <=> pushes[k].late \/ pushes[k].item = i
  <2>1. \A k \in DOMAIN pushes : pushes[k] \in Pushes
    BY DEF TypeOK
  <2> QED BY <1>2, <2>1 DEF Pushes
<1>4. /\ DOMAIN server' = DOMAIN server \union {i} /\ server'[i] = changes + 1
      /\ \A j \in DOMAIN server : j # i => server'[j] = server[j]
  BY <1>2
<1>5. \A j \in DOMAIN server : server[j] <= server'[j]
  BY <1>4, UnderWayIsTyped DEF InOrder
<1>6. InOrder'
  <2>1. (\A j \in DOMAIN server : server[j] <= changes)'
    BY <1>1, <1>4, UnderWayIsTyped DEF InOrder
  <2>2. ASSUME NEW s \in sends
        PROVE  s.item \in DOMAIN server' /\ s.version <= server'[s.item]
    BY <1>4, <1>5, <2>2, UnderWayIsTyped DEF InOrder
  <2>3. ASSUME NEW k \in DOMAIN pushes
        PROVE  pushes[k].item \in DOMAIN server' /\ pushes[k].version <= server'[pushes[k].item]
    BY <1>4, <1>5, <2>3, UnderWayIsTyped DEF InOrder
  <2> QED BY <1>1, <1>3, <2>1, <2>2, <2>3 DEF InOrder
<1>7. ASSUME NEW j \in DOMAIN server, j # i, BringsLatest(j)
      PROVE  BringsLatest(j)'
  BY <1>1, <1>3, <1>4, <1>7 DEF BringsLatest
<1>8. ASSUME NEW j \in Items, Coming(j)'
      PROVE  BringsLatest(j)'
  <2>1. j # i /\ Coming(j)
    BY <1>1, <1>2, <1>3, <1>8 DEF Coming
  <2>2. j \in DOMAIN server
    BY <2>1 DEF Coming, InOrder
  <2> QED BY <1>7, <2>1, <2>2 DEF LastIsLatest
<1>9. \A j \in DOMAIN server : j = i \/ Upheld(j)
  BY <1>4, <1>7 DEF Upheld
<1> QED BY <1>1, <1>2, <1>4, <1>6, <1>8, <1>9 DEF LastIsLatest

LEMMA ReadKeeps ==
    ASSUME TypeOK, InOrder, LastIsLatest, BalanceRead
    PROVE  /\ InOrder' /\ LastIsLatest'
           /\ \A i \in DOMAIN server : Upheld(i)
<1>1. list' = list /\ Items' = Items /\ UNCHANGED <<changes, server, pushes>>
  BY SetsStay DEF BalanceRead, sessionVars
<1>2. PICK s \in sends :
          /\ s.version = Unread
          /\ sends' = (sends \ {s}) \union {[s EXCEPT !.version = server[s.item]]}
  BY DEF BalanceRead
<1> DEFINE read == [s EXCEPT !.version = server[s.item]]
<1>3. /\ read \in sends' /\ read.item = s.item /\ read.late = s.late
      /\ read.version = server[s.item]
      /\ \A t \in sends' : t = read \/ t \in sends
      /\ \A t \in sends : t = s \/ t \in sends'
  <2>1. s \in Sends
    BY <1>2 DEF TypeOK
  <2> QED BY <1>2, <2>1 DEF Sends
<1> HIDE DEF read
<1>4. InOrder'
  <2>1. ASSUME NEW t \in sends'
        PROVE  t.item \in DOMAIN server /\ t.version <= server[t.item]
    BY <1>2, <1>3, <2>1, UnderWayIsTyped DEF InOrder
  <2>2. ASSUME NEW k \in DOMAIN pushes, NEW t \in sends',
               t.item = pushes[k].item, ~t.late, t.version # Unread
        PROVE  pushes[k].version <= t.version
    BY <1>2, <1>3, <2>2, UnderWayIsTyped DEF InOrder
  <2> QED BY <1>1, <2>1, <2>2 DEF InOrder
<1>5. ASSUME NEW j \in Items, BringsLatest(j)
      PROVE  BringsLatest(j)'
  BY <1>1, <1>2, <1>3, <1>5 DEF BringsLatest
<1>6. ASSUME NEW j \in Items, Coming(j)'
      PROVE  BringsLatest(j)'
  <2>1. Coming(j)
    BY <1>1, <1>2, <1>3, <1>6 DEF Coming
  <2> QED BY <1>5, <2>1 DEF LastIsLatest
<1> QED BY <1>1, <1>4, <1>5, <1>6, UnderWayIsTyped DEF LastIsLatest, Upheld

LEMMA PublishKeeps ==
    ASSUME TypeOK, InOrder, LastIsLatest, Publish
    PROVE  /\ InOrder' /\ LastIsLatest'
           /\ \A i \in DOMAIN server : Upheld(i)
<1>1. list' = list /\ Items' = Items /\ UNCHANGED <<changes, server>>
  BY SetsStay DEF Publish, sessionVars
<1>2. PICK s \in sends :
          /\ s.version # Unread
          /\ pushes' = Append(pushes, [item |-> s.item, version |-> s.version, late |-> s.late])
          /\ sends' = {[t EXCEPT !.late = @ \/ Overtaken(t, s)] : t \in sends \ {s}}
  BY DEF Publish
<1> DEFINE last == Len(pushes) + 1
<1>3. /\ last \in Int /\ last \in DOMAIN pushes'
      /\ \A k \in DOMAIN pushes : /\ k \in Int /\ k < last /\ k \in DOMAIN pushes'
                                  /\ pushes'[k] = pushes[k]
      /\ \A k \in DOMAIN pushes' : k = last \/ k \in DOMAIN pushes
      /\ pushes'[last].item = s.item /\ pushes'[last].version = s.version
      /\ pushes'[last].late = s.late
  <2>1. pushes \in Seq(Pushes)
    BY DEF TypeOK
  <2> QED BY <1>2, <2>1
<1> HIDE DEF last
<1> DEFINE left(u) == [u EXCEPT !.late = @ \/ Overtaken(u, s)]
<1>4. ASSUME NEW u \in sends
      PROVE  /\ left(u).item = u.item /\ left(u).version = u.version
             /\ left(u).late <=> u.late \/ Overtaken(u, s)
  <2>1. u \in Sends
    BY DEF TypeOK
  <2> QED BY <2>1 DEF Sends
<1>5. /\ \A t \in sends' : \E u \in sends : t = left(u)
      /\ \A u \in sends : u = s \/ left(u) \in sends'
  BY <1>2
<1> HIDE DEF left
<1>6. InOrder'
  <2>1. ASSUME NEW t \in sends'
        PROVE  t.item \in DOMAIN server /\ t.version <= server[t.item]
    BY <1>4, <1>5, <2>1 DEF InOrder
  <2>2. ASSUME NEW k \in DOMAIN pushes'
        PROVE  pushes'[k].item \in DOMAIN server /\ pushes'[k].version <= server[pushes'[k].item]
    BY <1>2, <1>3, <2>2 DEF InOrder
  <2>3. ASSUME NEW k \in DOMAIN pushes', NEW t \in sends',
               t.item = pushes'[k].item, ~t.late, t.version # Unread
        PROVE  pushes'[k].version <= t.version
    <3>1. PICK u \in sends : /\ t.item = u.item /\ t.version = u.version
                             /\ ~u.late /\ ~Overtaken(u, s)
      BY <1>4, <1>5, <2>3
    <3>2. CASE k = last
      BY <1>2, <1>3, <2>3, <3>1, <3>2, UnderWayIsTyped DEF Overtaken
    <3>3. CASE k \in DOMAIN pushes
      BY <1>3, <2>3, <3>1, <3>3 DEF InOrder
    <3> QED BY <1>3, <3>2, <3>3
  <2>4. ASSUME NEW k \in DOMAIN pushes', NEW m \in DOMAIN pushes',
               m > k, pushes'[m].item = pushes'[k].item, ~pushes'[m].late
        PROVE  pushes'[k].version <= pushes'[m].version
    <3>1. k \in DOMAIN pushes
      BY <1>3, <2>4
    <3>2. CASE m = last
      BY <1>2, <1>3, <2>4, <3>1, <3>2 DEF InOrder
    <3>3. CASE m \in DOMAIN pushes
      BY <1>3, <2>4, <3>1, <3>3 DEF InOrder
    <3> QED BY <1>3, <3>2, <3>3
  <2> QED BY <1>1, <2>1, <2>2, <2>3, <2>4 DEF InOrder
<1>7. ASSUME NEW j \in Items, BringsLatest(j)
      PROVE  BringsLatest(j)'
  <2>1. CASE \E k \in DOMAIN pushes :
                 pushes[k].item = j /\ ~pushes[k].late /\ pushes[k].version = server[j]
    BY <1>1, <1>3, <2>1 DEF BringsLatest
  <2>2. ASSUME NEW u \in sends, u.item = j, ~u.late, u.version \in {Unread, server[j]}
        PROVE  BringsLatest(j)'
    <3>1. CASE u = s
      <4>1. pushes'[last].item = j /\ ~pushes'[last].late /\ pushes'[last].version = server[j]
        BY <1>2, <1>3, <2>2, <3>1
      <4> QED BY <1>1, <1>3, <4>1 DEF BringsLatest
    <3>2. CASE u # s
      <4>1. ~Overtaken(u, s)
        BY <1>2, <2>2, UnderWayIsTyped DEF InOrder, Overtaken
      <4>2. PICK t \in sends' : t.item = u.item /\ t.version = u.version /\ ~t.late
        BY <1>4, <1>5, <2>2, <3>2, <4>1
      <4> QED BY <1>1, <2>2, <4>2 DEF BringsLatest
    <3> QED BY <3>1, <3>2
  <2> QED BY <1>7, <2>1, <2>2 DEF BringsLatest
<1>8. ASSUME NEW j \in Items, Coming(j)'
      PROVE  BringsLatest(j)'
  <2>1. Coming(j)
    <3>1. ASSUME NEW t \in sends', t.item = j, ~t.late
          PROVE  Coming(j)
      BY <1>4, <1>5, <3>1 DEF Coming
    <3>2. ASSUME NEW k \in DOMAIN pushes', pushes'[k].item = j, ~pushes'[k].late
          PROVE  Coming(j)
      BY <1>2, <1>3, <3>2 DEF Coming
    <3> QED BY <1>8, <3>1, <3>2 DEF Coming
  <2> QED BY <1>7, <2>1 DEF LastIsLatest
<1> QED BY <1>1, <1>6, <1>7, <1>8, UnderWayIsTyped DEF LastIsLatest, Upheld

\* The first push is gone: what it brought is late or known to be the latest.
LEMMA RelayKeepsOrder ==
    ASSUME TypeOK, InOrder, LastIsLatest, list' = list, UNCHANGED sourceVars,
           pushes # <<>>, pushes' = Tail(pushes)
    PROVE  /\ InOrder' /\ LastIsLatest'
           /\ \A i \in Items : BringsLatest(i) =>
                  \/ BringsLatest(i)'
                  \/ /\ Head(pushes).item = i /\ ~Head(pushes).late
                     /\ Head(pushes).version = server[i]
<1> USE DEF sourceVars
<1>1. Items' = Items
  BY SetsStay
<1>2. /\ 1 \in DOMAIN pushes /\ Head(pushes) = pushes[1]
      /\ \A k \in DOMAIN pushes' : k + 1 \in DOMAIN pushes /\ k + 1 > 1
                                   /\ pushes'[k] = pushes[k + 1]
      /\ \A k \in DOMAIN pushes : k = 1 \/ (k - 1 \in DOMAIN pushes' /\ (k - 1) + 1 = k)
      /\ DOMAIN pushes' \subseteq Int
  <2>1. pushes \in Seq(Pushes)
    BY DEF TypeOK
  <2> QED BY <2>1
<1>3. InOrder'
  <2>1. ASSUME NEW k \in DOMAIN pushes'
        PROVE  /\ pushes'[k].item \in DOMAIN server
               /\ pushes'[k].version <= server[pushes'[k].item]
               /\ \A s \in sends : s.item = pushes'[k].item /\ ~s.late /\ s.version # Unread
                                       => pushes'[k].version <= s.version
    BY <1>2, <2>1 DEF InOrder
  <2>2. ASSUME NEW k \in DOMAIN pushes', NEW m \in DOMAIN pushes',
               m > k, pushes'[m].item = pushes'[k].item, ~pushes'[m].late
        PROVE  pushes'[k].version <= pushes'[m].version
    <3>1. m + 1 > k + 1
      BY <1>2, <2>2
    <3> QED BY <1>2, <2>2, <3>1 DEF InOrder
  <2> QED BY <2>1, <2>2 DEF InOrder
<1>4. ASSUME NEW j \in Items, BringsLatest(j)
      PROVE  \/ BringsLatest(j)'
             \/ pushes[1].item = j /\ ~pushes[1].late /\ pushes[1].version = server[j]
  BY <1>2, <1>4 DEF BringsLatest
<1>5. ASSUME NEW j \in Items, Coming(j)'
      PROVE  BringsLatest(j)'
  <2>1. Coming(j)
    BY <1>2, <1>5 DEF Coming
  <2>2. ASSUME pushes[1].item = j, ~pushes[1].late, pushes[1].version = server[j]
        PROVE  BringsLatest(j)'
    <3>1. ASSUME NEW s \in sends, s.item = j, ~s.late
          PROVE  s.version \in {Unread, server[j]}
      BY <1>2, <2>2, <3>1, UnderWayIsTyped DEF InOrder
    <3>2. ASSUME NEW k \in DOMAIN pushes', pushes'[k].item = j, ~pushes'[k].late
          PROVE  pushes'[k].version = server[j]
      <4>1. /\ k + 1 \in DOMAIN pushes /\ k + 1 > 1 /\ pushes[k + 1].item = j
            /\ ~pushes[k + 1].late
        BY <1>2, <3>2
      <4>2. server[j] <= pushes[k + 1].version /\ pushes[k + 1].version <= server[j]
        BY <1>2, <2>2, <4>1 DEF InOrder
      <4>3. server[j] \in Int /\ pushes[k + 1].version \in Int
        BY <1>2, <2>2, <4>1, UnderWayIsTyped DEF InOrder
      <4> QED BY <1>2, <4>2, <4>3
    <3> QED BY <1>5, <3>1, <3>2 DEF Coming, BringsLatest
  <2> QED BY <1>4, <2>1, <2>2 DEF LastIsLatest
<1> QED BY <1>1, <1>2, <1>3, <1>4, <1>5 DEF LastIsLatest

\* All that was pushed is gone.
LEMMA LossKeepsOrder ==
    ASSUME TypeOK, InOrder, LastIsLatest, list' = list, UNCHANGED sourceVars, pushes' = <<>>
    PROVE  /\ InOrder' /\ LastIsLatest'
           /\ \A i \in Items : BringsLatest(i) =>
                  BringsLatest(i)' \/ i \in {pushes[k].item : k \in DOMAIN pushes}
<1> USE DEF sourceVars
<1>1. Items' = Items /\ DOMAIN pushes' = {}
  BY SetsStay
<1>2. InOrder'
  BY <1>1 DEF InOrder
<1>3. ASSUME NEW j \in Items, BringsLatest(j)
      PROVE  BringsLatest(j)' \/ j \in {pushes[k].item : k \in DOMAIN pushes}
  BY <1>3 DEF BringsLatest
<1>4. ASSUME NEW j \in Items, Coming(j)'
      PROVE  BringsLatest(j)'
  <2>1. PICK s \in sends : s.item = j /\ ~s.late
    BY <1>1, <1>4 DEF Coming
  <2>2. BringsLatest(j)
    BY <2>1 DEF Coming, LastIsLatest
  <2>3. ASSUME NEW k \in DOMAIN pushes, pushes[k].item = j, pushes[k].version = server[j]
        PROVE  s.version \in {Unread, server[j]}
    <3>1. s.version = Unread \/ server[j] <= s.version
      BY <2>1, <2>3 DEF InOrder
    <3>2. s.version <= server[j] /\ j \in DOMAIN server
      BY <2>1 DEF InOrder
    <3> QED BY <2>1, <3>1, <3>2, UnderWayIsTyped
  <2> QED BY <2>1, <2>2, <2>3 DEF BringsLatest
<1> QED BY <1>1, <1>2, <1>3, <1>4 DEF LastIsLatest

-----------------------------------------------------------------------------
(* What the tab has                                                        *)

\* What the tab knows is known to the server.
LEMMA ShownIsKnown ==
    ASSUME TypeOK, Known
    PROVE  /\ DOMAIN shown \subseteq Items /\ DOMAIN fetch.answer \subseteq Items
           /\ DOMAIN shown \subseteq DOMAIN server /\ DOMAIN fetch.answer \subseteq DOMAIN server
           /\ DOMAIN NoData = {}
  BY DataIsKnown DEF TypeOK, Known, NoData

\* The server's side moves on, and the tab does nothing, or the hook starts to ask.
LEMMA UpheldCatchesUp ==
    ASSUME TypeOK, CatchesUp, Known, list' = list,
           \A i \in DOMAIN server : Upheld(i),
           socket' = socket \/ socket' # "up",
           shown' = shown, missed' = missed,
           \/ fetch' = fetch
           \/ fetch'.at \in {"asked", "retry"} /\ (fetch.at # "none" \/ ~OnConnect)
           \/ fetch'.at = "asked"
    PROVE  CatchesUp'
<1>1. ASSUME NEW i \in DOMAIN server, NEW data, NEW behind,
             Current(i, data, behind)
      PROVE  i \in behind \/ data[i] = server'[i] \/ BringsLatest(i)' \/ Reconnects'
  <2>1. Reconnects => Reconnects'
    BY DEF Reconnects, OnConnect
  <2> QED BY <1>1, <2>1 DEF Current, Upheld
<1>2. ASSUME NEW i \in DOMAIN shown
      PROVE  \/ i \in missed \/ shown[i] = server'[i] \/ BringsLatest(i)' \/ Reconnects'
             \/ OnConnect' /\ fetch'.at # "none"
  <2>1. CASE Current(i, shown, missed)
    BY <1>1, <2>1, ShownIsKnown
  <2>2. CASE OnConnect /\ fetch.at # "none"
    BY <2>2 DEF OnConnect
  <2> QED BY <2>1, <2>2 DEF CatchesUp
<1>3. ASSUME fetch' = fetch, fetch.at = "answered", NEW i \in DOMAIN fetch.answer
      PROVE  \/ i \in fetch.since \/ fetch.answer[i] = server'[i]
             \/ BringsLatest(i)' \/ Reconnects'
  BY <1>1, <1>3, ShownIsKnown DEF CatchesUp
<1> QED BY <1>2, <1>3 DEF CatchesUp, Current

\* Some items change or are lost without the tab's knowing.
LEMMA MissedCatchesUp ==
    ASSUME TypeOK, CatchesUp, Known, list' = list, NEW items \in SUBSET Items, Misses(items),
           \A i \in DOMAIN server : i \in items \/ Upheld(i),
           socket' = socket \/ socket' # "up",
           shown' = shown
    PROVE  CatchesUp'
<1>1. Reconnects => Reconnects'
  BY DEF Reconnects, OnConnect
<1>2. ASSUME NEW i \in DOMAIN server, NEW data, NEW behind,
             Current(i, data, behind)
      PROVE  \/ i \in behind \union items \/ data[i] = server'[i]
             \/ BringsLatest(i)' \/ Reconnects'
  BY <1>1, <1>2 DEF Current, Upheld
<1>3. missed' = missed \union items
  BY DEF Misses
<1>4. /\ fetch'.at = fetch.at /\ fetch'.answer = fetch.answer
      /\ fetch.at = "answered" => fetch'.since = fetch.since \union items
  BY DEF Misses, TypeOK
<1>5. ASSUME NEW i \in DOMAIN shown
      PROVE  \/ i \in missed \union items \/ shown[i] = server'[i]
             \/ BringsLatest(i)' \/ Reconnects'
             \/ OnConnect' /\ fetch'.at # "none"
  <2>1. CASE Current(i, shown, missed)
    BY <1>2, <2>1, ShownIsKnown
  <2>2. CASE OnConnect /\ fetch.at # "none"
    BY <1>4, <2>2 DEF OnConnect
  <2> QED BY <2>1, <2>2 DEF CatchesUp
<1>6. ASSUME fetch.at = "answered", NEW i \in DOMAIN fetch.answer
      PROVE  \/ i \in fetch.since \union items \/ fetch.answer[i] = server'[i]
             \/ BringsLatest(i)' \/ Reconnects'
  BY <1>2, <1>6, ShownIsKnown DEF CatchesUp
<1> QED BY <1>3, <1>4, <1>5, <1>6 DEF CatchesUp, Current

\* Nothing is shown, and no answer is on its way.
LEMMA EmptyCatchesUp ==
    ASSUME shown' = NoData, fetch'.at # "answered"
    PROVE  CatchesUp'
  BY DEF CatchesUp, NoData

\* A handler gets a push.
LEMMA PushCatchesUp ==
    ASSUME TabInv, Relay, OnPush(Head(pushes))
    PROVE  CatchesUp'
<1> SUFFICES ASSUME NEW push, push = Head(pushes)
             PROVE  CatchesUp'
  OBVIOUS
<1>1. /\ list' = list /\ UNCHANGED sourceVars /\ socket' = socket /\ pushes # <<>>
      /\ pushes' = Tail(pushes) /\ server' = server /\ Items' = Items
  BY SetsStay DEF Relay, sourceVars
<1>2. /\ push.item \in Items /\ push.late \in BOOLEAN
      /\ push = pushes[1] /\ 1 \in DOMAIN pushes
  BY <1>1, PushTypes DEF TabInv, Pushes
<1>3. \A i \in Items : BringsLatest(i) =>
          \/ BringsLatest(i)'
          \/ push.item = i /\ ~push.late /\ push.version = server[i]
  BY <1>1, RelayKeepsOrder DEF TabInv
<1>4. ASSUME NEW i \in Items, i = push.item, ~push.late, push.version # server[i]
      PROVE  BringsLatest(i)'
  BY <1>2, <1>3, <1>4 DEF TabInv, LastIsLatest, Coming
<1>5. CASE OnBets
  BY <1>1, <1>5 DEF OnBets, Asks, Fetch, CatchesUp, OnConnect
<1>6. CASE OnBalance(push)
  <2>1. Items = {"balance"} /\ push.item = "balance"
    BY <1>2, <1>6 DEF OnBalance, Items
  <2>2. shown' = [i \in Items |-> push.version] /\ fetch'.at \in {"none", "retry"}
    BY <1>6, WritesTypes DEF OnBalance, TabInv
  <2>3. "balance" \in missed' \/ push.version = server["balance"] \/ BringsLatest("balance")'
    BY <1>4, <1>6, <2>1 DEF OnBalance, Learns
  <2> QED BY <1>1, <2>1, <2>2, <2>3 DEF CatchesUp, Current
<1>7. CASE OnOdds(push)
  <2>1. ~OnConnect /\ fetch'.at \in {"none", "retry"}
    BY <1>7, WritesTypes DEF OnOdds, OnConnect, TabInv
  <2>2. /\ DOMAIN shown' = DOMAIN shown
        /\ \A i \in DOMAIN shown : i # push.item => shown'[i] = shown[i]
        /\ push.item \in DOMAIN shown => shown'[push.item] = push.version
    BY <1>7, WritesTypes DEF OnOdds, TabInv
  <2>3. \A i \in missed : i # push.item => i \in missed'
    BY <1>7 DEF OnOdds, Learns
  <2>4. ASSUME NEW i \in DOMAIN shown
        PROVE  i \in missed' \/ shown'[i] = server[i] \/ BringsLatest(i)'
    <3>1. CASE i = push.item
      <4>1. push.late => i \in missed'
        BY <1>7, <3>1 DEF OnOdds, Learns
      <4>2. shown'[i] = push.version /\ i \in Items
        BY <1>2, <2>2, <3>1
      <4> QED BY <1>4, <3>1, <4>1, <4>2
    <3>2. CASE i # push.item
      <4>1. i \in missed \/ shown[i] = server[i] \/ BringsLatest(i)
        BY <2>1 DEF TabInv, CatchesUp, Current, Reconnects
      <4>2. i \in Items
        BY ShownIsKnown DEF TabInv
      <4> QED BY <1>3, <2>2, <2>3, <3>2, <4>1, <4>2
    <3> QED BY <3>1, <3>2
  <2> QED BY <1>1, <2>1, <2>2, <2>4 DEF CatchesUp, Current
<1> QED BY <1>5, <1>6, <1>7 DEF OnPush

\* A push reaches nobody.
LEMMA PassedByCatchesUp ==
    ASSUME TabInv, list' = list, UNCHANGED sourceVars, shown' = shown,
           NEW items \in SUBSET Items, PassedBy(items, socket'),
           socket' = socket \/ socket' # "up",
           \A i \in Items : BringsLatest(i) => BringsLatest(i)' \/ i \in items
    PROVE  CatchesUp'
<1>1. \A i \in DOMAIN server : i \in items \/ Upheld(i)
  BY UnderWayIsTyped DEF TabInv, Upheld, sourceVars
<1>2. CASE Misses(items)
  BY <1>1, <1>2, MissedCatchesUp DEF TabInv
<1>3. CASE OnConnect /\ socket' # "up" /\ UNCHANGED <<fetch, missed>>
  <2>1. Reconnects'
    BY <1>3 DEF Reconnects, OnConnect
  <2> QED BY <2>1 DEF CatchesUp, Current
<1> QED BY <1>2, <1>3 DEF PassedBy

-----------------------------------------------------------------------------
(* The steps                                                               *)

LEMMA KnownStays ==
    ASSUME TypeOK, Known, DOMAIN server \subseteq DOMAIN server',
           DOMAIN shown' \subseteq DOMAIN server',
           fetch'.answer \in {fetch.answer, NoData, server'}
    PROVE  Known'
  BY ShownIsKnown DEF Known

LEMMA SessionKeeps ==
    ASSUME TabInv, SessionStep
    PROVE  TabInv'
<1>1. /\ TypeOK' /\ list' = list /\ UNCHANGED <<sourceVars, pushes>>
      /\ server' = server /\ Items' = Items
  BY SessionTypes, SetsStay DEF TabInv, sourceVars
<1>2. InOrder' /\ LastIsLatest' /\ \A i \in DOMAIN server : Upheld(i)
  BY <1>1, SourceKept DEF TabInv
<1>3. Public' = Public
  BY <1>1 DEF Public
<1>4. CASE /\ shown' = NoData /\ token' = "none"
           /\ fetch' \in {Fetch("none"), Fetch("asked")}
  <2>1. fetch'.at # "answered" /\ fetch'.answer = NoData
    BY <1>4, FetchesAreTyped
  <2>2. CatchesUp'
    BY <1>4, <2>1, EmptyCatchesUp
  <2>3. HasData'
    BY <1>1, <1>3, <1>4, <2>1 DEF TabInv, HasData
  <2>4. Known'
    BY <1>1, <1>4, <2>1, KnownStays, ShownIsKnown DEF TabInv
  <2> QED BY <1>1, <1>2, <2>2, <2>3, <2>4 DEF TabInv
<1>5. CASE UserLoaded /\ UNCHANGED <<shown, missed>> /\ (KeyAppears \/ Asks)
  <2>1. socket' = socket \/ socket' # "up"
    BY <1>5, LoadedTypes DEF TabInv
  <2>2. fetch' = fetch \/ (fetch'.at = "asked" /\ fetch'.answer = NoData)
    BY <1>5, KeyTypes, FetchesAreTyped DEF TabInv
  <2>3. CatchesUp'
    BY <1>1, <1>2, <1>5, <2>1, <2>2, UpheldCatchesUp DEF TabInv
  <2>4. ~Public => shown # NoData \/ fetch'.at # "none"
    BY <1>5, <2>2 DEF KeyAppears, TabInv, HasData, Asks, Fetch
  <2>5. HasData'
    BY <1>1, <1>3, <1>5, <2>2, <2>4 DEF TabInv, HasData
  <2>6. Known'
    BY <1>1, <1>5, <2>2, KnownStays, ShownIsKnown DEF TabInv
  <2> QED BY <1>1, <1>2, <2>3, <2>5, <2>6 DEF TabInv
<1>6. CASE /\ UNCHANGED listVars /\ (token' = "none" \/ token # "none")
           /\ socket' = socket
  <2>1. shown' = shown /\ missed' = missed /\ fetch' = fetch
    BY <1>6 DEF listVars
  <2>2. CatchesUp'
    BY <1>1, <1>2, <1>6, <2>1, UpheldCatchesUp DEF TabInv
  <2>3. HasData'
    BY <1>1, <1>3, <1>6, <2>1 DEF TabInv, HasData
  <2>4. Known'
    BY <1>1, <2>1 DEF TabInv, Known
  <2> QED BY <1>1, <1>2, <2>2, <2>3, <2>4 DEF TabInv
<1>7. CASE Load
  BY <1>4, <1>7 DEF Load
<1>8. CASE Login
  BY <1>4, <1>8 DEF Login, Forgets
<1>9. CASE Callback
  BY <1>5, <1>6, <1>9 DEF Callback
<1>10. CASE SignedOut
  BY <1>4, <1>6, <1>10 DEF SignedOut, Forgets
<1>11. CASE RefreshGranted \/ RenewGranted
  BY <1>5, <1>11 DEF RefreshGranted, RenewGranted
<1>12. CASE \/ Logout \/ RefreshAnswered \/ RefreshRefused \/ RenewStarts \/ RenewAnswered
            \/ Sleep \/ Elsewhere
  BY <1>6, <1>12
  DEF Logout, RefreshAnswered, RefreshRefused, RenewStarts, RenewAnswered, Sleep, Elsewhere
<1>13. CASE Expires
  BY <1>6, <1>13 DEF Expires
<1> QED
  BY <1>7, <1>8, <1>9, <1>10, <1>11, <1>12, <1>13 DEF SessionStep, RefreshStep, RenewStep

LEMMA SocketKeeps ==
    ASSUME TabInv, SocketStep
    PROVE  TabInv'
<1>1. /\ TypeOK' /\ list' = list /\ UNCHANGED sourceVars
      /\ server' = server /\ Items' = Items /\ Public' = Public /\ OnConnect' = OnConnect
  BY SocketTypes, SetsStay DEF TabInv, sourceVars, Public, OnConnect
<1>2. CASE pushes' = pushes /\ shown' = shown
  <2>1. InOrder' /\ LastIsLatest' /\ \A i \in DOMAIN server : Upheld(i)
    BY <1>1, <1>2, SourceKept DEF TabInv
  <2>2. CASE \/ SocketRefused \/ SocketDrops \/ SocketReconnects
    <3>1. shown' = shown /\ missed' = missed /\ fetch' = fetch /\ socket' # "up"
      BY <2>2 DEF SocketRefused, SocketDrops, SocketReconnects, listVars
    <3>2. CatchesUp'
      BY <1>1, <2>1, <3>1, UpheldCatchesUp DEF TabInv
    <3>3. token' = token \/ token' = "none"
      BY <2>2 DEF SocketRefused, SocketDrops, SocketReconnects, sessionVars
    <3>4. HasData' /\ Known'
      BY <1>1, <3>1, <3>3 DEF TabInv, HasData, Known
    <3> QED BY <1>1, <2>1, <3>2, <3>4 DEF TabInv
  <2>3. CASE SocketAccepted
    <3>1. token' = token /\ shown' = shown
      BY <2>3 DEF SocketAccepted, sessionVars
    <3>2. CASE OnConnect /\ Asks /\ UNCHANGED missed
      <4>1. fetch'.at = "asked" /\ fetch'.answer = NoData
        BY <3>2, FetchesAreTyped DEF Asks
      <4>2. CatchesUp'
        BY <1>1, <3>2, <4>1 DEF CatchesUp
      <4>3. HasData'
        BY <1>1, <3>1, <4>1 DEF TabInv, HasData
      <4>4. Known'
        BY <1>1, <3>1, <4>1, KnownStays, ShownIsKnown DEF TabInv
      <4> QED BY <1>1, <2>1, <4>2, <4>3, <4>4 DEF TabInv
    <3>3. CASE Misses(Items)
      <4>1. /\ fetch'.at = fetch.at /\ fetch'.answer = fetch.answer
            /\ fetch.at = "answered" => Items \subseteq fetch'.since
            /\ Items \subseteq missed'
        BY <3>3 DEF Misses, TabInv, TypeOK
      <4>2. CatchesUp'
        BY <1>1, <3>1, <4>1, ShownIsKnown DEF TabInv, CatchesUp, Current
      <4>3. HasData' /\ Known'
        BY <1>1, <3>1, <4>1 DEF TabInv, HasData, Known
      <4> QED BY <1>1, <2>1, <4>2, <4>3 DEF TabInv
    <3>4. CASE ~OnConnect /\ UNCHANGED <<fetch, missed>>
      <4>1. CatchesUp'
        BY <1>1, <2>1, <3>1, <3>4, ShownIsKnown
        DEF TabInv, CatchesUp, Current, Reconnects, Upheld
      <4>2. HasData' /\ Known'
        BY <1>1, <3>1, <3>4 DEF TabInv, HasData, Known
      <4> QED BY <1>1, <2>1, <4>1, <4>2 DEF TabInv
    <3> QED BY <2>3, <3>2, <3>3, <3>4 DEF SocketAccepted
  <2>4. CASE Relay \/ RelayLosesQueue
    <3>1. pushes # <<>> /\ pushes' # pushes
      <4>1. pushes # <<>> /\ pushes' \in {Tail(pushes), <<>>} /\ pushes \in Seq(Pushes)
        BY <2>4 DEF Relay, RelayLosesQueue, TabInv, TypeOK
      <4>2. Len(pushes') # Len(pushes)
        BY <4>1
      <4> QED BY <4>1, <4>2
    <3> QED BY <1>2, <3>1
  <2> QED BY <2>2, <2>3, <2>4 DEF SocketStep
<1>3. CASE Relay
  <2>1. /\ pushes # <<>> /\ pushes' = Tail(pushes) /\ token' = token /\ socket' = socket
    BY <1>3 DEF Relay, sessionVars
  <2>2. /\ InOrder' /\ LastIsLatest'
        /\ \A i \in Items : BringsLatest(i) =>
               BringsLatest(i)' \/ Head(pushes).item = i
    BY <1>1, <2>1, RelayKeepsOrder DEF TabInv
  <2>3. Head(pushes).item \in Items
    BY <2>1, PushTypes DEF TabInv, Pushes
  <2>4. CASE OnPush(Head(pushes)) /\ token # "none"
    <3>1. CatchesUp'
      BY <1>3, <2>4, PushCatchesUp
    <3>2. HasData' /\ Known'
      <4>1. CASE OnBets
        <5>1. shown' = shown /\ fetch'.at = "asked" /\ fetch'.answer = NoData
          BY <4>1, FetchesAreTyped DEF OnBets, Asks
        <5> QED BY <1>1, <5>1, KnownStays, ShownIsKnown DEF TabInv, HasData
      <4>2. CASE OnBalance(Head(pushes))
        <5>1. /\ ~Public /\ Items = {"balance"} /\ DOMAIN shown' = Items /\ shown' # NoData
          BY <4>2, WritesTypes DEF OnBalance, Public, Items, NoData, TabInv
        <5>2. fetch'.at \in {"none", "retry"} /\ fetch'.answer \in {fetch.answer, NoData}
          BY <4>2, WritesTypes DEF OnBalance, TabInv
        <5>3. DOMAIN server = Items
          BY <5>1 DEF TabInv, HasData
        <5> QED BY <1>1, <5>1, <5>2, <5>3, KnownStays DEF TabInv, HasData
      <4>3. CASE OnOdds(Head(pushes))
        <5>1. /\ Public /\ DOMAIN shown' = DOMAIN shown
              /\ fetch'.answer \in {fetch.answer, NoData}
          BY <4>3, WritesTypes DEF OnOdds, Public, TabInv
        <5> QED BY <1>1, <5>1, KnownStays, ShownIsKnown DEF TabInv, HasData
      <4> QED BY <2>4, <4>1, <4>2, <4>3 DEF OnPush
    <3> QED BY <1>1, <2>2, <3>1, <3>2 DEF TabInv
  <2>5. CASE PassedBy({Head(pushes).item}, socket) /\ UNCHANGED shown
    <3>1. CatchesUp'
      <4>1. PICK items \in SUBSET Items : items = {Head(pushes).item}
        BY <2>3
      <4>2. PassedBy(items, socket')
        BY <2>1, <2>5, <4>1
      <4>3. \A i \in Items : BringsLatest(i) => BringsLatest(i)' \/ i \in items
        BY <2>2, <4>1
      <4> QED BY <1>1, <2>1, <2>5, <4>2, <4>3, PassedByCatchesUp
    <3>2. fetch'.at = fetch.at /\ fetch'.answer = fetch.answer
      BY <2>5 DEF PassedBy, Misses, TabInv, TypeOK
    <3>3. HasData' /\ Known'
      BY <1>1, <2>1, <2>5, <3>2 DEF TabInv, HasData, Known
    <3> QED BY <1>1, <2>2, <3>1, <3>3 DEF TabInv
  <2> QED BY <1>3, <2>4, <2>5 DEF Relay
<1>4. CASE RelayLosesQueue
  <2>1. PICK items : items = {pushes[k].item : k \in DOMAIN pushes}
    OBVIOUS
  <2>2. /\ pushes' = <<>> /\ shown' = shown /\ token' = token
        /\ socket' = socket \/ socket' = "down"
        /\ PassedBy(items, socket')
    BY <1>4, <2>1 DEF RelayLosesQueue, sessionVars
  <2>3. /\ InOrder' /\ LastIsLatest'
        /\ \A i \in Items : BringsLatest(i) => BringsLatest(i)' \/ i \in items
    BY <1>1, <2>1, <2>2, LossKeepsOrder DEF TabInv
  <2>4. items \in SUBSET Items
    BY <2>1, UnderWayIsTyped DEF TabInv
  <2>5. CatchesUp'
    BY <1>1, <2>2, <2>3, <2>4, PassedByCatchesUp
  <2>6. fetch'.at = fetch.at /\ fetch'.answer = fetch.answer
    BY <2>2 DEF PassedBy, Misses, TabInv, TypeOK
  <2>7. HasData' /\ Known'
    BY <1>1, <2>2, <2>6 DEF TabInv, HasData, Known
  <2> QED BY <1>1, <2>3, <2>5, <2>7 DEF TabInv
<1>5. CASE SocketAccepted \/ SocketRefused \/ SocketDrops \/ SocketReconnects
  BY <1>2, <1>5
  DEF SocketAccepted, SocketRefused, SocketDrops, SocketReconnects, listVars
<1> QED BY <1>3, <1>4, <1>5 DEF SocketStep

LEMMA ListKeeps ==
    ASSUME TabInv, ListStep
    PROVE  TabInv'
<1>1. TypeOK' /\ list' = list /\ Items' = Items /\ Public' = Public /\ OnConnect' = OnConnect
  BY ListTypes, SetsStay DEF TabInv, Public, OnConnect
<1>2. CASE Change \/ BalanceRead \/ Publish
  <2>1. /\ InOrder' /\ LastIsLatest'
        /\ \A i \in DOMAIN server : Upheld(i)
    BY <1>2, ChangeKeeps, ReadKeeps, PublishKeeps DEF TabInv
  <2>2. /\ shown' = shown /\ missed' = missed /\ fetch' = fetch
        /\ socket' = socket /\ token' = token
    BY <1>2 DEF Change, BalanceRead, Publish, listVars, sessionVars
  <2>3. CatchesUp'
    BY <1>1, <2>1, <2>2, UpheldCatchesUp DEF TabInv
  <2>4. server' = server \/ \E i \in Items : DOMAIN server' = DOMAIN server \union {i}
    BY <1>2 DEF Change, BalanceRead, Publish
  <2>5. HasData'
    BY <1>1, <2>2, <2>4 DEF TabInv, HasData
  <2>6. Known'
    BY <2>2, <2>4 DEF TabInv, Known
  <2> QED BY <1>1, <2>1, <2>3, <2>5, <2>6 DEF TabInv
<1>3. CASE ChangeUntold
  <2>1. InOrder' /\ LastIsLatest'
    BY <1>3, UntoldKeeps DEF TabInv
  <2>2. PICK i \in Items : /\ Misses({i}) /\ DOMAIN server \subseteq DOMAIN server'
                           /\ \A j \in DOMAIN server : j = i \/ Upheld(j)
    BY <1>3, UntoldKeeps DEF TabInv
  <2>3. shown' = shown /\ socket' = socket /\ Public
    BY <1>3 DEF ChangeUntold, Public
  <2>4. fetch'.answer = fetch.answer
    BY <2>2 DEF Misses, TabInv, TypeOK
  <2>5. CatchesUp'
    <3>1. PICK items \in SUBSET Items : items = {i}
      OBVIOUS
    <3>2. Misses(items) /\ \A j \in DOMAIN server : j \in items \/ Upheld(j)
      BY <2>2, <3>1
    <3> QED BY <1>1, <2>3, <3>2, MissedCatchesUp DEF TabInv
  <2>6. HasData'
    BY <1>1, <2>3 DEF HasData
  <2>7. Known'
    BY <2>2, <2>3, <2>4 DEF TabInv, Known
  <2> QED BY <1>1, <2>1, <2>5, <2>6, <2>7 DEF TabInv
<1>4. CASE FetchServed \/ FetchUnauthenticated \/ FetchFails \/ FetchApplied \/ FetchRetries
  <2>1. UNCHANGED <<sourceVars, pushes>> /\ server' = server /\ socket' = socket /\ token' = token
    BY <1>4
    DEF FetchServed, FetchUnauthenticated, FetchFails, FetchApplied, FetchRetries, sourceVars,
        sessionVars
  <2>2. InOrder' /\ LastIsLatest' /\ \A i \in DOMAIN server : Upheld(i)
    BY <1>1, <2>1, SourceKept DEF TabInv
  <2>3. CASE FetchUnauthenticated \/ FetchFails \/ FetchRetries
    <3>1. /\ shown' = shown /\ missed' = missed /\ fetch.at # "none"
          /\ fetch'.at \in {"asked", "retry"} /\ fetch'.answer = NoData
      BY <2>3, FetchesAreTyped DEF FetchUnauthenticated, FetchFails, FetchRetries, Asks
    <3>2. CatchesUp'
      BY <1>1, <2>1, <2>2, <3>1, UpheldCatchesUp DEF TabInv
    <3>3. HasData'
      BY <1>1, <2>1, <3>1 DEF TabInv, HasData
    <3>4. Known'
      BY <1>1, <2>1, <3>1, KnownStays, ShownIsKnown DEF TabInv
    <3> QED BY <1>1, <2>2, <3>2, <3>3, <3>4 DEF TabInv
  <2>4. CASE FetchServed
    <3>1. /\ shown' = shown /\ missed' = missed /\ fetch.at = "asked"
          /\ fetch'.at = "answered" /\ fetch'.answer = server
      BY <2>4 DEF FetchServed
    <3>2. CatchesUp'
      <4>1. ASSUME NEW i \in DOMAIN shown
            PROVE  Current(i, shown, missed)' \/ OnConnect'
        <5>1. CASE Current(i, shown, missed)
          BY <1>1, <2>1, <2>2, <3>1, <5>1, ShownIsKnown
          DEF TabInv, Current, Reconnects, Upheld
        <5>2. CASE OnConnect
          BY <1>1, <5>2
        <5> QED BY <5>1, <5>2 DEF TabInv, CatchesUp
      <4> QED BY <2>1, <3>1, <4>1 DEF CatchesUp, Current
    <3>3. HasData'
      BY <1>1, <2>1, <3>1 DEF TabInv, HasData
    <3>4. Known'
      BY <1>1, <2>1, <3>1, KnownStays, ShownIsKnown DEF TabInv
    <3> QED BY <1>1, <2>2, <3>2, <3>3, <3>4 DEF TabInv
  <2>5. CASE FetchApplied
    <3>1. /\ shown' = fetch.answer /\ missed' = fetch.since /\ fetch.at = "answered"
          /\ fetch'.at = "none" /\ fetch'.answer = NoData
      BY <2>5, FetchesAreTyped DEF FetchApplied
    <3>2. CatchesUp'
      BY <1>1, <2>1, <2>2, <3>1, ShownIsKnown
      DEF TabInv, CatchesUp, Current, Reconnects, Upheld
    <3>3. HasData'
      <4>1. ~Public => Items # {}
        BY DEF Public, Items
      <4> QED BY <1>1, <2>1, <3>1, <4>1, ShownIsKnown DEF TabInv, HasData
    <3>4. Known'
      BY <1>1, <2>1, <3>1, KnownStays, ShownIsKnown DEF TabInv
    <3> QED BY <1>1, <2>2, <3>2, <3>3, <3>4 DEF TabInv
  <2> QED BY <1>4, <2>3, <2>4, <2>5
<1> QED BY <1>2, <1>3, <1>4 DEF ListStep

LEMMA TabInitially == Init => TabInv
<1> SUFFICES ASSUME Init PROVE TabInv
  OBVIOUS
<1>1. PICK known \in SUBSET Items : /\ list # "odds" => known = Items
                                    /\ server = [i \in known |-> 0]
  BY DEF Init
<1>2. 0 \in Versions /\ 0 \in 0..MaxFaults
  BY TabAssumption DEF Versions
<1>3. server \in Data /\ shown \in Data /\ fetch \in Fetches
  <2>1. server \in [known -> Versions]
    BY <1>1, <1>2
  <2> QED BY <2>1, KnownIsData, NoDataIsData, FetchesAreTyped DEF Init
<1>4. TypeOK
  <2>1. <<>> \in Seq(Pushes)
    OBVIOUS
  <2> QED BY <1>2, <1>3, <2>1 DEF Init, TypeOK, Fetches
<1>5. fetch.at = "none" /\ fetch.answer = NoData /\ DOMAIN NoData = {}
  BY FetchesAreTyped DEF Init, NoData
<1>6. InOrder /\ LastIsLatest
  BY <1>1 DEF Init, InOrder, LastIsLatest, Coming
<1>7. CatchesUp /\ HasData /\ Known
  BY <1>1, <1>5 DEF Init, CatchesUp, HasData, Known, Public
<1> QED BY <1>4, <1>6, <1>7 DEF TabInv

-----------------------------------------------------------------------------
(* The theorems                                                            *)

\* Of every item the tab shows, something is under way that brings it up to date,
\* or nothing has to, or nobody told the tab.
THEOREM TabInvariance == Spec => []TabInv
<1>1. TabInv /\ [Next]_vars => TabInv'
  <2> SUFFICES ASSUME TabInv, [Next]_vars PROVE TabInv'
    OBVIOUS
  <2>1. CASE UNCHANGED vars
    <3>1. /\ UNCHANGED <<sso, flag, page, token, refresh, renew, socket, changes, server, sends>>
          /\ UNCHANGED <<pushes, list, shown, fetch, missed, faults>>
          /\ UNCHANGED <<Items, Data, Sends, Pushes>>
      BY <2>1, SetsStay DEF vars, sessionVars, sourceVars, listVars
    <3>2. TypeOK'
      BY <3>1 DEF TabInv, TypeOK
    <3>3. InOrder' /\ LastIsLatest'
      BY <3>1 DEF TabInv, InOrder, LastIsLatest, Coming, BringsLatest
    <3>4. CatchesUp' /\ HasData' /\ Known'
      BY <3>1
      DEF TabInv, CatchesUp, Current, BringsLatest, Reconnects, OnConnect, Public, HasData, Known
    <3> QED BY <3>2, <3>3, <3>4 DEF TabInv
  <2> QED BY <2>1, SessionKeeps, SocketKeeps, ListKeeps DEF Next
<1> QED BY <1>1, TabInitially, PTL DEF Spec

\* A quiet tab shows of every item what the server has, but of those it was not
\* told of, and it has its user's data (useBets.ts:51-53, useBalance.ts:18-22,
\* useOdds.ts:34-57).
THEOREM QuietTabsAreCurrent == Spec => []QuietMeansCurrent
<1>1. TabInv => QuietMeansCurrent
  <2> SUFFICES ASSUME TabInv, Quiet
               PROVE  /\ ~Public => shown # NoData
                      /\ \A i \in DOMAIN shown \ missed : shown[i] = server[i]
    BY DEF QuietMeansCurrent
  <2>1. /\ socket = "up" /\ token = "good"
        /\ sends = {} /\ DOMAIN pushes = {} /\ fetch.at = "none"
    BY DEF Quiet
  <2>2. \A i : ~BringsLatest(i) /\ ~Reconnects
    BY <2>1 DEF BringsLatest, Reconnects
  <2> QED BY <2>1, <2>2 DEF TabInv, HasData, CatchesUp, Current
<1> QED BY <1>1, TabInvariance, PTL
================================================================================
