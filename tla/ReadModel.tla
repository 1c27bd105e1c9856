------------------------------ MODULE ReadModel ------------------------------
(***************************************************************************)
(* What the stats service computes from its table of settlements           *)
(* (stats/aggregate.ts, storage/postgres.storage.ts): a player's summary   *)
(* and cumulative ROI, and the leaderboard.  The table is a sequence of    *)
(* rows in the order they were inserted.  Percentages are integers, in     *)
(* hundredths of a percent, rounded as common/round.ts rounds them.        *)
(***************************************************************************)
EXTENDS Integers, FiniteSetsExt, SequencesExt

CONSTANTS
    DayLength,      \* a UTC day, in the unit of settledAt
    MinSettled,     \* LEADERBOARD_MIN_SETTLED
    Limit,          \* LEADERBOARD_LIMIT
    None

ASSUME ReadModelAssumption ==
    DayLength \in Nat \ {0} /\ MinSettled \in Nat \ {0} /\ Limit \in Nat

RowOf(bet, user, name, at, stake, profit) ==
    [betId |-> bet, userId |-> user, userName |-> name, settledAt |-> at,
     stakeCents |-> stake, profitCents |-> profit]

-----------------------------------------------------------------------------

Magnitude(x) == IF x < 0 THEN -x ELSE x

\* 100 * part / whole with two decimals; an exact half goes to the even neighbour.
Percent(part, whole) ==
    LET scaled == Magnitude(part) * 10000
        kept == scaled \div whole
        tail == 2 * (scaled % whole)
        nearest == IF tail > whole \/ (tail = whole /\ kept % 2 = 1) THEN kept + 1 ELSE kept
    IN  IF part < 0 THEN -nearest ELSE nearest

UtcDay(settledAt) == settledAt \div DayLength

Staked(rows) == SumFunction([i \in DOMAIN rows |-> rows[i].stakeCents])
Net(rows) == SumFunction([i \in DOMAIN rows |-> rows[i].profitCents])
Wins(rows) == Cardinality({i \in DOMAIN rows : rows[i].profitCents > 0})
Roi(rows) == IF Staked(rows) > 0 THEN Percent(Net(rows), Staked(rows)) ELSE 0

\* Some of the table's rows, each under its place there.  The query orders them
\* by settledAt; nothing computed here depends on the order.
UserRows(table, user) == RestrictValues(table, LAMBDA r : r.userId = user)

Count(rows) == Cardinality(DOMAIN rows)

Summarise(rows) ==
    [totalStakedCents |-> Staked(rows), settledCount |-> Count(rows), wins |-> Wins(rows),
     winRatePct |-> IF Count(rows) = 0 THEN 0 ELSE Percent(Wins(rows), Count(rows)),
     netProfitCents |-> Net(rows), roiPct |-> Roi(rows)]

\* A set sorted: before[x] are the elements that come before x.
InOrder(before) ==
    [i \in 1..Cardinality(DOMAIN before) |->
        CHOOSE x \in DOMAIN before : Cardinality(before[x]) = i - 1]

ActiveDays(rows) ==
    LET days == {UtcDay(rows[i].settledAt) : i \in DOMAIN rows}
    IN  InOrder([day \in days |-> {d \in days : d < day}])

\* Each day for itself.
CumulativeRoiSeries_Daily(rows) ==
    [i \in DOMAIN ActiveDays(rows) |->
        LET day == ActiveDays(rows)[i]
        IN  [date |-> day,
             roiPct |-> Roi(RestrictValues(rows, LAMBDA r : UtcDay(r.settledAt) = day))]]

CumulativeRoiSeries(rows) ==
    [i \in DOMAIN ActiveDays(rows) |->
        LET day == ActiveDays(rows)[i]
        IN  [date |-> day,
             roiPct |-> Roi(RestrictValues(rows, LAMBDA r : UtcDay(r.settledAt) <= day))]]

-----------------------------------------------------------------------------

Players(table) == {table[i].userId : i \in DOMAIN table}

\* The first name one of the rows has.
NameOf(rows) ==
    LET named == {i \in DOMAIN rows : rows[i].userName # None}
    IN  IF named = {} THEN None ELSE rows[Min(named)].userName

EntryOf(table, user) ==
    LET rows == UserRows(table, user)
    IN  [userId |-> user, userName |-> NameOf(rows), roiPct |-> Roi(rows),
         netProfitCents |-> Net(rows), settledCount |-> Count(rows)]

Qualified(table) == {u \in Players(table) : EntryOf(table, u).settledCount >= MinSettled}

\* The map has its players in the order of their first rows.
FirstRow(table, user) == Min(DOMAIN UserRows(table, user))

\* The sort is stable.
Ahead(table, u, v) ==
    \/ EntryOf(table, u).roiPct > EntryOf(table, v).roiPct
    \/ /\ EntryOf(table, u).roiPct = EntryOf(table, v).roiPct
       /\ FirstRow(table, u) < FirstRow(table, v)

Ranked(table, players) ==
    InOrder([v \in players |-> {u \in players : Ahead(table, u, v)}])

FirstOf(order) == SubSeq(order, 1, Min({Limit, Len(order)}))

\* The limit is applied before the players with few settlements are left out.
Leaderboard_LimitFirst(table) ==
    LET board == SelectSeq(FirstOf(Ranked(table, Players(table))),
                           LAMBDA u : u \in Qualified(table))
    IN  [i \in DOMAIN board |-> EntryOf(table, board[i])]

Leaderboard(table) ==
    LET board == FirstOf(Ranked(table, Qualified(table)))
    IN  [i \in DOMAIN board |-> EntryOf(table, board[i])]
=============================================================================
