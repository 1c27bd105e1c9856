------------------------------ MODULE Catalog ------------------------------
(***************************************************************************)
(* How the odds service records quotes (OddsStorage.record): one           *)
(* transaction per event that gets or creates the canonical sport, league  *)
(* and teams, links the event to them, keeps a history and upserts the     *)
(* current line.  Each provider's poll loop records one event at a time;   *)
(* the loops run side by side and meet in the canonical rows, where the    *)
(* transaction that wrote a row keeps the others waiting until it ends.    *)
(* PostgreSQL aborts a transaction of a circle that wait for each other.   *)
(*                                                                         *)
(* At most MaxLines[id] lines of an event are recorded.  Faults of the     *)
(* kinds in FaultKinds happen at most MaxFaults times:                     *)
(*   crash      the process dies and is restarted                          *)
(*   statement  a statement of a transaction fails                         *)
(* A definition Name_Variant is Name with one mistake, see README.md.      *)
(***************************************************************************)
EXTENDS Feeds

CONSTANTS
    Providers,
    Payloads,       \* Payloads[p]: the quotes p may answer a tick with
    ResultPayloads, \* ResultPayloads[p]: what it may answer about results
    Final,          \* Final[id]: how an event really ended, None if not at all
    Club,           \* Club[n]: the real team on the side n = <<event id, side>>
    MaxLines, FaultKinds, MaxFaults

ASSUME CatalogAssumption ==
    /\ MaxFaults \in Nat
    /\ \A id \in DOMAIN MaxLines : MaxLines[id] \in Nat
    /\ Providers \subseteq {"apifootball", "theoddsapi", "mock"}
    /\ \A p \in Providers : \A raw \in Payloads[p] \union ResultPayloads[p] : raw.origin = p
    /\ \A p \in Providers \intersect {"mock"} : ResultPayloads[p] = {}

VARIABLES
    entities,   \* rows of sport, league and team
    maps,       \* rows of sport_source_map, league_source_map and team_source_map
    history,    \* rows of odds_history
    current,    \* rows of odds_current
    tx,         \* tx[p]: the transaction the loop of p has open, None without
    faults

vars == <<entities, maps, history, current, tx, faults>>

\* A row of table kind; its id is the kind and the slug of a sport or a number.
Entity(kind, id, sport, key, name, country) ==
    [kind |-> kind, id |-> id, sport |-> sport, key |-> key, name |-> name, country |-> country]

Identity(r) == <<r.kind, r.sport, r.key>>

NoLinks == [sport |-> None, league |-> None, home |-> None, away |-> None]

Init ==
    /\ entities = {}
    /\ maps = {}
    /\ history = {}
    /\ current = {}
    /\ tx = [p \in Providers |-> None]
    /\ faults = 0

Fault(kind) ==
    /\ kind \in FaultKinds
    /\ faults < MaxFaults
    /\ faults' = faults + 1

Lines(id) == {h \in history : h.eventId = id}
RowsOf(id) == {c \in current : c.eventId = id}

\* An event with its three way line and the rows that recording it asks for.
Resolving(event) ==
    LET slug == SlugifySport(event.sport, event.group)
        Team(name) == IF name \in Blank THEN None ELSE <<"team", slug, TeamMatchKey(name)>>
    IN  [eventId |-> event.eventId, odds |-> H2hOdds(event), commenceTime |-> event.commenceTime,
         country |-> event.country,
         name |-> [league |-> event.leagueName, home |-> event.home, away |-> event.away],
         source |-> [sport |-> event.sport, league |-> event.leagueKey,
                     home |-> event.homeKey, away |-> event.awayKey],
         wants |-> [sport |-> <<"sport", slug, <<slug>>>>,
                    league |-> IF event.leagueKey \in Blank \/ event.leagueName \in Blank
                               THEN None
                               ELSE <<"league", slug, LeagueMatchKey(event.leagueName)>>,
                    home |-> Team(event.home), away |-> Team(event.away), line |-> None]]

\* What the payloads yield.
Events == [p \in Providers |->
    {Resolving(e) : e \in {EventOf(raw) : raw \in Payloads[p]} \ {None}}]

\* None is neither an id nor a title.
ASSUME NoneAssumption ==
    /\ None \notin {"league", "team"} \X Nat
    /\ \A p \in Providers : \A event \in Events[p] :
           LET slug == event.wants.sport[2]
           IN  None \notin {<<"sport", slug>>, SportTitle(slug)}

Results == [p \in Providers |->
    {[eventId |-> CanonicalId(p, raw.id), outcome |-> ResultOf(raw)] : raw \in ResultPayloads[p]}]

-----------------------------------------------------------------------------
(* The transaction                                                         *)

InTx(p, step) == tx[p] # None /\ tx[p].step = step

Wrote(p) == IF tx[p] = None THEN {} ELSE tx[p].wrote

\* The committed rows and its own.
Visible(p) == {r \in entities : \A w \in Wrote(p) : w.id # r.id} \union Wrote(p)

\* The row the transaction asks for next, and where it is there already.
Wanted(p) == tx[p].event.wants[tx[p].step]
Found(p) == {r \in Visible(p) : Identity(r) = Wanted(p)}

\* Nothing keeps a second row of that sport and key out.
HeldBy_NoIndex(p) == {}

\* The unique index: who inserted or updated the row holds it until it ends.
HeldBy(p) == {q \in Providers \ {p} : \E w \in Wrote(q) : Identity(w) = Wanted(p)}

\* The table's sequence gives every insert another one.
FreshId(kind) ==
    LET rows == {r \in entities \union UNION {Wrote(q) : q \in Providers} : r.kind = kind}
    IN  <<kind, Min((1..Cardinality(rows) + 1) \ {r.id[2] : r \in rows})>>

Writes(p, rs, links, mapped, next) ==
    LET old == tx[p]
    IN  tx' = [tx EXCEPT ![p] =
            [event |-> old.event, step |-> next, links |-> links,
             wrote |-> {w \in old.wrote : \A r \in rs : w.id # r.id} \union rs,
             maps |-> {m \in old.maps : \A n \in mapped : m.source # n.source} \union mapped]]

MapRow(p, kind, key, to) == [source |-> <<kind, p, key>>, to |-> to]

\* Begins with the next event the tick yields.
Begin(p, event) ==
    /\ tx[p] = None
    /\ Cardinality(Lines(event.eventId)) < MaxLines[event.eventId]
    /\ tx' = [tx EXCEPT ![p] = [event |-> event, step |-> "sport",
                                wrote |-> {}, maps |-> {}, links |-> NoLinks]]
    /\ UNCHANGED <<entities, maps, history, current, faults>>

\* ON CONFLICT DO NOTHING: a row that is there is not touched.
ResolveSport(p) ==
    /\ InTx(p, "sport")
    /\ LET slug == Wanted(p)[2]
           row == Entity("sport", <<"sport", slug>>, slug, <<slug>>, SportTitle(slug), None)
       IN  /\ Found(p) # {} \/ HeldBy(p) = {}
           /\ Writes(p, IF Found(p) # {} THEN {} ELSE {row}, [NoLinks EXCEPT !.sport = slug],
                     {MapRow(p, "sport", tx[p].event.source.sport, slug)}, "league")
    /\ UNCHANGED <<entities, maps, history, current, faults>>

NewRow(p) ==
    Entity(Wanted(p)[1], FreshId(Wanted(p)[1]), Wanted(p)[2], Wanted(p)[3],
           tx[p].event.name[tx[p].step], tx[p].event.country)

\* The country is overwritten by whoever comes last, with nothing if need be.
GetOrCreate_Overwrites(p) ==
    IF Found(p) = {} THEN NewRow(p)
    ELSE [CHOOSE r \in Found(p) : TRUE EXCEPT !.country = tx[p].event.country]

\* ON CONFLICT DO UPDATE: the first name stays, a missing country is filled in.
GetOrCreate(p) ==
    IF Found(p) = {} THEN NewRow(p)
    ELSE [CHOOSE r \in Found(p) : TRUE
             EXCEPT !.country = IF @ = None THEN tx[p].event.country ELSE @]

\* A quote that does not name its league goes without.
ResolveLeague(p) ==
    /\ InTx(p, "league")
    /\ \/ /\ Wanted(p) = None
          /\ Writes(p, {}, tx[p].links, {}, "home")
       \/ /\ Wanted(p) # None
          /\ HeldBy(p) = {}
          /\ LET row == GetOrCreate(p)
             IN  Writes(p, {row}, [tx[p].links EXCEPT !.league = row.id],
                        {MapRow(p, "league", tx[p].event.source.league, row.id)}, "home")
    /\ UNCHANGED <<entities, maps, history, current, faults>>

\* A side whose name the quote leaves empty is not linked.  A provider without
\* ids of teams has them mapped by match key.
ResolveTeam(p, side, next) ==
    /\ InTx(p, side)
    /\ \/ /\ Wanted(p) = None
          /\ Writes(p, {}, tx[p].links, {}, next)
       \/ /\ Wanted(p) # None
          /\ HeldBy(p) = {}
          /\ LET row == GetOrCreate(p)
                 source == tx[p].event.source[side]
             IN  Writes(p, {row}, [tx[p].links EXCEPT ![side] = row.id],
                        {MapRow(p, "team", IF source \in Blank THEN row.key ELSE source, row.id)},
                        next)
    /\ UNCHANGED <<entities, maps, history, current, faults>>

\* The stamp of a line is its place in the history of the event.
LineOf(p) ==
    [eventId |-> tx[p].event.eventId, odds |-> tx[p].event.odds,
     updatedAt |-> Cardinality(Lines(tx[p].event.eventId)) + 1, links |-> tx[p].links]

RowFor(p) ==
    LET line == LineOf(p)
        old == RowsOf(line.eventId)
    IN  [eventId |-> line.eventId, odds |-> line.odds, updatedAt |-> line.updatedAt,
         links |-> line.links, commenceTime |-> tx[p].event.commenceTime,
         outcome |-> IF old = {} THEN None ELSE (CHOOSE c \in old : TRUE).outcome]

\* The last statements, each on rows of this provider alone, and the commit.
Commit(p) ==
    /\ InTx(p, "line")
    /\ entities' = Visible(p)
    /\ maps' = {m \in maps : \A n \in tx[p].maps : m.source # n.source} \union tx[p].maps
    /\ history' = history \union {LineOf(p)}
    /\ current' = (current \ RowsOf(tx[p].event.eventId)) \union {RowFor(p)}
    /\ tx' = [tx EXCEPT ![p] = None]
    /\ UNCHANGED faults

\* The line was written by a connection of its own.
Abort_LineStays(p) ==
    /\ current' = IF tx[p].step = "line"
                  THEN (current \ RowsOf(tx[p].event.eventId)) \union {RowFor(p)} ELSE current
    /\ tx' = [tx EXCEPT ![p] = None]
    /\ UNCHANGED <<entities, maps, history>>

\* Without the rollback: the connection keeps what the transaction holds.
Abort_Open(p) ==
    /\ tx' = [tx EXCEPT ![p].step = "failed", ![p].event.wants = @ @@ [failed |-> None]]
    /\ UNCHANGED <<entities, maps, history, current>>

\* Nothing of it was there: the tick throws, the next one quotes the event again.
Abort(p) ==
    /\ tx' = [tx EXCEPT ![p] = None]
    /\ UNCHANGED <<entities, maps, history, current>>

RecordFails(p) == tx[p] # None /\ Fault("statement") /\ Abort(p)

WaitsFor(p, q) == q \in HeldBy(p)

\* p is in a circle: everyone in it waits, and is waited for.
Deadlocked(p) ==
    LET waiting == {q \in Providers : tx[q] # None /\ HeldBy(q) # {}}
    IN  /\ p \in waiting
        /\ \E circle \in SUBSET waiting :
               /\ p \in circle
               /\ \A q \in circle : \E r, t \in circle : WaitsFor(q, r) /\ WaitsFor(t, q)

\* PostgreSQL finds out and makes the statement of one of them fail.
DeadlockDetected(p) == Deadlocked(p) /\ Abort(p) /\ UNCHANGED faults

Crash ==
    /\ Fault("crash")
    /\ tx' = [p \in Providers |-> None]
    /\ UNCHANGED <<entities, maps, history, current>>

-----------------------------------------------------------------------------
(* Results and reads                                                       *)

\* A result the provider reports of an event it is asked about: one that has
\* a kickoff and no outcome.
PollResult(p, result) ==
    \E c \in RowsOf(result.eventId) :
        /\ c.commenceTime # None /\ c.outcome = None /\ result.outcome # None
        /\ current' = (current \ {c}) \union {[c EXCEPT !.outcome = result.outcome]}
        /\ UNCHANGED <<entities, maps, history, tx, faults>>

\* hydrateNames: the rows are read before the names.
NameOf(id) ==
    LET found == {r \in entities : r.id = id}
    IN  IF found = {} THEN None ELSE (CHOOSE r \in found : TRUE).name

\* An event of the table with the names of what it is linked to.
ToEvent(c) ==
    [eventId |-> c.eventId, odds |-> c.odds,
     sportName |-> NameOf(<<"sport", c.links.sport>>),
     leagueId |-> c.links.league, leagueName |-> NameOf(c.links.league),
     homeTeamName |-> NameOf(c.links.home), awayTeamName |-> NameOf(c.links.away)]

\* As a GET answers it.
Response(c) == [ToEvent(c) EXCEPT !.odds = IF @ = None THEN <<0, 0, 0>> ELSE @]

ListCurrent(sport, league) ==
    {c \in current : /\ sport = None \/ c.links.sport = sport
                     /\ league = None \/ c.links.league = league}

ListSports == {[slug |-> r.sport, name |-> r.name] : r \in {s \in entities : s.kind = "sport"}}

ListLeagues(sport) ==
    {[id |-> r.id, name |-> r.name, sportSlug |-> r.sport] :
        r \in {l \in entities : l.kind = "league" /\ (sport = None \/ l.sport = sport)}}

-----------------------------------------------------------------------------

TxStep(p) ==
    \/ ResolveSport(p) \/ ResolveLeague(p) \/ ResolveTeam(p, "home", "away")
    \/ ResolveTeam(p, "away", "line") \/ Commit(p)

Next ==
    \/ \E p \in Providers :
           \/ \E event \in Events[p] : Begin(p, event)
           \/ TxStep(p) \/ RecordFails(p) \/ DeadlockDetected(p)
           \/ \E result \in Results[p] : PollResult(p, result)
    \/ Crash

Spec == Init /\ [][Next]_vars

\* Statements are executed, a lock is given to those who wait in turn, and who
\* waits in a circle fails.  No provider has to quote anything.
Fairness == \A p \in Providers : SF_vars(TxStep(p) \/ DeadlockDetected(p))

FairSpec == Spec /\ Fairness

-----------------------------------------------------------------------------
(* What is taken for granted of the providers                              *)

\* Labels have one match key in one sport just when they are one club's.
KeysTellClubs ==
    \A p, q \in Providers : \A e \in Events[p], f \in Events[q], side, other \in {"home", "away"} :
        None \notin {e.wants[side], f.wants[other]} =>
            (Club[<<e.eventId, side>>] = Club[<<f.eventId, other>>]
                 <=> e.wants[side] = f.wants[other])

\* A payload that says a game is over tells the truth as far as it goes:
\* points[id] are the points of the sides at the end of a game of The Odds API,
\* the flags of API-Football are those of the end.  Entries may be missing,
\* repeated, unreadable, of nobody and in any order, flags may be absent.
HonestReports(points) ==
    \A p \in Providers : \A raw \in ResultPayloads[p] :
        LET id == CanonicalId(p, raw.id)
        IN  /\ p = "theoddsapi" => /\ Len(raw.scores) \in Nat
                                   /\ DOMAIN raw.scores = 1..Len(raw.scores)
                                   /\ points[id].home \in Nat /\ points[id].away \in Nat
            /\ p = "theoddsapi" /\ raw.completed =>
                   /\ Final[id] = Winner(points[id].home, points[id].away)
                   /\ \A side \in {"home", "away"}, i \in DOMAIN raw.scores :
                          OutcomeFor(raw.scores[i].name, raw.home, raw.away) = side =>
                              raw.scores[i].score \in {Unreadable, points[id][side]}
            /\ p = "apifootball" /\ raw.status \in FinalStatuses =>
                   /\ Final[id] \in {"home", "away", "draw"}
                   /\ raw.homeWinner # "absent" => (raw.homeWinner = "true" <=> Final[id] = "home")
                   /\ raw.awayWinner # "absent" => (raw.awayWinner = "true" <=> Final[id] = "away")

-----------------------------------------------------------------------------
(* Properties                                                              *)

\* The names an event is answered with.
Names(c) == [league |-> Response(c).leagueName, home |-> Response(c).homeTeamName,
             away |-> Response(c).awayTeamName]

\* "Two providers whose labels reduce to the same match key converge onto one
\* canonical row" (entities.ts), whichever of them comes first or both at once,
\* and ids are of one row.
OneRowPerIdentity ==
    \A r, s \in entities : Identity(r) = Identity(s) \/ r.id = s.id => r = s

\* Labels of one club reach one team from every provider, and labels of two
\* clubs, or of one name in two sports, never meet; a label left out is of nobody.
LabelsMeet ==
    \A c, d \in current, side, other \in {"home", "away"} :
        None \notin {c.links[side], d.links[other]} =>
            (Club[<<c.eventId, side>>] = Club[<<d.eventId, other>>]
                 <=> c.links[side] = d.links[other])

\* What is read of an event hangs together.  Its line is one of its history; its
\* league and sides are answered with a name just when a quote of it gave one
\* ("null when unlinked", toEvent), and then by the row of that very label, of
\* the event's own sport; and a league's events are found whether or not its
\* sport is asked for too ("the sport filter above is redundant", listCurrent).
LinksAgree ==
    /\ \A c \in current :
           /\ \E h \in history : h.eventId = c.eventId /\ h.updatedAt = c.updatedAt
                                 /\ h.links = c.links /\ h.odds = c.odds
           /\ Response(c).sportName # None
           /\ Response(c).leagueId = None <=> Response(c).leagueName = None
           /\ \E p \in Providers : \E event \in Events[p] :
                  /\ event.eventId = c.eventId
                  /\ \A side \in {"league", "home", "away"} :
                         /\ Names(c)[side] = None <=> event.wants[side] = None
                         /\ \A r \in entities : r.id = c.links[side] =>
                                Identity(r) = event.wants[side] /\ r.sport = c.links.sport
    /\ \A l \in ListLeagues(None) :
           /\ l \in ListLeagues(l.sportSlug)
           /\ \E s \in ListSports : s.slug = l.sportSlug
           /\ ListCurrent(None, l.id) = ListCurrent(l.sportSlug, l.id)

\* A link handed out stays good, also while names are read after the rows: no
\* canonical row goes away, takes another name or loses its country.
FirstSeenKept ==
    [][\A r \in entities : \E s \in entities' :
           /\ [s EXCEPT !.country = None] = [r EXCEPT !.country = None]
           /\ s.country = r.country \/ r.country = None]_vars

\* "A malformed payload must not settle bets": what a payload is taken to say is
\* how the event ended or nothing, whatever its order, gaps and unfinished
\* games, and so is what is recorded.
OnlyRealResults ==
    /\ \A p \in Providers : \A r \in Results[p] : r.outcome \in {None, Final[r.eventId]}
    /\ \A c \in current : c.outcome \in {None, Final[c.eventId]}

\* Loops that wait for each other do not wait for ever.
RecordsEnd == \A p \in Providers : tx[p] # None ~> tx[p] = None
=============================================================================
