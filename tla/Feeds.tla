------------------------------- MODULE Feeds -------------------------------
(***************************************************************************)
(* What the odds service makes of a provider's payload (services/odds,     *)
(* providers/ and odds/normalize.ts): the canonical event of a quote, the  *)
(* outcome of a result, and the match keys under which the names of sports,*)
(* leagues and teams of different providers meet.                          *)
(*                                                                         *)
(* A name is the sequence of its words, a word being a run of letters and  *)
(* digits, and the empty text has none; a provider's sport key is the      *)
(* sequence of its parts (<<"soccer", "epl">> for soccer_epl), its other   *)
(* keys have one.  A field that is absent is None.                         *)
(***************************************************************************)
EXTENDS Integers, FiniteSetsExt, SequencesExt, TLC

CONSTANTS
    Plain,      \* Plain[w]: word w in lower case, without accents; others are so
    Number,     \* Number[w]: the number that word w writes; others write none
    Unreadable, \* a price that is not a number (NaN), a score not an integer
    None

Outcomes == {"home", "draw", "away"}

Alias(aliases, key) == IF key \in DOMAIN aliases THEN aliases[key] ELSE key
NumberOf(word) == IF word \in DOMAIN Number THEN Number[word] ELSE Unreadable
Lower(name) == [i \in DOMAIN name |-> Alias(Plain, name[i])]

\* What a test for truth takes for not given.
Blank == {None, <<>>}

\* Only the elements that Of gives something for, as what it gives.
Mapped(Of(_), s) ==
    LET kept == SelectSeq(s, LAMBDA x : Of(x) # None)
    IN  [i \in DOMAIN kept |-> Of(kept[i])]

-----------------------------------------------------------------------------
(* Names                                                                   *)

SportAliases ==
    ("soccer" :> "soccer") @@ ("football" :> "soccer") @@ ("basketball" :> "basketball")
        @@ ("americanfootball" :> "american_football")
        @@ ("american football" :> "american_football")

SportTitles ==
    ("soccer" :> <<"Soccer">>) @@ ("basketball" :> <<"Basketball">>)
        @@ ("american_football" :> <<"American", "Football">>)

SlugifySport(sourceKey, group) ==
    IF group \in DOMAIN SportAliases THEN SportAliases[group]
    ELSE Alias(SportAliases, Head(sourceKey))

SportTitle(slug) == IF slug \in DOMAIN SportTitles THEN SportTitles[slug] ELSE <<slug>>

FillerTokens == {"fc", "afc", "cf", "sc", "club"}

NormalizeName(name) == SelectSeq(Lower(name), LAMBDA w : w \notin FillerTokens)

TeamAliases ==
    (<<"man", "city">> :> <<"manchester", "city">>)
        @@ (<<"man", "utd">> :> <<"manchester", "united">>)
        @@ (<<"man", "united">> :> <<"manchester", "united">>)
        @@ (<<"la", "lakers">> :> <<"los", "angeles", "lakers">>)
        @@ (<<"ny", "giants">> :> <<"new", "york", "giants">>)
        @@ (<<"sf", "49ers">> :> <<"san", "francisco", "49ers">>)

LeagueAliases ==
    (<<"epl">> :> <<"premier", "league">>)
        @@ (<<"soccer", "epl">> :> <<"premier", "league">>)
        @@ (<<"nba">> :> <<"national", "basketball", "association">>)
        @@ (<<"nfl">> :> <<"national", "football", "league">>)

\* The alias is looked up under the name as it was written.
TeamMatchKey_RawAlias(name) ==
    IF name \in DOMAIN TeamAliases THEN TeamAliases[name] ELSE NormalizeName(name)

TeamMatchKey(name) == Alias(TeamAliases, NormalizeName(name))

LeagueMatchKey(name) == Alias(LeagueAliases, NormalizeName(name))

-----------------------------------------------------------------------------
(* Markets                                                                 *)

\* A label is Home, Draw, Away, or the name of a side as the payload spells it.
OutcomeFor(label, home, away) ==
    IF Lower(label) = <<"draw">> THEN "draw"
    ELSE IF Lower(label) = <<"home">> \/ label = home THEN "home"
    ELSE IF Lower(label) = <<"away">> \/ label = away THEN "away"
    ELSE None

Market(key, selections) ==
    IF selections = <<>> THEN None ELSE [key |-> key, selections |-> selections]

WinnerMarket(prices, home, away) ==
    LET Selection(o) ==
            IF OutcomeFor(o.name, home, away) = None THEN None
            ELSE [key |-> OutcomeFor(o.name, home, away), odds |-> NumberOf(o.price)]
    IN  Market("h2h", Mapped(Selection, prices))

TotalsMarket(prices) ==
    LET Selection(o) ==
            IF Lower(o.name)[1] \in {"over", "under"}
            THEN [key |-> Lower(o.name)[1], odds |-> NumberOf(o.price)] ELSE None
    IN  Market("totals", Mapped(Selection, prices))

\* The Odds API: the first bookmaker's markets stand for all; a total is
\* Over or Under alone.
OddsApiMarkets(raw) ==
    LET Total(o) == Len(o.name) = 1
        Of(m) == CASE m.key = "h2h" -> WinnerMarket(m.outcomes, raw.home, raw.away)
                   [] m.key = "totals" -> TotalsMarket(SelectSeq(m.outcomes, Total))
                   [] OTHER -> None
    IN  Mapped(Of, raw.bookmakers[1])

\* API-Football: a total is Over or Under and one word more, a number.
MarketsFromBets(raw) ==
    LET Total(v) == Len(v.name) = 2 /\ NumberOf(v.name[2]) # Unreadable
        Of(b) == CASE b.key = "Match Winner" -> WinnerMarket(b.outcomes, raw.home, raw.away)
                   [] b.key = "Goals Over/Under" -> TotalsMarket(SelectSeq(b.outcomes, Total))
                   [] OTHER -> None
    IN  Mapped(Of, raw.bookmakers[1])

\* The price of a side in the first market of that key; the last of equal labels counts.
PriceOf(event, key) ==
    LET h2h == {i \in DOMAIN event.markets : event.markets[i].key = "h2h"}
        sides == IF h2h = {} THEN <<>> ELSE event.markets[Min(h2h)].selections
        found == {i \in DOMAIN sides : sides[i].key = key}
    IN  IF found = {} THEN None ELSE sides[Max(found)].odds

\* The three way line; none of it unless both sides have a price.
H2hOdds(event) ==
    IF None \in {PriceOf(event, "home"), PriceOf(event, "away")} THEN None
    ELSE <<PriceOf(event, "home"), PriceOf(event, "away"),
           IF PriceOf(event, "draw") = None THEN 0 ELSE PriceOf(event, "draw")>>

-----------------------------------------------------------------------------
(* Quotes                                                                  *)

CanonicalId(origin, sourceId) == <<origin, sourceId>>

Named(raw) == None \notin {raw.id, raw.home, raw.away}

Quoted(raw, markets) ==
    [eventId |-> CanonicalId(raw.origin, raw.id), origin |-> raw.origin, sport |-> raw.sport,
     group |-> None, home |-> raw.home, away |-> raw.away, markets |-> markets,
     commenceTime |-> None, leagueKey |-> raw.leagueKey, leagueName |-> raw.leagueName,
     country |-> None, homeKey |-> None, awayKey |-> None]

\* No kickoff, no country and no ids; sport_key and sport_title stand for the league.
Normalise(raw) ==
    IF raw.bookmakers = <<>> \/ ~Named(raw) THEN None
    ELSE IF OddsApiMarkets(raw) = <<>> THEN None
    ELSE [Quoted(raw, OddsApiMarkets(raw)) EXCEPT
              !.leagueKey = IF @ = None THEN raw.sport ELSE @]

FixtureOdds(raw) ==
    IF raw.bookmakers = <<>> \/ ~Named(raw) THEN None
    ELSE IF MarketsFromBets(raw) = <<>> THEN None
    ELSE [Quoted(raw, MarketsFromBets(raw)) EXCEPT
              !.group = "soccer", !.commenceTime = raw.timestamp, !.country = raw.country,
              !.homeKey = raw.homeKey, !.awayKey = raw.awayKey]

HasDraw(sport) == Head(sport) = "soccer"

\* The mock makes its prices up; only soccer can be drawn.
MockEvent(raw) ==
    LET side(key) == [key |-> key, odds |-> raw.prices[key]]
        h2h == IF HasDraw(raw.sport) THEN <<side("home"), side("draw"), side("away")>>
               ELSE <<side("home"), side("away")>>
    IN  [Quoted(raw, <<Market("h2h", h2h), Market("totals", <<side("over"), side("under")>>)>>)
            EXCEPT !.commenceTime = raw.timestamp, !.country = raw.country]

EventOf(raw) ==
    CASE raw.origin = "theoddsapi" -> Normalise(raw)
      [] raw.origin = "apifootball" -> FixtureOdds(raw)
      [] raw.origin = "mock" -> MockEvent(raw)

-----------------------------------------------------------------------------
(* Results                                                                 *)

Winner(home, away) == IF home > away THEN "home" ELSE IF away > home THEN "away" ELSE "draw"

\* The first entry is taken for the home side's.
OutcomeFromScores_ByPosition(raw) ==
    IF Len(raw.scores) < 2 \/ Unreadable \in {raw.scores[1].score, raw.scores[2].score}
    THEN None ELSE Winner(raw.scores[1].score, raw.scores[2].score)

\* By the names the payload itself gives the sides; nothing unless each has a
\* score and every score of a side can be read.
OutcomeFromScores(raw) ==
    LET of(side) ==
            {i \in DOMAIN raw.scores : OutcomeFor(raw.scores[i].name, raw.home, raw.away) = side}
        score(side) == raw.scores[Max(of(side))].score
    IN  IF \E i \in of("home") \union of("away") : raw.scores[i].score = Unreadable THEN None
        ELSE IF of("home") = {} \/ of("away") = {} THEN None
        ELSE Winner(score("home"), score("away"))

GameResult(raw) == IF raw.completed /\ raw.scores # <<>> THEN OutcomeFromScores(raw) ELSE None

FinalStatuses == {"FT", "AET", "PEN"}
NoResultStatuses == {"PST", "CANC", "ABD", "AWD", "WO"}

\* By the winner flags: present on both sides, true for who won, null for a draw.
OutcomeFromFixture(raw) ==
    IF "absent" \in {raw.homeWinner, raw.awayWinner} THEN None
    ELSE IF raw.homeWinner = "true" THEN "home"
    ELSE IF raw.awayWinner = "true" THEN "away"
    ELSE "draw"

FixtureResult(raw) ==
    IF raw.status \in FinalStatuses /\ raw.status \notin NoResultStatuses
    THEN OutcomeFromFixture(raw) ELSE None

ResultOf(raw) ==
    CASE raw.origin = "theoddsapi" -> GameResult(raw)
      [] raw.origin = "apifootball" -> FixtureResult(raw)
=============================================================================
