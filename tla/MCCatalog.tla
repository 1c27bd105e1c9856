----------------------------- MODULE MCCatalog -----------------------------
(***************************************************************************)
(* A small instance of Catalog.  API-Football quotes a fixture of          *)
(* Manchester City and Arsenal, The Odds API a game of Arsenal in the same *)
(* league whose away side is not known yet, and one of both clubs, under   *)
(* its own names, in a cup it gives no title, the mock a basketball game   *)
(* of another Arsenal in another Premier League.  Some payloads are not    *)
(* quotes, some prices no numbers, and few of the results can be relied on.*)
(***************************************************************************)
EXTENDS Catalog

AllProviders == {"apifootball", "theoddsapi", "mock"}

PlainOf ==
    ("Manchester" :> "manchester") @@ ("City" :> "city") @@ ("Man" :> "man")
        @@ ("FC" :> "fc") @@ ("Arsenal" :> "arsenal") @@ ("Real" :> "real")
        @@ ("Premier" :> "premier") @@ ("League" :> "league") @@ ("EPL" :> "epl")
        @@ ("Cup" :> "cup") @@ ("Home" :> "home") @@ ("Away" :> "away")
        @@ ("Over" :> "over") @@ ("Under" :> "under") @@ ("Draw" :> "draw")

NumberOfWord ==
    ("2.5" :> 250) @@ ("1.50" :> 150) @@ ("1.80" :> 180) @@ ("4.00" :> 400) @@ ("4.10" :> 410)

Price(name, odds) == [name |-> name, price |-> odds]
Offer(key, outcomes) == [key |-> key, outcomes |-> outcomes]

Fixture(bets) ==
    [origin |-> "apifootball", id |-> 1, sport |-> <<"soccer", "39">>, timestamp |-> 5,
     home |-> <<"Manchester", "City">>, away |-> <<"Arsenal">>,
     homeKey |-> <<"50">>, awayKey |-> <<"42">>, leagueKey |-> <<"39">>,
     leagueName |-> <<"Premier", "League">>, country |-> "England", bookmakers |-> bets]

Fixtures == {
    Fixture(<<>>),
    Fixture(<<<<Offer("Goals Over/Under",
                      <<Price(<<"Over">>, "1.80"), Price(<<"Over", "Goals">>, "1.80")>>)>>>>),
    Fixture(<<<<Offer("Goals Over/Under", <<Price(<<"Over", "2.5">>, "1.80")>>),
                Offer("Match Winner", <<Price(<<"Home">>, "1.50"), Price(<<"Draw">>, "-"),
                                        Price(<<"Away">>, "4.00")>>)>>>>)}

Game(id, sport, home, away, title, outcomes) ==
    [origin |-> "theoddsapi", id |-> id, sport |-> sport, home |-> home, away |-> away,
     leagueKey |-> sport, leagueName |-> title, bookmakers |-> <<<<Offer("h2h", outcomes)>>>>]

Gunners == <<"Arsenal", "FC">>
Citizens == <<"Man", "City">>

Games == {
    Game(1, <<"soccer", "epl">>, Gunners, <<>>, <<"EPL">>, <<Price(Gunners, "4.00")>>),
    Game(2, <<"soccer", "cup">>, Gunners, Citizens, None, <<Price(Gunners, "4.10")>>),
    Game(2, <<"soccer", "cup">>, None, Citizens, None, <<Price(Citizens, "1.50")>>)}

MockGames == {
    [origin |-> "mock", id |-> 1, sport |-> <<"basketball", "cup">>, timestamp |-> 5,
     home |-> <<"Real">>, away |-> <<"Arsenal">>, leagueKey |-> <<"basketball", "cup">>,
     leagueName |-> <<"Premier", "League">>, country |-> "Spain",
     prices |-> [home |-> 200, draw |-> 300, away |-> 200, over |-> 180, under |-> 180]]}

Quotes == ("apifootball" :> Fixtures) @@ ("theoddsapi" :> Games) @@ ("mock" :> MockGames)

\* City won the fixture and the cup game; the game of the league was called off.
Ends ==
    (<<"apifootball", 1>> :> "home") @@ (<<"theoddsapi", 1>> :> None)
        @@ (<<"theoddsapi", 2>> :> "away") @@ (<<"mock", 1>> :> None)

\* One line of each; a second one meets the rows of the first as another event does.
Recorded == [id \in DOMAIN Ends |-> 1]

Reported(status, home, away) ==
    [origin |-> "apifootball", id |-> 1, status |-> status, homeWinner |-> home, awayWinner |-> away]

Score(name, points) == [name |-> name, score |-> points]
Played(id, home, away, completed, scores) ==
    [origin |-> "theoddsapi", id |-> id, home |-> home, away |-> away,
     completed |-> completed, scores |-> scores]

Reports == {
    Reported("2H", "false", "true"), Reported("FT", "absent", "absent"),
    Reported("FT", "true", "false")}

ScoreReports == {
    Played(1, Gunners, Citizens, FALSE, <<Score(Gunners, 1), Score(Citizens, 0)>>),
    Played(2, Gunners, Citizens, TRUE, <<>>),
    Played(2, Gunners, Citizens, TRUE, <<Score(Gunners, 1)>>),
    Played(2, Gunners, Citizens, TRUE, <<Score(Gunners, 1), Score(Citizens, Unreadable)>>),
    Played(2, Gunners, Citizens, TRUE,
           <<Score(<<"Cup">>, 9), Score(Citizens, 2), Score(Gunners, 1)>>),
    Played(2, Gunners, Citizens, TRUE, <<Score(Citizens, 2), Score(Gunners, 1)>>)}

\* The points of the games of The Odds API at the end.
Points == [id \in DOMAIN Ends |-> [home |-> 1, away |-> 2]]

ASSUME MCReports == HonestReports(Points)

Outcome == ("apifootball" :> Reports) @@ ("theoddsapi" :> ScoreReports) @@ ("mock" :> {})

\* The basketball clubs are other clubs, also where the name is the same.
Clubs ==
    [n \in (DOMAIN Ends) \X {"home", "away"} |->
        CASE n[1] = <<"mock", 1>> -> IF n[2] = "home" THEN "Real BC" ELSE "Arsenal BC"
          [] n[1] = <<"apifootball", 1>> -> IF n[2] = "home" THEN "Manchester City" ELSE "Arsenal"
          [] OTHER -> IF n[2] = "home" THEN "Arsenal" ELSE "Manchester City"]
=============================================================================
