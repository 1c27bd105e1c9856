# A TLA+ verification of BetPossum

BetPossum is a betting demo of four NestJS services (`core`, `odds`, `stats`,
`notifications`), a React single-page application and a fleet of bots. Services
talk through RabbitMQ fanout exchanges; `core` moves money on a TigerBeetle
ledger and keeps bets in Postgres. This directory models the parts of it whose
correctness depends on the order of events, and says what was checked and proved
about them.

Contents: [the system](#the-system) · [modules](#the-modules) ·
[Betting](#betting) · [OddsCache](#oddscache) · [Accounts](#accounts) ·
[Results](#results) · [Settlements](#settlements) · [Catalog](#catalog) ·
[Tab](#tab) · [Pages](#pages) · [runs](#the-runs) ·
[disagreements](#where-code-and-documents-disagree) · [proofs](#the-proofs) ·
[what is not modelled](#what-is-not-modelled) · [plan](#the-plan).

## The system

| part | state | operations | talks to |
| --- | --- | --- | --- |
| core / bets | `bets` rows: user, event, selection, odds, stake, payout, status | `place` (HTTP), `handleEventResolved` → `settle` → `publishSettled` (queue `core.events.resolved`) | wallet (call), odds cache (call), broker |
| core / wallet | TigerBeetle accounts and transfers | `createAccount`, `deposit`, `setBalance`, `hold`, `release`, `keep`, `payout` | ledger, `notifications` exchange |
| core / odds cache | map event → price, `updatedAt`, `resolved` | `applyTick`, `hydrate`, `markResolved`, `priceFor` | exchange `odds.updated`, HTTP `GET /odds/events` |
| core / users, admin, Keycloak | `users` rows, admin token | first-login provisioning, balance adjustment | wallet, Keycloak |
| core / messaging | one connection, one channel, never reopened | `publish`, `subscribe` with ack, nack and requeue | broker |
| odds / providers | none that lasts (mock: its fixtures) | `fetchTick`, `fetchResults` | external feeds |
| odds / runner, storage, publisher, controller | sports, leagues, teams, events, current odds, history | poll loop, `record`, `recordResult`, `listUnresolved`, admin `resolveEvent` | Postgres, exchanges `odds.updated` and `events.resolved` |
| messaging of odds, stats, notifications | connection, channel, subscriptions, retry delay | reconnect with back-off, replay of subscriptions | broker |
| stats | `stats_settlements`, one row per bet | consume `bets.settled`, leaderboard, ROI series | Postgres, broker |
| notifications | sockets in rooms per user | verify the token on connect, relay each message to its room or to all | broker, browsers |
| frontend | session, cached bets, balance and odds | silent refresh, fetch and merge pushes, place a bet | HTTP, socket.io |
| bots | tokens | register, poll odds, bet | HTTP |

What is hard in it:

* **Interleaving.** Node runs one turn at a time, and every `await` ends one.
  A request that places a bet has five of them, a settlement six per bet. The
  broker has no prefetch limit, so several resolutions are handled at once.
* **No transaction spans the row and the ledger.** `place` compensates by hand,
  `settle` does not; a crash, a failed statement or a closed channel can come
  between any two steps.
* **At-least-once delivery.** A handler that throws is redelivered; so is one
  that was finished and not acked. Redelivery must neither pay twice nor stop
  short.
* **Two classes of message.** Resolutions and settlements are durable; ticks
  and notifications are dropped when nobody listens, reordered and repeated.
* **Reading, then writing.** Prices are read before the bet is held; balances
  before they are adjusted or pushed; the set of held rows before they are
  settled.
* **Several names for one thing.** Providers spell clubs, leagues and sports their
  own way and are recorded side by side, in transactions that wait for each other.
* **Copies in the browser.** A page shows answers and pushes of any age, while the
  session may expire, be renewed twice over or end in another tab.

`PROJECT.json` lists these one by one under `hazards`, each at its line, with the
properties that would catch it.

What makes each part correct:

| part | correct when |
| --- | --- |
| core / bets | a bet is paid once and by its event's resolution; its row, its ledger transfers, the answer to its player and the message to stats agree; held bets settle |
| core / wallet | no balance goes below zero; balances add up from what was committed |
| core / odds cache | prices come from lines the feed recorded, never go back in time, and a closed event stays closed; every event becomes known |
| core / users, admin | one deposit per user, whatever arrives together; no adjustment loses another's transfer |
| odds / runner, storage, publisher, controller | a polled event is resolved once and with its result; an outcome that is recorded is announced and never taken back; finished events get their result |
| odds / providers | each event that has a result is reported with the right one, matched to the right names |
| odds / storage, canonical rows | one row per club, league and sport whoever records it first; links that stay good; no loop stuck in a lock |
| messaging | what is subscribed stays subscribed through reconnects; each message is acked once, on the channel it came from |
| stats | a settlement counts once; the chart and the leaderboard follow from the settlements |
| notifications | only the owner of a message gets it |
| frontend, session and lists | what is shown catches up with what the tab was told, whatever order pushes and answers arrive in; a session that can come back does, one that has ended stays ended |
| frontend, pages | a slip sells what it shows and pays what it says, to the cent doubles can tell; filters never contradict each other; an admin saves only what was typed |

## The modules

| module | what it is |
| --- | --- |
| `Money` | `profitCents`, the one rounding site of core's money path, and what rounding in doubles may give |
| `Wallet` | the ledger as bets use it: hold, void, post, payout |
| `Betting` | placement and settlement, with faults; EXTENDS `Wallet` and `Money` |
| `BetPromise` | the abstract specification: what a player is promised about the money of a bet |
| `BettingInvariant` | its inductive invariants, `IInv` and, for the account, `AccountInv` |
| `OddsCache` | core's price cache and the three paths that feed it |
| `PriceBook` | the abstract specification of the cache: unknown, open at a price, closed for good |
| `Accounts` | a user's first request, the opening deposit, the admin's adjustments |
| `Results` | the odds service's poll loops and how a result reaches `events.resolved` |
| `Feeds` | what the odds service reads out of each provider's payloads, and the match keys of names |
| `Catalog` | how quotes of several providers are recorded on canonical rows; EXTENDS `Feeds` |
| `ReadModel` | summary, chart and leaderboard as operators on the settlements table |
| `Settlements` | stats' durable consumer over the messaging wrapper that reconnects; EXTENDS `ReadModel` |
| `Tab` | a browser tab's session, socket and one fetched and pushed list of items, with the services' notifications and the relay behind it |
| `Pages` | dashboard, bet slip and admin pages on copies of any age; EXTENDS `Money` |
| `BettingProofs`, `OddsCacheProofs`, `AccountsProofs`, `ResultsProofs`, `SettlementsProofs`, `CatalogProofs`, `BrowserProofs` | the theorems; `BrowserProofs` has those of `Tab` and `Pages` |
| `SumTheorems` | what a sum over a finite set is, for the proofs about balances and returns |
| `MC*` + `*.cfg` | the instances TLC checks |

The models meet at a few points. `Results` publishes what `Betting` consumes:
`Betting!Publish` allows any outcome at any time and several messages for one
event, which is more than `Results` ever does. The `cache[e]` of `Betting` is
the state of `PriceBook`, which `OddsCache` implements: unknown, open or closed.
`Accounts` starts where `Betting` cannot go, before the account exists; from
then on its balance changes by transfers only, as in `Wallet`. The messages
`Betting` counts in `sent` are the ones `Settlements` consumes, one per bet, which
is what `SettledEventMatchesRow` and `SettledIsFinal` establish. `Pages` holds what
a slip shows against every value that core's `profitCents`, which `Betting` takes
exactly, may have in doubles. `Results` takes a provider's
answer as right or missing; that `Feeds` makes nothing else of a payload is
`OnlyRealResults` of `Catalog`.

A definition `Name_Variant` stands directly before `Name` and is `Name` with one
plausible mistake. No specification uses it; putting it in the place of `Name`
breaks the property named with it under `mutants` in `PROJECT.json`, which shows
that the property depends on that line of the code.

## Betting

`Betting` is `bets.service.ts` statement by statement.

| state | in the code |
| --- | --- |
| `status`, `quote`, `payoutCents` | the row in `bets`; `"none"` is no row |
| `balance`, `hold`, `paid` (`Wallet`) | the ledger: spendable cents, the pending transfer whose id is the bet's, payout transfers carrying the bet |
| `pc[b]` | where the request placing `b` is, and what it was answered |
| `result[m]`, `hpc[m]`, `todo[m]`, `cur[m]` | a message of `events.resolved`, where it or its handler is, the handler's remaining `held` rows, the bet in `settle` |
| `cache[e]` | whether the price cache knows the event and lets it be bet on |
| `sent[b]` | messages on `bets.settled` |
| `channel`, `faults` | core's broker channel; how many faults happened |

One action is one turn that touches shared state: `Request` (price lookup, same
turn as the request), `SaveRow`, `Hold`, `DeleteRow`, `ConfirmHeld`,
`NotifyHeld`; `Deliver` (parse and `markResolved`, before the first await),
`FindHeld`, `ReadRow`, `Release` / `Keep` / `TransferRefused`, `Payout`,
`Record`, `PublishSettled`, `EndLoop`, `Finish` (ack or nack). A transfer and the
`balanceUpdated` publish that follows it are one action, since nothing but this
caller sees the point between them; the publish decides where the caller goes
next, because it throws on a closed channel *after* the transfer has committed.

Faults, each kind switched on by `FaultKinds` and all counted by `MaxFaults`:
the process dies and is restarted (`restart: unless-stopped`; unacked messages
are requeued, the cache starts empty); the channel closes and is never reopened
(core has no reconnect: every later publish throws, and the first ack that throws
ends the process, because nothing handles that rejection); one statement on the
`bets` table throws without effect.

Data: a bet's stake and side are constants, since place writes them once; odds
are integers, `OddsUnit` of them to 1.0. The ledger's refusal rules (a limit on
debits, no second void or post of a pending transfer) are TigerBeetle's, as the
code relies on them. Users other than the bettor, formatting and logging are left
out.

Bounds: `Msgs` resolutions and `Bets` bets exist from the start and are used
once; a retry reuses its message, so retries are unbounded. `MaxFaults` bounds
the faults. No other counter grows.

`AccountMatchesBets` compares the account with the rows at rest (`AtRest`): nothing
of the player's is under way, nothing has failed, and no bet's profit is too large for
its column. The last one matters: such a payout fails after it is paid, which leaves
a row that says `held` and a ledger that says won. All passing runs have bets of
that kind (`MaxColumn` is 4). `HeldBetsSettle` names it too: without any fault such a
bet is stuck for good, and so are the bets behind it in every delivery's batch.

`Wallet!Hold` is one atomic transfer under the ledger's limit on debits, so that
balances do not go negative is the ledger's doing and not stated here; the adjustments
of `Accounts`, which read first and transfer later, are where it is checked.

## OddsCache

`OddsCache` is `odds-cache.service.ts` with the odds service's side of what feeds
it: `record` then `publish` of a line, `recordResult` then `publishResult`, and
the answer to `GET /odds/events`.

| state | in the code |
| --- | --- |
| `now` | `Date.now()` of both services |
| `history`, `current`, `outcome` | `odds_history`; the line and the outcome in `odds_current`, with how far the resolution has come |
| `pending[e]` | the line that is recorded and not yet published |
| `queue` | core's transient queue on `odds.updated` |
| `up`, `entries` | core is running; its map |
| `hydrate`, `attempt`, `reply` | the boot hydrate, and the answer on its way to it |
| `clean`, `faults` | no tick lost and no hydrate failed since core booted; faults so far |

Ticks, hydrate and resolutions are three paths that overtake each other. Faults:
core restarts with an empty map (`onModuleInit` subscribes to ticks, then hydrates
without awaiting it); an attempt of the hydrate fails; a tick is lost with its
connection. `priceFor` is the operator `PriceFor`: the price a bet gets, if the line
is fresh enough, quotes the selection and is in range. `PricesAreFresh` says that a
price it gives was recorded by the feed no longer than `MaxAge` ago, though the line
may have come late by a tick or with a hydrate: an entry keeps the time of its line
and not that of its arrival. The clock is one for both services, as on one host.
`PriceBook` is what the cache promises `place`, and `KeepsBook` says that it does.

Bounds: `MaxTime` is the last of the instants 0 to 3, `QueueBound` the ticks under
way. One event suffices: a tick, a result and a row of the answer touch their own
entry, and the one test over all entries, `hydrate`'s "is anything known" after a
failed attempt, makes no difference to a boot that is `clean`, which is what
`CacheIsCurrent` and `EventsBecomeKnown` speak of. A second event of a two-way sport
was tried and only multiplies the states; the safety proofs cover any number.

Fairness: a core that is down boots, what is asked for or queued arrives, and a
recorded line is published. Nobody has to quote a line or resolve an event.

## Accounts

`Accounts` is `JwtStrategy.validate` → `UsersService.createUser`, then the holds of
the requests that were let in, beside `AdminService.setUserBalance`.

| state | in the code |
| --- | --- |
| `rows`, `accounts`, `grants`, `balance` | the `users` table, TigerBeetle accounts, opening deposits made, spendable cents |
| `pc[r]`, `insert[r]` | where a request is; whether its insert made the row or found another's |
| `apc[a]`, `seen[a]` | where an adjustment is; the balance it read |
| `channel`, `faults` | core's broker channel; faults so far |

The insert is `ON CONFLICT DO NOTHING`, opening an account that exists is not an
error, and only the request whose insert made the row deposits. An adjustment reads
the balance and transfers the difference. Faults are those of `Betting`.

Bounds: three concurrent requests are what it takes for one to make the row, one
to find it inside `createUser` and one to find it in `validate`; two adjustments,
one raising and one lowering.

No fairness is needed: all properties are safety properties. The one about a lost
deposit is a state: a user with a row, no deposit, and nobody left who would make it.

## Results

`Results` is `RunnerService.run`, once per provider, with the parts of storage and
providers it calls and the admin's `resolveEvent`.

| state | in the code |
| --- | --- |
| `now`, `ticked` | the clock, in units long against the poll interval: it moves when every loop finished a tick |
| `row[e]` | `commence_time` and `outcome` of `e` in `odds_current` |
| `step[p]`, `pending[p]`, `result[p]` | where the loop of `p` is; the events it still asks about; the one it handles |
| `astep[a]`, `asked[a]` | an admin's request |
| `published` | messages on `events.resolved` |

One action per query, request or publish: `RecordLine`, `ListPending`
(`listUnresolved`), `FetchResult`, `RecordResult`, `PublishResult`, `EndTick`,
`Wake`; `AskToResolve`, `AdminRecords`, `AdminPublishes`. What a provider knows is
constant: when an event starts, when its result is final, and what it is, `None`
for an event that was called off. Faults: the process restarts; a tick throws at
any point; a published message dies with its connection, for there are no
publisher confirms.

Bounds: three fixtures and a batch of two make the batch matter; one of them is
called off and starts first, so that it is the oldest in every batch until the
lookback ends. `MaxTime = 4` is one instant after the grace and one after the
lookback of the oldest.

Fairness: time passes, the loops go on and begun requests are finished. Nobody
has to quote an event; `PolledEventsGetResults` starts from its row.
Its hypothesis names what the code needs: a kickoff, which providers outside
`SendKickoff` (The Odds API) leave out, and fewer called-off events than a batch holds.

An answer of a provider is taken to have an event at most once. The code handles each
entry of it in turn; if a provider repeated one, its result would be recorded and
published again, and core would find no held bets the second time.

## Settlements

`Settlements` is `SettlementsConsumer` over `MessagingService` as stats, odds and
notifications have it (one file in three copies), with `recordSettlement`'s conflict
rule; `ReadModel` is what `/stats` answers from the table. A user's rows are kept under
their places in the table, since the map of the leaderboard has its players in the
order of their first rows and the sort is stable; a sort is given by what comes before
each element.

| state | in the code |
| --- | --- |
| `place[m]` | where a message is: at core, in the durable queue, out with a consumer, acked, or dropped for want of a queue |
| `bound` | the queue exists and is bound |
| `boot`, `conn[c]`, `channel`, `reconnects` | how far the process has started; what it does with each connection (`"deaf"`: its channel is gone); `this.channel`; `reconnect()` loops asleep |
| `work[c][m]` | the handler of the delivery of `m` over `c` |
| `table`, `faults` | `stats_settlements`; faults so far |

A handler acks on the channel its message came by, alive or not. An ack on a dead
channel throws in a promise nobody awaits, and the process restarts. A message the
schema refuses is nacked and requeued for ever. Faults: the process dies; a
connection closes, as often while it is being set up as later; the broker closes a
channel alone, which the code only logs; an insert throws.
Two reconnect loops can run at once and leave two live consumers; the model has
that, and counting stays right because the primary key decides. A channel that closes
alone leaves a process that lives on and consumes nothing, unless a handler was running
whose ack then throws: `SettlementsAreCounted` excepts it, and without that exception
TLC finds the violation. It closes while consuming; a channel that is refused while the
queue is being declared is left out.

`round2` works on doubles, `Percent` on integers, in hundredths of a percent and with
an exact half going to the even neighbour; properties compare values that went
through the same rounding.

Bounds: four messages, the first of which never parses, with `Prefetch` 2, so that it
blocks one slot of the consumer and not both; the table empty or with three rows of
before (`Earlier`), by which three players come to qualify for a leaderboard of two
places, in an order that changes as the settlements come in; three connections, enough for two live
ones and one being lost. One fault: a boot whose first connect fails and one drop
already give two live consumers. The proofs cover any number of all.

Fairness: the process gets on with what it has begun, a handler finishes, and
deliveries are strongly fair, since the poison message is at the head of the queue
time and again without passing the others over. No fault and no publish is fair.

## Catalog

`Catalog` is `OddsStorage.record`: one transaction per event that gets or creates
sport, league and teams, links the provider's keys to them, keeps a history and
upserts the current line, and the reads of `/odds`. `Feeds` is what comes before:
payload to quote, payload to result, `slugifySport`, `normalizeName`, the aliases.

| state | in the code |
| --- | --- |
| `entities`, `maps` | `sport`, `league`, `team` and the three `*_source_map` tables |
| `history`, `current` | `odds_history`, `odds_current` with outcome and links |
| `tx[p]` | the transaction the loop of `p` has open: what is left of it, what it wrote |

One action per statement. A transaction that meets a row another has written waits
until that one ends (`INSERT .. ON CONFLICT`), and PostgreSQL aborts one of a circle
that wait for each other. The tick then ends and the next one tries again. Names are
sequences of words, since the normalisation works on words.

A quote may leave a side or a league's title empty: `ResolveTeam` and `ResolveLeague`
then link nothing, and the event is answered with null there. `LinksAgree` says that
this is the only way to a missing name. Prices come as text, and a price that is no
number is recorded as it is (`Unreadable`), while a total of API-Football whose line is
no number is left out.

Bounds: three providers, on purpose with clubs of the same name in two sports, one
club under two spellings, one league without a title, a game whose away side is not known, one without a home side, prices that are no numbers, payloads that are no quotes, and
results that are unfinished, partial, or name somebody else; one line per event,
because a second one meets the rows of the first exactly as another event does.

The constants are assumed to be what the code makes of them: the providers are the
three there are, payloads are of the provider that sends them, the mock is never
asked for results (`pollsResults`), and `None` is no id and no sport's title. Two more things can only be hoped
of the providers, and are hypotheses of the theorems that need them: that match keys
tell clubs apart (`KeysTellClubs`), and that a report is true as far as it goes
(`HonestReports`). The instance's payloads are checked against the second one; the
first is what `LabelsMeet` finds of them in the states where all are recorded.

Fairness: strong, per provider, on the next statement or the abort of a deadlock:
who waits for a lock gets it in turn. No provider has to quote anything.

Two leagues of one sport and one name in different countries share a row, as
`entities.ts` documents. A result counts extra time and penalties (`AET`, `PEN`).
An event read without an h2h market is shown with prices 0.

## Tab

`Tab` is `auth.ts`, `AuthProvider`, `websocket.ts` and the three hooks that merge
pushes into fetched data (`useBets`, `useBalance`, `useOdds`), with the relay's side
of one user's sockets.

| state | in the code |
| --- | --- |
| `sso`, `flag` | Keycloak's session; the flag in `localStorage` |
| `page`, `token`, `refresh`, `renew` | what the tab has loaded; the token in the snapshot; `refreshing`; oidc-client's own renewal |
| `socket`, `pushes` | the socket.io client, which gives up on a refused connect; the relay's queue for it |
| `changes`, `server` | how often the list has changed; its items, and the change each is of |
| `sends` | notifications a service has still to publish, the balance's with its value or before that is looked up |
| `list`, `shown`, `fetch` | which list; the items in SWR's cache; the fetch in flight |
| `missed`, `faults` | the items the tab was not told of, and has not asked for since; faults so far |

The bets and the balance are one item each. The odds have an item for every event's line
and one for every event's result: `odds.updated` is merged into the line of an event
that is cached, and writes back what there is if the event is not; a result, or a line
without an h2h market, changes the server without any push (`ChangeUntold`). The
balance's notification looks the balance up again after the transfer and is published
after that, in steps of its own (`BalanceRead`, `Publish`), so two of them may come in
the opposite order.

`QuietMeansCurrent` is about all that the tab was told: in a quiet tab every item in the
cache is what the server has, unless it is `missed`. An item gets into `missed` by a push
no handler was there for, a connect no hook listened to, a result or line that is never
pushed, and a balance published after a newer one, and leaves it by the next answer or
push that brings what the server has.

SWR is modelled as the hooks use it: `mutate()` supersedes a fetch in flight,
`mutate(data, {revalidate: false})` discards its answer, a fetch that throws is tried
again, and a key that is back within two seconds of an answer does not ask. Faults: the
transport closes, a request fails, the machine sleeps past the token's life, the relay
restarts or loses its queue alone, the session ends elsewhere.

Bounds: each list is watched alone, because the hooks share nothing but session and
socket; of the odds two lines and a result, of which one line and the result are there
from the start, so that a tick may be of an event the tab does not know; changes of the
server and faults together at most `MaxEvents`, two of one item and three of the odds, so
that pushes and answers can be of different versions and, of several items, something
fails meanwhile. `Tab` itself bounds changes and faults apart, and its proofs hold for
any bounds.

Fairness: weak on Keycloak's answers and on timers, and strong on a refresh's
answer: nobody reloads the page for ever just before it lands. `SessionReturns`
would otherwise fail by reloading alone.

Left out: revalidation on focus (it only repairs), `userSignedOut`
(`monitorSession` is off), the `mutate` of a bet just placed.

## Pages

`Pages` is the dashboard with `useDashboardFilters`, the board and the bet slip, and
the admin's lists of users and events.

| state | in the code |
| --- | --- |
| `events`, `account`, `past` | the services' side, and all it has been |
| `route`, `filters`, `board`, `balance` | the page; sport and league chips; the events shown, and for which filters; the balance shown |
| `slip`, `stake`, `placing` | the selection, the text in it, `POST /bets` under way |
| `row`, `saving`, `busy` | an admin's user row with its draft; `PUT` balance under way; each event row's `POST` result |

An answer or a tick may be of any age: SWR shows the last answer under a key until
the next. A draft is a whole text, since a refused key changes nothing. The drawer's
backdrop covers the page, so what lies behind is not clicked.

An event without an h2h market is served with prices 0 (`NoMarket`), and its card opens
a slip like any other: what is quoted is then not above zero, and core refuses the bet.
Both the slip and core round a product of doubles, which may fall on either side of half
a cent: `PotentialReturns` and `Profits` are the sets of what each may come to, the same
number unless the product lies on the half. `SlipSells` says that at odds core takes the
return shown is the stake plus the profit paid, within one cent, and exactly so off the
half.

Bounds: a soccer fixture with three outcomes whose line moves (1.13 is a price at
which $2.50 wins half a cent), an event of basketball without a draw that may have no
prices; five texts,
of which one is negative, one has too many decimals and one is empty; one move of
anything, since `past` lets answers be old already after one.

`Tab` and `Pages` share no state but the balance, which `Pages` lets move as it
likes. `MCBrowser` runs them side by side, a behaviour being of one or of the
other (`watched`). TLC reports `BrowserNext` as a whole; each was also run alone,
and every action of both fires.

## The runs

| run | instance | what it shows |
| --- | --- | --- |
| `betting_safety` | 2 bets of one player on opposite sides of one event, 2 resolutions of any outcome, 1 fault of any kind; one of the payouts overflows its column | consistency of rows, ledger, answers and messages; refinement of `BetPromise` |
| `betting_accounts` | the same with 2 events, 2 prices (one rounds to no profit) and a balance covering one bet; some payouts overflow their column | what a player is answered is so; the balance is what the rows say |
| `betting_progress` | 2 bets of which one overflows its column, 2 resolutions of any outcome, 1 crash or failed statement, weak fairness | held bets settle, unless a half settled one, or one whose profit cannot be recorded, blocks them |
| `betting_crash` | violation | the resume after a crash that a comment promises |
| `betting_stranded` | violation | a held bet no message will settle |
| `odds_cache_book` | 1 event, 4 instants, 2 ticks under way, 2 faults of any kind, weak fairness | the cache refines `PriceBook`, holds recorded lines, sells at fresh prices only, catches up, and gets to know every event |
| `accounts_safety` | 3 first requests, 2 adjustments, 2 faults of any kind | one deposit, no overdraft, no lost transfer |
| `results_poll` | 3 fixtures, a mock event, 1 admin, 2 faults of any kind, weak fairness | one resolution per polled event, none taken back, none missing |
| `settlements` | 4 messages (one poison), no rows or 3 from before, 3 players for 2 places, 3 connections, 1 fault of any kind | each settlement counted once, none lost, all in the end; chart, summary and leaderboard agree |
| `catalog` | 3 providers, 4 events, of which some have a side, title or price left empty, 1 fault of any kind | one row per club and league, links that hold, right results, no loop stuck in a lock |
| `browser` | `Tab` with each of 3 lists, 2 lines and a result, 2 changes and faults of any kind (3 of the odds); `Pages` with 2 fixtures, 5 texts, 1 move | a quiet tab is current in what it was told, sessions return or end; slip, filters and drafts keep to what they show |
| `browser_balance` | violation | a balance push missed while the socket was down |

Why these bounds are enough. In `Betting` handlers interact only through a shared
bet, and two are enough for every pair of steps; two bets are what makes a batch
(one bet settled, one not), and what lets one overlapping handler be ahead on one
bet and behind on the other. Opposite sides make each resolution settle one as won
and the other as lost, and contradictory resolutions settle them the other way. One
fault of any kind can strike at each of the program counters of both. The sections above say the same of the
other instances, and the proofs cover every size.

`CHECK_DEADLOCK FALSE`: each system may stop, when every bet is placed and every
resolution acked, when the clock's bound is reached, when every request is answered,
when nothing is left to quote, count or change.

Fairness in `Betting` is weak, per request and per message, on started work only:
the event loop, Postgres, TigerBeetle and the broker answer in the end. Nobody is
obliged to place a bet, to publish a result or to crash. Strong fairness is not
needed: the steps of a handler stay enabled until taken, except while the channel is
closed, when the step is `DieOnClosedChannel`.

### Where code and documents disagree

* *Resume after a crash* (`bets.service.ts:156-158`, run `betting_crash`). The
  resume works only for bets whose stake has not moved. A bet between
  `wallet.release` and `repo.update` stays `held` with nothing left to void; each
  redelivery picks it up, throws and is requeued, and the bets behind it wait with
  it. `HeldBetsSettle` says what does hold.
* *Held bets are settled* (`schemas/json/events.json:35`, `betting_stranded`). A
  placement whose `held` update comes after the handler's query is missed for good.
* *A missed notification is recovered by the `connect` revalidate*
  (`docs/API.md:684-685`, `browser_balance`). `useBets` and `useStats` revalidate on
  `connect`, `useBalance` and `useOdds` do not. `QuietMeansCurrent` says what does
  hold.

Seen while modelling, without a run of their own. About money and bets:

* `ARCHITECTURE.md:203-204` says there is no half-commit. `hold` may throw after its
  transfer committed (`bets.service.ts:83`); the compensation deletes the row and
  leaves the reservation.
* `README.md:129-130` gives every user a deposit. After a crash between the three
  commits of `createUser` (`users.service.ts:75`) nobody makes it; `GrantOnItsWay`
  is what holds.
* `money.ts:6-7` says no product can overflow a 4-byte column; the largest stake at
  the largest odds wins 99,900,000,000 cents. `Betting!Record` throws on a payout
  beyond `MaxColumn`, and `betting_safety` and `betting_progress` cover what follows:
  the bet stays `held` with its stake returned and its profit paid, and every delivery
  of the event throws on it before it comes to the bets behind it.
* `setBalance` sets the balance to the target only if nothing is committed between
  its read and its transfer; `AdjustmentsAddUp` is what holds.
* Two balance pushes can be published in the opposite order of their reads
  (`wallet.service.ts:229`), and the browser keeps the last one.
* `POST /bets` has no idempotency key: a lost answer shows an error though the bet
  exists.

About odds and results:

* `README.md:138-139` says finished events resolve on their own. Those of theoddsapi
  carry no kickoff (`theoddsapi.provider.ts:93`) and are never polled.
* `docs/API.md:728-730` says a late tick cannot reopen an event. It can when the
  resolution came before the cache knew the event (`odds-cache.service.ts:113`).
* `postgres.storage.ts:401` says a backlog "drains in order instead of starving".
  Events that were called off stay in the batch until the lookback ends, and a full
  batch of them starves the others; hence the hypothesis of
  `PolledEventsGetResults`.
* A line without an h2h market is recorded and not published (`odds.publisher.ts:33`),
  so core goes on pricing the line before it until `ODDS_MAX_AGE_MS`.
* `odds-cache.service.ts:141` abandons the hydrate after a failed attempt once any
  event is known; the others wait for their own tick.

About messaging and the browser:

* A channel the broker closes alone is only logged (`messaging.service.ts:107`): the
  connection stays, and nothing consumes over it until the process is restarted.
* A drop during a reconnect starts a second loop (`messaging.service.ts:113`, `:121`)
  and leaves two live connections.
* After `CONNECT_ERROR` socket.io does not try again; `refresh()` brings a new token
  and nobody calls `connect` (`websocket.ts:20-27`), so live updates stop until a
  reload.
* A tick during the first fetch of the odds discards its answer (`useOdds.ts:41`):
  the board stays empty until the window is focused. A tick of an event the board does
  not have is dropped (`useOdds.ts:43-45`), and results are not pushed at all.
* On expiry `isLoading` is not set again (`auth-context.tsx:53-71`): `/admin`
  redirects and drafts are lost though the session returns.
* The slip rounds stake times odds and core stake times odds less one, both in
  doubles; on half a cent they may differ (2.50 at 1.13 shows 2.83, and pays 2.82).
* The slip keeps its stake and its error from one event to the next, and the answer
  of a bet closes whichever slip is open by then.

## The proofs

TLAPS checks, for every value of the constants: any sets of bets, players, events,
messages, requests, providers, connections, fixtures and texts, any stakes, prices,
times and windows, and any number of faults of every kind.

| module | theorems |
| --- | --- |
| `BettingProofs` | `Invariance` (`Spec => []IInv`); `TypeCorrect`, `RowsMatchLedger`, `NeverPaidTwice`, `SettledEventsMatchRows`, `AnswersAreTrue`; the action property `SettledRowsAreFinal`; `AccountInvariance`, `AccountsMatchBets`; `CoreKeepsPromise`: `Betting` implements `BetPromise` under the mapping at the end of `Betting` |
| `SumTheorems` | `SumWithout`: a fold over a finite set is a sum, in whatever order it goes |
| `OddsCacheProofs` | `CacheInvariance`, `CacheTypeCorrect`, `CachePosted`, `CacheSellsFreshPrices`, `CacheCatchesUp`, and `CacheKeepsBook`: `OddsCache` implements `PriceBook` |
| `AccountsProofs` | `Invariance`, `AccountsTypeCorrect`, `NeverGrantedTwice`, `GrantComes`, `AccountsBeforeUse`, `NeverOverdrawn`, `AdjustmentsAlwaysAddUp` |
| `ResultsProofs` | `ResultsInvariance`, `ResultsTypeCorrect`, `SettledOnce`, `NeverUnresolved`, `AnnouncedWhenRecorded` |
| `SettlementsProofs` | `SettlementsInvariance`, `SettlementsTypeCorrect`, `SettlementsCountedOnce`, `NoSettlementLost`, `ChartAlwaysEndsAtSummary`, `LeaderboardAlwaysRanks` |
| `CatalogProofs` | `Invariance` (`Spec => []CInv`); `OneRow`, `LinksAlwaysAgree`, the action property `FirstSeenStays`; under the hypotheses above `LabelsAlwaysMeet` and `OnlyRealResultsCount` |
| `BrowserProofs` | of `Tab`: `TabInvariance`, `QuietTabsAreCurrent`; of `Pages`: `PagesInvariance`, `FiltersAlwaysAgree`, `SlipAlwaysSells`, `EditsAlwaysExact` |

*Betting.* That a bet is paid once is not inductive: nothing in a row tells
whether its profit was paid. What makes it true is that the ledger lets exactly one
void or post of a bet's pending transfer through. The handler that got it through
*owns* the bet until it has published the settlement (`Owns`), and only an owner
pays, records or publishes. `OwnerState` says what an owner knows about its bet,
`OneOwner` that it is alone, `BetState` what is left once it is done, `todo` that
no handler touches a bet still being placed. A crash removes the owner and
nobody takes its place, which is why the bet is stuck and also why it is never
paid twice.

*The account.* `BooksBalance` says at every moment what each balance is: the opening one
less the stakes of the bets whose hold is pending or posted, plus what was paid on the
bets whose hold is voided. Both sums run over bets with a hold; those have been asked
for (`Asked`), and only finitely many are in any state, so the set of bets may be
infinite. Every step moves money of one bet, so it changes one summand or carries one
bet from a sum to the other. At rest what a bet contributes is what its row says: `IInv`
ties the row to the ledger, and `NothingFailed` says that while no fault has happened no
bet and no handler is at a point that only a failure leads to. A bet that is settled has
its profit paid by then, unless the payout overflowed, hence `AtRest`.

*Sums.* The library folds over a set by choosing an element, and its value is a
`CHOOSE` of a recursive function. `SumTheorems` shows that such a function exists on
the subsets of a finite set and that the order does not matter. Both take the least
counterexample, by `FS_StrictSubsetOrderingWellFounded`, in the place of an induction.

*OddsCache.* What is in the queues, in the answer and in the map are lines that were
recorded; an entry only ever gives way to a newer one, and only events whose
resolution was handled, or whose outcome the answer carried, are closed. That the
cache catches up needs two more facts. The current row is the newest of its history
and alone at its time (`CurrentIsNewest`), so an entry offered the current line takes
it, and one that holds it keeps it (`UpsertCurrent`). And while nothing is lost the
current line of an open event is always somewhere (`NothingEscapes`): about to be
published, in the queue, in the cache, or in a hydrate's answer still to come. Boot
makes it so, because the ticks are subscribed to before the hydrate asks.

*Accounts.* At most one request of a user made the row (`OneMaker`); while it is
creating, the deposit is not made (`Maker`); so the deposit is made at most once.
`GrantOnItsWay` is inductive because an insert makes the request that will deposit.
`AdjustmentsAddUp` is a sum over the callers and follows as in *Betting*.

*Results.* The events a loop still asks about have no outcome, the one it handles
has left that list and has not been published, and loops keep to the events of their
own provider; admins touch mock events only. Recording an outcome therefore takes
an event out of every later batch before its message is published.

*Settlements.* A message that is out is worked on over an open connection (`Held`),
and over no other open one (`Single`); whoever is about to ack has
inserted (`AckedAreCounted`). Two live consumers therefore never work on one message
over open connections, and a handler left behind by a closed one meets the primary
key. A connection whose channel has closed alone is no open one: what it had is in the
queue again. Rows from before keep their places, and no message is of their bets.

*ReadModel.* Chart and leaderboard need only that the table has rows of the right
types; the invariant gives that. `Sorting` says what a sort returns: when each element
of a finite set comes with the set of those before it and that is a linear order, the
numbers of elements before are all different and less than the size of the set, so
each place has its element. Days are ordered as numbers, players by ROI and then by
first row, which no two players share. The last day is no earlier than that of any
row, so the last point is computed from the very rows of the summary; a player left
out stands behind the limit in the order.

*Catalog.* What a transaction wrote is in no table yet. The invariant compares it with
the committed rows: a row it updates is the same row with at most a country more, and a
row it inserts has an id and a label that no committed row has (`Continues`). No two
transactions have written one label or one id (`Apart`): the first by the unique
index, the second because an id is fresh in view of the open transactions too
(`FreshIdIsNew`, which counts rows against numbers). Whatever it has found or made so
far is there (`SoFar`), and stays there when others commit, since a commit replaces a
row by its continuation (`MoreKnown`). So a commit keeps all links, and an abort or a
crash loses only rows that nothing links to yet. A link is missing just where the quote
has no label, which every step that links carries along. Nothing is used of the match keys but
that they are functions of the name. `ScoresAreReal` reads scores by side from entries
in any order with any gaps.

*Tab.* Unless it is `missed`, an item always has something that brings it to the
server's version (`CatchesUp`): a fetch not answered yet, an answer that is not behind
in it, data of that version, a notification or push still under way that brings it, or a
connect the list listens to. Versions grow, and a push that would take an item back is
known by then to be late.

*Pages.* The invariant says of each thing a page shows which state of the server,
past or present, it was copied from; an event that lacks the price of a side has none at
all, in every copy. `ReturnIsStakeAndProfit` compares the roundings of the return with
those of the profit: both lie within half a cent of products that differ by the stake.
`RoundTrip` says that a formatted amount parses back.

Assumptions on constants are the named `ASSUME`s of the modules: stakes are
positive, odds exceed 1.0 (`MIN_ODDS` is 1.01), and marker values differ from real
ones. No bound on the number of concurrent placements, requests or loops is used.

Only model-checked: liveness (`HeldBetsSettle`, `EventsBecomeKnown`,
`PolledEventsGetResults`, `SettlementsAreCounted`, `RecordsEnd`, `SessionReturns`,
`AnonymousInTheEnd`), since the prover handles neither `ENABLED` nor fairness; the
words that `Feeds` makes of names, since only the instance's aliases matter and TLC
evaluates them. The violations are runs.
The type invariants of `Betting`, `OddsCache`, `Accounts`, `Results`, `Settlements` and
`Tab` are proved and have no run of their own.

## What is not modelled

`PROJECT.json` lists every component with its status and the reason. Left out:

* the Keycloak admin client, whose methods nothing in core calls, and the bots, which
  are clients of the public API;
* the HTTP clients of the providers, API-Football's daily paging and its budget of
  requests, and the numbers the mock draws;
* sockets of several users: a room is named by the verified subject, and `Tab` has
  one user's;
* core's first connect to the broker, which has no retry;
* a fixture whose kickoff is moved after it was recorded; two rows of one event under
  two providers (events are kept apart by origin); HTTP validation;
* rendering, styling, charts, toasts, countdowns; generated validators; container
  files; the products the services run on, which are modelled only as the code
  relies on them.

## The plan

What would come next, in this order:

1. A composition of `Results` and `Betting` with `PriceBook` between them: an event's
   real result is the one its bets settle by.
2. Sockets of several users at the relay, and the paging of API-Football.
