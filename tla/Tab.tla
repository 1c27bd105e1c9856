--------------------------------- MODULE Tab ---------------------------------
(***************************************************************************)
(* A browser tab: the session of auth.ts and its AuthProvider, the socket  *)
(* to the notifications relay, and one of the lists the hooks keep in      *)
(* SWR's cache and update by pushes.  The hooks share nothing but session  *)
(* and socket, so the tab is watched with one list at a time.              *)
(*                                                                         *)
(* A list has items, and an item the number of the change that made it     *)
(* what it is: the bets and the balance are one item each, the odds have   *)
(* every event's line, which ticks bring, and its result, which no push    *)
(* brings.                                                                 *)
(* SWR is as the hooks use it: mutate() starts a fetch that supersedes the *)
(* one in flight; mutate(data, {revalidate: false}) writes the cache, if   *)
(* only what was there, and the answer of a fetch in flight is discarded;  *)
(* a fetch that throws is tried again while its key is there; a key that   *)
(* is back within 2 seconds of an answer does not ask.  Focus events are   *)
(* left out.                                                               *)
(*                                                                         *)
(* Faults of the kinds in FaultKinds happen at most MaxFaults times:       *)
(*   drop       the socket's transport closes                              *)
(*   network    an HTTP request of the tab fails                           *)
(*   sleep      the token expires while timers stand still                 *)
(*   relay      the relay's queue goes, with its sockets or without them   *)
(*   elsewhere  Keycloak or another tab ends the session                   *)
(* A definition Name_Variant is Name with one mistake, see README.md.      *)
(***************************************************************************)
EXTENDS Integers, Sequences

CONSTANTS
    Lists,          \* the lists to watch: "bets", "balance", "odds"
    Quotes,         \* the events' lines
    Results,        \* the events' results
    MaxChanges,     \* how often the server's side of a list changes
    FaultKinds, MaxFaults

ASSUME TabAssumption ==
    /\ Lists \subseteq {"bets", "balance", "odds"}
    /\ MaxChanges \in Nat /\ MaxFaults \in Nat

VARIABLES
    sso,        \* Keycloak has a session for this browser
    flag,       \* auth:previously-authed in localStorage
    page,       \* what the tab has loaded
    token,      \* of the session snapshot; stale: expired and not noticed
    refresh,    \* refresh(): `refreshing` while not idle
    renew,      \* oidc-client's own renewal; refused: the token will expire
    socket,     \* dead: refused, socket.io does not try again
    changes,    \* how often the list has changed
    server,     \* the items the server has, and the change each is of
    sends,      \* notifications a service has still to publish
    pushes,     \* the relay's queue
    list,       \* the list that is watched
    shown,      \* its data in SWR's cache
    fetch,      \* its fetch in flight
    missed,     \* the items of which the tab was not told, and did not ask since
    faults

sessionVars == <<sso, flag, page, token, refresh, renew>>
sourceVars == <<changes, server, sends>>
listVars == <<shown, fetch, missed>>
vars == <<sessionVars, socket, sourceVars, pushes, list, listVars, faults>>

Versions == 0..MaxChanges

Items == IF list = "odds" THEN Quotes \union Results ELSE {list}

\* What may be known of some of the items.
Data == UNION {[known -> Versions] : known \in SUBSET Items}

NoData == [i \in {} |-> 0]

\* The balance has not been looked up yet.
Unread == 0

\* A notification, of the change it is about and with the version it brings;
\* late: published or heard, it takes the tab back, since a newer one overtook
\* it or something changed without one.
Sends == [item : Items, of : Versions, version : Versions, late : BOOLEAN]

Pushes == [item : Items, version : Versions, late : BOOLEAN]

TypeOK ==
    /\ {sso, flag} \subseteq BOOLEAN
    /\ page \in {"app", "leaving", "away", "failed"}
    /\ token \in {"none", "good", "stale"}
    /\ {refresh, renew} \subseteq {"idle", "asked", "granted", "refused"}
    /\ socket \in {"off", "asking", "refusing", "up", "down", "dead"}
    /\ list \in Lists
    /\ changes \in Versions
    /\ server \in Data
    /\ sends \subseteq Sends
    /\ pushes \in Seq(Pushes)
    /\ shown \in Data
    /\ fetch \in [at : {"none", "asked", "answered", "retry"},
                  answer : Data, since : SUBSET Items]
    /\ missed \subseteq Items
    /\ faults \in 0..MaxFaults

\* since: of what an answer on its way is already behind.
Fetch(at) == [at |-> at, answer |-> NoData, since |-> {}]

\* useOdds reads a public route; the others have a key while there is a token.
Public == list = "odds"

\* useBets and useStats listen to the socket's connect.
OnConnect == list = "bets"

\* The tab starts at Keycloak's login form, or where it left the app before.
Init ==
    /\ sso \in BOOLEAN /\ flag \in BOOLEAN
    /\ page = "away"
    /\ token = "none" /\ refresh = "idle" /\ renew = "idle" /\ socket = "off"
    /\ list \in Lists
    /\ \E known \in SUBSET Items :
           /\ list # "odds" => known = Items
           /\ server = [i \in known |-> 0]
    /\ changes = 0 /\ sends = {} /\ pushes = <<>>
    /\ shown = NoData /\ fetch = Fetch("none") /\ missed = {}
    /\ faults = 0

Fault(kind) ==
    /\ kind \in FaultKinds
    /\ faults < MaxFaults
    /\ faults' = faults + 1

Running == page \in {"app", "leaving"}

-----------------------------------------------------------------------------
(* The list                                                                *)

Asks == fetch' = Fetch("asked")

\* The key is back.  SWR shares a fetch that is in flight under it, and one that
\* was answered less than 2 seconds ago.
KeyAppears ==
    \/ /\ token = "none" /\ ~Public /\ fetch.at \in {"none", "retry"}
       /\ Asks
    \/ /\ \/ token # "none" \/ Public \/ fetch.at \in {"asked", "answered"}
          \/ fetch.at = "none" /\ shown # NoData
       /\ UNCHANGED fetch

\* The written data, and the old answer on top of it later.
Writes_Late(data) ==
    /\ shown' = data
    /\ UNCHANGED fetch

\* mutate(data, {revalidate: false}).
Writes(data) ==
    /\ shown' = data
    /\ fetch' = IF fetch.at \in {"asked", "answered"} THEN Fetch("none") ELSE fetch

\* bet.held and bet.settled ask again.
OnBets == list = "bets" /\ Asks /\ UNCHANGED <<shown, missed>>

\* What is brought stays, unless it was late.
Learns(push) ==
    missed' = IF push.late THEN missed \union {push.item}
              ELSE IF push.version = server[push.item] THEN missed \ {push.item}
              ELSE missed

\* balance.updated brings the balance.
OnBalance(push) ==
    /\ list = "balance"
    /\ Writes([i \in Items |-> push.version])
    /\ Learns(push)

\* odds.updated is merged into the event that is cached; a tick of any other
\* writes back what there is.
OnOdds(push) ==
    /\ list = "odds"
    /\ Writes(IF push.item \in DOMAIN shown THEN [shown EXCEPT ![push.item] = push.version]
              ELSE shown)
    /\ Learns(push)

OnPush(push) == OnBets \/ OnBalance(push) \/ OnOdds(push)

\* Nobody tells the tab of these, and an answer on its way is of before.
Misses(items) ==
    /\ missed' = missed \union items
    /\ fetch' = IF fetch.at = "answered" THEN [fetch EXCEPT !.since = @ \union items] ELSE fetch

-----------------------------------------------------------------------------
(* lib/auth.ts and AuthProvider                                            *)

StartRefresh == refresh' = IF refresh = "idle" THEN "asked" ELSE refresh

\* What a page load leaves of the tab's memory.
Forgets ==
    /\ token' = "none" /\ refresh' = "idle" /\ renew' = "idle" /\ socket' = "off"
    /\ shown' = NoData /\ fetch' = Fetch("none") /\ missed' = {}

\* A page of the app is loaded or reloaded, and AuthProvider mounts.
Load ==
    /\ page \in {"app", "away", "failed"}
    /\ page' = "app"
    /\ token' = "none" /\ renew' = "idle" /\ socket' = "off"
    /\ refresh' = IF flag THEN "asked" ELSE "idle"
    /\ shown' = NoData
    /\ fetch' = Fetch(IF Public THEN "asked" ELSE "none")
    /\ missed' = {}
    /\ UNCHANGED <<sso, flag, sourceVars, pushes, list, faults>>

\* Keycloak's token is decoded and has not expired.
ToSession == token' = "good"

\* addUserLoaded, and the effect of the render it causes.
UserLoaded ==
    /\ ToSession
    /\ flag' = TRUE
    /\ socket' = IF socket = "off" THEN "asking" ELSE socket

\* Keycloak answers one prompt=none request, if nothing is lost.
Answer(request) ==
    \/ /\ request' = IF sso THEN "granted" ELSE "refused"
       /\ UNCHANGED faults
    \/ /\ Fault("network")
       /\ request' = "refused"

RefreshAnswered ==
    /\ refresh = "asked"
    /\ Answer(refresh)
    /\ UNCHANGED <<sso, flag, page, token, renew, socket, sourceVars, pushes, list, listVars>>

RefreshGranted ==
    /\ refresh = "granted"
    /\ refresh' = "idle"
    /\ renew' = IF renew = "refused" THEN "idle" ELSE renew
    /\ UserLoaded /\ KeyAppears
    /\ UNCHANGED <<sso, page, sourceVars, pushes, list, shown, missed, faults>>

\* The catch of refresh().
RefreshRefused ==
    /\ refresh = "refused"
    /\ refresh' = "idle"
    /\ flag' = FALSE
    /\ token' = "none"
    /\ UNCHANGED <<sso, page, renew, socket, sourceVars, pushes, list, listVars, faults>>

\* accessTokenExpiring; it does not go through refresh() and its guard.
RenewStarts ==
    /\ Running
    /\ token = "good" /\ renew = "idle"
    /\ renew' = "asked"
    /\ UNCHANGED <<sso, flag, page, token, refresh, socket, sourceVars, pushes, list, listVars, faults>>

RenewAnswered ==
    /\ renew = "asked"
    /\ Answer(renew)
    /\ UNCHANGED <<sso, flag, page, token, refresh, socket, sourceVars, pushes, list, listVars>>

RenewGranted ==
    /\ renew = "granted"
    /\ renew' = "idle"
    /\ UserLoaded /\ KeyAppears
    /\ UNCHANGED <<sso, page, refresh, sourceVars, pushes, list, shown, missed, faults>>

\* The session is dropped, and nobody looks whether it can be restored.
Expires_Silently ==
    /\ token = "stale" \/ (token = "good" /\ renew = "refused")
    /\ token' = "none"
    /\ renew' = IF renew = "refused" THEN "idle" ELSE renew
    /\ UNCHANGED <<sso, flag, page, refresh, socket, sourceVars, pushes, list, listVars, faults>>

\* Nothing listens to accessTokenExpired.
Expires_Unheard ==
    /\ token = "stale" \/ (token = "good" /\ renew = "refused")
    /\ token' = "stale"
    /\ renew' = IF renew = "refused" THEN "idle" ELSE renew
    /\ UNCHANGED <<sso, flag, page, refresh, socket, sourceVars, pushes, list, listVars, faults>>

\* addAccessTokenExpired drops the session; the effect on it asks for another.
Expires ==
    /\ token = "stale" \/ (token = "good" /\ renew = "refused")
    /\ token' = "none"
    /\ renew' = IF renew = "refused" THEN "idle" ELSE renew
    /\ IF flag THEN StartRefresh ELSE UNCHANGED refresh
    /\ UNCHANGED <<sso, flag, page, socket, sourceVars, pushes, list, listVars, faults>>

\* login(): a top-level redirect to Keycloak.
Login ==
    /\ page \in {"app", "failed"}
    /\ token = "none"
    /\ page' = "away"
    /\ Forgets
    /\ UNCHANGED <<sso, flag, sourceVars, pushes, list, faults>>

\* handleCallback, and the page of the user's returnTo with its hooks, or the
\* error page.
Callback ==
    /\ page = "away"
    /\ sso' = TRUE
    /\ \/ /\ page' = "app"
          /\ UserLoaded /\ Asks
          /\ UNCHANGED <<shown, missed, faults>>
       \/ /\ Fault("network")
          /\ page' = "failed"
          /\ UNCHANGED <<token, flag, socket, listVars>>
    /\ UNCHANGED <<refresh, renew, sourceVars, pushes, list>>

\* logout() up to its first await.
Logout ==
    /\ page = "app"
    /\ token # "none"
    /\ flag' = FALSE
    /\ token' = "none"
    /\ page' = "leaving"
    /\ UNCHANGED <<sso, refresh, renew, socket, sourceVars, pushes, list, listVars, faults>>

\* signoutRedirect leaves for Keycloak and comes back to /login, which goes on to
\* the login form.  Its AuthProvider finds the flag if an answer was still on
\* its way at logout, and may learn in time that it is no longer true.  A
\* redirect that fails leaves the tab where it was.
SignedOut ==
    /\ page = "leaving"
    /\ \/ /\ page' = "away"
          /\ sso' = FALSE
          /\ flag' \in {flag, FALSE}
          /\ Forgets
          /\ UNCHANGED faults
       \/ /\ Fault("network")
          /\ page' = "app"
          /\ UNCHANGED <<sso, flag, token, refresh, renew, socket, listVars>>
    /\ UNCHANGED <<sourceVars, pushes, list>>

\* Keycloak ends its session, another tab logs out, or a refresh of another tab
\* fails: localStorage is theirs too.
Elsewhere ==
    /\ Fault("elsewhere")
    /\ \/ sso' = FALSE /\ flag' \in {flag, FALSE}
       \/ UNCHANGED sso /\ flag' = FALSE
    /\ UNCHANGED <<page, token, refresh, renew, socket, sourceVars, pushes, list, listVars>>

Sleep ==
    /\ token = "good"
    /\ Fault("sleep")
    /\ token' = "stale"
    /\ UNCHANGED <<sso, flag, page, refresh, renew, socket, sourceVars, pushes, list, listVars>>

-----------------------------------------------------------------------------
(* lib/websocket.ts and the relay                                          *)

\* The relay's middleware has verified the token, the socket has joined the room
\* of its user, and `connect` fires in the tab.
SocketAccepted ==
    /\ socket = "asking"
    /\ socket' = "up"
    /\ \/ OnConnect /\ token # "none" /\ Asks /\ UNCHANGED missed
       \/ OnConnect /\ token = "none" /\ Misses(Items)
       \/ ~OnConnect /\ UNCHANGED <<fetch, missed>>
    /\ UNCHANGED <<sessionVars, sourceVars, pushes, list, shown, faults>>

\* connect_error on a socket that is not active.
SocketRefused ==
    /\ socket = "refusing"
    /\ socket' = "dead"
    /\ StartRefresh
    /\ UNCHANGED <<sso, flag, page, token, renew, sourceVars, pushes, list, listVars, faults>>

SocketDrops ==
    /\ socket = "up"
    /\ Fault("drop")
    /\ socket' = "down"
    /\ UNCHANGED <<sessionVars, sourceVars, pushes, list, listVars>>

\* TokenVerifierService.verify in the relay's middleware.
Verified == token = "good"

\* socket.io reconnects with the token there is.
SocketReconnects ==
    /\ socket = "down"
    /\ socket' = IF Verified THEN "asking" ELSE "refusing"
    /\ UNCHANGED <<sessionVars, sourceVars, pushes, list, listVars, faults>>

\* A bet is held or settled, the balance moves, a line is recorded: core or odds
\* publishes the notification after the fact.  A line is published before the
\* loop of its provider comes to the next.
Change ==
    /\ changes < MaxChanges
    /\ changes' = changes + 1
    /\ \E i \in Items \ Results :
           /\ list = "odds" => \A s \in sends : s.item # i
           /\ server' = [j \in DOMAIN server \union {i} |->
                            IF j = i THEN changes + 1 ELSE server[j]]
           /\ sends' = sends \union
                  {[item |-> i, of |-> changes + 1, late |-> FALSE,
                    version |-> IF list = "balance" THEN Unread ELSE changes + 1]}
    /\ UNCHANGED <<sessionVars, socket, pushes, list, listVars, faults>>

\* A result is recorded, or a line that has no h2h market: no push tells.
ChangeUntold ==
    /\ list = "odds"
    /\ changes < MaxChanges
    /\ changes' = changes + 1
    /\ \E i \in Items :
           /\ \A s \in sends : s.item # i
           /\ server' = [j \in DOMAIN server \union {i} |->
                            IF j = i THEN changes + 1 ELSE server[j]]
           /\ pushes' = [k \in DOMAIN pushes |->
                            [pushes[k] EXCEPT !.late = @ \/ pushes[k].item = i]]
           /\ Misses({i})
    /\ UNCHANGED <<sessionVars, socket, sends, list, shown, faults>>

\* pushBalanceUpdated looks the balance up, and then publishes it.
BalanceRead ==
    /\ \E s \in sends :
           /\ s.version = Unread
           /\ sends' = (sends \ {s}) \union {[s EXCEPT !.version = server[s.item]]}
    /\ UNCHANGED <<sessionVars, socket, changes, server, pushes, list, listVars, faults>>

Overtaken(s, by) == s.item = by.item /\ s.version # Unread /\ s.version < by.version

Publish ==
    /\ \E s \in sends :
           /\ s.version # Unread
           /\ pushes' = Append(pushes, [item |-> s.item, version |-> s.version, late |-> s.late])
           /\ sends' = {[t EXCEPT !.late = @ \/ Overtaken(t, s)] : t \in sends \ {s}}
    /\ UNCHANGED <<sessionVars, socket, changes, server, list, listVars, faults>>

\* These do not reach the tab; the next connect makes up for it if the hook
\* listens to it.
PassedBy(items, connection) ==
    IF OnConnect /\ connection # "up" /\ token # "none"
    THEN UNCHANGED <<fetch, missed>>
    ELSE Misses(items)

\* RelayService.relay emits to the rooms; without a session the hooks have taken
\* their handlers off.
Relay ==
    /\ pushes # <<>>
    /\ pushes' = Tail(pushes)
    /\ \/ socket = "up" /\ token # "none" /\ OnPush(Head(pushes))
       \/ /\ socket # "up" \/ token = "none"
          /\ PassedBy({Head(pushes).item}, socket)
          /\ UNCHANGED shown
    /\ UNCHANGED <<sessionVars, socket, sourceVars, list, faults>>

\* The queue is exclusive and not durable: it goes with the relay's process, and
\* its sockets, or with the relay's connection to the broker.
RelayLosesQueue ==
    /\ pushes # <<>>
    /\ Fault("relay")
    /\ pushes' = <<>>
    /\ \E connection \in {socket, IF socket = "up" THEN "down" ELSE socket} :
           /\ socket' = connection
           /\ PassedBy({pushes[k].item : k \in DOMAIN pushes}, connection)
    /\ UNCHANGED <<sessionVars, sourceVars, list, shown>>

-----------------------------------------------------------------------------
(* lib/api.ts and SWR                                                      *)

FetchServed ==
    /\ fetch.at = "asked"
    /\ Public \/ token # "stale"
    /\ fetch' = [at |-> "answered", answer |-> server, since |-> {}]
    /\ UNCHANGED <<sessionVars, socket, sourceVars, pushes, list, shown, missed, faults>>

\* A 401, or no token to send: refresh, and throw.
FetchUnauthenticated ==
    /\ fetch.at = "asked"
    /\ ~Public /\ token # "good"
    /\ fetch' = Fetch("retry")
    /\ StartRefresh
    /\ UNCHANGED <<sso, flag, page, token, renew, socket, sourceVars, pushes, list, shown, missed, faults>>

FetchFails ==
    /\ fetch.at = "asked"
    /\ Fault("network")
    /\ fetch' = Fetch("retry")
    /\ UNCHANGED <<sessionVars, socket, sourceVars, pushes, list, shown, missed>>

FetchApplied ==
    /\ fetch.at = "answered"
    /\ shown' = fetch.answer
    /\ missed' = fetch.since
    /\ fetch' = Fetch("none")
    /\ UNCHANGED <<sessionVars, socket, sourceVars, pushes, list, faults>>

FetchRetries ==
    /\ fetch.at = "retry"
    /\ Public \/ token # "none"
    /\ Asks
    /\ UNCHANGED <<sessionVars, socket, sourceVars, pushes, list, shown, missed, faults>>

-----------------------------------------------------------------------------

RefreshStep == RefreshAnswered \/ RefreshGranted \/ RefreshRefused

RenewStep == RenewStarts \/ RenewAnswered \/ RenewGranted

SessionStep ==
    \/ Load \/ Login \/ Callback \/ Logout \/ SignedOut
    \/ RefreshStep \/ RenewStep \/ Expires \/ Sleep \/ Elsewhere

SocketStep ==
    \/ SocketAccepted \/ SocketRefused \/ SocketDrops \/ SocketReconnects
    \/ Relay \/ RelayLosesQueue

ListStep ==
    \/ Change \/ ChangeUntold \/ BalanceRead \/ Publish
    \/ FetchServed \/ FetchUnauthenticated \/ FetchFails \/ FetchApplied \/ FetchRetries

Next == SessionStep \/ SocketStep \/ ListStep

Spec == Init /\ [][Next]_vars

\* Requests are answered, by Keycloak or by their timeout, and timers fire; and
\* nobody reloads the page for ever just before an answer lands.
Fairness ==
    /\ WF_vars(RefreshStep) /\ SF_vars(RefreshGranted \/ RefreshRefused)
    /\ WF_vars(RenewStep) /\ WF_vars(Expires)

FairSpec == Spec /\ Fairness

-----------------------------------------------------------------------------
(* Properties                                                              *)

\* While Keycloak has the session and the tab knows it had one, a tab that has
\* lost its token gets a new one (auth-context.tsx:48-52): whatever expired,
\* overlapped or was guarded away, some refresh is on its way.
SessionReturns ==
    /\ sso /\ flag /\ page = "app" /\ token = "none"
        ~> token = "good" \/ ~(sso /\ flag /\ page = "app")

\* When Keycloak's session is gone for good, by logout or not, the tab becomes
\* anonymous and stays so, though grants of before may arrive after logout()
\* (auth.ts:172-176, 222-227).
AnonymousInTheEnd == <>[]~sso => <>[](token = "none")

\* Nothing is under way to the tab or asked for by it.
Quiet ==
    /\ socket = "up" /\ token = "good"
    /\ sends = {} /\ pushes = <<>> /\ fetch.at = "none"

\* A quiet tab has data of its user, and what it shows is what the server has: an
\* answer that was overtaken by a push does not come out on top, an answer that a
\* push discarded is not missed, and what was settled while the socket was down is
\* fetched when it is back.  Excepted are the items it was not told of (missed):
\* by a push no handler was there for or, of balance and odds, the socket was not
\* up for; by a balance that was published after a newer one; by a result or a line
\* that is never pushed (useBets.ts:51-52, useBalance.ts:18-22, useOdds.ts:32-53).
QuietMeansCurrent ==
    Quiet =>
        /\ ~Public => shown # NoData
        /\ \A i \in DOMAIN shown \ missed : shown[i] = server[i]

\* docs/API.md:685: "a missed UI notification is recovered by the `connect`
\* revalidate".
MissedUpdatesAreRecovered ==
    Quiet => \A i \in DOMAIN shown : shown[i] = server[i]
=============================================================================
