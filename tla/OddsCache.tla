------------------------------ MODULE OddsCache ------------------------------
(***************************************************************************)
(* OddsCacheService, core's in-memory replica of the current line of every *)
(* event, between the three ways it learns: ticks of the transient         *)
(* odds.updated exchange, the boot hydrate over HTTP, and the resolutions  *)
(* of the durable queue core.events.resolved; with the part of the odds    *)
(* service that feeds all three.                                           *)
(*                                                                         *)
(* A tick and a resolution travel in different queues and the hydrate in   *)
(* neither, so the three overtake each other freely.                       *)
(*                                                                         *)
(* Time is a counter, bounded by MaxTime; the queue of ticks is bounded by *)
(* QueueBound; faults of the kinds in FaultKinds happen MaxFaults times:   *)
(*   crash     core dies; it boots again with an empty cache               *)
(*   hydrate   a hydrate request times out, or its answer is refused       *)
(*   drop      a tick is lost on its way                                   *)
(* A definition Name_Variant is Name with one mistake, see README.md.      *)
(***************************************************************************)
EXTENDS Integers, Sequences

CONSTANTS
    Events, Selections,
    Lines,              \* h2h lines providers quote: functions on Selections
    MinOdds, MaxOdds,   \* range of a price core stands behind
    MaxAge,             \* ODDS_MAX_AGE_MS
    MaxAttempts,        \* HYDRATE_ATTEMPTS
    MaxTime, QueueBound, FaultKinds, MaxFaults,
    None, Closed

\* What a line without an h2h market is projected to.
NoMarket == [s \in Selections |-> 0]

Line == [odds : Lines \union {NoMarket}, at : Nat]
Tick == [event : Events, line : Line]
Entry == [odds : Lines \union {NoMarket}, at : Nat, resolved : BOOLEAN]

ASSUME OddsCacheAssumption ==
    /\ Lines \subseteq [Selections -> Nat]
    /\ MinOdds \in Nat \ {0} /\ MaxOdds \in Nat
    /\ MaxAge \in Nat
    /\ MaxAttempts \in Nat \ {0}
    /\ MaxTime \in Nat /\ QueueBound \in Nat /\ MaxFaults \in Nat
    /\ Closed # None
    /\ {None, Closed} \intersect Line = {} /\ {None, Closed} \intersect Entry = {}

VARIABLES
    now,
    history,    \* history[e]: rows of odds_history
    current,    \* current[e]: row of odds_current, None when there is none
    outcome,    \* outcome[e]: its outcome, and where the resolution is
    pending,    \* pending[e]: line recorded and not published yet, or None
    queue,      \* core's queue on odds.updated
    up,         \* core is running
    entries,    \* entries[e]: OddsCacheService.entries, None when absent
    hydrate,    \* what the boot hydrate is doing
    attempt,    \* and in which attempt
    reply,      \* the answer the odds service has sent to it
    clean,      \* no tick was lost and no hydrate failed since core booted
    faults

feedVars == <<now, history, current, outcome, pending>>
hydrateVars == <<hydrate, attempt, reply>>
vars == <<feedVars, queue, up, entries, hydrateVars, clean, faults>>

TypeOK ==
    /\ now \in 0..MaxTime
    /\ history \in [Events -> SUBSET Line]
    /\ current \in [Events -> Line \union {None}]
    /\ outcome \in [Events -> {"none", "recorded", "queued", "acked"}]
    /\ pending \in [Events -> Line \union {None}]
    /\ queue \in Seq(Tick)
    /\ up \in BOOLEAN
    /\ entries \in [Events -> Entry \union {None}]
    /\ hydrate \in {"off", "fetching", "answered", "backoff", "done"}
    /\ attempt \in 0..MaxAttempts + 1
    /\ reply \in [Events -> Entry \union {None}]
    /\ clean \in BOOLEAN
    /\ faults \in 0..MaxFaults

Nothing == [e \in Events |-> None]

Init ==
    /\ now = 0
    /\ history = [e \in Events |-> {}]
    /\ current = Nothing
    /\ outcome = [e \in Events |-> "none"]
    /\ pending = Nothing
    /\ queue = <<>>
    /\ up = FALSE
    /\ entries = Nothing
    /\ hydrate = "off"
    /\ attempt = 0
    /\ reply = Nothing
    /\ clean = TRUE
    /\ faults = 0

Fault(kind) ==
    /\ kind \in FaultKinds
    /\ faults < MaxFaults
    /\ faults' = faults + 1

-----------------------------------------------------------------------------
(* The odds service: its poll records a line, then publishes it; a result  *)
(* is recorded, then published.                                            *)

Pass ==
    /\ now < MaxTime
    /\ now' = now + 1
    /\ UNCHANGED <<history, current, outcome, pending, queue, up, entries,
                   hydrateVars, clean, faults>>

\* Each event is polled by one loop that sleeps between two ticks, so its
\* lines have increasing times.  A line without h2h is recorded and the
\* publisher skips it.
Record(e) ==
    /\ pending[e] = None
    /\ \A row \in history[e] : row.at < now
    /\ \E odds \in Lines \union {NoMarket} :
           LET line == [odds |-> odds, at |-> now] IN
           /\ history' = [history EXCEPT ![e] = @ \union {line}]
           /\ current' = [current EXCEPT ![e] = line]
           /\ pending' = [pending EXCEPT ![e] = IF odds = NoMarket THEN None ELSE line]
    /\ UNCHANGED <<now, outcome, queue, up, entries, hydrateVars, clean, faults>>

\* Core subscribing to the ticks only when its hydrate is done.
PublishTick_AfterHydrate(e) ==
    /\ pending[e] # None
    /\ Len(queue) < QueueBound
    /\ queue' = IF up /\ hydrate = "done"
                THEN Append(queue, [event |-> e, line |-> pending[e]]) ELSE queue
    /\ pending' = [pending EXCEPT ![e] = None]
    /\ UNCHANGED <<now, history, current, outcome, up, entries, hydrateVars, clean, faults>>

\* Nobody keeps a tick for a core that is down.
PublishTick(e) ==
    /\ pending[e] # None
    /\ Len(queue) < QueueBound
    /\ queue' = IF up THEN Append(queue, [event |-> e, line |-> pending[e]]) ELSE queue
    /\ pending' = [pending EXCEPT ![e] = None]
    /\ UNCHANGED <<now, history, current, outcome, up, entries, hydrateVars, clean, faults>>

DropTick(e) ==
    /\ Fault("drop")
    /\ pending[e] # None
    /\ pending' = [pending EXCEPT ![e] = None]
    /\ clean' = FALSE
    /\ UNCHANGED <<now, history, current, outcome, queue, up, entries, hydrateVars>>

\* An admin may resolve an event that is resolved already.
RecordResult(e) ==
    /\ current[e] # None
    /\ outcome[e] \in {"none", "acked"}
    /\ outcome' = [outcome EXCEPT ![e] = "recorded"]
    /\ UNCHANGED <<now, history, current, pending, queue, up, entries,
                   hydrateVars, clean, faults>>

PublishResult(e) ==
    /\ outcome[e] = "recorded"
    /\ outcome' = [outcome EXCEPT ![e] = "queued"]
    /\ UNCHANGED <<now, history, current, pending, queue, up, entries,
                   hydrateVars, clean, faults>>

\* Stamping the rows with the time of the answer.
ServeHydrate_Restamped ==
    /\ hydrate = "fetching"
    /\ reply' = [e \in Events |->
           IF current[e] = None THEN None
           ELSE [odds |-> current[e].odds, at |-> now,
                 resolved |-> outcome[e] # "none"]]
    /\ hydrate' = "answered"
    /\ UNCHANGED <<feedVars, queue, up, entries, attempt, clean, faults>>

\* GET /odds/events: one query of odds_current, outcomes included.
ServeHydrate ==
    /\ hydrate = "fetching"
    /\ reply' = [e \in Events |->
           IF current[e] = None THEN None
           ELSE [odds |-> current[e].odds, at |-> current[e].at,
                 resolved |-> outcome[e] # "none"]]
    /\ hydrate' = "answered"
    /\ UNCHANGED <<feedVars, queue, up, entries, attempt, clean, faults>>

-----------------------------------------------------------------------------
(* The cache                                                               *)

\* The last message wins.
Upsert_Unordered(entry, line) ==
    IF entry # None /\ entry.resolved THEN entry
    ELSE [odds |-> line.odds, at |-> line.at, resolved |-> FALSE]

\* upsert: resolved is terminal, and a line only replaces an older one.
Upsert(entry, line) ==
    IF entry # None /\ (entry.resolved \/ entry.at >= line.at) THEN entry
    ELSE [odds |-> line.odds, at |-> line.at, resolved |-> FALSE]

Boot ==
    /\ ~up
    /\ up' = TRUE
    /\ hydrate' = "fetching"
    /\ attempt' = 1
    /\ clean' = TRUE
    /\ UNCHANGED <<feedVars, queue, entries, reply, faults>>

ApplyTick ==
    /\ queue # <<>>
    /\ LET tick == Head(queue) IN
       entries' = [entries EXCEPT ![tick.event] = Upsert(@, tick.line)]
    /\ queue' = Tail(queue)
    /\ UNCHANGED <<feedVars, up, hydrateVars, clean, faults>>

\* markResolved, when the handler of the resolution starts; the message is
\* acked when the bets are settled, or delivered again.
HandleResolution(e) ==
    /\ up
    /\ outcome[e] = "queued"
    /\ entries' = [entries EXCEPT ![e] =
                      IF @ = None THEN None ELSE [@ EXCEPT !.resolved = TRUE]]
    /\ outcome' \in {outcome, [outcome EXCEPT ![e] = "acked"]}
    /\ UNCHANGED <<now, history, current, pending, queue, up, hydrateVars, clean, faults>>

\* Only refreshing what ticks have opened.
Hydrated_KnownOnly(entry, row) ==
    IF row = None \/ entry = None THEN entry
    ELSE IF row.resolved THEN [row EXCEPT !.odds = NoMarket]
    ELSE Upsert(entry, row)

\* One row of the answer: a concluded event is closed whatever was known.
Hydrated(entry, row) ==
    IF row = None THEN entry
    ELSE IF row.resolved THEN [row EXCEPT !.odds = NoMarket]
    ELSE Upsert(entry, row)

\* hydrate's loop, after an attempt that found open events or none.
AfterAttempt(found) ==
    hydrate' = IF found \/ \E e \in Events : entries'[e] # None
               THEN "done" ELSE "backoff"

ApplyHydrate ==
    /\ hydrate = "answered"
    /\ entries' = [e \in Events |-> Hydrated(entries[e], reply[e])]
    /\ AfterAttempt(\E e \in Events : reply[e] # None /\ ~reply[e].resolved)
    /\ reply' = Nothing
    /\ UNCHANGED <<feedVars, queue, up, attempt, clean, faults>>

FailHydrate ==
    /\ Fault("hydrate")
    /\ hydrate \in {"fetching", "answered"}
    /\ entries' = entries
    /\ AfterAttempt(FALSE)
    /\ reply' = Nothing
    /\ clean' = FALSE
    /\ UNCHANGED <<feedVars, queue, up, attempt>>

Retry ==
    /\ hydrate = "backoff"
    /\ attempt' = attempt + 1
    /\ hydrate' = IF attempt < MaxAttempts THEN "fetching" ELSE "done"
    /\ UNCHANGED <<feedVars, queue, up, entries, reply, clean, faults>>

\* The exclusive queue goes with the connection.
Crash ==
    /\ Fault("crash")
    /\ up
    /\ up' = FALSE
    /\ entries' = Nothing
    /\ queue' = <<>>
    /\ hydrate' = "off"
    /\ attempt' = 0
    /\ reply' = Nothing
    /\ UNCHANGED <<feedVars, clean>>

NoPrice == 0

\* priceFor: the price a bet on side s is stamped with.
PriceFor(e, s) ==
    IF /\ entries[e] # None
       /\ ~entries[e].resolved
       /\ now - entries[e].at <= MaxAge
       /\ entries[e].odds[s] \in MinOdds..MaxOdds
    THEN entries[e].odds[s] ELSE NoPrice

-----------------------------------------------------------------------------

FeedStep(e) ==
    Record(e) \/ PublishTick(e) \/ DropTick(e) \/ RecordResult(e) \/ PublishResult(e)

Next ==
    \/ Pass
    \/ \E e \in Events : FeedStep(e) \/ HandleResolution(e)
    \/ ServeHydrate \/ Boot \/ ApplyTick \/ ApplyHydrate
    \/ FailHydrate \/ Retry \/ Crash

Spec == Init /\ [][Next]_vars

\* A core that is down is restarted; what is queued or asked for arrives.
\* Nobody has to quote a line or to resolve an event.
Fairness ==
    /\ WF_vars(Boot) /\ WF_vars(ServeHydrate) /\ WF_vars(ApplyHydrate)
    /\ WF_vars(Retry) /\ WF_vars(ApplyTick)
    /\ \A e \in Events : WF_vars(PublishTick(e))

FairSpec == Spec /\ Fairness

-----------------------------------------------------------------------------
(* Properties                                                              *)

\* Every line under way to the cache, or open in it, is one the feed recorded
\* for that very event and time, and only a concluded event is closed.
PostedLine(e, x) == [odds |-> x.odds, at |-> x.at] \in history[e]

LinesArePosted ==
    /\ \A e \in Events :
           /\ current[e] # None => current[e] \in history[e]
           /\ pending[e] # None => pending[e] \in history[e]
           /\ reply[e] # None =>
                  /\ PostedLine(e, reply[e])
                  /\ reply[e].resolved => outcome[e] # "none"
           /\ entries[e] # None =>
                  IF entries[e].resolved THEN outcome[e] # "none"
                  ELSE PostedLine(e, entries[e])
    /\ \A i \in DOMAIN queue : queue[i].line \in history[queue[i].event]

\* A bet is taken at a price the feed posted at most MaxAge ago, by whatever tick
\* or hydrate the line came, however late, and never at "no such market".
PricesAreFresh ==
    \A e \in Events : \A s \in DOMAIN NoMarket :
        PriceFor(e, s) # NoPrice =>
            \E line \in history[e] :
                /\ line.odds[s] = PriceFor(e, s) /\ line.odds # NoMarket
                /\ now - line.at <= MaxAge

\* Subscribing first, hydrating second and comparing times loses nothing: when
\* the hydrate is done, no tick is under way, and nothing was lost or failed
\* since core booted, the cache holds the current line of every event that
\* is not concluded and has one.
CacheIsCurrent ==
    (up /\ clean /\ hydrate = "done" /\ queue = <<>>) =>
        \A e \in Events :
            (/\ pending[e] = None /\ outcome[e] = "none"
             /\ current[e] # None /\ current[e].odds # NoMarket) =>
                 entries[e] = [odds |-> current[e].odds, at |-> current[e].at,
                               resolved |-> FALSE]

\* The boot hydrate closes the restart window: an event with a line is known to
\* core sooner or later, whenever core crashes, unless a tick is lost or a
\* hydrate fails.
EventsBecomeKnown ==
    \A e \in Events :
        (current[e] # None /\ current[e].odds # NoMarket)
            ~> (entries[e] # None \/ outcome[e] # "none" \/ ~clean)

\* The cache keeps the promise of PriceBook: it holds lines the feed posted,
\* moves forward only, and what it has closed stays closed until a restart.
Book == INSTANCE PriceBook WITH
    NoEntry <- None,
    posted <- history,
    concluded <- {e \in Events : outcome[e] # "none"},
    book <- [e \in Events |->
                IF entries[e] = None THEN None
                ELSE IF entries[e].resolved THEN Closed
                ELSE [odds |-> entries[e].odds, at |-> entries[e].at]]

KeepsBook == Book!Spec
=============================================================================
