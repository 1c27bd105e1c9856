--------------------------- MODULE OddsCacheProofs ---------------------------
(***************************************************************************)
(* Proofs about OddsCache for every set of events and lines, any times,    *)
(* any number of attempts and of faults.  LinesArePosted is inductive with *)
(* TypeOK; with both, each step of the cache is one PriceBook allows.      *)
(***************************************************************************)
EXTENDS OddsCache, TLAPS

\* The loop never counts past its last attempt.
AttemptsBounded ==
    hydrate \in {"fetching", "answered", "backoff"} => attempt <= MaxAttempts

Inv == TypeOK /\ LinesArePosted /\ AttemptsBounded

AnEntry == Entry \union {None}

LEMMA NoneIsNeither == None \notin Line /\ None \notin Entry /\ Closed \notin Line
                       /\ Closed # None
  BY OddsCacheAssumption

\* What the cache may do with a line of the feed.
LEMMA UpsertType ==
    ASSUME NEW x \in AnEntry, NEW line,
           NEW odds \in Lines \union {NoMarket}, NEW at \in Nat,
           line.odds = odds, line.at = at
    PROVE  /\ Upsert(x, line) \in Entry
           /\ \/ Upsert(x, line) = x
              \/ /\ Upsert(x, line) = [odds |-> odds, at |-> at, resolved |-> FALSE]
                 /\ x # None => ~x.resolved /\ x.at < at
<1>1. CASE x = None
  BY <1>1 DEF Upsert, Entry
<1>2. CASE x # None
  <2>1. x \in Entry /\ x.at \in Nat /\ x.resolved \in BOOLEAN
    BY <1>2 DEF AnEntry, Entry
  <2>2. CASE x.resolved \/ x.at >= at
    <3>1. x # None /\ (x.resolved \/ x.at >= line.at)
      BY <1>2, <2>2
    <3>2. Upsert(x, line) = x
      BY <3>1, Zenon DEF Upsert
    <3> QED BY <2>1, <3>2, Zenon
  <2>3. CASE ~(x.resolved \/ x.at >= at)
    <3>1. Upsert(x, line) = [odds |-> odds, at |-> at, resolved |-> FALSE]
      BY <1>2, <2>3 DEF Upsert
    <3>2. ~x.resolved /\ x.at < at
      BY <2>1, <2>3
    <3> QED BY <3>1, <3>2 DEF Entry
  <2> QED BY <2>2, <2>3
<1> QED BY <1>1, <1>2

LEMMA QueueOfTicks ==
    ASSUME TypeOK, NEW i \in DOMAIN queue
    PROVE  queue[i] \in Tick /\ queue[i].event \in Events
<1>1. queue \in [1..Len(queue) -> Tick]
  BY DEF TypeOK
<1> QED BY <1>1 DEF Tick

-----------------------------------------------------------------------------
(* The invariant                                                           *)

LEMMA InitInv == Init => Inv
<1> SUFFICES ASSUME Init PROVE Inv
  OBVIOUS
<1>1. /\ now \in 0..MaxTime /\ attempt \in 0..MaxAttempts + 1
      /\ faults \in 0..MaxFaults /\ queue \in Seq(Tick)
  BY OddsCacheAssumption DEF Init
<1>2. TypeOK
  BY <1>1 DEF Init, TypeOK, Nothing
<1>3. LinesArePosted /\ AttemptsBounded
  BY DEF Init, LinesArePosted, Nothing, AttemptsBounded
<1> QED BY <1>2, <1>3 DEF Inv

LEMMA RecordKeeps ==
    ASSUME Inv, NEW e \in Events, Record(e) PROVE Inv'
<1> USE DEF Inv, AttemptsBounded
<1>1. PICK odds \in Lines \union {NoMarket} :
          LET line == [odds |-> odds, at |-> now] IN
          /\ history' = [history EXCEPT ![e] = @ \union {line}]
          /\ current' = [current EXCEPT ![e] = line]
          /\ pending' = [pending EXCEPT ![e] = IF odds = NoMarket THEN None ELSE line]
  BY DEF Record
<1> DEFINE line == [odds |-> odds, at |-> now]
<1>2. line \in Line
  BY DEF TypeOK, Line
<1>3. \A f \in Events : history[f] \subseteq history'[f]
  BY <1>1 DEF TypeOK
<1>4. line \in history'[e]
  BY <1>1 DEF TypeOK
<1>5. TypeOK'
  BY <1>1, <1>2 DEF Record, TypeOK, hydrateVars
<1>6. LinesArePosted'
  <2>1. ASSUME NEW f \in Events
        PROVE  /\ current'[f] # None => current'[f] \in history'[f]
               /\ pending'[f] # None => pending'[f] \in history'[f]
    BY <1>1, <1>3, <1>4, <2>1 DEF TypeOK, LinesArePosted
  <2>2. \A i \in DOMAIN queue : queue[i].event \in Events
    BY QueueOfTicks
  <2> QED
    BY <1>3, <2>1, <2>2 DEF Record, LinesArePosted, PostedLine, hydrateVars, TypeOK
<1> QED BY <1>5, <1>6 DEF Record, hydrateVars

LEMMA PublishTickKeeps ==
    ASSUME Inv, NEW e \in Events, PublishTick(e) PROVE Inv'
<1> USE DEF Inv, AttemptsBounded
<1> DEFINE tick == [event |-> e, line |-> pending[e]]
<1>1. tick \in Tick /\ pending[e] \in history[e]
  BY DEF PublishTick, TypeOK, Tick, LinesArePosted
<1>2. queue' \in Seq(Tick)
  BY <1>1 DEF PublishTick, TypeOK
<1>3. TypeOK'
  BY <1>2, OddsCacheAssumption DEF PublishTick, TypeOK, hydrateVars
<1>4. \A i \in DOMAIN queue' : queue'[i].line \in history[queue'[i].event]
  <2>1. CASE queue' = queue
    BY <2>1 DEF LinesArePosted
  <2>2. CASE queue' = Append(queue, tick)
    <3>1. ASSUME NEW i \in DOMAIN queue'
          PROVE  queue'[i] = tick \/ (i \in DOMAIN queue /\ queue'[i] = queue[i])
      BY <2>2, <1>1 DEF TypeOK
    <3> QED BY <3>1, <1>1 DEF LinesArePosted
  <2> QED BY <2>1, <2>2 DEF PublishTick
<1>5. LinesArePosted'
  BY <1>4 DEF PublishTick, LinesArePosted, PostedLine, hydrateVars, TypeOK
<1> QED BY <1>3, <1>5 DEF PublishTick, hydrateVars

LEMMA FeedKeeps ==
    ASSUME Inv, Pass \/ ServeHydrate
             \/ \E e \in Events : DropTick(e) \/ RecordResult(e) \/ PublishResult(e)
    PROVE  Inv'
<1> USE DEF Inv, AttemptsBounded
<1>1. CASE Pass
  <2>1. now' \in 0..MaxTime
    BY <1>1, OddsCacheAssumption DEF Pass, TypeOK
  <2> QED
    BY <1>1, <2>1 DEF Pass, TypeOK, LinesArePosted, PostedLine, hydrateVars
<1>2. CASE ServeHydrate
  <2>1. \A e \in Events : reply'[e] \in Entry \union {None}
    BY <1>2 DEF ServeHydrate, TypeOK, Line, Entry
  <2>2. ASSUME NEW e \in Events, reply'[e] # None
        PROVE  /\ [odds |-> reply'[e].odds, at |-> reply'[e].at] = current[e]
               /\ current[e] # None
               /\ reply'[e].resolved => outcome[e] # "none"
    BY <1>2, <2>2 DEF ServeHydrate, TypeOK, Line
  <2>3. TypeOK'
    BY <1>2, <2>1 DEF ServeHydrate, TypeOK, feedVars
  <2> QED
    BY <1>2, <2>2, <2>3 DEF ServeHydrate, LinesArePosted, PostedLine, feedVars
<1>3. ASSUME NEW e \in Events, DropTick(e) PROVE Inv'
  <2>1. faults' \in 0..MaxFaults
    BY <1>3, OddsCacheAssumption DEF DropTick, Fault, TypeOK
  <2> QED
    BY <1>3, <2>1
    DEF DropTick, TypeOK, LinesArePosted, PostedLine, hydrateVars
<1>4. ASSUME NEW e \in Events, RecordResult(e) \/ PublishResult(e) PROVE Inv'
  BY <1>4
  DEF RecordResult, PublishResult, TypeOK, LinesArePosted, PostedLine, hydrateVars
<1> QED BY <1>1, <1>2, <1>3, <1>4

LEMMA ApplyTickKeeps == ASSUME Inv, ApplyTick PROVE Inv'
<1> USE DEF Inv, AttemptsBounded
<1> DEFINE tick == Head(queue)
<1>1. /\ tick \in Tick /\ queue' = Tail(queue) /\ queue' \in Seq(Tick)
      /\ tick.line \in history[tick.event]
      /\ \A i \in DOMAIN queue' : i + 1 \in DOMAIN queue /\ queue'[i] = queue[i + 1]
  BY DEF ApplyTick, TypeOK, LinesArePosted
<1>2. /\ tick.event \in Events /\ tick.line \in Line
      /\ tick.line = [odds |-> tick.line.odds, at |-> tick.line.at]
      /\ tick.line.odds \in Lines \union {NoMarket} /\ tick.line.at \in Nat
  BY <1>1 DEF Tick, Line
<1> DEFINE f == tick.event
           x == Upsert(entries[f], tick.line)
<1>3. entries' = [entries EXCEPT ![f] = x]
  BY DEF ApplyTick
<1>4. /\ x \in Entry
      /\ \/ x = entries[f]
         \/ x = [odds |-> tick.line.odds, at |-> tick.line.at, resolved |-> FALSE]
  <2>1. entries[f] \in AnEntry
    BY <1>2 DEF AnEntry, TypeOK
  <2> QED BY <1>2, <2>1, UpsertType
<1>5. TypeOK'
  BY <1>1, <1>3, <1>4 DEF ApplyTick, TypeOK, feedVars, hydrateVars
<1>6. ASSUME NEW e \in Events, entries'[e] # None
      PROVE  IF entries'[e].resolved THEN outcome[e] # "none"
             ELSE PostedLine(e, entries'[e])
  <2>1. CASE e = f /\ x # entries[f]
    BY <2>1, <1>1, <1>2, <1>3, <1>4 DEF TypeOK, PostedLine
  <2>2. CASE e # f \/ x = entries[f]
    <3>1. entries'[e] = entries[e]
      BY <2>2, <1>3 DEF TypeOK
    <3> QED BY <3>1, <1>6 DEF LinesArePosted
  <2> QED BY <2>1, <2>2
<1>7. LinesArePosted'
  BY <1>1, <1>6 DEF ApplyTick, LinesArePosted, PostedLine, feedVars, hydrateVars
<1> QED BY <1>5, <1>7 DEF ApplyTick, hydrateVars

LEMMA HandleResolutionKeeps ==
    ASSUME Inv, NEW e \in Events, HandleResolution(e) PROVE Inv'
<1> USE DEF Inv, AttemptsBounded
<1>1. /\ entries' \in [Events -> Entry \union {None}]
      /\ outcome' \in [Events -> {"none", "recorded", "queued", "acked"}]
      /\ \A f \in Events : outcome[f] # "none" => outcome'[f] # "none"
      /\ outcome'[e] # "none"
  <2>1. entries' \in [Events -> Entry \union {None}]
    <3> DEFINE x == IF entries[e] = None THEN None
                    ELSE [entries[e] EXCEPT !.resolved = TRUE]
    <3>1. entries' = [entries EXCEPT ![e] = x]
      BY DEF HandleResolution
    <3>2. x \in Entry \union {None}
      BY DEF TypeOK, Entry
    <3> QED BY <3>1, <3>2 DEF TypeOK
  <2>2. CASE outcome' = outcome
    BY <2>1, <2>2 DEF HandleResolution, TypeOK
  <2>3. CASE outcome' = [outcome EXCEPT ![e] = "acked"]
    BY <2>1, <2>3 DEF HandleResolution, TypeOK
  <2> QED BY <2>2, <2>3 DEF HandleResolution
<1>2. TypeOK'
  BY <1>1 DEF HandleResolution, TypeOK, hydrateVars
<1>3. ASSUME NEW f \in Events, entries'[f] # None
      PROVE  IF entries'[f].resolved THEN outcome'[f] # "none"
             ELSE PostedLine(f, entries'[f])
  <2>1. CASE f = e
    <3>1. entries'[f] = [entries[e] EXCEPT !.resolved = TRUE] /\ entries[e] \in Entry
      BY <1>3, <2>1 DEF HandleResolution, TypeOK
    <3>2. entries'[f].resolved = TRUE
      BY <3>1 DEF Entry
    <3> QED BY <3>2, <2>1, <1>1
  <2>2. CASE f # e
    BY <2>2, <1>1, <1>3 DEF HandleResolution, TypeOK, LinesArePosted, PostedLine
  <2> QED BY <2>1, <2>2
<1>4. \A f \in Events : PostedLine(f, entries'[f]) <=> PostedLine(f, entries[f])'
  BY DEF HandleResolution, PostedLine
<1>5. LinesArePosted'
  BY <1>1, <1>3, <1>4
  DEF HandleResolution, LinesArePosted, PostedLine, hydrateVars
<1> QED BY <1>2, <1>5 DEF HandleResolution, hydrateVars

\* One row of a hydrate's answer.
LEMMA HydratedEntry ==
    ASSUME Inv, NEW e \in Events, NEW x, x = Hydrated(entries[e], reply[e])
    PROVE  /\ x \in AnEntry
           /\ \/ x = entries[e]
              \/ x # None /\ x.resolved /\ outcome[e] # "none"
              \/ /\ x # None /\ ~x.resolved /\ PostedLine(e, x)
                 /\ entries[e] # None => ~entries[e].resolved /\ entries[e].at < x.at
<1> USE DEF Inv, AttemptsBounded
<1>1. CASE reply[e] = None
  BY <1>1 DEF Hydrated, TypeOK, AnEntry
<1>2. CASE reply[e] # None /\ reply[e].resolved
  <2>1. reply[e] \in Entry /\ x = [reply[e] EXCEPT !.odds = NoMarket]
    BY <1>2 DEF Hydrated, TypeOK
  <2>2. x \in Entry /\ x.resolved
    BY <2>1, <1>2 DEF Entry
  <2> QED BY <1>2, <2>2, NoneIsNeither DEF AnEntry, LinesArePosted
<1>3. CASE reply[e] # None /\ ~reply[e].resolved
  <2> DEFINE odds == reply[e].odds
             at == reply[e].at
  <2>1. odds \in Lines \union {NoMarket} /\ at \in Nat
    BY <1>3 DEF TypeOK, Entry
  <2>2. x = Upsert(entries[e], reply[e]) /\ entries[e] \in AnEntry
    BY <1>3 DEF Hydrated, TypeOK, AnEntry
  <2>3. /\ x \in Entry
        /\ \/ x = entries[e]
           \/ /\ x = [odds |-> odds, at |-> at, resolved |-> FALSE]
              /\ entries[e] # None => ~entries[e].resolved /\ entries[e].at < at
    <3> HIDE DEF odds, at
    <3>1. reply[e].odds = odds /\ reply[e].at = at
      BY DEF odds, at
    <3> QED BY <2>1, <2>2, <3>1, UpsertType
  <2>4. [odds |-> odds, at |-> at] \in history[e]
    BY <1>3 DEF LinesArePosted, PostedLine
  <2> QED BY <2>3, <2>4, NoneIsNeither DEF PostedLine, AnEntry
<1> QED BY <1>1, <1>2, <1>3

LEMMA ApplyHydrateKeeps == ASSUME Inv, ApplyHydrate PROVE Inv'
<1> USE DEF Inv, AttemptsBounded
<1>1. \A e \in Events : entries'[e] = Hydrated(entries[e], reply[e])
  BY DEF ApplyHydrate
<1>2. entries' \in [Events -> AnEntry]
  <2>1. \A e \in Events : Hydrated(entries[e], reply[e]) \in AnEntry
    BY HydratedEntry
  <2> QED BY <2>1 DEF ApplyHydrate
<1>3. hydrate' \in {"done", "backoff"}
  BY DEF ApplyHydrate, AfterAttempt
<1>4. TypeOK'
  BY <1>2, <1>3 DEF ApplyHydrate, TypeOK, feedVars, Nothing, AnEntry
<1>5. ASSUME NEW e \in Events, entries'[e] # None
      PROVE  IF entries'[e].resolved THEN outcome[e] # "none"
             ELSE PostedLine(e, entries'[e])
  BY <1>1, <1>5, HydratedEntry DEF LinesArePosted
<1>6. LinesArePosted'
  BY <1>5 DEF ApplyHydrate, LinesArePosted, PostedLine, feedVars, Nothing
<1> QED BY <1>4, <1>6 DEF ApplyHydrate

LEMMA CoreKeeps ==
    ASSUME Inv, Boot \/ FailHydrate \/ Retry \/ Crash PROVE Inv'
<1> USE DEF Inv, AttemptsBounded
<1>1. CASE Boot
  <2>1. attempt' \in 0..MaxAttempts + 1 /\ attempt' <= MaxAttempts
    BY <1>1, OddsCacheAssumption DEF Boot
  <2> QED
    BY <1>1, <2>1 DEF Boot, TypeOK, LinesArePosted, PostedLine, feedVars
<1>2. CASE FailHydrate
  <2>1. faults' \in 0..MaxFaults /\ hydrate' \in {"done", "backoff"}
    BY <1>2, OddsCacheAssumption DEF FailHydrate, Fault, AfterAttempt, TypeOK
  <2> QED
    BY <1>2, <2>1
    DEF FailHydrate, TypeOK, LinesArePosted, PostedLine, feedVars, Nothing
<1>3. CASE Retry
  <2>1. hydrate' \in {"fetching", "done"} /\ attempt' \in 0..MaxAttempts + 1
    BY <1>3, OddsCacheAssumption DEF Retry, TypeOK
  <2>2. hydrate' = "fetching" => attempt' <= MaxAttempts
    BY <1>3, OddsCacheAssumption DEF Retry, TypeOK
  <2> QED
    BY <1>3, <2>1, <2>2 DEF Retry, TypeOK, LinesArePosted, PostedLine, feedVars
<1>4. CASE Crash
  <2>1. /\ faults' \in 0..MaxFaults /\ attempt' \in 0..MaxAttempts + 1
        /\ queue' = <<>> /\ queue' \in Seq(Tick)
    BY <1>4, OddsCacheAssumption DEF Crash, Fault, TypeOK
  <2>2. TypeOK'
    BY <1>4, <2>1 DEF Crash, TypeOK, feedVars, Nothing
  <2>3. LinesArePosted'
    BY <1>4, <2>1 DEF Crash, LinesArePosted, feedVars, Nothing
  <2> QED BY <1>4, <2>2, <2>3 DEF Crash
<1> QED BY <1>1, <1>2, <1>3, <1>4

LEMMA InductiveInv == Inv /\ [Next]_vars => Inv'
<1> SUFFICES ASSUME Inv, [Next]_vars PROVE Inv'
  OBVIOUS
<1>1. CASE Next
  BY <1>1, RecordKeeps, PublishTickKeeps, FeedKeeps, ApplyTickKeeps,
     HandleResolutionKeeps, ApplyHydrateKeeps, CoreKeeps
  DEF Next, FeedStep
<1>2. CASE UNCHANGED vars
  BY <1>2
  DEF vars, feedVars, hydrateVars, Inv, TypeOK, LinesArePosted, PostedLine,
      AttemptsBounded
<1> QED BY <1>1, <1>2

\* The invariant holds in every reachable state.
THEOREM CacheInvariance == Spec => []Inv
<1>1. Init => Inv
  BY InitInv
<1>2. Inv /\ [Next]_vars => Inv'
  BY InductiveInv
<1> QED BY <1>1, <1>2, PTL DEF Spec

\* Every variable keeps its type.
THEOREM CacheTypeCorrect == Spec => []TypeOK
<1>1. Inv => TypeOK
  BY DEF Inv
<1> QED BY <1>1, CacheInvariance, PTL

\* No line reaches the cache that the feed did not record for that event, and
\* no event is closed that has no outcome.
THEOREM CachePosted == Spec => []LinesArePosted
<1>1. Inv => LinesArePosted
  BY DEF Inv
<1> QED BY <1>1, CacheInvariance, PTL

\* A price core sells was posted by the feed no longer than MaxAge ago.
THEOREM CacheSellsFreshPrices == Spec => []PricesAreFresh
<1>1. ASSUME Inv, NEW e \in Events, NEW s \in DOMAIN NoMarket, PriceFor(e, s) # NoPrice
      PROVE  \E line \in history[e] :
                 /\ line.odds[s] = PriceFor(e, s) /\ line.odds # NoMarket
                 /\ now - line.at <= MaxAge
  <2> DEFINE line == [odds |-> entries[e].odds, at |-> entries[e].at]
  <2>1. /\ entries[e] # None /\ ~entries[e].resolved
        /\ now - entries[e].at <= MaxAge
        /\ entries[e].odds[s] = PriceFor(e, s)
    BY <1>1 DEF PriceFor
  <2>2. line \in history[e]
    BY <1>1, <2>1 DEF Inv, LinesArePosted, PostedLine
  <2>3. NoMarket[s] = NoPrice
    BY <1>1 DEF NoMarket, NoPrice
  <2>4. line.odds # NoMarket
    BY <1>1, <2>1, <2>3
  <2> QED BY <2>1, <2>2, <2>4
<1>2. Inv => PricesAreFresh
  BY <1>1 DEF PricesAreFresh
<1> QED BY <1>2, CacheInvariance, PTL

-----------------------------------------------------------------------------
(* Catching up                                                             *)

AsEntry(line) == [odds |-> line.odds, at |-> line.at, resolved |-> FALSE]

\* The current row is the newest of its history, and what waits to be
\* published is the current row.
CurrentIsNewest ==
    \A e \in Events :
        /\ current[e] = None => history[e] = {}
        /\ current[e] # None =>
               \A row \in history[e] :
                   /\ row.at <= current[e].at
                   /\ row.at = current[e].at => row = current[e]
        /\ pending[e] # None => pending[e] = current[e]

\* An event core may quote: open, with an h2h line.
Quotable(e) ==
    outcome[e] = "none" /\ current[e] # None /\ current[e].odds # NoMarket

Queued(e) ==
    \E i \in DOMAIN queue : queue[i] = [event |-> e, line |-> current[e]]

\* Where the current line of an event is, as long as nothing was lost: not yet
\* published, in the queue of ticks, in the cache, or in the answer of a
\* hydrate that is still to come.
Caught(e) ==
    \/ pending[e] # None
    \/ Queued(e)
    \/ entries[e] = AsEntry(current[e])
    \/ hydrate = "fetching"
    \/ hydrate = "answered" /\ reply[e] = AsEntry(current[e])

NothingEscapes ==
    (up /\ clean) => \A e \in Events : Quotable(e) => Caught(e)

FreshInv == Inv /\ CurrentIsNewest /\ NothingEscapes

\* An entry that holds the current line keeps it, and an entry offered the
\* current line takes it.
LEMMA UpsertCurrent ==
    ASSUME FreshInv, NEW e \in Events, Quotable(e), NEW line,
           NEW odds \in Lines \union {NoMarket}, NEW at \in Nat,
           line.odds = odds, line.at = at,
           [odds |-> odds, at |-> at] \in history[e],
           \/ entries[e] = AsEntry(current[e])
           \/ [odds |-> odds, at |-> at] = current[e]
    PROVE  Upsert(entries[e], line) = AsEntry(current[e])
<1> DEFINE now_odds == current[e].odds
           now_at == current[e].at
<1>1. /\ now_odds \in Lines \union {NoMarket} /\ now_at \in Nat
      /\ current[e] = [odds |-> now_odds, at |-> now_at]
  BY DEF FreshInv, Inv, TypeOK, Quotable, Line
<1>2. at <= now_at
  BY <1>1 DEF FreshInv, CurrentIsNewest, Quotable
<1>3. AsEntry(current[e]) = [odds |-> now_odds, at |-> now_at, resolved |-> FALSE]
  BY DEF AsEntry
<1>4. CASE entries[e] = AsEntry(current[e])
  <2>1. entries[e] # None /\ entries[e].at = now_at
    <3>1. AsEntry(current[e]) \in Entry
      BY <1>1, <1>3 DEF Entry
    <3>2. entries[e] # None
      BY <1>4, <3>1, NoneIsNeither
    <3> HIDE DEF now_odds, now_at
    <3>3. entries[e].at = now_at
      BY <1>3, <1>4
    <3> QED BY <3>2, <3>3
  <2>2. entries[e].at >= line.at
    BY <1>1, <1>2, <2>1
  <2> QED BY <1>4, <2>1, <2>2, Zenon DEF Upsert
<1>5. CASE entries[e] # AsEntry(current[e]) /\ [odds |-> odds, at |-> at] = current[e]
  <2>1. odds = now_odds /\ at = now_at
    BY <1>5
  <2>2. Upsert(entries[e], line) = entries[e]
        \/ Upsert(entries[e], line) = [odds |-> odds, at |-> at, resolved |-> FALSE]
    BY Zenon DEF Upsert
  <2>3. CASE entries[e] = None
    BY <2>1, <2>3, <1>3, Zenon DEF Upsert
  <2>4. CASE entries[e] # None
    <3>1. /\ entries[e] \in Entry /\ ~entries[e].resolved
          /\ [odds |-> entries[e].odds, at |-> entries[e].at] \in history[e]
      BY <2>4 DEF FreshInv, Inv, TypeOK, LinesArePosted, PostedLine, Quotable
    <3> DEFINE old_odds == entries[e].odds
               old_at == entries[e].at
    <3>2. /\ old_at \in Nat
          /\ entries[e] = [odds |-> old_odds, at |-> old_at, resolved |-> FALSE]
      BY <3>1 DEF Entry
    <3>3. old_at <= now_at /\ (old_at = now_at => old_odds = now_odds)
      <4>1. PICK row \in history[e] : row = [odds |-> old_odds, at |-> old_at]
        BY <3>1
      <4>2. row.at <= now_at /\ (row.at = now_at => row = current[e])
        BY <4>1 DEF FreshInv, CurrentIsNewest, Quotable
      <4> QED BY <4>1, <4>2
    <3>4. old_at # now_at
      BY <3>2, <3>3, <1>3, <1>5
    <3>5. ~(entries[e].resolved \/ entries[e].at >= line.at)
      BY <3>1, <3>2, <3>3, <3>4, <2>1, <1>1
    <3> QED BY <3>5, <2>4, <2>1, <1>3 DEF Upsert
  <2> QED BY <2>3, <2>4
<1> QED BY <1>4, <1>5

LEMMA RecordFresh ==
    ASSUME FreshInv, NEW e \in Events, Record(e)
    PROVE  CurrentIsNewest' /\ NothingEscapes'
<1> USE DEF FreshInv, Inv
<1>1. PICK odds \in Lines \union {NoMarket} :
          LET line == [odds |-> odds, at |-> now] IN
          /\ history' = [history EXCEPT ![e] = @ \union {line}]
          /\ current' = [current EXCEPT ![e] = line]
          /\ pending' = [pending EXCEPT ![e] = IF odds = NoMarket THEN None ELSE line]
  BY DEF Record
<1> DEFINE line == [odds |-> odds, at |-> now]
<1>2. /\ history'[e] = history[e] \union {line} /\ current'[e] = line
      /\ pending'[e] = (IF odds = NoMarket THEN None ELSE line)
      /\ line \in Line /\ line # None
      /\ \A row \in history[e] : row.at < now /\ row.at \in Nat
      /\ now \in Nat /\ line.at = now /\ line.odds = odds
  BY <1>1, NoneIsNeither DEF TypeOK, Line, Record
<1>3. \A f \in Events \ {e} : /\ history'[f] = history[f]
                              /\ current'[f] = current[f]
                              /\ pending'[f] = pending[f]
  BY <1>1 DEF TypeOK
<1>4. CurrentIsNewest'
  <2>1. ASSUME NEW row \in history'[e]
        PROVE  row.at <= now /\ (row.at = now => row = line)
    BY <1>2
  <2> HIDE DEF line
  <2> QED BY <1>2, <1>3, <2>1 DEF CurrentIsNewest
<1>5. NothingEscapes'
  <2>1. ASSUME NEW f \in Events \ {e}, Quotable(f)', (up /\ clean)'
        PROVE  Caught(f)'
    <3>1. Quotable(f) /\ up /\ clean
      BY <2>1, <1>3 DEF Record, Quotable
    <3>2. Caught(f)
      BY <3>1 DEF NothingEscapes
    <3> QED BY <3>2, <1>3 DEF Record, Caught, Queued, hydrateVars
  <2>2. Quotable(e)' => Caught(e)'
    <3> HIDE DEF line
    <3> QED BY <1>2 DEF Quotable, Caught
  <2> QED BY <2>1, <2>2 DEF NothingEscapes
<1> QED BY <1>4, <1>5

LEMMA PublishTickFresh ==
    ASSUME FreshInv, NEW e \in Events, PublishTick(e)
    PROVE  CurrentIsNewest' /\ NothingEscapes'
<1> USE DEF FreshInv, Inv
<1> DEFINE tick == [event |-> e, line |-> pending[e]]
<1>1. /\ pending[e] # None /\ pending' = [pending EXCEPT ![e] = None]
      /\ pending[e] = current[e] /\ tick \in Tick
  BY DEF PublishTick, CurrentIsNewest, TypeOK, Tick
<1>2. CurrentIsNewest'
  BY <1>1 DEF PublishTick, CurrentIsNewest, TypeOK
<1>3. ASSUME up
      PROVE  /\ \E i \in DOMAIN queue' : queue'[i] = tick
             /\ \A i \in DOMAIN queue : i \in DOMAIN queue' /\ queue'[i] = queue[i]
  <2>1. queue' = Append(queue, tick)
    BY <1>3 DEF PublishTick
  <2>2. queue \in Seq(Tick) /\ Len(queue) \in Nat
    BY DEF TypeOK
  <2>3. /\ Len(queue) + 1 \in DOMAIN queue'
        /\ queue'[Len(queue) + 1] = tick
    BY <2>1, <2>2, <1>1
  <2>4. \A i \in DOMAIN queue : i \in DOMAIN queue' /\ queue'[i] = queue[i]
    BY <2>1, <2>2, <1>1
  <2> QED BY <2>3, <2>4
<1>4. ASSUME NEW f \in Events, Quotable(f)', (up /\ clean)'
      PROVE  Caught(f)'
  <2>1. Quotable(f) /\ up /\ clean
    BY <1>4 DEF PublishTick, Quotable
  <2>2. Caught(f)
    BY <2>1 DEF NothingEscapes
  <2>3. UNCHANGED <<current, entries, hydrate, reply>>
    BY DEF PublishTick, hydrateVars
  <2>4. CASE f = e
    BY <2>1, <2>3, <2>4, <1>1, <1>3 DEF Caught, Queued
  <2>5. CASE f # e
    <3>1. pending'[f] = pending[f]
      BY <1>1, <2>5 DEF TypeOK
    <3>2. Queued(f) => Queued(f)'
      BY <1>3, <2>1, <2>3 DEF Queued
    <3> QED BY <2>2, <2>3, <3>1, <3>2 DEF Caught
  <2> QED BY <2>4, <2>5
<1> QED BY <1>2, <1>4 DEF NothingEscapes

LEMMA FeedFresh ==
    ASSUME FreshInv, Pass \/ ServeHydrate
             \/ \E e \in Events : DropTick(e) \/ RecordResult(e) \/ PublishResult(e)
    PROVE  CurrentIsNewest' /\ NothingEscapes'
<1> USE DEF FreshInv, Inv
<1>1. CASE Pass
  BY <1>1
  DEF Pass, CurrentIsNewest, NothingEscapes, Quotable, Caught, Queued, hydrateVars
<1>2. CASE ServeHydrate
  <2>1. CurrentIsNewest'
    BY <1>2 DEF ServeHydrate, CurrentIsNewest, feedVars
  <2>2. ASSUME NEW e \in Events, Quotable(e)' PROVE Caught(e)'
    BY <1>2, <2>2 DEF ServeHydrate, Quotable, Caught, AsEntry, feedVars
  <2> QED BY <2>1, <2>2 DEF NothingEscapes
<1>3. ASSUME NEW e \in Events, DropTick(e)
      PROVE  CurrentIsNewest' /\ NothingEscapes'
  BY <1>3 DEF DropTick, CurrentIsNewest, NothingEscapes, TypeOK
<1>4. ASSUME NEW e \in Events, RecordResult(e) \/ PublishResult(e)
      PROVE  CurrentIsNewest' /\ NothingEscapes'
  <2>1. UNCHANGED <<history, current, pending, queue, entries, hydrate, reply,
                    up, clean>>
    BY <1>4 DEF RecordResult, PublishResult, hydrateVars
  <2>2. \A f \in Events : outcome'[f] = "none" => outcome[f] = "none"
    BY <1>4 DEF RecordResult, PublishResult, TypeOK
  <2>3. CurrentIsNewest'
    BY <2>1 DEF CurrentIsNewest
  <2>4. NothingEscapes'
    BY <2>1, <2>2 DEF NothingEscapes, Quotable, Caught, Queued
  <2> QED BY <2>3, <2>4
<1> QED BY <1>1, <1>2, <1>3, <1>4

LEMMA ApplyTickFresh ==
    ASSUME FreshInv, ApplyTick PROVE CurrentIsNewest' /\ NothingEscapes'
<1> USE DEF FreshInv, Inv
<1> DEFINE tick == Head(queue)
<1>1. UNCHANGED <<feedVars, up, hydrateVars, clean>> /\ queue # <<>>
  BY DEF ApplyTick
<1>2. /\ tick \in Tick /\ tick = queue[1] /\ tick.line \in history[tick.event]
      /\ tick.event \in Events
      /\ tick.line = [odds |-> tick.line.odds, at |-> tick.line.at]
      /\ tick.line.odds \in Lines \union {NoMarket} /\ tick.line.at \in Nat
  <2>1. tick \in Tick /\ tick = queue[1] /\ 1 \in DOMAIN queue
    BY <1>1 DEF TypeOK
  <2> QED BY <2>1 DEF LinesArePosted, Tick, Line
<1>3. \A i \in DOMAIN queue : i # 1 =>
          i - 1 \in DOMAIN queue' /\ queue'[i - 1] = queue[i]
  BY DEF ApplyTick, TypeOK
<1>4. CurrentIsNewest'
  BY <1>1 DEF CurrentIsNewest, feedVars
<1>5. ASSUME NEW e \in Events, Quotable(e)', (up /\ clean)'
      PROVE  Caught(e)'
  <2>1. Quotable(e) /\ up /\ clean
    BY <1>5, <1>1 DEF Quotable, feedVars
  <2>2. Caught(e)
    BY <2>1 DEF NothingEscapes
  <2>3. entries[e] = AsEntry(current[e]) => entries'[e] = AsEntry(current[e])
    <3>1. CASE tick.event = e
      <4>1. entries'[e] = Upsert(entries[e], tick.line)
        BY <3>1 DEF ApplyTick, TypeOK
      <4> QED BY <4>1, <3>1, <1>2, <2>1, UpsertCurrent
    <3>2. CASE tick.event # e
      BY <3>2 DEF ApplyTick, TypeOK
    <3> QED BY <3>1, <3>2
  <2>4. CASE Queued(e)
    <3>1. PICK i \in DOMAIN queue : queue[i] = [event |-> e, line |-> current[e]]
      BY <2>4 DEF Queued
    <3>2. CASE i # 1
      <4>1. Queued(e)'
        BY <1>1, <1>3, <3>1, <3>2 DEF Queued, feedVars
      <4> QED BY <4>1 DEF Caught
    <3>3. CASE i = 1
      <4>1. tick.event = e /\ tick.line = current[e]
        BY <1>2, <3>1, <3>3
      <4>2. entries'[e] = Upsert(entries[e], tick.line)
        BY <4>1 DEF ApplyTick, TypeOK
      <4>3. entries'[e] = AsEntry(current[e])
        BY <4>1, <4>2, <1>2, <2>1, UpsertCurrent
      <4> QED BY <4>3, <1>1 DEF Caught, feedVars, AsEntry
    <3> QED BY <3>2, <3>3
  <2>5. CASE ~Queued(e)
    BY <2>2, <2>3, <2>5, <1>1 DEF Caught, feedVars, hydrateVars, AsEntry
  <2> QED BY <2>4, <2>5
<1> QED BY <1>4, <1>5 DEF NothingEscapes

LEMMA HandleResolutionFresh ==
    ASSUME FreshInv, NEW e \in Events, HandleResolution(e)
    PROVE  CurrentIsNewest' /\ NothingEscapes'
<1> USE DEF FreshInv, Inv
<1>1. UNCHANGED <<history, current, pending, queue, hydrate, reply, up, clean>>
  BY DEF HandleResolution, hydrateVars
<1>2. \A f \in Events : outcome'[f] = "none" =>
          outcome[f] = "none" /\ entries'[f] = entries[f]
  BY DEF HandleResolution, TypeOK
<1>3. CurrentIsNewest'
  BY <1>1 DEF CurrentIsNewest
<1>4. NothingEscapes'
  BY <1>1, <1>2 DEF NothingEscapes, Quotable, Caught, Queued
<1> QED BY <1>3, <1>4

LEMMA ApplyHydrateFresh ==
    ASSUME FreshInv, ApplyHydrate PROVE CurrentIsNewest' /\ NothingEscapes'
<1> USE DEF FreshInv, Inv
<1>1. /\ UNCHANGED <<feedVars, queue, up, clean>> /\ hydrate = "answered"
      /\ \A e \in Events : entries'[e] = Hydrated(entries[e], reply[e])
  BY DEF ApplyHydrate
<1>2. CurrentIsNewest'
  BY <1>1 DEF CurrentIsNewest, feedVars
<1>3. ASSUME NEW e \in Events, Quotable(e)', (up /\ clean)'
      PROVE  Caught(e)'
  <2>1. Quotable(e) /\ up /\ clean
    BY <1>3, <1>1 DEF Quotable, feedVars
  <2>2. Caught(e)
    BY <2>1 DEF NothingEscapes
  <2>3. CASE reply[e] = None /\ entries[e] = AsEntry(current[e])
    BY <2>3, <1>1 DEF Hydrated, Caught, feedVars, AsEntry
  <2>4. CASE /\ reply[e] # None
             /\ \/ entries[e] = AsEntry(current[e])
                \/ reply[e] = AsEntry(current[e])
    <3> DEFINE odds == reply[e].odds
               at == reply[e].at
    <3>1. /\ odds \in Lines \union {NoMarket} /\ at \in Nat
          /\ ~reply[e].resolved /\ [odds |-> odds, at |-> at] \in history[e]
      BY <2>1, <2>4 DEF TypeOK, Entry, LinesArePosted, PostedLine, Quotable
    <3>2. entries[e] = AsEntry(current[e]) \/ [odds |-> odds, at |-> at] = current[e]
      <4>1. current[e] = [odds |-> current[e].odds, at |-> current[e].at]
        BY <2>1 DEF TypeOK, Line, Quotable
      <4> QED BY <4>1, <2>4 DEF AsEntry
    <3>3. reply[e].odds = odds /\ reply[e].at = at
      OBVIOUS
    <3>4. Upsert(entries[e], reply[e]) = AsEntry(current[e])
      <4> HIDE DEF odds, at
      <4> QED BY <2>1, <3>1, <3>2, <3>3, UpsertCurrent
    <3>5. entries'[e] = AsEntry(current[e])
      BY <1>1, <2>4, <3>1, <3>4 DEF Hydrated
    <3> QED BY <3>5, <1>1 DEF Caught, feedVars, AsEntry
  <2>5. CASE pending[e] # None \/ Queued(e)
    BY <2>5, <1>1 DEF Caught, Queued, feedVars
  <2>6. reply[e] = AsEntry(current[e]) => reply[e] # None
    <3>1. AsEntry(current[e]) \in Entry
      BY <2>1 DEF AsEntry, Entry, TypeOK, Line, Quotable
    <3> QED BY <3>1, NoneIsNeither
  <2> QED BY <2>2, <2>3, <2>4, <2>5, <2>6, <1>1 DEF Caught
<1> QED BY <1>2, <1>3 DEF NothingEscapes

LEMMA CoreFresh ==
    ASSUME FreshInv, Boot \/ FailHydrate \/ Retry \/ Crash
    PROVE  CurrentIsNewest' /\ NothingEscapes'
<1> USE DEF FreshInv, Inv
<1>1. UNCHANGED feedVars
  BY DEF Boot, FailHydrate, Retry, Crash
<1>2. CurrentIsNewest'
  BY <1>1 DEF CurrentIsNewest, feedVars
<1>3. CASE Boot
  BY <1>2, <1>3 DEF Boot, NothingEscapes, Caught
<1>4. CASE FailHydrate \/ Crash
  BY <1>2, <1>4 DEF FailHydrate, Crash, NothingEscapes
<1>5. CASE Retry
  <2>1. \A e \in Events : Quotable(e)' => Quotable(e)
    BY <1>1 DEF Quotable, feedVars
  <2>2. \A e \in Events : Caught(e) => Caught(e)'
    BY <1>1, <1>5 DEF Retry, Caught, Queued, AsEntry, feedVars
  <2> QED BY <1>2, <1>5, <2>1, <2>2 DEF Retry, NothingEscapes
<1> QED BY <1>2, <1>3, <1>4, <1>5

LEMMA InductiveFresh == FreshInv /\ [Next]_vars => FreshInv'
<1> SUFFICES ASSUME FreshInv, [Next]_vars PROVE FreshInv'
  OBVIOUS
<1>1. Inv'
  BY InductiveInv DEF FreshInv
<1>2. CASE Next
  BY <1>1, <1>2, RecordFresh, PublishTickFresh, FeedFresh, ApplyTickFresh,
     HandleResolutionFresh, ApplyHydrateFresh, CoreFresh
  DEF Next, FeedStep, FreshInv
<1>3. CASE UNCHANGED vars
  BY <1>1, <1>3
  DEF vars, feedVars, hydrateVars, FreshInv, CurrentIsNewest, NothingEscapes,
      Quotable, Caught, Queued
<1> QED BY <1>2, <1>3

\* Whatever overtakes whatever, once the boot hydrate is done and no tick is
\* under way, the cache holds the current line of every event it may quote.
THEOREM CacheCatchesUp == Spec => []CacheIsCurrent
<1>1. Init => FreshInv
  <2>1. Init => CurrentIsNewest /\ NothingEscapes
    BY DEF Init, CurrentIsNewest, NothingEscapes, Nothing, Quotable
  <2> QED BY <2>1, InitInv DEF FreshInv
<1>2. FreshInv /\ [Next]_vars => FreshInv'
  BY InductiveFresh
<1>3. FreshInv => CacheIsCurrent
  BY DEF FreshInv, CacheIsCurrent, NothingEscapes, Quotable, Caught, Queued, AsEntry
<1> QED BY <1>1, <1>2, <1>3, PTL DEF Spec

-----------------------------------------------------------------------------
(* The refinement                                                          *)

Concluded == {e \in Events : outcome[e] # "none"}

Shown(x) ==
    IF x = None THEN None
    ELSE IF x.resolved THEN Closed
    ELSE [odds |-> x.odds, at |-> x.at]

BookMap == [e \in Events |-> Shown(entries[e])]

\* The three ways an entry changes are the three ways a book's may.
LEMMA LearnStep ==
    ASSUME TypeOK, UNCHANGED history, Concluded' = Concluded,
           \A e \in Events :
               \/ entries'[e] = entries[e]
               \/ /\ entries'[e] # None /\ entries'[e].resolved
                  /\ outcome[e] # "none"
               \/ /\ entries'[e] # None /\ ~entries'[e].resolved
                  /\ PostedLine(e, entries'[e])
                  /\ entries[e] # None =>
                         ~entries[e].resolved /\ entries[e].at < entries'[e].at
    PROVE  Book!Learn
<1>1. ASSUME NEW e \in Events
      PROVE  \/ BookMap'[e] = BookMap[e]
             \/ /\ BookMap[e] # Closed
                /\ BookMap'[e] \in history[e]
                /\ BookMap[e] # None => BookMap[e].at < BookMap'[e].at
             \/ e \in Concluded /\ BookMap'[e] = Closed
  <2>1. BookMap[e] = Shown(entries[e]) /\ BookMap'[e] = Shown(entries'[e])
    BY DEF BookMap, Shown
  <2>2. CASE entries'[e] = entries[e]
    BY <2>1, <2>2
  <2>3. CASE entries'[e] # None /\ entries'[e].resolved /\ outcome[e] # "none"
    BY <2>1, <2>3 DEF Shown, Concluded
  <2>4. CASE /\ entries'[e] # None /\ ~entries'[e].resolved
             /\ PostedLine(e, entries'[e])
             /\ entries[e] # None =>
                    ~entries[e].resolved /\ entries[e].at < entries'[e].at
    <3>1. BookMap'[e] = [odds |-> entries'[e].odds, at |-> entries'[e].at]
      BY <2>1, <2>4 DEF Shown
    <3>2. BookMap'[e] \in history[e] /\ BookMap'[e].at = entries'[e].at
      BY <2>4, <3>1 DEF PostedLine
    <3>3. CASE entries[e] = None
      BY <2>1, <3>2, <3>3, NoneIsNeither DEF Shown
    <3>4. CASE entries[e] # None
      <4>1. BookMap[e] = [odds |-> entries[e].odds, at |-> entries[e].at]
        BY <2>1, <2>4, <3>4 DEF Shown
      <4>2. BookMap[e].at = entries[e].at /\ BookMap[e] # Closed
        <5>1. BookMap[e] \in Line
          BY <3>4, <4>1 DEF TypeOK, Entry, Line
        <5> QED BY <4>1, <5>1, NoneIsNeither
      <4> QED BY <4>2, <2>4, <3>2, <3>4
    <3> QED BY <3>3, <3>4
  <2> QED BY <2>2, <2>3, <2>4
<1>2. UNCHANGED <<history, Concluded>>
  OBVIOUS
<1> QED
  BY <1>1, <1>2
  DEF Book!Learn, Book!Advances, Book!Closes, BookMap, Shown, Concluded

LEMMA InitBook == Init => Book!Init
  BY DEF Init, Book!Init, Nothing

\* Steps that leave the feed's rows, the outcomes and the entries alone.
LEMMA HiddenStep ==
    ASSUME Inv,
           \/ Pass \/ ServeHydrate \/ Boot \/ FailHydrate \/ Retry
           \/ \E e \in Events : PublishTick(e) \/ DropTick(e) \/ PublishResult(e)
    PROVE  UNCHANGED Book!bookVars
<1>1. UNCHANGED <<history, entries>>
  BY DEF Pass, ServeHydrate, Boot, FailHydrate, Retry, PublishTick, DropTick,
         PublishResult, feedVars
<1>2. Concluded' = Concluded
  <2>1. CASE UNCHANGED outcome
    BY <2>1 DEF Concluded
  <2>2. ASSUME NEW e \in Events, PublishResult(e) PROVE Concluded' = Concluded
    <3>1. \A f \in Events : (outcome'[f] # "none") <=> (outcome[f] # "none")
      BY <2>2 DEF PublishResult, Inv, TypeOK
    <3> QED BY <3>1 DEF Concluded
  <2> QED
    BY <2>1, <2>2
    DEF Pass, ServeHydrate, Boot, FailHydrate, Retry, PublishTick, DropTick, feedVars
<1> QED BY <1>1, <1>2 DEF Book!bookVars, Concluded, BookMap, Shown

LEMMA RecordPosts ==
    ASSUME Inv, NEW e \in Events, Record(e) PROVE Book!Post
<1>1. PICK odds \in Lines \union {NoMarket} :
          history' = [history EXCEPT ![e] = @ \union {[odds |-> odds, at |-> now]}]
  BY DEF Record
<1> DEFINE line == [odds |-> odds, at |-> now]
<1>2. \A f \in Events \ {e} : history'[f] = history[f]
  BY <1>1 DEF Inv, TypeOK
<1>3. line \in history'[e] /\ history'[e] = history[e] \union {line}
  BY <1>1 DEF Inv, TypeOK
<1>4. \A old \in history[e] : old.at < line.at
  BY DEF Record
<1>5. UNCHANGED <<Concluded, BookMap>>
  BY DEF Record, Concluded, BookMap, Shown
<1> QED
  BY <1>2, <1>3, <1>4, <1>5 DEF Book!Post, Concluded, BookMap, Shown

LEMMA ResultConcludes ==
    ASSUME Inv, NEW e \in Events, RecordResult(e) PROVE Book!Conclude
<1>1. Concluded' = Concluded \union {e}
  <2>1. outcome' = [outcome EXCEPT ![e] = "recorded"]
    BY DEF RecordResult
  <2> QED BY <2>1 DEF Concluded, Inv, TypeOK
<1>2. UNCHANGED <<history, BookMap>>
  BY DEF RecordResult, BookMap, Shown
<1> QED BY <1>1, <1>2 DEF Book!Conclude, Concluded, BookMap, Shown

LEMMA TickLearns == ASSUME Inv, ApplyTick PROVE Book!Learn
<1> DEFINE tick == Head(queue)
           f == tick.event
           x == Upsert(entries[f], tick.line)
<1>1. tick \in Tick /\ tick.line \in history[f]
  BY DEF ApplyTick, Inv, TypeOK, LinesArePosted
<1>2. /\ f \in Events
      /\ tick.line = [odds |-> tick.line.odds, at |-> tick.line.at]
      /\ tick.line.odds \in Lines \union {NoMarket} /\ tick.line.at \in Nat
  BY <1>1 DEF Tick, Line
<1>3. entries' = [entries EXCEPT ![f] = x] /\ UNCHANGED <<history, outcome>>
  BY DEF ApplyTick, feedVars
<1>4. /\ x \in Entry
      /\ \/ x = entries[f]
         \/ /\ x = [odds |-> tick.line.odds, at |-> tick.line.at, resolved |-> FALSE]
            /\ entries[f] # None => ~entries[f].resolved /\ entries[f].at < tick.line.at
  <2>1. entries[f] \in AnEntry
    BY <1>2 DEF AnEntry, Inv, TypeOK
  <2> QED BY <1>2, <2>1, UpsertType
<1>5. ASSUME NEW e \in Events
      PROVE  \/ entries'[e] = entries[e]
             \/ /\ entries'[e] # None /\ ~entries'[e].resolved
                /\ PostedLine(e, entries'[e])
                /\ entries[e] # None =>
                       ~entries[e].resolved /\ entries[e].at < entries'[e].at
  <2>1. CASE e = f /\ x # entries[f]
    <3>1. entries'[e] = x
      BY <1>3, <2>1 DEF Inv, TypeOK
    <3> QED BY <3>1, <2>1, <1>1, <1>2, <1>4, NoneIsNeither DEF PostedLine
  <2>2. CASE e # f \/ x = entries[f]
    BY <2>2, <1>3 DEF Inv, TypeOK
  <2> QED BY <2>1, <2>2
<1>6. Concluded' = Concluded
  BY <1>3 DEF Concluded
<1> QED BY <1>3, <1>5, <1>6, LearnStep DEF Inv

LEMMA ResolutionLearns ==
    ASSUME Inv, NEW e \in Events, HandleResolution(e) PROVE Book!Learn
<1>1. Concluded' = Concluded /\ e \in Concluded
  <2>1. \A f \in Events : (outcome'[f] # "none") <=> (outcome[f] # "none")
    <3>1. outcome' = outcome \/ outcome' = [outcome EXCEPT ![e] = "acked"]
      BY DEF HandleResolution
    <3>2. outcome[e] = "queued" /\ outcome \in [Events -> {"none", "recorded", "queued", "acked"}]
      BY DEF HandleResolution, Inv, TypeOK
    <3> QED BY <3>1, <3>2
  <2> QED BY <2>1 DEF Concluded, HandleResolution
<1>2. ASSUME NEW f \in Events
      PROVE  \/ entries'[f] = entries[f]
             \/ /\ entries'[f] # None /\ entries'[f].resolved
                /\ outcome[f] # "none"
  <2>1. CASE f # e
    BY <2>1 DEF HandleResolution, Inv, TypeOK
  <2>2. CASE f = e /\ entries[e] = None
    BY <2>2 DEF HandleResolution, Inv, TypeOK
  <2>3. CASE f = e /\ entries[e] # None
    <3>1. entries'[f] = [entries[e] EXCEPT !.resolved = TRUE] /\ entries[e] \in Entry
      BY <2>3 DEF HandleResolution, Inv, TypeOK
    <3>2. entries'[f] \in Entry /\ entries'[f].resolved
      BY <3>1 DEF Entry
    <3> QED BY <3>2, <2>3, NoneIsNeither DEF HandleResolution
  <2> QED BY <2>1, <2>2, <2>3
<1>3. UNCHANGED history
  BY DEF HandleResolution
<1> QED BY <1>1, <1>2, <1>3, LearnStep DEF Inv

LEMMA HydrateLearns == ASSUME Inv, ApplyHydrate PROVE Book!Learn
<1>1. UNCHANGED <<history, outcome>>
      /\ \A e \in Events : entries'[e] = Hydrated(entries[e], reply[e])
  BY DEF ApplyHydrate, feedVars
<1>2. Concluded' = Concluded
  BY <1>1 DEF Concluded
<1>3. \A e \in Events :
          \/ entries'[e] = entries[e]
          \/ entries'[e] # None /\ entries'[e].resolved /\ outcome[e] # "none"
          \/ /\ entries'[e] # None /\ ~entries'[e].resolved
             /\ PostedLine(e, entries'[e])
             /\ entries[e] # None =>
                    ~entries[e].resolved /\ entries[e].at < entries'[e].at
  BY <1>1, HydratedEntry
<1> QED BY <1>1, <1>2, <1>3, LearnStep DEF Inv

LEMMA CrashForgets == ASSUME Crash PROVE Book!Forget
<1>1. UNCHANGED <<history, outcome>> /\ entries' = Nothing
  BY DEF Crash, feedVars
<1> QED BY <1>1 DEF Book!Forget, Nothing

LEMMA BookStep == Inv /\ [Next]_vars => [Book!Next]_(Book!bookVars)
<1> SUFFICES ASSUME Inv, [Next]_vars PROVE [Book!Next]_(Book!bookVars)
  OBVIOUS
<1>1. CASE UNCHANGED vars
  BY <1>1 DEF vars, feedVars, Book!bookVars
<1>2. CASE Next
  <2>1. ASSUME NEW e \in Events, Record(e) PROVE Book!Next
    BY <2>1, RecordPosts DEF Book!Next
  <2>2. ASSUME NEW e \in Events, RecordResult(e) PROVE Book!Next
    BY <2>2, ResultConcludes DEF Book!Next
  <2>3. ASSUME NEW e \in Events, HandleResolution(e) PROVE Book!Next
    BY <2>3, ResolutionLearns DEF Book!Next
  <2>4. CASE ApplyTick
    BY <2>4, TickLearns DEF Book!Next
  <2>5. CASE ApplyHydrate
    BY <2>5, HydrateLearns DEF Book!Next
  <2>6. CASE Crash
    BY <2>6, CrashForgets DEF Book!Next
  <2>7. CASE \/ Pass \/ ServeHydrate \/ Boot \/ FailHydrate \/ Retry
             \/ \E e \in Events : PublishTick(e) \/ DropTick(e) \/ PublishResult(e)
    BY <2>7, HiddenStep
  <2> QED
    BY <1>2, <2>1, <2>2, <2>3, <2>4, <2>5, <2>6, <2>7 DEF Next, FeedStep
<1> QED BY <1>1, <1>2

\* The cache implements PriceBook: whatever overtakes whatever, it only ever
\* moves forward through lines the feed posted, and closes for good.
THEOREM CacheKeepsBook == Spec => KeepsBook
<1>1. Init => Book!Init
  BY InitBook
<1>2. Inv /\ [Next]_vars => [Book!Next]_(Book!bookVars)
  BY BookStep
<1> QED BY <1>1, <1>2, CacheInvariance, PTL DEF Spec, KeepsBook, Book!Spec
=============================================================================
