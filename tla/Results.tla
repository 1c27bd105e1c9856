------------------------------- MODULE Results -------------------------------
(***************************************************************************)
(* How the odds service learns that an event is over and tells core: one   *)
(* poll loop per provider (RunnerService.run), which records the lines the *)
(* provider quotes, asks it about the events that have kicked off and have *)
(* no outcome, records each outcome and then publishes it on               *)
(* events.resolved; and the admin's resolution of mock events.             *)
(*                                                                         *)
(* Recording and publishing are two steps, and an event that has an        *)
(* outcome is never polled again.                                          *)
(*                                                                         *)
(* The unit of time is long against the poll interval: the clock moves on  *)
(* when each loop has finished a tick (Pass).  It is bounded by MaxTime.   *)
(* Faults of the kinds in FaultKinds happen at most MaxFaults times:       *)
(*   crash   the process dies and is restarted                             *)
(*   tick    a tick throws: a query, a request, a publish                  *)
(*   broker  a message written to a connection that dies is lost; there    *)
(*           are no publisher confirms                                     *)
(* A definition Name_Variant is Name with one mistake, see README.md.      *)
(***************************************************************************)
EXTENDS Integers, Sequences, FiniteSets

CONSTANTS
    Events, Providers,
    Origin,         \* Origin[e]: the provider of e
    Kickoff,        \* Kickoff[e]: when it starts
    Finish,         \* Finish[e]: when its result is final
    Final,          \* Final[e]: the result, None for one called off
    Mock,           \* the provider that polls no results
    SendKickoff,    \* providers whose events carry a commenceTime
    Requests,       \* POST odds/events/:eventId/result of admins
    Outcomes,
    Grace, Lookback, MaxPending,    \* RESULTS_*
    MaxTime, FaultKinds, MaxFaults,
    None

ASSUME ResultsAssumption ==
    /\ Origin \in [Events -> Providers]
    /\ Kickoff \in [Events -> Nat] /\ Finish \in [Events -> Nat]
    /\ Final \in [Events -> Outcomes \union {None}]
    /\ Mock \in Providers
    /\ SendKickoff \subseteq Providers
    /\ Grace \in Nat /\ Lookback \in Nat /\ MaxPending \in Nat \ {0}
    /\ MaxTime \in Nat /\ MaxFaults \in Nat
    /\ None \notin Outcomes /\ None \notin Events /\ None \notin Nat
    /\ None \notin [kickoff : Nat \union {None}, outcome : Outcomes \union {None}]

VARIABLES
    now,
    ticked,     \* providers whose loop finished a tick since the clock moved
    row,        \* row[e]: e in odds_current, None when it is not there
    step,       \* step[p]: where the loop of p is
    pending,    \* pending[p]: events it still asks p about
    result,     \* result[p]: the event whose result it is handling
    astep,      \* astep[a]: where the admin's request is
    asked,      \* asked[a]: the event and outcome of it
    published,  \* messages on events.resolved, in order
    faults

loopVars == <<step, pending, result>>
adminVars == <<astep, asked>>
vars == <<now, ticked, row, loopVars, adminVars, published, faults>>

Message == [event : Events, outcome : Outcomes]

TypeOK ==
    /\ now \in 0..MaxTime
    /\ ticked \subseteq Providers
    /\ row \in [Events -> [kickoff : Nat \union {None},
                           outcome : Outcomes \union {None}] \union {None}]
    /\ step \in [Providers -> {"asleep", "ticking", "polling", "recording", "publishing"}]
    /\ pending \in [Providers -> SUBSET Events]
    /\ result \in [Providers -> Events \union {None}]
    /\ astep \in [Requests -> {"idle", "recording", "publishing", "done", "lost"}]
    /\ asked \in [Requests -> Message \union {None}]
    /\ published \in Seq(Message)
    /\ faults \in 0..MaxFaults

Init ==
    /\ now = 0
    /\ ticked = {}
    /\ row = [e \in Events |-> None]
    /\ step = [p \in Providers |-> "ticking"]
    /\ pending = [p \in Providers |-> {}]
    /\ result = [p \in Providers |-> None]
    /\ astep = [a \in Requests |-> "idle"]
    /\ asked = [a \in Requests |-> None]
    /\ published = <<>>
    /\ faults = 0

Fault(kind) ==
    /\ kind \in FaultKinds
    /\ faults < MaxFaults
    /\ faults' = faults + 1

Pass ==
    /\ now < MaxTime
    /\ ticked = Providers
    /\ now' = now + 1
    /\ ticked' = {}
    /\ UNCHANGED <<row, loopVars, adminVars, published, faults>>

-----------------------------------------------------------------------------
(* The poll loop                                                           *)

StepsTo(p, s) == step' = [step EXCEPT ![p] = s]

Recorded(e) == row[e] # None /\ row[e].outcome # None

\* A result is recorded by a statement that inserts a bare row if there is none.
WithOutcome(r, o) ==
    IF r = None THEN [kickoff |-> None, outcome |-> o] ELSE [r EXCEPT !.outcome = o]

\* The upsert refreshes every column.
RecordLine_Reopens(p, e) ==
    /\ step[p] = "ticking"
    /\ Origin[e] = p
    /\ p = Mock \/ now < Finish[e]
    /\ row' = [row EXCEPT ![e] =
           [kickoff |-> IF p \in SendKickoff THEN Kickoff[e] ELSE None,
            outcome |-> None]]
    /\ UNCHANGED <<now, ticked, loopVars, adminVars, published, faults>>

\* One event of fetchTick.  A provider quotes any of its events until they are
\* over, the mock for ever; a tick refreshes the columns of the row, but never its outcome.
RecordLine(p, e) ==
    /\ step[p] = "ticking"
    /\ Origin[e] = p
    /\ p = Mock \/ now < Finish[e]
    /\ row' = [row EXCEPT ![e] =
           [kickoff |-> IF p \in SendKickoff THEN Kickoff[e] ELSE None,
            outcome |-> IF @ = None THEN None ELSE @.outcome]]
    /\ UNCHANGED <<now, ticked, loopVars, adminVars, published, faults>>

\* Forgetting to ask for an outcome that is null.
Unresolved_All(p) ==
    {e \in Events :
        /\ Origin[e] = p
        /\ row[e] # None /\ row[e].kickoff # None
        /\ now - Lookback < row[e].kickoff /\ row[e].kickoff < now - Grace}

\* The rows listUnresolved selects from: a null kickoff is in no range.
Unresolved(p) ==
    {e \in Events :
        /\ Origin[e] = p
        /\ row[e] # None /\ row[e].outcome = None /\ row[e].kickoff # None
        /\ now - Lookback < row[e].kickoff /\ row[e].kickoff < now - Grace}

\* The MaxPending oldest of them.
Oldest(es) ==
    {s \in SUBSET es :
        /\ IF Cardinality(es) <= MaxPending THEN s = es ELSE Cardinality(s) = MaxPending
        /\ \A e \in s, f \in es \ s : row[e].kickoff <= row[f].kickoff}

ListPending(p) ==
    /\ step[p] = "ticking"
    /\ pending' \in {[pending EXCEPT ![p] = s] :
           s \in IF p = Mock THEN {{}} ELSE Oldest(Unresolved(p))}
    /\ StepsTo(p, "polling")
    /\ UNCHANGED <<now, ticked, row, result, adminVars, published, faults>>

HasResult(e) == now >= Finish[e] /\ Final[e] # None

\* One result of the provider's answer.  It answers with an event at most once:
\* the ids it is asked for are all different, and so are the fixtures it returns.
FetchResult(p, e) ==
    /\ step[p] = "polling"
    /\ e \in pending[p]
    /\ HasResult(e)
    /\ pending' = [pending EXCEPT ![p] = @ \ {e}]
    /\ result' = [result EXCEPT ![p] = e]
    /\ StepsTo(p, "recording")
    /\ UNCHANGED <<now, ticked, row, adminVars, published, faults>>

\* The result is only recorded.
RecordResult_Silently(p) ==
    /\ step[p] = "recording"
    /\ row' = [row EXCEPT ![result[p]] = WithOutcome(@, Final[result[p]])]
    /\ result' = [result EXCEPT ![p] = None]
    /\ StepsTo(p, "polling")
    /\ UNCHANGED <<now, ticked, pending, adminVars, published, faults>>

RecordResult(p) ==
    /\ step[p] = "recording"
    /\ row' = [row EXCEPT ![result[p]] = WithOutcome(@, Final[result[p]])]
    /\ StepsTo(p, "publishing")
    /\ UNCHANGED <<now, ticked, pending, result, adminVars, published, faults>>

\* publishResult waits for a channel; what it writes may be lost with it.
PublishResult(p) ==
    /\ step[p] = "publishing"
    /\ \/ /\ published' = Append(published,
                 [event |-> result[p], outcome |-> Final[result[p]]])
          /\ UNCHANGED faults
       \/ Fault("broker") /\ UNCHANGED published
    /\ result' = [result EXCEPT ![p] = None]
    /\ StepsTo(p, "polling")
    /\ UNCHANGED <<now, ticked, row, pending, adminVars>>

EndTick(p) ==
    /\ step[p] = "polling"
    /\ \A e \in pending[p] : ~HasResult(e)
    /\ pending' = [pending EXCEPT ![p] = {}]
    /\ StepsTo(p, "asleep")
    /\ ticked' = ticked \union {p}
    /\ UNCHANGED <<now, row, result, adminVars, published, faults>>

Wake(p) ==
    /\ step[p] = "asleep"
    /\ StepsTo(p, "ticking")
    /\ UNCHANGED <<now, ticked, row, pending, result, adminVars, published, faults>>

\* The handler of exceptions is around the loop.
TickThrows_EndsLoop(p) ==
    /\ Fault("tick")
    /\ step[p] # "asleep"
    /\ StepsTo(p, "stopped")
    /\ pending' = [pending EXCEPT ![p] = {}]
    /\ result' = [result EXCEPT ![p] = None]
    /\ UNCHANGED <<now, ticked, row, adminVars, published>>

\* An exception ends the tick, not the loop.
TickThrows(p) ==
    /\ Fault("tick")
    /\ step[p] # "asleep"
    /\ StepsTo(p, "asleep")
    /\ pending' = [pending EXCEPT ![p] = {}]
    /\ result' = [result EXCEPT ![p] = None]
    /\ UNCHANGED <<now, ticked, row, adminVars, published>>

-----------------------------------------------------------------------------
(* OddsController.resolveEvent                                             *)

\* 404 and 409 change nothing and are left out.
AskToResolve(a, e, o) ==
    /\ astep[a] = "idle"
    /\ row[e] # None /\ Origin[e] = Mock
    /\ asked' = [asked EXCEPT ![a] = [event |-> e, outcome |-> o]]
    /\ astep' = [astep EXCEPT ![a] = "recording"]
    /\ UNCHANGED <<now, ticked, row, loopVars, published, faults>>

AdminRecords(a) ==
    /\ astep[a] = "recording"
    /\ row' = [row EXCEPT ![asked[a].event] = WithOutcome(@, asked[a].outcome)]
    /\ astep' = [astep EXCEPT ![a] = "publishing"]
    /\ UNCHANGED <<now, ticked, loopVars, asked, published, faults>>

AdminPublishes(a) ==
    /\ astep[a] = "publishing"
    /\ \/ published' = Append(published, asked[a]) /\ UNCHANGED faults
       \/ Fault("broker") /\ UNCHANGED published
    /\ astep' = [astep EXCEPT ![a] = "done"]
    /\ UNCHANGED <<now, ticked, row, loopVars, asked>>

-----------------------------------------------------------------------------

Crash ==
    /\ Fault("crash")
    /\ step' = [p \in Providers |-> "ticking"]
    /\ pending' = [p \in Providers |-> {}]
    /\ result' = [p \in Providers |-> None]
    /\ astep' = [a \in Requests |->
           IF astep[a] \in {"recording", "publishing"} THEN "lost" ELSE astep[a]]
    /\ UNCHANGED <<now, ticked, row, asked, published>>

LoopStep(p) ==
    \/ ListPending(p) \/ RecordResult(p) \/ PublishResult(p) \/ EndTick(p) \/ Wake(p)
    \/ \E e \in Events : FetchResult(p, e)

AdminStep(a) == AdminRecords(a) \/ AdminPublishes(a)

Next ==
    \/ Pass
    \/ \E p \in Providers :
           \/ \E e \in Events : RecordLine(p, e)
           \/ LoopStep(p)
           \/ TickThrows(p)
    \/ \E a \in Requests :
           \/ \E e \in Events, o \in Outcomes : AskToResolve(a, e, o)
           \/ AdminStep(a)
    \/ Crash

Spec == Init /\ [][Next]_vars

\* Time passes, the loops go on, and requests that were begun are finished.
\* No provider has to quote an event.
Fairness ==
    /\ WF_vars(Pass)
    /\ \A p \in Providers : WF_vars(LoopStep(p))
    /\ \A a \in Requests : WF_vars(AdminStep(a))

FairSpec == Spec /\ Fairness

-----------------------------------------------------------------------------
(* Properties                                                              *)

Polled(e) == Origin[e] # Mock

\* A provider's event is settled once, if no answer has it twice (FetchResult):
\* whatever fails and whenever the process restarts, at most one resolution of it is published, and it carries the
\* result the provider reports and the row has.
PolledOnce ==
    /\ \A i, j \in DOMAIN published :
           published[i].event = published[j].event /\ Polled(published[i].event) => i = j
    /\ \A i \in DOMAIN published :
           Polled(published[i].event) =>
               /\ published[i].outcome = Final[published[i].event]
               /\ row[published[i].event].outcome = Final[published[i].event]

\* "a fresh tick must never un-resolve an event" (CURRENT_UPDATE_COLS): what core
\* was told is over is over for those who read the odds.
PublishedStaysResolved == \A i \in DOMAIN published : Recorded(published[i].event)

\* No outcome is recorded without core hearing of it, while nothing fails.
Announced(e) ==
    \/ \E i \in DOMAIN published : published[i].event = e
    \/ \E p \in Providers : step[p] = "publishing" /\ result[p] = e
    \/ \E a \in Requests : astep[a] = "publishing" /\ asked[a].event = e

OutcomesAreAnnounced == faults = 0 => \A e \in Events : Recorded(e) => Announced(e)

\* An event of a provider that sends kickoffs gets its result, though ticks
\* throw and the process restarts, unless events that were called off fill
\* the batch.
CalledOff(p) == {e \in Events : Origin[e] = p /\ Final[e] = None}

PolledEventsGetResults ==
    \A e \in Events :
        (/\ Polled(e) /\ Origin[e] \in SendKickoff /\ Final[e] # None
         /\ Cardinality(CalledOff(Origin[e])) < MaxPending
         /\ row[e] # None)
            ~> Recorded(e)

=============================================================================
