---------------------------- MODULE ResultsProofs ----------------------------
(***************************************************************************)
(* For any events, providers, windows, batches and faults: a polled event  *)
(* is resolved at most once and with its provider's result, what was       *)
(* published stays recorded, and what is recorded without faults is or     *)
(* will be published.                                                      *)
(*                                                                         *)
(* The events a loop still asks about have no outcome, the one it handles  *)
(* is out of that list and has not been published (Loop), and no two loops *)
(* handle the same event, since each keeps to its own provider's.  An      *)
(* admin only touches mock events (Admin).                                 *)
(***************************************************************************)
EXTENDS Results, SequenceTheorems, TLAPS

Row == [kickoff : Nat \union {None}, outcome : Outcomes \union {None}]

Told(e) == \E i \in DOMAIN published : published[i].event = e

Loop(p) ==
    /\ \A e \in pending[p] :
           Origin[e] = p /\ p # Mock /\ row[e] # None /\ row[e].outcome = None
    /\ step[p] \in {"recording", "publishing"} =>
           /\ result[p] \in Events /\ result[p] \notin pending[p]
           /\ Origin[result[p]] = p /\ p # Mock
           /\ Final[result[p]] # None
           /\ row[result[p]] # None
           /\ ~Told(result[p])
    /\ step[p] = "recording" => row[result[p]].outcome = None
    /\ step[p] = "publishing" => row[result[p]].outcome = Final[result[p]]

Admin(a) ==
    /\ astep[a] \in {"recording", "publishing"} =>
           /\ asked[a] \in Message
           /\ Origin[asked[a].event] = Mock
    /\ astep[a] = "publishing" => Recorded(asked[a].event)

IInv ==
    /\ TypeOK
    /\ PolledOnce
    /\ PublishedStaysResolved
    /\ OutcomesAreAnnounced
    /\ \A p \in Providers : Loop(p)
    /\ \A a \in Requests : Admin(a)

\* A published message goes to the end; what was there stays where it was.
LEMMA Publishing ==
    ASSUME published \in Seq(Message), NEW m \in Message,
           published' = Append(published, m)
    PROVE  /\ published' \in Seq(Message)
           /\ DOMAIN published' = DOMAIN published \union {Len(published) + 1}
           /\ Len(published) + 1 \notin DOMAIN published
           /\ \A i \in DOMAIN published : published'[i] = published[i]
           /\ published'[Len(published) + 1] = m
  BY AppendProperties, LenProperties

LEMMA Messages == TypeOK => \A i \in DOMAIN published : published[i] \in Message
<1> SUFFICES ASSUME TypeOK, NEW i \in DOMAIN published PROVE published[i] \in Message
  OBVIOUS
<1>1. published \in Seq(Message)
  BY DEF TypeOK
<1> QED BY <1>1, ElementOfSeq, LenProperties

\* A row that gets an outcome is a row, and keeps its kickoff.
LEMMA WithOutcomeRow ==
    ASSUME NEW r \in Row \union {None}, NEW o \in Outcomes
    PROVE  WithOutcome(r, o) \in Row /\ WithOutcome(r, o) # None
           /\ WithOutcome(r, o).outcome = o
  BY ResultsAssumption DEF WithOutcome, Row

LEMMA InitIInv == Init => IInv
<1> SUFFICES ASSUME Init PROVE IInv
  OBVIOUS
<1>1. TypeOK
  BY ResultsAssumption DEF Init, TypeOK
<1>2. PolledOnce /\ PublishedStaysResolved /\ OutcomesAreAnnounced
  BY DEF Init, PolledOnce, PublishedStaysResolved, OutcomesAreAnnounced, Recorded
<1>3. (\A p \in Providers : Loop(p)) /\ (\A a \in Requests : Admin(a))
  BY DEF Init, Loop, Admin
<1> QED BY <1>1, <1>2, <1>3 DEF IInv

\* Steps that leave the rows, the messages, the loops and the admins alone.
LEMMA PassKeeps == ASSUME IInv, Pass PROVE IInv'
<1> USE DEF IInv, loopVars, adminVars
<1>1. TypeOK'
  BY ResultsAssumption DEF Pass, TypeOK
<1>2. PolledOnce' /\ PublishedStaysResolved' /\ OutcomesAreAnnounced'
  BY DEF Pass, PolledOnce, PublishedStaysResolved, OutcomesAreAnnounced, Recorded, Announced
<1>3. (\A p \in Providers : Loop(p)') /\ (\A a \in Requests : Admin(a)')
  BY DEF Pass, Loop, Told, Admin, Recorded
<1> QED BY <1>1, <1>2, <1>3

LEMMA RecordLineKeeps ==
    ASSUME IInv, NEW p \in Providers, NEW e \in Events, RecordLine(p, e) PROVE IInv'
<1> USE ResultsAssumption DEF IInv, loopVars, adminVars
<1>1. /\ row' \in [Events -> Row \union {None}]
      /\ \A f \in Events : row[f] # None => row'[f] # None /\ row'[f].outcome = row[f].outcome
      /\ \A f \in Events : Recorded(f)' <=> Recorded(f)
  <2> DEFINE r == [kickoff |-> IF p \in SendKickoff THEN Kickoff[e] ELSE None,
                   outcome |-> IF row[e] = None THEN None ELSE row[e].outcome]
  <2>1. row' = [row EXCEPT ![e] = r] /\ row \in [Events -> Row \union {None}]
    BY DEF RecordLine, TypeOK, Row
  <2>2. row[e] # None => row[e].outcome \in Outcomes \union {None}
    BY <2>1 DEF Row
  <2>3. r \in Row /\ r.outcome = (IF row[e] = None THEN None ELSE row[e].outcome)
    BY <2>2 DEF Row
  <2>4. r # None
    BY <2>3 DEF Row
  <2> HIDE DEF r
  <2>5. row'[e] = r /\ \A f \in Events \ {e} : row'[f] = row[f]
    BY <2>1
  <2> QED BY <2>1, <2>3, <2>4, <2>5 DEF Recorded
<1>2. TypeOK'
  BY <1>1 DEF RecordLine, TypeOK, Row
<1>3. \A i \in DOMAIN published : published[i].event \in Events
  BY Messages DEF Message
<1>4. PolledOnce' /\ PublishedStaysResolved' /\ OutcomesAreAnnounced'
  <2>1. PolledOnce'
    BY <1>1, <1>3 DEF RecordLine, PolledOnce, Polled, PublishedStaysResolved, Recorded
  <2>2. PublishedStaysResolved' /\ OutcomesAreAnnounced'
    BY <1>1, <1>3 DEF RecordLine, PublishedStaysResolved, OutcomesAreAnnounced, Announced
  <2> QED BY <2>1, <2>2
<1>5. ASSUME NEW q \in Providers PROVE Loop(q)'
  <2>1. pending[q] \subseteq Events
    BY DEF TypeOK
  <2> QED BY <1>1, <2>1 DEF RecordLine, Loop, Told
<1>6. ASSUME NEW a \in Requests PROVE Admin(a)'
  BY <1>1 DEF RecordLine, Admin, Message
<1> QED BY <1>2, <1>4, <1>5, <1>6

LEMMA ListPendingKeeps ==
    ASSUME IInv, NEW p \in Providers, ListPending(p) PROVE IInv'
<1> USE DEF IInv, adminVars
<1>1. PICK s : /\ s \in IF p = Mock THEN {{}} ELSE Oldest(Unresolved(p))
               /\ pending' = [pending EXCEPT ![p] = s]
  BY DEF ListPending
<1>2. s \subseteq Unresolved(p) /\ (p = Mock => s = {})
  BY <1>1 DEF Oldest
<1>3. s \subseteq Events
  BY <1>2 DEF Unresolved
<1>4. TypeOK'
  BY <1>1, <1>3 DEF ListPending, StepsTo, TypeOK
<1>5. PolledOnce' /\ PublishedStaysResolved' /\ OutcomesAreAnnounced'
  BY DEF ListPending, StepsTo, TypeOK, PolledOnce, PublishedStaysResolved,
         OutcomesAreAnnounced, Recorded, Announced
<1>6. ASSUME NEW q \in Providers PROVE Loop(q)'
  BY <1>1, <1>2 DEF ListPending, StepsTo, TypeOK, Loop, Told, Unresolved
<1>7. ASSUME NEW a \in Requests PROVE Admin(a)'
  BY DEF ListPending, Admin, Recorded
<1> QED BY <1>4, <1>5, <1>6, <1>7

LEMMA FetchResultKeeps ==
    ASSUME IInv, NEW p \in Providers, NEW e \in Events, FetchResult(p, e) PROVE IInv'
<1> USE DEF IInv, adminVars
<1>1. TypeOK'
  BY DEF FetchResult, StepsTo, TypeOK
<1>2. PolledOnce' /\ PublishedStaysResolved' /\ OutcomesAreAnnounced'
  BY DEF FetchResult, StepsTo, TypeOK, PolledOnce, PublishedStaysResolved,
         OutcomesAreAnnounced, Recorded, Announced
<1>3. ~Told(e)
  BY DEF FetchResult, Loop, Told, PublishedStaysResolved, Recorded
<1>4. ASSUME NEW q \in Providers PROVE Loop(q)'
  BY <1>3 DEF FetchResult, StepsTo, TypeOK, Loop, Told, HasResult
<1>5. ASSUME NEW a \in Requests PROVE Admin(a)'
  BY DEF FetchResult, Admin, Recorded
<1> QED BY <1>1, <1>2, <1>4, <1>5

LEMMA RecordResultKeeps ==
    ASSUME IInv, NEW p \in Providers, RecordResult(p) PROVE IInv'
<1> USE ResultsAssumption DEF IInv, adminVars
<1> DEFINE e == result[p]
<1>1. /\ e \in Events /\ Final[e] \in Outcomes /\ Origin[e] = p /\ p # Mock
      /\ ~Told(e) /\ e \notin pending[p] /\ step[p] = "recording"
  BY DEF RecordResult, Loop
<1>2. /\ row' = [row EXCEPT ![e] = WithOutcome(row[e], Final[e])]
      /\ row \in [Events -> Row \union {None}]
  BY DEF RecordResult, TypeOK, Row
<1>3. row'[e] \in Row /\ row'[e] # None /\ row'[e].outcome = Final[e]
  BY <1>1, <1>2, WithOutcomeRow
<1>4. \A f \in Events \ {e} : row'[f] = row[f]
  BY <1>1, <1>2
<1>5. TypeOK'
  BY <1>2, <1>3 DEF RecordResult, StepsTo, TypeOK, Row
<1>6. \A i \in DOMAIN published : published[i].event \in Events \ {e}
  BY <1>1, Messages DEF Message, Told
<1>7. PolledOnce' /\ PublishedStaysResolved'
  BY <1>4, <1>6 DEF RecordResult, PolledOnce, Polled, PublishedStaysResolved, Recorded
<1>8. OutcomesAreAnnounced'
  <2>1. Announced(e)'
    BY <1>1 DEF RecordResult, StepsTo, TypeOK, Announced
  <2>2. ASSUME NEW f \in Events \ {e}, Announced(f) PROVE Announced(f)'
    BY <2>2, <1>1 DEF RecordResult, StepsTo, TypeOK, Announced
  <2> QED BY <1>4, <2>1, <2>2 DEF RecordResult, OutcomesAreAnnounced, Recorded
<1>9. ASSUME NEW q \in Providers PROVE Loop(q)'
  <2>1. CASE q = p
    <3>1. step'[p] = "publishing" /\ result' = result /\ pending' = pending
      BY DEF RecordResult, StepsTo, TypeOK
    <3>2. Told(e)' <=> Told(e)
      BY DEF RecordResult, Told
    <3>3. \A f \in pending[p] : f \in Events \ {e}
      BY <1>1 DEF TypeOK
    <3> QED BY <2>1, <1>1, <1>3, <1>4, <3>1, <3>2, <3>3 DEF Loop
  <2>2. CASE q # p
    <3>1. step'[q] = step[q] /\ result' = result /\ pending' = pending
      BY <2>2 DEF RecordResult, StepsTo, TypeOK
    <3>2. \A f \in Events : Told(f)' <=> Told(f)
      BY DEF RecordResult, Told
    <3>3. \A f \in pending[q] : f \in Events \ {e}
      BY <1>1, <2>2 DEF TypeOK, Loop
    <3>4. step[q] \in {"recording", "publishing"} => result[q] \in Events \ {e}
      BY <1>1, <2>2 DEF Loop
    <3> QED BY <1>4, <3>1, <3>2, <3>3, <3>4 DEF Loop
  <2> QED BY <2>1, <2>2
<1>10. ASSUME NEW a \in Requests PROVE Admin(a)'
  BY <1>1, <1>4 DEF RecordResult, Admin, Recorded, Message
<1> QED BY <1>5, <1>7, <1>8, <1>9, <1>10

LEMMA PublishResultKeeps ==
    ASSUME IInv, NEW p \in Providers, PublishResult(p) PROVE IInv'
<1> USE ResultsAssumption DEF IInv, adminVars
<1> DEFINE e == result[p]
           m == [event |-> e, outcome |-> Final[e]]
<1>1. /\ e \in Events /\ Final[e] \in Outcomes /\ Origin[e] = p /\ p # Mock
      /\ ~Told(e) /\ row[e] # None /\ row[e].outcome = Final[e]
  BY DEF PublishResult, Loop
<1>2. m \in Message /\ m.event = e /\ m.outcome = Final[e]
  BY <1>1 DEF Message
<1>3. /\ step'[p] = "polling" /\ result' = [result EXCEPT ![p] = None]
      /\ row' = row /\ pending' = pending
      /\ \A q \in Providers \ {p} : step'[q] = step[q] /\ result'[q] = result[q]
  BY DEF PublishResult, StepsTo, TypeOK
<1>4. step' \in [Providers -> {"asleep", "ticking", "polling", "recording", "publishing"}]
  BY DEF PublishResult, StepsTo, TypeOK
<1>5. faults' \in 0..MaxFaults
  BY DEF PublishResult, Fault, TypeOK
<1>6. ASSUME NEW a \in Requests PROVE Admin(a)'
  BY DEF PublishResult, Admin, Recorded
<1>7. CASE published' = Append(published, m) /\ UNCHANGED faults
  <2>1. published \in Seq(Message)
    BY DEF TypeOK
  <2> DEFINE n == Len(published) + 1
  <2>2. /\ published' \in Seq(Message)
        /\ DOMAIN published' = DOMAIN published \union {n}
        /\ n \notin DOMAIN published
        /\ \A i \in DOMAIN published : published'[i] = published[i]
        /\ published'[n] = m
    BY <1>2, <1>7, <2>1, Publishing
  <2> HIDE DEF n, m, e
  <2>3. TypeOK'
    BY <1>3, <1>4, <1>5, <2>2 DEF PublishResult, TypeOK
  <2>4. PolledOnce'
    <3>1. \A i \in DOMAIN published : published[i].event # e
      BY <1>1 DEF Told
    <3>2. \A i, j \in DOMAIN published' :
              published'[i].event = published'[j].event /\ Polled(published'[i].event)
                  => i = j
      BY <1>2, <2>2, <3>1 DEF PolledOnce
    <3>3. \A i \in DOMAIN published' :
              Polled(published'[i].event) =>
                  /\ published'[i].outcome = Final[published'[i].event]
                  /\ row[published'[i].event].outcome = Final[published'[i].event]
      BY <1>1, <1>2, <2>2 DEF PolledOnce
    <3> QED BY <1>3, <3>2, <3>3 DEF PolledOnce, Polled
  <2>5. PublishedStaysResolved'
    BY <1>1, <1>2, <1>3, <2>2 DEF PublishedStaysResolved, Recorded
  <2>6. ASSUME NEW f \in Events, Announced(f) PROVE Announced(f)'
    <3>1. CASE f = e
      BY <1>2, <2>2, <3>1 DEF Announced
    <3>2. CASE \E i \in DOMAIN published : published[i].event = f
      BY <2>2, <3>2 DEF Announced
    <3>3. ASSUME NEW q \in Providers, step[q] = "publishing", result[q] = f, f # e
          PROVE  Announced(f)'
      <4>1. q \in Providers \ {p}
        BY <3>3 DEF e
      <4> QED BY <1>3, <3>3, <4>1 DEF Announced
    <3>4. CASE \E a \in Requests : astep[a] = "publishing" /\ asked[a].event = f
      BY <3>4 DEF PublishResult, Announced
    <3> QED BY <2>6, <3>1, <3>2, <3>3, <3>4 DEF Announced
  <2>7. OutcomesAreAnnounced'
    BY <1>3, <1>7, <2>6 DEF OutcomesAreAnnounced, Recorded
  <2>8. ASSUME NEW q \in Providers PROVE Loop(q)'
    <3>1. CASE q = p
      BY <1>3, <3>1 DEF Loop
    <3>2. CASE q # p
      <4>1. step[q] \in {"recording", "publishing"} => result[q] # e
        BY <1>1, <3>2 DEF Loop
      <4>2. \A f \in Events : Told(f)' => Told(f) \/ f = e
        BY <1>2, <2>2 DEF Told
      <4> QED BY <1>3, <3>2, <4>1, <4>2 DEF Loop
    <3> QED BY <3>1, <3>2
  <2> QED BY <1>6, <2>3, <2>4, <2>5, <2>7, <2>8
<1>8. CASE Fault("broker") /\ UNCHANGED published
  <2>1. TypeOK'
    BY <1>3, <1>4, <1>5, <1>8 DEF PublishResult, TypeOK
  <2>2. PolledOnce' /\ PublishedStaysResolved'
    BY <1>3, <1>8 DEF PolledOnce, PublishedStaysResolved, Recorded
  <2>3. OutcomesAreAnnounced'
    BY <1>8 DEF Fault, TypeOK, OutcomesAreAnnounced
  <2>4. ASSUME NEW q \in Providers PROVE Loop(q)'
    BY <1>3, <1>8 DEF Loop, Told
  <2> QED BY <1>6, <2>1, <2>2, <2>3, <2>4
<1> QED BY <1>7, <1>8 DEF PublishResult

\* A loop that ends its tick, wakes up or throws stops handling; one that goes
\* on keeps the events that are still pending.
LEMMA EndTickKeeps ==
    ASSUME IInv, NEW p \in Providers, EndTick(p) PROVE IInv'
<1> USE DEF IInv, adminVars
<1>1. TypeOK'
  BY DEF EndTick, StepsTo, TypeOK
<1>2. PolledOnce' /\ PublishedStaysResolved' /\ OutcomesAreAnnounced'
  BY DEF EndTick, StepsTo, TypeOK, PolledOnce, PublishedStaysResolved,
         OutcomesAreAnnounced, Recorded, Announced
<1>3. (\A q \in Providers : Loop(q)') /\ (\A a \in Requests : Admin(a)')
  BY DEF EndTick, StepsTo, TypeOK, Loop, Told, Admin, Recorded
<1> QED BY <1>1, <1>2, <1>3

LEMMA WakeKeeps ==
    ASSUME IInv, NEW p \in Providers, Wake(p) PROVE IInv'
<1> USE DEF IInv, adminVars
<1>1. TypeOK'
  BY DEF Wake, StepsTo, TypeOK
<1>2. PolledOnce' /\ PublishedStaysResolved' /\ OutcomesAreAnnounced'
  BY DEF Wake, StepsTo, TypeOK, PolledOnce, PublishedStaysResolved,
         OutcomesAreAnnounced, Recorded, Announced
<1>3. (\A q \in Providers : Loop(q)') /\ (\A a \in Requests : Admin(a)')
  BY DEF Wake, StepsTo, TypeOK, Loop, Told, Admin, Recorded
<1> QED BY <1>1, <1>2, <1>3

LEMMA TickThrowsKeeps ==
    ASSUME IInv, NEW p \in Providers, TickThrows(p) PROVE IInv'
<1> USE ResultsAssumption DEF IInv, adminVars
<1>1. TypeOK'
  BY DEF TickThrows, Fault, StepsTo, TypeOK
<1>2. PolledOnce' /\ PublishedStaysResolved'
  BY DEF TickThrows, PolledOnce, PublishedStaysResolved, Recorded
<1>3. OutcomesAreAnnounced'
  BY DEF TickThrows, Fault, TypeOK, OutcomesAreAnnounced
<1>4. (\A q \in Providers : Loop(q)') /\ (\A a \in Requests : Admin(a)')
  BY DEF TickThrows, StepsTo, TypeOK, Loop, Told, Admin, Recorded
<1> QED BY <1>1, <1>2, <1>3, <1>4

LEMMA AskToResolveKeeps ==
    ASSUME IInv, NEW a \in Requests, NEW e \in Events, NEW o \in Outcomes,
           AskToResolve(a, e, o)
    PROVE  IInv'
<1> USE DEF IInv, loopVars
<1>1. TypeOK'
  BY DEF AskToResolve, TypeOK, Message
<1>2. PolledOnce' /\ PublishedStaysResolved'
  BY DEF AskToResolve, PolledOnce, PublishedStaysResolved, Recorded
<1>3. OutcomesAreAnnounced'
  <2>1. ASSUME NEW f \in Events, Announced(f) PROVE Announced(f)'
    BY <2>1 DEF AskToResolve, TypeOK, Announced
  <2> QED BY <2>1 DEF AskToResolve, OutcomesAreAnnounced, Recorded
<1>4. ASSUME NEW q \in Providers PROVE Loop(q)'
  BY DEF AskToResolve, Loop, Told
<1>5. ASSUME NEW b \in Requests PROVE Admin(b)'
  BY DEF AskToResolve, TypeOK, Message, Admin, Recorded
<1> QED BY <1>1, <1>2, <1>3, <1>4, <1>5

LEMMA AdminRecordsKeeps ==
    ASSUME IInv, NEW a \in Requests, AdminRecords(a) PROVE IInv'
<1> USE ResultsAssumption DEF IInv, loopVars
<1> DEFINE e == asked[a].event
           o == asked[a].outcome
<1>1. asked[a] \in Message /\ e \in Events /\ o \in Outcomes /\ Origin[e] = Mock
  BY DEF AdminRecords, Admin, Message
<1>2. /\ row' = [row EXCEPT ![e] = WithOutcome(row[e], o)]
      /\ row \in [Events -> Row \union {None}]
  BY DEF AdminRecords, TypeOK, Row
<1>3. row'[e] \in Row /\ row'[e] # None /\ row'[e].outcome = o
  BY <1>1, <1>2, WithOutcomeRow
<1>4. \A f \in Events \ {e} : row'[f] = row[f]
  BY <1>1, <1>2
<1>5. Recorded(e)' /\ \A f \in Events : Recorded(f) => Recorded(f)'
  <2>1. Recorded(e)'
    <3>1. o # None /\ e' = e
      BY <1>1 DEF AdminRecords
    <3> HIDE DEF e, o
    <3> QED BY <1>3, <3>1 DEF Recorded
  <2>2. ASSUME NEW f \in Events \ {e}, Recorded(f) PROVE Recorded(f)'
    BY <1>4, <2>2 DEF Recorded
  <2>3. ASSUME NEW f \in Events, Recorded(f), f = e PROVE Recorded(f)'
    BY <2>1, <2>3 DEF AdminRecords
  <2> QED BY <2>1, <2>2, <2>3
<1>6. TypeOK'
  BY <1>2, <1>3 DEF AdminRecords, TypeOK, Row
<1>7. \A i \in DOMAIN published : published[i].event \in Events
  BY Messages DEF Message
<1>8. PolledOnce'
  BY <1>1, <1>4, <1>7 DEF AdminRecords, PolledOnce, Polled
<1>9. PublishedStaysResolved'
  BY <1>5, <1>7 DEF AdminRecords, PublishedStaysResolved
<1>10. OutcomesAreAnnounced'
  <2>1. Announced(e)'
    BY DEF AdminRecords, TypeOK, Announced
  <2>2. ASSUME NEW f \in Events, Announced(f) PROVE Announced(f)'
    BY <2>2 DEF AdminRecords, TypeOK, Announced
  <2> QED BY <1>4, <2>1, <2>2 DEF AdminRecords, OutcomesAreAnnounced, Recorded
<1>11. ASSUME NEW q \in Providers PROVE Loop(q)'
  <2>1. \A f \in pending[q] : f \in Events \ {e}
    BY <1>1 DEF TypeOK, Loop
  <2>2. step[q] \in {"recording", "publishing"} => result[q] \in Events \ {e}
    BY <1>1 DEF Loop
  <2> QED BY <1>4, <2>1, <2>2 DEF AdminRecords, Loop, Told
<1>12. ASSUME NEW b \in Requests PROVE Admin(b)'
  <2>1. asked' = asked /\ (b # a => astep'[b] = astep[b])
    BY DEF AdminRecords, TypeOK
  <2>2. CASE b = a
    BY <1>1, <1>5, <2>1, <2>2 DEF Admin
  <2>3. CASE b # a
    BY <1>5, <2>1, <2>3 DEF Admin, Message, Recorded
  <2> QED BY <2>2, <2>3
<1> QED BY <1>6, <1>8, <1>9, <1>10, <1>11, <1>12

LEMMA AdminPublishesKeeps ==
    ASSUME IInv, NEW a \in Requests, AdminPublishes(a) PROVE IInv'
<1> USE ResultsAssumption DEF IInv, loopVars
<1> DEFINE m == asked[a]
<1>1. m \in Message /\ Origin[m.event] = Mock /\ Recorded(m.event)
  BY DEF AdminPublishes, Admin
<1>2. /\ row' = row /\ pending' = pending /\ step' = step /\ result' = result
      /\ asked' = asked
      /\ \A b \in Requests \ {a} : astep'[b] = astep[b]
      /\ astep'[a] = "done"
      /\ astep' \in [Requests -> {"idle", "recording", "publishing", "done", "lost"}]
  BY DEF AdminPublishes, TypeOK
<1>3. faults' \in 0..MaxFaults
  BY DEF AdminPublishes, Fault, TypeOK
<1>4. ASSUME NEW b \in Requests PROVE Admin(b)'
  BY <1>2 DEF Admin, Recorded
<1>5. CASE published' = Append(published, m) /\ UNCHANGED faults
  <2>1. published \in Seq(Message)
    BY DEF TypeOK
  <2> DEFINE n == Len(published) + 1
  <2>2. /\ published' \in Seq(Message)
        /\ DOMAIN published' = DOMAIN published \union {n}
        /\ n \notin DOMAIN published
        /\ \A i \in DOMAIN published : published'[i] = published[i]
        /\ published'[n] = m
    BY <1>1, <1>5, <2>1, Publishing
  <2> HIDE DEF n, m
  <2>3. TypeOK'
    BY <1>2, <1>3, <2>2 DEF AdminPublishes, TypeOK
  <2>4. PolledOnce'
    <3>1. ~Polled(m.event)
      BY <1>1 DEF Polled
    <3>2. \A i, j \in DOMAIN published' :
              published'[i].event = published'[j].event /\ Polled(published'[i].event)
                  => i = j
      BY <2>2, <3>1 DEF PolledOnce
    <3>3. \A i \in DOMAIN published' :
              Polled(published'[i].event) =>
                  /\ published'[i].outcome = Final[published'[i].event]
                  /\ row[published'[i].event].outcome = Final[published'[i].event]
      <4>1. ASSUME NEW i \in DOMAIN published, Polled(published[i].event)
            PROVE  /\ published[i].outcome = Final[published[i].event]
                   /\ row[published[i].event].outcome = Final[published[i].event]
        BY <4>1 DEF PolledOnce
      <4> QED BY <2>2, <3>1, <4>1
    <3> QED BY <1>2, <3>2, <3>3 DEF PolledOnce, Polled
  <2>5. PublishedStaysResolved'
    BY <1>1, <1>2, <2>2 DEF PublishedStaysResolved, Recorded
  <2>6. ASSUME NEW f \in Events, Announced(f) PROVE Announced(f)'
    <3>1. CASE f = m.event
      BY <2>2, <3>1 DEF Announced
    <3>2. CASE f # m.event
      BY <1>2, <2>2, <2>6, <3>2 DEF Announced, m
    <3> QED BY <3>1, <3>2
  <2>7. OutcomesAreAnnounced'
    BY <1>2, <1>5, <2>6 DEF OutcomesAreAnnounced, Recorded
  <2>8. ASSUME NEW q \in Providers PROVE Loop(q)'
    <3>1. \A f \in Events : Told(f)' => Told(f) \/ f = m.event
      BY <2>2 DEF Told
    <3> QED BY <1>1, <1>2, <3>1 DEF Loop
  <2> QED BY <1>4, <2>3, <2>4, <2>5, <2>7, <2>8
<1>6. CASE Fault("broker") /\ UNCHANGED published
  <2>1. TypeOK'
    BY <1>2, <1>3, <1>6 DEF AdminPublishes, TypeOK
  <2>2. PolledOnce' /\ PublishedStaysResolved'
    BY <1>2, <1>6 DEF PolledOnce, PublishedStaysResolved, Recorded
  <2>3. OutcomesAreAnnounced'
    BY <1>6 DEF Fault, TypeOK, OutcomesAreAnnounced
  <2>4. ASSUME NEW q \in Providers PROVE Loop(q)'
    BY <1>2, <1>6 DEF Loop, Told
  <2> QED BY <1>4, <2>1, <2>2, <2>3, <2>4
<1> QED BY <1>5, <1>6 DEF AdminPublishes

LEMMA CrashKeeps == ASSUME IInv, Crash PROVE IInv'
<1> USE ResultsAssumption DEF IInv
<1>1. TypeOK'
  BY DEF Crash, Fault, TypeOK
<1>2. PolledOnce' /\ PublishedStaysResolved'
  BY DEF Crash, PolledOnce, PublishedStaysResolved, Recorded
<1>3. OutcomesAreAnnounced'
  BY DEF Crash, Fault, TypeOK, OutcomesAreAnnounced
<1>4. (\A q \in Providers : Loop(q)') /\ (\A a \in Requests : Admin(a)')
  BY DEF Crash, TypeOK, Loop, Admin
<1> QED BY <1>1, <1>2, <1>3, <1>4

LEMMA NextKeepsIInv == IInv /\ [Next]_vars => IInv'
<1> SUFFICES ASSUME IInv, [Next]_vars PROVE IInv'
  OBVIOUS
<1>1. ASSUME NEW p \in Providers, LoopStep(p) PROVE IInv'
  BY <1>1, ListPendingKeeps, RecordResultKeeps, PublishResultKeeps, EndTickKeeps,
     WakeKeeps, FetchResultKeeps DEF LoopStep
<1>2. ASSUME NEW a \in Requests, AdminStep(a) PROVE IInv'
  BY <1>2, AdminRecordsKeeps, AdminPublishesKeeps DEF AdminStep
<1>3. CASE UNCHANGED vars
  <2>1. TypeOK' /\ PolledOnce' /\ PublishedStaysResolved' /\ OutcomesAreAnnounced'
    BY <1>3 DEF vars, loopVars, adminVars, IInv, TypeOK, PolledOnce,
       PublishedStaysResolved, OutcomesAreAnnounced, Recorded, Announced
  <2>2. (\A p \in Providers : Loop(p)') /\ (\A a \in Requests : Admin(a)')
    BY <1>3 DEF vars, loopVars, adminVars, IInv, Loop, Told, Admin, Recorded
  <2> QED BY <2>1, <2>2 DEF IInv
<1> QED BY <1>1, <1>2, <1>3, PassKeeps, RecordLineKeeps, TickThrowsKeeps,
           AskToResolveKeeps, CrashKeeps DEF Next

\* IInv, the properties with what each loop and each admin is at, holds in every
\* reachable state.
THEOREM ResultsInvariance == Spec => []IInv
  BY InitIInv, NextKeepsIInv, PTL DEF Spec

\* Every variable keeps its type: the loops' positions, rows and messages.
THEOREM ResultsTypeCorrect == Spec => []TypeOK
<1>1. IInv => TypeOK
  BY DEF IInv
<1> QED BY <1>1, ResultsInvariance, PTL

\* RunnerService.run publishes at most one resolution of a polled event, the
\* result its provider reports, whatever throws and whenever it restarts.
THEOREM SettledOnce == Spec => []PolledOnce
<1>1. IInv => PolledOnce
  BY DEF IInv
<1> QED BY <1>1, ResultsInvariance, PTL

\* What was published as resolved keeps its outcome in odds_current, through
\* every tick that upserts its row.
THEOREM NeverUnresolved == Spec => []PublishedStaysResolved
<1>1. IInv => PublishedStaysResolved
  BY DEF IInv
<1> QED BY <1>1, ResultsInvariance, PTL

\* While nothing fails, an outcome that is recorded is published or about to be.
THEOREM AnnouncedWhenRecorded == Spec => []OutcomesAreAnnounced
<1>1. IInv => OutcomesAreAnnounced
  BY DEF IInv
<1> QED BY <1>1, ResultsInvariance, PTL
=============================================================================
