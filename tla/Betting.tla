------------------------------- MODULE Betting -------------------------------
(***************************************************************************)
(* Placing and settling bets in core: BetsService.place, one run per HTTP  *)
(* request; BetsService.handleEventResolved with settle and publishSettled,*)
(* one run per delivery of the durable queue core.events.resolved; the     *)
(* `bets` table both write; the wallet both move money with; and the price *)
(* cache as far as placement and settlement see it.                        *)
(*                                                                         *)
(* Every await is a point where another request, another delivery, a crash *)
(* or a failure can come in between, so each statement that reads or       *)
(* writes shared state is an action.  The queue has no prefetch limit:     *)
(* deliveries are handled concurrently, and a message whose handler threw  *)
(* is requeued.                                                            *)
(*                                                                         *)
(* A definition named Name_Variant is Name with one plausible mistake in   *)
(* it; no specification uses it.  README.md says which property tells it   *)
(* from the code.                                                          *)
(*                                                                         *)
(* Faults of the kinds in FaultKinds happen at most MaxFaults times:       *)
(*   crash     the process dies and is restarted (restart: unless-stopped) *)
(*   channel   the broker channel closes; core never reopens it, so every  *)
(*             later publish, ack and nack of this process throws          *)
(*   database  one statement on the bets table throws and has no effect    *)
(***************************************************************************)
EXTENDS Wallet, Sequences, FiniteSetsExt, Money

CONSTANTS
    Events, Selections,
    Outcomes,           \* selections the feeds report as winning
    EventOf, Pick,      \* EventOf[b], Pick[b]: the event and side b is on
    Odds,               \* prices the cache may hold for a selection
    Msgs,               \* messages of the events.resolved exchange
    MaxColumn,          \* largest value of the 4-byte integer payout_cents
    FaultKinds, MaxFaults,
    NoBet, NoResult

ASSUME BettingAssumption ==
    /\ EventOf \in [Bets -> Events]
    /\ Outcomes \subseteq Selections
    /\ Pick \in [Bets -> Selections]
    /\ Odds \subseteq {o \in Nat : o > OddsUnit}
    /\ MaxColumn \in Nat
    /\ MaxFaults \in Nat
    /\ NoBet \notin Bets
    /\ NoResult \notin [event : Events, outcome : Selections]

VARIABLES
    status,         \* status[b]: the row's status, "none" when there is no row
    quote,          \* quote[b]: place's local `odds`, the row's odds column
    payoutCents,    \* payoutCents[b]: the row's payout_cents, 0 for null too
    pc,             \* pc[b]: where the request that places b is
    cache,          \* cache[e]: the event's entry in OddsCacheService.entries
    result,         \* result[m]: the resolution m carries, once published
    hpc,            \* hpc[m]: where m is, in the queue or in its handler
    todo,           \* todo[m]: the handler's `held` rows not yet settled
    cur,            \* cur[m]: the bet its settle call is working on
    sent,           \* sent[b]: messages about b published on bets.settled
    channel,        \* core's broker channel
    faults          \* faults so far

rowVars == <<status, quote, payoutCents>>
handlerVars == <<hpc, todo, cur>>
coreVars == <<cache, result, sent, channel, faults>>
vars == <<walletVars, rowVars, pc, handlerVars, coreVars>>

Statuses == {"none", "pending", "held", "won", "lost"}
NoPrice == 0

\* A request not yet answered, and the ways it is answered: 201, the 409 of a
\* missing price, the error of an uncovered stake, another error, no answer.
Placing == {"saving", "holding", "unfunded", "broken", "confirming", "notifying"}
Answers == {"accepted", "refused", "insufficient", "failed", "lost"}

\* A delivery being handled.
Handling == {"finding", "looping", "moving", "paying", "recording",
             "publishing", "acking", "failing"}

Resolution == [event : Events, outcome : Selections]
SettledEvent == [won : BOOLEAN, payoutCents : Nat]

TypeOK ==
    /\ WalletTypeOK
    /\ status \in [Bets -> Statuses]
    /\ quote \in [Bets -> Odds \union {NoPrice}]
    /\ payoutCents \in [Bets -> Nat]
    /\ pc \in [Bets -> {"idle"} \union Placing \union Answers]
    /\ cache \in [Events -> {"absent", "open", "resolved"}]
    /\ result \in [Msgs -> Resolution \union {NoResult}]
    /\ hpc \in [Msgs -> {"unsent", "queued", "done"} \union Handling]
    /\ todo \in [Msgs -> SUBSET Bets]
    /\ cur \in [Msgs -> Bets \union {NoBet}]
    /\ sent \in [Bets -> Seq(SettledEvent)]
    /\ channel \in {"open", "closed"}
    /\ faults \in 0..MaxFaults

Init ==
    /\ WalletInit
    /\ status = [b \in Bets |-> "none"]
    /\ quote = [b \in Bets |-> NoPrice]
    /\ payoutCents = [b \in Bets |-> 0]
    /\ pc = [b \in Bets |-> "idle"]
    /\ cache = [e \in Events |-> "absent"]
    /\ result = [m \in Msgs |-> NoResult]
    /\ hpc = [m \in Msgs |-> "unsent"]
    /\ todo = [m \in Msgs |-> {}]
    /\ cur = [m \in Msgs |-> NoBet]
    /\ sent = [b \in Bets |-> <<>>]
    /\ channel = "open"
    /\ faults = 0

-----------------------------------------------------------------------------
(* The price cache, in full in OddsCache.  A tick or the boot hydrate      *)
(* opens an unknown event; a hydrate that carries an outcome, which is     *)
(* recorded before its message is published, closes it whatever it was.    *)

CacheOpen(e) ==
    /\ cache[e] = "absent"
    /\ cache' = [cache EXCEPT ![e] = "open"]
    /\ UNCHANGED <<walletVars, rowVars, pc, handlerVars, result, sent, channel, faults>>

CacheClose(e) ==
    /\ cache[e] # "resolved"
    /\ cache' = [cache EXCEPT ![e] = "resolved"]
    /\ UNCHANGED <<walletVars, rowVars, pc, handlerVars, result, sent, channel, faults>>

\* markResolved sets the flag of an entry it finds and adds none.
MarkResolved(e) ==
    cache' = [cache EXCEPT ![e] = IF @ = "absent" THEN @ ELSE "resolved"]

-----------------------------------------------------------------------------
(* BetsService.place                                                       *)

PlaceGoesTo(b, label) == pc' = [pc EXCEPT ![b] = label]

\* The price is read from memory, in the same turn as the request.
Request(b) ==
    /\ pc[b] = "idle"
    /\ \/ /\ cache[EventOf[b]] = "open"
          /\ \E o \in Odds : quote' = [quote EXCEPT ![b] = o]
          /\ PlaceGoesTo(b, "saving")
       \/ PlaceGoesTo(b, "refused") /\ UNCHANGED quote
    /\ UNCHANGED <<walletVars, status, payoutCents, handlerVars, coreVars>>

\* Inserting the row as held leaves nothing for a handler to wait for.
SaveRow_AsHeld(b) ==
    /\ pc[b] = "saving"
    /\ status' = [status EXCEPT ![b] = "held"]
    /\ PlaceGoesTo(b, "holding")
    /\ UNCHANGED <<walletVars, quote, payoutCents, handlerVars, coreVars>>

SaveRow(b) ==
    /\ pc[b] = "saving"
    /\ status' = [status EXCEPT ![b] = "pending"]
    /\ PlaceGoesTo(b, "holding")
    /\ UNCHANGED <<walletVars, quote, payoutCents, handlerVars, coreVars>>

\* wallet.hold: the transfer, then the balanceUpdated publish, which throws
\* on a closed channel and takes place to its catch with the hold committed.
Hold(b) ==
    /\ pc[b] = "holding"
    /\ \/ /\ HoldStake(b)
          /\ PlaceGoesTo(b, IF channel = "open" THEN "confirming" ELSE "broken")
       \/ /\ ~Covered(b)
          /\ PlaceGoesTo(b, "unfunded")
          /\ UNCHANGED walletVars
    /\ UNCHANGED <<rowVars, handlerVars, coreVars>>

\* No catch around hold: the row outlives the refused request.
DeleteRow_Forgotten(b) ==
    /\ pc[b] \in {"unfunded", "broken"}
    /\ PlaceGoesTo(b, IF pc[b] = "unfunded" THEN "insufficient" ELSE "failed")
    /\ UNCHANGED <<walletVars, rowVars, handlerVars, coreVars>>

\* The catch: delete the row, rethrow what hold threw.
DeleteRow(b) ==
    /\ pc[b] \in {"unfunded", "broken"}
    /\ status' = [status EXCEPT ![b] = "none"]
    /\ PlaceGoesTo(b, IF pc[b] = "unfunded" THEN "insufficient" ELSE "failed")
    /\ UNCHANGED <<walletVars, quote, payoutCents, handlerVars, coreVars>>

\* repo.update(bet.id, { status: "held" }): unconditional.
ConfirmHeld(b) ==
    /\ pc[b] = "confirming"
    /\ status' = [status EXCEPT ![b] = "held"]
    /\ PlaceGoesTo(b, "notifying")
    /\ UNCHANGED <<walletVars, quote, payoutCents, handlerVars, coreVars>>

NotifyHeld(b) ==
    /\ pc[b] = "notifying"
    /\ PlaceGoesTo(b, IF channel = "open" THEN "accepted" ELSE "failed")
    /\ UNCHANGED <<walletVars, rowVars, handlerVars, coreVars>>

PlaceStep(b) ==
    SaveRow(b) \/ Hold(b) \/ DeleteRow(b) \/ ConfirmHeld(b) \/ NotifyHeld(b)

-----------------------------------------------------------------------------
(* The queue and BetsService.handleEventResolved                           *)

HandlerGoesTo(m, label) == hpc' = [hpc EXCEPT ![m] = label]

\* The odds service (its results poll or an admin) publishes a resolution.
\* Nothing stops two for one event, nor two that disagree.
Publish(m, e, o) ==
    /\ hpc[m] = "unsent"
    /\ result' = [result EXCEPT ![m] = [event |-> e, outcome |-> o]]
    /\ HandlerGoesTo(m, "queued")
    /\ UNCHANGED <<walletVars, rowVars, pc, todo, cur, cache, sent, channel, faults>>

Won(m, b) == Pick[b] = result[m].outcome
PayoutOf(m, b) == IF Won(m, b) THEN ProfitCents(Stake[b], quote[b]) ELSE 0

\* A delivery: the handler parses the message and marks the event resolved
\* before its first await.
Deliver(m) ==
    /\ hpc[m] = "queued"
    /\ channel = "open"
    /\ MarkResolved(result[m].event)
    /\ HandlerGoesTo(m, "finding")
    /\ UNCHANGED <<walletVars, rowVars, pc, todo, cur, result, sent, channel, faults>>

\* Settling pending rows too.
FindHeld_WithPending(m) ==
    /\ hpc[m] = "finding"
    /\ todo' = [todo EXCEPT ![m] = {b \in Bets :
           status[b] \in {"pending", "held"} /\ EventOf[b] = result[m].event}]
    /\ HandlerGoesTo(m, "looping")
    /\ UNCHANGED <<walletVars, rowVars, pc, cur, coreVars>>

FindHeld(m) ==
    /\ hpc[m] = "finding"
    /\ todo' = [todo EXCEPT ![m] = {b \in Bets :
                   status[b] = "held" /\ EventOf[b] = result[m].event}]
    /\ HandlerGoesTo(m, "looping")
    /\ UNCHANGED <<walletVars, rowVars, pc, cur, coreVars>>

\* settle reads the row again and throws unless it is still held.  The order
\* of the rows is the database's.
ReadRow(m, b) ==
    /\ hpc[m] = "looping"
    /\ b \in todo[m]
    /\ \/ /\ status[b] = "held"
          /\ cur' = [cur EXCEPT ![m] = b]
          /\ HandlerGoesTo(m, "moving")
       \/ /\ status[b] # "held"
          /\ HandlerGoesTo(m, "failing")
          /\ UNCHANGED cur
    /\ UNCHANGED <<walletVars, rowVars, pc, todo, coreVars>>

\* A committed transfer is followed by a balanceUpdated publish: the handler
\* goes on only if the channel takes it.
AfterTransfer(m, label) ==
    HandlerGoesTo(m, IF channel = "open" THEN label ELSE "failing")

\* The stake goes back and the profit is forgotten.
Release_NoPayout(m) ==
    /\ hpc[m] = "moving"
    /\ Won(m, cur[m])
    /\ VoidStake(cur[m])
    /\ AfterTransfer(m, "recording")
    /\ UNCHANGED <<rowVars, pc, todo, cur, coreVars>>

Release(m) ==
    /\ hpc[m] = "moving"
    /\ Won(m, cur[m])
    /\ VoidStake(cur[m])
    /\ AfterTransfer(m, IF PayoutOf(m, cur[m]) > 0 THEN "paying" ELSE "recording")
    /\ UNCHANGED <<rowVars, pc, todo, cur, coreVars>>

\* A lost bet's stake is released.
Keep_Voids(m) ==
    /\ hpc[m] = "moving"
    /\ ~Won(m, cur[m])
    /\ VoidStake(cur[m])
    /\ AfterTransfer(m, "recording")
    /\ UNCHANGED <<rowVars, pc, todo, cur, coreVars>>

Keep(m) ==
    /\ hpc[m] = "moving"
    /\ ~Won(m, cur[m])
    /\ PostStake(cur[m])
    /\ AfterTransfer(m, "recording")
    /\ UNCHANGED <<rowVars, pc, todo, cur, coreVars>>

\* A refused void taken for "done already", so that a redelivery can go on.
TransferRefused_GoesOn(m) ==
    /\ hpc[m] = "moving"
    /\ ~StillPending(cur[m])
    /\ HandlerGoesTo(m, IF PayoutOf(m, cur[m]) > 0 THEN "paying" ELSE "recording")
    /\ UNCHANGED <<walletVars, rowVars, pc, todo, cur, coreVars>>

\* The ledger refuses to void or post what is no longer pending.
TransferRefused(m) ==
    /\ hpc[m] = "moving"
    /\ ~StillPending(cur[m])
    /\ HandlerGoesTo(m, "failing")
    /\ UNCHANGED <<walletVars, rowVars, pc, todo, cur, coreVars>>

\* Paying the total return on top of the released stake.
Payout_TotalReturn(m) ==
    /\ hpc[m] = "paying"
    /\ PayProfit(cur[m], Stake[cur[m]] + PayoutOf(m, cur[m]))
    /\ AfterTransfer(m, "recording")
    /\ UNCHANGED <<rowVars, pc, todo, cur, coreVars>>

Payout(m) ==
    /\ hpc[m] = "paying"
    /\ PayProfit(cur[m], PayoutOf(m, cur[m]))
    /\ AfterTransfer(m, "recording")
    /\ UNCHANGED <<rowVars, pc, todo, cur, coreVars>>

\* repo.update(betId, { status, payoutCents }): Postgres refuses a value out
\* of the column's range.
Record(m) ==
    /\ hpc[m] = "recording"
    /\ LET b == cur[m] IN
       \/ /\ PayoutOf(m, b) <= MaxColumn
          /\ status' = [status EXCEPT ![b] = IF Won(m, b) THEN "won" ELSE "lost"]
          /\ payoutCents' = [payoutCents EXCEPT ![b] = PayoutOf(m, b)]
          /\ HandlerGoesTo(m, "publishing")
       \/ /\ PayoutOf(m, b) > MaxColumn
          /\ HandlerGoesTo(m, "failing")
          /\ UNCHANGED <<status, payoutCents>>
    /\ UNCHANGED <<walletVars, quote, pc, todo, cur, coreVars>>

\* A message that carries the total return.
PublishSettled_TotalReturn(m) ==
    /\ hpc[m] = "publishing"
    /\ sent' = [sent EXCEPT ![cur[m]] = Append(@,
           [won |-> Won(m, cur[m]),
            payoutCents |-> Stake[cur[m]] + PayoutOf(m, cur[m])])]
    /\ todo' = [todo EXCEPT ![m] = @ \ {cur[m]}]
    /\ cur' = [cur EXCEPT ![m] = NoBet]
    /\ HandlerGoesTo(m, "looping")
    /\ UNCHANGED <<walletVars, rowVars, pc, cache, result, channel, faults>>

\* The betSettled notification and the durable bets.settled message; then the
\* next row of the loop.
PublishSettled(m) ==
    /\ hpc[m] = "publishing"
    /\ LET b == cur[m] IN
       \/ /\ channel = "open"
          /\ sent' = [sent EXCEPT ![b] =
                 Append(@, [won |-> Won(m, b), payoutCents |-> PayoutOf(m, b)])]
          /\ todo' = [todo EXCEPT ![m] = @ \ {b}]
          /\ HandlerGoesTo(m, "looping")
          /\ cur' = [cur EXCEPT ![m] = NoBet]
       \/ /\ channel = "closed"
          /\ HandlerGoesTo(m, "failing")
          /\ UNCHANGED <<sent, todo, cur>>
    /\ UNCHANGED <<walletVars, rowVars, pc, cache, result, channel, faults>>

EndLoop(m) ==
    /\ hpc[m] = "looping"
    /\ todo[m] = {}
    /\ HandlerGoesTo(m, "acking")
    /\ UNCHANGED <<walletVars, rowVars, pc, todo, cur, coreVars>>

\* Resolved handler: ack.  Rejected handler: nack with requeue.
Finish(m) ==
    /\ hpc[m] \in {"acking", "failing"}
    /\ channel = "open"
    /\ HandlerGoesTo(m, IF hpc[m] = "acking" THEN "done" ELSE "queued")
    /\ todo' = [todo EXCEPT ![m] = {}]
    /\ cur' = [cur EXCEPT ![m] = NoBet]
    /\ UNCHANGED <<walletVars, rowVars, pc, coreVars>>

-----------------------------------------------------------------------------
(* Faults                                                                  *)

Fault(kind) ==
    /\ kind \in FaultKinds
    /\ faults < MaxFaults
    /\ faults' = faults + 1

\* Consuming without manual acks: what was delivered is gone.
Restart_AutoAck ==
    /\ pc' = [b \in Bets |-> IF pc[b] \in Placing THEN "lost" ELSE pc[b]]
    /\ hpc' = [m \in Msgs |-> IF hpc[m] \in Handling THEN "done" ELSE hpc[m]]
    /\ todo' = [m \in Msgs |-> {}]
    /\ cur' = [m \in Msgs |-> NoBet]
    /\ cache' = [e \in Events |-> "absent"]
    /\ channel' = "open"
    /\ UNCHANGED <<walletVars, rowVars, result, sent>>

\* The process dies and starts again: requests in flight are never answered,
\* the broker requeues what was not acked, the price cache starts empty and
\* the channel is opened anew.
Restart ==
    /\ pc' = [b \in Bets |-> IF pc[b] \in Placing THEN "lost" ELSE pc[b]]
    /\ hpc' = [m \in Msgs |-> IF hpc[m] \in Handling THEN "queued" ELSE hpc[m]]
    /\ todo' = [m \in Msgs |-> {}]
    /\ cur' = [m \in Msgs |-> NoBet]
    /\ cache' = [e \in Events |-> "absent"]
    /\ channel' = "open"
    /\ UNCHANGED <<walletVars, rowVars, result, sent>>

Crash == Fault("crash") /\ Restart

\* The ack or nack of a finished handler throws on a closed channel; nothing
\* catches that rejection and the process exits on it.
DieOnClosedChannel(m) ==
    /\ hpc[m] \in {"acking", "failing"}
    /\ channel = "closed"
    /\ Restart
    /\ UNCHANGED faults

\* The broker requeues the unacked messages, and delivers none to this
\* process any more: a handler under way goes on, and its message is
\* delivered again only after a restart.
ChannelLoss ==
    /\ Fault("channel")
    /\ channel = "open"
    /\ channel' = "closed"
    /\ UNCHANGED <<walletVars, rowVars, pc, handlerVars, cache, result, sent>>

PlaceStatementFails(b) ==
    /\ Fault("database")
    /\ pc[b] \in {"saving", "unfunded", "broken", "confirming"}
    /\ PlaceGoesTo(b, "failed")
    /\ UNCHANGED <<walletVars, rowVars, handlerVars, cache, result, sent, channel>>

\* The find, the re-read, the update or publishSettled's read of the user.
HandlerStatementFails(m) ==
    /\ Fault("database")
    /\ hpc[m] \in {"finding", "looping", "recording", "publishing"}
    /\ hpc[m] = "looping" => todo[m] # {}
    /\ HandlerGoesTo(m, "failing")
    /\ UNCHANGED <<walletVars, rowVars, pc, todo, cur, cache, result, sent, channel>>

-----------------------------------------------------------------------------

HandleStep(m) ==
    \/ Deliver(m) \/ FindHeld(m)
    \/ \E b \in Bets : ReadRow(m, b)
    \/ Release(m) \/ Keep(m) \/ TransferRefused(m) \/ Payout(m)
    \/ Record(m) \/ PublishSettled(m) \/ EndLoop(m)
    \/ Finish(m) \/ DieOnClosedChannel(m)

Next ==
    \/ \E e \in Events : CacheOpen(e) \/ CacheClose(e)
    \/ \E b \in Bets : Request(b) \/ PlaceStep(b) \/ PlaceStatementFails(b)
    \/ \E m \in Msgs :
           \/ \E e \in Events, o \in Outcomes : Publish(m, e, o)
           \/ HandleStep(m)
           \/ HandlerStatementFails(m)
    \/ Crash
    \/ ChannelLoss

Spec == Init /\ [][Next]_vars

\* Started work goes on: the runtime, the databases and the broker keep
\* serving a request or a delivery.  Nobody has to place a bet or publish a
\* result.
Fairness ==
    /\ \A b \in Bets : WF_vars(PlaceStep(b))
    /\ \A m \in Msgs : WF_vars(HandleStep(m))

FairSpec == Spec /\ Fairness

-----------------------------------------------------------------------------
(* Properties                                                              *)

\* A row tells what happened to its money.  A won row: the stake was given
\* back and the profit of the accepted price paid; a lost row: the stake is
\* the house's and nothing was paid; a held row: the stake was reserved; a
\* pending row has cost at most the reservation.
RowMatchesLedger ==
    \A b \in Bets :
        /\ status[b] = "won" =>
               /\ hold[b] = "voided"
               /\ paid[b] = ProfitCents(Stake[b], quote[b])
               /\ payoutCents[b] = paid[b]
        /\ status[b] = "lost" =>
               hold[b] = "posted" /\ paid[b] = 0 /\ payoutCents[b] = 0
        /\ status[b] = "held" => hold[b] # "none"
        /\ status[b] = "pending" => hold[b] \in {"none", "pending"}

\* However often a resolution is delivered, whichever handlers overlap and
\* wherever they crash, no bet is paid more than its profit, nor paid at all
\* unless its stake was given back.
PaidAtMostOnce ==
    \A b \in Bets :
        /\ paid[b] \in {0, ProfitCents(Stake[b], quote[b])}
        /\ paid[b] > 0 => hold[b] = "voided"

\* A bets.settled message is published at most once for a bet, only after its
\* row is settled, and says what the row says.
SettledEventMatchesRow ==
    \A b \in Bets :
        /\ Len(sent[b]) <= 1
        /\ Len(sent[b]) = 1 =>
               /\ status[b] = IF sent[b][1].won THEN "won" ELSE "lost"
               /\ payoutCents[b] = sent[b][1].payoutCents

\* What the client is told is so: an accepted bet is on the books with its
\* stake taken, and a refused or unfunded one left no row and no reservation.
AnswerIsTrue ==
    \A b \in Bets :
        /\ pc[b] = "accepted" =>
               status[b] \in {"held", "won", "lost"} /\ hold[b] # "none"
        /\ pc[b] \in {"refused", "insufficient"} =>
               status[b] = "none" /\ hold[b] = "none"

\* The player's account is what the bets page shows: while nothing has failed,
\* none of the player's bets is being placed or settled and none has a profit
\* too large for its column, the balance is the opening one less the stakes of
\* held and lost bets plus the profits of won ones.
AtRest(u) ==
    /\ faults = 0
    /\ \A b \in Bets : Owner[b] = u =>
           /\ pc[b] \notin Placing
           /\ ProfitCents(Stake[b], quote[b]) <= MaxColumn
    /\ \A m \in Msgs : hpc[m] \in {"paying", "recording"} => Owner[cur[m]] # u

AccountMatchesBets ==
    \A u \in Users : AtRest(u) =>
        balance[u] = Opening[u]
            - MapThenSumSet(LAMBDA b : Stake[b],
                  {b \in Bets : Owner[b] = u /\ status[b] \in {"held", "lost"}})
            + MapThenSumSet(LAMBDA b : payoutCents[b],
                  {b \in Bets : Owner[b] = u /\ status[b] = "won"})

\* A settled row is never settled again, re-opened or deleted, and neither
\* its outcome nor its payout changes.
SettledIsFinal ==
    [][\A b \in Bets : status[b] \in {"won", "lost"} =>
           status'[b] = status[b] /\ payoutCents'[b] = payoutCents[b]]_vars

\* A held bet whose event's resolution waits in the queue is settled, whatever
\* other deliveries of the event do meanwhile and however often one of them is
\* nacked, unless a bet of the event is stuck for good, its stake moved and its
\* row held.  Only two things leave a bet stuck: a fault between the transfer
\* and the row's update, and, without any fault, a profit too large for its
\* column, which is paid and then never recorded.
Stuck(b) == status[b] = "held" /\ hold[b] \in {"voided", "posted"}

Unrecordable(b) == paid[b] > MaxColumn

HeldBetsSettle ==
    \A b \in Bets, m \in Msgs :
        (/\ hpc[m] = "queued" /\ result[m].event = EventOf[b]
         /\ status[b] = "held" /\ hold[b] = "pending")
            ~> \/ status[b] \in {"won", "lost"}
               \/ \E c \in Bets :
                      /\ EventOf[c] = EventOf[b]
                      /\ [](Stuck(c) /\ (faults > 0 \/ Unrecordable(c)))

\* "On a mid-batch crash, redelivery resumes from the remaining held bets"
\* (bets.service.ts, above handleEventResolved): a bet that was held when its
\* event's resolution was queued is settled in spite of crashes.
CrashResumesBatch ==
    \A b \in Bets, m \in Msgs :
        (/\ hpc[m] = "queued" /\ result[m].event = EventOf[b]
         /\ status[b] = "held")
            ~> status[b] \in {"won", "lost"}

\* "Core consumes this to settle any held bets on the event" (events.json): once
\* every published resolution is acked and no placement is under way, no bet
\* on a resolved event is still held.
NoStrandedBet ==
    (/\ \A b \in Bets : pc[b] \notin Placing
     /\ \A m \in Msgs : hpc[m] \in {"unsent", "done"}) =>
        \A b \in Bets, m \in Msgs :
            hpc[m] = "done" /\ result[m].event = EventOf[b] => status[b] # "held"

-----------------------------------------------------------------------------
(* The promise to the player, and the mapping under which Betting keeps it *)

Published == {result[m] : m \in Msgs} \ {NoResult}

Stage(b) ==
    CASE hold[b] = "none" -> "open"
      [] hold[b] = "pending" -> "taken"
      [] hold[b] = "posted" -> "kept"
      [] hold[b] = "voided" -> IF paid[b] = 0 THEN "returned" ELSE "paid"

Promise == INSTANCE BetPromise WITH
    stage <- [b \in Bets |-> Stage(b)],
    price <- quote,
    account <- balance,
    winners <- {b \in Bets : \E r \in Published :
                    r.event = EventOf[b] /\ r.outcome = Pick[b]},
    losers <- {b \in Bets : \E r \in Published :
                    r.event = EventOf[b] /\ r.outcome # Pick[b]}

\* Every step that moves a bet's money is one the promise allows: from the
\* transfers the ledger committed, not from what the rows say.
KeepsPromise == Promise!Spec
=============================================================================
