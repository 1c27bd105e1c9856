----------------------------- MODULE Settlements -----------------------------
(***************************************************************************)
(* The stats service's durable consumer of bets.settled over the           *)
(* MessagingService that reconnects (the copies in odds and notifications  *)
(* are the same file), and the table its read model is computed from.      *)
(*                                                                         *)
(* Messages are numbered in the order core publishes them.  The broker     *)
(* hands them to the consumers in that order, and puts one that is handed  *)
(* back where it was.  Each connection has its own channel, and a handler  *)
(* acks on the channel its message came by, alive or not.                  *)
(*                                                                         *)
(* Faults of the kinds in FaultKinds happen at most MaxFaults times:       *)
(*   crash      the process dies or is stopped, and is restarted           *)
(*   drop       a connection closes                                        *)
(*   channel    the broker closes the channel of a connection              *)
(*   statement  an insert throws                                           *)
(* A definition Name_Variant is Name with one mistake, see README.md.      *)
(***************************************************************************)
EXTENDS ReadModel

CONSTANTS
    Messages,       \* 1..n, in the order of publication
    Content,        \* Content[m]: the bet that was settled
    Unparsable,     \* messages the schema refuses
    Earlier,        \* the rows of bets settled before these
    Conns,          \* names of connections
    Prefetch, FaultKinds, MaxFaults

ASSUME SettlementsAssumption ==
    /\ Messages \subseteq Nat /\ Unparsable \subseteq Messages
    /\ \A m \in Messages :
           /\ DOMAIN Content[m] = {"bet", "user", "name", "at", "stake", "won", "payout"}
           /\ {Content[m].at, Content[m].stake, Content[m].payout} \subseteq Nat
    /\ \A m, n \in Messages : Content[m].bet = Content[n].bet => m = n
    /\ Len(Earlier) \in Nat /\ Earlier = [i \in 1..Len(Earlier) |-> Earlier[i]]
    /\ \A i \in 1..Len(Earlier) :
           /\ Earlier[i] = RowOf(Earlier[i].betId, Earlier[i].userId, Earlier[i].userName,
                                 Earlier[i].settledAt, Earlier[i].stakeCents,
                                 Earlier[i].profitCents)
           /\ {Earlier[i].settledAt, Earlier[i].stakeCents} \subseteq Nat
           /\ Earlier[i].profitCents \in Int
           /\ \A j \in 1..Len(Earlier) : Earlier[i].betId = Earlier[j].betId => i = j
           /\ \A m \in Messages : Content[m].bet # Earlier[i].betId
    /\ None \notin Conns
    /\ Prefetch \in Nat \ {0} /\ MaxFaults \in Nat

VARIABLES
    place,      \* place[m]: where message m is
    bound,      \* the durable queue exists and is bound to the exchange
    boot,       \* how far the process has started
    conn,       \* conn[c]: what the process does with connection c
    channel,    \* this.channel: the connection it belongs to
    reconnects, \* reconnect() loops that are asleep
    work,       \* work[c][m]: the handler of the delivery of m over c
    table,      \* stats_settlements
    faults

processVars == <<boot, conn, channel, reconnects>>
vars == <<place, bound, processVars, work, table, faults>>

TypeOK ==
    /\ place \in [Messages -> {"core", "dropped", "queue", "out", "acked"}]
    /\ bound \in BOOLEAN
    /\ boot \in {"connecting", "subscribing", "ready"}
    /\ conn \in [Conns ->
                   {"closed", "idle", "subscribing", "reopening", "consuming", "deaf"}]
    /\ channel \in Conns \union {None}
    /\ reconnects \in Nat
    /\ work \in [Conns -> [Messages -> {"none", "inserting", "acking", "nacking"}]]
    /\ \A i \in DOMAIN table : DOMAIN table[i] = DOMAIN RowOf(1, 1, 1, 1, 1, 1)
    /\ faults \in 0..MaxFaults

NoWork == [m \in Messages |-> "none"]

\* A first start, or one that finds the queue and the rows of an earlier life.
Init ==
    /\ place = [m \in Messages |-> "core"]
    /\ table \in {<<>>, Earlier}
    /\ bound = (table # <<>>)
    /\ boot = "connecting"
    /\ conn = [c \in Conns |-> "closed"]
    /\ channel = None
    /\ reconnects = 0
    /\ work = [c \in Conns |-> NoWork]
    /\ faults = 0

Fault(kind) ==
    /\ kind \in FaultKinds
    /\ faults < MaxFaults
    /\ faults' = faults + 1

\* The connection has a channel that is open.
Open(c) == conn[c] \notin {"closed", "deaf"}

\* No connection, and no handler still running from an old one, has the name.
Unused(c) == conn[c] = "closed" /\ work[c] = NoWork

-----------------------------------------------------------------------------
(* Core and the broker                                                     *)

\* Core writes to a durable exchange; without a queue bound to it, to nowhere.
Publish(m) ==
    /\ place[m] = "core"
    /\ \A n \in Messages : n < m => place[n] # "core"
    /\ place' = [place EXCEPT ![m] = IF bound THEN "queue" ELSE "dropped"]
    /\ UNCHANGED <<bound, processVars, work, table, faults>>

Unacked(c) == {m \in Messages : work[c][m] # "none"}

\* The consumer has asked for manual acks and at most Prefetch messages at a time.
Deliver(c, m) ==
    /\ conn[c] = "consuming"
    /\ place[m] = "queue"
    /\ \A n \in Messages : n < m => place[n] # "queue"
    /\ Cardinality(Unacked(c)) < Prefetch
    /\ place' = [place EXCEPT ![m] = "out"]
    /\ work' = [work EXCEPT ![c][m] = "inserting"]
    /\ UNCHANGED <<bound, processVars, table, faults>>

\* The broker queues again whatever cs have not acked.
Requeued(cs) ==
    [m \in Messages |->
        IF place[m] = "out" /\ \E c \in cs : Open(c) /\ work[c][m] # "none"
        THEN "queue" ELSE place[m]]

-----------------------------------------------------------------------------
(* SettlementsConsumer.handle and PostgresStorage.recordSettlement         *)

\* +profit on a win, -stake on a loss.
SignedProfitCents(content) == IF content.won THEN content.payout ELSE -content.stake

Settlement(m) ==
    LET c == Content[m]
    IN  RowOf(c.bet, c.user, c.name, c.at, c.stake, SignedProfitCents(c))

\* No key on bet_id.
Inserted_NoKey(m) == Append(table, Settlement(m))

\* ON CONFLICT DO NOTHING on bet_id.
Inserted(m) ==
    IF \E i \in DOMAIN table : table[i].betId = Content[m].bet THEN table
    ELSE Append(table, Settlement(m))

RecordSettlement(c, m) ==
    /\ work[c][m] = "inserting"
    /\ m \notin Unparsable
    /\ table' = Inserted(m)
    /\ work' = [work EXCEPT ![c][m] = "acking"]
    /\ UNCHANGED <<place, bound, processVars, faults>>

\* The error is logged and swallowed by handle.
HandleThrows_Swallowed(c, m) ==
    /\ work[c][m] = "inserting"
    /\ \/ m \in Unparsable /\ UNCHANGED faults
       \/ m \notin Unparsable /\ Fault("statement")
    /\ work' = [work EXCEPT ![c][m] = "acking"]
    /\ UNCHANGED <<place, bound, processVars, table>>

HandleThrows(c, m) ==
    /\ work[c][m] = "inserting"
    /\ \/ m \in Unparsable /\ UNCHANGED faults
       \/ m \notin Unparsable /\ Fault("statement")
    /\ work' = [work EXCEPT ![c][m] = "nacking"]
    /\ UNCHANGED <<place, bound, processVars, table>>

-----------------------------------------------------------------------------
(* MessagingService                                                        *)

\* Everything the process had is gone: connections, loops, handlers.
ProcessDies ==
    /\ place' = Requeued(Conns)
    /\ boot' = "connecting"
    /\ conn' = [c \in Conns |-> "closed"]
    /\ channel' = None
    /\ reconnects' = 0
    /\ work' = [c \in Conns |-> NoWork]

\* A kill, or a stop that closes the connection and starts no loop.
Crash == Fault("crash") /\ ProcessDies /\ UNCHANGED <<bound, table>>

\* onModuleInit: there is no subscription to replay yet.
Connect(c) ==
    /\ boot = "connecting"
    /\ Unused(c)
    /\ boot' = "subscribing"
    /\ conn' = [conn EXCEPT ![c] = "idle"]
    /\ channel' = c
    /\ UNCHANGED <<place, bound, reconnects, work, table, faults>>

\* The first attempt fails: boot goes on, a loop keeps trying.  Not counted
\* as a fault, there is one at most to a start.
ConnectFails ==
    /\ boot = "connecting"
    /\ boot' = "subscribing"
    /\ reconnects' = reconnects + 1
    /\ UNCHANGED <<place, bound, conn, channel, work, table, faults>>

\* Without a channel there is nothing to do: a loop will replay the subscription.
Subscribe ==
    /\ boot = "subscribing"
    /\ boot' = "ready"
    /\ conn' = IF channel = None THEN conn ELSE [conn EXCEPT ![channel] = "subscribing"]
    /\ UNCHANGED <<place, bound, channel, reconnects, work, table, faults>>

\* A new connection, and nothing declared on it.
Reopen_Bare(c) ==
    /\ reconnects > 0
    /\ Unused(c)
    /\ reconnects' = reconnects - 1
    /\ channel' = c
    /\ conn' = [conn EXCEPT ![c] = "idle"]
    /\ UNCHANGED <<place, bound, boot, work, table, faults>>

\* reconnect's open(): it replays the subscriptions there are.
Reopen(c) ==
    /\ reconnects > 0
    /\ Unused(c)
    /\ reconnects' = reconnects - 1
    /\ channel' = c
    /\ conn' = [conn EXCEPT ![c] = IF boot = "ready" THEN "reopening" ELSE "idle"]
    /\ UNCHANGED <<place, bound, boot, work, table, faults>>

\* prefetch, assertExchange, assertQueue, bindQueue, consume.
Consume(c) ==
    /\ conn[c] \in {"subscribing", "reopening"}
    /\ bound' = TRUE
    /\ conn' = [conn EXCEPT ![c] = "consuming"]
    /\ UNCHANGED <<place, boot, channel, reconnects, work, table, faults>>

\* What a handler wrote last on a channel that closes may not have arrived.
AcksLost(c) ==
    \E written \in SUBSET {m \in Messages : work[c][m] = "acking"} :
        work' = [work EXCEPT ![c] =
            [m \in Messages |-> IF m \in written THEN "none" ELSE @[m]]]

\* handleClose, whichever connection this.channel is of.  It starts a loop, and
\* the loop whose open() was cut short goes on too: later there are two
\* connections.  A subscribe() that is cut short fails the boot.
Drop(c) ==
    /\ conn[c] # "closed"
    /\ Fault("drop")
    /\ \/ /\ conn[c] \notin {"subscribing", "reopening"}
          /\ UNCHANGED bound
       \/ /\ conn[c] \in {"subscribing", "reopening"}
          /\ bound' \in {bound, TRUE}
    /\ \/ /\ conn[c] = "subscribing"
          /\ ProcessDies
       \/ /\ conn[c] # "subscribing"
          /\ place' = Requeued({c})
          /\ conn' = [conn EXCEPT ![c] = "closed"]
          /\ channel' = None
          /\ reconnects' = reconnects + (IF conn[c] = "reopening" THEN 2 ELSE 1)
          /\ AcksLost(c)
          /\ UNCHANGED boot
    /\ UNCHANGED table

\* The error is logged.  The connection stays, and nothing consumes over it.
\* A channel that closes while the queue is declared on it is not modelled.
ChannelCloses(c) ==
    /\ conn[c] = "consuming"
    /\ Fault("channel")
    /\ place' = Requeued({c})
    /\ conn' = [conn EXCEPT ![c] = "deaf"]
    /\ AcksLost(c)
    /\ UNCHANGED <<bound, boot, channel, reconnects, table>>

\* ack and nack after the handler.
Acknowledge(c, m) ==
    /\ Open(c)
    /\ \/ /\ work[c][m] = "acking"
          /\ place' = [place EXCEPT ![m] = "acked"]
       \/ /\ work[c][m] = "nacking"
          /\ place' = [place EXCEPT ![m] = "queue"]
    /\ work' = [work EXCEPT ![c][m] = "none"]
    /\ UNCHANGED <<bound, processVars, table, faults>>

\* On a closed channel both throw, in a promise nobody awaits.
AcknowledgeThrows(c, m) ==
    /\ ~Open(c)
    /\ work[c][m] \in {"acking", "nacking"}
    /\ ProcessDies
    /\ UNCHANGED <<bound, table, faults>>

-----------------------------------------------------------------------------

ProcessStep(c) == Connect(c) \/ Subscribe \/ Reopen(c) \/ Consume(c)

HandlerStep(c, m) ==
    \/ RecordSettlement(c, m) \/ HandleThrows(c, m)
    \/ Acknowledge(c, m) \/ AcknowledgeThrows(c, m)

Next ==
    \/ \E m \in Messages : Publish(m)
    \/ ConnectFails \/ Crash
    \/ \E c \in Conns :
           \/ ProcessStep(c) \/ Drop(c) \/ ChannelCloses(c)
           \/ \E m \in Messages : Deliver(c, m) \/ HandlerStep(c, m)

Spec == Init /\ [][Next]_vars

\* The process gets on with what it has begun and the broker with its
\* deliveries.  A message that is handed back time and again is at the head of
\* the queue in between; the broker fills every free slot of a consumer, so
\* the ones behind it are not passed over for ever.
Fairness ==
    /\ WF_vars(\E c \in Conns : ProcessStep(c))
    /\ \A m \in Messages :
           /\ WF_vars(\E c \in Conns : HandlerStep(c, m))
           /\ SF_vars(\E c \in Conns : Deliver(c, m))

FairSpec == Spec /\ Fairness

-----------------------------------------------------------------------------
(* Properties                                                              *)

Counted(m) == \E i \in DOMAIN table : table[i].betId = Content[m].bet

\* "exactly-once" (recordSettlement): a bet has at most one row, and the row is
\* the one of its message, however often the message is delivered, to however
\* many connections at once.
CountedOnce ==
    /\ \A i, j \in DOMAIN table : table[i].betId = table[j].betId => i = j
    /\ \A i \in DOMAIN table :
           \/ i \in DOMAIN Earlier /\ table[i] = Earlier[i]
           \/ \E m \in Messages :
                  /\ place[m] \notin {"core", "dropped"}
                  /\ table[i] = Settlement(m)

\* A settlement the queue has accepted is in it, or out with an open
\* connection, or counted: acks follow inserts, and what a connection took
\* with it comes back.
NothingLost ==
    \A m \in Messages :
        /\ place[m] = "acked" => Counted(m)
        /\ place[m] = "out" => \E c \in Conns : Open(c) /\ work[c][m] # "none"

\* A settlement the queue has accepted is counted in the end, whatever crashes,
\* drops and failed statements, unless messages that never parse fill a consumer
\* or, from some time on, the process has a connection without its channel: a
\* channel that closes alone is not opened again, and if no handler was running
\* that could throw, the process lives on and consumes nothing.
SettlementsAreCounted ==
    Cardinality(Unparsable) < Prefetch =>
        \A m \in Messages \ Unparsable :
            place[m] = "queue" ~> (Counted(m) \/ [](\E c \in Conns : conn[c] = "deaf"))

Users == {Content[m].user : m \in Messages} \union {Earlier[i].userId : i \in DOMAIN Earlier}

\* The chart ends where the summary is: days ascend, each has its point, and
\* the last point is the ROI of all the user's bets (GET stats/me/pnl, summary).
ChartEndsAtSummary ==
    \A u \in Users :
        LET rows == UserRows(table, u)
            series == CumulativeRoiSeries(rows)
        IN  /\ \A i, j \in DOMAIN series : i < j => series[i].date < series[j].date
            /\ DOMAIN rows # {} => Last(series).roiPct = Summarise(rows).roiPct

\* The leaderboard shows each player as their own summary does and under a name
\* if any of their bets has one, in the order of ROI, and leaves out only who has
\* too few bets or, when it is full, a ROI no better than the last one on it.
LeaderboardRanks ==
    LET board == Leaderboard(table)
        shown == {board[i].userId : i \in DOMAIN board}
    IN  /\ \A i, j \in DOMAIN board :
               i < j => /\ board[i].roiPct >= board[j].roiPct
                        /\ board[i].userId # board[j].userId
        /\ \A i \in DOMAIN board :
               LET rows == UserRows(table, board[i].userId)
                   own == Summarise(rows)
               IN  /\ board[i].roiPct = own.roiPct
                   /\ board[i].netProfitCents = own.netProfitCents
                   /\ board[i].settledCount = own.settledCount
                   /\ own.settledCount >= MinSettled
                   /\ board[i].userName = None => \A r \in ToSet(rows) : r.userName = None
        /\ \A u \in Users \ shown :
               LET own == Summarise(UserRows(table, u))
               IN  \/ own.settledCount < MinSettled
                   \/ /\ Len(board) = Limit
                      /\ \A i \in DOMAIN board : board[i].roiPct >= own.roiPct
=============================================================================
