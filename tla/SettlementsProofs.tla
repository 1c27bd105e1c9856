-------------------------- MODULE SettlementsProofs --------------------------
(***************************************************************************)
(* For any messages, connections, prefetch and faults: a settlement is     *)
(* counted at most once, as its message says, and none that the queue has  *)
(* accepted is lost before it is counted.  For any table of rows: the      *)
(* chart ends at the summary and the leaderboard ranks its players.        *)
(*                                                                         *)
(* Two connections may be open at once, and a handler may outlive its      *)
(* connection.  What keeps a message from being lost is that one that is   *)
(* out is worked on over exactly one open connection (Held, Single), since *)
(* a name is not taken again before the old handlers are done, and that a  *)
(* handler that acks has inserted (AckedAreCounted).  That subscribe()     *)
(* finds an open channel or none (ChannelIsOpen) needs that no connection  *)
(* consumes, and so none loses its channel, before (ConsumersAreBooted).   *)
(***************************************************************************)
EXTENDS Settlements, SequenceTheorems, SumTheorems, TLAPS

Rows == {Settlement(m) : m \in Messages} \union {Earlier[i] : i \in 1..Len(Earlier)}

Types ==
    /\ place \in [Messages -> {"core", "dropped", "queue", "out", "acked"}]
    /\ conn \in [Conns ->
                   {"closed", "idle", "subscribing", "reopening", "consuming", "deaf"}]
    /\ channel \in Conns \union {None}
    /\ work \in [Conns -> [Messages -> {"none", "inserting", "acking", "nacking"}]]
    /\ table \in Seq(Rows)

WorksOn(c, m) == Open(c) /\ work[c][m] # "none"

Held == \A m \in Messages : place[m] = "out" <=> \E c \in Conns : WorksOn(c, m)

Single ==
    \A m \in Messages : \A c, d \in Conns : WorksOn(c, m) /\ WorksOn(d, m) => c = d

AckedAreCounted ==
    \A m \in Messages :
        /\ place[m] = "acked" => Counted(m)
        /\ \A c \in Conns : work[c][m] = "acking" => Counted(m)

Accepted(m) == place[m] \notin {"core", "dropped"}

WorkIsAccepted == \A c \in Conns, m \in Messages : work[c][m] # "none" => Accepted(m)

ConsumersAreBooted ==
    \A c \in Conns : conn[c] \notin {"closed", "idle"} => boot = "ready"

ChannelIsOpen == boot # "ready" /\ channel # None => Open(channel)

IInv ==
    /\ Types
    /\ CountedOnce
    /\ Held /\ Single
    /\ AckedAreCounted
    /\ WorkIsAccepted
    /\ ConsumersAreBooted /\ ChannelIsOpen

-----------------------------------------------------------------------------
(* The table                                                               *)

LEMMA LengthOf ==
    ASSUME NEW n \in Nat, NEW s, s = [i \in 1..n |-> s[i]]
    PROVE  s \in Seq({s[i] : i \in 1..n}) /\ Len(s) = n
<1> DEFINE S == {s[i] : i \in 1..n}
<1>1. s \in [1..n -> S]
  OBVIOUS
<1> HIDE DEF S
<1>2. s \in Seq(S)
  BY <1>1, SeqDef
<1>3. Len(s) = n
  BY <1>1, <1>2, LenProperties
<1> QED BY <1>2, <1>3 DEF S

LEMMA EarlierIsASeq ==
    DOMAIN Earlier = 1..Len(Earlier) /\ Earlier \in Seq(Rows)
<1>1. Len(Earlier) \in Nat /\ Earlier = [i \in 1..Len(Earlier) |-> Earlier[i]]
  BY SettlementsAssumption
<1>2. Earlier \in Seq({Earlier[i] : i \in 1..Len(Earlier)})
  BY <1>1, LengthOf
<1>3. {Earlier[i] : i \in 1..Len(Earlier)} \in SUBSET Rows
  BY DEF Rows
<1> QED BY <1>1, <1>2, <1>3, SeqDef

LEMMA SettlementOfBet ==
    \A m \in Messages : Settlement(m).betId = Content[m].bet
  BY DEF Settlement, RowOf

LEMMA BetOfSettlement ==
    ASSUME NEW m \in Messages, NEW n \in Messages,
           Settlement(m).betId = Settlement(n).betId
    PROVE  m = n
  BY SettlementOfBet, SettlementsAssumption

\* What ON CONFLICT DO NOTHING leaves: rows stay, and the bet is counted.
LEMMA Inserting ==
    ASSUME Types, CountedOnce, NEW m \in Messages, Accepted(m),
           table' = Inserted(m), place' = place
    PROVE  /\ table' \in Seq(Rows)
           /\ CountedOnce'
           /\ \A n \in Messages : Counted(n) \/ n = m => Counted(n)'
<1>1. CASE \E i \in DOMAIN table : table[i].betId = Content[m].bet
  <2>1. table' = table
    BY <1>1 DEF Inserted
  <2> QED BY <1>1, <2>1 DEF Types, CountedOnce, Counted
<1>2. CASE ~\E i \in DOMAIN table : table[i].betId = Content[m].bet
  <2>1. table' = Append(table, Settlement(m))
    BY <1>2 DEF Inserted
  <2>2. Settlement(m) \in Rows /\ table \in Seq(Rows)
    BY DEF Rows, Types
  <2>3. /\ table' \in Seq(Rows)
        /\ DOMAIN table' = DOMAIN table \union {Len(table) + 1}
        /\ Len(table) + 1 \notin DOMAIN table
        /\ \A i \in DOMAIN table : table'[i] = table[i]
        /\ table'[Len(table) + 1] = Settlement(m)
    BY <2>1, <2>2, AppendProperties, LenProperties
  <2>4. Settlement(m).betId = Content[m].bet
    BY SettlementOfBet
  <2>5. \A i, j \in DOMAIN table' : table'[i].betId = table'[j].betId => i = j
    BY <1>2, <2>3, <2>4 DEF CountedOnce
  <2>6. \A i \in DOMAIN table' :
            \/ i \in DOMAIN Earlier /\ table'[i] = Earlier[i]
            \/ \E n \in Messages :
                   place'[n] \notin {"core", "dropped"} /\ table'[i] = Settlement(n)
    BY <2>3 DEF CountedOnce, Accepted
  <2>7. \A n \in Messages : Counted(n) \/ n = m => Counted(n)'
    BY <2>3, <2>4 DEF Counted
  <2> QED BY <2>3, <2>5, <2>6, <2>7 DEF CountedOnce
<1> QED BY <1>1, <1>2

\* Rows keep their message while no message leaves the broker.
LEMMA TableStays ==
    ASSUME Types, CountedOnce, AckedAreCounted,
           UNCHANGED table,
           \A m \in Messages : Accepted(m) => Accepted(m)'
    PROVE  /\ CountedOnce'
           /\ \A m \in Messages : Counted(m) => Counted(m)'
  BY DEF CountedOnce, Counted, Accepted

-----------------------------------------------------------------------------

LEMMA InitIInv == Init => IInv
<1> SUFFICES ASSUME Init PROVE IInv
  OBVIOUS
<1>1. ASSUME table = <<>> PROVE CountedOnce /\ table \in Seq(Rows)
  <2>1. table \in Seq(Rows) /\ DOMAIN table = {}
    BY <1>1, EmptySeq
  <2> QED BY <2>1 DEF CountedOnce
<1>2. ASSUME table = Earlier PROVE CountedOnce /\ table \in Seq(Rows)
  <2>1. \A i, j \in DOMAIN table : table[i].betId = table[j].betId => i = j
    BY <1>2, EarlierIsASeq, SettlementsAssumption
  <2> QED BY <1>2, <2>1, EarlierIsASeq DEF CountedOnce
<1>3. CountedOnce /\ table \in Seq(Rows)
  BY <1>1, <1>2 DEF Init
<1>4. Types
  BY <1>3 DEF Init, Types, NoWork
<1>5. Held /\ Single /\ AckedAreCounted /\ WorkIsAccepted
  BY DEF Init, NoWork, Held, Single, WorksOn, Open, AckedAreCounted, WorkIsAccepted
<1>6. ConsumersAreBooted /\ ChannelIsOpen
  BY DEF Init, ConsumersAreBooted, ChannelIsOpen
<1> QED BY <1>3, <1>4, <1>5, <1>6 DEF IInv

\* Whatever ends the process.
LEMMA DyingKeepsIInv ==
    ASSUME IInv, ProcessDies, UNCHANGED table
    PROVE  IInv'
<1>1. Types'
  BY DEF IInv, Types, ProcessDies, Requeued, NoWork
<1>2. \A m \in Messages : /\ place'[m] # "out"
                          /\ Accepted(m) => Accepted(m)'
                          /\ place'[m] = "acked" => place[m] = "acked"
  BY DEF IInv, Types, ProcessDies, Requeued, Held, WorksOn, Accepted
<1>3. \A c \in Conns : ~Open(c)'
  BY DEF ProcessDies, Open
<1>4. \A c \in Conns, m \in Messages : work'[c][m] = "none"
  BY DEF ProcessDies, NoWork
<1>5. CountedOnce' /\ \A m \in Messages : Counted(m) => Counted(m)'
  BY <1>2, TableStays DEF IInv
<1>6. Held' /\ Single' /\ WorkIsAccepted'
  BY <1>2, <1>3, <1>4 DEF Held, Single, WorksOn, WorkIsAccepted
<1>7. AckedAreCounted'
  BY <1>2, <1>4, <1>5 DEF IInv, AckedAreCounted
<1>8. ConsumersAreBooted' /\ ChannelIsOpen'
  BY DEF ProcessDies, ConsumersAreBooted, ChannelIsOpen
<1> QED BY <1>1, <1>5, <1>6, <1>7, <1>8 DEF IInv

\* A connection is opened, or what an open one does changes.
LEMMA ConnectingKeepsIInv ==
    ASSUME IInv, UNCHANGED <<place, work, table>>,
           NEW c \in Conns, Unused(c) \/ Open(c),
           NEW does \in {"idle", "subscribing", "reopening", "consuming"},
           conn' = [conn EXCEPT ![c] = does],
           channel' \in {channel, c},
           boot = "ready" => boot' = "ready",
           does # "idle" => boot' = "ready"
    PROVE  IInv'
<1>1. Types'
  BY DEF IInv, Types
<1>2. \A d \in Conns : Open(d)' <=> Open(d) \/ d = c
  BY DEF IInv, Types, Open, Unused
<1>3. \A d \in Conns, m \in Messages : WorksOn(d, m)' <=> WorksOn(d, m)
  BY <1>2 DEF WorksOn, Unused, NoWork
<1>4. CountedOnce' /\ \A m \in Messages : Counted(m) => Counted(m)'
  BY TableStays DEF IInv, Accepted
<1>5. Held' /\ Single'
  BY <1>3 DEF IInv, Held, Single
<1>6. AckedAreCounted'
  BY <1>4 DEF IInv, AckedAreCounted
<1>7. WorkIsAccepted'
  BY DEF IInv, WorkIsAccepted, Accepted
<1>8. ChannelIsOpen'
  BY <1>2 DEF IInv, Types, ChannelIsOpen
<1>9. ConsumersAreBooted'
  BY DEF IInv, Types, ConsumersAreBooted
<1> QED BY <1>1, <1>4, <1>5, <1>6, <1>7, <1>8, <1>9 DEF IInv

-----------------------------------------------------------------------------
(* The steps                                                               *)

LEMMA PublishStep ==
    ASSUME IInv, NEW m \in Messages, Publish(m)
    PROVE  IInv'
<1>1. /\ place' \in [Messages -> {"core", "dropped", "queue", "out", "acked"}]
      /\ place'[m] \in {"queue", "dropped"}
      /\ \A n \in Messages : n # m => place'[n] = place[n]
      /\ place[m] = "core"
      /\ UNCHANGED <<boot, conn, channel, work, table>>
  BY DEF IInv, Types, Publish, processVars
<1>2. Types'
  BY <1>1 DEF IInv, Types
<1>3. \A n \in Messages : Accepted(n) => Accepted(n)'
  BY <1>1 DEF Accepted
<1>4. CountedOnce' /\ \A n \in Messages : Counted(n) => Counted(n)'
  BY <1>1, <1>3, TableStays DEF IInv
<1>5. \A c \in Conns, n \in Messages : WorksOn(c, n)' <=> WorksOn(c, n)
  BY <1>1 DEF WorksOn, Open
<1>6. \A n \in Messages : (place'[n] = "out" <=> place[n] = "out")
                          /\ (place'[n] = "acked" <=> place[n] = "acked")
  BY <1>1
<1>7. Held' /\ Single'
  BY <1>5, <1>6 DEF IInv, Held, Single
<1>8. AckedAreCounted' /\ WorkIsAccepted'
  BY <1>1, <1>3, <1>4, <1>6 DEF IInv, AckedAreCounted, WorkIsAccepted
<1>9. ConsumersAreBooted' /\ ChannelIsOpen'
  BY <1>1 DEF IInv, ConsumersAreBooted, ChannelIsOpen, Open
<1> QED BY <1>2, <1>4, <1>7, <1>8, <1>9 DEF IInv

LEMMA DeliverStep ==
    ASSUME IInv, NEW c \in Conns, NEW m \in Messages, Deliver(c, m)
    PROVE  IInv'
<1>1. /\ place' = [place EXCEPT ![m] = "out"]
      /\ work' = [work EXCEPT ![c][m] = "inserting"]
      /\ place[m] = "queue" /\ Open(c)
      /\ UNCHANGED <<boot, conn, channel, table>>
  BY DEF Deliver, processVars, Open
<1>2. Types'
  BY <1>1 DEF IInv, Types
<1>3. \A n \in Messages : Accepted(n) => Accepted(n)'
  BY <1>1 DEF IInv, Types, Accepted
<1>4. CountedOnce' /\ \A n \in Messages : Counted(n) => Counted(n)'
  BY <1>1, <1>3, TableStays DEF IInv
<1>5. \A d \in Conns, n \in Messages :
          work'[d][n] = IF d = c /\ n = m THEN "inserting" ELSE work[d][n]
  BY <1>1 DEF IInv, Types
<1>6. \A d \in Conns, n \in Messages :
          WorksOn(d, n)' <=> WorksOn(d, n) \/ (d = c /\ n = m)
  BY <1>1, <1>5 DEF WorksOn, Open
<1>7. \A d \in Conns : ~WorksOn(d, m)
  BY <1>1 DEF IInv, Held
<1>8. \A n \in Messages : place'[n] = IF n = m THEN "out" ELSE place[n]
  BY <1>1 DEF IInv, Types
<1>9. Held'
  BY <1>6, <1>8 DEF IInv, Held
<1>10. Single'
  BY <1>6, <1>7 DEF IInv, Single
<1>11. AckedAreCounted'
  BY <1>4, <1>5, <1>8 DEF IInv, AckedAreCounted
<1>12. WorkIsAccepted'
  BY <1>3, <1>5, <1>8 DEF IInv, WorkIsAccepted, Accepted
<1>13. ConsumersAreBooted' /\ ChannelIsOpen'
  BY <1>1 DEF IInv, ConsumersAreBooted, ChannelIsOpen, Open
<1> QED BY <1>2, <1>4, <1>9, <1>10, <1>11, <1>12, <1>13 DEF IInv

\* The handler goes on, having inserted if it is going to ack.
LEMMA HandlerGoesOn ==
    ASSUME IInv, NEW c \in Conns, NEW m \in Messages,
           work[c][m] = "inserting",
           NEW does \in {"acking", "nacking"},
           work' = [work EXCEPT ![c][m] = does],
           UNCHANGED <<boot, place, conn, channel>>,
           table' \in Seq(Rows), CountedOnce',
           \A n \in Messages : Counted(n) => Counted(n)',
           does = "acking" => Counted(m)'
    PROVE  IInv'
<1>1. Types'
  BY DEF IInv, Types
<1>2. \A d \in Conns, n \in Messages :
          work'[d][n] = IF d = c /\ n = m THEN does ELSE work[d][n]
  BY DEF IInv, Types
<1>3. \A d \in Conns, n \in Messages : WorksOn(d, n)' <=> WorksOn(d, n)
  BY <1>2 DEF WorksOn, Open
<1>4. Held' /\ Single'
  BY <1>3 DEF IInv, Held, Single
<1>5. AckedAreCounted'
  BY <1>2 DEF IInv, AckedAreCounted
<1>6. WorkIsAccepted'
  BY <1>2 DEF IInv, WorkIsAccepted, Accepted
<1>7. ConsumersAreBooted' /\ ChannelIsOpen'
  BY DEF IInv, ConsumersAreBooted, ChannelIsOpen, Open
<1> QED BY <1>1, <1>4, <1>5, <1>6, <1>7 DEF IInv

LEMMA RecordStep ==
    ASSUME IInv, NEW c \in Conns, NEW m \in Messages, RecordSettlement(c, m)
    PROVE  IInv'
<1>1. /\ work[c][m] = "inserting" /\ table' = Inserted(m)
      /\ work' = [work EXCEPT ![c][m] = "acking"]
      /\ UNCHANGED <<boot, place, conn, channel>>
  BY DEF RecordSettlement, processVars
<1>2. Accepted(m)
  BY <1>1 DEF IInv, WorkIsAccepted
<1>3. /\ table' \in Seq(Rows) /\ CountedOnce'
      /\ \A n \in Messages : Counted(n) \/ n = m => Counted(n)'
  BY <1>1, <1>2, Inserting DEF IInv
<1> QED BY <1>1, <1>3, HandlerGoesOn

LEMMA ThrowStep ==
    ASSUME IInv, NEW c \in Conns, NEW m \in Messages, HandleThrows(c, m)
    PROVE  IInv'
<1>1. /\ work[c][m] = "inserting"
      /\ work' = [work EXCEPT ![c][m] = "nacking"]
      /\ UNCHANGED <<boot, place, conn, channel, table>>
  BY DEF HandleThrows, processVars
<1>2. table' \in Seq(Rows)
  BY <1>1 DEF IInv, Types
<1>3. CountedOnce' /\ \A n \in Messages : Counted(n) => Counted(n)'
  BY <1>1, TableStays DEF IInv, Accepted
<1> QED BY <1>1, <1>2, <1>3, HandlerGoesOn

LEMMA AcknowledgeStep ==
    ASSUME IInv, NEW c \in Conns, NEW m \in Messages, Acknowledge(c, m)
    PROVE  IInv'
<1>1. /\ Open(c)
      /\ work[c][m] \in {"acking", "nacking"}
      /\ work' = [work EXCEPT ![c][m] = "none"]
      /\ UNCHANGED <<boot, conn, channel, table>>
  BY DEF Acknowledge, processVars
<1>2. \A n \in Messages :
          place'[n] = IF n = m THEN IF work[c][m] = "acking" THEN "acked" ELSE "queue"
                      ELSE place[n]
  BY DEF IInv, Types, Acknowledge
<1>3. Types'
  BY <1>1 DEF IInv, Types, Acknowledge
<1>4. \A n \in Messages : Accepted(n) => Accepted(n)'
  BY <1>2 DEF Accepted
<1>5. CountedOnce' /\ \A n \in Messages : Counted(n) => Counted(n)'
  BY <1>1, <1>4, TableStays DEF IInv
<1>6. \A d \in Conns, n \in Messages :
          work'[d][n] = IF d = c /\ n = m THEN "none" ELSE work[d][n]
  BY <1>1 DEF IInv, Types
<1>7. WorksOn(c, m)
  BY <1>1 DEF WorksOn
<1>8. \A d \in Conns : ~WorksOn(d, m)'
  BY <1>1, <1>6, <1>7 DEF IInv, Single, WorksOn, Open
<1>9. \A d \in Conns, n \in Messages : n # m => (WorksOn(d, n)' <=> WorksOn(d, n))
  BY <1>1, <1>6 DEF WorksOn, Open
<1>10. Held'
  BY <1>2, <1>8, <1>9 DEF IInv, Held
<1>11. Single'
  BY <1>8, <1>9 DEF IInv, Single
<1>12. AckedAreCounted'
  BY <1>2, <1>5, <1>6 DEF IInv, AckedAreCounted
<1>13. WorkIsAccepted'
  BY <1>4, <1>6 DEF IInv, WorkIsAccepted
<1>14. ConsumersAreBooted' /\ ChannelIsOpen'
  BY <1>1 DEF IInv, ConsumersAreBooted, ChannelIsOpen, Open
<1> QED BY <1>3, <1>5, <1>10, <1>11, <1>12, <1>13, <1>14 DEF IInv

\* What the channel held is queued again, and held by no other.
LEMMA ClosingKeepsIInv ==
    ASSUME IInv, NEW c \in Conns, conn[c] # "closed",
           place' = Requeued({c}),
           NEW left \in {"closed", "deaf"}, conn' = [conn EXCEPT ![c] = left],
           channel' = None \/ (channel' = channel /\ boot = "ready"),
           left = "deaf" => boot = "ready",
           AcksLost(c), UNCHANGED <<boot, table>>
    PROVE  IInv'
<1>1. PICK written \in SUBSET {m \in Messages : work[c][m] = "acking"} :
          work' = [work EXCEPT ![c] = [m \in Messages |-> IF m \in written THEN "none" ELSE @[m]]]
  BY DEF AcksLost
<1>2. \A d \in Conns, m \in Messages :
          work'[d][m] = IF d = c /\ m \in written THEN "none" ELSE work[d][m]
  BY <1>1 DEF IInv, Types
<1>3. \A m \in Messages : place'[m] = IF WorksOn(c, m) THEN "queue" ELSE place[m]
  BY DEF Requeued, WorksOn, IInv, Held
<1>4. Types'
  <2>1. place' \in [Messages -> {"core", "dropped", "queue", "out", "acked"}]
    BY DEF IInv, Types, Requeued
  <2>2. work' \in [Conns -> [Messages -> {"none", "inserting", "acking", "nacking"}]]
    BY <1>1 DEF IInv, Types
  <2> QED BY <2>1, <2>2 DEF IInv, Types
<1>5. \A m \in Messages : Accepted(m) => Accepted(m)'
  BY <1>3 DEF Accepted
<1>6. CountedOnce' /\ \A m \in Messages : Counted(m) => Counted(m)'
  BY <1>5, TableStays DEF IInv
<1>7. \A d \in Conns : Open(d)' <=> Open(d) /\ d # c
  BY DEF IInv, Types, Open
<1>8. \A d \in Conns, m \in Messages : WorksOn(d, m)' <=> WorksOn(d, m) /\ d # c
  BY <1>2, <1>7 DEF WorksOn
<1>9. Held'
  BY <1>3, <1>8 DEF IInv, Held, Single
<1>10. Single'
  BY <1>8 DEF IInv, Single
<1>11. AckedAreCounted'
  BY <1>2, <1>3, <1>6 DEF IInv, AckedAreCounted
<1>12. WorkIsAccepted'
  BY <1>2, <1>5 DEF IInv, WorkIsAccepted
<1>13. ConsumersAreBooted' /\ ChannelIsOpen'
  BY DEF IInv, Types, ConsumersAreBooted, ChannelIsOpen
<1> QED BY <1>4, <1>6, <1>9, <1>10, <1>11, <1>12, <1>13 DEF IInv

LEMMA DropStep ==
    ASSUME IInv, NEW c \in Conns, Drop(c)
    PROVE  IInv'
<1>1. CASE conn[c] = "subscribing"
  <2>1. ProcessDies /\ UNCHANGED table
    BY <1>1 DEF Drop
  <2> QED BY <2>1, DyingKeepsIInv
<1>2. CASE conn[c] # "subscribing"
  <2>1. /\ conn[c] # "closed" /\ place' = Requeued({c})
        /\ conn' = [conn EXCEPT ![c] = "closed"] /\ channel' = None
        /\ AcksLost(c) /\ UNCHANGED <<boot, table>>
    BY <1>2 DEF Drop
  <2> QED BY <2>1, ClosingKeepsIInv
<1> QED BY <1>1, <1>2

LEMMA ChannelClosesStep ==
    ASSUME IInv, NEW c \in Conns, ChannelCloses(c)
    PROVE  IInv'
<1>1. /\ conn[c] = "consuming" /\ place' = Requeued({c})
      /\ conn' = [conn EXCEPT ![c] = "deaf"] /\ channel' = channel
      /\ AcksLost(c) /\ UNCHANGED <<boot, table>>
  BY DEF ChannelCloses
<1>2. boot = "ready"
  BY <1>1 DEF IInv, ConsumersAreBooted
<1> QED BY <1>1, <1>2, ClosingKeepsIInv

\* The start goes on, or nothing happens.
LEMMA BootingKeepsIInv ==
    ASSUME IInv, UNCHANGED <<place, conn, channel, work, table>>,
           boot' = boot \/ boot # "ready"
    PROVE  IInv'
  BY DEF IInv, Types, CountedOnce, Held, Single, WorksOn, Open, AckedAreCounted,
         Counted, WorkIsAccepted, Accepted, ConsumersAreBooted, ChannelIsOpen

LEMMA ProcessStepKeepsIInv ==
    ASSUME IInv, NEW c \in Conns, ProcessStep(c)
    PROVE  IInv'
<1>1. CASE Connect(c)
  <2>1. /\ Unused(c) /\ conn' = [conn EXCEPT ![c] = "idle"] /\ channel' = c
        /\ boot # "ready" /\ UNCHANGED <<place, work, table>>
    BY <1>1 DEF Connect
  <2> QED BY <2>1, ConnectingKeepsIInv
<1>2. CASE Subscribe
  <2>1. UNCHANGED <<place, work, table, channel>> /\ boot # "ready" /\ boot' = "ready"
    BY <1>2 DEF Subscribe
  <2>2. CASE channel = None
    <3>1. UNCHANGED <<place, conn, channel, work, table>>
      BY <1>2, <2>2 DEF Subscribe
    <3> QED BY <2>1, <3>1, BootingKeepsIInv
  <2>3. CASE channel # None
    <3>1. channel \in Conns /\ Open(channel)
      BY <2>1, <2>3 DEF IInv, Types, ChannelIsOpen
    <3>2. conn' = [conn EXCEPT ![channel] = "subscribing"]
      BY <1>2, <2>3 DEF Subscribe
    <3> QED BY <2>1, <3>1, <3>2, ConnectingKeepsIInv
  <2> QED BY <2>2, <2>3
<1>3. CASE Reopen(c)
  <2>1. PICK does \in {"reopening", "idle"} :
            /\ Unused(c) /\ conn' = [conn EXCEPT ![c] = does] /\ channel' = c
            /\ UNCHANGED <<boot, place, work, table>>
            /\ does = "reopening" => boot = "ready"
    BY <1>3 DEF Reopen
  <2> QED BY <2>1, ConnectingKeepsIInv
<1>4. CASE Consume(c)
  <2>1. /\ Open(c) /\ conn' = [conn EXCEPT ![c] = "consuming"]
        /\ UNCHANGED <<boot, place, channel, work, table>>
        /\ conn[c] \in {"subscribing", "reopening"}
    BY <1>4 DEF Consume, Open
  <2>2. boot = "ready"
    BY <2>1 DEF IInv, ConsumersAreBooted
  <2> QED BY <2>1, <2>2, ConnectingKeepsIInv
<1> QED BY <1>1, <1>2, <1>3, <1>4 DEF ProcessStep

LEMMA NextIInv == IInv /\ [Next]_vars => IInv'
<1> SUFFICES ASSUME IInv, [Next]_vars PROVE IInv'
  OBVIOUS
<1>1. CASE UNCHANGED vars
  BY <1>1, BootingKeepsIInv DEF vars, processVars
<1>2. CASE \E m \in Messages : Publish(m)
  BY <1>2, PublishStep
<1>3. CASE ConnectFails
  BY <1>3, BootingKeepsIInv DEF ConnectFails
<1>4. CASE Crash
  BY <1>4, DyingKeepsIInv DEF Crash
<1>5. CASE \E c \in Conns : ProcessStep(c)
  BY <1>5, ProcessStepKeepsIInv
<1>6. CASE \E c \in Conns : Drop(c)
  BY <1>6, DropStep
<1>7. CASE \E c \in Conns : ChannelCloses(c)
  BY <1>7, ChannelClosesStep
<1>8. ASSUME NEW c \in Conns, NEW m \in Messages, Deliver(c, m) \/ HandlerStep(c, m)
      PROVE  IInv'
  <2>1. CASE Deliver(c, m)
    BY <2>1, DeliverStep
  <2>2. CASE RecordSettlement(c, m)
    BY <2>2, RecordStep
  <2>3. CASE HandleThrows(c, m)
    BY <2>3, ThrowStep
  <2>4. CASE Acknowledge(c, m)
    BY <2>4, AcknowledgeStep
  <2>5. CASE AcknowledgeThrows(c, m)
    BY <2>5, DyingKeepsIInv DEF AcknowledgeThrows
  <2> QED BY <1>8, <2>1, <2>2, <2>3, <2>4, <2>5 DEF HandlerStep
<1> QED BY <1>1, <1>2, <1>3, <1>4, <1>5, <1>6, <1>7, <1>8 DEF Next

-----------------------------------------------------------------------------
(* Types                                                                   *)

\* The part of TypeOK that nothing else depends on.
ProcessTypes ==
    /\ bound \in BOOLEAN
    /\ boot \in {"connecting", "subscribing", "ready"}
    /\ reconnects \in Nat
    /\ faults \in 0..MaxFaults

LEMMA CountedFaults ==
    ASSUME faults \in 0..MaxFaults, NEW kind, Fault(kind) PROVE faults' \in 0..MaxFaults
  BY SettlementsAssumption DEF Fault

LEMMA NextProcessTypes == ProcessTypes /\ [Next]_vars => ProcessTypes'
<1> SUFFICES ASSUME ProcessTypes, [Next]_vars PROVE ProcessTypes'
  OBVIOUS
<1> USE DEF ProcessTypes
<1>1. CASE UNCHANGED vars
  BY <1>1 DEF vars, processVars
<1>2. ASSUME NEW m \in Messages, Publish(m) PROVE ProcessTypes'
  BY <1>2 DEF Publish, processVars
<1>3. CASE ConnectFails
  BY <1>3 DEF ConnectFails
<1>4. CASE Crash
  BY <1>4, CountedFaults DEF Crash, ProcessDies
<1>5. ASSUME NEW c \in Conns, ProcessStep(c) PROVE ProcessTypes'
  <2>1. CASE Connect(c)
    BY <2>1 DEF Connect
  <2>2. CASE Subscribe
    BY <2>2 DEF Subscribe
  <2>3. CASE Reopen(c)
    BY <2>3 DEF Reopen
  <2>4. CASE Consume(c)
    BY <2>4 DEF Consume
  <2> QED BY <1>5, <2>1, <2>2, <2>3, <2>4 DEF ProcessStep
<1>6. ASSUME NEW c \in Conns, Drop(c) PROVE ProcessTypes'
  <2>1. faults' \in 0..MaxFaults
    BY <1>6, CountedFaults DEF Drop
  <2>2. bound' \in BOOLEAN
    BY <1>6 DEF Drop
  <2>3. boot' \in {"connecting", "subscribing", "ready"} /\ reconnects' \in Nat
    <3>1. CASE conn[c] = "subscribing" /\ ProcessDies
      BY <3>1 DEF ProcessDies
    <3>2. CASE /\ reconnects' = reconnects + (IF conn[c] = "reopening" THEN 2 ELSE 1)
               /\ UNCHANGED boot
      BY <3>2
    <3> QED BY <1>6, <3>1, <3>2 DEF Drop
  <2> QED BY <2>1, <2>2, <2>3
<1>7. ASSUME NEW c \in Conns, ChannelCloses(c) PROVE ProcessTypes'
  BY <1>7, CountedFaults DEF ChannelCloses
<1>8. ASSUME NEW c \in Conns, NEW m \in Messages, Deliver(c, m) \/ HandlerStep(c, m)
      PROVE  ProcessTypes'
  <2>1. CASE Deliver(c, m)
    BY <2>1 DEF Deliver, processVars
  <2>2. CASE RecordSettlement(c, m)
    BY <2>2 DEF RecordSettlement, processVars
  <2>3. CASE HandleThrows(c, m)
    BY <2>3, CountedFaults DEF HandleThrows, processVars
  <2>4. CASE Acknowledge(c, m)
    BY <2>4 DEF Acknowledge, processVars
  <2>5. CASE AcknowledgeThrows(c, m)
    BY <2>5 DEF AcknowledgeThrows, ProcessDies
  <2> QED BY <1>8, <2>1, <2>2, <2>3, <2>4, <2>5 DEF HandlerStep
<1> QED BY <1>1, <1>2, <1>3, <1>4, <1>5, <1>6, <1>7, <1>8 DEF Next

LEMMA TypesOfState == Types /\ ProcessTypes => TypeOK
<1> SUFFICES ASSUME Types, ProcessTypes PROVE TypeOK
  OBVIOUS
<1>1. \A i \in DOMAIN table : table[i] \in Rows
  BY LenProperties, ElementOfSeq DEF Types
<1>2. \A r \in Rows : DOMAIN r = DOMAIN RowOf(1, 1, 1, 1, 1, 1)
  BY SettlementsAssumption DEF Rows, Settlement, RowOf
<1> QED BY <1>1, <1>2 DEF Types, ProcessTypes, TypeOK

-----------------------------------------------------------------------------
(* Sorted sets                                                             *)

\* before[x] are the elements of S that come before x, in some linear order.
Orders(before, S) ==
    /\ before \in [S -> SUBSET S]
    /\ \A x \in S : x \notin before[x]
    /\ \A x, y \in S : x \in before[y] => before[x] \subseteq before[y]
    /\ \A x, y \in S : x = y \/ x \in before[y] \/ y \in before[x]

\* A finite set that is ordered has one element for each place: the number of
\* elements before one is different for each and less than there are elements.
LEMMA Sorting ==
    ASSUME NEW S, IsFiniteSet(S), NEW before, Orders(before, S)
    PROVE  LET order == InOrder(before)
           IN  /\ Cardinality(S) \in Nat
               /\ order \in Seq(S) /\ Len(order) = Cardinality(S)
               /\ DOMAIN order = 1..Cardinality(S)
               /\ \A i, j \in DOMAIN order : i < j => order[i] \in before[order[j]]
               /\ \A x \in S : \E i \in DOMAIN order : order[i] = x
<1> DEFINE n == Cardinality(S)
           rank == [x \in S |-> Cardinality(before[x])]
           order == InOrder(before)
<1>1. n \in Nat
  BY FS_CardinalityType
<1>2. ASSUME NEW x \in S PROVE IsFiniteSet(before[x]) /\ rank[x] \in 0..(n - 1)
  <2>1. before[x] \in SUBSET S /\ x \notin before[x]
    BY DEF Orders
  <2>2. IsFiniteSet(before[x]) /\ Cardinality(before[x]) <= n /\ Cardinality(before[x]) # n
    BY <2>1, FS_Subset
  <2>3. Cardinality(before[x]) \in Nat
    BY <2>2, FS_CardinalityType
  <2> QED BY <1>1, <2>2, <2>3
<1>3. ASSUME NEW x \in S, NEW y \in S, x \in before[y] PROVE rank[x] < rank[y]
  <2>1. before[x] \in SUBSET before[y] /\ before[x] # before[y]
    BY <1>3 DEF Orders
  <2>2. /\ Cardinality(before[x]) <= Cardinality(before[y])
        /\ Cardinality(before[x]) # Cardinality(before[y])
    BY <1>2, <2>1, FS_Subset
  <2>3. Cardinality(before[x]) \in Nat /\ Cardinality(before[y]) \in Nat
    BY <1>2, FS_CardinalityType
  <2> QED BY <2>2, <2>3
<1>4. rank \in Injection(S, 0..(n - 1))
  <2>1. \A x, y \in S : x # y => rank[x] # rank[y]
    BY <1>2, <1>3 DEF Orders
  <2>2. rank \in [S -> 0..(n - 1)]
    BY <1>2
  <2> HIDE DEF rank
  <2> QED BY <2>1, <2>2 DEF Injection, IsInjective
<1>5. rank \in Surjection(S, 0..(n - 1))
  <2>1. IsFiniteSet(0..(n - 1)) /\ Cardinality(0..(n - 1)) = n
    BY <1>1, FS_Interval
  <2> HIDE DEF rank, n
  <2> QED BY <1>4, <2>1, FS_Injection DEF n
<1>6. \A i \in 1..n : \E x \in S : rank[x] = i - 1
  <2>1. \A k \in 0..(n - 1) : \E x \in S : rank[x] = k
    BY <1>5 DEF Surjection
  <2> QED BY <1>1, <2>1
<1>7. order = [i \in 1..n |-> CHOOSE x \in S : Cardinality(before[x]) = i - 1]
  BY DEF InOrder, Orders
<1>8. ASSUME NEW i \in 1..n PROVE order[i] \in S /\ rank[order[i]] = i - 1
  BY <1>6, <1>7
<1>9. order \in [1..n -> S] /\ DOMAIN order = 1..n
  BY <1>7, <1>8
<1> HIDE DEF order, rank, n
<1>10. order \in Seq(S) /\ Len(order) = n
  BY <1>1, <1>9, SeqDef, LenProperties
<1>11. ASSUME NEW i \in 1..n, NEW j \in 1..n, i < j PROVE order[i] \in before[order[j]]
  <2>1. order[i] # order[j]
    BY <1>1, <1>8, <1>11
  <2>2. order[j] \in before[order[i]] => rank[order[j]] < rank[order[i]]
    BY <1>3, <1>8
  <2>3. rank[order[i]] = i - 1 /\ rank[order[j]] = j - 1
    BY <1>8
  <2> QED BY <1>8, <1>11, <2>1, <2>2, <2>3 DEF Orders
<1>12. ASSUME NEW x \in S PROVE \E i \in 1..n : order[i] = x
  <2> DEFINE i == rank[x] + 1
  <2>1. i \in 1..n /\ rank[x] = i - 1
    BY <1>1, <1>2
  <2> HIDE DEF i
  <2>2. order[i] \in S /\ rank[order[i]] = rank[x]
    BY <1>8, <2>1
  <2>3. order[i] = x
    BY <1>2, <1>3, <2>2 DEF Orders
  <2> QED BY <2>1, <2>3
<1> QED BY <1>1, <1>9, <1>10, <1>11, <1>12 DEF n, order

\* Numbers in their order.
LEMMA NumbersInOrder ==
    ASSUME NEW S \in SUBSET Int
    PROVE  Orders([x \in S |-> {y \in S : y < x}], S)
<1> DEFINE before == [x \in S |-> {y \in S : y < x}]
<1>1. before \in [S -> SUBSET S]
  OBVIOUS
<1>2. \A x \in S : before[x] = {y \in S : y < x}
  OBVIOUS
<1> HIDE DEF before
<1>3. \A x, y \in S : x \in before[y] <=> x < y
  BY <1>2
<1>4. ASSUME NEW x \in S, NEW y \in S, x \in before[y]
      PROVE  before[x] \subseteq before[y]
  <2>1. \A z \in S : z < x /\ x < y => z < y
    OBVIOUS
  <2> QED BY <1>2, <1>4, <2>1
<1>5. Orders(before, S)
  BY <1>1, <1>3, <1>4 DEF Orders
<1> QED BY <1>5 DEF before

LEMMA LeastOf ==
    ASSUME NEW S \in SUBSET Int, IsFiniteSet(S), S # {}
    PROVE  Min(S) \in S /\ \A x \in S : Min(S) <= x
<1> DEFINE before == [x \in S |-> {y \in S : y < x}]
           order == InOrder(before)
<1>1. Orders(before, S)
  BY NumbersInOrder
<1> HIDE DEF before
<1>2. /\ Cardinality(S) \in Nat /\ DOMAIN order = 1..Cardinality(S)
      /\ \A i, j \in DOMAIN order : i < j => order[i] \in before[order[j]]
      /\ \A x \in S : \E i \in DOMAIN order : order[i] = x
      /\ order \in [DOMAIN order -> S]
  BY <1>1, Sorting, LenProperties
<1> HIDE DEF order
<1>3. 1 \in DOMAIN order
  BY <1>2
<1>4. ASSUME NEW x \in S PROVE order[1] <= x
  <2>1. PICK i \in DOMAIN order : order[i] = x
    BY <1>2
  <2>2. CASE i = 1
    BY <1>2, <1>3, <2>1, <2>2
  <2>3. CASE i # 1
    <3>1. order[1] \in before[x]
      BY <1>2, <1>3, <2>1, <2>3
    <3> QED BY <1>2, <1>3, <3>1 DEF before
  <2> QED BY <2>2, <2>3
<1>5. order[1] \in S
  BY <1>2, <1>3
<1> QED BY <1>4, <1>5 DEF Min

LEMMA FiniteImage ==
    ASSUME NEW S, IsFiniteSet(S), NEW f PROVE IsFiniteSet({f[x] : x \in S})
<1> DEFINE T == {f[x] : x \in S}
           g == [x \in S |-> f[x]]
<1>1. g \in Surjection(S, T)
  BY DEF Surjection
<1> HIDE DEF g, T
<1>2. IsFiniteSet(T)
  BY <1>1, FS_Surjection
<1> QED BY <1>2 DEF T

-----------------------------------------------------------------------------
(* The read model                                                          *)

\* Rows under their places in the table, of the types the columns have.
AreRows(rows) ==
    /\ rows = [i \in DOMAIN rows |-> rows[i]]
    /\ IsFiniteSet(DOMAIN rows) /\ DOMAIN rows \subseteq Nat
    /\ \A i \in DOMAIN rows :
           /\ rows[i].settledAt \in Nat
           /\ rows[i].stakeCents \in Nat
           /\ rows[i].profitCents \in Int

LEMMA RowsOfUser ==
    ASSUME Types, NEW u
    PROVE  /\ AreRows(UserRows(table, u))
           /\ DOMAIN UserRows(table, u) = {i \in DOMAIN table : table[i].userId = u}
           /\ \A i \in DOMAIN UserRows(table, u) : UserRows(table, u)[i] = table[i]
<1> DEFINE own == {i \in DOMAIN table : table[i].userId = u}
           rows == UserRows(table, u)
<1>1. rows = [i \in own |-> table[i]]
  BY DEF UserRows, RestrictValues, Restrict
<1>2. /\ DOMAIN table = 1..Len(table) /\ Len(table) \in Nat
      /\ \A i \in DOMAIN table : table[i] \in Rows
  BY LenProperties, ElementOfSeq DEF Types
<1>3. \A r \in Rows : r.settledAt \in Nat /\ r.stakeCents \in Nat /\ r.profitCents \in Int
  BY SettlementsAssumption DEF Rows, Settlement, RowOf, SignedProfitCents
<1>4. IsFiniteSet(own) /\ own \subseteq Nat
  <2>1. IsFiniteSet(DOMAIN table)
    BY <1>2, FS_Interval
  <2> QED BY <1>2, <2>1, FS_Subset
<1> QED BY <1>1, <1>2, <1>3, <1>4 DEF AreRows

LEMMA DaysAscend ==
    ASSUME NEW rows, AreRows(rows)
    PROVE  LET days == ActiveDays(rows)
           IN  /\ Len(days) \in Nat /\ DOMAIN days = 1..Len(days)
               /\ \A i, j \in DOMAIN days : i < j => days[i] < days[j]
               /\ \A i \in DOMAIN days : days[i] \in Int
               /\ \A r \in DOMAIN rows :
                      \E i \in DOMAIN days : days[i] = UtcDay(rows[r].settledAt)
<1> DEFINE dayOf == [i \in DOMAIN rows |-> UtcDay(rows[i].settledAt)]
           S == {dayOf[i] : i \in DOMAIN rows}
           before == [day \in S |-> {d \in S : d < day}]
           days == ActiveDays(rows)
<1>1. days = InOrder(before)
  BY DEF ActiveDays
<1>2. IsFiniteSet(S)
  <2> HIDE DEF dayOf
  <2> QED BY FiniteImage DEF AreRows
<1>3. S \in SUBSET Int
  BY ReadModelAssumption DEF AreRows, UtcDay
<1>4. \A r \in DOMAIN rows : UtcDay(rows[r].settledAt) \in S
  OBVIOUS
<1>5. \A x, y \in S : x \in before[y] <=> x < y
  OBVIOUS
<1> HIDE DEF S, dayOf
<1>6. Orders(before, S)
  BY <1>3, NumbersInOrder
<1> HIDE DEF before, days
<1>7. /\ Cardinality(S) \in Nat /\ days \in Seq(S)
      /\ Len(days) = Cardinality(S) /\ DOMAIN days = 1..Cardinality(S)
      /\ \A i, j \in DOMAIN days : i < j => days[i] \in before[days[j]]
      /\ \A x \in S : \E i \in DOMAIN days : days[i] = x
  BY <1>1, <1>2, <1>6, Sorting
<1>8. \A i \in DOMAIN days : days[i] \in S
  BY <1>7, ElementOfSeq
<1> QED BY <1>3, <1>4, <1>5, <1>7, <1>8 DEF days

\* The last active day is no earlier than that of any row, so the last point sums them all.
LEMMA ChartOfRows ==
    ASSUME NEW rows, AreRows(rows)
    PROVE  LET series == CumulativeRoiSeries(rows)
           IN  /\ \A i, j \in DOMAIN series : i < j => series[i].date < series[j].date
               /\ DOMAIN rows # {} => Last(series).roiPct = Summarise(rows).roiPct
<1> DEFINE days == ActiveDays(rows)
           series == CumulativeRoiSeries(rows)
           until(day) == RestrictValues(rows, LAMBDA r : UtcDay(r.settledAt) <= day)
<1>1. /\ Len(days) \in Nat /\ DOMAIN days = 1..Len(days)
      /\ \A i, j \in DOMAIN days : i < j => days[i] < days[j]
      /\ \A i \in DOMAIN days : days[i] \in Int
      /\ \A r \in DOMAIN rows : \E i \in DOMAIN days : days[i] = UtcDay(rows[r].settledAt)
  BY DaysAscend
<1>2. series = [i \in DOMAIN days |-> [date |-> days[i], roiPct |-> Roi(until(days[i]))]]
  BY DEF CumulativeRoiSeries
<1> HIDE DEF days, series
<1>3. \A i, j \in DOMAIN series : i < j => series[i].date < series[j].date
  BY <1>1, <1>2
<1>4. ASSUME DOMAIN rows # {} PROVE Last(series).roiPct = Summarise(rows).roiPct
  <2> DEFINE n == Len(days)
  <2>1. n \in DOMAIN days
    BY <1>1, <1>4
  <2>2. \A i \in DOMAIN days : days[i] <= days[n]
    BY <1>1, <2>1
  <2>3. \A r \in DOMAIN rows : UtcDay(rows[r].settledAt) <= days[n]
    BY <1>1, <2>2
  <2>4. until(days[n]) = rows
    <3>1. {r \in DOMAIN rows : UtcDay(rows[r].settledAt) <= days[n]} = DOMAIN rows
      BY <2>3
    <3> QED BY <3>1 DEF RestrictValues, Restrict, AreRows
  <2>5. Len(series) = n
    BY <1>1, <1>2, LengthOf
  <2>6. series[n].roiPct = Roi(until(days[n]))
    BY <1>2, <2>1
  <2>7. series[n].roiPct = Roi(rows)
    BY <2>4, <2>6
  <2> QED BY <2>5, <2>7 DEF Last, Summarise
<1> QED BY <1>3, <1>4 DEF series

LEMMA ChartsEnd == Types => ChartEndsAtSummary
  BY RowsOfUser, ChartOfRows DEF ChartEndsAtSummary

LEMMA PercentIsInt ==
    ASSUME NEW part \in Int, NEW whole \in Int, whole > 0
    PROVE  Percent(part, whole) \in Int
<1> DEFINE scaled == Magnitude(part) * 10000
           kept == scaled \div whole
           tail == 2 * (scaled % whole)
           nearest == IF tail > whole \/ (tail = whole /\ kept % 2 = 1) THEN kept + 1 ELSE kept
<1>1. scaled \in Int
  BY DEF Magnitude
<1> HIDE DEF scaled
<1>2. kept \in Int
  BY <1>1
<1> HIDE DEF kept
<1>3. nearest \in Int
  BY <1>2
<1> HIDE DEF nearest
<1>4. Percent(part, whole) = IF part < 0 THEN -nearest ELSE nearest
  BY DEF Percent, nearest, tail, kept, scaled
<1> QED BY <1>3, <1>4

LEMMA SumOfColumn ==
    ASSUME NEW f, IsFiniteSet(DOMAIN f), \A i \in DOMAIN f : f[i] \in Int
    PROVE  SumFunction(f) \in Int
<1>1. SumFunction(f) = SumOver(f, DOMAIN f)
  BY DEF SumFunction, SumFunctionOnSet, FoldFunctionOnSet, SumOver, MapThenSumSet
<1> QED BY <1>1, SumIsInt

LEMMA RoiIsInt ==
    ASSUME NEW rows, AreRows(rows) PROVE Roi(rows) \in Int
<1>1. Staked(rows) \in Int
  <2> DEFINE f == [i \in DOMAIN rows |-> rows[i].stakeCents]
  <2>1. IsFiniteSet(DOMAIN f) /\ \A i \in DOMAIN f : f[i] \in Int
    BY DEF AreRows
  <2> HIDE DEF f
  <2>2. SumFunction(f) \in Int
    BY <2>1, SumOfColumn
  <2> QED BY <2>2 DEF Staked, f
<1>2. Net(rows) \in Int
  <2> DEFINE f == [i \in DOMAIN rows |-> rows[i].profitCents]
  <2>1. IsFiniteSet(DOMAIN f) /\ \A i \in DOMAIN f : f[i] \in Int
    BY DEF AreRows
  <2> HIDE DEF f
  <2>2. SumFunction(f) \in Int
    BY <2>1, SumOfColumn
  <2> QED BY <2>2 DEF Net, f
<1> QED BY <1>1, <1>2, PercentIsInt DEF Roi

RoiOf(u) == EntryOf(table, u).roiPct

\* A player is known by their first row.
LEMMA PlayerFacts ==
    ASSUME Types, NEW u \in Players(table)
    PROVE  /\ RoiOf(u) \in Int
           /\ FirstRow(table, u) \in Nat
           /\ table[FirstRow(table, u)].userId = u
<1> DEFINE rows == UserRows(table, u)
<1>1. /\ AreRows(rows)
      /\ DOMAIN rows = {i \in DOMAIN table : table[i].userId = u}
  BY RowsOfUser
<1>2. DOMAIN rows # {}
  BY <1>1 DEF Players
<1> HIDE DEF rows
<1>3. RoiOf(u) \in Int
  BY <1>1, RoiIsInt DEF RoiOf, EntryOf, rows
<1>4. Min(DOMAIN rows) \in DOMAIN rows
  BY <1>1, <1>2, LeastOf DEF AreRows
<1>5. FirstRow(table, u) = Min(DOMAIN rows)
  BY DEF FirstRow, rows
<1> QED BY <1>1, <1>3, <1>4, <1>5 DEF AreRows

\* Better ROI first, and the earlier first row among equals: a linear order.
LEMMA PlayersInOrder ==
    ASSUME Types, NEW S \in SUBSET Players(table)
    PROVE  Orders([v \in S |-> {u \in S : Ahead(table, u, v)}], S)
<1> DEFINE before == [v \in S |-> {u \in S : Ahead(table, u, v)}]
           first(u) == FirstRow(table, u)
<1>1. before \in [S -> SUBSET S]
  OBVIOUS
<1>2. \A u, v \in S : u \in before[v] <=> Ahead(table, u, v)
  OBVIOUS
<1>3. \A u \in S : RoiOf(u) \in Int /\ first(u) \in Nat /\ table[first(u)].userId = u
  BY PlayerFacts
<1>4. \A u, v \in S :
          Ahead(table, u, v) <=>
              \/ RoiOf(u) > RoiOf(v)
              \/ RoiOf(u) = RoiOf(v) /\ first(u) < first(v)
  BY DEF Ahead, RoiOf
<1> HIDE DEF before, first
<1>5. \A u \in S : u \notin before[u]
  BY <1>2, <1>3, <1>4
<1>6. ASSUME NEW u \in S, NEW v \in S, u \in before[v] PROVE before[u] \subseteq before[v]
  <2>1. ASSUME NEW w \in S, w \in before[u] PROVE w \in before[v]
    BY <1>2, <1>3, <1>4, <1>6, <2>1
  <2> QED BY <1>1, <2>1
<1>7. ASSUME NEW u \in S, NEW v \in S PROVE u = v \/ u \in before[v] \/ v \in before[u]
  <2>1. u # v => first(u) # first(v)
    BY <1>3
  <2> QED BY <1>2, <1>3, <1>4, <2>1
<1>8. Orders(before, S)
  BY <1>1, <1>5, <1>6, <1>7 DEF Orders
<1> QED BY <1>8 DEF before

LEMMA NameOfRows ==
    ASSUME NEW rows, AreRows(rows), NameOf(rows) = None
    PROVE  \A r \in ToSet(rows) : r.userName = None
<1> DEFINE named == {i \in DOMAIN rows : rows[i].userName # None}
<1>1. IsFiniteSet(named) /\ named \in SUBSET Int
  BY FS_Subset DEF AreRows
<1>2. NameOf(rows) = IF named = {} THEN None ELSE rows[Min(named)].userName
  BY DEF NameOf
<1>3. \A i \in named : rows[i].userName # None
  OBVIOUS
<1>4. named = {} => \A i \in DOMAIN rows : rows[i].userName = None
  OBVIOUS
<1> HIDE DEF named
<1>5. named = {}
  BY <1>1, <1>2, <1>3, LeastOf
<1> QED BY <1>4, <1>5 DEF ToSet

LEMMA PlayersFinite ==
    ASSUME Types PROVE IsFiniteSet(Players(table)) /\ IsFiniteSet(Qualified(table))
<1> DEFINE user == [i \in DOMAIN table |-> table[i].userId]
<1>1. IsFiniteSet(DOMAIN table)
  BY LenProperties, FS_Interval DEF Types
<1>2. Players(table) = {user[i] : i \in DOMAIN table}
  BY DEF Players
<1> HIDE DEF user
<1>3. IsFiniteSet(Players(table))
  BY <1>1, <1>2, FiniteImage
<1> QED BY <1>3, FS_Subset DEF Qualified

\* The leaderboard is the first of the qualified players, best first.
LEMMA BoardOfPlayers ==
    ASSUME Types
    PROVE  LET board == Leaderboard(table)
               order == Ranked(table, Qualified(table))
           IN  /\ Len(board) \in Nat /\ Len(board) <= Limit /\ Len(board) <= Len(order)
               /\ DOMAIN board = 1..Len(board)
               /\ \A i \in DOMAIN board : board[i] = EntryOf(table, order[i])
               /\ Len(board) = Limit \/ Len(board) = Len(order)
               /\ Len(order) \in Nat /\ DOMAIN order = 1..Len(order)
               /\ \A i \in DOMAIN order : order[i] \in Qualified(table)
               /\ \A i, j \in DOMAIN order : i < j => Ahead(table, order[i], order[j])
               /\ \A u \in Qualified(table) : \E i \in DOMAIN order : order[i] = u
<1> DEFINE S == Qualified(table)
           before == [v \in S |-> {u \in S : Ahead(table, u, v)}]
           order == Ranked(table, S)
           board == Leaderboard(table)
           n == Len(order)
           shown == Min({Limit, n})
<1>1. order = InOrder(before)
  BY DEF Ranked
<1>2. IsFiniteSet(S) /\ S \in SUBSET Players(table)
  BY PlayersFinite DEF Qualified
<1>3. \A u, v \in S : u \in before[v] <=> Ahead(table, u, v)
  OBVIOUS
<1> HIDE DEF S
<1>4. Orders(before, S)
  BY <1>2, PlayersInOrder
<1> HIDE DEF before, order
<1>5. /\ Cardinality(S) \in Nat /\ order \in Seq(S)
      /\ Len(order) = Cardinality(S) /\ DOMAIN order = 1..Cardinality(S)
      /\ \A i, j \in DOMAIN order : i < j => order[i] \in before[order[j]]
      /\ \A x \in S : \E i \in DOMAIN order : order[i] = x
  BY <1>1, <1>2, <1>4, Sorting
<1>6. \A i \in DOMAIN order : order[i] \in S
  BY <1>5, ElementOfSeq
<1>7. n \in Nat /\ Limit \in Nat
  BY <1>5, ReadModelAssumption
<1>8. shown \in {Limit, n} /\ shown <= Limit /\ shown <= n
  <2>1. {Limit, n} \in SUBSET Int /\ IsFiniteSet({Limit, n}) /\ {Limit, n} # {}
    <3>1. {Limit, n} = {Limit} \union {n}
      OBVIOUS
    <3>2. IsFiniteSet({Limit} \union {n})
      BY FS_Singleton, FS_AddElement, Zenon
    <3>3. {Limit, n} \in SUBSET Int /\ {Limit, n} # {}
      BY <1>7
    <3> QED BY <3>1, <3>2, <3>3
  <2> QED BY <2>1, LeastOf
<1> HIDE DEF shown
<1>9. /\ FirstOf(order) \in Seq(S) /\ Len(FirstOf(order)) = shown
      /\ \A i \in 1..shown : FirstOf(order)[i] = order[i]
  <2>1. FirstOf(order) = SubSeq(order, 1, shown)
    BY DEF FirstOf, shown, n
  <2>2. shown \in Int /\ \A i \in 1..shown : order[i] \in S
    BY <1>5, <1>6, <1>7, <1>8
  <2>3. shown >= 0
    BY <1>7, <1>8
  <2> HIDE DEF n
  <2> QED BY <2>1, <2>2, <2>3, SubSeqProperties
<1>10. board = [i \in DOMAIN FirstOf(order) |-> EntryOf(table, FirstOf(order)[i])]
  BY DEF Leaderboard, order, S
<1>11. DOMAIN FirstOf(order) = 1..shown
  BY <1>9, LenProperties
<1> HIDE DEF board
<1>12. board = [i \in 1..shown |-> board[i]]
  BY <1>10, <1>11
<1>13. shown \in Nat
  BY <1>7, <1>8
<1>14. Len(board) = shown /\ DOMAIN board = 1..shown
  BY <1>12, <1>13, LengthOf
<1>15. \A i \in DOMAIN board : board[i] = EntryOf(table, order[i])
  BY <1>9, <1>10, <1>11, <1>14
<1>16. \A i, j \in DOMAIN order : i < j => Ahead(table, order[i], order[j])
  BY <1>3, <1>5, <1>6
<1> QED BY <1>5, <1>6, <1>7, <1>8, <1>13, <1>14, <1>15, <1>16 DEF board, order, n, S

LEMMA QualifiedHaveEnough ==
    ASSUME Types, NEW u
    PROVE  u \in Qualified(table) <=> Summarise(UserRows(table, u)).settledCount >= MinSettled
<1> DEFINE rows == UserRows(table, u)
<1>1. DOMAIN rows = {i \in DOMAIN table : table[i].userId = u}
  BY RowsOfUser
<1>2. /\ EntryOf(table, u).settledCount = Count(rows)
      /\ Summarise(rows).settledCount = Count(rows)
  BY DEF EntryOf, Summarise
<1> HIDE DEF rows
<1>3. ASSUME u \notin Players(table) PROVE Count(rows) = 0
  <2>1. DOMAIN rows = {}
    BY <1>1, <1>3 DEF Players
  <2> QED BY <2>1, FS_EmptySet DEF Count
<1> QED BY <1>2, <1>3, ReadModelAssumption DEF Qualified, rows

LEMMA BoardRanks == Types => LeaderboardRanks
<1> SUFFICES ASSUME Types PROVE LeaderboardRanks
  OBVIOUS
<1> DEFINE board == Leaderboard(table)
           order == Ranked(table, Qualified(table))
           shown == {board[i].userId : i \in DOMAIN board}
           own(u) == Summarise(UserRows(table, u))
<1>1. /\ Len(board) \in Nat /\ Len(board) <= Limit /\ Len(board) <= Len(order)
      /\ DOMAIN board = 1..Len(board)
      /\ \A i \in DOMAIN board : board[i] = EntryOf(table, order[i])
      /\ Len(board) = Limit \/ Len(board) = Len(order)
      /\ Len(order) \in Nat /\ DOMAIN order = 1..Len(order)
      /\ \A i \in DOMAIN order : order[i] \in Qualified(table)
      /\ \A i, j \in DOMAIN order : i < j => Ahead(table, order[i], order[j])
      /\ \A u \in Qualified(table) : \E i \in DOMAIN order : order[i] = u
  BY BoardOfPlayers
<1> HIDE DEF board, order
<1>2. DOMAIN board = 1..Len(board) /\ DOMAIN order = 1..Len(order)
  BY <1>1
<1>3. Len(board) \in Nat /\ Len(order) \in Nat /\ Len(board) <= Len(order)
  BY <1>1
<1>4. \A u : RoiOf(u) = own(u).roiPct
  BY DEF RoiOf, EntryOf, Summarise
<1>5. \A u : /\ EntryOf(table, u).userId = u
             /\ EntryOf(table, u).roiPct = RoiOf(u)
             /\ EntryOf(table, u).netProfitCents = own(u).netProfitCents
             /\ EntryOf(table, u).settledCount = own(u).settledCount
             /\ EntryOf(table, u).userName = NameOf(UserRows(table, u))
  BY DEF RoiOf, EntryOf, Summarise
<1> HIDE DEF own
<1>6. ASSUME NEW i \in DOMAIN board
      PROVE  /\ i \in DOMAIN order /\ order[i] \in Qualified(table)
             /\ board[i].userId = order[i] /\ board[i].roiPct = RoiOf(order[i])
  <2>1. i \in DOMAIN order
    BY <1>2, <1>3
  <2>2. board[i] = EntryOf(table, order[i])
    BY <1>1
  <2> QED BY <1>1, <1>5, <2>1, <2>2
<1>7. ASSUME NEW u \in Qualified(table)
      PROVE  /\ RoiOf(u) \in Int /\ FirstRow(table, u) \in Nat
             /\ own(u).settledCount >= MinSettled
  <2>1. u \in Players(table)
    BY DEF Qualified
  <2> QED BY <2>1, PlayerFacts, QualifiedHaveEnough DEF own
<1>8. ASSUME NEW i \in DOMAIN order, NEW j \in DOMAIN order, i < j
      PROVE  RoiOf(order[i]) >= RoiOf(order[j]) /\ order[i] # order[j]
  <2>1. Ahead(table, order[i], order[j])
    BY <1>1, <1>8
  <2>2. order[i] \in Qualified(table) /\ order[j] \in Qualified(table)
    BY <1>1
  <2> QED BY <1>7, <2>1, <2>2 DEF Ahead, RoiOf
<1>9. \A i, j \in DOMAIN board :
          i < j => board[i].roiPct >= board[j].roiPct /\ board[i].userId # board[j].userId
  BY <1>6, <1>8
<1>10. ASSUME NEW i \in DOMAIN board
      PROVE  LET rows == UserRows(table, board[i].userId)
                 sum == Summarise(rows)
             IN  /\ board[i].roiPct = sum.roiPct
                 /\ board[i].netProfitCents = sum.netProfitCents
                 /\ board[i].settledCount = sum.settledCount
                 /\ sum.settledCount >= MinSettled
                 /\ board[i].userName = None => \A r \in ToSet(rows) : r.userName = None
  <2> DEFINE u == order[i]
  <2>1. board[i].userId = u /\ u \in Qualified(table) /\ board[i] = EntryOf(table, u)
    BY <1>1, <1>6
  <2> HIDE DEF u
  <2>2. board[i].userName = None => \A r \in ToSet(UserRows(table, u)) : r.userName = None
    <3> DEFINE rows == UserRows(table, u)
    <3>1. board[i].userName = NameOf(rows)
      BY <1>5, <2>1
    <3>2. AreRows(rows)
      BY RowsOfUser
    <3> HIDE DEF rows
    <3>3. board[i].userName = None => \A r \in ToSet(rows) : r.userName = None
      BY <3>1, <3>2, NameOfRows
    <3> QED BY <3>3 DEF rows
  <2> QED BY <1>4, <1>5, <1>7, <2>1, <2>2 DEF own
<1>11. ASSUME NEW u \in Users \ shown
      PROVE  \/ own(u).settledCount < MinSettled
             \/ /\ Len(board) = Limit
                /\ \A i \in DOMAIN board : board[i].roiPct >= own(u).roiPct
  <2>1. CASE u \notin Qualified(table)
    <3>1. own(u).settledCount \in Int
      <4>1. IsFiniteSet(DOMAIN UserRows(table, u))
        BY RowsOfUser DEF AreRows
      <4> QED BY <4>1, FS_CardinalityType DEF own, Summarise, Count
    <3> QED BY <2>1, <3>1, QualifiedHaveEnough, ReadModelAssumption DEF own
  <2>2. CASE u \in Qualified(table)
    <3>1. PICK k \in DOMAIN order : order[k] = u
      BY <1>1, <2>2
    <3>2. k \notin DOMAIN board
      BY <1>6, <1>11, <3>1
    <3>3. Len(board) = Limit /\ \A i \in DOMAIN board : i < k
      <4>1. k \in 1..Len(order) /\ k \notin 1..Len(board)
        BY <1>1, <3>1, <3>2
      <4>2. Len(board) # Len(order)
        BY <4>1
      <4>3. Len(board) = Limit
        BY <1>1, <4>2
      <4>4. k \in Nat /\ Len(board) \in Nat /\ Len(board) < k
        BY <1>3, <4>1
      <4>5. \A i \in 1..Len(board) : i < k
        BY <4>4
      <4> QED BY <1>1, <4>3, <4>5
    <3>4. \A i \in DOMAIN board : board[i].roiPct >= RoiOf(u)
      BY <1>6, <1>8, <3>1, <3>3
    <3> QED BY <1>4, <3>3, <3>4
  <2> QED BY <2>1, <2>2
<1> QED BY <1>9, <1>10, <1>11 DEF LeaderboardRanks, board, own

-----------------------------------------------------------------------------

\* The strengthened invariant holds in every reachable state.
THEOREM SettlementsInvariance == Spec => []IInv
<1> QED BY InitIInv, NextIInv, PTL DEF Spec

\* The state has its types.
THEOREM SettlementsTypeCorrect == Spec => []TypeOK
<1>1. Init => ProcessTypes
  <2>1. MaxFaults \in Nat
    BY SettlementsAssumption
  <2>2. 0 \in 0..MaxFaults /\ 0 \in Nat
    BY <2>1
  <2> QED BY <2>2 DEF Init, ProcessTypes
<1>2. ProcessTypes /\ [Next]_vars => ProcessTypes'
  BY NextProcessTypes
<1>3. IInv /\ ProcessTypes => TypeOK
  BY TypesOfState DEF IInv
<1> QED BY <1>1, <1>2, <1>3, SettlementsInvariance, PTL DEF Spec

\* A bet has at most one row, its message's (recordSettlement's "exactly-once").
THEOREM SettlementsCountedOnce == Spec => []CountedOnce
<1>1. IInv => CountedOnce
  BY DEF IInv
<1> QED BY <1>1, SettlementsInvariance, PTL

\* What the queue accepted is in it, out with an open connection, or counted.
THEOREM NoSettlementLost == Spec => []NothingLost
<1>1. IInv => NothingLost
  BY DEF IInv, NothingLost, Held, WorksOn, AckedAreCounted
<1> QED BY <1>1, SettlementsInvariance, PTL

\* A player's chart ascends by day and its last point is the ROI of their summary.
THEOREM ChartAlwaysEndsAtSummary == Spec => []ChartEndsAtSummary
<1>1. IInv => ChartEndsAtSummary
  BY ChartsEnd DEF IInv
<1> QED BY <1>1, SettlementsInvariance, PTL

\* The leaderboard shows each player as their summary does, best first, and leaves
\* out who has too few bets or, when it is full, is no better than who is on it.
THEOREM LeaderboardAlwaysRanks == Spec => []LeaderboardRanks
<1>1. IInv => LeaderboardRanks
  BY BoardRanks DEF IInv
<1> QED BY <1>1, SettlementsInvariance, PTL
=============================================================================
