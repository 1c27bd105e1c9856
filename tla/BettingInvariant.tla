--------------------------- MODULE BettingInvariant ---------------------------
(***************************************************************************)
(* The inductive invariant behind Betting's safety properties.  None of    *)
(* them is inductive alone: that a bet is paid once rests on which handler *)
(* is entitled to pay it, which rests on the ledger having voided the      *)
(* stake for that handler and no other, which rests on handlers seeing     *)
(* only rows whose placement has finished.                                 *)
(***************************************************************************)
EXTENDS Betting, FiniteSets

Settled(b) == status[b] \in {"won", "lost"}

\* The row and the reservation of a bet at every point of its placement.
PlacementState(b) ==
    /\ pc[b] \in {"idle", "saving", "refused", "insufficient"} =>
           status[b] = "none" /\ hold[b] = "none"
    /\ pc[b] \in {"holding", "unfunded"} =>
           status[b] = "pending" /\ hold[b] = "none"
    /\ pc[b] \in {"broken", "confirming"} =>
           status[b] = "pending" /\ hold[b] = "pending"
    /\ pc[b] \in {"notifying", "accepted"} =>
           status[b] \in {"held", "won", "lost"}
    /\ pc[b] \notin {"idle", "refused"} => quote[b] \in Odds

\* The reservation and the payout a row can have.
LedgerState(b) ==
    /\ status[b] \in {"none", "pending"} => hold[b] \in {"none", "pending"}
    /\ status[b] = "held" => hold[b] # "none"
    /\ hold[b] # "voided" => paid[b] = 0
    /\ paid[b] \in {0, ProfitCents(Stake[b], quote[b])}

\* What is left of a settled bet: the ledger's side, the row's and the message.
SettledState(b) ==
    /\ status[b] = "won" =>
           /\ hold[b] = "voided"
           /\ paid[b] = ProfitCents(Stake[b], quote[b])
           /\ payoutCents[b] = paid[b]
    /\ status[b] = "lost" =>
           hold[b] = "posted" /\ paid[b] = 0 /\ payoutCents[b] = 0
    /\ sent[b] # <<>> =>
           /\ Settled(b)
           /\ sent[b] = <<[won |-> status[b] = "won",
                           payoutCents |-> payoutCents[b]]>>

BetState(b) == PlacementState(b) /\ LedgerState(b) /\ SettledState(b)

\* A handler that has moved the stake of its current bet and not yet told of
\* it.  At most one handler is that far with a bet.
Owns(m, b) == hpc[m] \in {"paying", "recording", "publishing"} /\ cur[m] = b

HandlerState(m) ==
    /\ hpc[m] # "unsent" => result[m] \in Resolution
    /\ hpc[m] = "unsent" => result[m] = NoResult
    /\ \A b \in todo[m] :
           /\ status[b] \in {"held", "won", "lost"}
           /\ EventOf[b] = result[m].event
    /\ hpc[m] \in {"unsent", "queued", "finding", "done"} => todo[m] = {}
    /\ hpc[m] \in {"moving", "paying", "recording", "publishing"} =>
           cur[m] \in todo[m]

OwnerState(m) ==
    LET b == cur[m] IN
    /\ hpc[m] = "paying" =>
           /\ status[b] = "held" /\ hold[b] = "voided" /\ paid[b] = 0
           /\ Won(m, b) /\ PayoutOf(m, b) > 0
    /\ hpc[m] = "recording" =>
           /\ status[b] = "held"
           /\ hold[b] = IF Won(m, b) THEN "voided" ELSE "posted"
           /\ paid[b] = PayoutOf(m, b)
    /\ hpc[m] = "publishing" =>
           /\ status[b] = IF Won(m, b) THEN "won" ELSE "lost"
           /\ payoutCents[b] = PayoutOf(m, b)
           /\ sent[b] = <<>>

MsgState(m) == HandlerState(m) /\ OwnerState(m)

OneOwner ==
    \A m, n \in Msgs : \A b \in Bets : Owns(m, b) /\ Owns(n, b) => m = n

\* The invariant that is inductive.
IInv ==
    /\ TypeOK
    /\ \A b \in Bets : BetState(b)
    /\ \A m \in Msgs : MsgState(m)
    /\ OneOwner
-----------------------------------------------------------------------------
(* What AccountMatchesBets rests on besides                                *)

\* The placements requested so far.
Asked == {b \in Bets : pc[b] # "idle"}

\* An account is its opening balance less the stakes it has reserved or lost
\* plus the profits of the bets whose stakes went back to it, in the middle of
\* every placement and settlement and after every fault.
BooksBalance ==
    \A u \in Users :
        balance[u] = Opening[u]
            - MapThenSumSet(LAMBDA b : Stake[b],
                  {b \in Bets : Owner[b] = u /\ hold[b] \in {"pending", "posted"}})
            + MapThenSumSet(LAMBDA b : paid[b],
                  {b \in Bets : Owner[b] = u /\ hold[b] = "voided"})

\* As long as nothing has failed every request gets a definite answer, and a
\* held row has its stake reserved, or a handler is about to change it, or its
\* profit does not fit the column.
Uneventful(b) ==
    /\ pc[b] \notin {"broken", "failed", "lost"}
    /\ status[b] = "held" =>
           \/ hold[b] = "pending"
           \/ \E m \in Msgs : hpc[m] \in {"paying", "recording"} /\ cur[m] = b
           \/ ProfitCents(Stake[b], quote[b]) > MaxColumn

NothingFailed ==
    faults = 0 => channel = "open" /\ \A b \in Bets : Uneventful(b)

AccountInv == IInv /\ IsFiniteSet(Asked) /\ BooksBalance /\ NothingFailed
=============================================================================
