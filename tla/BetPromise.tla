----------------------------- MODULE BetPromise -----------------------------
(***************************************************************************)
(* What the player is promised about the money of a bet, whatever happens  *)
(* to the processes that move it: the stake is taken at most once and only *)
(* when it is covered; it is given back only on a result that makes the    *)
(* bet a winner and kept only on one that makes it a loser, never both;    *)
(* the profit is the stake at the price the bet was accepted at, paid once *)
(* and only after the stake was given back.                                *)
(*                                                                         *)
(* It is a promise of safety only: a bet may stay at any stage forever.    *)
(***************************************************************************)
EXTENDS Money

CONSTANTS Users, Bets, Owner, Stake, Opening, Odds

VARIABLES
    stage,      \* stage[b]: how far the bet's money has moved
    price,      \* price[b]: the odds it is accepted at
    account,    \* account[u]: spendable cents
    winners,    \* bets some published result makes a winner
    losers      \* bets some published result makes a loser

NoPrice == 0

promiseVars == <<stage, price, account, winners, losers>>

Init ==
    /\ stage = [b \in Bets |-> "open"]
    /\ price = [b \in Bets |-> NoPrice]
    /\ account = Opening
    /\ winners = {}
    /\ losers = {}

\* A result is published: bets become winners or losers of it.  A corrected
\* result for the same event may put a bet on both sides.
Announce ==
    /\ winners \subseteq winners' /\ winners' \subseteq Bets
    /\ losers \subseteq losers' /\ losers' \subseteq Bets
    /\ UNCHANGED <<stage, price, account>>

\* The price may move until the stake is taken and not after.
Quote(b) ==
    /\ stage[b] = "open"
    /\ \E o \in Odds : price' = [price EXCEPT ![b] = o]
    /\ UNCHANGED <<stage, account, winners, losers>>

Take(b) ==
    /\ stage[b] = "open"
    /\ Stake[b] <= account[Owner[b]]
    /\ stage' = [stage EXCEPT ![b] = "taken"]
    /\ account' = [account EXCEPT ![Owner[b]] = @ - Stake[b]]
    /\ UNCHANGED <<price, winners, losers>>

GiveBack(b) ==
    /\ stage[b] = "taken"
    /\ b \in winners
    /\ stage' = [stage EXCEPT ![b] = "returned"]
    /\ account' = [account EXCEPT ![Owner[b]] = @ + Stake[b]]
    /\ UNCHANGED <<price, winners, losers>>

Pay(b) ==
    /\ stage[b] = "returned"
    /\ ProfitCents(Stake[b], price[b]) > 0
    /\ stage' = [stage EXCEPT ![b] = "paid"]
    /\ account' =
           [account EXCEPT ![Owner[b]] = @ + ProfitCents(Stake[b], price[b])]
    /\ UNCHANGED <<price, winners, losers>>

Keep(b) ==
    /\ stage[b] = "taken"
    /\ b \in losers
    /\ stage' = [stage EXCEPT ![b] = "kept"]
    /\ UNCHANGED <<price, account, winners, losers>>

Next ==
    \/ Announce
    \/ \E b \in Bets : Quote(b) \/ Take(b) \/ GiveBack(b) \/ Pay(b) \/ Keep(b)

Spec == Init /\ [][Next]_promiseVars
=============================================================================
