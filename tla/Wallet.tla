------------------------------- MODULE Wallet -------------------------------
(***************************************************************************)
(* The wallet module of core: every movement of money is one transfer on   *)
(* the TigerBeetle ledger, which applies it whole or refuses it.  A bet's  *)
(* stake is a pending transfer whose id is the bet's id, later voided      *)
(* (release) or posted (keep); the profit of a win is a separate transfer  *)
(* house -> user that carries the bet's id as user data and has a fresh id *)
(* of its own.                                                             *)
(*                                                                         *)
(* balance[u] is what getBalanceCents computes from the user's account:    *)
(* credits_posted - debits_posted - debits_pending.  Voiding a pending     *)
(* transfer gives the stake back to that sum and posting it leaves the sum *)
(* as it was.  The account flag debits_must_not_exceed_credits refuses     *)
(* exactly the debits that would make the sum negative.                    *)
(*                                                                         *)
(* Each operator below is one committed transfer.  The balanceUpdated      *)
(* notification that follows every transfer belongs to the caller's step:  *)
(* it can throw after the transfer has committed.                          *)
(***************************************************************************)
EXTENDS Integers

CONSTANTS
    Users,      \* players with a wallet account
    Bets,       \* bet ids; each id is used by one placement
    Owner,      \* Owner[b]: the player who places b
    Stake,      \* Stake[b]: the stake in cents
    Opening     \* Opening[u]: the balance u starts with

ASSUME WalletAssumption ==
    /\ Owner \in [Bets -> Users]
    /\ Stake \in [Bets -> Nat \ {0}]
    /\ Opening \in [Users -> Nat]

VARIABLES
    balance,    \* balance[u]: spendable cents
    hold,       \* hold[b]: state of the pending transfer with id b
    paid        \* paid[b]: cents of the payout transfers carrying bet b

walletVars == <<balance, hold, paid>>

HoldStates == {"none", "pending", "posted", "voided"}

WalletTypeOK ==
    /\ balance \in [Users -> Int]
    /\ hold \in [Bets -> HoldStates]
    /\ paid \in [Bets -> Nat]

WalletInit ==
    /\ balance = Opening
    /\ hold = [b \in Bets |-> "none"]
    /\ paid = [b \in Bets |-> 0]

\* The ledger refuses the debit with exceeds_credits unless this holds.
Covered(b) == Stake[b] <= balance[Owner[b]]

\* hold: reserve the stake.
HoldStake(b) ==
    /\ Covered(b)
    /\ hold' = [hold EXCEPT ![b] = "pending"]
    /\ balance' = [balance EXCEPT ![Owner[b]] = @ - Stake[b]]
    /\ UNCHANGED paid

\* A void or a post of anything but a pending transfer is refused, with
\* pending_transfer_already_voided, ..._posted or ..._not_found.
StillPending(b) == hold[b] = "pending"

\* release: void the pending transfer, the stake is spendable again.
VoidStake(b) ==
    /\ StillPending(b)
    /\ hold' = [hold EXCEPT ![b] = "voided"]
    /\ balance' = [balance EXCEPT ![Owner[b]] = @ + Stake[b]]
    /\ UNCHANGED paid

\* keep: post the pending transfer, the stake is the house's.
PostStake(b) ==
    /\ StillPending(b)
    /\ hold' = [hold EXCEPT ![b] = "posted"]
    /\ UNCHANGED <<balance, paid>>

\* payout: a new transfer every time it is called; the house account has no
\* limit, so it is never refused.
PayProfit(b, cents) ==
    /\ balance' = [balance EXCEPT ![Owner[b]] = @ + cents]
    /\ paid' = [paid EXCEPT ![b] = @ + cents]
    /\ UNCHANGED hold
=============================================================================
