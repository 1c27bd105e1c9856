---------------------------- MODULE BettingProofs ----------------------------
(***************************************************************************)
(* Proofs about Betting for every set of bets, players, events, messages   *)
(* and odds, and every number of faults of every kind.                     *)
(*                                                                         *)
(* Each action preserves IInv of BettingInvariant, and the safety          *)
(* properties of rows, answers and messages follow from it.  With it, each *)
(* step makes at most one transfer that the bet is due, from which come    *)
(* the books of every account and the step simulation of BetPromise.       *)
(***************************************************************************)
EXTENDS BettingInvariant, SumTheorems, TLAPS

LEMMA OddsAreNat == \A o \in Odds : o \in Nat
  BY BettingAssumption

LEMMA ProfitIsNat ==
    ASSUME NEW s \in Nat, NEW o \in Nat PROVE ProfitCents(s, o) \in Nat
  BY MoneyAssumption DEF ProfitCents

LEMMA PayoutIsNat ==
    ASSUME TypeOK, NEW m \in Msgs, NEW b \in Bets PROVE PayoutOf(m, b) \in Nat
<1>1. quote[b] \in Nat
  <2>1. quote[b] \in Odds \/ quote[b] = 0
    BY DEF TypeOK, NoPrice
  <2>2. CASE quote[b] \in Odds
    BY <2>2, OddsAreNat
  <2>3. CASE quote[b] = 0
    BY <2>3
  <2> QED BY <2>1, <2>2, <2>3
<1>2. Stake[b] \in Nat
  BY WalletAssumption
<1> QED BY <1>1, <1>2, ProfitIsNat DEF PayoutOf

-----------------------------------------------------------------------------
(* The invariant                                                           *)

LEMMA InitIInv == Init => IInv
  BY BettingAssumption, WalletAssumption
  DEF Init, IInv, TypeOK, WalletTypeOK, WalletInit, HoldStates, Statuses,
      NoPrice, BetState, PlacementState, LedgerState, SettledState, MsgState,
      HandlerState, OwnerState, OneOwner, Owns

\* The cache and the channel are not part of what a bet or a handler is.
LEMMA EnvironmentKeeps ==
    ASSUME IInv,
           (\E e \in Events : CacheOpen(e) \/ CacheClose(e)) \/ ChannelLoss
    PROVE  IInv'
<1>1. UNCHANGED <<walletVars, rowVars, pc, handlerVars, result, sent>>
  BY DEF CacheOpen, CacheClose, ChannelLoss
<1>2. TypeOK'
  <2> USE DEF IInv, walletVars, rowVars, handlerVars, TypeOK, WalletTypeOK
  <2>1. ASSUME NEW e \in Events, CacheOpen(e) \/ CacheClose(e) PROVE TypeOK'
    BY <1>1, <2>1 DEF CacheOpen, CacheClose
  <2>2. CASE ChannelLoss
    <3>1. faults' \in 0..MaxFaults
      BY <2>2, BettingAssumption DEF ChannelLoss, Fault
    <3> QED BY <1>1, <2>2, <3>1 DEF ChannelLoss
  <2> QED BY <2>1, <2>2
<1> QED
  BY <1>1, <1>2
  DEF IInv, walletVars, rowVars, handlerVars, BetState, PlacementState,
      LedgerState, SettledState, Settled, MsgState, HandlerState, OwnerState,
      OneOwner, Owns, Won, PayoutOf

LEMMA RequestKeeps == ASSUME IInv, NEW b \in Bets, Request(b) PROVE IInv'
<1> USE DEF IInv, walletVars, handlerVars, coreVars
<1>0. /\ pc[b] = "idle" /\ status[b] = "none" /\ hold[b] = "none"
      /\ paid[b] = 0
      /\ UNCHANGED <<walletVars, status, payoutCents, handlerVars, coreVars>>
  BY DEF Request, BetState, PlacementState, LedgerState
<1>1. TypeOK'
  <2>1. quote' \in [Bets -> Odds \union {NoPrice}]
    <3>1. CASE quote' = quote
      BY <3>1 DEF TypeOK
    <3>2. ASSUME NEW o \in Odds, quote' = [quote EXCEPT ![b] = o]
          PROVE  quote' \in [Bets -> Odds \union {NoPrice}]
      BY <3>2 DEF TypeOK
    <3> QED BY <3>1, <3>2 DEF Request
  <2>2. pc' \in [Bets -> {"idle"} \union Placing \union Answers]
    BY DEF Request, PlaceGoesTo, TypeOK, Placing, Answers
  <2> QED
    BY <1>0, <2>1, <2>2 DEF TypeOK, WalletTypeOK
<1>2. ASSUME NEW c \in Bets PROVE BetState(c)'
  <2>1. c # b => quote'[c] = quote[c] /\ pc'[c] = pc[c]
    BY DEF Request, PlaceGoesTo, TypeOK
  <2>2. /\ pc'[b] \in {"saving", "refused"}
        /\ pc'[b] = "saving" => quote'[b] \in Odds
    BY DEF Request, PlaceGoesTo, TypeOK
  <2> QED
    BY <1>0, <2>1, <2>2
    DEF BetState, PlacementState, LedgerState, SettledState, Settled
<1>3. ASSUME NEW n \in Msgs PROVE MsgState(n)'
  <2>1. HandlerState(n)'
    BY <1>0 DEF MsgState, HandlerState
  <2>2. hpc[n] \in {"paying", "recording", "publishing"} =>
            quote'[cur[n]] = quote[cur[n]]
    BY <1>0 DEF Request, TypeOK, MsgState, HandlerState
  <2>3. OwnerState(n)'
    BY <1>0, <2>2 DEF MsgState, OwnerState, PayoutOf, Won
  <2> QED BY <2>1, <2>3 DEF MsgState
<1>4. OneOwner'
  BY <1>0 DEF OneOwner, Owns
<1> QED BY <1>1, <1>2, <1>3, <1>4

LEMMA SaveRowKeeps == ASSUME IInv, NEW b \in Bets, SaveRow(b) PROVE IInv'
<1> USE DEF IInv, walletVars, rowVars, handlerVars, coreVars
<1>1. TypeOK'
  BY BettingAssumption, WalletAssumption DEF SaveRow, PlaceGoesTo, TypeOK,
                                             WalletTypeOK, HoldStates,
                                             Statuses, Placing, Answers
<1>2. ASSUME NEW c \in Bets PROVE BetState(c)'
  BY DEF SaveRow, PlaceGoesTo, TypeOK, WalletTypeOK, BetState,
         PlacementState, LedgerState, SettledState, Settled
<1>3. ASSUME NEW n \in Msgs PROVE MsgState(n)'
  BY DEF SaveRow, PlaceGoesTo, TypeOK, WalletTypeOK, Won, PayoutOf,
         MsgState, HandlerState, OwnerState, BetState, PlacementState,
         LedgerState, SettledState
<1>4. OneOwner'
  BY DEF SaveRow, OneOwner, Owns
<1> QED BY <1>1, <1>2, <1>3, <1>4

LEMMA HoldKeeps == ASSUME IInv, NEW b \in Bets, Hold(b) PROVE IInv'
<1> USE DEF IInv, walletVars, rowVars, handlerVars, coreVars
<1>1. TypeOK'
  <2>1. balance' \in [Users -> Int]
    BY WalletAssumption DEF Hold, HoldStake, TypeOK, WalletTypeOK
  <2>2. hold' \in [Bets -> HoldStates]
    BY DEF Hold, HoldStake, TypeOK, WalletTypeOK, HoldStates
  <2>3. pc' \in [Bets -> {"idle"} \union Placing \union Answers]
    BY DEF Hold, PlaceGoesTo, TypeOK, Placing
  <2> QED
    BY <2>1, <2>2, <2>3 DEF Hold, HoldStake, TypeOK, WalletTypeOK
<1>2. ASSUME NEW c \in Bets PROVE BetState(c)'
  BY DEF Hold, PlaceGoesTo, HoldStake, TypeOK, WalletTypeOK, BetState,
         PlacementState, LedgerState, SettledState, Settled
<1>3. ASSUME NEW n \in Msgs PROVE MsgState(n)'
  BY DEF Hold, PlaceGoesTo, HoldStake, TypeOK, WalletTypeOK, Won, PayoutOf,
         MsgState, HandlerState, OwnerState, BetState, PlacementState,
         LedgerState, SettledState
<1>4. OneOwner'
  BY DEF Hold, OneOwner, Owns
<1> QED BY <1>1, <1>2, <1>3, <1>4

LEMMA DeleteRowKeeps == ASSUME IInv, NEW b \in Bets, DeleteRow(b) PROVE IInv'
<1> USE DEF IInv, walletVars, rowVars, handlerVars, coreVars
<1>1. TypeOK'
  BY BettingAssumption, WalletAssumption DEF DeleteRow, PlaceGoesTo, TypeOK,
                                             WalletTypeOK, HoldStates,
                                             Statuses, Placing, Answers
<1>2. ASSUME NEW c \in Bets PROVE BetState(c)'
  BY DEF DeleteRow, PlaceGoesTo, TypeOK, WalletTypeOK, BetState,
         PlacementState, LedgerState, SettledState, Settled
<1>3. ASSUME NEW n \in Msgs PROVE MsgState(n)'
  BY DEF DeleteRow, PlaceGoesTo, TypeOK, WalletTypeOK, Won, PayoutOf,
         MsgState, HandlerState, OwnerState, BetState, PlacementState,
         LedgerState, SettledState
<1>4. OneOwner'
  BY DEF DeleteRow, OneOwner, Owns
<1> QED BY <1>1, <1>2, <1>3, <1>4

LEMMA ConfirmHeldKeeps == ASSUME IInv, NEW b \in Bets, ConfirmHeld(b) PROVE IInv'
<1> USE DEF IInv, walletVars, rowVars, handlerVars, coreVars
<1>1. TypeOK'
  BY BettingAssumption, WalletAssumption DEF ConfirmHeld, PlaceGoesTo,
                                             TypeOK, WalletTypeOK,
                                             HoldStates, Statuses, Placing,
                                             Answers
<1>2. ASSUME NEW c \in Bets PROVE BetState(c)'
  BY DEF ConfirmHeld, PlaceGoesTo, TypeOK, WalletTypeOK, BetState,
         PlacementState, LedgerState, SettledState, Settled
<1>3. ASSUME NEW n \in Msgs PROVE MsgState(n)'
  BY DEF ConfirmHeld, PlaceGoesTo, TypeOK, WalletTypeOK, Won, PayoutOf,
         MsgState, HandlerState, OwnerState, BetState, PlacementState,
         LedgerState, SettledState
<1>4. OneOwner'
  BY DEF ConfirmHeld, OneOwner, Owns
<1> QED BY <1>1, <1>2, <1>3, <1>4

LEMMA NotifyHeldKeeps == ASSUME IInv, NEW b \in Bets, NotifyHeld(b) PROVE IInv'
<1> USE DEF IInv, walletVars, rowVars, handlerVars, coreVars
<1>1. TypeOK'
  BY BettingAssumption, WalletAssumption DEF NotifyHeld, PlaceGoesTo,
                                             TypeOK, WalletTypeOK,
                                             HoldStates, Statuses, Placing,
                                             Answers
<1>2. ASSUME NEW c \in Bets PROVE BetState(c)'
  BY DEF NotifyHeld, PlaceGoesTo, TypeOK, WalletTypeOK, BetState,
         PlacementState, LedgerState, SettledState, Settled
<1>3. ASSUME NEW n \in Msgs PROVE MsgState(n)'
  BY DEF NotifyHeld, PlaceGoesTo, TypeOK, WalletTypeOK, Won, PayoutOf,
         MsgState, HandlerState, OwnerState, BetState, PlacementState,
         LedgerState, SettledState
<1>4. OneOwner'
  BY DEF NotifyHeld, OneOwner, Owns
<1> QED BY <1>1, <1>2, <1>3, <1>4

LEMMA PlaceStatementFailsKeeps == ASSUME IInv, NEW b \in Bets, PlaceStatementFails(b) PROVE IInv'
<1> USE DEF IInv, walletVars, rowVars, handlerVars, coreVars
<1>1. TypeOK'
  BY BettingAssumption, WalletAssumption DEF PlaceStatementFails,
                                             PlaceGoesTo, Fault, TypeOK,
                                             WalletTypeOK, HoldStates,
                                             Statuses, Placing, Answers
<1>2. ASSUME NEW c \in Bets PROVE BetState(c)'
  BY DEF PlaceStatementFails, PlaceGoesTo, Fault, TypeOK, WalletTypeOK,
         BetState, PlacementState, LedgerState, SettledState, Settled
<1>3. ASSUME NEW n \in Msgs PROVE MsgState(n)'
  BY DEF PlaceStatementFails, PlaceGoesTo, Fault, TypeOK, WalletTypeOK, Won,
         PayoutOf, MsgState, HandlerState, OwnerState, BetState,
         PlacementState, LedgerState, SettledState
<1>4. OneOwner'
  BY DEF PlaceStatementFails, OneOwner, Owns
<1> QED BY <1>1, <1>2, <1>3, <1>4

LEMMA PublishKeeps ==
    ASSUME IInv, NEW m \in Msgs, NEW e \in Events, NEW o \in Selections,
           Publish(m, e, o)
    PROVE  IInv'
<1> USE DEF IInv, walletVars, rowVars
<1>1. TypeOK'
  BY DEF Publish, HandlerGoesTo, TypeOK, WalletTypeOK, Resolution, Handling
<1>2. ASSUME NEW c \in Bets PROVE BetState(c)'
  BY DEF Publish, BetState, PlacementState, LedgerState, SettledState, Settled
<1>3. ASSUME NEW n \in Msgs PROVE MsgState(n)'
  BY DEF Publish, HandlerGoesTo, TypeOK, Resolution, MsgState, HandlerState,
         OwnerState, Won, PayoutOf
<1>4. OneOwner'
  BY DEF Publish, HandlerGoesTo, TypeOK, OneOwner, Owns
<1> QED BY <1>1, <1>2, <1>3, <1>4

LEMMA DeliverKeeps == ASSUME IInv, NEW m \in Msgs, Deliver(m) PROVE IInv'
<1> USE DEF IInv, walletVars, rowVars, handlerVars, coreVars
<1>1. TypeOK'
  BY BettingAssumption, WalletAssumption, PayoutIsNat DEF Deliver,
                                                          MarkResolved,
                                                          HandlerGoesTo,
                                                          TypeOK,
                                                          WalletTypeOK,
                                                          HoldStates,
                                                          Statuses,
                                                          Handling,
                                                          MsgState,
                                                          HandlerState
<1>2. ASSUME NEW c \in Bets PROVE BetState(c)'
  BY PayoutIsNat DEF Deliver, MarkResolved, HandlerGoesTo, TypeOK,
                     WalletTypeOK, Won, PayoutOf, BetState, PlacementState,
                     LedgerState, SettledState, Settled, MsgState,
                     HandlerState, OwnerState
<1>3. ASSUME NEW n \in Msgs PROVE MsgState(n)'
  BY PayoutIsNat DEF Deliver, MarkResolved, HandlerGoesTo, TypeOK,
                     WalletTypeOK, Won, PayoutOf, OneOwner, Owns, MsgState,
                     HandlerState, OwnerState, BetState, PlacementState,
                     LedgerState, SettledState, Settled
<1>4. OneOwner'
  BY DEF Deliver, MarkResolved, HandlerGoesTo, TypeOK, OneOwner, Owns,
         MsgState, HandlerState, OwnerState, BetState, PlacementState,
         LedgerState, SettledState, Settled
<1> QED BY <1>1, <1>2, <1>3, <1>4

LEMMA FindHeldKeeps == ASSUME IInv, NEW m \in Msgs, FindHeld(m) PROVE IInv'
<1> USE DEF IInv, walletVars, rowVars, handlerVars, coreVars
<1>1. TypeOK'
  BY BettingAssumption, WalletAssumption, PayoutIsNat DEF FindHeld,
                                                          HandlerGoesTo,
                                                          TypeOK,
                                                          WalletTypeOK,
                                                          HoldStates,
                                                          Statuses,
                                                          Handling,
                                                          MsgState,
                                                          HandlerState
<1>2. ASSUME NEW c \in Bets PROVE BetState(c)'
  BY PayoutIsNat DEF FindHeld, HandlerGoesTo, TypeOK, WalletTypeOK, Won,
                     PayoutOf, BetState, PlacementState, LedgerState,
                     SettledState, Settled, MsgState, HandlerState,
                     OwnerState
<1>3. ASSUME NEW n \in Msgs PROVE MsgState(n)'
  BY PayoutIsNat DEF FindHeld, HandlerGoesTo, TypeOK, WalletTypeOK, Won,
                     PayoutOf, OneOwner, Owns, MsgState, HandlerState,
                     OwnerState, BetState, PlacementState, LedgerState,
                     SettledState, Settled
<1>4. OneOwner'
  BY DEF FindHeld, HandlerGoesTo, TypeOK, OneOwner, Owns, MsgState,
         HandlerState, OwnerState, BetState, PlacementState, LedgerState,
         SettledState, Settled
<1> QED BY <1>1, <1>2, <1>3, <1>4

LEMMA ReadRowKeeps ==
    ASSUME IInv, NEW m \in Msgs, NEW b \in Bets, ReadRow(m, b) PROVE IInv'
<1> USE DEF IInv, walletVars, rowVars, coreVars
<1>1. TypeOK'
  <2>1. hpc' \in [Msgs -> {"unsent", "queued", "done"} \union Handling]
    BY DEF ReadRow, HandlerGoesTo, TypeOK, Handling
  <2>2. cur' \in [Msgs -> Bets \union {NoBet}]
    BY DEF ReadRow, TypeOK
  <2> QED BY <2>1, <2>2 DEF ReadRow, TypeOK, WalletTypeOK
<1>2. ASSUME NEW c \in Bets PROVE BetState(c)'
  BY DEF ReadRow, BetState, PlacementState, LedgerState, SettledState, Settled
<1>3. ASSUME NEW n \in Msgs PROVE MsgState(n)'
  BY DEF ReadRow, HandlerGoesTo, TypeOK, MsgState, HandlerState, OwnerState,
         Won, PayoutOf
<1>4. OneOwner'
  <2>1. \A n \in Msgs, c \in Bets : Owns(n, c)' => Owns(n, c)
    BY DEF ReadRow, HandlerGoesTo, Owns, TypeOK
  <2> QED BY <2>1 DEF OneOwner
<1> QED BY <1>1, <1>2, <1>3, <1>4

LEMMA ReleaseKeeps == ASSUME IInv, NEW m \in Msgs, Release(m) PROVE IInv'
<1> USE DEF IInv, walletVars, rowVars, handlerVars, coreVars
<1>0. /\ cur[m] \in Bets /\ cur[m] \in todo[m]
      /\ Owner[cur[m]] \in Users /\ Stake[cur[m]] \in Int
  BY WalletAssumption DEF Release, TypeOK, MsgState, HandlerState
<1>1. TypeOK'
  <2>1. balance' \in [Users -> Int]
    BY <1>0 DEF Release, VoidStake, TypeOK, WalletTypeOK
  <2>2. hold' \in [Bets -> HoldStates]
    BY <1>0 DEF Release, VoidStake, TypeOK, WalletTypeOK, HoldStates
  <2>3. hpc' \in [Msgs -> {"unsent", "queued", "done"} \union Handling]
    BY DEF Release, AfterTransfer, HandlerGoesTo, TypeOK, Handling
  <2> QED
    BY <2>1, <2>2, <2>3 DEF Release, VoidStake, TypeOK, WalletTypeOK
<1>2. ASSUME NEW c \in Bets PROVE BetState(c)'
  BY PayoutIsNat DEF Release, AfterTransfer, VoidStake, StillPending,
                     HandlerGoesTo, TypeOK, WalletTypeOK, Won, PayoutOf,
                     BetState, PlacementState, LedgerState, SettledState,
                     Settled, MsgState, HandlerState, OwnerState
<1>3. ASSUME NEW n \in Msgs PROVE MsgState(n)'
  <2>1. HandlerState(n)'
    BY DEF Release, VoidStake, AfterTransfer, HandlerGoesTo, TypeOK,
           MsgState, HandlerState
  <2>2. CASE n = m
    <3>1. status[cur[m]] = "held" /\ paid[cur[m]] = 0 /\ Won(m, cur[m])
      BY <1>0 DEF Release, VoidStake, StillPending, BetState, LedgerState,
             SettledState, MsgState, HandlerState
    <3>2. hold'[cur[m]] = "voided"
      BY <1>0 DEF Release, VoidStake, TypeOK, WalletTypeOK
    <3>3. PayoutOf(m, cur[m]) > 0 \/ PayoutOf(m, cur[m]) = 0
      BY <1>0, PayoutIsNat
    <3>4. PayoutOf(m, cur[m])' = PayoutOf(m, cur[m]) /\ Won(m, cur[m])'
      BY <3>1 DEF Release, PayoutOf, Won
    <3>5. CASE PayoutOf(m, cur[m]) > 0
      BY <3>1, <3>2, <3>4, <3>5, <2>1, <2>2 DEF Release, VoidStake,
         AfterTransfer, HandlerGoesTo, TypeOK, MsgState, OwnerState
    <3>6. CASE PayoutOf(m, cur[m]) = 0
      BY <3>1, <3>2, <3>4, <3>6, <2>1, <2>2 DEF Release, VoidStake,
         AfterTransfer, HandlerGoesTo, TypeOK, MsgState, OwnerState
    <3> QED BY <3>3, <3>5, <3>6
  <2>3. CASE n # m
    <3>1. hpc[n] \in {"paying", "recording", "publishing"} =>
              cur[n] # cur[m] /\ cur[n] \in Bets
      BY <1>0, <2>3 DEF Release, VoidStake, StillPending, TypeOK, BetState,
             SettledState, MsgState, HandlerState, OwnerState
    <3>2. hpc'[n] = hpc[n]
      BY <2>3 DEF Release, AfterTransfer, HandlerGoesTo, TypeOK
    <3>3. OwnerState(n)'
      BY <3>1, <3>2 DEF Release, VoidStake, TypeOK, WalletTypeOK, MsgState,
             OwnerState, Won, PayoutOf
    <3> QED BY <2>1, <3>3 DEF MsgState
  <2> QED BY <2>2, <2>3
<1>4. OneOwner'
  BY DEF Release, AfterTransfer, VoidStake, StillPending, HandlerGoesTo,
         TypeOK, OneOwner, Owns, MsgState, HandlerState, OwnerState,
         BetState, PlacementState, LedgerState, SettledState, Settled
<1> QED BY <1>1, <1>2, <1>3, <1>4

LEMMA KeepKeeps == ASSUME IInv, NEW m \in Msgs, Keep(m) PROVE IInv'
<1> USE DEF IInv, walletVars, rowVars, handlerVars, coreVars
<1>1. TypeOK'
  BY BettingAssumption, WalletAssumption, PayoutIsNat DEF Keep,
                                                          AfterTransfer,
                                                          PostStake,
                                                          StillPending,
                                                          HandlerGoesTo,
                                                          TypeOK,
                                                          WalletTypeOK,
                                                          HoldStates,
                                                          Statuses,
                                                          Handling,
                                                          MsgState,
                                                          HandlerState
<1>2. ASSUME NEW c \in Bets PROVE BetState(c)'
  BY PayoutIsNat DEF Keep, AfterTransfer, PostStake, StillPending,
                     HandlerGoesTo, TypeOK, WalletTypeOK, Won, PayoutOf,
                     BetState, PlacementState, LedgerState, SettledState,
                     Settled, MsgState, HandlerState, OwnerState
<1>3. ASSUME NEW n \in Msgs PROVE MsgState(n)'
  BY PayoutIsNat DEF Keep, AfterTransfer, PostStake, StillPending,
                     HandlerGoesTo, TypeOK, WalletTypeOK, Won, PayoutOf,
                     OneOwner, Owns, MsgState, HandlerState, OwnerState,
                     BetState, PlacementState, LedgerState, SettledState,
                     Settled
<1>4. OneOwner'
  BY DEF Keep, AfterTransfer, PostStake, StillPending, HandlerGoesTo,
         TypeOK, OneOwner, Owns, MsgState, HandlerState, OwnerState,
         BetState, PlacementState, LedgerState, SettledState, Settled
<1> QED BY <1>1, <1>2, <1>3, <1>4

LEMMA TransferRefusedKeeps == ASSUME IInv, NEW m \in Msgs, TransferRefused(m) PROVE IInv'
<1> USE DEF IInv, walletVars, rowVars, handlerVars, coreVars
<1>1. TypeOK'
  BY BettingAssumption, WalletAssumption, PayoutIsNat DEF TransferRefused,
                                                          HandlerGoesTo,
                                                          TypeOK,
                                                          WalletTypeOK,
                                                          HoldStates,
                                                          Statuses,
                                                          Handling,
                                                          MsgState,
                                                          HandlerState
<1>2. ASSUME NEW c \in Bets PROVE BetState(c)'
  BY PayoutIsNat DEF TransferRefused, HandlerGoesTo, TypeOK, WalletTypeOK,
                     Won, PayoutOf, BetState, PlacementState, LedgerState,
                     SettledState, Settled, MsgState, HandlerState,
                     OwnerState
<1>3. ASSUME NEW n \in Msgs PROVE MsgState(n)'
  BY PayoutIsNat DEF TransferRefused, HandlerGoesTo, TypeOK, WalletTypeOK,
                     Won, PayoutOf, OneOwner, Owns, MsgState, HandlerState,
                     OwnerState, BetState, PlacementState, LedgerState,
                     SettledState, Settled
<1>4. OneOwner'
  BY DEF TransferRefused, HandlerGoesTo, TypeOK, OneOwner, Owns, MsgState,
         HandlerState, OwnerState, BetState, PlacementState, LedgerState,
         SettledState, Settled
<1> QED BY <1>1, <1>2, <1>3, <1>4

LEMMA PayoutKeeps == ASSUME IInv, NEW m \in Msgs, Payout(m) PROVE IInv'
<1> USE DEF IInv, walletVars, rowVars, handlerVars, coreVars
<1>0. /\ cur[m] \in Bets /\ cur[m] \in todo[m]
      /\ Owner[cur[m]] \in Users /\ PayoutOf(m, cur[m]) \in Nat
  BY WalletAssumption, PayoutIsNat DEF Payout, TypeOK, MsgState, HandlerState
<1>1. TypeOK'
  <2>1. balance' \in [Users -> Int]
    BY <1>0 DEF Payout, PayProfit, TypeOK, WalletTypeOK
  <2>2. paid' \in [Bets -> Nat]
    BY <1>0 DEF Payout, PayProfit, TypeOK, WalletTypeOK
  <2>3. hpc' \in [Msgs -> {"unsent", "queued", "done"} \union Handling]
    BY DEF Payout, AfterTransfer, HandlerGoesTo, TypeOK, Handling
  <2> QED
    BY <2>1, <2>2, <2>3 DEF Payout, PayProfit, TypeOK, WalletTypeOK
<1>5. /\ status[cur[m]] = "held" /\ hold[cur[m]] = "voided"
      /\ paid[cur[m]] = 0 /\ Won(m, cur[m])
  BY DEF Payout, MsgState, OwnerState
<1>6. paid' = [paid EXCEPT ![cur[m]] = PayoutOf(m, cur[m])]
  <2>1. paid' = [paid EXCEPT ![cur[m]] = paid[cur[m]] + PayoutOf(m, cur[m])]
    BY DEF Payout, PayProfit
  <2>2. paid[cur[m]] + PayoutOf(m, cur[m]) = PayoutOf(m, cur[m])
    BY <1>0, <1>5
  <2> QED BY <2>1, <2>2
<1>2. ASSUME NEW c \in Bets PROVE BetState(c)'
  <2>1. CASE c = cur[m]
    <3>1. paid'[c] = ProfitCents(Stake[c], quote[c])
      BY <1>0, <1>5, <1>6, <2>1 DEF PayoutOf, TypeOK, WalletTypeOK
    <3> QED
      BY <1>5, <2>1, <3>1 DEF Payout, PayProfit, BetState, PlacementState,
             LedgerState, SettledState, Settled
  <2>2. CASE c # cur[m]
    BY <1>6, <2>2 DEF Payout, PayProfit, TypeOK, WalletTypeOK, BetState,
           PlacementState, LedgerState, SettledState, Settled
  <2> QED BY <2>1, <2>2
<1>3. ASSUME NEW n \in Msgs PROVE MsgState(n)'
  <2>1. HandlerState(n)'
    BY DEF Payout, PayProfit, AfterTransfer, HandlerGoesTo, TypeOK,
           MsgState, HandlerState
  <2>2. CASE n = m
    <3>1. paid'[cur[m]] = PayoutOf(m, cur[m])
      BY <1>0, <1>6 DEF TypeOK, WalletTypeOK
    <3>2. PayoutOf(m, cur[m])' = PayoutOf(m, cur[m]) /\ Won(m, cur[m])'
      BY <1>5 DEF Payout, PayoutOf, Won
    <3> QED
      BY <1>5, <2>1, <2>2, <3>1, <3>2 DEF Payout, PayProfit, AfterTransfer,
             HandlerGoesTo, TypeOK, MsgState, OwnerState
  <2>3. CASE n # m
    <3>1. hpc[n] \in {"paying", "recording", "publishing"} =>
              cur[n] # cur[m] /\ cur[n] \in Bets
      BY <1>0, <2>3 DEF Payout, OneOwner, Owns, TypeOK, MsgState, HandlerState
    <3>2. hpc'[n] = hpc[n]
      BY <2>3 DEF Payout, AfterTransfer, HandlerGoesTo, TypeOK
    <3>3. OwnerState(n)'
      BY <1>6, <3>1, <3>2 DEF Payout, PayProfit, TypeOK, WalletTypeOK,
             MsgState, OwnerState, Won, PayoutOf
    <3> QED BY <2>1, <3>3 DEF MsgState
  <2> QED BY <2>2, <2>3
<1>4. OneOwner'
  BY DEF Payout, AfterTransfer, PayProfit, HandlerGoesTo, TypeOK, OneOwner,
         Owns, MsgState, HandlerState, OwnerState, BetState, PlacementState,
         LedgerState, SettledState, Settled
<1> QED BY <1>1, <1>2, <1>3, <1>4

LEMMA RecordKeeps == ASSUME IInv, NEW m \in Msgs, Record(m) PROVE IInv'
<1> USE DEF IInv, walletVars, rowVars, handlerVars, coreVars
<1>0. /\ cur[m] \in Bets /\ cur[m] \in todo[m]
      /\ PayoutOf(m, cur[m]) \in Nat
      /\ status[cur[m]] = "held"
  BY PayoutIsNat DEF Record, TypeOK, MsgState, HandlerState, OwnerState
<1>1. TypeOK'
  <2>1. status' \in [Bets -> Statuses]
    BY <1>0 DEF Record, TypeOK, Statuses
  <2>2. payoutCents' \in [Bets -> Nat]
    BY <1>0 DEF Record, TypeOK
  <2>3. hpc' \in [Msgs -> {"unsent", "queued", "done"} \union Handling]
    BY DEF Record, HandlerGoesTo, TypeOK, Handling
  <2> QED
    BY <2>1, <2>2, <2>3 DEF Record, TypeOK, WalletTypeOK
<1>5. \A c \in Bets : c # cur[m] =>
          status'[c] = status[c] /\ payoutCents'[c] = payoutCents[c]
  BY DEF Record, TypeOK
<1>6. \/ /\ status'[cur[m]] = IF Won(m, cur[m]) THEN "won" ELSE "lost"
         /\ payoutCents'[cur[m]] = PayoutOf(m, cur[m])
         /\ hpc' = [hpc EXCEPT ![m] = "publishing"]
      \/ /\ UNCHANGED <<status, payoutCents>>
         /\ hpc' = [hpc EXCEPT ![m] = "failing"]
  BY <1>0 DEF Record, HandlerGoesTo, TypeOK
<1>2. ASSUME NEW c \in Bets PROVE BetState(c)'
  BY PayoutIsNat DEF Record, HandlerGoesTo, TypeOK, WalletTypeOK, Won,
                     PayoutOf, BetState, PlacementState, LedgerState,
                     SettledState, Settled, MsgState, HandlerState,
                     OwnerState
<1>3. ASSUME NEW n \in Msgs PROVE MsgState(n)'
  <2>1. HandlerState(n)'
    <3>1. UNCHANGED <<todo, cur, result>> /\ todo[n] \subseteq Bets
      BY DEF Record, TypeOK
    <3>2. \A c \in Bets : status'[c] \in {status[c], "won", "lost"}
      BY <1>5, <1>6
    <3>3. \/ hpc'[n] = hpc[n]
          \/ n = m /\ hpc'[n] \in {"publishing", "failing"}
      BY <1>6 DEF TypeOK
    <3>4. hpc[m] = "recording"
      BY DEF Record
    <3> QED
      BY <1>0, <3>1, <3>2, <3>3, <3>4 DEF MsgState, HandlerState
  <2>2. CASE n = m
    <3>1. PayoutOf(m, cur[m])' = PayoutOf(m, cur[m])
      BY DEF Record, PayoutOf, Won
    <3>2. Won(m, cur[m])' = Won(m, cur[m])
      BY DEF Record, Won
    <3>3. sent'[cur[m]] = <<>>
      BY <1>0 DEF Record, BetState, SettledState, Settled
    <3>4. OwnerState(m)'
      BY <1>6, <3>1, <3>2, <3>3 DEF Record, TypeOK, OwnerState
    <3> QED BY <2>1, <2>2, <3>4 DEF MsgState
  <2>3. CASE n # m
    <3>1. hpc[n] \in {"paying", "recording", "publishing"} =>
              cur[n] # cur[m] /\ cur[n] \in Bets
      BY <1>0, <2>3 DEF Record, OneOwner, Owns, TypeOK, MsgState, HandlerState
    <3>2. hpc'[n] = hpc[n]
      BY <1>6, <2>3 DEF TypeOK
    <3>3. OwnerState(n)'
      BY <1>5, <3>1, <3>2 DEF Record, MsgState, OwnerState, Won, PayoutOf
    <3> QED BY <2>1, <3>3 DEF MsgState
  <2> QED BY <2>2, <2>3
<1>4. OneOwner'
  <2>1. \A n \in Msgs, c \in Bets : Owns(n, c)' => Owns(n, c)
    BY <1>6 DEF Record, Owns, TypeOK
  <2> QED BY <2>1 DEF OneOwner
<1> QED BY <1>1, <1>2, <1>3, <1>4

LEMMA PublishSettledKeeps == ASSUME IInv, NEW m \in Msgs, PublishSettled(m) PROVE IInv'
<1> USE DEF IInv, walletVars, rowVars, handlerVars, coreVars
<1>0. /\ cur[m] \in Bets /\ cur[m] \in todo[m]
      /\ PayoutOf(m, cur[m]) \in Nat
      /\ status[cur[m]] = IF Won(m, cur[m]) THEN "won" ELSE "lost"
      /\ payoutCents[cur[m]] = PayoutOf(m, cur[m])
      /\ sent[cur[m]] = <<>>
  BY PayoutIsNat
  DEF PublishSettled, TypeOK, MsgState, HandlerState, OwnerState
<1> DEFINE msg == [won |-> Won(m, cur[m]), payoutCents |-> PayoutOf(m, cur[m])]
<1>5. \/ /\ sent' = [sent EXCEPT ![cur[m]] = Append(@, msg)]
         /\ todo' = [todo EXCEPT ![m] = @ \ {cur[m]}]
         /\ hpc' = [hpc EXCEPT ![m] = "looping"]
         /\ cur' = [cur EXCEPT ![m] = NoBet]
      \/ /\ hpc' = [hpc EXCEPT ![m] = "failing"]
         /\ UNCHANGED <<sent, todo, cur>>
  BY DEF PublishSettled, HandlerGoesTo
<1>1. TypeOK'
  <2>1. sent' \in [Bets -> Seq(SettledEvent)]
    <3>1. msg \in SettledEvent
      BY <1>0 DEF SettledEvent, Won
    <3>2. Append(sent[cur[m]], msg) \in Seq(SettledEvent)
      BY <1>0, <3>1 DEF TypeOK
    <3> HIDE DEF msg
    <3> QED BY <1>0, <1>5, <3>2 DEF TypeOK
  <2>2. todo' \in [Msgs -> SUBSET Bets]
    <3>1. CASE todo' = [todo EXCEPT ![m] = @ \ {cur[m]}]
      BY <3>1 DEF TypeOK
    <3>2. CASE todo' = todo
      BY <3>2 DEF TypeOK
    <3> QED BY <1>5, <3>1, <3>2
  <2>3. cur' \in [Msgs -> Bets \union {NoBet}]
    BY <1>5 DEF TypeOK
  <2>4. hpc' \in [Msgs -> {"unsent", "queued", "done"} \union Handling]
    BY <1>5 DEF TypeOK, Handling
  <2> QED
    BY <2>1, <2>2, <2>3, <2>4 DEF PublishSettled, TypeOK, WalletTypeOK
<1>2. ASSUME NEW c \in Bets PROVE BetState(c)'
  <2>1. \/ sent'[c] = sent[c]
        \/ c = cur[m] /\ sent'[c] = <<msg>>
    BY <1>0, <1>5 DEF TypeOK
  <2>2. msg.won = Won(m, cur[m]) /\ msg.payoutCents = PayoutOf(m, cur[m])
    OBVIOUS
  <2>3. c = cur[m] => Settled(c) /\ msg = [won |-> status[c] = "won",
                                          payoutCents |-> payoutCents[c]]
    BY <1>0 DEF Settled, Won
  <2> HIDE DEF msg
  <2> QED
    BY <2>1, <2>3 DEF PublishSettled, BetState, PlacementState,
           LedgerState, SettledState, Settled
<1>3. ASSUME NEW n \in Msgs PROVE MsgState(n)'
  <2>1. HandlerState(n)'
    <3>1. todo'[n] \subseteq todo[n]
      BY <1>5 DEF TypeOK
    <3>2. n # m => todo'[n] = todo[n] /\ cur'[n] = cur[n] /\ hpc'[n] = hpc[n]
      BY <1>5 DEF TypeOK
    <3>3. hpc'[m] \in {"looping", "failing"} /\ hpc[m] = "publishing"
      BY <1>5 DEF PublishSettled, TypeOK
    <3> QED
      BY <3>1, <3>2, <3>3 DEF PublishSettled, MsgState, HandlerState
  <2>2. OwnerState(n)'
    <3>1. CASE n = m
      BY <1>5, <3>1 DEF TypeOK, OwnerState
    <3>2. CASE n # m
      <4>1. hpc[n] \in {"paying", "recording", "publishing"} =>
                cur[n] # cur[m] /\ cur[n] \in Bets
        BY <1>0, <3>2
        DEF PublishSettled, OneOwner, Owns, TypeOK, MsgState, HandlerState
      <4>2. hpc'[n] = hpc[n] /\ cur'[n] = cur[n]
        BY <1>5, <3>2 DEF TypeOK
      <4>3. cur[n] \in Bets /\ cur[n] # cur[m] => sent'[cur[n]] = sent[cur[n]]
        BY <1>5 DEF TypeOK
      <4> QED
        BY <4>1, <4>2, <4>3
        DEF PublishSettled, MsgState, OwnerState, Won, PayoutOf
    <3> QED BY <3>1, <3>2
  <2> QED BY <2>1, <2>2 DEF MsgState
<1>4. OneOwner'
  <2>1. \A n \in Msgs, c \in Bets : Owns(n, c)' => Owns(n, c)
    BY <1>5 DEF Owns, TypeOK
  <2> QED BY <2>1 DEF OneOwner
<1> QED BY <1>1, <1>2, <1>3, <1>4

LEMMA EndLoopKeeps == ASSUME IInv, NEW m \in Msgs, EndLoop(m) PROVE IInv'
<1> USE DEF IInv, walletVars, rowVars, handlerVars, coreVars
<1>1. TypeOK'
  BY BettingAssumption, WalletAssumption, PayoutIsNat DEF EndLoop,
                                                          HandlerGoesTo,
                                                          TypeOK,
                                                          WalletTypeOK,
                                                          HoldStates,
                                                          Statuses,
                                                          Handling,
                                                          MsgState,
                                                          HandlerState
<1>2. ASSUME NEW c \in Bets PROVE BetState(c)'
  BY PayoutIsNat DEF EndLoop, HandlerGoesTo, TypeOK, WalletTypeOK, Won,
                     PayoutOf, BetState, PlacementState, LedgerState,
                     SettledState, Settled, MsgState, HandlerState,
                     OwnerState
<1>3. ASSUME NEW n \in Msgs PROVE MsgState(n)'
  BY PayoutIsNat DEF EndLoop, HandlerGoesTo, TypeOK, WalletTypeOK, Won,
                     PayoutOf, OneOwner, Owns, MsgState, HandlerState,
                     OwnerState, BetState, PlacementState, LedgerState,
                     SettledState, Settled
<1>4. OneOwner'
  BY DEF EndLoop, HandlerGoesTo, TypeOK, OneOwner, Owns, MsgState,
         HandlerState, OwnerState, BetState, PlacementState, LedgerState,
         SettledState, Settled
<1> QED BY <1>1, <1>2, <1>3, <1>4

LEMMA FinishKeeps == ASSUME IInv, NEW m \in Msgs, Finish(m) PROVE IInv'
<1> USE DEF IInv, walletVars, rowVars, handlerVars, coreVars
<1>1. TypeOK'
  BY BettingAssumption, WalletAssumption, PayoutIsNat DEF Finish,
                                                          HandlerGoesTo,
                                                          TypeOK,
                                                          WalletTypeOK,
                                                          HoldStates,
                                                          Statuses,
                                                          Handling,
                                                          MsgState,
                                                          HandlerState
<1>2. ASSUME NEW c \in Bets PROVE BetState(c)'
  BY PayoutIsNat DEF Finish, HandlerGoesTo, TypeOK, WalletTypeOK, Won,
                     PayoutOf, BetState, PlacementState, LedgerState,
                     SettledState, Settled, MsgState, HandlerState,
                     OwnerState
<1>3. ASSUME NEW n \in Msgs PROVE MsgState(n)'
  BY PayoutIsNat DEF Finish, HandlerGoesTo, TypeOK, WalletTypeOK, Won,
                     PayoutOf, OneOwner, Owns, MsgState, HandlerState,
                     OwnerState, BetState, PlacementState, LedgerState,
                     SettledState, Settled
<1>4. OneOwner'
  BY DEF Finish, HandlerGoesTo, TypeOK, OneOwner, Owns, MsgState,
         HandlerState, OwnerState, BetState, PlacementState, LedgerState,
         SettledState, Settled
<1> QED BY <1>1, <1>2, <1>3, <1>4

LEMMA HandlerStatementFailsKeeps == ASSUME IInv, NEW m \in Msgs, HandlerStatementFails(m) PROVE IInv'
<1> USE DEF IInv, walletVars, rowVars, handlerVars, coreVars
<1>1. TypeOK'
  BY BettingAssumption, WalletAssumption, PayoutIsNat DEF
                                                          HandlerStatementFails,
                                                          Fault,
                                                          HandlerGoesTo,
                                                          TypeOK,
                                                          WalletTypeOK,
                                                          HoldStates,
                                                          Statuses,
                                                          Handling,
                                                          MsgState,
                                                          HandlerState
<1>2. ASSUME NEW c \in Bets PROVE BetState(c)'
  BY PayoutIsNat DEF HandlerStatementFails, Fault, HandlerGoesTo, TypeOK,
                     WalletTypeOK, Won, PayoutOf, BetState, PlacementState,
                     LedgerState, SettledState, Settled, MsgState,
                     HandlerState, OwnerState
<1>3. ASSUME NEW n \in Msgs PROVE MsgState(n)'
  BY PayoutIsNat DEF HandlerStatementFails, Fault, HandlerGoesTo, TypeOK,
                     WalletTypeOK, Won, PayoutOf, OneOwner, Owns, MsgState,
                     HandlerState, OwnerState, BetState, PlacementState,
                     LedgerState, SettledState, Settled
<1>4. OneOwner'
  BY DEF HandlerStatementFails, Fault, HandlerGoesTo, TypeOK, OneOwner,
         Owns, MsgState, HandlerState, OwnerState, BetState, PlacementState,
         LedgerState, SettledState, Settled
<1> QED BY <1>1, <1>2, <1>3, <1>4

\* A restart forgets what was in flight and touches neither rows nor ledger.
LEMMA RestartKeeps == ASSUME IInv, Restart, faults' \in 0..MaxFaults PROVE IInv'
<1> USE DEF IInv, walletVars, rowVars, Restart
<1>1. TypeOK'
  <2>1. pc' \in [Bets -> {"idle"} \union Placing \union Answers]
    BY DEF TypeOK, Answers
  <2>2. hpc' \in [Msgs -> {"unsent", "queued", "done"} \union Handling]
    BY DEF TypeOK
  <2> QED BY <2>1, <2>2 DEF TypeOK, WalletTypeOK
<1>2. ASSUME NEW c \in Bets PROVE BetState(c)'
  BY DEF TypeOK, Placing, BetState, PlacementState, LedgerState, SettledState,
         Settled
<1>3. ASSUME NEW n \in Msgs PROVE MsgState(n)'
  BY DEF TypeOK, Handling, MsgState, HandlerState, OwnerState
<1>4. OneOwner'
  BY DEF TypeOK, Handling, OneOwner, Owns
<1> QED BY <1>1, <1>2, <1>3, <1>4

LEMMA NextIInv == IInv /\ [Next]_vars => IInv'
<1> SUFFICES ASSUME IInv, [Next]_vars PROVE IInv'
  OBVIOUS
<1>1. ASSUME NEW b \in Bets, Request(b) \/ PlaceStep(b) \/ PlaceStatementFails(b)
      PROVE  IInv'
  BY <1>1, RequestKeeps, SaveRowKeeps, HoldKeeps, DeleteRowKeeps,
     ConfirmHeldKeeps, NotifyHeldKeeps, PlaceStatementFailsKeeps DEF PlaceStep
<1>2. ASSUME NEW m \in Msgs, HandleStep(m) PROVE IInv'
  <2>1. CASE DieOnClosedChannel(m)
    <3>1. Restart /\ faults' \in 0..MaxFaults
      BY <2>1 DEF DieOnClosedChannel, IInv, TypeOK
    <3> QED BY <3>1, RestartKeeps
  <2> QED
    BY <1>2, <2>1, DeliverKeeps, FindHeldKeeps, ReadRowKeeps, ReleaseKeeps,
       KeepKeeps, TransferRefusedKeeps, PayoutKeeps, RecordKeeps,
       PublishSettledKeeps, EndLoopKeeps, FinishKeeps DEF HandleStep
<1>3. CASE Crash
  <2>1. Restart /\ faults' \in 0..MaxFaults
    BY <1>3, BettingAssumption DEF Crash, Fault, IInv, TypeOK
  <2> QED BY <2>1, RestartKeeps
<1>4. CASE UNCHANGED vars
  BY <1>4
  DEF vars, walletVars, rowVars, handlerVars, coreVars, IInv, TypeOK,
      WalletTypeOK, BetState, PlacementState, LedgerState, SettledState,
      Settled, MsgState, HandlerState, OwnerState, OneOwner, Owns, Won, PayoutOf
<1> QED
  BY <1>1, <1>2, <1>3, <1>4, BettingAssumption, EnvironmentKeeps, PublishKeeps,
     HandlerStatementFailsKeeps DEF Next

\* Spec keeps the invariant that the safety properties rest on.
THEOREM Invariance == Spec => []IInv
  BY InitIInv, NextIInv, PTL DEF Spec

\* Every variable of core keeps its type.
THEOREM TypeCorrect == Spec => []TypeOK
<1>1. IInv => TypeOK
  BY DEF IInv
<1> QED BY <1>1, Invariance, PTL

-----------------------------------------------------------------------------
(* The safety properties                                                   *)

\* A row of the bets table tells what happened to its money on the ledger, in
\* every state: in the middle of place and settle, after crashes, after any
\* number of redeliveries.
THEOREM RowsMatchLedger == Spec => []RowMatchesLedger
<1>1. IInv => RowMatchesLedger
  BY DEF IInv, RowMatchesLedger, BetState, LedgerState, SettledState
<1> QED BY <1>1, Invariance, PTL

\* No number of deliveries, overlapping handlers and crashes pays a bet twice,
\* and none pays a bet whose stake was not given back.
THEOREM NeverPaidTwice == Spec => []PaidAtMostOnce
<1>1. IInv => PaidAtMostOnce
  BY DEF IInv, PaidAtMostOnce, BetState, LedgerState, TypeOK, WalletTypeOK
<1> QED BY <1>1, Invariance, PTL

\* bets.settled carries at most one message per bet, and it says what the
\* settled row says.
THEOREM SettledEventsMatchRows == Spec => []SettledEventMatchesRow
<1>1. ASSUME IInv, NEW b \in Bets, sent[b] # <<>>
      PROVE  /\ Len(sent[b]) = 1
             /\ status[b] = IF sent[b][1].won THEN "won" ELSE "lost"
             /\ payoutCents[b] = sent[b][1].payoutCents
  <2> DEFINE msg == [won |-> status[b] = "won", payoutCents |-> payoutCents[b]]
  <2>1. sent[b] = <<msg>> /\ status[b] \in {"won", "lost"}
    BY <1>1 DEF IInv, BetState, SettledState, Settled
  <2>2. Len(sent[b]) = 1 /\ sent[b][1] = msg
    BY <2>1
  <2>3. msg.won = (status[b] = "won") /\ msg.payoutCents = payoutCents[b]
    OBVIOUS
  <2>4. status[b] = IF msg.won THEN "won" ELSE "lost"
    BY <2>1, <2>3
  <2> QED BY <2>2, <2>3, <2>4
<1>2. ASSUME NEW b \in Bets, sent[b] = <<>> PROVE Len(sent[b]) = 0
  BY <1>2
<1>3. IInv => SettledEventMatchesRow
  <2> SUFFICES ASSUME IInv, NEW b \in Bets
               PROVE  /\ Len(sent[b]) <= 1
                      /\ Len(sent[b]) = 1 =>
                             /\ status[b] = IF sent[b][1].won THEN "won" ELSE "lost"
                             /\ payoutCents[b] = sent[b][1].payoutCents
    BY DEF SettledEventMatchesRow
  <2>1. CASE sent[b] = <<>>
    BY <2>1, <1>2
  <2>2. CASE sent[b] # <<>>
    <3>1. /\ Len(sent[b]) = 1
          /\ status[b] = IF sent[b][1].won THEN "won" ELSE "lost"
          /\ payoutCents[b] = sent[b][1].payoutCents
      BY <2>2, <1>1
    <3>2. Len(sent[b]) <= 1
      BY <3>1
    <3> QED BY <3>1, <3>2
  <2> QED BY <2>1, <2>2
<1> QED BY <1>3, Invariance, PTL

\* The answer of place is the truth when it is a definite one.
THEOREM AnswersAreTrue == Spec => []AnswerIsTrue
<1>1. IInv => AnswerIsTrue
  BY DEF IInv, AnswerIsTrue, BetState, PlacementState, LedgerState,
         SettledState
<1> QED BY <1>1, Invariance, PTL

\* A settled row keeps its outcome and its payout for ever: no step of a
\* placement, of a second handler or of a restart rewrites it.
THEOREM SettledRowsAreFinal == Spec => SettledIsFinal
<1> DEFINE Final == \A b \in Bets : status[b] \in {"won", "lost"} =>
                        status'[b] = status[b] /\ payoutCents'[b] = payoutCents[b]
<1>1. ASSUME IInv, [Next]_vars PROVE [Final]_vars
  <2>1. CASE UNCHANGED <<status, payoutCents>>
    BY <2>1
  <2>2. ASSUME NEW b \in Bets, SaveRow(b) \/ DeleteRow(b) \/ ConfirmHeld(b)
        PROVE  Final
    <3>1. status[b] \in {"none", "pending"}
      BY <1>1, <2>2 DEF SaveRow, DeleteRow, ConfirmHeld, IInv, BetState,
             PlacementState
    <3>2. /\ \A c \in Bets : c # b => status'[c] = status[c]
          /\ payoutCents' = payoutCents
      BY <1>1, <2>2 DEF SaveRow, DeleteRow, ConfirmHeld, IInv, TypeOK
    <3> QED BY <3>1, <3>2
  <2>3. ASSUME NEW m \in Msgs, Record(m) PROVE Final
    <3>1. status[cur[m]] = "held"
      BY <1>1, <2>3 DEF Record, IInv, MsgState, OwnerState
    <3>2. \A c \in Bets : c # cur[m] =>
              status'[c] = status[c] /\ payoutCents'[c] = payoutCents[c]
      BY <1>1, <2>3 DEF Record, IInv, TypeOK
    <3> QED BY <3>1, <3>2
  <2>4. \/ UNCHANGED <<status, payoutCents>>
        \/ \E b \in Bets : SaveRow(b) \/ DeleteRow(b) \/ ConfirmHeld(b)
        \/ \E m \in Msgs : Record(m)
    <3> USE DEF vars, rowVars
    <3>1. ASSUME NEW b \in Bets, Request(b) \/ PlaceStep(b) \/ PlaceStatementFails(b)
          PROVE  \/ UNCHANGED <<status, payoutCents>>
                 \/ SaveRow(b) \/ DeleteRow(b) \/ ConfirmHeld(b)
      BY <3>1 DEF Request, PlaceStep, Hold, NotifyHeld, PlaceStatementFails
    <3>2. ASSUME NEW m \in Msgs, HandleStep(m)
          PROVE  UNCHANGED <<status, payoutCents>> \/ Record(m)
      BY <3>2 DEF HandleStep, Deliver, FindHeld, ReadRow, Release, Keep,
             TransferRefused, Payout, PublishSettled, EndLoop, Finish,
             DieOnClosedChannel, Restart
    <3>3. ASSUME NEW m \in Msgs,
                 \/ HandlerStatementFails(m)
                 \/ \E e \in Events, o \in Outcomes : Publish(m, e, o)
          PROVE  UNCHANGED <<status, payoutCents>>
      BY <3>3 DEF HandlerStatementFails, Publish
    <3>4. ASSUME \/ \E e \in Events : CacheOpen(e) \/ CacheClose(e)
                 \/ Crash \/ ChannelLoss
          PROVE  UNCHANGED <<status, payoutCents>>
      BY <3>4 DEF CacheOpen, CacheClose, Crash, Restart, ChannelLoss
    <3> QED BY <1>1, <3>1, <3>2, <3>3, <3>4 DEF Next
  <2> QED BY <2>1, <2>2, <2>3, <2>4
<1> QED BY <1>1, Invariance, PTL DEF Spec, SettledIsFinal

-----------------------------------------------------------------------------
(* The account of a player                                                 *)

Reserved(u) == {b \in Bets : Owner[b] = u /\ hold[b] \in {"pending", "posted"}}
Returned(u) == {b \in Bets : Owner[b] = u /\ hold[b] = "voided"}

\* What the account of u has to hold.
Due(u) == Opening[u] - SumOver(Stake, Reserved(u)) + SumOver(paid, Returned(u))

LEMMA BooksAsSums == BooksBalance <=> \A u \in Users : balance[u] = Due(u)
  BY DEF BooksBalance, Due, SumOver, Reserved, Returned

LEMMA BooksAsSumsNext == (BooksBalance <=> \A u \in Users : balance[u] = Due(u))'
  BY BooksAsSums, PTL

\* Only bets somebody has asked for have moved money, so the sums are finite.
LEMMA MovedFinite ==
    ASSUME IInv, IsFiniteSet(Asked), NEW u
    PROVE  /\ IsFiniteSet(Reserved(u)) /\ IsFiniteSet(Returned(u))
           /\ \A b \in Reserved(u) : Stake[b] \in Int
           /\ \A b \in Returned(u) : paid[b] \in Int
<1>1. \A b \in Bets : hold[b] # "none" => b \in Asked
  BY DEF IInv, BetState, PlacementState, Asked
<1>2. Reserved(u) \subseteq Asked /\ Returned(u) \subseteq Asked
  BY <1>1 DEF Reserved, Returned
<1>3. IsFiniteSet(Reserved(u)) /\ IsFiniteSet(Returned(u))
  BY <1>2, FS_Subset
<1>4. \A b \in Bets : Stake[b] \in Int /\ paid[b] \in Int
  BY WalletAssumption DEF IInv, TypeOK, WalletTypeOK
<1> QED BY <1>3, <1>4 DEF Reserved, Returned

\* A step asks for at most one bet.
LEMMA AskedStaysFinite ==
    ASSUME IInv, IsFiniteSet(Asked), [Next]_vars PROVE IsFiniteSet(Asked')
<1>1. CASE \E b \in Bets : Request(b)
  <2>1. PICK b \in Bets : Request(b)
    BY <1>1
  <2>2. Asked' \subseteq Asked \union {b}
    BY <2>1 DEF Request, PlaceGoesTo, IInv, TypeOK, Asked
  <2>3. IsFiniteSet(Asked \union {b})
    BY FS_AddElement
  <2> QED BY <2>2, <2>3, FS_Subset
<1>2. ASSUME NEW b \in Bets, PlaceStep(b) \/ PlaceStatementFails(b)
      PROVE  Asked' \subseteq Asked
  BY <1>2 DEF PlaceStep, SaveRow, Hold, DeleteRow, ConfirmHeld, NotifyHeld,
         PlaceStatementFails, PlaceGoesTo, IInv, TypeOK, Asked
<1>3. ASSUME Restart PROVE Asked' \subseteq Asked
  BY <1>3 DEF Restart, Placing, Asked
<1>4. ASSUME NEW m \in Msgs,
             \/ HandleStep(m) \/ HandlerStatementFails(m)
             \/ \E e \in Events, o \in Outcomes : Publish(m, e, o)
      PROVE  Asked' \subseteq Asked
  <2>1. CASE DieOnClosedChannel(m)
    BY <2>1, <1>3 DEF DieOnClosedChannel
  <2>2. CASE ~ DieOnClosedChannel(m)
    <3>1. UNCHANGED pc
      BY <1>4, <2>2 DEF HandleStep, Deliver, FindHeld, ReadRow, Release, Keep,
             TransferRefused, Payout, Record, PublishSettled, EndLoop, Finish,
             HandlerStatementFails, Publish
    <3> QED BY <3>1 DEF Asked
  <2> QED BY <2>1, <2>2
<1>5. ASSUME \/ \E e \in Events : CacheOpen(e) \/ CacheClose(e)
             \/ ChannelLoss \/ UNCHANGED vars
      PROVE  Asked' \subseteq Asked
  BY <1>5 DEF CacheOpen, CacheClose, ChannelLoss, vars, Asked
<1>6. CASE Asked' \subseteq Asked
  BY <1>6, FS_Subset
<1> QED BY <1>1, <1>2, <1>3, <1>4, <1>5, <1>6 DEF Next, Crash

\* Every step leaves the ledger alone or makes one transfer: a stake is
\* reserved once, given back or kept only while it is reserved, and a profit is
\* paid only after the stake went back.
LEMMA Transfers ==
    ASSUME IInv, [Next]_vars
    PROVE  \/ UNCHANGED walletVars
           \/ \E b \in Bets : HoldStake(b) /\ hold[b] = "none"
           \/ \E b \in Bets : VoidStake(b) \/ PostStake(b)
           \/ \E b \in Bets : \E cents \in Nat :
                  PayProfit(b, cents) /\ hold[b] = "voided"
<1>1. ASSUME NEW b \in Bets, Request(b) \/ PlaceStep(b) \/ PlaceStatementFails(b)
      PROVE  UNCHANGED walletVars \/ (HoldStake(b) /\ hold[b] = "none")
  BY <1>1 DEF Request, PlaceStep, SaveRow, Hold, DeleteRow, ConfirmHeld,
         NotifyHeld, PlaceStatementFails, IInv, BetState, PlacementState
<1>2. ASSUME NEW m \in Msgs, Release(m) \/ Keep(m)
      PROVE  \E b \in Bets : VoidStake(b) \/ PostStake(b)
  <2>1. cur[m] \in Bets
    BY <1>2 DEF Release, Keep, IInv, TypeOK, MsgState, HandlerState
  <2> QED BY <1>2, <2>1 DEF Release, Keep
<1>3. ASSUME NEW m \in Msgs, Payout(m)
      PROVE  \E b \in Bets : \E cents \in Nat :
                 PayProfit(b, cents) /\ hold[b] = "voided"
  <2>1. cur[m] \in Bets /\ hold[cur[m]] = "voided"
    BY <1>3 DEF Payout, IInv, TypeOK, MsgState, HandlerState, OwnerState
  <2>2. PayoutOf(m, cur[m]) \in Nat
    BY <2>1, PayoutIsNat DEF IInv
  <2> QED BY <1>3, <2>1, <2>2 DEF Payout
<1>4. ASSUME NEW m \in Msgs, HandleStep(m)
      PROVE  UNCHANGED walletVars \/ Release(m) \/ Keep(m) \/ Payout(m)
  BY <1>4 DEF HandleStep, Deliver, FindHeld, ReadRow, TransferRefused, Record,
         PublishSettled, EndLoop, Finish, DieOnClosedChannel, Restart, walletVars
<1>5. ASSUME NEW m \in Msgs,
             \/ HandlerStatementFails(m)
             \/ \E e \in Events, o \in Outcomes : Publish(m, e, o)
      PROVE  UNCHANGED walletVars
  BY <1>5 DEF HandlerStatementFails, Publish, walletVars
<1>6. ASSUME \/ \E e \in Events : CacheOpen(e) \/ CacheClose(e)
             \/ Crash \/ ChannelLoss \/ UNCHANGED vars
      PROVE  UNCHANGED walletVars
  BY <1>6 DEF CacheOpen, CacheClose, Crash, Restart, ChannelLoss, vars, walletVars
<1> QED BY <1>1, <1>2, <1>3, <1>4, <1>5, <1>6 DEF Next

LEMMA BooksStayBalanced ==
    ASSUME AccountInv, [Next]_vars PROVE BooksBalance'
<1> SUFFICES ASSUME NEW u \in Users PROVE (balance[u] = Due(u))'
  BY BooksAsSumsNext
<1>1. balance[u] = Due(u)
  BY BooksAsSums DEF AccountInv
<1>2. /\ IsFiniteSet(Reserved(u)) /\ IsFiniteSet(Returned(u))
      /\ \A b \in Reserved(u) : Stake[b] \in Int
      /\ \A b \in Returned(u) : paid[b] \in Int
  BY MovedFinite DEF AccountInv
<1>3. /\ balance \in [Users -> Int] /\ paid \in [Bets -> Nat]
      /\ hold \in [Bets -> HoldStates]
      /\ \A b \in Bets : Stake[b] \in Int /\ Owner[b] \in Users
      /\ Opening[u] \in Int
  BY WalletAssumption DEF AccountInv, IInv, TypeOK, WalletTypeOK
<1> DEFINE stakes == SumOver(Stake, Reserved(u))
           profits == SumOver(paid, Returned(u))
<1>4. stakes \in Int /\ profits \in Int
  BY <1>2, SumIsInt
<1>5. balance[u] = Opening[u] - stakes + profits
  BY <1>1 DEF Due
<1>6. Due(u)' = Opening[u] - SumOver(Stake, Reserved(u)') + SumOver(paid', Returned(u)')
  BY DEF Due
<1> HIDE DEF stakes, profits
<1>7. CASE UNCHANGED walletVars
  <2>1. Reserved(u)' = Reserved(u) /\ Returned(u)' = Returned(u)
    BY <1>7 DEF walletVars, Reserved, Returned
  <2> QED BY <1>5, <1>6, <1>7, <2>1 DEF walletVars, stakes, profits
<1>8. ASSUME NEW b \in Bets, HoldStake(b), hold[b] = "none"
      PROVE  (balance[u] = Due(u))'
  <2>1. Returned(u)' = Returned(u) /\ paid' = paid
    BY <1>3, <1>8 DEF HoldStake, Returned
  <2>2. CASE Owner[b] = u
    <3>1. Reserved(u)' = Reserved(u) \union {b} /\ b \notin Reserved(u)
      BY <1>3, <1>8, <2>2 DEF HoldStake, Reserved
    <3>2. SumOver(Stake, Reserved(u) \union {b}) = Stake[b] + SumOver(Stake, Reserved(u))
      BY <1>2, <1>3, <3>1, SumWith
    <3>3. balance'[u] = balance[u] - Stake[b]
      BY <1>3, <1>8, <2>2 DEF HoldStake
    <3>4. Due(u)' = Opening[u] - (Stake[b] + stakes) + profits
      BY <1>6, <2>1, <3>1, <3>2 DEF stakes, profits
    <3> QED BY <1>3, <1>4, <1>5, <3>3, <3>4
  <2>3. CASE Owner[b] # u
    <3>1. Reserved(u)' = Reserved(u) /\ balance'[u] = balance[u]
      BY <1>3, <1>8, <2>3 DEF HoldStake, Reserved
    <3> QED BY <1>5, <1>6, <2>1, <3>1 DEF stakes, profits
  <2> QED BY <2>2, <2>3
<1>9. ASSUME NEW b \in Bets, VoidStake(b) PROVE (balance[u] = Due(u))'
  <2>1. paid[b] = 0 /\ paid' = paid /\ hold[b] = "pending"
    BY <1>9 DEF VoidStake, StillPending, AccountInv, IInv, BetState, LedgerState
  <2>2. CASE Owner[b] = u
    <3>1. /\ Reserved(u)' = Reserved(u) \ {b} /\ b \in Reserved(u)
          /\ Returned(u)' = Returned(u) \union {b} /\ b \notin Returned(u)
      BY <1>3, <1>9, <2>1, <2>2 DEF VoidStake, Reserved, Returned
    <3>2. SumOver(Stake, Reserved(u)) = Stake[b] + SumOver(Stake, Reserved(u) \ {b})
      BY <1>2, <3>1, SumWithout
    <3>3. SumOver(paid, Returned(u) \union {b}) = paid[b] + SumOver(paid, Returned(u))
      BY <1>2, <1>3, <3>1, SumWith
    <3>4. SumOver(Stake, Reserved(u) \ {b}) \in Int
      <4>1. IsFiniteSet(Reserved(u) \ {b})
        BY <1>2, FS_RemoveElement
      <4> QED BY <1>2, <4>1, SumIsInt
    <3>5. balance'[u] = balance[u] + Stake[b]
      BY <1>3, <1>9, <2>2 DEF VoidStake
    <3>6. stakes = Stake[b] + SumOver(Stake, Reserved(u) \ {b})
      BY <3>2 DEF stakes
    <3>7. Due(u)' = Opening[u] - SumOver(Stake, Reserved(u) \ {b}) + (0 + profits)
      BY <1>6, <2>1, <3>1, <3>3 DEF profits
    <3> QED BY <1>3, <1>4, <1>5, <3>4, <3>5, <3>6, <3>7
  <2>3. CASE Owner[b] # u
    <3>1. /\ Reserved(u)' = Reserved(u) /\ Returned(u)' = Returned(u)
          /\ balance'[u] = balance[u]
      BY <1>3, <1>9, <2>3 DEF VoidStake, Reserved, Returned
    <3> QED BY <1>5, <1>6, <2>1, <3>1 DEF stakes, profits
  <2> QED BY <2>2, <2>3
<1>10. ASSUME NEW b \in Bets, PostStake(b) PROVE (balance[u] = Due(u))'
  <2>1. hold[b] = "pending" /\ paid' = paid /\ balance' = balance
    BY <1>10 DEF PostStake, StillPending
  <2>2. Reserved(u)' = Reserved(u) /\ Returned(u)' = Returned(u)
    BY <1>3, <1>10, <2>1 DEF PostStake, Reserved, Returned
  <2> QED BY <1>5, <1>6, <2>1, <2>2 DEF stakes, profits
<1>11. ASSUME NEW b \in Bets, NEW cents \in Nat, PayProfit(b, cents),
              hold[b] = "voided"
       PROVE  (balance[u] = Due(u))'
  <2>1. Reserved(u)' = Reserved(u) /\ Returned(u)' = Returned(u)
    BY <1>11 DEF PayProfit, Reserved, Returned
  <2>2. paid' = [paid EXCEPT ![b] = paid[b] + cents]
    BY <1>11 DEF PayProfit
  <2>3. CASE Owner[b] = u
    <3> DEFINE others == Returned(u) \ {b}
    <3>1. b \in Returned(u)
      BY <1>11, <2>3 DEF Returned
    <3>2. IsFiniteSet(others)
      BY <1>2, FS_RemoveElement
    <3>3. \A c \in Returned(u) : paid'[c] \in Int
      BY <1>2, <1>3, <2>2 DEF Returned
    <3>4. \A c \in others : paid'[c] = paid[c]
      BY <1>3, <2>2 DEF Returned
    <3>5. SumOver(paid, Returned(u)) = paid[b] + SumOver(paid, others)
      BY <1>2, <3>1, SumWithout
    <3>6. SumOver(paid', Returned(u)) = paid'[b] + SumOver(paid', others)
      BY <1>2, <3>1, <3>3, SumWithout
    <3>7. SumOver(paid', others) = SumOver(paid, others)
      <4> HIDE DEF others
      <4> QED BY <3>2, <3>4, SameSum
    <3>8. SumOver(paid, others) \in Int
      <4>1. \A c \in others : paid[c] \in Int
        BY <1>2
      <4> HIDE DEF others
      <4> QED BY <3>2, <4>1, SumIsInt
    <3>9. paid'[b] = paid[b] + cents /\ paid[b] \in Int /\ cents \in Int
      BY <1>3, <2>2
    <3>10. balance'[u] = balance[u] + cents
      BY <1>3, <1>11, <2>3 DEF PayProfit
    <3>11. profits = paid[b] + SumOver(paid, others)
      BY <3>5 DEF profits
    <3>12. Due(u)' = Opening[u] - stakes + ((paid[b] + cents) + SumOver(paid, others))
      BY <1>6, <2>1, <3>6, <3>7, <3>9 DEF stakes
    <3> HIDE DEF others
    <3> QED BY <1>3, <1>4, <1>5, <3>8, <3>9, <3>10, <3>11, <3>12
  <2>4. CASE Owner[b] # u
    <3>1. \A c \in Returned(u) : paid[c] = paid'[c]
      BY <1>3, <2>2, <2>4 DEF Returned
    <3>2. SumOver(paid, Returned(u)) = SumOver(paid', Returned(u))
      BY <1>2, <3>1, SameSum
    <3>3. balance'[u] = balance[u]
      BY <1>3, <1>11, <2>4 DEF PayProfit
    <3> QED BY <1>5, <1>6, <2>1, <3>2, <3>3 DEF stakes, profits
  <2> QED BY <2>3, <2>4
<1> QED BY <1>7, <1>8, <1>9, <1>10, <1>11, Transfers DEF AccountInv

\* What keeps a bet as it is: it is not asked for or moved on, and the handler
\* that is about to change it stays.
LEMMA UneventfulKept ==
    ASSUME IInv, NEW c \in Bets, Uneventful(c),
           status'[c] = status[c], hold'[c] = hold[c], quote'[c] = quote[c],
           pc'[c] = pc[c] \/ pc'[c] \notin {"broken", "failed", "lost"},
           \A m \in Msgs : hpc[m] \in {"paying", "recording"} /\ cur[m] = c =>
               hpc'[m] \in {"paying", "recording"} /\ cur'[m] = c
    PROVE  Uneventful(c)'
  BY DEF Uneventful

LEMMA NothingFailedKept ==
    ASSUME IInv, NothingFailed, [Next]_vars PROVE NothingFailed'
<1> SUFFICES ASSUME faults' = 0
             PROVE  channel' = "open" /\ \A c \in Bets : Uneventful(c)'
  BY DEF NothingFailed
<1> USE DEF walletVars, rowVars, handlerVars, coreVars
<1>1. ASSUME NEW kind PROVE ~ Fault(kind)
  <2>1. faults \in Nat
    BY BettingAssumption DEF IInv, TypeOK
  <2> QED BY <2>1 DEF Fault
<1>2. ASSUME faults = 0 PROVE channel = "open" /\ \A c \in Bets : Uneventful(c)
  BY <1>2 DEF NothingFailed
<1>3. CASE UNCHANGED vars
  BY <1>2, <1>3 DEF vars, Uneventful
<1>4. ASSUME NEW e \in Events, CacheOpen(e) \/ CacheClose(e)
      PROVE  channel' = "open" /\ \A c \in Bets : Uneventful(c)'
  BY <1>2, <1>4 DEF CacheOpen, CacheClose, Uneventful
<1>5. ASSUME NEW b \in Bets, Request(b) \/ PlaceStep(b)
      PROVE  channel' = "open" /\ \A c \in Bets : Uneventful(c)'
  <2>1. /\ channel = "open" /\ channel' = "open"
        /\ \A c \in Bets : Uneventful(c)
        /\ UNCHANGED <<hpc, cur>>
    BY <1>2, <1>5 DEF Request, PlaceStep, SaveRow, Hold, DeleteRow, ConfirmHeld,
           NotifyHeld
  <2>2. ASSUME NEW c \in Bets, c # b PROVE Uneventful(c)'
    <3>1. /\ status'[c] = status[c] /\ hold'[c] = hold[c]
          /\ quote'[c] = quote[c] /\ pc'[c] = pc[c]
      BY <1>5, <2>2 DEF Request, PlaceStep, SaveRow, Hold, HoldStake, DeleteRow,
             ConfirmHeld, NotifyHeld, PlaceGoesTo, IInv, TypeOK, WalletTypeOK
    <3> QED BY <2>1, <3>1 DEF Uneventful
  <2>3. pc'[b] \notin {"broken", "failed", "lost"}
    BY <1>5, <2>1 DEF Request, PlaceStep, SaveRow, Hold, DeleteRow, ConfirmHeld,
           NotifyHeld, PlaceGoesTo, IInv, TypeOK, Uneventful
  <2>4. status'[b] = "held" => hold'[b] = "pending" \/ NotifyHeld(b)
    BY <1>5 DEF Request, PlaceStep, SaveRow, Hold, DeleteRow, ConfirmHeld,
           IInv, TypeOK, BetState, PlacementState
  <2>5. CASE NotifyHeld(b)
    <3>1. UNCHANGED <<status, hold, quote, hpc, cur>>
      BY <2>5 DEF NotifyHeld
    <3>2. Uneventful(b)'
      BY <2>1, <2>3, <3>1, UneventfulKept
    <3> QED BY <2>1, <2>2, <3>2
  <2> QED BY <2>1, <2>2, <2>3, <2>4, <2>5 DEF Uneventful
<1>6. ASSUME NEW m \in Msgs,
             HandleStep(m) \/ \E e \in Events, o \in Outcomes : Publish(m, e, o)
      PROVE  channel' = "open" /\ \A c \in Bets : Uneventful(c)'
  <2>1. ~ DieOnClosedChannel(m) /\ faults = 0
    BY <1>2, <1>6 DEF HandleStep, Deliver, FindHeld, ReadRow, Release, Keep,
           TransferRefused, Payout, Record, PublishSettled, EndLoop, Finish,
           DieOnClosedChannel, Publish
  <2>2. /\ channel = "open" /\ channel' = "open"
        /\ \A c \in Bets : Uneventful(c)
        /\ UNCHANGED <<pc, quote>>
    BY <1>2, <1>6, <2>1 DEF HandleStep, Deliver, FindHeld, ReadRow, Release,
           Keep, TransferRefused, Payout, Record, PublishSettled, EndLoop,
           Finish, Publish
  <2>3. \A n \in Msgs : n # m => hpc'[n] = hpc[n] /\ cur'[n] = cur[n]
    BY <1>6, <2>1 DEF HandleStep, Deliver, FindHeld, ReadRow, Release, Keep,
           TransferRefused, Payout, Record, PublishSettled, EndLoop, Finish,
           Publish, AfterTransfer, HandlerGoesTo, IInv, TypeOK
  <2>4. CASE Release(m) \/ Keep(m)
    <3>1. /\ cur[m] \in Bets /\ cur' = cur /\ hpc[m] = "moving"
          /\ hpc'[m] \in {"paying", "recording"} /\ status' = status
      BY <2>2, <2>4 DEF Release, Keep, AfterTransfer, HandlerGoesTo, IInv,
             TypeOK, MsgState, HandlerState
    <3>2. \A c \in Bets : c # cur[m] => hold'[c] = hold[c]
      BY <2>4 DEF Release, Keep, VoidStake, PostStake, IInv, TypeOK, WalletTypeOK
    <3>3. ASSUME NEW c \in Bets PROVE Uneventful(c)'
      <4>1. CASE c = cur[m]
        BY <2>2, <3>1, <4>1 DEF Uneventful
      <4>2. CASE c # cur[m]
        BY <2>2, <2>3, <3>1, <3>2, <4>2, UneventfulKept
      <4> QED BY <4>1, <4>2
    <3> QED BY <2>2, <3>3
  <2>5. CASE Payout(m)
    <3>1. /\ cur' = cur /\ hpc'[m] = "recording" /\ status' = status
          /\ hold' = hold
      BY <2>2, <2>5 DEF Payout, PayProfit, AfterTransfer, HandlerGoesTo, IInv, TypeOK
    <3> QED BY <2>2, <2>3, <3>1, UneventfulKept
  <2>6. CASE Record(m)
    <3>1. cur[m] \in Bets /\ hold' = hold /\ cur' = cur
      BY <2>6 DEF Record, IInv, TypeOK, MsgState, HandlerState
    <3>2. \A c \in Bets : c # cur[m] => status'[c] = status[c]
      BY <2>6 DEF Record, IInv, TypeOK
    <3>3. \/ status'[cur[m]] \in {"won", "lost"}
          \/ PayoutOf(m, cur[m]) > MaxColumn
      BY <2>6, <3>1 DEF Record, IInv, TypeOK
    <3>4. PayoutOf(m, cur[m]) > MaxColumn =>
              ProfitCents(Stake[cur[m]], quote[cur[m]]) > MaxColumn
      BY BettingAssumption DEF PayoutOf
    <3>5. ASSUME NEW c \in Bets PROVE Uneventful(c)'
      <4>1. CASE c = cur[m]
        BY <2>2, <3>3, <3>4, <4>1 DEF Uneventful
      <4>2. CASE c # cur[m]
        BY <2>2, <2>3, <3>1, <3>2, <4>2, UneventfulKept
      <4> QED BY <4>1, <4>2
    <3> QED BY <2>2, <3>5
  <2>7. CASE ~ (Release(m) \/ Keep(m) \/ Payout(m) \/ Record(m))
    <3>1. /\ status' = status /\ hold' = hold
          /\ hpc[m] \notin {"paying", "recording"}
      BY <1>6, <2>1, <2>7 DEF HandleStep, Deliver, FindHeld, ReadRow,
             TransferRefused, PublishSettled, EndLoop, Finish, Publish
    <3> QED BY <2>2, <2>3, <3>1, UneventfulKept
  <2> QED BY <2>4, <2>5, <2>6, <2>7
<1> QED
  BY <1>1, <1>3, <1>4, <1>5, <1>6
  DEF Next, Crash, ChannelLoss, PlaceStatementFails, HandlerStatementFails

LEMMA InitAccountInv == Init => AccountInv
<1> SUFFICES ASSUME Init PROVE AccountInv
  OBVIOUS
<1>1. Asked = {} /\ IsFiniteSet(Asked)
  BY FS_EmptySet DEF Init, Asked
<1>2. ASSUME NEW u \in Users PROVE balance[u] = Due(u)
  <2>1. Reserved(u) = {} /\ Returned(u) = {}
    BY DEF Init, WalletInit, Reserved, Returned
  <2>2. balance[u] = Opening[u] /\ Opening[u] \in Int
    BY WalletAssumption DEF Init, WalletInit
  <2>3. Due(u) = Opening[u] - 0 + 0
    BY <2>1, SumOfNone DEF Due
  <2> QED BY <2>2, <2>3
<1>3. NothingFailed
  BY DEF Init, NothingFailed, Uneventful
<1> QED BY <1>1, <1>2, <1>3, InitIInv, BooksAsSums DEF AccountInv

\* Every account is the opening balance less what its bets have reserved or
\* lost plus what they were paid, in every state of core.
THEOREM AccountInvariance == Spec => []AccountInv
<1>1. AccountInv /\ [Next]_vars => AccountInv'
  BY NextIInv, AskedStaysFinite, BooksStayBalanced, NothingFailedKept DEF AccountInv
<1> QED BY <1>1, InitAccountInv, PTL DEF Spec

\* What a player sees adds up: at rest the balance is the opening one less the
\* stakes of the held and lost bets plus the profits of the won ones, for any
\* number of bets placed and settled in any order.
THEOREM AccountsMatchBets == Spec => []AccountMatchesBets
<1>1. ASSUME AccountInv, NEW u \in Users, AtRest(u)
      PROVE  balance[u] = Opening[u]
                 - SumOver(Stake,
                       {b \in Bets : Owner[b] = u /\ status[b] \in {"held", "lost"}})
                 + SumOver(payoutCents,
                       {b \in Bets : Owner[b] = u /\ status[b] = "won"})
  <2> DEFINE won == {b \in Bets : Owner[b] = u /\ status[b] = "won"}
  <2>1. ASSUME NEW b \in Bets, Owner[b] = u
        PROVE  /\ hold[b] \in {"pending", "posted"} <=> status[b] \in {"held", "lost"}
               /\ hold[b] = "voided" <=> status[b] = "won"
    <3>1. /\ pc[b] \notin Placing \union {"failed", "lost"}
          /\ ProfitCents(Stake[b], quote[b]) <= MaxColumn
          /\ status[b] = "held" =>
                 \/ hold[b] = "pending"
                 \/ ProfitCents(Stake[b], quote[b]) > MaxColumn
      BY <1>1, <2>1 DEF AtRest, AccountInv, NothingFailed, Uneventful
    <3>2. ProfitCents(Stake[b], quote[b]) \in Int /\ MaxColumn \in Int
      <4>1. quote[b] \in Nat
        BY <1>1, OddsAreNat DEF AccountInv, IInv, TypeOK, NoPrice
      <4>2. Stake[b] \in Nat
        BY WalletAssumption
      <4>3. ProfitCents(Stake[b], quote[b]) \in Nat
        BY <4>1, <4>2, ProfitIsNat
      <4> QED BY <4>3, BettingAssumption
    <3>3. status[b] = "held" => hold[b] = "pending"
      BY <3>1, <3>2
    <3>4. pc[b] \in {"idle", "refused", "insufficient", "accepted"}
      BY <1>1, <3>1 DEF AccountInv, IInv, TypeOK, Answers
    <3> QED
      BY <1>1, <3>3, <3>4 DEF AccountInv, IInv, BetState, PlacementState, SettledState
  <2>2. /\ Reserved(u) = {b \in Bets : Owner[b] = u /\ status[b] \in {"held", "lost"}}
        /\ Returned(u) = won
    BY <2>1 DEF Reserved, Returned
  <2>3. \A b \in won : paid[b] = payoutCents[b]
    BY <1>1 DEF AccountInv, IInv, BetState, SettledState
  <2>4. SumOver(paid, won) = SumOver(payoutCents, won)
    <3>1. IsFiniteSet(won)
      BY <1>1, <2>2, MovedFinite DEF AccountInv
    <3> HIDE DEF won
    <3> QED BY <2>3, <3>1, SameSum
  <2>5. balance[u] = Due(u)
    BY <1>1, BooksAsSums DEF AccountInv
  <2> QED BY <2>2, <2>4, <2>5 DEF Due
<1>2. AccountInv => AccountMatchesBets
  BY <1>1 DEF AccountMatchesBets, SumOver
<1> QED BY <1>2, AccountInvariance, PTL

-----------------------------------------------------------------------------
(* Betting implements BetPromise: under the mapping of Betting every step  *)
(* is a step of the promise or leaves the promise's state alone.  The      *)
(* invariant is what makes it so: without it the ledger could void a stake *)
(* for one outcome, or pay a profit at another price than the row's.       *)

StageMap == [b \in Bets |-> Stage(b)]
WinnersMap == {b \in Bets : \E r \in Published :
                   r.event = EventOf[b] /\ r.outcome = Pick[b]}
LosersMap == {b \in Bets : \E r \in Published :
                  r.event = EventOf[b] /\ r.outcome # Pick[b]}

\* What the mapping shows of a bet.
LEMMA StageOf ==
    ASSUME NEW b \in Bets
    PROVE  /\ StageMap[b] = Stage(b)
           /\ hold[b] = "none" => Stage(b) = "open"
           /\ hold[b] = "pending" => Stage(b) = "taken"
           /\ hold[b] = "posted" => Stage(b) = "kept"
           /\ hold[b] = "voided" =>
                  Stage(b) = IF paid[b] = 0 THEN "returned" ELSE "paid"
  BY DEF StageMap, Stage

\* A transfer about one bet moves the stage of that bet alone.
LEMMA StageStep ==
    ASSUME IInv, NEW b \in Bets,
           \A c \in Bets : c # b => hold'[c] = hold[c] /\ paid'[c] = paid[c]
    PROVE  StageMap' = [StageMap EXCEPT ![b] = Stage(b)']
<1>1. \A c \in Bets : c # b => Stage(c)' = Stage(c)
  BY DEF Stage
<1> QED BY <1>1 DEF StageMap

\* Without a transfer no stage moves, without a publication no winner appears.
LEMMA Unmoved ==
    ASSUME UNCHANGED <<walletVars, result>>
    PROVE  UNCHANGED <<StageMap, balance, WinnersMap, LosersMap>>
  BY DEF walletVars, StageMap, Stage, WinnersMap, LosersMap, Published

LEMMA UnmovedResult ==
    ASSUME UNCHANGED result PROVE UNCHANGED <<WinnersMap, LosersMap>>
  BY DEF WinnersMap, LosersMap, Published

LEMMA InitMapped == Init => Promise!Init
<1> SUFFICES ASSUME Init PROVE Promise!Init
  OBVIOUS
<1>1. StageMap = [b \in Bets |-> "open"]
  BY DEF Init, WalletInit, StageMap, Stage
<1>2. WinnersMap = {} /\ LosersMap = {}
  BY DEF Init, WinnersMap, LosersMap, Published
<1> QED
  BY <1>1, <1>2 DEF Promise!Init, Init, WalletInit, Promise!NoPrice, NoPrice,
     StageMap, WinnersMap, LosersMap

LEMMA RequestMapped ==
    ASSUME IInv, NEW b \in Bets, Request(b)
    PROVE  [Promise!Next]_Promise!promiseVars
<1>1. hold[b] = "none" /\ UNCHANGED <<walletVars, result>>
  BY DEF Request, coreVars, IInv, BetState, PlacementState
<1>2. StageMap[b] = "open"
  BY <1>1, StageOf
<1>3. UNCHANGED <<StageMap, balance, WinnersMap, LosersMap>>
  BY <1>1, Unmoved
<1>4. CASE \E o \in Odds : quote' = [quote EXCEPT ![b] = o]
  <2>1. Promise!Quote(b)
    BY <1>2, <1>3, <1>4 DEF Promise!Quote, StageMap, WinnersMap, LosersMap
  <2> QED BY <2>1 DEF Promise!Next
<1>5. CASE quote' = quote
  BY <1>3, <1>5 DEF Promise!promiseVars, StageMap, WinnersMap, LosersMap
<1> QED BY <1>4, <1>5 DEF Request

LEMMA HoldMapped ==
    ASSUME IInv, NEW b \in Bets, Hold(b)
    PROVE  [Promise!Next]_Promise!promiseVars
<1>1. hold[b] = "none" /\ UNCHANGED <<quote, result>>
  BY DEF Hold, rowVars, coreVars, IInv, BetState, PlacementState
<1>2. UNCHANGED <<WinnersMap, LosersMap>>
  BY <1>1, UnmovedResult
<1>3. CASE HoldStake(b)
  <2>1. StageMap[b] = "open"
    BY <1>1, StageOf
  <2>2. /\ hold'[b] = "pending"
        /\ \A c \in Bets : c # b => hold'[c] = hold[c] /\ paid'[c] = paid[c]
    BY <1>3 DEF HoldStake, IInv, TypeOK, WalletTypeOK
  <2>3. Stage(b)' = "taken"
    BY <2>2 DEF Stage
  <2>4. StageMap' = [StageMap EXCEPT ![b] = "taken"]
    BY <2>2, <2>3, StageStep
  <2>5. Promise!Take(b)
    BY <1>1, <1>2, <1>3, <2>1, <2>4
    DEF HoldStake, Covered, Promise!Take, StageMap, WinnersMap, LosersMap
  <2> QED BY <2>5 DEF Promise!Next
<1>4. CASE UNCHANGED walletVars
  <2>1. UNCHANGED <<StageMap, balance>>
    BY <1>1, <1>4, Unmoved
  <2> QED
    BY <1>1, <1>2, <2>1 DEF Promise!promiseVars, StageMap, WinnersMap, LosersMap
<1> QED BY <1>3, <1>4 DEF Hold

\* A handler that works on a bet carries a published result for its event.
LEMMA WorkingOnPublished ==
    ASSUME IInv, NEW m \in Msgs,
           hpc[m] \in {"moving", "paying", "recording", "publishing"}
    PROVE  /\ cur[m] \in Bets
           /\ result[m].event = EventOf[cur[m]]
           /\ result[m] \in Published
<1>1. cur[m] \in todo[m] /\ cur[m] \in Bets
  BY DEF IInv, TypeOK, MsgState, HandlerState
<1>2. result[m].event = EventOf[cur[m]] /\ result[m] \in Resolution
  BY <1>1 DEF IInv, MsgState, HandlerState
<1>3. result[m] # NoResult
  BY <1>2, BettingAssumption DEF Resolution
<1> QED BY <1>1, <1>2, <1>3 DEF Published

LEMMA ReleaseMapped ==
    ASSUME IInv, NEW m \in Msgs, Release(m)
    PROVE  [Promise!Next]_Promise!promiseVars
<1> PICK b \in Bets : b = cur[m]
  BY WorkingOnPublished DEF Release
<1>1. /\ hold[b] = "pending" /\ paid[b] = 0
      /\ UNCHANGED <<quote, result>>
  BY WorkingOnPublished DEF Release, VoidStake, StillPending, rowVars, coreVars,
     IInv, BetState, LedgerState
<1>2. b \in WinnersMap
  BY <1>1, WorkingOnPublished DEF Release, Won, WinnersMap
<1>3. /\ hold'[b] = "voided" /\ paid'[b] = 0
      /\ \A c \in Bets : c # b => hold'[c] = hold[c] /\ paid'[c] = paid[c]
  BY <1>1 DEF Release, VoidStake, IInv, TypeOK, WalletTypeOK
<1>4. Stage(b)' = "returned"
  BY <1>3 DEF Stage
<1>5. StageMap[b] = "taken" /\ StageMap' = [StageMap EXCEPT ![b] = "returned"]
  BY <1>1, <1>3, <1>4, StageOf, StageStep
<1>6. Promise!GiveBack(b)
  BY <1>1, <1>2, <1>5, UnmovedResult
  DEF Release, VoidStake, Promise!GiveBack, StageMap, WinnersMap, LosersMap
<1> QED BY <1>1, <1>6 DEF Promise!Next

LEMMA KeepMapped ==
    ASSUME IInv, NEW m \in Msgs, Keep(m)
    PROVE  [Promise!Next]_Promise!promiseVars
<1> PICK b \in Bets : b = cur[m]
  BY WorkingOnPublished DEF Keep
<1>1. hold[b] = "pending" /\ UNCHANGED <<quote, result, balance>>
  BY WorkingOnPublished DEF Keep, PostStake, StillPending, rowVars, coreVars
<1>2. b \in LosersMap
  BY <1>1, WorkingOnPublished DEF Keep, Won, LosersMap
<1>3. /\ hold'[b] = "posted"
      /\ \A c \in Bets : c # b => hold'[c] = hold[c] /\ paid'[c] = paid[c]
  BY <1>1 DEF Keep, PostStake, IInv, TypeOK, WalletTypeOK
<1>4. Stage(b)' = "kept"
  BY <1>3 DEF Stage
<1>5. StageMap[b] = "taken" /\ StageMap' = [StageMap EXCEPT ![b] = "kept"]
  BY <1>1, <1>3, <1>4, StageOf, StageStep
<1>6. Promise!Keep(b)
  BY <1>1, <1>2, <1>5, UnmovedResult
  DEF Promise!Keep, StageMap, WinnersMap, LosersMap
<1> QED BY <1>1, <1>6 DEF Promise!Next

LEMMA PayoutMapped ==
    ASSUME IInv, NEW m \in Msgs, Payout(m)
    PROVE  [Promise!Next]_Promise!promiseVars
<1> PICK b \in Bets : b = cur[m]
  BY WorkingOnPublished DEF Payout
<1>1. UNCHANGED <<quote, result>>
  BY WorkingOnPublished DEF Payout, rowVars, coreVars
<1>2. /\ hold[b] = "voided" /\ paid[b] = 0
      /\ PayoutOf(m, b) = ProfitCents(Stake[b], quote[b])
      /\ PayoutOf(m, b) \in Nat /\ PayoutOf(m, b) > 0
  BY <1>1, PayoutIsNat DEF Payout, IInv, MsgState, OwnerState, PayoutOf
<1>3. /\ hold' = hold
      /\ paid' = [paid EXCEPT ![b] = paid[b] + PayoutOf(m, b)]
      /\ balance' = [balance EXCEPT ![Owner[b]] = @ + PayoutOf(m, b)]
  BY DEF Payout, PayProfit
<1>4. /\ hold'[b] = "voided" /\ paid'[b] # 0
      /\ \A c \in Bets : c # b => hold'[c] = hold[c] /\ paid'[c] = paid[c]
  BY <1>1, <1>2, <1>3 DEF IInv, TypeOK, WalletTypeOK
<1>5. Stage(b)' = "paid"
  BY <1>4 DEF Stage
<1>6. StageMap[b] = "returned" /\ StageMap' = [StageMap EXCEPT ![b] = "paid"]
  BY <1>1, <1>2, <1>4, <1>5, StageOf, StageStep
<1>7. Promise!ProfitCents(Stake[b], quote[b]) = ProfitCents(Stake[b], quote[b])
  BY DEF Promise!ProfitCents, ProfitCents
<1>8. Promise!Pay(b)
  BY <1>1, <1>2, <1>3, <1>6, <1>7, UnmovedResult
  DEF Promise!Pay, StageMap, WinnersMap, LosersMap
<1> QED BY <1>1, <1>8 DEF Promise!Next

LEMMA PublishMapped ==
    ASSUME IInv, NEW m \in Msgs, NEW e \in Events, NEW o \in Selections,
           Publish(m, e, o)
    PROVE  [Promise!Next]_Promise!promiseVars
<1>1. result[m] = NoResult
  BY DEF Publish, IInv, MsgState, HandlerState
<1>2. \A n \in Msgs : result[n] # NoResult => result'[n] = result[n]
  BY <1>1 DEF Publish, IInv, TypeOK
<1>3. Published \subseteq Published'
  BY <1>2 DEF Published
<1>4. /\ WinnersMap \subseteq WinnersMap' /\ WinnersMap' \subseteq Bets
      /\ LosersMap \subseteq LosersMap' /\ LosersMap' \subseteq Bets
  BY <1>3 DEF WinnersMap, LosersMap
<1>5. UNCHANGED <<StageMap, quote, balance>>
  BY DEF Publish, walletVars, rowVars, StageMap, Stage
<1>6. Promise!Announce
  BY <1>4, <1>5 DEF Promise!Announce, StageMap, WinnersMap, LosersMap
<1> QED BY <1>6 DEF Promise!Next

LEMMA OthersMapped ==
    ASSUME UNCHANGED <<walletVars, quote, result>>
    PROVE  [Promise!Next]_Promise!promiseVars
  BY Unmoved DEF Promise!promiseVars, StageMap, WinnersMap, LosersMap

LEMMA StepMapped == IInv /\ [Next]_vars => [Promise!Next]_Promise!promiseVars
<1> SUFFICES ASSUME IInv, [Next]_vars PROVE [Promise!Next]_Promise!promiseVars
  OBVIOUS
<1> USE DEF rowVars, coreVars
<1>1. ASSUME NEW b \in Bets, Request(b) \/ PlaceStep(b) \/ PlaceStatementFails(b)
      PROVE  [Promise!Next]_Promise!promiseVars
  <2>1. \/ Request(b) \/ Hold(b)
        \/ UNCHANGED <<walletVars, quote, result>>
    BY <1>1 DEF PlaceStep, SaveRow, DeleteRow, ConfirmHeld, NotifyHeld,
           PlaceStatementFails
  <2> QED BY <2>1, RequestMapped, HoldMapped, OthersMapped
<1>2. ASSUME NEW m \in Msgs, HandleStep(m)
      PROVE  [Promise!Next]_Promise!promiseVars
  <2>1. \/ Release(m) \/ Keep(m) \/ Payout(m)
        \/ UNCHANGED <<walletVars, quote, result>>
    BY <1>2 DEF HandleStep, Deliver, FindHeld, ReadRow, TransferRefused, Record,
           PublishSettled, EndLoop, Finish, DieOnClosedChannel, Restart
  <2> QED BY <2>1, ReleaseMapped, KeepMapped, PayoutMapped, OthersMapped
<1>3. ASSUME \/ \E m \in Msgs : HandlerStatementFails(m)
             \/ \E e \in Events : CacheOpen(e) \/ CacheClose(e)
             \/ Crash \/ ChannelLoss \/ UNCHANGED vars
      PROVE  [Promise!Next]_Promise!promiseVars
  <2>1. UNCHANGED <<walletVars, quote, result>>
    BY <1>3 DEF HandlerStatementFails, CacheOpen, CacheClose, Crash, Restart,
           ChannelLoss, vars
  <2> QED BY <2>1, OthersMapped
<1> QED BY <1>1, <1>2, <1>3, BettingAssumption, PublishMapped DEF Next

\* Core keeps the promise to the player: stake taken at most once and only if
\* covered, returned or kept on a published result only and never both, the
\* profit paid at most once, at the price the bet was accepted at.
THEOREM CoreKeepsPromise == Spec => KeepsPromise
  BY InitMapped, StepMapped, Invariance, PTL
  DEF Spec, KeepsPromise, Promise!Spec
=============================================================================
