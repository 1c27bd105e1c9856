--------------------------- MODULE AccountsProofs ---------------------------
(***************************************************************************)
(* The opening deposit is made at most once, and made while nothing fails, *)
(* for any number of concurrent first requests and any faults.             *)
(*                                                                         *)
(* At most one request of a user has made the row (OneMaker), and its      *)
(* deposit is not made while it is still creating (Maker).  Rows come      *)
(* before accounts and accounts before deposits (Order).                   *)
(***************************************************************************)
EXTENDS Accounts, SumTheorems, TLAPS

Maker(r) ==
    /\ pc[r] \in {"idle", "inserting"} => insert[r] = "none"
    /\ pc[r] \in Creating => insert[r] # "none"
    /\ pc[r] = "granting" => insert[r] = "made"
    /\ insert[r] # "none" => Caller[r] \in rows
    /\ insert[r] = "made" /\ pc[r] \in Creating => grants[Caller[r]] = 0
    /\ insert[r] # "none" /\ pc[r] \in {"granting", "allowed"} => Caller[r] \in accounts

OneMaker ==
    \A r, q \in Requests :
        insert[r] = "made" /\ insert[q] = "made" /\ Caller[r] = Caller[q] => r = q

IInv ==
    /\ TypeOK
    /\ NoOverdraft
    /\ GrantedAtMostOnce
    /\ GrantOnItsWay
    /\ OneMaker
    /\ \A r \in Requests : Maker(r)

LEMMA InitIInv == Init => IInv
  BY AccountsAssumption
  DEF Init, IInv, TypeOK, NoOverdraft, GrantedAtMostOnce, GrantOnItsWay, OneMaker,
      Maker, Pending, Creating, Answers

LEMMA AuthenticateKeeps ==
    ASSUME IInv, NEW r \in Requests, Authenticate(r) PROVE IInv'
<1> USE AccountsAssumption
    DEF IInv, ledgerVars, adjustmentVars, Pending, Creating, Answers
<1>1. TypeOK'
  BY DEF Authenticate, GoesTo, TypeOK
<1>2. NoOverdraft' /\ GrantedAtMostOnce' /\ OneMaker'
  BY DEF Authenticate, NoOverdraft, GrantedAtMostOnce, OneMaker
<1>3. GrantOnItsWay'
  BY DEF Authenticate, GoesTo, TypeOK, GrantOnItsWay, Provisioned
<1>4. ASSUME NEW q \in Requests PROVE Maker(q)'
  BY DEF Authenticate, GoesTo, TypeOK, Maker
<1> QED BY <1>1, <1>2, <1>3, <1>4

LEMMA InsertKeeps ==
    ASSUME IInv, NEW r \in Requests, Insert(r) PROVE IInv'
<1> USE AccountsAssumption
    DEF IInv, ledgerVars, adjustmentVars, Pending, Creating, Answers
<1>1. TypeOK'
  BY DEF Insert, GoesTo, TypeOK
<1>2. NoOverdraft' /\ GrantedAtMostOnce'
  BY DEF Insert, NoOverdraft, GrantedAtMostOnce
<1>3. OneMaker'
  BY DEF Insert, TypeOK, OneMaker, Maker
<1>4. GrantOnItsWay'
  <2>1. ASSUME NEW u \in rows, Provisioned(u) PROVE Provisioned(u)'
    BY <2>1 DEF Insert, GoesTo, TypeOK, Provisioned, Maker
  <2>2. ASSUME Caller[r] \notin rows PROVE Provisioned(Caller[r])'
    BY <2>2 DEF Insert, GoesTo, TypeOK, Provisioned
  <2> QED BY <2>1, <2>2 DEF Insert, GrantOnItsWay
<1>5. Caller[r] \notin rows => grants[Caller[r]] = 0
  <2>1. grants[Caller[r]] \in Nat
    BY DEF TypeOK
  <2> QED BY <2>1 DEF GrantedAtMostOnce
<1>6. ASSUME NEW q \in Requests PROVE Maker(q)'
  <2>1. CASE q = r
    BY <1>5, <2>1 DEF Insert, GoesTo, TypeOK, Maker
  <2>2. CASE q # r
    BY <2>2 DEF Insert, GoesTo, TypeOK, Maker
  <2> QED BY <2>1, <2>2
<1> QED BY <1>1, <1>2, <1>3, <1>4, <1>6

LEMMA ReloadKeeps ==
    ASSUME IInv, NEW r \in Requests, Reload(r) PROVE IInv'
<1> USE AccountsAssumption
    DEF IInv, ledgerVars, adjustmentVars, Pending, Creating, Answers
<1>1. TypeOK'
  BY DEF Reload, GoesTo, TypeOK
<1>2. NoOverdraft' /\ GrantedAtMostOnce' /\ OneMaker'
  BY DEF Reload, NoOverdraft, GrantedAtMostOnce, OneMaker
<1>3. GrantOnItsWay'
  BY DEF Reload, GoesTo, TypeOK, GrantOnItsWay, Provisioned
<1>4. ASSUME NEW q \in Requests PROVE Maker(q)'
  BY DEF Reload, GoesTo, TypeOK, Maker
<1> QED BY <1>1, <1>2, <1>3, <1>4

LEMMA OpenAccountKeeps ==
    ASSUME IInv, NEW r \in Requests, OpenAccount(r) PROVE IInv'
<1> USE AccountsAssumption
    DEF IInv, adjustmentVars, Pending, Creating, Answers
<1>1. TypeOK'
  BY DEF OpenAccount, GoesTo, TypeOK
<1>2. NoOverdraft' /\ OneMaker'
  BY DEF OpenAccount, NoOverdraft, OneMaker
<1>3. GrantedAtMostOnce'
  BY DEF OpenAccount, GrantedAtMostOnce, Maker
<1>4. GrantOnItsWay'
  BY DEF OpenAccount, GoesTo, TypeOK, GrantOnItsWay, Provisioned
<1>5. ASSUME NEW q \in Requests PROVE Maker(q)'
  BY DEF OpenAccount, GoesTo, TypeOK, Maker
<1> QED BY <1>1, <1>2, <1>3, <1>4, <1>5

LEMMA DepositKeeps ==
    ASSUME IInv, NEW r \in Requests, Deposit(r) PROVE IInv'
<1> USE AccountsAssumption
    DEF IInv, adjustmentVars, Pending, Creating, Answers
<1>1. TypeOK'
  <2>1. grants' \in [Users -> Nat] /\ balance' \in [Users -> Int]
    BY DEF Deposit, TypeOK
  <2>2. pc' \in [Requests -> {"idle"} \union Pending \union Answers]
    BY DEF Deposit, GoesTo, TypeOK
  <2> QED BY <2>1, <2>2 DEF Deposit, TypeOK
<1>2. NoOverdraft'
  BY DEF Deposit, TypeOK, NoOverdraft
<1>3. OneMaker'
  BY DEF Deposit, OneMaker
<1>4. GrantedAtMostOnce'
  BY DEF Deposit, TypeOK, GrantedAtMostOnce, Maker
<1>5. GrantOnItsWay'
  <2>1. Provisioned(Caller[r])'
    BY DEF Deposit, TypeOK, Provisioned, Maker
  <2>2. ASSUME NEW u \in rows, u # Caller[r], Provisioned(u) PROVE Provisioned(u)'
    BY <2>2 DEF Deposit, GoesTo, TypeOK, Provisioned
  <2> QED BY <2>1, <2>2 DEF Deposit, GrantOnItsWay
<1>6. ASSUME NEW q \in Requests PROVE Maker(q)'
  BY DEF Deposit, GoesTo, TypeOK, Maker, OneMaker
<1> QED BY <1>1, <1>2, <1>3, <1>4, <1>5, <1>6

LEMMA HoldKeeps ==
    ASSUME IInv, NEW r \in Requests, Hold(r) PROVE IInv'
<1> USE AccountsAssumption
    DEF IInv, adjustmentVars, Pending, Creating, Answers
<1>1. /\ pc[r] = "allowed"
      /\ pc' \in {[pc EXCEPT ![r] = s] : s \in Answers}
      /\ \/ balance' = balance
         \/ /\ balance[Caller[r]] >= Stake[r]
            /\ balance' = [balance EXCEPT ![Caller[r]] = @ - Stake[r]]
      /\ UNCHANGED <<rows, accounts, grants, insert, apc, seen, channel, faults>>
  BY DEF Hold, GoesTo
<1>2. TypeOK'
  BY <1>1 DEF TypeOK
<1>3. NoOverdraft'
  BY <1>1 DEF TypeOK, NoOverdraft
<1>4. GrantedAtMostOnce' /\ OneMaker'
  BY <1>1 DEF GrantedAtMostOnce, OneMaker
<1>5. GrantOnItsWay'
  BY <1>1 DEF TypeOK, GrantOnItsWay, Provisioned
<1>6. ASSUME NEW q \in Requests PROVE Maker(q)'
  BY <1>1 DEF TypeOK, Maker
<1> QED BY <1>2, <1>3, <1>4, <1>5, <1>6

\* What an admin does changes a balance and nothing else of the user's.
LEMMA AdjustmentKeeps ==
    ASSUME IInv, NEW a \in Adjustments, ReadBalance(a) \/ Adjust(a) PROVE IInv'
<1> USE AccountsAssumption DEF IInv
<1>1. TypeOK'
  BY DEF ReadBalance, Adjust, ledgerVars, requestVars, TypeOK, NoOverdraft
<1>2. NoOverdraft'
  BY DEF ReadBalance, Adjust, Debitable, ledgerVars, requestVars, TypeOK, NoOverdraft
<1>3. UNCHANGED <<rows, accounts, grants, pc, insert, faults>>
  BY DEF ReadBalance, Adjust, ledgerVars, requestVars
<1>4. GrantedAtMostOnce' /\ GrantOnItsWay' /\ OneMaker'
  BY <1>3 DEF GrantedAtMostOnce, GrantOnItsWay, Provisioned, OneMaker
<1>5. ASSUME NEW q \in Requests PROVE Maker(q)'
  BY <1>3 DEF Maker
<1> QED BY <1>1, <1>2, <1>4, <1>5

\* A fault ends requests and leaves what they have committed.
LEMMA FaultKeeps ==
    ASSUME IInv, \/ Crash \/ ChannelLoss \/ \E r \in Requests : StatementFails(r)
    PROVE  IInv'
<1> USE AccountsAssumption DEF IInv, ledgerVars, requestVars, adjustmentVars
<1>1. /\ UNCHANGED <<rows, accounts, grants, balance, insert, seen>>
      /\ faults' \in 0..MaxFaults /\ faults' # 0
      /\ channel' \in {"open", "closed"}
  BY DEF Crash, ChannelLoss, StatementFails, Fault, TypeOK
<1>2. apc' \in [Adjustments -> {"idle", "adjusting", "accepted", "failed", "lost"}]
  BY DEF Crash, ChannelLoss, StatementFails, TypeOK
<1>3. /\ pc' \in [Requests -> {"idle"} \union Pending \union Answers]
      /\ \A q \in Requests : pc'[q] = pc[q] \/ pc'[q] \in {"failed", "lost"}
  BY DEF Crash, ChannelLoss, StatementFails, GoesTo, TypeOK, Answers
<1>4. TypeOK'
  BY <1>1, <1>2, <1>3 DEF TypeOK
<1>5. NoOverdraft' /\ GrantedAtMostOnce' /\ GrantOnItsWay' /\ OneMaker'
  BY <1>1 DEF NoOverdraft, GrantedAtMostOnce, GrantOnItsWay, OneMaker
<1>6. ASSUME NEW q \in Requests PROVE Maker(q)'
  BY <1>1, <1>3 DEF Maker, Creating
<1> QED BY <1>4, <1>5, <1>6

LEMMA NextIInv == IInv /\ [Next]_vars => IInv'
<1> SUFFICES ASSUME IInv, [Next]_vars PROVE IInv'
  OBVIOUS
<1>1. CASE UNCHANGED vars
  BY <1>1
  DEF vars, ledgerVars, requestVars, adjustmentVars, IInv, TypeOK, NoOverdraft,
      GrantedAtMostOnce, GrantOnItsWay, Provisioned, OneMaker, Maker
<1> QED
  BY <1>1, AuthenticateKeeps, InsertKeeps, ReloadKeeps, OpenAccountKeeps,
     DepositKeeps, HoldKeeps, AdjustmentKeeps, FaultKeeps DEF Next, RequestStep

\* The strengthened invariant holds in every reachable state.
THEOREM Invariance == Spec => []IInv
  BY InitIInv, NextIInv, PTL DEF Spec

\* Every variable keeps its type; a balance read is never negative.
THEOREM AccountsTypeCorrect == Spec => []TypeOK
<1>1. IInv => TypeOK BY DEF IInv
<1> QED BY <1>1, Invariance, PTL

\* Concurrent creates and failures deposit the starting balance at most once.
THEOREM NeverGrantedTwice == Spec => []GrantedAtMostOnce
<1>1. IInv => GrantedAtMostOnce BY DEF IInv
<1> QED BY <1>1, Invariance, PTL

\* While nothing fails, the request that made a row makes the deposit.
THEOREM GrantComes == Spec => []GrantOnItsWay
<1>1. IInv => GrantOnItsWay BY DEF IInv
<1> QED BY <1>1, Invariance, PTL

\* createUser lets no request in before the account exists.
THEOREM AccountsBeforeUse == Spec => []CreatorsHaveAccounts
<1>1. IInv => CreatorsHaveAccounts BY DEF IInv, Maker, CreatorsHaveAccounts
<1> QED BY <1>1, Invariance, PTL

\* Adjusting by a stale difference never overdraws an account.
THEOREM NeverOverdrawn == Spec => []NoOverdraft
<1>1. IInv => NoOverdraft BY DEF IInv
<1> QED BY <1>1, Invariance, PTL

-----------------------------------------------------------------------------
(* The sum of what was done to an account                                  *)

Accepted(u) == {r \in Requests : Caller[r] = u /\ pc[r] = "accepted"}
Adjusted(u) == {a \in Adjustments : Subject[a] = u /\ apc[a] = "accepted"}
Change == [a \in Adjustments |-> Target[a] - seen[a]]

AddsUp(u) ==
    balance[u] = StartingBalance * grants[u]
                     - SumOver(Stake, Accepted(u)) + SumOver(Change, Adjusted(u))

\* Requests and adjustments that have begun; the sums are over some of them.
Begun == {r \in Requests : pc[r] # "idle"}
BegunAdjustments == {a \in Adjustments : apc[a] # "idle"}

AddUpInv ==
    /\ IInv
    /\ IsFiniteSet(Begun) /\ IsFiniteSet(BegunAdjustments)
    /\ faults = 0 => channel = "open" /\ \A u \in Users : AddsUp(u)

LEMMA ChangesAsSum ==
    ASSUME NEW S \in SUBSET Adjustments
    PROVE  MapThenSumSet(LAMBDA a : Target[a] - seen[a], S) = SumOver(Change, S)
<1> DEFINE Step(s, g) == IF s = {} THEN 0
                         ELSE (Target[ChosenOf(s)] - seen[ChosenOf(s)])
                                  + g[s \ {ChosenOf(s)}]
           IsIt(g) == g = [s \in SUBSET S |-> Step(s, g)]
<1>1. MapThenSumSet(LAMBDA a : Target[a] - seen[a], S) = (CHOOSE g : IsIt(g))[S]
  BY DEF ChosenOf, MapThenSumSet, MapThenFoldSet
<1>2. ASSUME NEW g PROVE IsIt(g) <=> IsSumTable(Change, S, g)
  <2>1. ASSUME NEW s \in SUBSET S PROVE Step(s, g) = SumStep(Change, g, s)
    BY ChosenIn DEF Change, SumStep
  <2> HIDE DEF Step
  <2> QED BY <2>1 DEF IsSumTable
<1> HIDE DEF IsIt
<1>3. (CHOOSE g : IsIt(g)) = (CHOOSE g : IsSumTable(Change, S, g))
  BY <1>2
<1> QED BY <1>1, <1>3, SumInTable DEF SumTable

LEMMA AddsUpAsSums == AdjustmentsAddUp <=> (faults = 0 => \A u \in Users : AddsUp(u))
<1> SUFFICES ASSUME NEW u \in Users
             PROVE  SumOver(Change, Adjusted(u)) =
                        MapThenSumSet(LAMBDA a : Target[a] - seen[a], Adjusted(u))
  BY DEF AdjustmentsAddUp, AddsUp, SumOver, Accepted, Adjusted
<1>1. Adjusted(u) \subseteq Adjustments
  BY DEF Adjusted
<1> QED BY <1>1, ChangesAsSum

\* A step begins at most one request or one adjustment.
LEMMA BegunStaysFinite ==
    ASSUME IInv, IsFiniteSet(Begun), IsFiniteSet(BegunAdjustments), [Next]_vars
    PROVE  IsFiniteSet(Begun') /\ IsFiniteSet(BegunAdjustments')
<1>1. \/ Begun' \subseteq Begun
      \/ \E r \in Requests : Begun' \subseteq Begun \union {r}
  <2>1. ASSUME NEW r \in Requests, Authenticate(r) \/ RequestStep(r) \/ StatementFails(r)
        PROVE  Begun' \subseteq Begun \union {r}
    BY <2>1 DEF Authenticate, RequestStep, Insert, Reload, OpenAccount, Deposit,
           Hold, StatementFails, GoesTo, IInv, TypeOK, Begun
  <2>2. ASSUME NEW a \in Adjustments, ReadBalance(a) \/ Adjust(a)
        PROVE  Begun' \subseteq Begun
    BY <2>2 DEF ReadBalance, Adjust, requestVars, Begun
  <2>3. CASE Crash \/ ChannelLoss \/ UNCHANGED vars
    BY <2>3 DEF Crash, ChannelLoss, vars, requestVars, Pending, Creating, Begun
  <2> QED BY <2>1, <2>2, <2>3 DEF Next
<1>2. \/ BegunAdjustments' \subseteq BegunAdjustments
      \/ \E a \in Adjustments : BegunAdjustments' \subseteq BegunAdjustments \union {a}
  <2>1. ASSUME NEW r \in Requests, Authenticate(r) \/ RequestStep(r) \/ StatementFails(r)
        PROVE  BegunAdjustments' \subseteq BegunAdjustments
    BY <2>1 DEF Authenticate, RequestStep, Insert, Reload, OpenAccount, Deposit,
           Hold, StatementFails, adjustmentVars, BegunAdjustments
  <2>2. ASSUME NEW a \in Adjustments, ReadBalance(a) \/ Adjust(a)
        PROVE  BegunAdjustments' \subseteq BegunAdjustments \union {a}
    BY <2>2 DEF ReadBalance, Adjust, IInv, TypeOK, BegunAdjustments
  <2>3. CASE Crash \/ ChannelLoss \/ UNCHANGED vars
    BY <2>3 DEF Crash, ChannelLoss, vars, adjustmentVars, BegunAdjustments
  <2> QED BY <2>1, <2>2, <2>3 DEF Next
<1>3. \A x : IsFiniteSet(Begun \union {x}) /\ IsFiniteSet(BegunAdjustments \union {x})
  BY FS_AddElement
<1> QED BY <1>1, <1>2, <1>3, FS_Subset

\* The values that the sums of an account are made of.
LEMMA Summands ==
    ASSUME AddUpInv, NEW u \in Users
    PROVE  /\ IsFiniteSet(Accepted(u)) /\ IsFiniteSet(Adjusted(u))
           /\ \A r \in Requests : Stake[r] \in Int
           /\ \A a \in Adjustments : Change[a] \in Int
           /\ SumOver(Stake, Accepted(u)) \in Int
           /\ SumOver(Change, Adjusted(u)) \in Int
           /\ balance[u] \in Int /\ grants[u] \in Nat /\ StartingBalance \in Int
           /\ StartingBalance * grants[u] \in Int
<1>1. Accepted(u) \subseteq Begun /\ Adjusted(u) \subseteq BegunAdjustments
  BY DEF Accepted, Begun, Adjusted, BegunAdjustments
<1>2. IsFiniteSet(Accepted(u)) /\ IsFiniteSet(Adjusted(u))
  BY <1>1, FS_Subset DEF AddUpInv
<1>3. \A r \in Requests : Stake[r] \in Int
  BY AccountsAssumption
<1>4. \A a \in Adjustments : Change[a] \in Int
  BY AccountsAssumption DEF AddUpInv, IInv, TypeOK, Change
<1>5. SumOver(Stake, Accepted(u)) \in Int
  <2>1. \A r \in Accepted(u) : Stake[r] \in Int
    BY <1>3 DEF Accepted
  <2> QED BY <1>2, <2>1, SumIsInt
<1>6. SumOver(Change, Adjusted(u)) \in Int
  <2>1. \A a \in Adjusted(u) : Change[a] \in Int
    BY <1>4 DEF Adjusted
  <2> QED BY <1>2, <2>1, SumIsInt
<1>7. balance[u] \in Int /\ grants[u] \in Nat /\ StartingBalance \in Int
  BY AccountsAssumption DEF AddUpInv, IInv, TypeOK
<1> QED BY <1>2, <1>3, <1>4, <1>5, <1>6, <1>7

\* A step that ends no request and no adjustment of u with "accepted" and
\* moves no money of u.
LEMMA AddsUpKept ==
    ASSUME AddUpInv, NEW u \in Users, AddsUp(u),
           balance'[u] = balance[u], grants'[u] = grants[u],
           Accepted(u)' = Accepted(u), Adjusted(u)' = Adjusted(u),
           \A a \in Adjusted(u) : Change'[a] = Change[a]
    PROVE  AddsUp(u)'
<1>1. SumOver(Change', Adjusted(u)) = SumOver(Change, Adjusted(u))
  BY Summands, SameSum
<1>2. AddsUp(u)' <=> balance'[u] = StartingBalance * grants'[u]
          - SumOver(Stake, Accepted(u)') + SumOver(Change', Adjusted(u)')
  BY DEF AddsUp
<1> QED BY <1>1, <1>2 DEF AddsUp

LEMMA HoldAddsUp ==
    ASSUME AddUpInv, NEW r \in Requests, Hold(r), channel = "open",
           NEW u \in Users, AddsUp(u)
    PROVE  AddsUp(u)'
<1>1. /\ UNCHANGED <<grants, apc, seen>>
      /\ Adjusted(u)' = Adjusted(u) /\ Change' = Change
  BY DEF Hold, adjustmentVars, Adjusted, Change
<1>2. CASE Caller[r] = u /\ pc'[r] = "accepted"
  <2>1. /\ balance'[u] = balance[u] - Stake[r]
        /\ Accepted(u)' = Accepted(u) \union {r} /\ r \notin Accepted(u)
    BY <1>2 DEF Hold, GoesTo, AddUpInv, IInv, TypeOK, Accepted
  <2>2. SumOver(Stake, Accepted(u) \union {r}) = Stake[r] + SumOver(Stake, Accepted(u))
    <3>1. \A q \in Accepted(u) : Stake[q] \in Int
      BY Summands DEF Accepted
    <3> QED BY <2>1, <3>1, Summands, SumWith
  <2>3. Stake[r] \in Int
    BY Summands
  <2>4. AddsUp(u)' <=> balance'[u] = StartingBalance * grants'[u]
            - SumOver(Stake, Accepted(u)') + SumOver(Change', Adjusted(u)')
    BY DEF AddsUp
  <2> DEFINE opening == StartingBalance * grants[u]
             stakes == SumOver(Stake, Accepted(u))
             changes == SumOver(Change, Adjusted(u))
  <2>5. opening \in Int /\ stakes \in Int /\ changes \in Int
    BY Summands
  <2>6. balance[u] = opening - stakes + changes
    BY DEF AddsUp
  <2>7. AddsUp(u)' <=> balance'[u] = opening - (Stake[r] + stakes) + changes
    BY <1>1, <2>1, <2>2, <2>4
  <2> HIDE DEF opening, stakes, changes
  <2> QED BY <2>1, <2>3, <2>5, <2>6, <2>7
<1>3. CASE ~ (Caller[r] = u /\ pc'[r] = "accepted")
  <2>1. balance'[u] = balance[u] /\ Accepted(u)' = Accepted(u)
    BY <1>3, AccountsAssumption DEF Hold, GoesTo, AddUpInv, IInv, TypeOK, Accepted
  <2> QED BY <1>1, <2>1, AddsUpKept
<1> QED BY <1>2, <1>3

LEMMA DepositAddsUp ==
    ASSUME AddUpInv, NEW r \in Requests, Deposit(r), NEW u \in Users, AddsUp(u)
    PROVE  AddsUp(u)'
<1>1. /\ UNCHANGED <<apc, seen>>
      /\ Adjusted(u)' = Adjusted(u) /\ Change' = Change
      /\ Accepted(u)' = Accepted(u)
  BY DEF Deposit, GoesTo, adjustmentVars, AddUpInv, IInv, TypeOK, Adjusted, Change, Accepted
<1>2. CASE Caller[r] = u
  <2>1. grants[u] = 0
    BY <1>2 DEF Deposit, Creating, AddUpInv, IInv, Maker
  <2>2. balance'[u] = balance[u] + StartingBalance /\ grants'[u] = 0 + 1
    BY <1>2, <2>1 DEF Deposit, AddUpInv, IInv, TypeOK
  <2>3. StartingBalance * 0 = 0 /\ StartingBalance * (0 + 1) = StartingBalance
    BY AccountsAssumption
  <2>4. AddsUp(u)' <=> balance'[u] = StartingBalance * grants'[u]
            - SumOver(Stake, Accepted(u)') + SumOver(Change', Adjusted(u)')
    BY DEF AddsUp
  <2> DEFINE stakes == SumOver(Stake, Accepted(u))
             changes == SumOver(Change, Adjusted(u))
  <2>5. stakes \in Int /\ changes \in Int /\ StartingBalance \in Int
    BY Summands
  <2>6. balance[u] = 0 - stakes + changes
    BY <2>1, <2>3 DEF AddsUp
  <2>7. AddsUp(u)' <=> balance'[u] = StartingBalance - stakes + changes
    BY <1>1, <2>2, <2>3, <2>4
  <2> HIDE DEF stakes, changes
  <2> QED BY <2>2, <2>5, <2>6, <2>7
<1>3. CASE Caller[r] # u
  <2>1. balance'[u] = balance[u] /\ grants'[u] = grants[u]
    BY <1>3, AccountsAssumption DEF Deposit, AddUpInv, IInv, TypeOK
  <2> QED BY <1>1, <2>1, AddsUpKept
<1> QED BY <1>2, <1>3

\* The difference to a balance read earlier is what the adjustment adds.
LEMMA AdjustAddsUp ==
    ASSUME AddUpInv, NEW a \in Adjustments, Adjust(a), channel = "open",
           NEW u \in Users, AddsUp(u)
    PROVE  AddsUp(u)'
<1>1. /\ UNCHANGED <<grants, pc, seen>>
      /\ Accepted(u)' = Accepted(u) /\ Change' = Change
  BY DEF Adjust, requestVars, Accepted, Change
<1>2. CASE Subject[a] = u /\ apc'[a] = "accepted"
  <2>1. /\ balance'[u] = balance[u] + Change[a]
        /\ Adjusted(u)' = Adjusted(u) \union {a} /\ a \notin Adjusted(u)
    BY <1>2 DEF Adjust, AddUpInv, IInv, TypeOK, Adjusted, Change
  <2>2. SumOver(Change, Adjusted(u) \union {a}) = Change[a] + SumOver(Change, Adjusted(u))
    <3>1. \A d \in Adjusted(u) : Change[d] \in Int
      BY Summands DEF Adjusted
    <3> QED BY <2>1, <3>1, Summands, SumWith
  <2>3. Change[a] \in Int
    BY Summands
  <2>4. AddsUp(u)' <=> balance'[u] = StartingBalance * grants'[u]
            - SumOver(Stake, Accepted(u)') + SumOver(Change', Adjusted(u)')
    BY DEF AddsUp
  <2> DEFINE opening == StartingBalance * grants[u]
             stakes == SumOver(Stake, Accepted(u))
             changes == SumOver(Change, Adjusted(u))
  <2>5. opening \in Int /\ stakes \in Int /\ changes \in Int
    BY Summands
  <2>6. balance[u] = opening - stakes + changes
    BY DEF AddsUp
  <2>7. AddsUp(u)' <=> balance'[u] = opening - stakes + (Change[a] + changes)
    BY <1>1, <2>1, <2>2, <2>4
  <2> HIDE DEF opening, stakes, changes
  <2> QED BY <2>1, <2>3, <2>5, <2>6, <2>7
<1>3. CASE ~ (Subject[a] = u /\ apc'[a] = "accepted")
  <2>1. balance'[u] = balance[u] /\ Adjusted(u)' = Adjusted(u)
    BY <1>3, AccountsAssumption DEF Adjust, AddUpInv, IInv, TypeOK, Adjusted
  <2> QED BY <1>1, <2>1, AddsUpKept
<1> QED BY <1>2, <1>3

LEMMA NextAddUpInv == AddUpInv /\ [Next]_vars => AddUpInv'
<1> SUFFICES ASSUME AddUpInv, [Next]_vars PROVE AddUpInv'
  OBVIOUS
<1>1. IInv' /\ IsFiniteSet(Begun') /\ IsFiniteSet(BegunAdjustments')
  BY NextIInv, BegunStaysFinite DEF AddUpInv
<1>2. ASSUME faults' = 0 PROVE channel' = "open" /\ \A u \in Users : AddsUp(u)'
  <2>1. ASSUME NEW kind PROVE ~ Fault(kind)
    <3>1. faults \in Nat
      BY AccountsAssumption DEF AddUpInv, IInv, TypeOK
    <3> QED BY <1>2, <3>1 DEF Fault
  <2>2. /\ faults = 0 /\ channel' = channel
    BY <1>2, <2>1 DEF Next, RequestStep, Authenticate, Insert, Reload, OpenAccount,
           Deposit, Hold, StatementFails, ReadBalance, Adjust, Crash, ChannelLoss,
           vars
  <2>3. channel = "open" /\ \A u \in Users : AddsUp(u)
    BY <2>2 DEF AddUpInv
  <2> SUFFICES ASSUME NEW u \in Users PROVE AddsUp(u)'
    BY <2>2, <2>3
  <2>4. ASSUME NEW r \in Requests,
               Authenticate(r) \/ Insert(r) \/ Reload(r) \/ OpenAccount(r)
        PROVE  AddsUp(u)'
    <3>1. /\ UNCHANGED <<balance, grants, apc, seen>>
          /\ Accepted(u)' = Accepted(u)
      BY <2>4 DEF Authenticate, Insert, Reload, OpenAccount, GoesTo, ledgerVars,
             adjustmentVars, AddUpInv, IInv, TypeOK, Accepted
    <3>2. Adjusted(u)' = Adjusted(u) /\ Change' = Change
      BY <3>1 DEF Adjusted, Change
    <3> QED BY <2>3, <3>1, <3>2, AddsUpKept
  <2>5. ASSUME NEW a \in Adjustments, ReadBalance(a) PROVE AddsUp(u)'
    <3>1. /\ UNCHANGED <<balance, grants, pc>>
          /\ Accepted(u)' = Accepted(u)
      BY <2>5 DEF ReadBalance, ledgerVars, requestVars, Accepted
    <3>2. /\ Adjusted(u)' = Adjusted(u)
          /\ \A d \in Adjusted(u) : Change'[d] = Change[d]
      BY <2>5 DEF ReadBalance, AddUpInv, IInv, TypeOK, Adjusted, Change
    <3> QED BY <2>3, <3>1, <3>2, AddsUpKept
  <2>6. CASE UNCHANGED vars
    <3>1. UNCHANGED <<balance, grants, Accepted(u), Adjusted(u), Change>>
      BY <2>6 DEF vars, ledgerVars, requestVars, adjustmentVars, Accepted, Adjusted, Change
    <3> QED BY <2>3, <3>1, AddsUpKept
  <2> QED
    BY <2>1, <2>3, <2>4, <2>5, <2>6, HoldAddsUp, DepositAddsUp, AdjustAddsUp
    DEF Next, RequestStep, StatementFails, Crash, ChannelLoss
<1> QED BY <1>1, <1>2 DEF AddUpInv

LEMMA InitAddUpInv == Init => AddUpInv
<1> SUFFICES ASSUME Init PROVE AddUpInv
  OBVIOUS
<1>1. Begun = {} /\ BegunAdjustments = {}
  BY DEF Init, Begun, BegunAdjustments
<1>2. ASSUME NEW u \in Users PROVE AddsUp(u)
  <2>1. Accepted(u) = {} /\ Adjusted(u) = {}
    BY DEF Init, Accepted, Adjusted
  <2>2. balance[u] = 0 /\ grants[u] = 0 /\ StartingBalance * 0 = 0
    BY AccountsAssumption DEF Init
  <2>3. AddsUp(u) <=> 0 = 0 - 0 + 0
    BY <2>1, <2>2, SumOfNone DEF AddsUp
  <2> QED BY <2>3
<1> QED BY <1>1, <1>2, InitIInv, FS_EmptySet DEF Init, AddUpInv

\* While nothing fails an account is the sum of what was done to it, for any
\* number of holds, deposits and adjustments that overlap.
THEOREM AdjustmentsAlwaysAddUp == Spec => []AdjustmentsAddUp
<1>1. Spec => []AddUpInv
  BY InitAddUpInv, NextAddUpInv, PTL DEF Spec
<1>2. AddUpInv => AdjustmentsAddUp
  BY AddsUpAsSums DEF AddUpInv
<1> QED BY <1>1, <1>2, PTL
=============================================================================
