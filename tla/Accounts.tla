------------------------------ MODULE Accounts ------------------------------
(***************************************************************************)
(* How a player comes to have an account: JwtStrategy.validate, which runs *)
(* before every authenticated request and creates the user it does not     *)
(* find, UsersService.createUser, and what an admin does to a balance,     *)
(* WalletService.setBalance, while the player's own requests use it.       *)
(*                                                                         *)
(* The row in `users` is in Postgres and the account and its opening       *)
(* deposit are in TigerBeetle: three commits, no transaction.  A new       *)
(* user's dashboard sends several requests at once, and all of them may    *)
(* find no row.                                                            *)
(*                                                                         *)
(* Faults of the kinds in FaultKinds happen at most MaxFaults times:       *)
(*   crash     the process dies and is restarted                           *)
(*   channel   the broker channel closes for good: each balanceUpdated     *)
(*             publish throws, after the transfer it reports               *)
(*   database  one statement, or one call of the ledger, throws            *)
(* A definition Name_Variant is Name with one mistake, see README.md.      *)
(***************************************************************************)
EXTENDS Integers, FiniteSetsExt

CONSTANTS
    Users,
    Requests, Caller,       \* Caller[r]: the user whose token r carries
    Stake,                  \* Stake[r]: cents the request holds once let in
    Adjustments, Subject,   \* PUT admin/users/:userId/balance, and its user
    Target,                 \* Target[a]: its amountCents
    StartingBalance,        \* STARTING_BALANCE_CENTS
    FaultKinds, MaxFaults

ASSUME AccountsAssumption ==
    /\ Caller \in [Requests -> Users]
    /\ Stake \in [Requests -> Nat \ {0}]
    /\ Subject \in [Adjustments -> Users]
    /\ Target \in [Adjustments -> Nat]
    /\ StartingBalance \in Nat \ {0}
    /\ MaxFaults \in Nat

VARIABLES
    rows,       \* users with a row in `users`
    accounts,   \* users with an account in the ledger
    grants,     \* grants[u]: deposits of the starting balance made to u
    balance,    \* balance[u]: credits - debits - pending, 0 without account
    pc,         \* pc[r]: where the request is
    insert,     \* insert[r]: createUser's local, whether r's insert made the row
    apc,        \* apc[a]: where the adjustment is
    seen,       \* seen[a]: setBalance's local, the balance it read
    channel,    \* core's broker channel
    faults      \* faults so far

ledgerVars == <<accounts, grants, balance>>
requestVars == <<pc, insert>>
adjustmentVars == <<apc, seen>>
vars == <<rows, ledgerVars, requestVars, adjustmentVars, channel, faults>>

\* A request inside createUser after its insert; one not answered yet.
Creating == {"reloading", "opening", "granting"}
Pending == Creating \union {"inserting", "allowed"}
Answers == {"accepted", "insufficient", "failed", "lost"}

TypeOK ==
    /\ rows \subseteq Users
    /\ accounts \subseteq Users
    /\ grants \in [Users -> Nat]
    /\ balance \in [Users -> Int]
    /\ pc \in [Requests -> {"idle"} \union Pending \union Answers]
    /\ insert \in [Requests -> {"none", "made", "ignored"}]
    /\ apc \in [Adjustments -> {"idle", "adjusting", "accepted", "failed", "lost"}]
    /\ seen \in [Adjustments -> Nat]
    /\ channel \in {"open", "closed"}
    /\ faults \in 0..MaxFaults

Init ==
    /\ rows = {}
    /\ accounts = {}
    /\ grants = [u \in Users |-> 0]
    /\ balance = [u \in Users |-> 0]
    /\ pc = [r \in Requests |-> "idle"]
    /\ insert = [r \in Requests |-> "none"]
    /\ apc = [a \in Adjustments |-> "idle"]
    /\ seen = [a \in Adjustments |-> 0]
    /\ channel = "open"
    /\ faults = 0

GoesTo(r, step) == pc' = [pc EXCEPT ![r] = step]

-----------------------------------------------------------------------------
(* JwtStrategy.validate and UsersService.createUser                        *)

\* findById: a user with a row is let in, whoever is still creating it.
Authenticate(r) ==
    /\ pc[r] = "idle"
    /\ GoesTo(r, IF Caller[r] \in rows THEN "allowed" ELSE "inserting")
    /\ UNCHANGED <<rows, ledgerVars, insert, adjustmentVars, channel, faults>>

\* INSERT ... ON CONFLICT DO NOTHING: one insert returns the row.
Insert(r) ==
    /\ pc[r] = "inserting"
    /\ insert' = [insert EXCEPT ![r] = IF Caller[r] \in rows THEN "ignored" ELSE "made"]
    /\ rows' = rows \union {Caller[r]}
    /\ GoesTo(r, "reloading")
    /\ UNCHANGED <<ledgerVars, adjustmentVars, channel, faults>>

\* findOneByOrFail; users are never deleted.
Reload(r) ==
    /\ pc[r] = "reloading"
    /\ GoesTo(r, "opening")
    /\ UNCHANGED <<rows, ledgerVars, insert, adjustmentVars, channel, faults>>

\* Only the request that made the row opens the account.
OpenAccount_NewOnly(r) ==
    /\ pc[r] = "opening"
    /\ accounts' = IF insert[r] = "made" THEN accounts \union {Caller[r]} ELSE accounts
    /\ GoesTo(r, IF insert[r] = "made" THEN "granting" ELSE "allowed")
    /\ UNCHANGED <<rows, grants, balance, insert, adjustmentVars, channel, faults>>

\* The request that opens the account makes the deposit.
OpenAccount_GrantsOpener(r) ==
    /\ pc[r] = "opening"
    /\ accounts' = accounts \union {Caller[r]}
    /\ GoesTo(r, IF Caller[r] \notin accounts THEN "granting" ELSE "allowed")
    /\ UNCHANGED <<rows, grants, balance, insert, adjustmentVars, channel, faults>>

\* The deposit whoever created the row.
OpenAccount_GrantsAll(r) ==
    /\ pc[r] = "opening"
    /\ accounts' = accounts \union {Caller[r]}
    /\ GoesTo(r, "granting")
    /\ UNCHANGED <<rows, grants, balance, insert, adjustmentVars, channel, faults>>

\* createAccount; that the account exists is not an error.
OpenAccount(r) ==
    /\ pc[r] = "opening"
    /\ accounts' = accounts \union {Caller[r]}
    /\ GoesTo(r, IF insert[r] = "made" THEN "granting" ELSE "allowed")
    /\ UNCHANGED <<rows, grants, balance, insert, adjustmentVars, channel, faults>>

\* deposit: a transfer from the house, then balanceUpdated.
Deposit(r) ==
    /\ pc[r] = "granting"
    /\ grants' = [grants EXCEPT ![Caller[r]] = @ + 1]
    /\ balance' = [balance EXCEPT ![Caller[r]] = @ + StartingBalance]
    /\ GoesTo(r, IF channel = "open" THEN "allowed" ELSE "failed")
    /\ UNCHANGED <<rows, accounts, insert, adjustmentVars, channel, faults>>

\* The request proper.  What it does to the account is a hold; the transfer
\* fails on an account that does not exist, or does not cover the stake.
Hold(r) ==
    /\ pc[r] = "allowed"
    /\ LET u == Caller[r] IN
       \/ /\ u \in accounts /\ balance[u] >= Stake[r]
          /\ balance' = [balance EXCEPT ![u] = @ - Stake[r]]
          /\ GoesTo(r, IF channel = "open" THEN "accepted" ELSE "failed")
       \/ /\ u \in accounts /\ balance[u] < Stake[r]
          /\ GoesTo(r, "insufficient")
          /\ UNCHANGED balance
       \/ /\ u \notin accounts
          /\ GoesTo(r, "failed")
          /\ UNCHANGED balance
    /\ UNCHANGED <<rows, accounts, grants, insert, adjustmentVars, channel, faults>>

-----------------------------------------------------------------------------
(* WalletService.setBalance                                                *)

ReadBalance(a) ==
    /\ apc[a] = "idle"
    /\ seen' = [seen EXCEPT ![a] = balance[Subject[a]]]
    /\ apc' = [apc EXCEPT ![a] = "adjusting"]
    /\ UNCHANGED <<rows, ledgerVars, requestVars, channel, faults>>

\* The account was created without debits_must_not_exceed_credits.
Debitable_NoFlag(u, cents) == u \in accounts

Debitable(u, cents) == u \in accounts /\ balance[u] >= cents

\* The balance is written, not moved.
Adjust_Overwrites(a) ==
    /\ apc[a] = "adjusting"
    /\ Subject[a] \in accounts
    /\ balance' = [balance EXCEPT ![Subject[a]] = Target[a]]
    /\ apc' = [apc EXCEPT ![a] = "accepted"]
    /\ UNCHANGED <<rows, accounts, grants, requestVars, seen, channel, faults>>

\* The difference is transferred from or to the house, if there is one.
Adjust(a) ==
    /\ apc[a] = "adjusting"
    /\ LET u == Subject[a]
           diff == Target[a] - seen[a]
       IN
       \/ /\ \/ diff = 0
             \/ diff > 0 /\ u \in accounts
             \/ diff < 0 /\ Debitable(u, -diff)
          /\ balance' = [balance EXCEPT ![u] = @ + diff]
          /\ apc' = [apc EXCEPT ![a] = IF channel = "open" THEN "accepted" ELSE "failed"]
       \/ /\ \/ diff > 0 /\ u \notin accounts
             \/ diff < 0 /\ ~Debitable(u, -diff)
          /\ apc' = [apc EXCEPT ![a] = "failed"]
          /\ UNCHANGED balance
    /\ UNCHANGED <<rows, accounts, grants, requestVars, seen, channel, faults>>

-----------------------------------------------------------------------------
(* Faults                                                                  *)

Fault(kind) ==
    /\ kind \in FaultKinds
    /\ faults < MaxFaults
    /\ faults' = faults + 1

Crash ==
    /\ Fault("crash")
    /\ pc' = [r \in Requests |-> IF pc[r] \in Pending THEN "lost" ELSE pc[r]]
    /\ apc' = [a \in Adjustments |-> IF apc[a] = "adjusting" THEN "lost" ELSE apc[a]]
    /\ channel' = "open"
    /\ UNCHANGED <<rows, ledgerVars, insert, seen>>

ChannelLoss ==
    /\ Fault("channel")
    /\ channel = "open"
    /\ channel' = "closed"
    /\ UNCHANGED <<rows, ledgerVars, requestVars, adjustmentVars>>

StatementFails(r) ==
    /\ Fault("database")
    /\ pc[r] \in Pending
    /\ GoesTo(r, "failed")
    /\ UNCHANGED <<rows, ledgerVars, insert, adjustmentVars, channel>>

-----------------------------------------------------------------------------

RequestStep(r) == Insert(r) \/ Reload(r) \/ OpenAccount(r) \/ Deposit(r) \/ Hold(r)

Next ==
    \/ \E r \in Requests : Authenticate(r) \/ RequestStep(r) \/ StatementFails(r)
    \/ \E a \in Adjustments : ReadBalance(a) \/ Adjust(a)
    \/ Crash
    \/ ChannelLoss

Spec == Init /\ [][Next]_vars

-----------------------------------------------------------------------------
(* Properties                                                              *)

\* "Gate the starting grant on that so concurrent creates seed the balance
\* exactly once": at most once whatever fails, and never before there is an
\* account and a row to it.
GrantedAtMostOnce ==
    \A u \in Users :
        /\ grants[u] <= 1
        /\ grants[u] = 1 => u \in accounts
        /\ u \in accounts => u \in rows

\* Exactly once while nothing fails: a user with a row has had the deposit, or
\* the request that made the row is about to make it.
Provisioned(u) ==
    \/ grants[u] = 1
    \/ \E r \in Requests : Caller[r] = u /\ insert[r] = "made" /\ pc[r] \in Creating

GrantOnItsWay == faults = 0 => \A u \in rows : Provisioned(u)

\* A request that went through createUser has an account to use when it is let
\* in, also when the row, and the deposit, are another request's.
CreatorsHaveAccounts ==
    \A r \in Requests :
        insert[r] # "none" /\ pc[r] = "allowed" => Caller[r] \in accounts

\* Reading the balance first and debiting the difference later never takes an
\* account below zero, whatever the player holds in between.
NoOverdraft == \A u \in Users : balance[u] >= 0

\* setBalance moves a difference, so a hold or a deposit that commits between
\* its read and its transfer is neither lost nor undone: while nothing has
\* failed, an account is the sum of what was done to it.
AdjustmentsAddUp ==
    faults = 0 => \A u \in Users :
        balance[u] = StartingBalance * grants[u]
            - MapThenSumSet(LAMBDA r : Stake[r],
                  {r \in Requests : Caller[r] = u /\ pc[r] = "accepted"})
            + MapThenSumSet(LAMBDA a : Target[a] - seen[a],
                  {a \in Adjustments : Subject[a] = u /\ apc[a] = "accepted"})
=============================================================================
