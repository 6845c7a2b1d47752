------------------------------- MODULE Credits -------------------------------
(***************************************************************************)
(* The credit account of one organization: billing/credits.py over the     *)
(* tables CreditBalance, CreditReservation, CreditPurchase and             *)
(* CreditLedgerEntry of billing/models.py.                                 *)
(*                                                                         *)
(* Every operation of credits.py is one database transaction that takes    *)
(* the row locks it needs before it changes anything, so it is one action. *)
(* What is not atomic is modelled as it is: an operation reads the clock   *)
(* on entry, BEFORE it waits for the lock, so the month it works with may  *)
(* be older than the month of a transaction that committed meanwhile; and  *)
(* the expiry sweep collects the due reservations in one transaction and   *)
(* releases each in a transaction of its own, with the clock of the first. *)
(***************************************************************************)
EXTENDS Integers, FiniteSets, PrefixSums

CONSTANTS
  NumHolds,        \* reservations an organization makes (idempotency keys)
  NumPurchases,    \* purchases of credit packs
  NumCorrections,  \* operator corrections (idempotency keys)
  UnitCosts,       \* prices the catalog may give one unit of an operation
  Quantities,      \* units one reservation may hold
  Packs,           \* credits a pack may hold
  CorrectionSizes, \* credits an operator may add or take
  PlanQuotas,      \* monthly allowances a plan or an override may grant
  MaxTime,         \* bound: the clock stops here
  MonthOf,         \* calendar month of each instant
  Skew,            \* bound: how much older than the clock a reading may be
  MaxRegrant,      \* bound: no old readings once a month was granted this much
  BatchSize,       \* reservations one run of the sweep collects
  Refunds          \* may refund_credits be called? nothing in the code calls it

Instants == 0..MaxTime
Months   == {MonthOf[t] : t \in Instants}
Holds       == 1..NumHolds
Purchases   == 1..NumPurchases
Corrections == 1..NumCorrections

ASSUME SizesAssumption ==
  /\ NumHolds \in Nat /\ NumPurchases \in Nat /\ NumCorrections \in Nat
  /\ MaxTime \in Nat /\ Skew \in Nat /\ MaxRegrant \in Nat /\ BatchSize \in Nat
  /\ UnitCosts \subseteq Nat /\ Quantities \subseteq Nat \ {0}
  /\ Packs \subseteq Nat \ {0} /\ CorrectionSizes \subseteq Int \ {0}
  /\ PlanQuotas \subseteq Nat
  /\ Refunds \in BOOLEAN

(* The calendar never runs backwards. *)
ASSUME CalendarAssumption ==
  /\ MonthOf \in [Instants -> Nat]
  /\ \A s, t \in Instants : s <= t => MonthOf[s] <= MonthOf[t]

Allowance == "allowance"
Purchased == "purchased"
Buckets   == {Allowance, Purchased}

NoPeriod   == -1  \* allowance_period_start is null until the first sync
NoDeadline == -1  \* expires_at is null
Unsettled  == -1  \* settled_quantity is null

VARIABLES
  now,          \* the clock
  fullAccess,   \* EntitlementSnapshot.access_mode = FULL
  planQuota,    \* EntitlementSnapshot.quotas["credits.monthly"]
  remaining, reserved, granted, period,  \* the CreditBalance row
  holds,        \* the CreditReservation rows
  purchases,    \* the CreditPurchase rows: credits bought and whether paid
  sweep,        \* reservations a running sweep has collected
  sweepAt,      \* the clock that sweep read when it started
  \* Sums of CreditLedgerEntry.amount, by what the entries are filed under:
  ledger,       \* by bucket
  consumed,     \* CONSUMED entries by reservation and bucket
  refunded,     \* REFUNDED entries by reservation and bucket
  corrected,    \* the OPERATOR_ADJUSTMENT entry of each key, 0 for none
  grantedIn     \* ALLOWANCE_GRANTED entries by month

balanceRow == <<remaining, reserved, granted, period>>
ledgerRows == <<ledger, consumed, refunded, corrected, grantedIn>>
sweepVars  == <<sweep, sweepAt>>
worldVars  == <<now, fullAccess, planQuota>>
vars == <<balanceRow, ledgerRows, sweepVars, worldVars, holds, purchases>>
-----------------------------------------------------------------------------
(* Amounts are kept per bucket. *)
Split(a, p) == [b \in Buckets |-> IF b = Allowance THEN a ELSE p]
Nothing     == Split(0, 0)
Plus(f, g)  == [b \in Buckets |-> f[b] + g[b]]
Minus(f, g) == [b \in Buckets |-> f[b] - g[b]]
Least(x, y) == IF x <= y THEN x ELSE y

NoHold == [state |-> "none", cost |-> 0, quantity |-> 1, unit |-> 0,
           amount |-> Nothing, period |-> NoPeriod,
           deadline |-> NoDeadline, settled |-> Unsettled]

IsOpen(k) == holds[k].state = "reserved"

(* What a transaction that read the clock up to Skew ago works with. *)
Readings ==
  {t \in Instants : /\ t <= now /\ now - t <= Skew
                    /\ t < now => \A m \in Months : grantedIn[m] < MaxRegrant}

(* _allowance_for: only full access is given an allowance *)
AllowanceFor == IF fullAccess THEN planQuota ELSE 0

(***************************************************************************)
(* _sync_allowance at time t: leaving a month expires what is free of its  *)
(* allowance; the allowance is then topped up to the plan's figure and     *)
(* never clawed back.  Spending a hold lowers remaining and reserved alike *)
(* and so changes nothing of what a later sync finds free.                 *)
(***************************************************************************)
Rolls(t) == period # MonthOf[t]
(* Mutant: the new month takes what reservations hold, too. *)
ExpiringHeldToo(t) == IF Rolls(t) THEN remaining[Allowance] ELSE 0
Expiring(t) ==
  IF Rolls(t) /\ remaining[Allowance] > reserved[Allowance]
  THEN remaining[Allowance] - reserved[Allowance] ELSE 0
(* Mutant: a downgrade lowers the grant on record. *)
GrantedClawedBack(t) == IF Rolls(t) THEN 0 ELSE Least(granted, AllowanceFor)
GrantedSoFar(t) == IF Rolls(t) THEN 0 ELSE granted
Missing(t) ==
  IF AllowanceFor > GrantedSoFar(t) THEN AllowanceFor - GrantedSoFar(t) ELSE 0
Synced(t)  == remaining[Allowance] - Expiring(t) + Missing(t)

SyncPeriod(t) ==
  /\ period' = MonthOf[t]
  /\ granted' = GrantedSoFar(t) + Missing(t)
  /\ grantedIn' = [grantedIn EXCEPT ![MonthOf[t]] = @ + Missing(t)]
(* Mutant: an expiry writes no entry. *)
SyncEntriesOfGrants(t) == Split(Missing(t), 0)
SyncEntries(t) == Split(Missing(t) - Expiring(t), 0)

(* credit_summary, and one organization's turn in refresh_credit_allowances *)
Summary(t) ==
  /\ SyncPeriod(t)
  /\ remaining' = [remaining EXCEPT ![Allowance] = Synced(t)]
  /\ ledger' = Plus(ledger, SyncEntries(t))
  /\ UNCHANGED <<reserved, consumed, refunded, corrected, holds, purchases>>
  /\ UNCHANGED <<sweepVars, worldVars>>
-----------------------------------------------------------------------------
FreeAllowance(t) == Synced(t) - reserved[Allowance]
FreePurchased == remaining[Purchased] - reserved[Purchased]

(* reserve_credits: hold the price of `quantity` units, allowance first.   *)
(* A key that has a reservation returns it, a price of zero holds nothing, *)
(* too little credit raises: none of these changes a row.                  *)
Reserve(k, unit, quantity, deadline, t) ==
  LET cost   == unit * quantity
      amount == Split(Least(cost, FreeAllowance(t)),
                      cost - Least(cost, FreeAllowance(t)))
  IN /\ holds[k].state = "none"
     /\ cost > 0
     /\ deadline = NoDeadline \/ deadline > t
     /\ cost <= FreeAllowance(t) + FreePurchased
     /\ SyncPeriod(t)
     /\ remaining' = [remaining EXCEPT ![Allowance] = Synced(t)]
     /\ reserved' = Plus(reserved, amount)
     /\ ledger' = Plus(ledger, SyncEntries(t))
     /\ holds' = [holds EXCEPT ![k] =
          [state |-> "reserved", cost |-> cost, quantity |-> quantity,
           unit |-> unit, amount |-> amount, period |-> MonthOf[t],
           deadline |-> deadline, settled |-> Unsettled]]
     /\ UNCHANGED <<consumed, refunded, corrected, purchases>>
     /\ UNCHANGED <<sweepVars, worldVars>>

Due(k, t) == holds[k].deadline # NoDeadline /\ holds[k].deadline <= t

(* Mutant: the save leaves settled_quantity out of update_fields. *)
SettledUncounted(k, state, quantity) == holds' = [holds EXCEPT ![k].state = state]
Settled(k, state, quantity) ==
  holds' = [holds EXCEPT ![k].state = state, ![k].settled = quantity]

(* commit_credits: spend the whole hold, unless its time has passed *)
Commit(k, t) ==
  LET spent == holds[k].amount
  IN /\ IsOpen(k)
     /\ ~Due(k, t)
     /\ reserved' = Minus(reserved, spent)
     /\ remaining' = Minus(remaining, spent)
     /\ ledger' = Minus(ledger, spent)
     /\ consumed' = [consumed EXCEPT ![k] = Plus(@, spent)]
     /\ Settled(k, "committed", holds[k].quantity)
     /\ UNCHANGED <<period, granted, grantedIn, refunded, corrected, purchases>>
     /\ UNCHANGED <<sweepVars, worldVars>>

(* Mutant: allowance held in an earlier month joins the current one. *)
LapsedNever(k, back, t) == 0
(* What _release lets go of for good: allowance held in an earlier month. *)
Lapsed(k, back, t) ==
  IF holds[k].period # MonthOf[t] THEN back[Allowance] ELSE 0

(* Spend `spent` of hold k and give the rest back: the balance arithmetic  *)
(* of settle_credits, and with nothing spent that of _release.             *)
SpendAndRelease(k, spent, t) ==
  LET back == Minus(holds[k].amount, spent)
  IN /\ SyncPeriod(t)
     /\ reserved' = Minus(Minus(reserved, spent), back)
     /\ remaining' = Plus(Minus(remaining, spent),
                          Split(Missing(t) - Expiring(t) - Lapsed(k, back, t), 0))
     /\ ledger' = Plus(Minus(ledger, spent),
                       Plus(SyncEntries(t), Split(0 - Lapsed(k, back, t), 0)))

(* Mutant: releasing again what has ended. *)
ReleaseAgain(k, t) ==
  /\ holds[k].state # "none"
  /\ SpendAndRelease(k, Nothing, t)
  /\ Settled(k, "released", 0)
  /\ UNCHANGED <<consumed, refunded, corrected, purchases, sweepVars, worldVars>>
(* release_credits: the operation failed, nothing is spent *)
Release(k, t) ==
  /\ IsOpen(k)
  /\ SpendAndRelease(k, Nothing, t)
  /\ Settled(k, "released", 0)
  /\ UNCHANGED <<consumed, refunded, corrected, purchases>>
  /\ UNCHANGED <<sweepVars, worldVars>>

(* settle_credits: spend what was delivered, allowance first, also past    *)
(* the deadline; the caller may report more units than were held.          *)
Settle(k, quantity, t) ==
  LET delivered == Least(quantity, holds[k].quantity)
      cost      == Least(delivered * holds[k].unit, holds[k].cost)
      fromAllowance == Least(cost, holds[k].amount[Allowance])
      spent     == Split(fromAllowance, cost - fromAllowance)
  IN /\ IsOpen(k)
     /\ SpendAndRelease(k, spent, t)
     /\ consumed' = [consumed EXCEPT ![k] = Plus(@, spent)]
     /\ Settled(k, IF delivered > 0 THEN "committed" ELSE "released", delivered)
     /\ UNCHANGED <<refunded, corrected, purchases>>
     /\ UNCHANGED <<sweepVars, worldVars>>

(* refund_credits: once per committed hold, both parts of the HELD amount *)
Refund(k) ==
  /\ Refunds
  /\ holds[k].state = "committed"
  /\ refunded[k] = Nothing
  /\ remaining' = Plus(remaining, holds[k].amount)
  /\ ledger' = Plus(ledger, holds[k].amount)
  /\ refunded' = [refunded EXCEPT ![k] = holds[k].amount]
  /\ UNCHANGED <<reserved, period, granted, grantedIn, consumed, corrected>>
  /\ UNCHANGED <<sweepVars, worldVars, holds, purchases>>
-----------------------------------------------------------------------------
(* start_credit_purchase: the intent, only beside a live subscription *)
StartPurchase(p, credits) ==
  /\ purchases[p].status = "none"
  /\ fullAccess
  /\ purchases' = [purchases EXCEPT ![p] = [status |-> "pending", credits |-> credits]]
  /\ UNCHANGED <<balanceRow, ledgerRows, sweepVars, worldVars, holds>>

(* Mutant: a confirmation that comes again is not recognized. *)
CompleteAgain(p) ==
  /\ purchases[p].status # "none"
  /\ remaining' = Plus(remaining, Split(0, purchases[p].credits))
  /\ ledger' = Plus(ledger, Split(0, purchases[p].credits))
  /\ purchases' = [purchases EXCEPT ![p].status = "succeeded"]
  /\ UNCHANGED <<reserved, period, granted, grantedIn>>
  /\ UNCHANGED <<consumed, refunded, corrected, sweepVars, worldVars, holds>>
(* complete_credit_purchase: a confirmed payment; redelivered webhooks find *)
(* it succeeded and change nothing                                          *)
CompletePurchase(p) ==
  /\ purchases[p].status = "pending"
  /\ remaining' = Plus(remaining, Split(0, purchases[p].credits))
  /\ ledger' = Plus(ledger, Split(0, purchases[p].credits))
  /\ purchases' = [purchases EXCEPT ![p].status = "succeeded"]
  /\ UNCHANGED <<reserved, period, granted, grantedIn>>
  /\ UNCHANGED <<consumed, refunded, corrected, sweepVars, worldVars, holds>>

(* grant_operator_credits: once per key, never below what is held *)
Correct(c, credits) ==
  /\ corrected[c] = 0
  /\ credits < 0 => FreePurchased >= 0 - credits
  /\ remaining' = Plus(remaining, Split(0, credits))
  /\ ledger' = Plus(ledger, Split(0, credits))
  /\ corrected' = [corrected EXCEPT ![c] = credits]
  /\ UNCHANGED <<reserved, period, granted, grantedIn>>
  /\ UNCHANGED <<consumed, refunded, sweepVars, worldVars, holds, purchases>>
-----------------------------------------------------------------------------
(* Mutant: reservations that have ended fill the batch. *)
DueHoldsOfAnyState(t) == {k \in Holds : Due(k, t)}
DueHolds(t) == {k \in Holds : IsOpen(k) /\ Due(k, t)}
(* release_expired_credit_reservations: collect the oldest due holds ...   *)
SweepCollect ==
  /\ sweep = {}
  /\ sweep' \in SUBSET DueHolds(now) \ {{}}
  /\ Cardinality(sweep') = Least(BatchSize, Cardinality(DueHolds(now)))
  /\ \A j \in sweep', k \in DueHolds(now) \ sweep' :
       holds[j].deadline <= holds[k].deadline
  /\ sweepAt' = now
  /\ UNCHANGED <<balanceRow, ledgerRows, worldVars, holds, purchases>>

(* Mutant: the sweep does not read the state again under the lock. *)
SweepReleaseUnchecked(k) ==
  /\ k \in sweep /\ sweep' = sweep \ {k}
  /\ UNCHANGED <<sweepAt, worldVars, consumed, refunded, corrected, purchases>>
  /\ SpendAndRelease(k, Nothing, sweepAt)
  /\ Settled(k, "released", 0)
(* ... and release each that is still held, in a transaction of its own    *)
(* (in any order: releases of different reservations commute).             *)
SweepRelease(k) ==
  /\ k \in sweep
  /\ sweep' = sweep \ {k}
  /\ UNCHANGED <<sweepAt, worldVars, consumed, refunded, corrected, purchases>>
  /\ \/ /\ IsOpen(k)
        /\ SpendAndRelease(k, Nothing, sweepAt)
        /\ Settled(k, "released", 0)
     \/ /\ ~IsOpen(k)
        /\ UNCHANGED <<balanceRow, ledger, grantedIn, holds>>

(* The worker that runs the sweep may die between two transactions. *)
SweepDies ==
  /\ sweep # {}
  /\ sweep' = {}
  /\ UNCHANGED <<sweepAt, balanceRow, ledgerRows, worldVars, holds, purchases>>
-----------------------------------------------------------------------------
(* The plan, an override or the payment lifecycle rewrites the snapshot. *)
ChangeEntitlement(full, quota) ==
  /\ fullAccess' = full
  /\ planQuota' = quota
  /\ UNCHANGED <<now, balanceRow, ledgerRows, sweepVars, holds, purchases>>

(* Time passes; a running sweep's reading stays within Skew. *)
Tick ==
  /\ now < MaxTime
  /\ sweep # {} => now + 1 - sweepAt <= Skew
  /\ now' = now + 1
  /\ UNCHANGED <<fullAccess, planQuota, balanceRow, ledgerRows, sweepVars>>
  /\ UNCHANGED <<holds, purchases>>
-----------------------------------------------------------------------------
Init ==
  /\ now = 0 /\ fullAccess = TRUE /\ planQuota \in PlanQuotas
  /\ remaining = Nothing /\ reserved = Nothing /\ granted = 0 /\ period = NoPeriod
  /\ holds = [k \in Holds |-> NoHold]
  /\ purchases = [p \in Purchases |-> [status |-> "none", credits |-> 0]]
  /\ sweep = {} /\ sweepAt = 0
  /\ ledger = Nothing
  /\ consumed = [k \in Holds |-> Nothing]
  /\ refunded = [k \in Holds |-> Nothing]
  /\ corrected = [c \in Corrections |-> 0]
  /\ grantedIn = [m \in Months |-> 0]

Next ==
  \/ \E t \in Readings : Summary(t)
  \/ \E k \in Holds, u \in UnitCosts, q \in Quantities, t \in Readings :
       \E d \in Instants \cup {NoDeadline} : Reserve(k, u, q, d, t)
  \/ \E k \in Holds, t \in Readings : Commit(k, t)
  \/ \E k \in Holds, t \in Readings : Release(k, t)
  \/ \E k \in Holds, q \in Quantities \cup {0}, t \in Readings : Settle(k, q, t)
  \/ \E k \in Holds : Refund(k)
  \/ \E p \in Purchases, c \in Packs : StartPurchase(p, c)
  \/ \E p \in Purchases : CompletePurchase(p)
  \/ \E c \in Corrections, n \in CorrectionSizes : Correct(c, n)
  \/ SweepCollect
  \/ \E k \in Holds : SweepRelease(k)
  \/ SweepDies
  \/ \E full \in BOOLEAN, quota \in PlanQuotas : ChangeEntitlement(full, quota)
  \/ Tick

(* Celery beat starts the sweep every few minutes and redelivers it, so a  *)
(* sweep that keeps being startable starts, and does not die every time    *)
(* before it reaches a given reservation.                                  *)
Fairness ==
  /\ WF_vars(Tick)
  /\ WF_vars(SweepCollect)
  /\ \A k \in Holds : SF_vars(SweepRelease(k))

Spec     == Init /\ [][Next]_vars
FairSpec == Spec /\ Fairness
-----------------------------------------------------------------------------
(* Every row keeps its type, amounts included: the columns are unsigned. *)
Amounts == [Buckets -> Nat]
HoldRows ==
  [state : {"none", "reserved", "committed", "released"}, cost : Nat,
   quantity : Nat \ {0}, unit : Nat, amount : Amounts,
   period : Months \cup {NoPeriod}, deadline : Instants \cup {NoDeadline},
   settled : Nat \cup {Unsettled}]

TypeOK ==
  /\ now \in Instants /\ fullAccess \in BOOLEAN /\ planQuota \in PlanQuotas
  /\ remaining \in Amounts /\ reserved \in Amounts
  /\ granted \in Nat /\ period \in Months \cup {NoPeriod}
  /\ holds \in [Holds -> HoldRows]
  /\ purchases \in [Purchases -> [status : {"none", "pending", "succeeded"}, credits : Nat]]
  /\ sweep \subseteq Holds /\ sweepAt \in Instants
  /\ ledger \in [Buckets -> Int]
  /\ consumed \in [Holds -> Amounts] /\ refunded \in [Holds -> Amounts]
  /\ corrected \in [Corrections -> Int] /\ grantedIn \in [Months -> Nat]

(* The balance row is the cached sum of the ledger (credits.py:8-10): no   *)
(* path moves credits without the entry that says so, or writes an entry   *)
(* for credits it did not move.                                            *)
LedgerMatchesBalance == ledger = remaining

(* What is reserved on the balance is the sum of the open reservations: no *)
(* path drops a hold twice or forgets one, so no credit is stuck for good. *)
Held(b) == [k \in Holds |-> IF IsOpen(k) THEN holds[k].amount[b] ELSE 0]
ReservedIsHeld == \A b \in Buckets : reserved[b] = SumTo(Held(b), NumHolds)

(* The CHECK constraints of CreditBalance (models.py:1120-1127) never fire: *)
(* neither the end of a month nor a correction takes credits that are held. *)
ReservedWithinRemaining == \A b \in Buckets : reserved[b] <= remaining[b]

(* A reservation that ended spent exactly the units delivered, allowance   *)
(* first; one that is open or was released spent nothing.  An AI call that *)
(* times out bills nobody (credits.py:12-16), whatever raced with it.      *)
SpentIsDelivered ==
  \A k \in Holds :
    /\ consumed[k][Allowance] + consumed[k][Purchased] =
         IF holds[k].state = "committed" THEN holds[k].settled * holds[k].unit ELSE 0
    /\ \A b \in Buckets : consumed[k][b] <= holds[k].amount[b]
    /\ consumed[k][Purchased] > 0 => consumed[k][Allowance] = holds[k].amount[Allowance]

(* The allowance does not carry over (credits.py:3-6, ADR-069 pkt 23): the *)
(* bucket never holds more than this month's grant and what reservations   *)
(* of earlier months still hold.                                           *)
Carried ==
  [k \in Holds |-> IF IsOpen(k) /\ holds[k].period # period
                   THEN holds[k].amount[Allowance] ELSE 0]
NoAllowanceLeak == remaining[Allowance] <= granted + SumTo(Carried, NumHolds)

(* Reading the balance twice does not grant the allowance twice            *)
(* (tests/test_billing_credits.py): over a whole month an organization is  *)
(* granted at most what one of its plans allows.                           *)
GrantedOncePerMonth ==
  \A m \in Months : \E q \in PlanQuotas \cup {0} : grantedIn[m] <= q

(* A reservation with a deadline does not hold credits for ever: if nobody *)
(* settles it, a sweep that keeps running gives it back, although sweeps   *)
(* die, collect a bounded batch and race with the operation itself.        *)
DeadlinesFreeHolds ==
  \A k \in Holds :
    IsOpen(k) /\ holds[k].deadline # NoDeadline ~> ~IsOpen(k)

(* Purchased credits are a prepaid wallet: whatever months, plans, sweeps  *)
(* and partial settlements do to the allowance, credits that were paid for *)
(* come once per sale, however often the payment is confirmed, and are     *)
(* only held, spent within the hold, given back, or corrected.             *)
Wallet == INSTANCE PrepaidWallet WITH
  Sales <- Purchases,
  free  <- remaining[Purchased] - reserved[Purchased],
  state <- [k \in Holds |-> IF holds[k].state = "none" THEN "idle"
                            ELSE IF IsOpen(k) THEN "held" ELSE "closed"],
  held  <- Held(Purchased),
  spent <- [k \in Holds |-> consumed[k][Purchased]],
  bought   <- [p \in Purchases |->
                 IF purchases[p].status = "succeeded" THEN purchases[p].credits ELSE 0],
  adjusted <- corrected
PurchasedIsPrepaid == Wallet!Spec

(* A reservation is the price of a paid operation: held when it is asked   *)
(* for, charged when its caller reports a delivery or given back, once and *)
(* for good, whatever sweeps, months and repeated calls do.                *)
PriceOf(state) ==
  CASE state = "none"      -> "unasked" [] state = "reserved" -> "held"
    [] state = "committed" -> "charged" [] state = "released" -> "returned"
Contract == INSTANCE PaidOperation WITH
  Operations <- Holds,
  price      <- [k \in Holds |-> PriceOf(holds[k].state)],
  delivered  <- [k \in Holds |-> holds[k].settled > 0]
HoldsArePaidOperations == Contract!Spec
=============================================================================
