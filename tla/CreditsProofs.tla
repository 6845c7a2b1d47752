---------------------------- MODULE CreditsProofs ----------------------------
(***************************************************************************)
(* Proofs about Credits, for any number of reservations, purchases and     *)
(* corrections, any prices, plans and calendar, and any age of the clock   *)
(* readings.                                                               *)
(* First the soundness of the account; then, on top of it, what the        *)
(* account promises a customer: a reservation that ended cost what was     *)
(* delivered, purchased credits are a prepaid wallet, and what holds of    *)
(* the monthly allowance.                                                  *)
(***************************************************************************)
EXTENDS Credits, PrefixSumsProofs

(* The columns of a reservation agree (constraint billing_credit_          *)
(* reservation_split_ck): what is held in the two buckets is the price.    *)
HoldsAddUp ==
  \A k \in Holds :
    /\ holds[k].cost = holds[k].amount[Allowance] + holds[k].amount[Purchased]
    /\ holds[k].cost = holds[k].unit * holds[k].quantity

(* The inductive invariant.  None of its parts is inductive alone: that a  *)
(* balance column stays unsigned needs that no reservation exceeds what is *)
(* reserved, which needs that reserved is the sum of the open ones.        *)
AccountInv ==
  /\ TypeOK
  /\ HoldsAddUp
  /\ LedgerMatchesBalance
  /\ ReservedIsHeld
  /\ ReservedWithinRemaining
-----------------------------------------------------------------------------
(* Column by column, amounts add and subtract. *)
LEMMA AmountFacts ==
  /\ Buckets = {Allowance, Purchased} /\ Allowance # Purchased
  /\ \A a, p : /\ Split(a, p)[Allowance] = a /\ Split(a, p)[Purchased] = p
               /\ Split(a, p) = [b \in Buckets |-> Split(a, p)[b]]
  /\ \A f, g : \A b \in Buckets : /\ Plus(f, g)[b] = f[b] + g[b]
                                  /\ Minus(f, g)[b] = f[b] - g[b]
BY DEF Buckets, Allowance, Purchased, Split, Plus, Minus

(* Amounts are equal when they are equal in both buckets. *)
LEMMA AmountType ==
  ASSUME NEW a \in Nat, NEW p \in Nat
  PROVE  Split(a, p) \in Amounts
BY DEF Split, Amounts, Buckets, Allowance, Purchased

(* Every open reservation is covered by what is reserved. *)
LEMMA OpenHoldsFit ==
  ASSUME TypeOK, ReservedIsHeld
  PROVE  \A b \in Buckets :
           /\ Held(b) \in [Holds -> Nat]
           /\ \A k \in Holds : IsOpen(k) => holds[k].amount[b] <= reserved[b]
<1> SUFFICES ASSUME NEW b \in Buckets
             PROVE  /\ Held(b) \in [Holds -> Nat]
                    /\ \A k \in Holds : IsOpen(k) => holds[k].amount[b] <= reserved[b]
  OBVIOUS
<1>1. \A k \in Holds : holds[k].amount[b] \in Nat
  BY DEF TypeOK, HoldRows, Amounts
<1>2. Held(b) \in [1..NumHolds -> Nat]
  BY <1>1 DEF Held, Holds
<1>3. \A k \in 1..NumHolds : Held(b)[k] <= SumTo(Held(b), NumHolds)
  BY <1>2, SumToBounds, SizesAssumption
<1>4. \A k \in Holds : IsOpen(k) => Held(b)[k] = holds[k].amount[b]
  BY DEF Held
<1> QED
  BY <1>2, <1>3, <1>4 DEF ReservedIsHeld, Holds

(* A transaction on one reservation keeps the sum if it moves reserved by  *)
(* what it changes of that reservation.                                    *)
LEMMA OneHoldMoves ==
  ASSUME TypeOK, ReservedIsHeld, holds' \in [Holds -> HoldRows],
         NEW k \in Holds, \A j \in Holds : j # k => holds'[j] = holds[j],
         \A b \in Buckets : reserved'[b] = reserved[b] + Held(b)'[k] - Held(b)[k]
  PROVE  ReservedIsHeld'
<1> SUFFICES ASSUME NEW b \in Buckets
             PROVE  reserved'[b] = SumTo(Held(b)', NumHolds)
  BY DEF ReservedIsHeld
<1>1. \A j \in Holds : holds[j].amount[b] \in Nat /\ holds'[j].amount[b] \in Nat
  BY DEF TypeOK, HoldRows, Amounts
<1>2. Held(b) \in [1..NumHolds -> Int] /\ Held(b)' \in [1..NumHolds -> Int]
  BY <1>1 DEF Held, Holds
<1>3. \A j \in 1..NumHolds : j # k => Held(b)'[j] = Held(b)[j]
  BY DEF Held, Holds, IsOpen
<1>4. SumTo(Held(b)', NumHolds) = SumTo(Held(b), NumHolds) + Held(b)'[k] - Held(b)[k]
  BY <1>2, <1>3, SumToChange, SizesAssumption DEF Holds
<1> QED
  BY <1>4 DEF ReservedIsHeld

(* What a sync works with is unsigned and leaves what is held. *)
LEMMA SyncFacts ==
  ASSUME TypeOK, ReservedWithinRemaining, NEW t \in Instants
  PROVE  /\ Expiring(t) \in Nat /\ Missing(t) \in Nat /\ GrantedSoFar(t) \in Nat
         /\ remaining[Allowance] \in Nat /\ reserved[Allowance] \in Nat
         /\ remaining[Purchased] \in Nat /\ reserved[Purchased] \in Nat
         /\ reserved[Allowance] <= remaining[Allowance]
         /\ reserved[Purchased] <= remaining[Purchased]
         /\ Expiring(t) <= remaining[Allowance] - reserved[Allowance]
         /\ Synced(t) = remaining[Allowance] - Expiring(t) + Missing(t)
         /\ MonthOf[t] \in Months
<1>1. /\ remaining[Allowance] \in Nat /\ reserved[Allowance] \in Nat
      /\ remaining[Purchased] \in Nat /\ reserved[Purchased] \in Nat
      /\ reserved[Allowance] <= remaining[Allowance]
      /\ reserved[Purchased] <= remaining[Purchased]
  BY DEF TypeOK, Amounts, Buckets, ReservedWithinRemaining
<1>2. Expiring(t) \in Nat /\ Expiring(t) <= remaining[Allowance] - reserved[Allowance]
  BY <1>1 DEF Expiring
<1>3. AllowanceFor \in Nat /\ GrantedSoFar(t) \in Nat
  BY SizesAssumption DEF TypeOK, AllowanceFor, GrantedSoFar
<1>4. Missing(t) \in Nat
  BY <1>3 DEF Missing
<1> QED
  BY <1>1, <1>2, <1>3, <1>4 DEF Synced, Months

LEMMA SyncPeriodType ==
  ASSUME TypeOK, ReservedWithinRemaining, NEW t \in Instants, SyncPeriod(t)
  PROVE  granted' \in Nat /\ period' \in Months \cup {NoPeriod} /\ grantedIn' \in [Months -> Nat]
<1>1. Missing(t) \in Nat /\ GrantedSoFar(t) \in Nat /\ MonthOf[t] \in Months
  BY SyncFacts
<1> QED
  BY <1>1 DEF SyncPeriod, TypeOK

(* Two rows of amounts that agree on both buckets are the same row. *)
LEMMA SameAmounts ==
  ASSUME NEW f \in [Buckets -> Int], NEW g \in [Buckets -> Int],
         f[Allowance] = g[Allowance], f[Purchased] = g[Purchased]
  PROVE  f = g
BY DEF Buckets

(* Transactions that change no reservation. *)
LEMMA HoldsUntouched ==
  ASSUME AccountInv, UNCHANGED <<holds, reserved>>
  PROVE  HoldsAddUp' /\ ReservedIsHeld'
<1>1. HoldsAddUp'
  BY DEF AccountInv, HoldsAddUp
<1>2. \A b \in Buckets : Held(b)' = Held(b)
  BY DEF Held, IsOpen
<1> QED
  BY <1>1, <1>2 DEF AccountInv, ReservedIsHeld

(* Balance and ledger move together, and what is reserved stays covered:   *)
(* the facts each transaction has to supply about its new balance row.     *)
LEMMA Booked ==
  ASSUME AccountInv,
         remaining' \in [Buckets -> Int], ledger' \in [Buckets -> Int],
         reserved' \in [Buckets -> Int],
         \A b \in Buckets : ledger'[b] - ledger[b] = remaining'[b] - remaining[b],
         \A b \in Buckets : 0 <= reserved'[b] /\ reserved'[b] <= remaining'[b]
  PROVE  /\ remaining' \in Amounts /\ reserved' \in Amounts
         /\ LedgerMatchesBalance' /\ ReservedWithinRemaining'
<1>1. \A b \in Buckets : remaining[b] \in Int /\ ledger[b] = remaining[b]
  BY DEF AccountInv, TypeOK, Amounts, LedgerMatchesBalance
<1>2. \A b \in Buckets : remaining'[b] \in Int /\ ledger'[b] \in Int /\ reserved'[b] \in Int
  OBVIOUS
<1>3. \A b \in Buckets : ledger'[b] = remaining'[b]
  BY <1>1, <1>2
<1>4. LedgerMatchesBalance'
  BY <1>3, SameAmounts DEF LedgerMatchesBalance, Buckets
<1>5. \A b \in Buckets : remaining'[b] \in Nat /\ reserved'[b] \in Nat
  BY <1>2
<1>6. remaining' \in Amounts /\ reserved' \in Amounts
  BY <1>5 DEF Amounts
<1> QED
  BY <1>4, <1>6 DEF ReservedWithinRemaining

(* The balance in numbers, before a transaction. *)
LEMMA BalanceFacts ==
  ASSUME AccountInv
  PROVE  \A b \in Buckets :
           /\ remaining[b] \in Nat /\ reserved[b] \in Nat
           /\ reserved[b] <= remaining[b] /\ ledger[b] = remaining[b]
BY DEF AccountInv, TypeOK, Amounts, ReservedWithinRemaining, LedgerMatchesBalance

-----------------------------------------------------------------------------
LEMMA SummaryKeeps ==
  ASSUME AccountInv, NEW t \in Instants, Summary(t)
  PROVE  AccountInv'
<1>0. TypeOK /\ ReservedWithinRemaining
  BY DEF AccountInv
<1>1. /\ remaining'[Allowance] = Synced(t)
      /\ remaining'[Purchased] = remaining[Purchased]
      /\ remaining' \in [Buckets -> Int]
      /\ ledger'[Allowance] = ledger[Allowance] + (Missing(t) - Expiring(t))
      /\ ledger'[Purchased] = ledger[Purchased] + 0
      /\ ledger' \in [Buckets -> Int]
      /\ reserved' = reserved
  <2>1. Synced(t) \in Int /\ Missing(t) - Expiring(t) \in Int
    BY <1>0, SyncFacts
  <2> QED
    BY <1>0, <2>1
    DEF Summary, TypeOK, Amounts, Plus, SyncEntries, Split, Buckets, Allowance, Purchased
<1>2. /\ remaining' \in Amounts /\ reserved' \in Amounts
      /\ LedgerMatchesBalance' /\ ReservedWithinRemaining'
  <2>1. \A b \in Buckets : ledger'[b] - ledger[b] = remaining'[b] - remaining[b]
    BY <1>0, <1>1, BalanceFacts, SyncFacts DEF Buckets
  <2>2. \A b \in Buckets : 0 <= reserved'[b] /\ reserved'[b] <= remaining'[b]
    BY <1>0, <1>1, SyncFacts DEF Buckets
  <2>3. reserved' \in [Buckets -> Int]
    BY <1>0, <1>1 DEF TypeOK, Amounts
  <2> QED
    BY <1>1, <2>1, <2>2, <2>3, Booked
<1>3. HoldsAddUp' /\ ReservedIsHeld'
  BY HoldsUntouched DEF Summary
<1>4. TypeOK'
  <2>1. granted' \in Nat /\ period' \in Months \cup {NoPeriod} /\ grantedIn' \in [Months -> Nat]
    BY <1>0, SyncPeriodType DEF Summary
  <2> QED
    BY <1>0, <1>1, <1>2, <2>1 DEF TypeOK, Summary, sweepVars, worldVars
<1> QED
  BY <1>2, <1>3, <1>4 DEF AccountInv

LEMMA ReserveKeeps ==
  ASSUME AccountInv, NEW k \in Holds, NEW unit \in UnitCosts, NEW quantity \in Quantities,
         NEW deadline \in Instants \cup {NoDeadline}, NEW t \in Instants,
         Reserve(k, unit, quantity, deadline, t)
  PROVE  AccountInv'
<1>0. TypeOK /\ ReservedWithinRemaining
  BY DEF AccountInv
<1> DEFINE cost == unit * quantity
           a == Least(cost, FreeAllowance(t))
           p == cost - a
<1>1. cost \in Nat /\ a \in Nat /\ p \in Nat /\ cost = a + p
      /\ a <= Synced(t) - reserved[Allowance]
      /\ p <= remaining[Purchased] - reserved[Purchased]
  <2>1. unit \in Nat /\ quantity \in Nat
    BY SizesAssumption
  <2>2. cost \in Nat
    BY <2>1
  <2>3. FreeAllowance(t) \in Nat /\ FreeAllowance(t) = Synced(t) - reserved[Allowance]
    BY <1>0, SyncFacts DEF FreeAllowance
  <2>4. cost <= FreeAllowance(t) + (remaining[Purchased] - reserved[Purchased])
    BY DEF Reserve, FreePurchased
  <2> HIDE DEF cost
  <2> QED
    BY <1>0, <2>2, <2>3, <2>4, SyncFacts DEF Least
<1>2. /\ remaining' = [remaining EXCEPT ![Allowance] = Synced(t)]
      /\ reserved' = Plus(reserved, Split(a, p))
      /\ ledger' = Plus(ledger, SyncEntries(t))
      /\ SyncPeriod(t)
      /\ holds[k].state = "none"
      /\ holds' = [holds EXCEPT ![k] =
           [state |-> "reserved", cost |-> cost, quantity |-> quantity, unit |-> unit,
            amount |-> Split(a, p), period |-> MonthOf[t],
            deadline |-> deadline, settled |-> Unsettled]]
      /\ UNCHANGED <<now, fullAccess, planQuota, sweep, sweepAt, consumed, refunded,
                     corrected, purchases>>
  BY DEF Reserve, sweepVars, worldVars
<1> HIDE DEF a, p
<1>3. /\ remaining'[Allowance] = Synced(t) /\ remaining'[Purchased] = remaining[Purchased]
      /\ reserved'[Allowance] = reserved[Allowance] + a
      /\ reserved'[Purchased] = reserved[Purchased] + p
      /\ ledger'[Allowance] = ledger[Allowance] + (Missing(t) - Expiring(t))
      /\ ledger'[Purchased] = ledger[Purchased] + 0
      /\ remaining' \in [Buckets -> Int] /\ reserved' \in [Buckets -> Int]
      /\ ledger' \in [Buckets -> Int]
  <2>1. Synced(t) \in Int /\ Missing(t) - Expiring(t) \in Int
    BY <1>0, SyncFacts
  <2> QED
    BY <1>0, <1>1, <1>2, <2>1
    DEF TypeOK, Amounts, Plus, SyncEntries, Split, Buckets, Allowance, Purchased
<1>4. /\ remaining' \in Amounts /\ reserved' \in Amounts
      /\ LedgerMatchesBalance' /\ ReservedWithinRemaining'
  <2>1. \A b \in Buckets : ledger'[b] - ledger[b] = remaining'[b] - remaining[b]
    BY <1>0, <1>3, BalanceFacts, SyncFacts DEF Buckets
  <2>2. \A b \in Buckets : 0 <= reserved'[b] /\ reserved'[b] <= remaining'[b]
    BY <1>0, <1>1, <1>3, SyncFacts DEF Buckets
  <2> QED
    BY <1>3, <2>1, <2>2, Booked
<1>5. holds' \in [Holds -> HoldRows]
  <2>1. unit \in Nat /\ quantity \in Nat \ {0} /\ MonthOf[t] \in Months
    BY SizesAssumption DEF Months
  <2>2. Split(a, p) \in Amounts
    BY <1>1, AmountType
  <2> QED
    BY <1>0, <1>1, <1>2, <2>1, <2>2 DEF TypeOK, HoldRows
<1>6. /\ holds'[k].state = "reserved" /\ holds'[k].cost = cost
      /\ holds'[k].unit = unit /\ holds'[k].quantity = quantity
      /\ holds'[k].amount = Split(a, p)
      /\ \A j \in Holds : j # k => holds'[j] = holds[j]
  BY <1>0, <1>2 DEF TypeOK
<1>7. HoldsAddUp'
  BY <1>1, <1>6, AmountFacts DEF HoldsAddUp, AccountInv
<1>8. ReservedIsHeld'
  <2>1. \A b \in Buckets : Held(b)[k] = 0 /\ Held(b)'[k] = Split(a, p)[b]
    BY <1>2, <1>6 DEF Held, IsOpen
  <2>2. \A b \in Buckets : reserved'[b] = reserved[b] + Held(b)'[k] - Held(b)[k]
    BY <1>1, <1>3, <2>1, AmountFacts, BalanceFacts DEF Buckets
  <2> QED
    BY <1>0, <1>5, <1>6, <2>2, OneHoldMoves DEF AccountInv
<1>9. TypeOK'
  <2>1. granted' \in Nat /\ period' \in Months \cup {NoPeriod} /\ grantedIn' \in [Months -> Nat]
    BY <1>0, <1>2, SyncPeriodType
  <2> QED
    BY <1>0, <1>2, <1>3, <1>4, <1>5, <2>1 DEF TypeOK
<1> QED
  BY <1>4, <1>7, <1>8, <1>9 DEF AccountInv

(* Ending a reservation: its row keeps its columns, and reserved gives up  *)
(* exactly what it held.                                                   *)
LEMMA EndedHold ==
  ASSUME AccountInv, NEW k \in Holds, IsOpen(k),
         NEW state \in {"committed", "released"}, NEW quantity \in Nat,
         Settled(k, state, quantity),
         \A b \in Buckets : reserved'[b] = reserved[b] - holds[k].amount[b]
  PROVE  /\ holds' \in [Holds -> HoldRows]
         /\ HoldsAddUp' /\ ReservedIsHeld'
<1>0. TypeOK
  BY DEF AccountInv
<1>1. holds' \in [Holds -> HoldRows]
  <2>1. holds[k] \in HoldRows /\ holds \in [Holds -> HoldRows]
    BY <1>0 DEF TypeOK
  <2>2. [holds[k] EXCEPT !.state = state, !.settled = quantity] \in HoldRows
    BY <2>1 DEF HoldRows
  <2>3. holds' = [holds EXCEPT ![k] =
                   [holds[k] EXCEPT !.state = state, !.settled = quantity]]
    BY <2>1 DEF Settled
  <2> QED
    BY <2>1, <2>2, <2>3
<1>2. /\ \A j \in Holds : j # k => holds'[j] = holds[j]
      /\ holds'[k].state = state /\ holds'[k].cost = holds[k].cost
      /\ holds'[k].unit = holds[k].unit /\ holds'[k].quantity = holds[k].quantity
      /\ holds'[k].amount = holds[k].amount
  BY <1>0 DEF Settled, TypeOK, HoldRows
<1>3. HoldsAddUp'
  BY <1>2 DEF HoldsAddUp, AccountInv
<1>4. \A b \in Buckets : Held(b)[k] = holds[k].amount[b] /\ Held(b)'[k] = 0
  BY <1>2 DEF Held, IsOpen
<1>5. \A b \in Buckets : holds[k].amount[b] \in Nat /\ reserved[b] \in Nat
  BY <1>0 DEF TypeOK, HoldRows, Amounts
<1>6. \A b \in Buckets : reserved'[b] = reserved[b] + Held(b)'[k] - Held(b)[k]
  BY <1>4, <1>5
<1>7. ReservedIsHeld'
  BY <1>0, <1>1, <1>2, <1>6, OneHoldMoves DEF AccountInv
<1> QED
  BY <1>1, <1>3, <1>7

LEMMA CommitKeeps ==
  ASSUME AccountInv, NEW k \in Holds, NEW t \in Instants, Commit(k, t)
  PROVE  AccountInv'
<1>0. TypeOK
  BY DEF AccountInv
<1>1. \A b \in Buckets : /\ holds[k].amount[b] \in Nat
                         /\ holds[k].amount[b] <= reserved[b]
  BY <1>0, OpenHoldsFit DEF AccountInv, TypeOK, HoldRows, Amounts, Commit
<1>2. /\ \A b \in Buckets : /\ reserved'[b] = reserved[b] - holds[k].amount[b]
                            /\ remaining'[b] = remaining[b] - holds[k].amount[b]
                            /\ ledger'[b] = ledger[b] - holds[k].amount[b]
      /\ remaining' \in [Buckets -> Int] /\ reserved' \in [Buckets -> Int]
      /\ ledger' \in [Buckets -> Int]
  BY <1>1, BalanceFacts DEF Commit, Minus
<1>3. /\ remaining' \in Amounts /\ reserved' \in Amounts
      /\ LedgerMatchesBalance' /\ ReservedWithinRemaining'
  <2>1. \A b \in Buckets : ledger'[b] - ledger[b] = remaining'[b] - remaining[b]
    BY <1>1, <1>2, BalanceFacts
  <2>2. \A b \in Buckets : 0 <= reserved'[b] /\ reserved'[b] <= remaining'[b]
    BY <1>1, <1>2, BalanceFacts
  <2> QED
    BY <1>2, <2>1, <2>2, Booked
<1>4. holds' \in [Holds -> HoldRows] /\ HoldsAddUp' /\ ReservedIsHeld'
  <2>1. holds[k].quantity \in Nat
    BY <1>0 DEF TypeOK, HoldRows
  <2> QED
    BY <1>2, <2>1, EndedHold DEF Commit
<1>5. consumed' \in [Holds -> Amounts]
  <2>1. Plus(consumed[k], holds[k].amount) \in Amounts
    BY <1>0, <1>1 DEF TypeOK, Plus, Amounts
  <2> QED
    BY <1>0, <2>1 DEF Commit, TypeOK
<1>6. TypeOK'
  BY <1>0, <1>2, <1>3, <1>4, <1>5 DEF TypeOK, Commit, sweepVars, worldVars
<1> QED
  BY <1>3, <1>4, <1>6 DEF AccountInv

(* What release, settlement and the sweep have in common. *)
LEMMA SpendAndReleaseKeeps ==
  ASSUME AccountInv, NEW k \in Holds, NEW t \in Instants, IsOpen(k),
         NEW spent \in Amounts, \A b \in Buckets : spent[b] <= holds[k].amount[b],
         SpendAndRelease(k, spent, t),
         NEW state \in {"committed", "released"}, NEW quantity \in Nat,
         Settled(k, state, quantity)
  PROVE  /\ remaining' \in Amounts /\ reserved' \in Amounts /\ ledger' \in [Buckets -> Int]
         /\ LedgerMatchesBalance' /\ ReservedWithinRemaining'
         /\ holds' \in [Holds -> HoldRows] /\ HoldsAddUp' /\ ReservedIsHeld'
         /\ granted' \in Nat /\ period' \in Months \cup {NoPeriod}
         /\ grantedIn' \in [Months -> Nat]
<1>0. TypeOK /\ ReservedWithinRemaining
  BY DEF AccountInv
<1> DEFINE back == Minus(holds[k].amount, spent)
           lapsed == Lapsed(k, back, t)
<1>1. \A b \in Buckets : /\ holds[k].amount[b] \in Nat /\ spent[b] \in Nat
                         /\ spent[b] <= holds[k].amount[b]
                         /\ holds[k].amount[b] <= reserved[b]
                         /\ back[b] = holds[k].amount[b] - spent[b]
  BY <1>0, OpenHoldsFit DEF AccountInv, TypeOK, HoldRows, Amounts, Minus
<1>2. lapsed \in Nat /\ lapsed <= back[Allowance]
  BY <1>1 DEF Lapsed, Buckets
<1>3. /\ reserved' = Minus(Minus(reserved, spent), back)
      /\ remaining' = Plus(Minus(remaining, spent),
                           Split(Missing(t) - Expiring(t) - lapsed, 0))
      /\ ledger' = Plus(Minus(ledger, spent), Plus(SyncEntries(t), Split(0 - lapsed, 0)))
      /\ SyncPeriod(t)
  BY DEF SpendAndRelease
<1> HIDE DEF lapsed
<1>4. /\ \A b \in Buckets : reserved'[b] = (reserved[b] - spent[b]) - back[b]
      /\ remaining'[Allowance] =
           (remaining[Allowance] - spent[Allowance]) + (Missing(t) - Expiring(t) - lapsed)
      /\ remaining'[Purchased] = (remaining[Purchased] - spent[Purchased]) + 0
      /\ ledger'[Allowance] =
           (ledger[Allowance] - spent[Allowance]) + ((Missing(t) - Expiring(t)) + (0 - lapsed))
      /\ ledger'[Purchased] = (ledger[Purchased] - spent[Purchased]) + (0 + 0)
  BY <1>3, AmountFacts
  DEF SyncEntries, Plus, Minus, Split, Buckets, Allowance, Purchased
<1> HIDE DEF back
<1>5. /\ remaining' \in [Buckets -> Int] /\ reserved' \in [Buckets -> Int]
      /\ ledger' \in [Buckets -> Int]
  <2>1. \A b \in Buckets : reserved'[b] \in Int
    BY <1>1, <1>4, BalanceFacts
  <2>2. \A b \in Buckets : remaining'[b] \in Int /\ ledger'[b] \in Int
    BY <1>0, <1>1, <1>2, <1>4, BalanceFacts, SyncFacts DEF Buckets
  <2> QED
    BY <1>3, <2>1, <2>2 DEF Plus, Minus
<1>6. \A b \in Buckets : ledger'[b] - ledger[b] = remaining'[b] - remaining[b]
  BY <1>0, <1>1, <1>2, <1>4, BalanceFacts, SyncFacts DEF Buckets
<1>7. \A b \in Buckets : 0 <= reserved'[b] /\ reserved'[b] <= remaining'[b]
  <2>1. 0 <= reserved'[Allowance] /\ reserved'[Allowance] <= remaining'[Allowance]
    BY <1>0, <1>1, <1>2, <1>4, SyncFacts DEF Buckets
  <2>2. 0 <= reserved'[Purchased] /\ reserved'[Purchased] <= remaining'[Purchased]
    BY <1>0, <1>1, <1>4, SyncFacts DEF Buckets
  <2> QED
    BY <2>1, <2>2 DEF Buckets
<1>8. /\ remaining' \in Amounts /\ reserved' \in Amounts
      /\ LedgerMatchesBalance' /\ ReservedWithinRemaining'
  BY <1>5, <1>6, <1>7, Booked
<1>9. \A b \in Buckets : reserved'[b] = reserved[b] - holds[k].amount[b]
  BY <1>1, <1>4, BalanceFacts
<1>10. holds' \in [Holds -> HoldRows] /\ HoldsAddUp' /\ ReservedIsHeld'
  BY <1>9, EndedHold
<1>11. granted' \in Nat /\ period' \in Months \cup {NoPeriod} /\ grantedIn' \in [Months -> Nat]
  BY <1>0, <1>3, SyncPeriodType
<1> QED
  BY <1>5, <1>8, <1>10, <1>11

LEMMA ReleaseKeeps ==
  ASSUME AccountInv, NEW k \in Holds, NEW t \in Instants, Release(k, t)
  PROVE  AccountInv'
<1>0. TypeOK
  BY DEF AccountInv
<1>1. Nothing \in Amounts /\ \A b \in Buckets : Nothing[b] <= holds[k].amount[b]
  BY <1>0 DEF TypeOK, HoldRows, Amounts, Nothing, Split
<1>2. /\ IsOpen(k) /\ SpendAndRelease(k, Nothing, t) /\ Settled(k, "released", 0)
      /\ UNCHANGED <<consumed, refunded, corrected, purchases, sweep, sweepAt,
                     now, fullAccess, planQuota>>
  BY DEF Release, sweepVars, worldVars
<1>3. /\ remaining' \in Amounts /\ reserved' \in Amounts /\ ledger' \in [Buckets -> Int]
      /\ LedgerMatchesBalance' /\ ReservedWithinRemaining'
      /\ holds' \in [Holds -> HoldRows] /\ HoldsAddUp' /\ ReservedIsHeld'
      /\ granted' \in Nat /\ period' \in Months \cup {NoPeriod}
      /\ grantedIn' \in [Months -> Nat]
  BY <1>1, <1>2, SpendAndReleaseKeeps
<1>4. TypeOK'
  BY <1>0, <1>2, <1>3 DEF TypeOK
<1> QED
  BY <1>3, <1>4 DEF AccountInv

(* What a settlement spends is part of what is held, in each bucket. *)
LEMMA SettlementFits ==
  ASSUME AccountInv, NEW k \in Holds, NEW quantity \in Nat,
         NEW delivered, delivered = Least(quantity, holds[k].quantity),
         NEW cost, cost = Least(delivered * holds[k].unit, holds[k].cost),
         NEW fromAllowance, fromAllowance = Least(cost, holds[k].amount[Allowance])
  PROVE  /\ delivered \in Nat
         /\ delivered * holds[k].unit \in Nat
         /\ cost \in Nat /\ fromAllowance \in Nat /\ cost - fromAllowance \in Nat
         /\ fromAllowance <= holds[k].amount[Allowance]
         /\ cost - fromAllowance <= holds[k].amount[Purchased]
         /\ cost - fromAllowance > 0 => fromAllowance = holds[k].amount[Allowance]
<1>1. /\ holds[k].quantity \in Nat /\ holds[k].unit \in Nat /\ holds[k].cost \in Nat
      /\ holds[k].amount[Allowance] \in Nat /\ holds[k].amount[Purchased] \in Nat
      /\ holds[k].cost = holds[k].amount[Allowance] + holds[k].amount[Purchased]
  BY DEF AccountInv, TypeOK, HoldRows, Amounts, Buckets, HoldsAddUp
<1>2. delivered \in Nat
  BY <1>1 DEF Least
<1>3. delivered * holds[k].unit \in Nat
  BY <1>1, <1>2
<1>4. cost \in Nat /\ cost <= holds[k].cost
  BY <1>1, <1>3 DEF Least
<1> QED
  BY <1>1, <1>2, <1>3, <1>4 DEF Least

LEMMA SettleKeeps ==
  ASSUME AccountInv, NEW k \in Holds, NEW quantity \in Nat, NEW t \in Instants,
         Settle(k, quantity, t)
  PROVE  AccountInv'
<1>0. TypeOK
  BY DEF AccountInv
<1> DEFINE delivered == Least(quantity, holds[k].quantity)
           cost == Least(delivered * holds[k].unit, holds[k].cost)
           fromAllowance == Least(cost, holds[k].amount[Allowance])
           spent == Split(fromAllowance, cost - fromAllowance)
           state == IF delivered > 0 THEN "committed" ELSE "released"
<1>1. /\ delivered \in Nat /\ fromAllowance \in Nat /\ cost - fromAllowance \in Nat
      /\ fromAllowance <= holds[k].amount[Allowance]
      /\ cost - fromAllowance <= holds[k].amount[Purchased]
  BY SettlementFits
<1>2. spent \in Amounts /\ \A b \in Buckets : spent[b] <= holds[k].amount[b]
  BY <1>1, AmountType DEF Split, Buckets, Allowance, Purchased
<1>3. /\ IsOpen(k) /\ SpendAndRelease(k, spent, t) /\ Settled(k, state, delivered)
      /\ consumed' = [consumed EXCEPT ![k] = Plus(@, spent)]
      /\ UNCHANGED <<refunded, corrected, purchases, sweep, sweepAt,
                     now, fullAccess, planQuota>>
  BY DEF Settle, sweepVars, worldVars
<1>4. state \in {"committed", "released"}
  OBVIOUS
<1> HIDE DEF spent, delivered, state
<1>5. /\ remaining' \in Amounts /\ reserved' \in Amounts /\ ledger' \in [Buckets -> Int]
      /\ LedgerMatchesBalance' /\ ReservedWithinRemaining'
      /\ holds' \in [Holds -> HoldRows] /\ HoldsAddUp' /\ ReservedIsHeld'
      /\ granted' \in Nat /\ period' \in Months \cup {NoPeriod}
      /\ grantedIn' \in [Months -> Nat]
  BY <1>1, <1>2, <1>3, <1>4, SpendAndReleaseKeeps
<1>6. consumed' \in [Holds -> Amounts]
  <2>1. Plus(consumed[k], spent) \in Amounts
    BY <1>0, <1>2 DEF TypeOK, Plus, Amounts
  <2> QED
    BY <1>0, <1>3, <2>1 DEF TypeOK
<1>7. TypeOK'
  BY <1>0, <1>3, <1>5, <1>6 DEF TypeOK
<1> QED
  BY <1>5, <1>7 DEF AccountInv

LEMMA SweepReleaseKeeps ==
  ASSUME AccountInv, NEW k \in Holds, SweepRelease(k)
  PROVE  AccountInv'
<1>0. TypeOK
  BY DEF AccountInv
<1>1. sweep' \subseteq Holds /\ sweepAt \in Instants
  BY <1>0 DEF SweepRelease, TypeOK
<1>2. UNCHANGED <<sweepAt, now, fullAccess, planQuota, consumed, refunded, corrected, purchases>>
  BY DEF SweepRelease, worldVars
<1>3. CASE IsOpen(k)
  <2>1. Nothing \in Amounts /\ \A b \in Buckets : Nothing[b] <= holds[k].amount[b]
    BY <1>0 DEF TypeOK, HoldRows, Amounts, Nothing, Split
  <2>2. SpendAndRelease(k, Nothing, sweepAt) /\ Settled(k, "released", 0)
    BY <1>3 DEF SweepRelease
  <2>3. /\ remaining' \in Amounts /\ reserved' \in Amounts /\ ledger' \in [Buckets -> Int]
        /\ LedgerMatchesBalance' /\ ReservedWithinRemaining'
        /\ holds' \in [Holds -> HoldRows] /\ HoldsAddUp' /\ ReservedIsHeld'
        /\ granted' \in Nat /\ period' \in Months \cup {NoPeriod}
        /\ grantedIn' \in [Months -> Nat]
    BY <1>1, <1>3, <2>1, <2>2, SpendAndReleaseKeeps
  <2>4. TypeOK'
    BY <1>0, <1>1, <1>2, <2>3 DEF TypeOK
  <2> QED
    BY <2>3, <2>4 DEF AccountInv
<1>4. CASE ~IsOpen(k)
  <2>1. UNCHANGED <<balanceRow, ledger, grantedIn, holds>>
    BY <1>4 DEF SweepRelease
  <2>2. HoldsAddUp' /\ ReservedIsHeld'
    BY <2>1, HoldsUntouched DEF balanceRow
  <2>3. TypeOK' /\ LedgerMatchesBalance' /\ ReservedWithinRemaining'
    BY <1>1, <1>2, <2>1 DEF AccountInv, TypeOK, balanceRow, LedgerMatchesBalance,
                            ReservedWithinRemaining
  <2> QED
    BY <2>2, <2>3 DEF AccountInv
<1> QED
  BY <1>3, <1>4

(* Entries that add to the balance outside a reservation: refund, purchase, *)
(* correction.                                                              *)
LEMMA PostingKeeps ==
  ASSUME AccountInv, UNCHANGED <<reserved, holds>>,
         NEW amount \in [Buckets -> Int],
         \A b \in Buckets : remaining[b] + amount[b] >= reserved[b],
         remaining' = Plus(remaining, amount), ledger' = Plus(ledger, amount)
  PROVE  /\ remaining' \in Amounts /\ reserved' \in Amounts /\ ledger' \in [Buckets -> Int]
         /\ LedgerMatchesBalance' /\ ReservedWithinRemaining'
         /\ HoldsAddUp' /\ ReservedIsHeld'
<1>1. \A b \in Buckets : /\ remaining'[b] = remaining[b] + amount[b]
                         /\ ledger'[b] = ledger[b] + amount[b]
                         /\ reserved'[b] = reserved[b]
                         /\ amount[b] \in Int
  BY DEF Plus
<1>2. /\ remaining' \in [Buckets -> Int] /\ ledger' \in [Buckets -> Int]
      /\ reserved' \in [Buckets -> Int]
  <2>1. \A b \in Buckets : remaining[b] + amount[b] \in Int /\ ledger[b] + amount[b] \in Int
    BY BalanceFacts
  <2> QED
    BY <2>1 DEF Plus, AccountInv, TypeOK, Amounts
<1>3. \A b \in Buckets : ledger'[b] - ledger[b] = remaining'[b] - remaining[b]
  BY <1>1, BalanceFacts
<1>4. \A b \in Buckets : 0 <= reserved'[b] /\ reserved'[b] <= remaining'[b]
  BY <1>1, BalanceFacts
<1>5. HoldsAddUp' /\ ReservedIsHeld'
  BY HoldsUntouched
<1>6. /\ remaining' \in Amounts /\ reserved' \in Amounts
      /\ LedgerMatchesBalance' /\ ReservedWithinRemaining'
  BY <1>2, <1>3, <1>4, Booked
<1> QED
  BY <1>2, <1>5, <1>6

LEMMA RefundKeeps ==
  ASSUME AccountInv, NEW k \in Holds, Refund(k)
  PROVE  AccountInv'
<1>1. holds[k].amount \in Amounts
  BY DEF AccountInv, TypeOK, HoldRows
<1>2. \A b \in Buckets : remaining[b] + holds[k].amount[b] >= reserved[b]
  BY <1>1, BalanceFacts DEF Amounts
<1>3. holds[k].amount \in [Buckets -> Int]
  BY <1>1 DEF Amounts
<1>4. /\ remaining' \in Amounts /\ reserved' \in Amounts /\ ledger' \in [Buckets -> Int]
      /\ LedgerMatchesBalance' /\ ReservedWithinRemaining'
      /\ HoldsAddUp' /\ ReservedIsHeld'
  BY <1>2, <1>3, PostingKeeps DEF Refund
<1>5. TypeOK'
  BY <1>1, <1>4 DEF AccountInv, TypeOK, Refund, sweepVars, worldVars
<1> QED
  BY <1>4, <1>5 DEF AccountInv

LEMMA CompletePurchaseKeeps ==
  ASSUME AccountInv, NEW p \in Purchases, CompletePurchase(p)
  PROVE  AccountInv'
<1> DEFINE amount == Split(0, purchases[p].credits)
<1>1. purchases[p].credits \in Nat
  BY DEF AccountInv, TypeOK
<1>2. amount \in [Buckets -> Int]
  BY <1>1 DEF Split
<1>3. \A b \in Buckets : remaining[b] + amount[b] >= reserved[b]
  BY <1>1, BalanceFacts DEF Split
<1>4. /\ remaining' \in Amounts /\ reserved' \in Amounts /\ ledger' \in [Buckets -> Int]
      /\ LedgerMatchesBalance' /\ ReservedWithinRemaining'
      /\ HoldsAddUp' /\ ReservedIsHeld'
  BY <1>2, <1>3, PostingKeeps DEF CompletePurchase
<1>5. TypeOK'
  BY <1>4 DEF AccountInv, TypeOK, CompletePurchase, sweepVars, worldVars
<1> QED
  BY <1>4, <1>5 DEF AccountInv

LEMMA CorrectKeeps ==
  ASSUME AccountInv, NEW c \in Corrections, NEW credits \in CorrectionSizes,
         Correct(c, credits)
  PROVE  AccountInv'
<1> DEFINE amount == Split(0, credits)
<1>1. credits \in Int
  BY SizesAssumption
<1>2. amount \in [Buckets -> Int]
  BY <1>1 DEF Split
<1>3. \A b \in Buckets : remaining[b] + amount[b] >= reserved[b]
  BY <1>1, BalanceFacts DEF FreePurchased, Split, Correct, Buckets
<1>4. /\ remaining' \in Amounts /\ reserved' \in Amounts /\ ledger' \in [Buckets -> Int]
      /\ LedgerMatchesBalance' /\ ReservedWithinRemaining'
      /\ HoldsAddUp' /\ ReservedIsHeld'
  BY <1>2, <1>3, PostingKeeps DEF Correct
<1>5. TypeOK'
  BY <1>1, <1>4 DEF AccountInv, TypeOK, Correct, sweepVars, worldVars
<1> QED
  BY <1>4, <1>5 DEF AccountInv

(* The steps that leave the account alone. *)
LEMMA OthersKeep ==
  ASSUME AccountInv,
         \/ \E p \in Purchases, c \in Packs : StartPurchase(p, c)
         \/ SweepCollect
         \/ SweepDies
         \/ \E full \in BOOLEAN, quota \in PlanQuotas : ChangeEntitlement(full, quota)
         \/ Tick
         \/ UNCHANGED vars
  PROVE  AccountInv'
<1>1. UNCHANGED <<balanceRow, ledgerRows, holds>>
  BY DEF StartPurchase, SweepCollect, SweepDies, ChangeEntitlement, Tick, vars
<1>2. HoldsAddUp' /\ ReservedIsHeld'
  BY <1>1, HoldsUntouched DEF balanceRow
<1>3. LedgerMatchesBalance' /\ ReservedWithinRemaining'
  BY <1>1 DEF AccountInv, balanceRow, ledgerRows, LedgerMatchesBalance, ReservedWithinRemaining
<1>4. /\ now' \in Instants /\ fullAccess' \in BOOLEAN /\ planQuota' \in PlanQuotas
      /\ sweep' \subseteq Holds /\ sweepAt' \in Instants
      /\ purchases' \in [Purchases -> [status : {"none", "pending", "succeeded"}, credits : Nat]]
  <2>1. TypeOK
    BY DEF AccountInv
  <2>2. CASE \E p \in Purchases, c \in Packs : StartPurchase(p, c)
    BY <2>1, <2>2, SizesAssumption DEF TypeOK, StartPurchase, sweepVars, worldVars
  <2>3. CASE SweepCollect
    BY <2>1, <2>3 DEF TypeOK, SweepCollect, worldVars, DueHolds
  <2>4. CASE SweepDies
    BY <2>1, <2>4 DEF TypeOK, SweepDies, worldVars
  <2>5. CASE \E full \in BOOLEAN, quota \in PlanQuotas : ChangeEntitlement(full, quota)
    BY <2>1, <2>5 DEF TypeOK, ChangeEntitlement, sweepVars
  <2>6. CASE Tick
    BY <2>1, <2>6, SizesAssumption DEF TypeOK, Tick, sweepVars, Instants
  <2>7. CASE UNCHANGED vars
    BY <2>1, <2>7 DEF TypeOK, vars, sweepVars, worldVars
  <2> QED
    BY <2>2, <2>3, <2>4, <2>5, <2>6, <2>7
<1>5. TypeOK'
  BY <1>1, <1>4 DEF AccountInv, TypeOK, balanceRow, ledgerRows
<1> QED
  BY <1>2, <1>3, <1>5 DEF AccountInv
-----------------------------------------------------------------------------
LEMMA InitAccount == Init => AccountInv
<1> SUFFICES ASSUME Init PROVE AccountInv
  OBVIOUS
<1>1. Nothing \in Amounts /\ \A b \in Buckets : Nothing[b] = 0
  BY AmountType DEF Nothing, Split
<1>2. NoHold \in HoldRows
  BY <1>1 DEF NoHold, HoldRows
<1>3. TypeOK
  <2>1. 0 \in Instants
    BY SizesAssumption DEF Instants
  <2>2. Nothing \in [Buckets -> Int]
    BY <1>1 DEF Amounts
  <2> QED
    BY <1>1, <1>2, <2>1, <2>2 DEF Init, TypeOK
<1>4. HoldsAddUp
  BY <1>1 DEF HoldsAddUp, Init, NoHold, Buckets
<1>5. ReservedIsHeld
  <2> SUFFICES ASSUME NEW b \in Buckets PROVE reserved[b] = SumTo(Held(b), NumHolds)
    BY DEF ReservedIsHeld
  <2>1. Held(b) \in [1..NumHolds -> Int] /\ \A k \in 1..NumHolds : Held(b)[k] = 0
    BY DEF Held, Holds, IsOpen, Init, NoHold
  <2>2. SumTo(Held(b), NumHolds) = 0
    BY <2>1, SumToZero, SizesAssumption
  <2> QED
    BY <1>1, <2>2 DEF Init
<1>6. LedgerMatchesBalance /\ ReservedWithinRemaining
  BY <1>1 DEF LedgerMatchesBalance, ReservedWithinRemaining, Init
<1> QED
  BY <1>3, <1>4, <1>5, <1>6 DEF AccountInv

LEMMA NextAccount == AccountInv /\ [Next]_vars => AccountInv'
<1> SUFFICES ASSUME AccountInv, [Next]_vars PROVE AccountInv'
  OBVIOUS
<1>0. Readings \subseteq Instants
  BY DEF Readings
<1>1. CASE \E t \in Readings : Summary(t)
  BY <1>0, <1>1, SummaryKeeps
<1>2. CASE \E k \in Holds, u \in UnitCosts, q \in Quantities, t \in Readings :
             \E d \in Instants \cup {NoDeadline} : Reserve(k, u, q, d, t)
  BY <1>0, <1>2, ReserveKeeps
<1>3. CASE \E k \in Holds, t \in Readings : Commit(k, t)
  BY <1>0, <1>3, CommitKeeps
<1>4. CASE \E k \in Holds, t \in Readings : Release(k, t)
  BY <1>0, <1>4, ReleaseKeeps
<1>5. CASE \E k \in Holds, q \in Quantities \cup {0}, t \in Readings : Settle(k, q, t)
  <2>1. \A q \in Quantities \cup {0} : q \in Nat
    BY SizesAssumption
  <2> QED
    BY <1>0, <1>5, <2>1, SettleKeeps
<1>6. CASE \E k \in Holds : Refund(k)
  BY <1>6, RefundKeeps
<1>7. CASE \E p \in Purchases : CompletePurchase(p)
  BY <1>7, CompletePurchaseKeeps
<1>8. CASE \E c \in Corrections, n \in CorrectionSizes : Correct(c, n)
  BY <1>8, CorrectKeeps
<1>9. CASE \E k \in Holds : SweepRelease(k)
  BY <1>9, SweepReleaseKeeps
<1>10. CASE \/ \E p \in Purchases, c \in Packs : StartPurchase(p, c)
            \/ SweepCollect
            \/ SweepDies
            \/ \E full \in BOOLEAN, quota \in PlanQuotas : ChangeEntitlement(full, quota)
            \/ Tick
            \/ UNCHANGED vars
  BY <1>10, OthersKeep
<1> QED
  BY <1>1, <1>2, <1>3, <1>4, <1>5, <1>6, <1>7, <1>8, <1>9, <1>10 DEF Next

(* The invariant holds of every state, whatever the plans, prices, months  *)
(* and races, however old the clock a transaction or a sweep works with,   *)
(* and with refunds or without.                                            *)
THEOREM AccountInvariant == Spec => []AccountInv
BY InitAccount, NextAccount, PTL DEF Spec

(* The columns of an account stay unsigned. *)
THEOREM TypeCorrect == Spec => []TypeOK
<1>1. AccountInv => TypeOK
  BY DEF AccountInv
<1> QED BY <1>1, AccountInvariant, PTL

(* The ledger, written by ten operations, adds up to the balance.          *)
THEOREM LedgerAddsUp == Spec => []LedgerMatchesBalance
<1>1. AccountInv => LedgerMatchesBalance
  BY DEF AccountInv
<1> QED BY <1>1, AccountInvariant, PTL

(* What is reserved is what open reservations hold: no release is lost or  *)
(* done twice, whichever of commit, failure and sweep is first.            *)
THEOREM ReservedIsWhatIsHeld == Spec => []ReservedIsHeld
<1>1. AccountInv => ReservedIsHeld
  BY DEF AccountInv
<1> QED BY <1>1, AccountInvariant, PTL

(* What a reservation holds is there when it is charged, over the turn of  *)
(* the month and under corrections too.                                    *)
THEOREM HeldCreditsAreThere == Spec => []ReservedWithinRemaining
<1>1. AccountInv => ReservedWithinRemaining
  BY DEF AccountInv
<1> QED BY <1>1, AccountInvariant, PTL
-----------------------------------------------------------------------------
(* A transaction on reservation k leaves what the others cost. *)
LEMMA OthersCostTheSame ==
  ASSUME TypeOK, SpentIsDelivered, NEW k \in Holds,
         \A j \in Holds : j # k => holds'[j] = holds[j] /\ consumed'[j] = consumed[j],
         /\ consumed'[k][Allowance] + consumed'[k][Purchased] =
              IF holds'[k].state = "committed" THEN holds'[k].settled * holds'[k].unit ELSE 0
         /\ \A b \in Buckets : consumed'[k][b] <= holds'[k].amount[b]
         /\ consumed'[k][Purchased] > 0 => consumed'[k][Allowance] = holds'[k].amount[Allowance]
  PROVE  SpentIsDelivered'
BY DEF SpentIsDelivered

(* Nothing was spent of a reservation that is not committed. *)
LEMMA NothingSpentYet ==
  ASSUME TypeOK, SpentIsDelivered, NEW k \in Holds, holds[k].state # "committed"
  PROVE  \A b \in Buckets : consumed[k][b] = 0
<1>1. consumed[k][Allowance] \in Nat /\ consumed[k][Purchased] \in Nat
  BY DEF TypeOK, Amounts, Buckets
<1>2. consumed[k][Allowance] + consumed[k][Purchased] = 0
  BY DEF SpentIsDelivered
<1> QED
  BY <1>1, <1>2 DEF Buckets

(* Units that fit in a reservation cost no more than it holds. *)
LEMMA PriceMonotone ==
  ASSUME NEW d \in Nat, NEW q \in Nat, NEW u \in Nat, d <= q
  PROVE  d * u <= u * q
<1>1. PICK e \in Nat : q = d + e
  <2>1. q - d \in Nat /\ q = d + (q - d)
    OBVIOUS
  <2> QED
    BY <2>1
<1>2. u * q = u * d + u * e
  BY <1>1
<1>3. u * e >= 0 /\ u * d = d * u /\ u * d \in Nat /\ u * e \in Nat
  OBVIOUS
<1> QED
  BY <1>2, <1>3

LEMMA ReserveCosts ==
  ASSUME AccountInv, AccountInv', SpentIsDelivered, NEW k \in Holds,
         NEW unit, NEW quantity, NEW deadline, NEW t,
         Reserve(k, unit, quantity, deadline, t)
  PROVE  SpentIsDelivered'
<1>0. TypeOK /\ TypeOK'
  BY DEF AccountInv
<1>1. /\ holds[k].state = "none" /\ holds'[k].state = "reserved"
      /\ \A j \in Holds : j # k => holds'[j] = holds[j]
      /\ consumed' = consumed
  BY <1>0 DEF Reserve, TypeOK
<1>2. \A b \in Buckets : consumed'[k][b] = 0
  BY <1>0, <1>1, NothingSpentYet
<1>3. \A b \in Buckets : holds'[k].amount[b] \in Nat
  BY <1>0 DEF TypeOK, HoldRows, Amounts
<1> QED
  BY <1>0, <1>1, <1>2, <1>3, OthersCostTheSame DEF Buckets

LEMMA CommitCosts ==
  ASSUME AccountInv, SpentIsDelivered, NEW k \in Holds, NEW t, Commit(k, t)
  PROVE  SpentIsDelivered'
<1>0. TypeOK
  BY DEF AccountInv
<1>1. /\ holds'[k].state = "committed" /\ holds'[k].settled = holds[k].quantity
      /\ holds'[k].unit = holds[k].unit /\ holds'[k].amount = holds[k].amount
      /\ \A j \in Holds : j # k => holds'[j] = holds[j] /\ consumed'[j] = consumed[j]
      /\ consumed'[k] = Plus(consumed[k], holds[k].amount)
  BY <1>0 DEF Commit, Settled, TypeOK, HoldRows
<1>2. \A b \in Buckets : consumed[k][b] = 0
  BY <1>0, NothingSpentYet DEF Commit, IsOpen
<1>3. \A b \in Buckets : holds[k].amount[b] \in Nat
  BY <1>0 DEF TypeOK, HoldRows, Amounts
<1>4. \A b \in Buckets : consumed'[k][b] = holds[k].amount[b]
  BY <1>1, <1>2, <1>3 DEF Plus
<1>5. holds[k].amount[Allowance] + holds[k].amount[Purchased] = holds[k].quantity * holds[k].unit
  <2>1. holds[k].unit \in Nat /\ holds[k].quantity \in Nat
    BY <1>0 DEF TypeOK, HoldRows
  <2>2. holds[k].unit * holds[k].quantity = holds[k].quantity * holds[k].unit
    BY <2>1
  <2> QED
    BY <2>2 DEF AccountInv, HoldsAddUp
<1> QED
  BY <1>0, <1>1, <1>3, <1>4, <1>5, OthersCostTheSame DEF Buckets

LEMMA SettleCosts ==
  ASSUME AccountInv, SpentIsDelivered, NEW k \in Holds, NEW quantity \in Nat, NEW t,
         Settle(k, quantity, t)
  PROVE  SpentIsDelivered'
<1>0. TypeOK
  BY DEF AccountInv
<1> DEFINE delivered == Least(quantity, holds[k].quantity)
           cost == Least(delivered * holds[k].unit, holds[k].cost)
           fromAllowance == Least(cost, holds[k].amount[Allowance])
           spent == Split(fromAllowance, cost - fromAllowance)
           state == IF delivered > 0 THEN "committed" ELSE "released"
<1>1. /\ delivered \in Nat /\ cost \in Nat /\ fromAllowance \in Nat /\ cost - fromAllowance \in Nat
      /\ fromAllowance <= holds[k].amount[Allowance]
      /\ cost - fromAllowance <= holds[k].amount[Purchased]
      /\ cost - fromAllowance > 0 => fromAllowance = holds[k].amount[Allowance]
  BY SettlementFits
<1>2. cost = delivered * holds[k].unit
  <2>1. holds[k].quantity \in Nat /\ holds[k].unit \in Nat /\ delivered <= holds[k].quantity
    BY <1>0 DEF TypeOK, HoldRows, Least
  <2>2. delivered * holds[k].unit <= holds[k].cost
    BY <1>1, <2>1, PriceMonotone DEF AccountInv, HoldsAddUp
  <2> QED
    BY <2>2 DEF Least
<1>3. /\ holds'[k].state = state /\ holds'[k].settled = delivered
      /\ holds'[k].unit = holds[k].unit /\ holds'[k].amount = holds[k].amount
      /\ \A j \in Holds : j # k => holds'[j] = holds[j] /\ consumed'[j] = consumed[j]
      /\ consumed'[k] = Plus(consumed[k], spent)
  BY <1>0 DEF Settle, Settled, TypeOK, HoldRows
<1>4. \A b \in Buckets : consumed[k][b] = 0
  BY <1>0, NothingSpentYet DEF Settle, IsOpen
<1>5. consumed'[k][Allowance] = fromAllowance /\ consumed'[k][Purchased] = cost - fromAllowance
  BY <1>1, <1>3, <1>4, AmountFacts DEF Buckets
<1>6. cost = IF state = "committed" THEN delivered * holds[k].unit ELSE 0
  <2>1. CASE delivered > 0
    BY <1>2, <2>1
  <2>2. CASE delivered = 0
    <3>1. holds[k].unit \in Nat
      BY <1>0 DEF TypeOK, HoldRows
    <3> QED
      BY <1>2, <2>2, <3>1
  <2> QED
    BY <1>1, <2>1, <2>2
<1> HIDE DEF delivered, cost, fromAllowance, state
<1>7. fromAllowance + (cost - fromAllowance) = cost
  BY <1>1
<1> QED
  BY <1>0, <1>1, <1>3, <1>5, <1>6, <1>7, OthersCostTheSame DEF Buckets

(* Release and the sweep end a reservation that spent nothing. *)
LEMMA ReleaseCosts ==
  ASSUME AccountInv, SpentIsDelivered, NEW k \in Holds, IsOpen(k),
         Settled(k, "released", 0), UNCHANGED consumed
  PROVE  SpentIsDelivered'
<1>0. TypeOK
  BY DEF AccountInv
<1>1. /\ holds'[k].state = "released" /\ holds'[k].amount = holds[k].amount
      /\ \A j \in Holds : j # k => holds'[j] = holds[j]
  BY <1>0 DEF Settled, TypeOK, HoldRows
<1>2. \A b \in Buckets : consumed'[k][b] = 0 /\ holds[k].amount[b] \in Nat
  BY <1>0, NothingSpentYet DEF IsOpen, TypeOK, HoldRows, Amounts
<1> QED
  BY <1>0, <1>1, <1>2, OthersCostTheSame DEF Buckets

LEMMA NextCosts ==
  ASSUME AccountInv, AccountInv', SpentIsDelivered, [Next]_vars
  PROVE  SpentIsDelivered'
<1>1. CASE UNCHANGED <<holds, consumed>>
  BY <1>1 DEF SpentIsDelivered
<1>2. CASE \E k \in Holds, u \in UnitCosts, q \in Quantities, t \in Readings :
             \E d \in Instants \cup {NoDeadline} : Reserve(k, u, q, d, t)
  BY <1>2, ReserveCosts
<1>3. CASE \E k \in Holds, t \in Readings : Commit(k, t)
  BY <1>3, CommitCosts
<1>4. CASE \E k \in Holds, t \in Readings : Release(k, t)
  BY <1>4, ReleaseCosts DEF Release
<1>5. CASE \E k \in Holds, q \in Quantities \cup {0}, t \in Readings : Settle(k, q, t)
  <2>1. \A q \in Quantities \cup {0} : q \in Nat
    BY SizesAssumption
  <2> QED
    BY <1>5, <2>1, SettleCosts
<1>6. CASE \E k \in Holds : SweepRelease(k)
  <2>1. PICK k \in Holds : SweepRelease(k)
    BY <1>6
  <2>2. CASE IsOpen(k)
    BY <2>1, <2>2, ReleaseCosts DEF SweepRelease
  <2>3. CASE ~IsOpen(k)
    BY <1>1, <2>1, <2>3 DEF SweepRelease
  <2> QED
    BY <2>2, <2>3
<1>7. CASE \/ \E t \in Readings : Summary(t)
           \/ \E k \in Holds : Refund(k)
           \/ \E p \in Purchases, c \in Packs : StartPurchase(p, c)
           \/ \E p \in Purchases : CompletePurchase(p)
           \/ \E c \in Corrections, n \in CorrectionSizes : Correct(c, n)
           \/ SweepCollect \/ SweepDies \/ Tick
           \/ \E full \in BOOLEAN, quota \in PlanQuotas : ChangeEntitlement(full, quota)
           \/ UNCHANGED vars
  BY <1>1, <1>7 DEF Summary, Refund, StartPurchase, CompletePurchase, Correct, SweepCollect,
                    SweepDies, Tick, ChangeEntitlement, vars, ledgerRows
<1> QED
  BY <1>2, <1>3, <1>4, <1>5, <1>6, <1>7 DEF Next

(* However release, settlement, commit and sweep race, a reservation costs *)
(* its delivered units, allowance first, and one that failed costs nothing. *)
THEOREM EndedHoldsCostWhatWasDelivered == Spec => []SpentIsDelivered
<1>1. Init => SpentIsDelivered
  <2> SUFFICES ASSUME Init PROVE SpentIsDelivered
    OBVIOUS
  <2>1. \A k \in Holds, b \in Buckets : consumed[k][b] = 0 /\ holds[k].amount[b] = 0
    BY DEF Init, NoHold, Nothing, Split
  <2>2. \A k \in Holds : holds[k].state = "none"
    BY DEF Init, NoHold
  <2> QED
    BY <2>1, <2>2 DEF SpentIsDelivered, Buckets
<1>2. AccountInv /\ AccountInv' /\ SpentIsDelivered /\ [Next]_vars => SpentIsDelivered'
  BY NextCosts
<1> QED
  BY <1>1, <1>2, AccountInvariant, PTL DEF Spec
-----------------------------------------------------------------------------
(* One reservation's step in the wallet: only its own entries move. *)
WalletState == [k \in Holds |-> IF holds[k].state = "none" THEN "idle"
                                ELSE IF IsOpen(k) THEN "held" ELSE "closed"]
WalletSpent == [k \in Holds |-> consumed[k][Purchased]]
WalletFree  == remaining[Purchased] - reserved[Purchased]
WalletBought ==
  [p \in Purchases |-> IF purchases[p].status = "succeeded" THEN purchases[p].credits ELSE 0]

(* A transaction that touches neither reservations nor purchased credits   *)
(* is invisible in the wallet.                                             *)
LEMMA WalletStutters ==
  ASSUME UNCHANGED <<holds, consumed, corrected, WalletFree, WalletBought>>
  PROVE  UNCHANGED Wallet!walletVars
BY DEF Wallet!walletVars, WalletFree, WalletBought, Held, IsOpen

(* Ending a reservation closes it, spending part of what it held. *)
LEMMA WalletCloses ==
  ASSUME AccountInv, NEW k \in Holds, IsOpen(k), NEW spent \in Nat,
         spent <= holds[k].amount[Purchased], consumed[k][Purchased] = 0,
         NEW state \in {"committed", "released"}, NEW quantity, Settled(k, state, quantity),
         UNCHANGED <<purchases, corrected>>,
         \A j \in Holds : j # k => consumed'[j] = consumed[j],
         consumed'[k][Purchased] = spent,
         WalletFree' = WalletFree + (holds[k].amount[Purchased] - spent)
  PROVE  Wallet!Close(k)
<1>0. TypeOK
  BY DEF AccountInv
<1>1. /\ holds'[k].state = state /\ \A j \in Holds : j # k => holds'[j] = holds[j]
      /\ holds[k].amount[Purchased] \in Nat
  BY <1>0 DEF Settled, TypeOK, HoldRows, Amounts, Buckets
<1>2. WalletState[k] = "held" /\ Held(Purchased)[k] = holds[k].amount[Purchased]
  BY DEF WalletState, Held, IsOpen
<1>3. WalletState' = [WalletState EXCEPT ![k] = "closed"]
  BY <1>1 DEF WalletState, IsOpen
<1>4. Held(Purchased)' = [Held(Purchased) EXCEPT ![k] = 0]
  BY <1>1 DEF Held, IsOpen
<1>5. WalletSpent' = [WalletSpent EXCEPT ![k] = spent]
  BY DEF WalletSpent
<1>6. spent \in 0..Held(Purchased)[k]
  BY <1>1, <1>2
<1>7. WalletFree' = WalletFree + (Held(Purchased)[k] - spent)
  BY <1>2
<1>8. UNCHANGED <<corrected, WalletBought>>
  BY DEF WalletBought
<1> QED
  BY <1>2, <1>3, <1>4, <1>5, <1>6, <1>7, <1>8
  DEF Wallet!Close, WalletState, WalletSpent, WalletFree, WalletBought

LEMMA WalletHolds ==
  ASSUME AccountInv, SpentIsDelivered, NEW k \in Holds, NEW unit \in UnitCosts,
         NEW quantity \in Quantities, NEW deadline, NEW t \in Instants,
         Reserve(k, unit, quantity, deadline, t)
  PROVE  Wallet!Hold(k)
<1>0. TypeOK /\ ReservedWithinRemaining
  BY DEF AccountInv
<1> DEFINE cost == unit * quantity
           a == Least(cost, FreeAllowance(t))
           p == cost - a
<1>1. p \in Nat /\ p <= WalletFree
  <2>1. cost \in Nat
    BY SizesAssumption
  <2>2. FreeAllowance(t) \in Nat
    BY <1>0, SyncFacts DEF FreeAllowance
  <2>3. cost <= FreeAllowance(t) + WalletFree
    BY DEF Reserve, FreePurchased, WalletFree
  <2>4. WalletFree \in Nat
    BY <1>0, SyncFacts DEF WalletFree
  <2> HIDE DEF cost
  <2> QED
    BY <2>1, <2>2, <2>3, <2>4 DEF Least
<1>2. /\ remaining'[Purchased] = remaining[Purchased]
      /\ reserved'[Purchased] = reserved[Purchased] + p
      /\ holds[k].state = "none" /\ holds'[k].state = "reserved"
      /\ holds'[k].amount[Purchased] = p
      /\ \A j \in Holds : j # k => holds'[j] = holds[j]
      /\ consumed' = consumed
  BY <1>0 DEF Reserve, TypeOK, Amounts, Plus, Split, Buckets, Allowance, Purchased
<1> HIDE DEF p
<1>3. WalletFree' = WalletFree - p
  BY <1>0, <1>1, <1>2, SyncFacts DEF WalletFree
<1>4. Held(Purchased)' = [Held(Purchased) EXCEPT ![k] = p]
  BY <1>2 DEF Held, IsOpen
<1>5. WalletState[k] = "idle" /\ WalletState' = [WalletState EXCEPT ![k] = "held"]
  BY <1>2 DEF WalletState, IsOpen
<1>6. WalletSpent' = WalletSpent
  BY <1>2 DEF WalletSpent
<1>7. p \in 0..WalletFree
  BY <1>0, <1>1, SyncFacts DEF WalletFree
<1>8. UNCHANGED <<corrected, WalletBought>>
  BY DEF Reserve, WalletBought
<1> QED
  BY <1>3, <1>4, <1>5, <1>6, <1>7, <1>8
  DEF Wallet!Hold, WalletState, WalletSpent, WalletFree, WalletBought

LEMMA WalletCommits ==
  ASSUME AccountInv, SpentIsDelivered, NEW k \in Holds, NEW t, Commit(k, t)
  PROVE  Wallet!Close(k)
<1>0. TypeOK
  BY DEF AccountInv
<1>1. holds[k].amount[Purchased] \in Nat /\ holds[k].quantity \in Nat
  BY <1>0 DEF TypeOK, HoldRows, Amounts, Buckets
<1>2. consumed[k][Purchased] = 0
  BY <1>0, NothingSpentYet DEF Commit, IsOpen, Buckets
<1>3. /\ consumed'[k][Purchased] = holds[k].amount[Purchased]
      /\ \A j \in Holds : j # k => consumed'[j] = consumed[j]
  BY <1>0, <1>1, <1>2, AmountFacts DEF Commit, TypeOK, Buckets
<1>4. WalletFree' = WalletFree + (holds[k].amount[Purchased] - holds[k].amount[Purchased])
  <2>1. /\ reserved'[Purchased] = reserved[Purchased] - holds[k].amount[Purchased]
        /\ remaining'[Purchased] = remaining[Purchased] - holds[k].amount[Purchased]
    BY AmountFacts DEF Commit, Buckets
  <2> QED
    BY <1>1, <2>1, BalanceFacts DEF WalletFree, Buckets
<1> QED
  BY <1>1, <1>2, <1>3, <1>4, WalletCloses DEF Commit

(* The purchased half of SpendAndRelease. *)
LEMMA WalletGivesBack ==
  ASSUME AccountInv, NEW k \in Holds, NEW spent \in Amounts, NEW t,
         SpendAndRelease(k, spent, t)
  PROVE  WalletFree' = WalletFree + (holds[k].amount[Purchased] - spent[Purchased])
<1>1. /\ holds[k].amount[Purchased] \in Nat /\ spent[Purchased] \in Nat
      /\ remaining[Purchased] \in Nat /\ reserved[Purchased] \in Nat
  BY BalanceFacts DEF AccountInv, TypeOK, HoldRows, Amounts, Buckets
<1>2. /\ reserved'[Purchased] = (reserved[Purchased] - spent[Purchased])
                                - (holds[k].amount[Purchased] - spent[Purchased])
      /\ remaining'[Purchased] = (remaining[Purchased] - spent[Purchased]) + 0
  BY AmountFacts DEF SpendAndRelease, Buckets
<1> QED
  BY <1>1, <1>2 DEF WalletFree

LEMMA WalletReleases ==
  ASSUME AccountInv, SpentIsDelivered, NEW k \in Holds, IsOpen(k), NEW t,
         SpendAndRelease(k, Nothing, t), Settled(k, "released", 0),
         UNCHANGED <<consumed, purchases, corrected>>
  PROVE  Wallet!Close(k)
<1>0. TypeOK
  BY DEF AccountInv
<1>1. Nothing \in Amounts /\ Nothing[Purchased] = 0
  BY AmountType, AmountFacts DEF Nothing
<1>2. holds[k].amount[Purchased] \in Nat
  BY <1>0 DEF TypeOK, HoldRows, Amounts, Buckets
<1>3. consumed[k][Purchased] = 0
  BY <1>0, NothingSpentYet DEF IsOpen, Buckets
<1>4. WalletFree' = WalletFree + (holds[k].amount[Purchased] - 0)
  BY <1>1, WalletGivesBack
<1> QED
  BY <1>2, <1>3, <1>4, WalletCloses

LEMMA WalletSettles ==
  ASSUME AccountInv, SpentIsDelivered, NEW k \in Holds, NEW quantity \in Nat, NEW t,
         Settle(k, quantity, t)
  PROVE  Wallet!Close(k)
<1>0. TypeOK
  BY DEF AccountInv
<1> DEFINE delivered == Least(quantity, holds[k].quantity)
           cost == Least(delivered * holds[k].unit, holds[k].cost)
           fromAllowance == Least(cost, holds[k].amount[Allowance])
           spent == Split(fromAllowance, cost - fromAllowance)
           state == IF delivered > 0 THEN "committed" ELSE "released"
<1>1. /\ fromAllowance \in Nat /\ cost - fromAllowance \in Nat
      /\ cost - fromAllowance <= holds[k].amount[Purchased]
  BY SettlementFits
<1>2. spent \in Amounts /\ spent[Purchased] = cost - fromAllowance
  BY <1>1, AmountType, AmountFacts
<1>3. /\ IsOpen(k) /\ SpendAndRelease(k, spent, t) /\ Settled(k, state, delivered)
      /\ consumed' = [consumed EXCEPT ![k] = Plus(@, spent)]
      /\ UNCHANGED <<purchases, corrected>>
  BY DEF Settle
<1>4. state \in {"committed", "released"}
  OBVIOUS
<1>5. consumed[k][Purchased] = 0
  BY <1>0, <1>3, NothingSpentYet DEF IsOpen, Buckets
<1> HIDE DEF state, delivered
<1>6. /\ consumed'[k][Purchased] = spent[Purchased]
      /\ \A j \in Holds : j # k => consumed'[j] = consumed[j]
  BY <1>0, <1>1, <1>2, <1>3, <1>5, AmountFacts DEF TypeOK, Buckets
<1>7. WalletFree' = WalletFree + (holds[k].amount[Purchased] - spent[Purchased])
  BY <1>2, <1>3, WalletGivesBack
<1> HIDE DEF spent
<1>8. spent[Purchased] \in Nat /\ spent[Purchased] <= holds[k].amount[Purchased]
  BY <1>1, <1>2
<1> QED
  BY <1>3, <1>4, <1>5, <1>6, <1>7, <1>8, WalletCloses

(* A purchase moves what is free, once. *)
LEMMA WalletDeposits ==
  ASSUME AccountInv, NEW p \in Purchases, CompletePurchase(p)
  PROVE  [Wallet!Deposit(p)]_(Wallet!walletVars)
<1>1. WalletFree \in Nat /\ remaining[Purchased] \in Nat /\ reserved[Purchased] \in Nat
  BY BalanceFacts DEF WalletFree, Buckets
<1> DEFINE n == purchases[p].credits
<1>2. n \in Nat /\ purchases[p].status = "pending"
  BY DEF AccountInv, TypeOK, CompletePurchase
<1>3. remaining'[Purchased] = remaining[Purchased] + n
  BY <1>2, AmountFacts DEF CompletePurchase, Buckets
<1>4. WalletFree' = WalletFree + n
  BY <1>1, <1>2, <1>3 DEF CompletePurchase, WalletFree
<1>5. UNCHANGED <<WalletState, Held(Purchased), WalletSpent, holds, consumed, corrected>>
  BY DEF CompletePurchase, WalletState, WalletSpent, Held, IsOpen
<1>6. /\ purchases'[p].status = "succeeded" /\ purchases'[p].credits = n
      /\ \A q \in Purchases : q # p => purchases'[q] = purchases[q]
  BY DEF CompletePurchase, AccountInv, TypeOK
<1> HIDE DEF n
<1>7. WalletBought[p] = 0 /\ WalletBought' = [WalletBought EXCEPT ![p] = n]
  BY <1>2, <1>6 DEF WalletBought, n
<1>8. CASE n > 0
  <2>1. WalletFree' \in Nat /\ WalletFree' > WalletFree /\ n = WalletFree' - WalletFree
    BY <1>1, <1>2, <1>4, <1>8
  <2>2. WalletBought' = [WalletBought EXCEPT ![p] = WalletFree' - WalletFree]
    BY <1>7, <2>1
  <2> QED
    BY <1>5, <1>7, <2>1, <2>2
    DEF Wallet!Deposit, WalletState, WalletSpent, WalletFree, WalletBought
<1>9. CASE n = 0
  <2>1. WalletFree' = WalletFree
    BY <1>1, <1>4, <1>9
  <2>2. WalletBought' = WalletBought
    BY <1>7, <1>9 DEF WalletBought
  <2> QED
    BY <1>5, <2>1, <2>2, WalletStutters
<1> QED
  BY <1>2, <1>8, <1>9

(* So does a correction. *)
LEMMA WalletAdjusts ==
  ASSUME AccountInv, NEW c \in Corrections, NEW n \in CorrectionSizes, Correct(c, n)
  PROVE  Wallet!Adjust(c)
<1>1. WalletFree \in Nat /\ remaining[Purchased] \in Nat /\ reserved[Purchased] \in Nat
  BY BalanceFacts DEF WalletFree, Buckets
<1>2. n \in Int /\ n # 0
  BY SizesAssumption
<1>3. remaining'[Purchased] = remaining[Purchased] + n
  BY <1>2, AmountFacts DEF Correct, Buckets
<1>4. WalletFree' = WalletFree + n
  BY <1>1, <1>2, <1>3 DEF Correct, WalletFree
<1>5. WalletFree + n >= 0
  BY <1>1, <1>2 DEF Correct, WalletFree, FreePurchased
<1>6. WalletFree' \in Nat /\ WalletFree' # WalletFree /\ n = WalletFree' - WalletFree
  BY <1>1, <1>2, <1>4, <1>5
<1>7. corrected[c] = 0 /\ corrected' = [corrected EXCEPT ![c] = WalletFree' - WalletFree]
  BY <1>6 DEF Correct
<1>8. UNCHANGED <<WalletState, Held(Purchased), WalletSpent, WalletBought>>
  BY DEF Correct, WalletState, WalletSpent, WalletBought, Held, IsOpen
<1> QED
  BY <1>6, <1>7, <1>8 DEF Wallet!Adjust, WalletState, WalletSpent, WalletFree, WalletBought

LEMMA WalletInit == Init => Wallet!Init
<1> SUFFICES ASSUME Init PROVE Wallet!Init
  OBVIOUS
<1>1. \A b \in Buckets : remaining[b] = 0 /\ reserved[b] = 0
  BY DEF Init, Nothing, Split
<1>2. /\ \A k \in Holds : holds[k].state = "none" /\ consumed[k][Purchased] = 0
      /\ \A p \in Purchases : purchases[p].status = "none"
      /\ corrected = [c \in Corrections |-> 0]
  BY DEF Init, NoHold, Nothing, Split, Buckets
<1>3. WalletFree = 0
  BY <1>1 DEF WalletFree, Buckets
<1> QED
  BY <1>2, <1>3 DEF Wallet!Init, WalletFree, Held, IsOpen

LEMMA WalletNext ==
  ASSUME Refunds = FALSE, AccountInv, SpentIsDelivered, [Next]_vars
  PROVE  [Wallet!Next]_(Wallet!walletVars)
<1>0. Readings \subseteq Instants /\ TypeOK
  BY DEF Readings, AccountInv
<1>1. CASE \E t \in Readings : Summary(t)
  <2>1. UNCHANGED <<holds, consumed, corrected, WalletFree, WalletBought>>
    BY <1>0, <1>1 DEF Summary, WalletFree, WalletBought, TypeOK, Amounts, Allowance, Purchased
  <2> QED
    BY <2>1, WalletStutters
<1>2. CASE \E k \in Holds, u \in UnitCosts, q \in Quantities, t \in Readings :
             \E d \in Instants \cup {NoDeadline} : Reserve(k, u, q, d, t)
  BY <1>0, <1>2, WalletHolds DEF Wallet!Next
<1>3. CASE \E k \in Holds, t \in Readings : Commit(k, t)
  BY <1>3, WalletCommits DEF Wallet!Next
<1>4. CASE \E k \in Holds, t \in Readings : Release(k, t)
  <2>1. \E k \in Holds : Wallet!Close(k)
    BY <1>4, WalletReleases DEF Release
  <2> QED
    BY <2>1 DEF Wallet!Next
<1>5. CASE \E k \in Holds, q \in Quantities \cup {0}, t \in Readings : Settle(k, q, t)
  <2>1. \A q \in Quantities \cup {0} : q \in Nat
    BY SizesAssumption
  <2> QED
    BY <1>5, <2>1, WalletSettles DEF Wallet!Next
<1>6. CASE \E k \in Holds : SweepRelease(k)
  <2>1. PICK k \in Holds : SweepRelease(k)
    BY <1>6
  <2>2. CASE IsOpen(k)
    <3>1. Wallet!Close(k)
      BY <2>1, <2>2, WalletReleases DEF SweepRelease
    <3> QED
      BY <3>1 DEF Wallet!Next
  <2>3. CASE ~IsOpen(k)
    <3>1. UNCHANGED <<holds, consumed, corrected, WalletFree, WalletBought>>
      BY <2>1, <2>3 DEF SweepRelease, WalletFree, WalletBought, balanceRow
    <3> QED
      BY <3>1, WalletStutters
  <2> QED
    BY <2>2, <2>3
<1>7. CASE \E p \in Purchases : CompletePurchase(p)
  BY <1>7, WalletDeposits DEF Wallet!Next
<1>8. CASE \E c \in Corrections, n \in CorrectionSizes : Correct(c, n)
  BY <1>8, WalletAdjusts DEF Wallet!Next
<1>9. CASE \E p \in Purchases, c \in Packs : StartPurchase(p, c)
  <2>1. PICK p \in Purchases, c \in Packs : StartPurchase(p, c)
    BY <1>9
  <2>2. /\ purchases[p].status = "none" /\ purchases'[p].status = "pending"
        /\ \A q \in Purchases : q # p => purchases'[q] = purchases[q]
    BY <1>0, <2>1 DEF StartPurchase, TypeOK
  <2>3. WalletBought' = WalletBought
    BY <2>2 DEF WalletBought
  <2>4. UNCHANGED <<holds, consumed, corrected, WalletFree>>
    BY <2>1 DEF StartPurchase, balanceRow, ledgerRows, WalletFree
  <2> QED
    BY <2>3, <2>4, WalletStutters
<1>10. CASE \/ SweepCollect \/ SweepDies \/ Tick
            \/ \E full \in BOOLEAN, quota \in PlanQuotas : ChangeEntitlement(full, quota)
            \/ UNCHANGED vars
  <2>1. UNCHANGED <<holds, consumed, corrected, WalletFree, WalletBought>>
    BY <1>10 DEF SweepCollect, SweepDies, Tick, ChangeEntitlement, vars,
                 balanceRow, ledgerRows, WalletFree, WalletBought
  <2> QED
    BY <2>1, WalletStutters
<1>11. CASE \E k \in Holds : Refund(k)
  BY <1>11 DEF Refund
<1> QED
  BY <1>1, <1>2, <1>3, <1>4, <1>5, <1>6, <1>7, <1>8, <1>9, <1>10, <1>11 DEF Next

(* The purchased bucket implements a prepaid wallet: a sale brings its     *)
(* credits once, and no month, plan change, sweep or race takes them.  (refund_credits would   *)
(* reopen a closed hold; nothing in the code calls it.)                     *)
THEOREM PurchasedCreditsArePrepaid ==
  ASSUME Refunds = FALSE
  PROVE  Spec => PurchasedIsPrepaid
<1>1. AccountInv /\ SpentIsDelivered /\ [Next]_vars => [Wallet!Next]_(Wallet!walletVars)
  BY WalletNext
<1> QED
  BY <1>1, WalletInit, AccountInvariant, EndedHoldsCostWhatWasDelivered, PTL
  DEF Spec, PurchasedIsPrepaid, Wallet!Spec
-----------------------------------------------------------------------------
(* The reservations as their callers see them (PaidOperation).             *)
PriceNow     == [k \in Holds |-> PriceOf(holds[k].state)]
DeliveredNow == [k \in Holds |-> holds[k].settled > 0]

LEMMA PriceFollowsState ==
  /\ PriceOf("none") = "unasked"      /\ PriceOf("reserved") = "held"
  /\ PriceOf("committed") = "charged" /\ PriceOf("released") = "returned"
  BY DEF PriceOf

(* One reservation changes: the price of it alone changes.                 *)
LEMMA OnePriceChanges ==
  ASSUME NEW k \in Holds, NEW s, NEW p, PriceOf(s) = p, holds'[k].state = s,
         \A j \in Holds : j # k => holds'[j] = holds[j]
  PROVE  PriceNow' = [PriceNow EXCEPT ![k] = p]
<1>1. \A j \in Holds : PriceOf(holds'[j].state) = IF j = k THEN p ELSE PriceOf(holds[j].state)
  OBVIOUS
<1>2. PriceNow' = [j \in Holds |-> PriceOf(holds'[j].state)]
  BY DEF PriceNow
<1>3. PriceNow' = [j \in Holds |-> IF j = k THEN p ELSE PriceOf(holds[j].state)]
  BY <1>1, <1>2, Zenon
<1> QED BY <1>3, Zenon DEF PriceNow

(* A reservation ends: charged when something was delivered, else not.     *)
LEMMA EndIsSeen ==
  ASSUME TypeOK, NEW k \in Holds, IsOpen(k), holds[k].settled = Unsettled, NEW q \in Nat,
         NEW s, s = IF q > 0 THEN "committed" ELSE "released", Settled(k, s, q)
  PROVE  Contract!Next
<1>1. /\ holds'[k].state = s /\ holds'[k].settled = q
      /\ \A j \in Holds : j # k => holds'[j] = holds[j]
  BY DEF Settled, TypeOK, HoldRows
<1>2. PriceNow[k] = "held"
  BY PriceFollowsState DEF PriceNow, IsOpen
<1>3. /\ q > 0 => PriceNow' = [PriceNow EXCEPT ![k] = "charged"]
      /\ ~(q > 0) => PriceNow' = [PriceNow EXCEPT ![k] = "returned"]
  <2>1. ASSUME q > 0 PROVE PriceNow' = [PriceNow EXCEPT ![k] = "charged"]
    BY <1>1, <2>1, PriceFollowsState, OnePriceChanges
  <2>2. ASSUME ~(q > 0) PROVE PriceNow' = [PriceNow EXCEPT ![k] = "returned"]
    BY <1>1, <2>2, PriceFollowsState, OnePriceChanges
  <2> QED BY <2>1, <2>2
<1>4. DeliveredNow' = [DeliveredNow EXCEPT ![k] = q > 0]
  BY <1>1 DEF DeliveredNow
<1>5. CASE q > 0
  <2>1. PriceNow' = [PriceNow EXCEPT ![k] = "charged"]
        /\ DeliveredNow' = [DeliveredNow EXCEPT ![k] = TRUE]
    BY <1>3, <1>4, <1>5
  <2> QED BY <1>2, <2>1 DEF Contract!Next, Contract!Deliver, PriceNow, DeliveredNow
<1>6. CASE ~(q > 0)
  <2>1. PriceNow' = [PriceNow EXCEPT ![k] = "returned"]
    BY <1>3, <1>6
  <2>2. DeliveredNow' = DeliveredNow
    <3>1. \A j \in Holds : (holds'[j].settled > 0) = (holds[j].settled > 0)
      BY <1>1, <1>6 DEF Unsettled
    <3> QED BY <3>1 DEF DeliveredNow
  <2> QED BY <1>2, <2>1, <2>2 DEF Contract!Next, Contract!GiveBack, PriceNow, DeliveredNow
<1> QED BY <1>5, <1>6

(* Open reservations and those not made yet have not been settled.         *)
OpenIsUnsettled ==
  \A k \in Holds : holds[k].state \in {"none", "reserved"} => holds[k].settled = Unsettled

LEMMA ReserveIsSeen ==
  ASSUME TypeOK, OpenIsUnsettled, NEW k \in Holds, NEW u \in UnitCosts, NEW q \in Quantities,
         NEW d, NEW t \in Readings, Reserve(k, u, q, d, t)
  PROVE  Contract!Next /\ OpenIsUnsettled'
<1>1. /\ holds[k].state = "none" /\ holds[k].settled = Unsettled
      /\ holds'[k].state = "reserved" /\ holds'[k].settled = Unsettled
      /\ \A j \in Holds : j # k => holds'[j] = holds[j]
  BY DEF Reserve, TypeOK, OpenIsUnsettled
<1>2. PriceNow[k] = "unasked"
  BY <1>1, PriceFollowsState DEF PriceNow
<1>3. DeliveredNow' = DeliveredNow
  <2>1. \A j \in Holds : holds'[j].settled = holds[j].settled
    BY <1>1
  <2> QED BY <2>1 DEF DeliveredNow
<1>4. Contract!Next
  <2>1. PriceNow' = [PriceNow EXCEPT ![k] = "held"]
    BY <1>1, PriceFollowsState, OnePriceChanges
  <2> QED BY <1>2, <1>3, <2>1 DEF Contract!Next, Contract!Request, PriceNow, DeliveredNow
<1>5. OpenIsUnsettled'
  BY <1>1 DEF OpenIsUnsettled
<1> QED BY <1>4, <1>5

(* A reservation that ends leaves the others unsettled.                    *)
LEMMA EndKeepsUnsettled ==
  ASSUME TypeOK, OpenIsUnsettled, NEW k \in Holds, NEW s \in {"committed", "released"}, NEW q,
         Settled(k, s, q)
  PROVE  OpenIsUnsettled'
<1>1. holds'[k].state = s /\ \A j \in Holds : j # k => holds'[j] = holds[j]
  BY DEF Settled, TypeOK, HoldRows
<1> QED BY <1>1 DEF OpenIsUnsettled

LEMMA ContractStep ==
  ASSUME SizesAssumption, TypeOK, OpenIsUnsettled, [Next]_vars
  PROVE  OpenIsUnsettled' /\ (Contract!Next \/ UNCHANGED <<PriceNow, DeliveredNow>>)
<1>1. ASSUME NEW k \in Holds, NEW u \in UnitCosts, NEW q \in Quantities, NEW t \in Readings,
             NEW d \in Instants \cup {NoDeadline}, Reserve(k, u, q, d, t)
      PROVE  OpenIsUnsettled' /\ Contract!Next
  BY <1>1, ReserveIsSeen
<1>2. ASSUME NEW k \in Holds, NEW t \in Readings, Commit(k, t)
      PROVE  OpenIsUnsettled' /\ Contract!Next
  <2>1. IsOpen(k) /\ Settled(k, "committed", holds[k].quantity) /\ holds[k].settled = Unsettled
    BY <1>2 DEF Commit, OpenIsUnsettled, IsOpen
  <2>2. holds[k].quantity \in Nat /\ holds[k].quantity > 0
    BY DEF TypeOK, HoldRows
  <2> QED BY <2>1, <2>2, EndIsSeen, EndKeepsUnsettled
<1>3. ASSUME NEW k \in Holds, NEW q \in Quantities \cup {0}, NEW t \in Readings, Settle(k, q, t)
      PROVE  OpenIsUnsettled' /\ Contract!Next
  <2> DEFINE delivered == Least(q, holds[k].quantity)
  <2>1. /\ IsOpen(k) /\ holds[k].settled = Unsettled
        /\ Settled(k, IF delivered > 0 THEN "committed" ELSE "released", delivered)
    BY <1>3 DEF Settle, OpenIsUnsettled, IsOpen
  <2>2. delivered \in Nat
    BY DEF Least, TypeOK, HoldRows, SizesAssumption
  <2> HIDE DEF delivered
  <2> QED BY <2>1, <2>2, EndIsSeen, EndKeepsUnsettled
<1>4. ASSUME NEW k \in Holds, IsOpen(k), Settled(k, "released", 0)
      PROVE  OpenIsUnsettled' /\ Contract!Next
  <2>1. holds[k].settled = Unsettled
    BY <1>4 DEF OpenIsUnsettled, IsOpen
  <2> QED BY <1>4, <2>1, EndIsSeen, EndKeepsUnsettled
<1>5. CASE holds' = holds
  BY <1>5 DEF OpenIsUnsettled, PriceNow, DeliveredNow
<1>6. \/ holds' = holds
      \/ \E k \in Holds : IsOpen(k) /\ Settled(k, "released", 0)
      \/ \E k \in Holds, t \in Readings : Commit(k, t)
      \/ \E k \in Holds, q \in Quantities \cup {0}, t \in Readings : Settle(k, q, t)
      \/ \E k \in Holds, u \in UnitCosts, q \in Quantities, t \in Readings :
           \E d \in Instants \cup {NoDeadline} : Reserve(k, u, q, d, t)
  BY DEF Next, vars, Summary, Release, Refund, StartPurchase, CompletePurchase, Correct,
     SweepCollect, SweepRelease, SweepDies, ChangeEntitlement, Tick
<1> QED BY <1>1, <1>2, <1>3, <1>4, <1>5, <1>6

(* Reservations keep the promise made for paid operations: what was        *)
(* delivered is charged, what was not is given back, and neither a sweep,  *)
(* a repeated call nor the turn of a month changes what has ended.         *)
THEOREM HoldsKeepTheirPromise == Spec => HoldsArePaidOperations
<1>1. AccountInv => TypeOK
  BY DEF AccountInv
<1>2. Init => OpenIsUnsettled /\ Contract!Init
  <2> SUFFICES ASSUME Init PROVE OpenIsUnsettled /\ Contract!Init
    OBVIOUS
  <2>1. \A k \in Holds : holds[k].state = "none" /\ holds[k].settled = Unsettled
    BY DEF Init, NoHold
  <2>2. \A k \in Holds : PriceOf(holds[k].state) = "unasked"
    BY <2>1, PriceFollowsState
  <2>3. \A k \in Holds : (holds[k].settled > 0) = FALSE
    BY <2>1 DEF Unsettled
  <2> QED BY <2>1, <2>2, <2>3 DEF OpenIsUnsettled, Contract!Init
<1>3. TypeOK /\ OpenIsUnsettled /\ [Next]_vars
        => OpenIsUnsettled' /\ [Contract!Next]_(Contract!promiseVars)
  BY SizesAssumption, ContractStep DEF Contract!promiseVars, PriceNow, DeliveredNow
<1> QED
  BY <1>1, <1>2, <1>3, AccountInvariant, PTL DEF Spec, HoldsArePaidOperations, Contract!Spec
-----------------------------------------------------------------------------
(* What becomes of the monthly allowance when every transaction works with *)
(* the clock of its own instant (Skew = 0): it is granted once a month and *)
(* does not carry over.                                                    *)

(* What holds of months when no transaction works with an older clock: the *)
(* account never returns to a month it left, so a month that has not begun *)
(* was granted nothing and the current one exactly what the row says.      *)
MonthInv ==
  /\ period <= MonthOf[now]
  /\ sweep # {} => sweepAt = now
  /\ \A k \in Holds : IsOpen(k) => holds[k].period <= period
  /\ \A m \in Months : m > period => grantedIn[m] = 0
  /\ period # NoPeriod => grantedIn[period] = granted
  /\ period = NoPeriod => granted = 0
  /\ GrantedOncePerMonth

(* A sync moves the account to the month of the clock and grants that      *)
(* month, in total, what the plan allows or what it was granted before.    *)
LEMMA MonthSyncs ==
  ASSUME TypeOK, MonthInv, SyncPeriod(now)
  PROVE  /\ period <= period' /\ period' = MonthOf[now]
         /\ \A m \in Months : m > period' => grantedIn'[m] = 0
         /\ grantedIn'[period'] = granted'
         /\ GrantedOncePerMonth'
<1>1. /\ MonthOf[now] \in Months /\ MonthOf[now] \in Nat /\ period \in Int
      /\ Months \subseteq Nat /\ NoPeriod = -1
  BY CalendarAssumption DEF TypeOK, Months, NoPeriod
<1>2. AllowanceFor \in PlanQuotas \cup {0} /\ AllowanceFor \in Nat /\ granted \in Nat
  BY SizesAssumption DEF TypeOK, AllowanceFor
<1>3. /\ period' = MonthOf[now] /\ granted' = GrantedSoFar(now) + Missing(now)
      /\ grantedIn' = [grantedIn EXCEPT ![MonthOf[now]] = @ + Missing(now)]
  BY DEF SyncPeriod
<1>4. grantedIn \in [Months -> Nat]
  BY DEF TypeOK
<1>5. grantedIn[MonthOf[now]] = GrantedSoFar(now)
  BY <1>1 DEF MonthInv, GrantedSoFar, Rolls
<1>6. /\ GrantedSoFar(now) \in Nat /\ Missing(now) \in Nat
      /\ GrantedSoFar(now) + Missing(now) \in {GrantedSoFar(now), AllowanceFor}
  <2>1. GrantedSoFar(now) \in Nat
    BY <1>2 DEF GrantedSoFar
  <2> QED
    BY <1>2, <2>1 DEF Missing
<1>7. grantedIn'[MonthOf[now]] = GrantedSoFar(now) + Missing(now)
  BY <1>1, <1>3, <1>4, <1>5
<1>8. \A m \in Months : m # MonthOf[now] => grantedIn'[m] = grantedIn[m]
  BY <1>3, <1>4
<1>9. \E q \in PlanQuotas \cup {0} : GrantedSoFar(now) <= q
  BY <1>1, <1>5 DEF MonthInv, GrantedOncePerMonth
<1>10. GrantedOncePerMonth'
  <2> SUFFICES ASSUME NEW m \in Months
               PROVE  \E q \in PlanQuotas \cup {0} : grantedIn'[m] <= q
    BY DEF GrantedOncePerMonth
  <2>1. CASE m = MonthOf[now]
    <3>1. CASE GrantedSoFar(now) + Missing(now) = GrantedSoFar(now)
      BY <1>7, <1>9, <2>1, <3>1
    <3>2. CASE GrantedSoFar(now) + Missing(now) = AllowanceFor
      BY <1>2, <1>7, <2>1, <3>2
    <3> QED
      BY <1>6, <3>1, <3>2
  <2>2. CASE m # MonthOf[now]
    BY <1>8, <2>2 DEF MonthInv, GrantedOncePerMonth
  <2> QED
    BY <2>1, <2>2
<1>11. \A m \in Months : m > period' => grantedIn'[m] = 0
  BY <1>1, <1>3, <1>8 DEF MonthInv
<1> QED
  BY <1>1, <1>3, <1>7, <1>10, <1>11 DEF MonthInv

(* A transaction that syncs keeps the months in order. *)
LEMMA SyncKeepsMonths ==
  ASSUME TypeOK, MonthInv, SyncPeriod(now), now' = now,
         sweep' \subseteq sweep, sweepAt' = sweepAt,
         \A k \in Holds : IsOpen(k)' =>
           holds'[k].period = MonthOf[now] \/ (IsOpen(k) /\ holds'[k].period = holds[k].period)
  PROVE  MonthInv'
<1>1. /\ period <= period' /\ period' = MonthOf[now]
      /\ \A m \in Months : m > period' => grantedIn'[m] = 0
      /\ grantedIn'[period'] = granted' /\ GrantedOncePerMonth'
  BY MonthSyncs
<1>2. period \in Int /\ MonthOf[now] \in Nat /\ NoPeriod = -1 /\ NoPeriod \in Int
  BY CalendarAssumption DEF TypeOK, Months, NoPeriod
<1>3. \A k \in Holds : IsOpen(k) => holds[k].period \in Int /\ holds[k].period <= period
  BY <1>2, CalendarAssumption DEF MonthInv, TypeOK, HoldRows, Months, NoPeriod
<1>4. \A k \in Holds : IsOpen(k)' => holds'[k].period <= period'
  BY <1>1, <1>2, <1>3
<1>5. sweep' # {} => sweepAt' = now'
  BY DEF MonthInv
<1>6. period' # NoPeriod /\ period' <= MonthOf[now']
  BY <1>1, <1>2
<1> QED
  BY <1>1, <1>4, <1>5, <1>6 DEF MonthInv

(* A transaction that does not sync and holds nothing new. *)
LEMMA NoSyncKeepsMonths ==
  ASSUME TypeOK, MonthInv, UNCHANGED <<now, period, granted, grantedIn>>,
         sweep' # {} => sweepAt' = now,
         \A k \in Holds : IsOpen(k)' => IsOpen(k) /\ holds'[k].period = holds[k].period
  PROVE  MonthInv'
BY DEF MonthInv, GrantedOncePerMonth

LEMMA FreshReadings ==
  ASSUME Skew = 0, TypeOK
  PROVE  \A t \in Readings : t = now
BY SizesAssumption DEF Readings, Instants, TypeOK

LEMMA MonthsKept ==
  ASSUME Skew = 0, TypeOK, MonthInv, [Next]_vars
  PROVE  MonthInv'
<1>1. CASE \E t \in Readings : Summary(t)
  BY <1>1, FreshReadings, SyncKeepsMonths DEF Summary, IsOpen, sweepVars, worldVars
<1>2. CASE \E k \in Holds, u \in UnitCosts, q \in Quantities, t \in Readings :
             \E d \in Instants \cup {NoDeadline} : Reserve(k, u, q, d, t)
  <2>1. PICK k \in Holds, u \in UnitCosts, q \in Quantities, d \in Instants \cup {NoDeadline} :
               Reserve(k, u, q, d, now)
    BY <1>2, FreshReadings
  <2>2. \A j \in Holds : holds'[j].period = MonthOf[now] \/ holds'[j] = holds[j]
    BY <2>1 DEF Reserve, TypeOK
  <2> QED
    BY <2>1, <2>2, SyncKeepsMonths DEF Reserve, IsOpen, sweepVars, worldVars
<1>3. CASE \E k \in Holds, t \in Readings : Commit(k, t)
  <2>1. \A j \in Holds : IsOpen(j)' => IsOpen(j) /\ holds'[j].period = holds[j].period
    BY <1>3 DEF Commit, Settled, IsOpen, TypeOK, HoldRows
  <2> QED
    BY <1>3, <2>1, NoSyncKeepsMonths DEF Commit, sweepVars, worldVars, MonthInv
<1>4. CASE \E k \in Holds, t \in Readings : Release(k, t)
  <2>1. PICK k \in Holds : Release(k, now)
    BY <1>4, FreshReadings
  <2>2. \A j \in Holds : IsOpen(j)' => IsOpen(j) /\ holds'[j].period = holds[j].period
    BY <2>1 DEF Release, Settled, IsOpen, TypeOK, HoldRows
  <2> QED
    BY <2>1, <2>2, SyncKeepsMonths DEF Release, SpendAndRelease, sweepVars, worldVars
<1>5. CASE \E k \in Holds, q \in Quantities \cup {0}, t \in Readings : Settle(k, q, t)
  <2>1. PICK k \in Holds, q \in Quantities \cup {0} : Settle(k, q, now)
    BY <1>5, FreshReadings
  <2>2. \A j \in Holds : IsOpen(j)' => IsOpen(j) /\ holds'[j].period = holds[j].period
    BY <2>1 DEF Settle, Settled, IsOpen, TypeOK, HoldRows
  <2> QED
    BY <2>1, <2>2, SyncKeepsMonths DEF Settle, SpendAndRelease, sweepVars, worldVars
<1>6. CASE \E k \in Holds : SweepRelease(k)
  <2>1. PICK k \in Holds : SweepRelease(k)
    BY <1>6
  <2>2. sweepAt = now /\ sweep' \subseteq sweep /\ sweepAt' = sweepAt /\ now' = now
    BY <2>1 DEF SweepRelease, MonthInv, worldVars
  <2>3. CASE IsOpen(k)
    <3>1. \A j \in Holds : IsOpen(j)' => IsOpen(j) /\ holds'[j].period = holds[j].period
      BY <2>1, <2>3 DEF SweepRelease, Settled, IsOpen, TypeOK, HoldRows
    <3> QED
      BY <2>1, <2>2, <2>3, <3>1, SyncKeepsMonths DEF SweepRelease, SpendAndRelease
  <2>4. CASE ~IsOpen(k)
    BY <2>1, <2>2, <2>4, NoSyncKeepsMonths DEF SweepRelease, balanceRow, IsOpen
  <2> QED
    BY <2>3, <2>4
<1>7. CASE Tick
  <2>1. /\ now' = now + 1 /\ now' \in Instants /\ now \in Instants /\ sweep' = {}
    BY <1>7, SizesAssumption DEF Tick, TypeOK, Instants, MonthInv, sweepVars
  <2>2. /\ MonthOf[now] <= MonthOf[now'] /\ MonthOf[now] \in Nat /\ MonthOf[now'] \in Nat
        /\ period \in Int
    BY <2>1, CalendarAssumption DEF Instants, TypeOK, Months, NoPeriod
  <2>3. period' <= MonthOf[now']
    BY <1>7, <2>2 DEF Tick, MonthInv, balanceRow
  <2> QED
    BY <1>7, <2>1, <2>3
    DEF Tick, MonthInv, balanceRow, ledgerRows, IsOpen, GrantedOncePerMonth
<1>8. CASE \/ \E k \in Holds : Refund(k)
           \/ \E p \in Purchases, c \in Packs : StartPurchase(p, c)
           \/ \E p \in Purchases : CompletePurchase(p)
           \/ \E c \in Corrections, n \in CorrectionSizes : Correct(c, n)
           \/ SweepCollect \/ SweepDies
           \/ \E full \in BOOLEAN, quota \in PlanQuotas : ChangeEntitlement(full, quota)
           \/ UNCHANGED vars
  <2>1. /\ UNCHANGED <<now, period, granted, grantedIn, holds>>
        /\ sweep' # {} => sweepAt' = now
    BY <1>8 DEF Refund, StartPurchase, CompletePurchase, Correct, SweepCollect, SweepDies,
                ChangeEntitlement, vars, balanceRow, ledgerRows, sweepVars, worldVars, MonthInv
  <2> QED
    BY <2>1, NoSyncKeepsMonths DEF IsOpen
<1> QED
  BY <1>1, <1>2, <1>3, <1>4, <1>5, <1>6, <1>7, <1>8 DEF Next

LEMMA MonthsStart == Init => MonthInv
<1> SUFFICES ASSUME Init PROVE MonthInv
  OBVIOUS
<1>1. MonthOf[0] \in Nat
  BY SizesAssumption, CalendarAssumption DEF Instants
<1> QED
  BY <1>1 DEF Init, MonthInv, IsOpen, NoHold, NoPeriod, GrantedOncePerMonth

(* A month's allowance is granted once: over a whole month an organization *)
(* is granted at most what one of its plans allows, however its plan went  *)
(* up and down.  The assumption is what the code needs and does not secure: *)
(* that a transaction works with the clock of its own instant.             *)
THEOREM AllowanceGrantedOnce ==
  ASSUME Skew = 0
  PROVE  Spec => []GrantedOncePerMonth
<1>1. AccountInv => TypeOK
  BY DEF AccountInv
<1>2. TypeOK /\ MonthInv /\ [Next]_vars => MonthInv'
  BY MonthsKept
<1>3. MonthInv => GrantedOncePerMonth
  BY DEF MonthInv
<1> QED
  BY <1>1, <1>2, <1>3, MonthsStart, AccountInvariant, PTL DEF Spec
-----------------------------------------------------------------------------
(* The allowance that open reservations hold from month m. *)
HeldFrom(m) ==
  [k \in Holds |-> IF IsOpen(k) /\ holds[k].period = m
                   THEN holds[k].amount[Allowance] ELSE 0]

(* No leak, said of this month: what is free of the allowance and what     *)
(* reservations of this month hold was granted this month.                 *)
FreshInv ==
  (remaining[Allowance] - reserved[Allowance]) + SumTo(HeldFrom(period), NumHolds) <= granted

LEMMA HeldFromType ==
  ASSUME TypeOK, NEW m
  PROVE  HeldFrom(m) \in [1..NumHolds -> Nat] /\ HeldFrom(m) \in [1..NumHolds -> Int]
<1>1. \A k \in Holds : holds[k].amount[Allowance] \in Nat
  BY DEF TypeOK, HoldRows, Amounts, Buckets
<1> QED
  BY <1>1 DEF HeldFrom, Holds

(* The sync itself keeps it: a new month starts with nothing held from it. *)
LEMMA FreshSyncs ==
  ASSUME AccountInv, MonthInv, FreshInv
  PROVE  (Synced(now) - reserved[Allowance]) + SumTo(HeldFrom(MonthOf[now]), NumHolds)
           <= GrantedSoFar(now) + Missing(now)
<1>0. TypeOK /\ ReservedWithinRemaining /\ now \in Instants
  BY DEF AccountInv, TypeOK
<1> DEFINE held == SumTo(HeldFrom(MonthOf[now]), NumHolds)
<1>1. held \in Int
  BY <1>0, HeldFromType, SumToType, SizesAssumption
<1>2. CASE Rolls(now)
  <2>1. MonthOf[now] \in Nat /\ period \in Int /\ period < MonthOf[now]
    <3>1. MonthOf[now] \in Nat
      BY <1>0, CalendarAssumption
    <3>2. period \in Int
      BY <1>0, CalendarAssumption DEF TypeOK, Months, NoPeriod
    <3> QED
      BY <1>2, <3>1, <3>2 DEF Rolls, MonthInv
  <2>2. \A k \in Holds : IsOpen(k) => holds[k].period # MonthOf[now]
    BY <1>0, <2>1 DEF MonthInv
  <2>3. held = 0
    <3>1. \A k \in 1..NumHolds : HeldFrom(MonthOf[now])[k] = 0
      BY <2>2 DEF HeldFrom, Holds
    <3> QED
      BY <1>0, <3>1, HeldFromType, SumToZero, SizesAssumption
  <2>4. Expiring(now) = remaining[Allowance] - reserved[Allowance]
    BY <1>0, <1>2, SyncFacts DEF Expiring
  <2>5. GrantedSoFar(now) = 0
    BY <1>2 DEF GrantedSoFar
  <2> HIDE DEF held
  <2> QED
    BY <1>0, <2>3, <2>4, <2>5, SyncFacts DEF held
<1>3. CASE ~Rolls(now)
  <2>1. period = MonthOf[now] /\ Expiring(now) = 0 /\ GrantedSoFar(now) = granted
    BY <1>3 DEF Rolls, Expiring, GrantedSoFar
  <2>2. (remaining[Allowance] - reserved[Allowance]) + held <= granted
    BY <2>1 DEF FreshInv
  <2>3. granted \in Nat
    BY <1>0 DEF TypeOK
  <2> HIDE DEF held
  <2> QED
    BY <1>0, <1>1, <2>1, <2>2, <2>3, SyncFacts DEF held
<1> QED
  BY <1>2, <1>3

(* One reservation's step moves the sum by that reservation's change. *)
LEMMA HeldFromMoves ==
  ASSUME TypeOK, TypeOK', NEW m, NEW k \in Holds,
         \A j \in Holds : j # k => holds'[j] = holds[j]
  PROVE  /\ SumTo(HeldFrom(m)', NumHolds) =
              SumTo(HeldFrom(m), NumHolds) + HeldFrom(m)'[k] - HeldFrom(m)[k]
         /\ SumTo(HeldFrom(m), NumHolds) \in Int
         /\ HeldFrom(m)[k] \in Nat /\ HeldFrom(m)'[k] \in Nat
<1>1. HeldFrom(m) \in [1..NumHolds -> Int] /\ k \in 1..NumHolds
  BY HeldFromType DEF Holds
<1>2. \A j \in Holds : holds'[j].amount[Allowance] \in Nat
  BY DEF TypeOK, HoldRows, Amounts, Buckets
<1>3. HeldFrom(m)' \in [1..NumHolds -> Int] /\ HeldFrom(m)'[k] \in Nat
  BY <1>2 DEF HeldFrom, Holds
<1>4. \A j \in 1..NumHolds : j # k => HeldFrom(m)'[j] = HeldFrom(m)[j]
  BY DEF HeldFrom, Holds, IsOpen
<1>5. SumTo(HeldFrom(m)', NumHolds) =
        SumTo(HeldFrom(m), NumHolds) + HeldFrom(m)'[k] - HeldFrom(m)[k]
  BY <1>1, <1>3, <1>4, SumToChange, SizesAssumption
<1>6. SumTo(HeldFrom(m), NumHolds) \in Int
  BY <1>1, SumToType, SizesAssumption
<1>7. HeldFrom(m)[k] \in Nat
  BY HeldFromType DEF Holds
<1> QED
  BY <1>3, <1>5, <1>6, <1>7

(* Equal entries make equal sums: the month of the account is m. *)
LEMMA FreshRestated ==
  ASSUME NEW m, m = period', remaining'[Allowance] - reserved'[Allowance]
                               + SumTo(HeldFrom(m)', NumHolds) <= granted'
  PROVE  FreshInv'
<1>1. HeldFrom(period)' = HeldFrom(m)'
  BY DEF HeldFrom
<1> QED
  BY <1>1 DEF FreshInv

(* A transaction that syncs and moves one reservation k keeps it when what *)
(* it frees and what k holds from this month do not grow together.         *)
LEMMA FreshAfterSync ==
  ASSUME AccountInv, MonthInv, FreshInv, TypeOK', SyncPeriod(now), NEW k \in Holds,
         NEW m, m = MonthOf[now], \A j \in Holds : j # k => holds'[j] = holds[j],
         (remaining'[Allowance] - reserved'[Allowance]) + HeldFrom(m)'[k]
           <= (Synced(now) - reserved[Allowance]) + HeldFrom(m)[k]
  PROVE  FreshInv'
<1>0. /\ TypeOK /\ ReservedWithinRemaining /\ now \in Instants
      /\ remaining'[Allowance] \in Nat /\ reserved'[Allowance] \in Nat
  BY DEF AccountInv, TypeOK, Amounts, Buckets
<1>1. period' = m /\ granted' = GrantedSoFar(now) + Missing(now)
  BY DEF SyncPeriod
<1>2. (Synced(now) - reserved[Allowance]) + SumTo(HeldFrom(m), NumHolds)
        <= GrantedSoFar(now) + Missing(now)
  BY FreshSyncs
<1>3. /\ SumTo(HeldFrom(m)', NumHolds) =
           SumTo(HeldFrom(m), NumHolds) + HeldFrom(m)'[k] - HeldFrom(m)[k]
      /\ SumTo(HeldFrom(m), NumHolds) \in Int
      /\ HeldFrom(m)[k] \in Nat /\ HeldFrom(m)'[k] \in Nat
  BY <1>0, HeldFromMoves
<1>4. /\ Synced(now) \in Int /\ reserved[Allowance] \in Int
      /\ GrantedSoFar(now) + Missing(now) \in Int
  BY <1>0, SyncFacts
<1>5. remaining'[Allowance] - reserved'[Allowance] + SumTo(HeldFrom(m)', NumHolds) <= granted'
  BY <1>0, <1>1, <1>2, <1>3, <1>4
<1> QED
  BY <1>1, <1>5, FreshRestated

LEMMA FreshSummary ==
  ASSUME AccountInv, MonthInv, FreshInv, Summary(now)
  PROVE  FreshInv'
<1>1. PICK m : m = MonthOf[now]
  OBVIOUS
<1>2. HeldFrom(m)' = HeldFrom(m)
  BY DEF HeldFrom, IsOpen, Summary
<1>3. period' = m /\ granted' = GrantedSoFar(now) + Missing(now)
  BY <1>1 DEF Summary, SyncPeriod
<1>4. remaining'[Allowance] = Synced(now) /\ reserved' = reserved
  BY DEF Summary, AccountInv, TypeOK, Amounts, Buckets
<1>5. remaining'[Allowance] - reserved'[Allowance] + SumTo(HeldFrom(m)', NumHolds) <= granted'
  BY <1>1, <1>2, <1>3, <1>4, FreshSyncs
<1> QED
  BY <1>3, <1>5, FreshRestated

LEMMA FreshReserve ==
  ASSUME AccountInv, AccountInv', MonthInv, FreshInv, NEW k \in Holds,
         NEW unit, NEW quantity, NEW deadline, Reserve(k, unit, quantity, deadline, now)
  PROVE  FreshInv'
<1>0. TypeOK /\ TypeOK' /\ ReservedWithinRemaining /\ now \in Instants
  BY DEF AccountInv, TypeOK
<1>1. PICK m : m = MonthOf[now]
  OBVIOUS
<1> DEFINE a == Least(unit * quantity, FreeAllowance(now))
<1>2. /\ holds'[k].amount[Allowance] = a /\ holds[k].state = "none"
      /\ \A j \in Holds : j # k => holds'[j] = holds[j]
  BY <1>0, AmountFacts DEF Reserve, TypeOK
<1>3. a \in Nat
  BY <1>0, <1>2 DEF TypeOK, HoldRows, Amounts, Buckets
<1>4. /\ remaining'[Allowance] = Synced(now)
      /\ reserved'[Allowance] = reserved[Allowance] + a
  BY <1>0, AmountFacts DEF Reserve, TypeOK, Amounts, Buckets
<1>5. HeldFrom(m)[k] = 0 /\ HeldFrom(m)'[k] \in {0, a}
  BY <1>2 DEF HeldFrom, IsOpen
<1>6. Synced(now) \in Int /\ reserved[Allowance] \in Int
  BY <1>0, SyncFacts
<1>7. SyncPeriod(now)
  BY DEF Reserve
<1> HIDE DEF a
<1>8. (remaining'[Allowance] - reserved'[Allowance]) + HeldFrom(m)'[k]
        <= (Synced(now) - reserved[Allowance]) + HeldFrom(m)[k]
  BY <1>3, <1>4, <1>5, <1>6
<1> QED
  BY <1>0, <1>1, <1>2, <1>7, <1>8, FreshAfterSync

LEMMA FreshGivenBack ==
  ASSUME AccountInv, AccountInv', MonthInv, FreshInv, NEW k \in Holds, IsOpen(k),
         NEW spent \in Amounts, spent[Allowance] <= holds[k].amount[Allowance],
         SpendAndRelease(k, spent, now),
         NEW state \in {"committed", "released"}, NEW quantity, Settled(k, state, quantity)
  PROVE  FreshInv'
<1>0. TypeOK /\ TypeOK' /\ ReservedWithinRemaining /\ now \in Instants
  BY DEF AccountInv, TypeOK
<1>1. PICK m : m = MonthOf[now]
  OBVIOUS
<1> DEFINE amount == holds[k].amount[Allowance]
           back   == Minus(holds[k].amount, spent)
           lapsed == Lapsed(k, back, now)
<1>2. amount \in Nat /\ spent[Allowance] \in Nat /\ back[Allowance] = amount - spent[Allowance]
  BY <1>0, AmountFacts DEF TypeOK, HoldRows, Amounts, Buckets
<1>3. /\ holds'[k].state # "reserved"
      /\ \A j \in Holds : j # k => holds'[j] = holds[j]
  BY <1>0 DEF Settled, TypeOK, HoldRows
<1>4. /\ Expiring(now) \in Nat /\ Missing(now) \in Nat
      /\ Synced(now) = remaining[Allowance] - Expiring(now) + Missing(now)
      /\ remaining[Allowance] \in Nat /\ reserved[Allowance] \in Nat
  BY <1>0, SyncFacts
<1>5. /\ remaining'[Allowance] = (remaining[Allowance] - spent[Allowance])
                                   + (Missing(now) - Expiring(now) - lapsed)
      /\ reserved'[Allowance] = (reserved[Allowance] - spent[Allowance]) - back[Allowance]
      /\ SyncPeriod(now)
  BY AmountFacts DEF SpendAndRelease
<1>6. HeldFrom(m)'[k] = 0
  BY <1>3 DEF HeldFrom, IsOpen
<1>7. \/ lapsed = 0 /\ HeldFrom(m)[k] = amount
      \/ lapsed = back[Allowance] /\ HeldFrom(m)[k] = 0
  BY <1>1 DEF Lapsed, HeldFrom
<1> HIDE DEF amount, back, lapsed
<1>8. (remaining'[Allowance] - reserved'[Allowance]) + HeldFrom(m)'[k]
        <= (Synced(now) - reserved[Allowance]) + HeldFrom(m)[k]
  BY <1>2, <1>4, <1>5, <1>6, <1>7
<1> QED
  BY <1>0, <1>1, <1>3, <1>5, <1>8, FreshAfterSync

LEMMA FreshCommit ==
  ASSUME AccountInv, AccountInv', FreshInv, NEW k \in Holds, NEW t, Commit(k, t)
  PROVE  FreshInv'
<1>0. TypeOK /\ TypeOK'
  BY DEF AccountInv
<1>1. PICK m : m = period
  OBVIOUS
<1>2. /\ holds'[k].state # "reserved" /\ period' = m /\ granted' = granted
      /\ \A j \in Holds : j # k => holds'[j] = holds[j]
  BY <1>0, <1>1 DEF Commit, Settled, TypeOK, HoldRows
<1>3. /\ SumTo(HeldFrom(m)', NumHolds) =
           SumTo(HeldFrom(m), NumHolds) + HeldFrom(m)'[k] - HeldFrom(m)[k]
      /\ SumTo(HeldFrom(m), NumHolds) \in Int
      /\ HeldFrom(m)[k] \in Nat /\ HeldFrom(m)'[k] \in Nat
  BY <1>0, <1>2, HeldFromMoves
<1>4. HeldFrom(m)'[k] = 0
  BY <1>2 DEF HeldFrom, IsOpen
<1>5. remaining'[Allowance] - reserved'[Allowance] = remaining[Allowance] - reserved[Allowance]
  <2>1. /\ remaining[Allowance] \in Int /\ reserved[Allowance] \in Int
        /\ holds[k].amount[Allowance] \in Int
    BY <1>0 DEF TypeOK, HoldRows, Amounts, Buckets
  <2>2. /\ remaining'[Allowance] = remaining[Allowance] - holds[k].amount[Allowance]
        /\ reserved'[Allowance] = reserved[Allowance] - holds[k].amount[Allowance]
    BY AmountFacts DEF Commit
  <2> QED
    BY <2>1, <2>2
<1>6. /\ remaining[Allowance] \in Int /\ reserved[Allowance] \in Int /\ granted \in Int
  BY <1>0 DEF TypeOK, Amounts, Buckets
<1>7. remaining[Allowance] - reserved[Allowance] + SumTo(HeldFrom(m), NumHolds) <= granted
  BY <1>1 DEF FreshInv
<1>8. remaining'[Allowance] - reserved'[Allowance] + SumTo(HeldFrom(m)', NumHolds) <= granted'
  BY <1>2, <1>3, <1>4, <1>5, <1>6, <1>7
<1> QED
  BY <1>2, <1>8, FreshRestated

(* Transactions that leave the allowance and the reservations alone. *)
LEMMA FreshElsewhere ==
  ASSUME FreshInv, UNCHANGED <<holds, reserved, period, granted>>,
         remaining'[Allowance] = remaining[Allowance]
  PROVE  FreshInv'
<1>1. HeldFrom(period)' = HeldFrom(period)
  BY DEF HeldFrom, IsOpen
<1> QED
  BY <1>1 DEF FreshInv

LEMMA FreshKept ==
  ASSUME Skew = 0, Refunds = FALSE, AccountInv, AccountInv', MonthInv, FreshInv, [Next]_vars
  PROVE  FreshInv'
<1>0. TypeOK
  BY DEF AccountInv
<1>a. Nothing \in Amounts /\ \A k \in Holds : Nothing[Allowance] <= holds[k].amount[Allowance]
  BY <1>0 DEF TypeOK, HoldRows, Amounts, Buckets, Nothing, Split
<1>1. CASE \E t \in Readings : Summary(t)
  BY <1>0, <1>1, FreshReadings, FreshSummary
<1>2. CASE \E k \in Holds, u \in UnitCosts, q \in Quantities, t \in Readings :
             \E d \in Instants \cup {NoDeadline} : Reserve(k, u, q, d, t)
  BY <1>0, <1>2, FreshReadings, FreshReserve
<1>3. CASE \E k \in Holds, t \in Readings : Commit(k, t)
  BY <1>3, FreshCommit
<1>4. CASE \E k \in Holds, t \in Readings : Release(k, t)
  <2>1. PICK k \in Holds : Release(k, now)
    BY <1>0, <1>4, FreshReadings
  <2> QED
    BY <1>a, <2>1, FreshGivenBack DEF Release
<1>5. CASE \E k \in Holds, q \in Quantities \cup {0}, t \in Readings : Settle(k, q, t)
  <2>1. PICK k \in Holds, q \in Quantities \cup {0} : Settle(k, q, now)
    BY <1>0, <1>5, FreshReadings
  <2> DEFINE delivered == Least(q, holds[k].quantity)
             cost == Least(delivered * holds[k].unit, holds[k].cost)
             fromAllowance == Least(cost, holds[k].amount[Allowance])
             spent == Split(fromAllowance, cost - fromAllowance)
             state == IF delivered > 0 THEN "committed" ELSE "released"
  <2>2. q \in Nat
    BY SizesAssumption
  <2>3. /\ fromAllowance \in Nat /\ cost - fromAllowance \in Nat
        /\ fromAllowance <= holds[k].amount[Allowance]
    BY <2>2, SettlementFits
  <2>4. spent \in Amounts /\ spent[Allowance] = fromAllowance
    BY <2>3, AmountType, AmountFacts
  <2>5. IsOpen(k) /\ SpendAndRelease(k, spent, now) /\ Settled(k, state, delivered)
    BY <2>1 DEF Settle
  <2>6. state \in {"committed", "released"}
    OBVIOUS
  <2> HIDE DEF spent, state, delivered, fromAllowance
  <2> QED
    BY <2>3, <2>4, <2>5, <2>6, FreshGivenBack
<1>6. CASE \E k \in Holds : SweepRelease(k)
  <2>1. PICK k \in Holds : SweepRelease(k)
    BY <1>6
  <2>2. sweepAt = now
    BY <2>1 DEF SweepRelease, MonthInv
  <2>3. CASE IsOpen(k)
    BY <1>a, <2>1, <2>2, <2>3, FreshGivenBack DEF SweepRelease
  <2>4. CASE ~IsOpen(k)
    BY <2>1, <2>4, FreshElsewhere DEF SweepRelease, balanceRow
  <2> QED
    BY <2>3, <2>4
<1>7. CASE \/ \E p \in Purchases : CompletePurchase(p)
           \/ \E c \in Corrections, n \in CorrectionSizes : Correct(c, n)
  <2>1. remaining[Allowance] \in Nat
    BY <1>0 DEF TypeOK, Amounts, Buckets
  <2>2. \A n : Plus(remaining, Split(0, n))[Allowance] = remaining[Allowance]
    BY <2>1, AmountFacts
  <2>3. remaining'[Allowance] = remaining[Allowance]
    BY <1>7, <2>2 DEF CompletePurchase, Correct
  <2> QED
    BY <1>7, <2>3, FreshElsewhere DEF CompletePurchase, Correct
<1>8. CASE \/ \E p \in Purchases, c \in Packs : StartPurchase(p, c)
           \/ SweepCollect \/ SweepDies \/ Tick
           \/ \E full \in BOOLEAN, quota \in PlanQuotas : ChangeEntitlement(full, quota)
           \/ UNCHANGED vars
  BY <1>8, FreshElsewhere DEF StartPurchase, SweepCollect, SweepDies, Tick,
     ChangeEntitlement, vars, balanceRow
<1>9. CASE \E k \in Holds : Refund(k)
  BY <1>9 DEF Refund
<1> QED
  BY <1>1, <1>2, <1>3, <1>4, <1>5, <1>6, <1>7, <1>8, <1>9 DEF Next

LEMMA FreshStarts == Init => FreshInv
<1> SUFFICES ASSUME Init PROVE FreshInv
  OBVIOUS
<1>1. HeldFrom(period) \in [1..NumHolds -> Int]
      /\ \A k \in 1..NumHolds : HeldFrom(period)[k] = 0
  BY DEF Init, NoHold, IsOpen, HeldFrom, Holds
<1>2. SumTo(HeldFrom(period), NumHolds) = 0
  BY <1>1, SumToZero, SizesAssumption
<1>3. remaining[Allowance] = 0 /\ reserved[Allowance] = 0 /\ granted = 0
  BY AmountFacts DEF Init, Nothing
<1> QED
  BY <1>2, <1>3 DEF FreshInv

(* What is reserved of the allowance is held from this month or carried. *)
LEMMA FreshIsNoLeak ==
  ASSUME AccountInv, FreshInv
  PROVE  NoAllowanceLeak
<1>0. TypeOK /\ ReservedIsHeld
  BY DEF AccountInv
<1> DEFINE here == HeldFrom(period)
<1>1. \A k \in Holds : holds[k].amount[Allowance] \in Nat
  BY <1>0 DEF TypeOK, HoldRows, Amounts, Buckets
<1>2. /\ here \in [1..NumHolds -> Int] /\ Carried \in [1..NumHolds -> Int]
      /\ Held(Allowance) \in [1..NumHolds -> Int]
  BY <1>1 DEF HeldFrom, Carried, Held, Holds
<1>3. \A k \in 1..NumHolds : Held(Allowance)[k] = here[k] + Carried[k]
  BY <1>1 DEF HeldFrom, Carried, Held, Holds
<1> HIDE DEF here
<1>4. SumTo(Held(Allowance), NumHolds) = SumTo(here, NumHolds) + SumTo(Carried, NumHolds)
  BY <1>2, <1>3, SumToAdd, SizesAssumption
<1>5. reserved[Allowance] = SumTo(Held(Allowance), NumHolds)
  BY <1>0 DEF ReservedIsHeld, Buckets
<1>6. SumTo(here, NumHolds) \in Int /\ SumTo(Carried, NumHolds) \in Int
  BY <1>2, SumToType, SizesAssumption
<1>7. remaining[Allowance] \in Nat /\ reserved[Allowance] \in Nat /\ granted \in Nat
  BY <1>0 DEF TypeOK, Amounts, Buckets
<1>8. (remaining[Allowance] - reserved[Allowance]) + SumTo(here, NumHolds) <= granted
  BY DEF FreshInv, here
<1> QED
  BY <1>4, <1>5, <1>6, <1>7, <1>8 DEF NoAllowanceLeak

(* The allowance does not carry over (ADR-069 pkt 23): whatever            *)
(* reservations straddle the month, the bucket never holds more than this  *)
(* month's grant and what reservations of earlier months still hold.       *)
(* Assumed: transactions work with the clock of their own instant, and     *)
(* refund_credits, which nothing in the code calls, is not called.         *)
THEOREM AllowanceDoesNotCarryOver ==
  ASSUME Skew = 0, Refunds = FALSE
  PROVE  Spec => []NoAllowanceLeak
<1>1. AccountInv => TypeOK
  BY DEF AccountInv
<1>2. TypeOK /\ MonthInv /\ [Next]_vars => MonthInv'
  BY MonthsKept
<1>3. AccountInv /\ AccountInv' /\ MonthInv /\ FreshInv /\ [Next]_vars => FreshInv'
  BY FreshKept
<1>4. AccountInv /\ FreshInv => NoAllowanceLeak
  BY FreshIsNoLeak
<1> QED
  BY <1>1, <1>2, <1>3, <1>4, MonthsStart, FreshStarts, AccountInvariant, PTL DEF Spec
=============================================================================
