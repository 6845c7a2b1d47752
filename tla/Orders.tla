-------------------------------- MODULE Orders --------------------------------
(***************************************************************************)
(* shared/booking and shared/commerce: one booking, the order it became    *)
(* and the order's money.  Booking writes the order when it is made, moved *)
(* or called off (booking/services.py, booking/orders.py); commerce tells  *)
(* booking when a prepayment has come or its date has passed               *)
(* (commerce/payments.py, commerce/tasks.py).  Each operation is one       *)
(* transaction that locks the order, except for the task of the dates:     *)
(* it lists routes, looks at a payment and marks its route in three.       *)
(*                                                                         *)
(* The booking has a price and its organization has orders.  Whether the   *)
(* company has a bank account may change at any time; a booking of the     *)
(* team's own, a visit under way, is like one without an account.          *)
(***************************************************************************)
EXTENDS Integers, PrefixSums

CONSTANTS
  NumPayments,   \* bound: Payment rows
  NumRefunds,    \* bound: refunds in force at a time
  Quotes,        \* bound: gross, prepayment, balance_due_days_before
  TransferDays,  \* transfer_due_days of the offer
  ResponseTime,  \* response_hours of the offer
  RemindDays,    \* commerce.balance.remind_days_before
  Starts,        \* bound: when visits start
  MaxTime        \* bound: the clock

None == -1

ASSUME OrdersAssumption ==
  /\ NumPayments \in Nat /\ NumRefunds \in Nat /\ MaxTime \in Nat
  /\ TransferDays \in Nat /\ ResponseTime \in Nat /\ RemindDays \in Nat
  /\ Quotes \subseteq [gross : Nat, ahead : Nat, days : Nat \cup {None}]
  /\ Starts \subseteq 0..MaxTime
  /\ \A q \in Quotes : q.ahead <= q.gross /\ (q.days # None => 0 < q.ahead)

Rows  == 1..NumPayments
Marks == 1..NumRefunds
Times == 0..MaxTime

VARIABLES
  now,
  booking,    \* Appointment.status; "ended" is completed or no_show
  hold,       \* its hold_expires_at
  start,      \* its starts_at
  quote,      \* its quote
  order,      \* Order.status
  refundDue,  \* its refund_due_minor
  charged,    \* LedgerEntry: the sum of kind "charge"
  refunded,   \* LedgerEntry: the sum of kind "refund", as a positive amount
  rows,       \* Payment rows used
  pay,        \* Payment by row, with the due_at of its open PaymentRoute
  refund,     \* Refund: its amount while it is in force
  listed,     \* the task's list
  seen        \* the payment it has looked at, and when to come back

visit  == <<booking, hold, start, quote>>
ledger == <<charged, refunded>>
task   == <<listed, seen>>
vars   == <<now, visit, order, refundDue, ledger, rows, pay, refund, task>>

Pending == {"pending_request", "pending_payment"}
Closed  == {"canceled", "refunded"}
(* requires_payment: of PREPAYMENT_KINDS, or a balance.                    *)
Awaited == {"ahead", "balance"}

Row(state, amount, due, look) ==
  [state |-> state, amount |-> amount, due |-> due, look |-> look]
Received(n) == Row("succeeded", n, None, None)
(* Canceled or expired; amount and date are not read again.                *)
CalledOff == Row("closed", 0, None, None)

Earlier(a, b) == IF a < b THEN a ELSE b
Nonnegative(a) == IF a < 0 THEN 0 ELSE a

Paid == charged - refunded
Left == quote.gross - Paid

(* refund_owed *)
Owed(due, paid, back) ==
  IF due = None THEN 0 ELSE Nonnegative(Earlier(due - back, paid))

StatusFor(was, gross, due, paid, back) ==
  IF was = "draft" THEN "draft"
  ELSE IF was \in Closed
  THEN IF back > 0 /\ Owed(due, paid, back) = 0 THEN "refunded" ELSE "canceled"
  ELSE IF paid >= gross THEN "paid"
  ELSE IF paid > 0 THEN "partially_paid" ELSE "awaiting_payment"

PlacedStatus(gross) == IF gross > 0 THEN "awaiting_payment" ELSE "paid"
-----------------------------------------------------------------------------
(* request_prepayment, and the state of the booking that follows from it.  *)
Prepayment(q, s) ==
  LET due == Earlier(now + TransferDays, s) IN
  \/ /\ q.ahead > 0 /\ due > now
     /\ rows < NumPayments
     /\ booking' = "pending_payment" /\ hold' = due
     /\ rows' = rows + 1
     /\ pay' = [pay EXCEPT ![rows + 1] = Row("ahead", q.ahead, due, due)]
  \/ /\ booking' = "confirmed" /\ hold' = None
     /\ UNCHANGED <<rows, pay>>

(* record_new_booking: on request, or placed at once.                      *)
Create(q, s) ==
  /\ booking = "none" /\ s > now
  /\ quote' = q /\ start' = s
  /\ \/ /\ booking' = "pending_request" /\ order' = "draft"
        /\ hold' = Earlier(now + ResponseTime, s)
        /\ UNCHANGED <<rows, pay>>
     \/ /\ order' = PlacedStatus(q.gross)
        /\ Prepayment(q, s)
  /\ UNCHANGED <<now, refundDue, ledger, refund, task>>

(* answer_request, which does not look at the hold.                        *)
Accept ==
  /\ booking = "pending_request"
  /\ order' = PlacedStatus(quote.gross)
  /\ Prepayment(quote, start)
  /\ UNCHANGED <<now, start, quote, refundDue, ledger, refund, task>>

(* cancel_order: what is awaited is called off, what was paid is settled.  *)
CancelOrder(back) ==
  /\ refundDue' = IF Paid > 0 THEN refunded + back ELSE refundDue
  /\ order' = StatusFor("canceled", quote.gross, refundDue', Paid, refunded)
  /\ pay' = [i \in Rows |-> IF pay[i].state \in Awaited THEN CalledOff ELSE pay[i]]
  /\ UNCHANGED <<ledger, rows, refund>>

CallOff == booking' = "canceled" /\ hold' = None /\ UNCHANGED <<start, quote>>

Decline ==
  /\ booking = "pending_request"
  /\ CallOff /\ CancelOrder(Paid)
  /\ UNCHANGED <<now, task>>

ExpireRequest ==
  /\ booking = "pending_request" /\ hold <= now
  /\ CallOff /\ CancelOrder(Paid)
  /\ UNCHANGED <<now, task>>

Overdue == \E i \in Rows : pay[i].state = "balance" /\ pay[i].due <= now

(* cancel_appointment: everything goes back unless a confirmed booking is  *)
(* given up by its customer, before the start, or called off for a balance *)
(* not paid in time; its thresholds then say how much.                     *)
Cancel(back) ==
  /\ booking \in Pending \cup {"confirmed"}
  /\ back # Nonnegative(Paid) => booking = "confirmed" /\ (now < start \/ Overdue)
  /\ CallOff /\ CancelOrder(back)
  /\ UNCHANGED <<now, task>>

(* complete_appointment; mark_no_show does the same once it has begun.     *)
End ==
  /\ booking = "confirmed"
  /\ booking' = "ended"
  /\ UNCHANGED <<now, hold, start, quote, order, refundDue, ledger, rows, pay, refund, task>>
-----------------------------------------------------------------------------
(* _arm: the reminder's date, or the date itself.                          *)
LookAt(due) ==
  IF RemindDays > 0 /\ due - RemindDays > now THEN due - RemindDays ELSE due

(* plan_balance over the payments p, of which r rows are used.             *)
PlanBalance(p, r, left, due, plannedOnly) ==
  \E account \in BOOLEAN :
    LET waiting == {i \in Rows : p[i].state = "balance"}
        due_now == account /\ left > 0 /\ due > now
        planned == Row("balance", left, due, LookAt(due))
    IN \/ /\ waiting = {} /\ (plannedOnly \/ ~due_now)
          /\ pay' = p /\ rows' = r
       \/ /\ waiting = {} /\ ~plannedOnly /\ due_now
          /\ r < NumPayments
          /\ pay' = [p EXCEPT ![r + 1] = planned] /\ rows' = r + 1
       \/ /\ waiting # {}
          /\ pay' = [i \in Rows |->
               IF i \notin waiting THEN p[i]
               ELSE IF ~due_now THEN CalledOff
               ELSE IF p[i].due = due /\ p[i].amount = left THEN p[i] ELSE planned]
          /\ rows' = r

(* reschedule_appointment and move_stay; a quote without balance date      *)
(* leaves a balance that is awaited as it is.                              *)
Move(q, s) ==
  /\ booking = "confirmed" /\ s > now
  /\ quote' = q /\ start' = s
  /\ order' = StatusFor(order, q.gross, refundDue, Paid, refunded)
  /\ IF q.days # None THEN PlanBalance(pay, rows, q.gross - Paid, s - q.days, TRUE)
     ELSE UNCHANGED <<rows, pay>>
  /\ UNCHANGED <<now, booking, hold, refundDue, ledger, refund, task>>

(* record_payment *)
Covers(i, n) == pay[i].state \in Awaited /\ n >= pay[i].amount

Charge(n) ==
  /\ order \notin Closed \cup {"none", "draft"}
  /\ n <= Left
  /\ charged' = charged + n
  /\ order' = StatusFor(order, quote.gross, refundDue, Paid + n, refunded)
  /\ UNCHANGED <<now, start, quote, refunded, refundDue, refund, task>>

PayPart(n) ==
  /\ Charge(n)
  /\ rows < NumPayments
  /\ \A i \in Rows : ~Covers(i, n)
  /\ rows' = rows + 1
  /\ pay' = [i \in Rows |-> IF i = rows + 1 THEN Received(n)
                            ELSE IF pay[i].state \in Awaited THEN [pay[i] EXCEPT !.amount = @ - n]
                            ELSE pay[i]]
  /\ UNCHANGED <<booking, hold>>

PayBalance(i, n) ==
  /\ Charge(n)
  /\ pay[i].state = "balance" /\ Covers(i, n)
  /\ pay' = [pay EXCEPT ![i] = Received(n)]
  /\ UNCHANGED <<booking, hold, rows>>

(* With confirm_pending, and _plan_balance as _prepaid does it.            *)
PayAhead(i, n) ==
  /\ Charge(n)
  /\ pay[i].state = "ahead" /\ Covers(i, n)
  /\ IF booking = "pending_payment" THEN booking' = "confirmed" /\ hold' = None
     ELSE UNCHANGED <<booking, hold>>
  /\ LET p == [pay EXCEPT ![i] = Received(n)]
     IN IF quote.days # None /\ booking' = "confirmed"
        THEN PlanBalance(p, rows, Left - n, start - quote.days, FALSE)
        ELSE pay' = p /\ rows' = rows

(* Mutant: the order's status is left as it is.                            *)
VoidPaymentQuietly(i) ==
  /\ pay[i].state = "succeeded"
  /\ charged' = charged - pay[i].amount
  /\ pay' = [j \in Rows |-> IF j = i THEN CalledOff
                            ELSE IF pay[j].state \in Awaited
                                 THEN [pay[j] EXCEPT !.amount = @ + pay[i].amount]
                            ELSE pay[j]]
  /\ UNCHANGED <<now, visit, order, refunded, refundDue, rows, refund, task>>
VoidPayment(i) ==
  /\ pay[i].state = "succeeded"
  /\ charged' = charged - pay[i].amount
  /\ pay' = [j \in Rows |-> IF j = i THEN CalledOff
                            ELSE IF pay[j].state \in Awaited
                                 THEN [pay[j] EXCEPT !.amount = @ + pay[i].amount]
                            ELSE pay[j]]
  /\ order' = StatusFor(order, quote.gross, refundDue, Paid - pay[i].amount, refunded)
  /\ UNCHANGED <<now, visit, refunded, refundDue, rows, refund, task>>
-----------------------------------------------------------------------------
(* What is awaited of a balance changes by n; a prepayment stays.          *)
BalanceBy(n) ==
  pay' = [i \in Rows |-> IF pay[i].state = "balance"
                         THEN [pay[i] EXCEPT !.amount = Nonnegative(@ + n)] ELSE pay[i]]

GiveBack(n) ==
  /\ refunded' = refunded + n
  /\ order' = StatusFor(order, quote.gross, refundDue, Paid - n, refunded + n)
  /\ UNCHANGED <<now, visit, charged, refundDue, rows, task>>

(* Mutant: the rest that is awaited does not grow by what went back.       *)
RecordRefundOnly(j, n) ==
  /\ refund[j] = 0 /\ n <= Paid
  /\ refund' = [refund EXCEPT ![j] = n]
  /\ GiveBack(n) /\ UNCHANGED pay
RecordRefund(j, n) ==
  /\ refund[j] = 0 /\ n <= Paid
  /\ refund' = [refund EXCEPT ![j] = n]
  /\ GiveBack(n) /\ BalanceBy(n)

(* Mutant: the rest that is awaited may fall below nothing.                *)
VoidRefundBelow(j) ==
  /\ refund[j] > 0
  /\ refund' = [refund EXCEPT ![j] = 0]
  /\ GiveBack(-refund[j])
  /\ pay' = [i \in Rows |-> IF pay[i].state = "balance"
                            THEN [pay[i] EXCEPT !.amount = @ - refund[j]] ELSE pay[i]]
VoidRefund(j) ==
  /\ refund[j] > 0
  /\ refund' = [refund EXCEPT ![j] = 0]
  /\ GiveBack(-refund[j]) /\ BalanceBy(-refund[j])
-----------------------------------------------------------------------------
(* expire_due_payments: the routes that are due, one after the other.      *)
NothingSeen == [row |-> 0, again |-> None]

Due == {i \in Rows : pay[i].look # None /\ pay[i].look <= now}

(* Mutant: a route is taken for done once it is on the list.               *)
TaskListsOnce ==
  /\ listed = {} /\ seen = NothingSeen /\ Due # {}
  /\ listed' = Due
  /\ pay' = [i \in Rows |-> IF i \in Due THEN [pay[i] EXCEPT !.look = None] ELSE pay[i]]
  /\ UNCHANGED <<now, visit, order, refundDue, ledger, rows, refund, seen>>
TaskLists ==
  /\ listed = {} /\ seen = NothingSeen /\ Due # {}
  /\ listed' = Due
  /\ UNCHANGED <<now, visit, order, refundDue, ledger, rows, pay, refund, seen>>

(* payment_due: a prepayment expires with its order, and its booking if    *)
(* that still waits; a balance is reminded of, or reported late.           *)
(* Mutant: a balance that is late expires as well.                         *)
ExpiresToo(i) == pay[i].state \in Awaited /\ pay[i].due <= now
Expires(i) == pay[i].state = "ahead" /\ pay[i].due <= now

ComesBack(i) == pay[i].state = "balance" /\ pay[i].due > now

TaskLooks(i) ==
  /\ seen = NothingSeen /\ i \in listed
  /\ listed' = listed \ {i}
  /\ \E account \in BOOLEAN :
       seen' = [row |-> i, again |-> IF ComesBack(i) /\ account THEN pay[i].due ELSE None]
  /\ IF Expires(i)
     THEN /\ CancelOrder(Paid)
          /\ IF booking = "pending_payment" THEN CallOff ELSE UNCHANGED visit
     ELSE UNCHANGED <<visit, order, refundDue, ledger, rows, pay, refund>>
  /\ UNCHANGED now

(* The second transaction finds the route open, whoever has opened it.     *)
TaskMarks ==
  /\ seen # NothingSeen
  /\ seen' = NothingSeen
  /\ pay' = [pay EXCEPT ![seen.row].look = IF @ = None THEN None ELSE seen.again]
  /\ UNCHANGED <<now, visit, order, refundDue, ledger, rows, refund, listed>>

TaskDies ==
  /\ listed # {} \/ seen # NothingSeen
  /\ listed' = {} /\ seen' = NothingSeen
  /\ UNCHANGED <<now, visit, order, refundDue, ledger, rows, pay, refund>>

Tick ==
  /\ now < MaxTime
  /\ now' = now + 1
  /\ UNCHANGED <<visit, order, refundDue, ledger, rows, pay, refund, task>>
-----------------------------------------------------------------------------
NoQuote == [gross |-> 0, ahead |-> 0, days |-> None]

Init ==
  /\ now = 0
  /\ booking = "none" /\ hold = None /\ start = 0 /\ quote = NoQuote
  /\ order = "none" /\ refundDue = None /\ charged = 0 /\ refunded = 0
  /\ rows = 0 /\ pay = [i \in Rows |-> Row("unused", 0, None, None)]
  /\ refund = [j \in Marks |-> 0]
  /\ listed = {} /\ seen = NothingSeen

Book ==
  \/ \E q \in Quotes, s \in Starts : Create(q, s) \/ Move(q, s)
  \/ Accept \/ Decline \/ ExpireRequest \/ End
  \/ \E back \in 0..Nonnegative(Paid) : Cancel(back)

Money ==
  \/ \E n \in 1..Left : PayPart(n) \/ \E i \in Rows : PayBalance(i, n) \/ PayAhead(i, n)
  \/ \E i \in Rows : VoidPayment(i)
  \/ \E j \in Marks : VoidRefund(j) \/ \E n \in 1..Paid : RecordRefund(j, n)

Dates == TaskLists \/ (\E i \in Rows : TaskLooks(i)) \/ TaskMarks \/ TaskDies \/ Tick

Next == Book \/ Money \/ Dates

Spec == Init /\ [][Next]_vars

(* Celery beat starts both tasks every minute; a task that finds a payment *)
(* due again and again gets through with it at some time.                  *)
Fairness ==
  /\ WF_vars(Tick) /\ WF_vars(ExpireRequest)
  /\ WF_vars(TaskLists) /\ WF_vars(TaskMarks)
  /\ \A i \in Rows : SF_vars(TaskLooks(i))

FairSpec == Spec /\ Fairness
-----------------------------------------------------------------------------
Bookings == {"none", "confirmed", "canceled", "ended"} \cup Pending
Orderings == {"none", "draft", "awaiting_payment", "partially_paid", "paid"} \cup Closed

Payments == [state : {"unused", "succeeded", "closed"} \cup Awaited, amount : Nat,
             due : Int, look : Int]

(* Amounts awaited, received and given back are never negative (the check  *)
(* constraints of Payment and Refund), and the rows are used one by one.   *)
TypeOK ==
  /\ now \in Times /\ start \in Times
  /\ booking \in Bookings /\ order \in Orderings
  /\ hold \in Times \cup {None}
  /\ quote \in Quotes \cup {NoQuote}
  /\ refundDue \in Int /\ charged \in Int /\ refunded \in Int
  /\ rows \in 0..NumPayments
  /\ pay \in [Rows -> Payments]
  /\ \A i \in Rows : i > rows <=> pay[i].state = "unused"
  /\ refund \in [Marks -> Nat]
  /\ listed \subseteq Rows
  /\ seen \in [row : Rows \cup {0}, again : Int]

(* The two modules agree on what they never say to each other: a request   *)
(* is a draft, a booking waits for money exactly while a prepayment is     *)
(* awaited, and until its date; a booking called off has a closed order    *)
(* and nobody is asked for money any more; and an order waits for one      *)
(* payment at a time.                                                      *)
BookingFollowsOrder ==
  /\ booking = "none" <=> order = "none"
  /\ booking = "pending_request" <=> order = "draft"
  /\ booking = "canceled" <=> order \in Closed
  /\ booking = "pending_payment" <=> \E i \in Rows : pay[i].state = "ahead"
  /\ \A i \in Rows :
       /\ pay[i].state = "ahead" => pay[i].due = hold
       /\ pay[i].state = "balance" => booking \in {"confirmed", "ended"}
       /\ pay[i].state \in Awaited => \A j \in Rows : pay[j].state \in Awaited => i = j

Receipts(p) == [i \in Rows |-> IF p[i].state = "succeeded" THEN p[i].amount ELSE 0]

(* The ledger is what was received and given back, and the order's status  *)
(* always is the one that the ledger gives, whoever wrote last.            *)
OrderFollowsLedger ==
  /\ charged = SumTo(Receipts(pay), NumPayments)
  /\ refunded = SumTo(refund, NumRefunds)
  /\ order # "none" => order = StatusFor(order, quote.gross, refundDue, Paid, refunded)

(* Through parts, marks taken back, refunds and moves: what is awaited of  *)
(* a prepayment is what has not been received of it, whatever was given    *)
(* back; an awaited balance is no less than what is left of the price, as  *)
(* long as the quote has a date for it.                                    *)
AwaitedCoversTheRest ==
  \A i \in Rows :
    /\ pay[i].state = "ahead" => pay[i].amount > 0 /\ pay[i].amount + charged = quote.ahead
    /\ pay[i].state = "balance" /\ quote.days # None => pay[i].amount >= Left

(* Parts add up: what confirms a booking that waits for its prepayment is  *)
(* that all of it has been received.                                       *)
ConfirmedIsPaidAhead ==
  [][booking = "pending_payment" /\ booking' = "confirmed"
       => charged' >= quote.ahead /\ charged < quote.ahead]_vars

(* A booking does not hold its time for ever: it is confirmed, or the time *)
(* is let go, though tasks die and their lists grow old.                   *)
PendingEnds == booking \in Pending ~> booking \notin Pending
===============================================================================
