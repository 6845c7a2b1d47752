----------------------------- MODULE OrdersProofs -----------------------------
(***************************************************************************)
(* Proofs about Orders, for every number of payments and refunds, every    *)
(* set of quotes and every length of the dates: booking and commerce agree,*)
(* the order's status is the ledger's, and what is awaited covers what is  *)
(* missing.                                                                *)
(***************************************************************************)
EXTENDS Orders, PrefixSumsProofs

(* Open routes belong to payments that are awaited; that of a prepayment   *)
(* is due when its booking's hold ends.  What the task has on its list or  *)
(* has looked at is a payment that exists, and one that it has looked at   *)
(* is no prepayment that is still awaited.                                 *)
RoutesFit ==
  /\ \A i \in Rows :
       /\ pay[i].state = "ahead" => pay[i].look = hold /\ hold \in Times
       /\ pay[i].look # None => pay[i].state \in Awaited
  /\ \A i \in listed :
       i <= rows /\ (pay[i].state = "ahead" => pay[i].due <= now)
  /\ seen # NothingSeen =>
       seen.row \in Rows /\ seen.row <= rows /\ pay[seen.row].state # "ahead"

(* Before an order is placed there is no money.                            *)
BeginsEmpty ==
  /\ booking \in {"none", "pending_request"} => rows = 0 /\ charged = 0 /\ refunded = 0
  /\ booking # "none" => quote \in Quotes

OrdersInvariant ==
  /\ TypeOK /\ BookingFollowsOrder /\ OrderFollowsLedger /\ AwaitedCoversTheRest
  /\ RoutesFit /\ BeginsEmpty
-----------------------------------------------------------------------------
(* The status of an order that exists is settled at once: it says whether  *)
(* the order is a draft or closed, and giving it again changes nothing.    *)
LEMMA StatusSettles ==
  ASSUME NEW was \in Orderings \ {"none"}, NEW gross \in Int, NEW due \in Int,
         NEW paid \in Int, NEW back \in Int, NEW s, s = StatusFor(was, gross, due, paid, back)
  PROVE  /\ s \in Orderings \ {"none"}
         /\ s = "draft" <=> was = "draft"
         /\ s \in Closed <=> was \in Closed
         /\ s = StatusFor(s, gross, due, paid, back)
<1>1. CASE was = "draft"
  BY <1>1 DEF StatusFor, Orderings, Closed
<1>2. CASE was \in Closed
  BY <1>2 DEF StatusFor, Orderings, Closed
<1>3. CASE was \notin Closed /\ was # "draft"
  BY <1>3 DEF StatusFor, Orderings, Closed
<1> QED BY <1>1, <1>2, <1>3

(* An order that is placed has the status of a ledger without entries.     *)
LEMMA PlacedIsStatus ==
  ASSUME NEW gross \in Nat, NEW due \in Int
  PROVE  /\ PlacedStatus(gross) \in Orderings \ ({"none", "draft"} \cup Closed)
         /\ PlacedStatus(gross) = StatusFor(PlacedStatus(gross), gross, due, 0, 0)
BY DEF PlacedStatus, StatusFor, Orderings, Closed

LEMMA QuoteType ==
  ASSUME OrdersAssumption, TypeOK
  PROVE  /\ quote.gross \in Nat /\ quote.ahead \in Nat /\ quote.days \in Int
         /\ \A q \in Quotes : q.gross \in Nat /\ q.ahead \in Nat /\ q.days \in Int
                              /\ q.ahead <= q.gross
BY DEF OrdersAssumption, TypeOK, NoQuote, None

(* Receipts are amounts, row by row.                                       *)
LEMMA ReceiptsType ==
  ASSUME NEW p \in [Rows -> Payments]
  PROVE  Receipts(p) \in [1..NumPayments -> Int]
BY DEF Receipts, Rows, Payments

(* What leaves each receipt as it is leaves their sum.                     *)
LEMMA ReceiptsStay ==
  ASSUME NEW p \in [Rows -> Payments], NEW r \in [Rows -> Payments],
         \A i \in Rows : Receipts(p)[i] = Receipts(r)[i]
  PROVE  Receipts(p) = Receipts(r)
<1>1. Receipts(p) \in [Rows -> Int] /\ Receipts(r) \in [Rows -> Int]
  BY ReceiptsType DEF Rows
<1> QED BY <1>1

(* A row that is received, or taken back, moves the sum by its amount.     *)
LEMMA ReceiptsMove ==
  ASSUME OrdersAssumption, NEW p \in [Rows -> Payments], NEW r \in [Rows -> Payments],
         NEW k \in Rows, \A i \in Rows : i # k => Receipts(r)[i] = Receipts(p)[i]
  PROVE  SumTo(Receipts(r), NumPayments)
           = SumTo(Receipts(p), NumPayments) + Receipts(r)[k] - Receipts(p)[k]
BY ReceiptsType, SumToChange DEF Rows, OrdersAssumption

LEMMA RefundsMove ==
  ASSUME OrdersAssumption, NEW f \in [Marks -> Nat], NEW g \in [Marks -> Nat],
         NEW k \in Marks, \A j \in Marks : j # k => g[j] = f[j]
  PROVE  SumTo(g, NumRefunds) = SumTo(f, NumRefunds) + g[k] - f[k]
<1>1. /\ f \in [1..NumRefunds -> Int] /\ g \in [1..NumRefunds -> Int] /\ NumRefunds \in Nat
      /\ k \in 1..NumRefunds /\ \A j \in 1..NumRefunds : j # k => g[j] = f[j]
  BY DEF Marks, OrdersAssumption
<1> QED BY <1>1, SumToChange
-----------------------------------------------------------------------------
LEMMA InitHolds ==
  ASSUME OrdersAssumption, Init
  PROVE  OrdersInvariant
<1>1. pay \in [Rows -> Payments] /\ refund \in [Marks -> Nat]
  BY DEF Init, Row, Payments, None
<1>2. TypeOK
  BY <1>1 DEF Init, TypeOK, Times, OrdersAssumption, Bookings, Orderings, NothingSeen, Row,
              Rows, None
<1>3. BookingFollowsOrder
  BY DEF Init, BookingFollowsOrder, Row, Awaited, Closed
<1>4. OrderFollowsLedger
  <2>1. \A i \in 1..NumPayments : Receipts(pay)[i] = 0
    BY DEF Init, Receipts, Row, Rows
  <2>2. SumTo(Receipts(pay), NumPayments) = 0
    BY <1>1, <2>1, ReceiptsType, SumToZero DEF OrdersAssumption
  <2>3. refund \in [1..NumRefunds -> Int] /\ \A j \in 1..NumRefunds : refund[j] = 0
    BY DEF Init, Marks
  <2>4. SumTo(refund, NumRefunds) = 0
    BY <2>3, SumToZero DEF OrdersAssumption
  <2> QED BY <2>2, <2>4 DEF Init, OrderFollowsLedger
<1>5. AwaitedCoversTheRest /\ RoutesFit /\ BeginsEmpty
  BY DEF Init, AwaitedCoversTheRest, RoutesFit, BeginsEmpty, Row
<1> QED BY <1>2, <1>3, <1>4, <1>5 DEF OrdersInvariant

(* Calling an order off asks nobody for money any more and touches no      *)
(* entry of the ledger.                                                    *)
LEMMA CancelKeeps ==
  ASSUME OrdersAssumption, OrdersInvariant, booking \in Pending \cup {"confirmed"},
         NEW back \in Int, CancelOrder(back), CallOff, now' = now,
         listed' \subseteq listed,
         \/ seen' = seen
         \/ seen' \in [row : Rows, again : Int] /\ seen'.row <= rows
  PROVE  OrdersInvariant'
<1> USE DEF OrdersInvariant
<1>1. /\ Paid \in Int /\ charged \in Int /\ refunded \in Int /\ refundDue' \in Int
      /\ quote.gross \in Int
  BY QuoteType DEF TypeOK, CancelOrder, Paid
<1>2. order' \in Closed /\ order' \in Orderings
      /\ order' = StatusFor(order', quote.gross, refundDue', Paid, refunded)
  BY <1>1, StatusSettles DEF CancelOrder, Orderings, Closed
<1>3. UNCHANGED <<charged, refunded, rows, refund, start, quote>>
      /\ booking' = "canceled" /\ hold' = None
  BY DEF CancelOrder, CallOff, ledger
<1>4. /\ pay' \in [Rows -> Payments]
      /\ \A i \in Rows : pay'[i] = IF pay[i].state \in Awaited THEN CalledOff ELSE pay[i]
  <2>1. CalledOff \in Payments
    BY DEF CalledOff, Row, Payments, None
  <2> QED BY <2>1 DEF CancelOrder, TypeOK
<1>5. \A i \in Rows : pay'[i].state \notin Awaited /\ (pay'[i].state = "unused" <=> pay[i].state = "unused")
  BY <1>4 DEF CalledOff, Row, Awaited
<1>6. seen' \in [row : Rows \cup {0}, again : Int]
  BY DEF TypeOK
<1>7. TypeOK'
  BY <1>1, <1>2, <1>3, <1>4, <1>5, <1>6 DEF TypeOK, Bookings
<1>8. BookingFollowsOrder'
  BY <1>2, <1>3, <1>5 DEF BookingFollowsOrder, Awaited, Closed
<1>9. OrderFollowsLedger'
  <2>1. \A i \in Rows : Receipts(pay')[i] = Receipts(pay)[i]
    BY <1>4 DEF Receipts, CalledOff, Row, Awaited
  <2>2. Receipts(pay') = Receipts(pay)
    BY <1>4, <2>1, ReceiptsStay DEF TypeOK
  <2> QED BY <1>2, <1>3, <2>2 DEF OrderFollowsLedger, Paid
<1>10. AwaitedCoversTheRest'
  BY <1>5 DEF AwaitedCoversTheRest, Awaited
<1>11. RoutesFit'
  <2>1. \A i \in Rows : pay'[i].look = None
    BY <1>4 DEF RoutesFit, CalledOff, Row
  <2>2. \A i \in Rows : pay'[i].state # "ahead"
    BY <1>5 DEF Awaited
  <2>3. listed \subseteq Rows
    BY DEF TypeOK
  <2>4. seen' # NothingSeen => seen'.row \in Rows /\ seen'.row <= rows
    BY DEF RoutesFit, NothingSeen
  <2> QED BY <1>3, <2>1, <2>2, <2>3, <2>4 DEF RoutesFit
<1>12. BeginsEmpty'
  BY <1>3 DEF BeginsEmpty, Pending
<1> QED BY <1>7, <1>8, <1>9, <1>10, <1>11, <1>12

(* What is asked for ahead, when an order without money is placed.         *)
LEMMA PrepaymentKeeps ==
  ASSUME OrdersAssumption, OrdersInvariant, booking \in {"none", "pending_request"},
         NEW q \in Quotes, NEW s \in Times, Prepayment(q, s),
         quote' = q, start' = s, order' = PlacedStatus(q.gross),
         UNCHANGED <<now, refundDue, ledger, refund, task>>
  PROVE  OrdersInvariant'
<1> USE DEF OrdersInvariant
<1>1. q.gross \in Nat /\ q.ahead \in Nat /\ rows = 0 /\ charged = 0 /\ refunded = 0
      /\ refundDue \in Int /\ now \in Nat /\ Times \subseteq Nat /\ now \in Times
  BY QuoteType DEF BeginsEmpty, TypeOK, Times
<1>2. /\ order' \in Orderings \ ({"none", "draft"} \cup Closed)
      /\ order' = StatusFor(order', q.gross, refundDue, 0, 0)
  BY <1>1, PlacedIsStatus
<1>3. \A i \in Rows : pay[i].state = "unused" /\ i > 0
  BY <1>1 DEF TypeOK, Rows
<1>4. booking' \in {"pending_payment", "confirmed"}
  BY DEF Prepayment
<1>7. Paid' = 0 /\ charged' = charged /\ refunded' = refunded /\ refund' = refund
      /\ listed' = listed /\ seen' = seen /\ now' = now /\ refundDue' = refundDue
  BY <1>1 DEF Paid, ledger, task
<1>5. CASE booking' = "pending_payment"
  <2>0. PICK due : /\ due = Earlier(now + TransferDays, s)
                   /\ q.ahead > 0 /\ due > now /\ rows < NumPayments /\ hold' = due /\ rows' = 1
                   /\ pay' = [pay EXCEPT ![1] = Row("ahead", q.ahead, due, due)]
    BY <1>1, <1>5 DEF Prepayment
  <2>1. /\ q.ahead > 0 /\ hold' = due /\ rows' = 1 /\ rows < NumPayments
        /\ pay' = [pay EXCEPT ![1] = Row("ahead", q.ahead, due, due)]
    BY <2>0
  <2>2. due \in Times /\ due \in Int /\ 1 \in Rows
    BY <1>1, <2>0 DEF Earlier, Times, Rows, OrdersAssumption
  <2>3. Row("ahead", q.ahead, due, due) \in Payments
    BY <1>1, <2>2 DEF Row, Payments, Awaited
  <2>4. pay' \in [Rows -> Payments]
    BY <2>1, <2>3 DEF TypeOK
  <2>5. \A i \in Rows : pay'[i] = IF i = 1 THEN Row("ahead", q.ahead, due, due) ELSE pay[i]
    BY <2>1, <2>2 DEF TypeOK
  <2>6. TypeOK'
    BY <1>1, <1>2, <1>3, <1>5, <2>1, <2>2, <2>4, <2>5
    DEF TypeOK, Bookings, Pending, Row, Rows, ledger, task
  <2>7. BookingFollowsOrder'
    BY <1>2, <1>3, <1>5, <2>1, <2>2, <2>5 DEF BookingFollowsOrder, Row, Awaited
  <2>8. Receipts(pay') = Receipts(pay)
    <3>1. \A i \in Rows : Receipts(pay')[i] = Receipts(pay)[i]
      BY <1>3, <2>5 DEF Receipts, Row
    <3> QED BY <2>4, <3>1, ReceiptsStay DEF TypeOK
  <2>9. OrderFollowsLedger'
    BY <1>1, <1>2, <1>7, <2>8 DEF OrderFollowsLedger
  <2>10. AwaitedCoversTheRest'
    <3>1. \A i \in Rows : pay'[i].state = "ahead" => pay'[i].amount = q.ahead
      BY <1>3, <2>5 DEF Row
    <3>2. \A i \in Rows : pay'[i].state # "balance"
      BY <1>3, <2>5 DEF Row
    <3> QED BY <1>1, <1>7, <2>1, <3>1, <3>2 DEF AwaitedCoversTheRest
  <2>11. RoutesFit'
    <3>1. listed = {} /\ seen = NothingSeen
      BY <1>1 DEF RoutesFit, TypeOK, Rows
    <3>2. \A i \in Rows : pay[i].look = None
      BY <1>3 DEF RoutesFit, Awaited
    <3> QED BY <1>3, <1>7, <2>1, <2>2, <2>5, <3>1, <3>2 DEF RoutesFit, Row, Awaited
  <2>12. BeginsEmpty'
    BY <1>5 DEF BeginsEmpty
  <2> QED BY <2>6, <2>7, <2>9, <2>10, <2>11, <2>12
<1>6. CASE booking' = "confirmed"
  <2>1. hold' = None /\ UNCHANGED <<rows, pay>>
    BY <1>6 DEF Prepayment
  <2>2. TypeOK'
    BY <1>1, <1>2, <1>6, <2>1 DEF TypeOK, Bookings, ledger, task
  <2>3. BookingFollowsOrder'
    BY <1>2, <1>3, <1>6, <2>1 DEF BookingFollowsOrder, Awaited
  <2>4. OrderFollowsLedger'
    BY <1>1, <1>2, <1>7, <2>1 DEF OrderFollowsLedger
  <2>5. AwaitedCoversTheRest'
    BY <1>3, <2>1 DEF AwaitedCoversTheRest
  <2>6. RoutesFit'
    BY <1>3, <1>7, <2>1 DEF RoutesFit
  <2>7. BeginsEmpty'
    BY <1>6 DEF BeginsEmpty
  <2> QED BY <2>2, <2>3, <2>4, <2>5, <2>6, <2>7
<1> QED BY <1>4, <1>5, <1>6

(* Money that does not settle what is awaited: the booking stays.  What    *)
(* the rows keep, and what the awaited ones become, is left to the caller. *)
LEMMA LedgerMoves ==
  ASSUME OrdersAssumption, OrdersInvariant, order # "none",
         NEW m \in Int, NEW b \in Int, charged' = charged + m, refunded' = refunded + b,
         order' = StatusFor(order, quote.gross, refundDue, Paid + m - b, refunded + b),
         UNCHANGED <<now, booking, hold, start, quote, refundDue, listed, seen>>,
         rows' \in 0..NumPayments, rows <= rows', pay' \in [Rows -> Payments],
         refund' \in [Marks -> Nat],
         SumTo(Receipts(pay'), NumPayments) = SumTo(Receipts(pay), NumPayments) + m,
         SumTo(refund', NumRefunds) = SumTo(refund, NumRefunds) + b,
         booking \in {"none", "pending_request"} => rows' = 0 /\ m = 0 /\ b = 0,
         \A i \in Rows :
           /\ i > rows' <=> pay'[i].state = "unused"
           /\ \/ /\ pay'[i].state = pay[i].state
                 /\ pay'[i].due = pay[i].due /\ pay'[i].look = pay[i].look
              \/ pay[i].state # "ahead" /\ pay'[i].state \notin Awaited /\ pay'[i].look = None,
         AwaitedCoversTheRest'
  PROVE  OrdersInvariant'
<1> USE DEF OrdersInvariant
<1>1. /\ charged \in Int /\ refunded \in Int /\ refundDue \in Int /\ Paid + m - b \in Int
      /\ quote.gross \in Int /\ refunded + b \in Int /\ order \in Orderings
  BY QuoteType DEF TypeOK, Paid
<1>2. Paid' = Paid + m - b
  BY <1>1 DEF Paid
<1>3. /\ order' \in Orderings \ {"none"}
      /\ order' = "draft" <=> order = "draft"
      /\ order' \in Closed <=> order \in Closed
      /\ order' = StatusFor(order', quote.gross, refundDue, Paid + m - b, refunded + b)
  BY <1>1, StatusSettles
<1>4. /\ now' = now /\ booking' = booking /\ hold' = hold /\ start' = start /\ quote' = quote
      /\ refundDue' = refundDue /\ listed' = listed /\ seen' = seen
  OBVIOUS
<1>5. TypeOK'
  BY <1>1, <1>3, <1>4 DEF TypeOK
<1>6. BookingFollowsOrder'
  <2>1. \A i \in Rows : pay'[i].state = "ahead" <=> pay[i].state = "ahead"
    BY DEF Awaited
  <2>2. \A i \in Rows : pay'[i].state \in Awaited => pay'[i].state = pay[i].state /\ pay'[i].due = pay[i].due
    OBVIOUS
  <2> QED BY <1>3, <1>4, <2>1, <2>2 DEF BookingFollowsOrder, Awaited
<1>7. OrderFollowsLedger'
  BY <1>1, <1>2, <1>3, <1>4 DEF OrderFollowsLedger
<1>8. RoutesFit'
  <2>1. \A i \in Rows : pay'[i].state = "ahead" => pay[i].state = "ahead" /\ pay'[i].look = pay[i].look
                                                   /\ pay'[i].due = pay[i].due
    BY DEF Awaited
  <2>2. \A i \in Rows : pay'[i].look # None => pay'[i].state \in Awaited
    BY DEF RoutesFit
  <2>3. rows \in Int /\ rows' \in Int /\ \A i \in Rows : i \in Int
    BY DEF TypeOK, Rows
  <2>4. \A i \in listed : i \in Rows /\ i <= rows'
    BY <2>3 DEF RoutesFit, TypeOK
  <2>5. \A i \in listed : pay'[i].state = "ahead" => pay'[i].due <= now
    BY <2>1, <2>4 DEF RoutesFit
  <2>6. seen # NothingSeen => seen.row \in Rows /\ seen.row <= rows' /\ pay'[seen.row].state # "ahead"
    BY <2>1, <2>3 DEF RoutesFit
  <2>7. \A i \in Rows : pay'[i].state = "ahead" => pay'[i].look = hold /\ hold \in Times
    BY <2>1 DEF RoutesFit
  <2> QED BY <1>4, <2>2, <2>4, <2>5, <2>6, <2>7 DEF RoutesFit
<1>9. BeginsEmpty'
  BY <1>1, <1>4 DEF BeginsEmpty
<1> QED BY <1>5, <1>6, <1>7, <1>8, <1>9

(* A booking with money has an order that is placed.                       *)
LEMMA MoneyIsPlaced ==
  ASSUME OrdersAssumption, OrdersInvariant
  PROVE  /\ \A i \in Rows : pay[i].state # "unused" =>
              order \notin {"none", "draft"} /\ booking \notin {"none", "pending_request"}
         /\ Paid # 0 \/ order \notin {"none", "draft"} =>
              order \notin {"none", "draft"} /\ booking \notin {"none", "pending_request"}
BY DEF OrdersInvariant, BeginsEmpty, BookingFollowsOrder, TypeOK, Paid, Rows

(* The fields of a payment whose amount changes, and of one received.      *)
LEMMA AmountChanges ==
  ASSUME NEW p \in Payments, NEW a \in Int, NEW r, r = [p EXCEPT !.amount = a]
  PROVE  /\ r.state = p.state /\ r.due = p.due /\ r.look = p.look /\ r.amount = a
         /\ a \in Nat => r \in Payments
BY DEF Payments

LEMMA RowFields ==
  ASSUME NEW n \in Nat
  PROVE  /\ Received(n) \in Payments /\ CalledOff \in Payments
         /\ Received(n).state = "succeeded" /\ Received(n).amount = n
         /\ Received(n).due = None /\ Received(n).look = None
         /\ CalledOff.state = "closed" /\ CalledOff.due = None /\ CalledOff.look = None
BY DEF Received, CalledOff, Row, Payments, None

LEMMA PayPartKeeps ==
  ASSUME OrdersAssumption, OrdersInvariant, NEW n \in 1..Left, PayPart(n)
  PROVE  OrdersInvariant'
<1> USE DEF OrdersInvariant
<1>1. /\ charged \in Int /\ refunded \in Int /\ quote.gross \in Int /\ quote.ahead \in Int
      /\ n \in Nat /\ n > 0 /\ rows \in 0..NumPayments /\ NumPayments \in Nat /\ Paid \in Int
  BY QuoteType DEF TypeOK, Paid, Left, OrdersAssumption
<1>2. /\ order # "none" /\ order # "draft" /\ booking \notin {"none", "pending_request"}
  BY MoneyIsPlaced DEF PayPart, Charge
<1>3. /\ rows + 1 \in Rows /\ rows' = rows + 1 /\ pay[rows + 1].state = "unused"
      /\ \A i \in Rows : pay'[i] =
           IF i = rows + 1 THEN Received(n)
           ELSE IF pay[i].state \in Awaited THEN [pay[i] EXCEPT !.amount = pay[i].amount - n]
           ELSE pay[i]
  <2>1. rows < NumPayments /\ rows' = rows + 1
    BY DEF PayPart
  <2>2. rows + 1 \in Rows
    BY <1>1, <2>1 DEF Rows
  <2>3. pay[rows + 1].state = "unused"
    BY <1>1, <2>2 DEF TypeOK
  <2> QED BY <2>1, <2>2, <2>3, Zenon DEF PayPart
<1>4. /\ charged' = charged + n /\ refunded' = refunded
      /\ order' = StatusFor(order, quote.gross, refundDue, Paid + n, refunded)
      /\ UNCHANGED <<now, booking, hold, start, quote, refundDue, listed, seen, refund>>
  BY DEF PayPart, Charge, task
<1>5. \A i \in Rows : pay[i] \in Payments
  BY DEF TypeOK
<1>6. \A i \in Rows : pay[i].state \in Awaited =>
        /\ i # rows + 1 /\ pay[i].amount - n \in Nat
        /\ pay'[i] \in Payments /\ pay'[i].amount = pay[i].amount - n
        /\ pay'[i].state = pay[i].state /\ pay'[i].due = pay[i].due /\ pay'[i].look = pay[i].look
  <2> TAKE i \in Rows
  <2> HAVE pay[i].state \in Awaited
  <2>1. i # rows + 1
    BY <1>3 DEF Awaited
  <2>2. pay[i].amount \in Nat
    BY <1>5 DEF Payments
  <2>3. ~(n >= pay[i].amount)
    BY DEF PayPart, Covers
  <2>4. pay[i].amount - n \in Nat
    BY <1>1, <2>2, <2>3
  <2>5. pay'[i] = [pay[i] EXCEPT !.amount = pay[i].amount - n]
    BY <1>3, <2>1
  <2> QED BY <1>5, <2>1, <2>4, <2>5, AmountChanges
<1>7. /\ Received(n) \in Payments /\ Received(n).state = "succeeded"
      /\ Received(n).amount = n /\ Received(n).look = None
  BY <1>1, RowFields
<1>8. pay' \in [Rows -> Payments]
  <2>1. \A i \in Rows : pay'[i] \in Payments
    BY <1>3, <1>5, <1>6, <1>7
  <2> QED BY <2>1 DEF PayPart
<1>9. SumTo(Receipts(pay'), NumPayments) = SumTo(Receipts(pay), NumPayments) + n
  <2>1. \A i \in Rows : i # rows + 1 => Receipts(pay')[i] = Receipts(pay)[i]
    BY <1>3, <1>6 DEF Receipts, Awaited
  <2>2. Receipts(pay')[rows + 1] = n /\ Receipts(pay)[rows + 1] = 0
    BY <1>3, <1>7 DEF Receipts
  <2>3. SumTo(Receipts(pay), NumPayments) \in Int
    BY <1>1, ReceiptsType, SumToType DEF TypeOK
  <2> QED BY <1>1, <1>3, <1>8, <2>1, <2>2, <2>3, ReceiptsMove DEF TypeOK
<1>10. \A i \in Rows :
         /\ i > rows' <=> pay'[i].state = "unused"
         /\ \/ /\ pay'[i].state = pay[i].state
               /\ pay'[i].due = pay[i].due /\ pay'[i].look = pay[i].look
            \/ pay[i].state # "ahead" /\ pay'[i].state \notin Awaited /\ pay'[i].look = None
  <2>1. ASSUME NEW i \in Rows, i # rows + 1
        PROVE  /\ pay'[i].state = pay[i].state
               /\ pay'[i].due = pay[i].due /\ pay'[i].look = pay[i].look
    BY <1>3, <1>6, <2>1
  <2>2. pay'[rows + 1].state = "succeeded" /\ pay'[rows + 1].look = None
    BY <1>3, <1>7
  <2>3. \A i \in Rows : i > rows <=> pay[i].state = "unused"
    BY DEF TypeOK
  <2> QED BY <1>1, <1>3, <2>1, <2>2, <2>3 DEF Awaited, Rows
<1>11. AwaitedCoversTheRest'
  <2>1. Left' = Left - n
    BY <1>1, <1>4 DEF Left, Paid
  <2>2. \A i \in Rows : pay'[i].state \in Awaited =>
          /\ pay[i].state = pay'[i].state /\ pay'[i].amount = pay[i].amount - n
          /\ pay[i].amount \in Int /\ n < pay[i].amount
    <3> TAKE i \in Rows
    <3> HAVE pay'[i].state \in Awaited
    <3>1. pay[i].state \in Awaited
      BY <1>3, <1>7 DEF Awaited
    <3>2. pay[i].amount \in Int /\ ~(n >= pay[i].amount)
      BY <1>5, <3>1 DEF Payments, PayPart, Covers
    <3> QED BY <1>1, <1>6, <3>1, <3>2
  <2>3. Left \in Int
    BY <1>1 DEF Left
  <2> QED BY <1>1, <1>4, <2>1, <2>2, <2>3 DEF AwaitedCoversTheRest, Awaited
<1>12. SumTo(refund', NumRefunds) = SumTo(refund, NumRefunds) + 0
  BY <1>1, <1>4 DEF OrderFollowsLedger
<1>13. /\ rows' \in 0..NumPayments /\ rows <= rows' /\ refund' \in [Marks -> Nat]
       /\ Paid + n - 0 = Paid + n /\ refunded + 0 = refunded
  <2>1. rows' \in 0..NumPayments /\ rows <= rows'
    BY <1>1, <1>3 DEF Rows
  <2>2. refund' \in [Marks -> Nat]
    BY <1>4 DEF TypeOK
  <2>3. Paid + n - 0 = Paid + n /\ refunded + 0 = refunded
    BY <1>1
  <2> QED BY <2>1, <2>2, <2>3
<1>14. order' = StatusFor(order, quote.gross, refundDue, Paid + n - 0, refunded + 0)
  BY <1>4, <1>13
<1> QED
  BY <1>1, <1>2, <1>4, <1>8, <1>9, <1>10, <1>11, <1>12, <1>13, <1>14, LedgerMoves

LEMMA PayBalanceKeeps ==
  ASSUME OrdersAssumption, OrdersInvariant, NEW n \in 1..Left, NEW k \in Rows, PayBalance(k, n)
  PROVE  OrdersInvariant'
<1> USE DEF OrdersInvariant
<1>1. /\ charged \in Int /\ refunded \in Int /\ quote.gross \in Int
      /\ n \in Nat /\ rows \in 0..NumPayments /\ Paid \in Int /\ NumPayments \in Nat
  BY QuoteType DEF TypeOK, Paid, Left, OrdersAssumption
<1>2. order # "none" /\ booking \notin {"none", "pending_request"}
  BY MoneyIsPlaced DEF PayBalance, Charge
<1>3. /\ pay[k].state = "balance" /\ rows' = rows
      /\ \A i \in Rows : pay'[i] = IF i = k THEN Received(n) ELSE pay[i]
  BY DEF PayBalance, TypeOK
<1>4. /\ charged' = charged + n /\ refunded' = refunded
      /\ order' = StatusFor(order, quote.gross, refundDue, Paid + n, refunded)
      /\ UNCHANGED <<now, booking, hold, start, quote, refundDue, listed, seen, refund>>
  BY DEF PayBalance, Charge, task
<1>5. /\ Received(n) \in Payments /\ Received(n).state = "succeeded"
      /\ Received(n).amount = n /\ Received(n).look = None
  BY <1>1, RowFields
<1>6. pay' \in [Rows -> Payments]
  BY <1>5 DEF PayBalance, TypeOK
<1>7. SumTo(Receipts(pay'), NumPayments) = SumTo(Receipts(pay), NumPayments) + n
  <2>1. \A i \in Rows : i # k => Receipts(pay')[i] = Receipts(pay)[i]
    BY <1>3 DEF Receipts
  <2>2. Receipts(pay')[k] = n /\ Receipts(pay)[k] = 0
    BY <1>3, <1>5 DEF Receipts
  <2>3. SumTo(Receipts(pay), NumPayments) \in Int
    BY <1>1, ReceiptsType, SumToType DEF TypeOK
  <2> QED BY <1>1, <1>6, <2>1, <2>2, <2>3, ReceiptsMove DEF TypeOK
<1>8. \A i \in Rows :
        /\ i > rows' <=> pay'[i].state = "unused"
        /\ \/ /\ pay'[i].state = pay[i].state
              /\ pay'[i].due = pay[i].due /\ pay'[i].look = pay[i].look
           \/ pay[i].state # "ahead" /\ pay'[i].state \notin Awaited /\ pay'[i].look = None
  BY <1>3, <1>5 DEF TypeOK, Awaited
<1>9. AwaitedCoversTheRest'
  <2>1. \A i \in Rows : pay'[i].state \notin Awaited
    <3> TAKE i \in Rows
    <3>1. CASE i = k
      BY <1>3, <1>5, <3>1 DEF Awaited
    <3>2. CASE i # k
      BY <1>3, <3>2 DEF BookingFollowsOrder, Awaited
    <3> QED BY <3>1, <3>2
  <2> QED BY <2>1 DEF AwaitedCoversTheRest, Awaited
<1>10. /\ SumTo(refund', NumRefunds) = SumTo(refund, NumRefunds) + 0
       /\ Paid + n - 0 = Paid + n /\ refunded + 0 = refunded /\ n \in Int
  BY <1>1, <1>4 DEF OrderFollowsLedger
<1>11. rows' \in 0..NumPayments /\ rows <= rows' /\ refund' \in [Marks -> Nat]
  BY <1>1, <1>3, <1>4 DEF TypeOK
<1>12. order' = StatusFor(order, quote.gross, refundDue, Paid + n - 0, refunded + 0)
  BY <1>4, <1>10
<1> QED
  BY <1>1, <1>2, <1>4, <1>6, <1>7, <1>8, <1>9, <1>10, <1>11, <1>12, LedgerMoves

LEMMA VoidPaymentKeeps ==
  ASSUME OrdersAssumption, OrdersInvariant, NEW k \in Rows, VoidPayment(k)
  PROVE  OrdersInvariant'
<1> USE DEF OrdersInvariant
<1> DEFINE n == pay[k].amount
<1>1. /\ charged \in Int /\ refunded \in Int /\ quote.gross \in Int /\ quote.ahead \in Int
      /\ n \in Nat /\ rows \in 0..NumPayments /\ NumPayments \in Nat /\ Paid \in Int
  BY QuoteType DEF TypeOK, Paid, OrdersAssumption, Payments
<1>2. order # "none" /\ booking \notin {"none", "pending_request"}
  BY MoneyIsPlaced DEF VoidPayment
<1>3. /\ pay[k].state = "succeeded" /\ rows' = rows
      /\ \A i \in Rows : pay'[i] =
           IF i = k THEN CalledOff
           ELSE IF pay[i].state \in Awaited THEN [pay[i] EXCEPT !.amount = pay[i].amount + n]
           ELSE pay[i]
  BY Zenon DEF VoidPayment
<1>4. /\ charged' = charged - n /\ refunded' = refunded
      /\ order' = StatusFor(order, quote.gross, refundDue, Paid - n, refunded)
      /\ UNCHANGED <<now, booking, hold, start, quote, refundDue, listed, seen, refund>>
  BY DEF VoidPayment, task, visit
<1> HIDE DEF n
<1>5. \A i \in Rows : pay[i] \in Payments
  BY DEF TypeOK
<1>6. \A i \in Rows : pay[i].state \in Awaited =>
        /\ i # k /\ pay[i].amount \in Nat
        /\ pay'[i] \in Payments /\ pay'[i].amount = pay[i].amount + n
        /\ pay'[i].state = pay[i].state /\ pay'[i].due = pay[i].due /\ pay'[i].look = pay[i].look
  <2> TAKE i \in Rows
  <2> HAVE pay[i].state \in Awaited
  <2>1. i # k
    BY <1>3 DEF Awaited
  <2>2. pay[i].amount \in Nat /\ pay[i].amount + n \in Nat
    BY <1>1, <1>5 DEF Payments
  <2>3. pay'[i] = [pay[i] EXCEPT !.amount = pay[i].amount + n]
    BY <1>3, <2>1
  <2> QED BY <1>5, <2>1, <2>2, <2>3, AmountChanges
<1>7. /\ CalledOff \in Payments /\ CalledOff.state = "closed" /\ CalledOff.look = None
  BY RowFields
<1>8. pay' \in [Rows -> Payments]
  <2>1. \A i \in Rows : pay'[i] \in Payments
    BY <1>3, <1>5, <1>6, <1>7
  <2> QED BY <2>1 DEF VoidPayment
<1>9. SumTo(Receipts(pay'), NumPayments) = SumTo(Receipts(pay), NumPayments) + (-n)
  <2>1. \A i \in Rows : i # k => Receipts(pay')[i] = Receipts(pay)[i]
    BY <1>3, <1>6 DEF Receipts, Awaited
  <2>2. Receipts(pay')[k] = 0 /\ Receipts(pay)[k] = n
    BY <1>3, <1>7 DEF Receipts, n
  <2>3. SumTo(Receipts(pay), NumPayments) \in Int
    BY <1>1, ReceiptsType, SumToType DEF TypeOK
  <2> QED BY <1>1, <1>8, <2>1, <2>2, <2>3, ReceiptsMove DEF TypeOK
<1>10. \A i \in Rows :
         /\ i > rows' <=> pay'[i].state = "unused"
         /\ \/ /\ pay'[i].state = pay[i].state
               /\ pay'[i].due = pay[i].due /\ pay'[i].look = pay[i].look
            \/ pay[i].state # "ahead" /\ pay'[i].state \notin Awaited /\ pay'[i].look = None
  <2>1. ASSUME NEW i \in Rows, i # k
        PROVE  /\ pay'[i].state = pay[i].state
               /\ pay'[i].due = pay[i].due /\ pay'[i].look = pay[i].look
    BY <1>3, <1>6, <2>1
  <2>2. pay'[k].state = "closed" /\ pay'[k].look = None
    BY <1>3, <1>7
  <2>3. \A i \in Rows : i > rows <=> pay[i].state = "unused"
    BY DEF TypeOK
  <2> QED BY <1>3, <2>1, <2>2, <2>3 DEF Awaited
<1>11. AwaitedCoversTheRest'
  <2>1. Left' = Left + n
    BY <1>1, <1>4 DEF Left, Paid
  <2>2. \A i \in Rows : pay'[i].state \in Awaited =>
          /\ pay[i].state = pay'[i].state /\ pay'[i].amount = pay[i].amount + n
          /\ pay[i].amount \in Int
    <3> TAKE i \in Rows
    <3> HAVE pay'[i].state \in Awaited
    <3>1. pay[i].state \in Awaited
      BY <1>3, <1>7 DEF Awaited
    <3> QED BY <1>6, <3>1
  <2>3. Left \in Int
    BY <1>1 DEF Left
  <2> QED BY <1>1, <1>4, <2>1, <2>2, <2>3 DEF AwaitedCoversTheRest, Awaited
<1>12. /\ SumTo(refund', NumRefunds) = SumTo(refund, NumRefunds) + 0 /\ -n \in Int
       /\ Paid + (-n) - 0 = Paid - n /\ refunded + 0 = refunded /\ charged + (-n) = charged - n
  BY <1>1, <1>4 DEF OrderFollowsLedger
<1>13. rows' \in 0..NumPayments /\ rows <= rows' /\ refund' \in [Marks -> Nat]
  BY <1>1, <1>3, <1>4 DEF TypeOK
<1>14. order' = StatusFor(order, quote.gross, refundDue, Paid + (-n) - 0, refunded + 0)
       /\ charged' = charged + (-n) /\ refunded' = refunded + 0
  BY <1>4, <1>12
<1> QED
  BY <1>1, <1>2, <1>4, <1>8, <1>9, <1>10, <1>11, <1>12, <1>13, <1>14, LedgerMoves

(* A refund marked, and one taken back: b is what goes back.               *)
LEMMA RefundsKeep ==
  ASSUME OrdersAssumption, OrdersInvariant, NEW k \in Marks, NEW b \in Int,
         GiveBack(b), BalanceBy(b), order # "none",
         booking \notin {"none", "pending_request"},
         NEW a \in Nat, refund' = [refund EXCEPT ![k] = a], a = refund[k] + b
  PROVE  OrdersInvariant'
<1> USE DEF OrdersInvariant
<1>1. /\ charged \in Int /\ refunded \in Int /\ quote.gross \in Int /\ quote.ahead \in Int
      /\ rows \in 0..NumPayments /\ NumPayments \in Nat /\ NumRefunds \in Nat /\ Paid \in Int
  BY QuoteType DEF TypeOK, Paid, OrdersAssumption
<1>2. /\ charged' = charged /\ refunded' = refunded + b /\ rows' = rows
      /\ order' = StatusFor(order, quote.gross, refundDue, Paid - b, refunded + b)
      /\ UNCHANGED <<now, booking, hold, start, quote, refundDue, listed, seen>>
  BY DEF GiveBack, task, visit
<1>3. \A i \in Rows : pay[i] \in Payments /\ pay[i].amount \in Nat
  BY DEF TypeOK, Payments
<1>4. \A i \in Rows :
        /\ pay'[i] \in Payments /\ pay'[i].state = pay[i].state
        /\ pay'[i].due = pay[i].due /\ pay'[i].look = pay[i].look
        /\ pay'[i].amount = IF pay[i].state = "balance"
                            THEN Nonnegative(pay[i].amount + b) ELSE pay[i].amount
  <2> TAKE i \in Rows
  <2>1. CASE pay[i].state = "balance"
    <3>1. pay'[i] = [pay[i] EXCEPT !.amount = Nonnegative(pay[i].amount + b)]
      BY <2>1, Zenon DEF BalanceBy
    <3>2. Nonnegative(pay[i].amount + b) \in Nat
      BY <1>3 DEF Nonnegative
    <3> QED BY <1>3, <2>1, <3>1, <3>2, AmountChanges
  <2>2. CASE pay[i].state # "balance"
    BY <1>3, <2>2 DEF BalanceBy
  <2> QED BY <2>1, <2>2
<1>5. pay' \in [Rows -> Payments]
  BY <1>4 DEF BalanceBy
<1>6. SumTo(Receipts(pay'), NumPayments) = SumTo(Receipts(pay), NumPayments) + 0
  <2>1. \A i \in Rows : Receipts(pay')[i] = Receipts(pay)[i]
    BY <1>4 DEF Receipts
  <2>2. SumTo(Receipts(pay), NumPayments) \in Int
    BY <1>1, ReceiptsType, SumToType DEF TypeOK
  <2> QED BY <1>5, <2>1, <2>2, ReceiptsStay DEF TypeOK
<1>7. refund' \in [Marks -> Nat]
      /\ SumTo(refund', NumRefunds) = SumTo(refund, NumRefunds) + b
  <2>1. refund \in [1..NumRefunds -> Int] /\ refund' \in [1..NumRefunds -> Int]
        /\ refund' \in [Marks -> Nat]
    BY DEF TypeOK, Marks
  <2>2. refund'[k] = refund[k] + b /\ \A i \in 1..NumRefunds : i # k => refund'[i] = refund[i]
    BY DEF TypeOK, Marks
  <2>3. SumTo(refund', NumRefunds) = SumTo(refund, NumRefunds) + refund'[k] - refund[k]
    <3>1. refund \in [Marks -> Nat] /\ refund' \in [Marks -> Nat]
          /\ \A i \in Marks : i # k => refund'[i] = refund[i]
      BY <2>1, <2>2 DEF TypeOK, Marks
    <3> QED BY <3>1, RefundsMove, Zenon
  <2>4. SumTo(refund, NumRefunds) \in Int /\ refund[k] \in Int
    BY <1>1, <2>1, SumToType DEF Marks
  <2> QED BY <2>1, <2>2, <2>3, <2>4
<1>8. AwaitedCoversTheRest'
  <2>1. Left' = Left + b /\ Left \in Int
    BY <1>1, <1>2 DEF Left, Paid
  <2>2. \A i \in Rows : pay'[i].state = "balance" => pay'[i].amount >= pay[i].amount + b
    BY <1>3, <1>4 DEF Nonnegative
  <2>3. \A i \in Rows : pay[i].state = "balance" /\ quote.days # None => pay[i].amount >= Left
    BY DEF AwaitedCoversTheRest
  <2>4. \A i \in Rows : pay'[i].state = "balance" /\ quote.days # None => pay'[i].amount >= Left'
    BY <1>3, <1>4, <2>1, <2>2, <2>3 DEF Nonnegative
  <2>5. \A i \in Rows : pay'[i].state = "ahead" =>
          pay'[i].amount > 0 /\ pay'[i].amount + charged' = quote.ahead
    BY <1>2, <1>4 DEF AwaitedCoversTheRest
  <2> QED BY <1>2, <2>4, <2>5 DEF AwaitedCoversTheRest
<1>9. \A i \in Rows :
        /\ i > rows' <=> pay'[i].state = "unused"
        /\ \/ /\ pay'[i].state = pay[i].state
              /\ pay'[i].due = pay[i].due /\ pay'[i].look = pay[i].look
           \/ pay[i].state # "ahead" /\ pay'[i].state \notin Awaited /\ pay'[i].look = None
  BY <1>2, <1>4 DEF TypeOK
<1>10. /\ charged' = charged + 0 /\ Paid + 0 - b = Paid - b
       /\ rows' \in 0..NumPayments /\ rows <= rows'
  BY <1>1, <1>2
<1>11. order' = StatusFor(order, quote.gross, refundDue, Paid + 0 - b, refunded + b)
  BY <1>2, <1>10
<1>12. 0 \in Int
  OBVIOUS
<1> QED
  BY <1>2, <1>5, <1>6, <1>7, <1>8, <1>9, <1>10, <1>11, <1>12, LedgerMoves, Zenon

LEMMA RecordRefundKeeps ==
  ASSUME OrdersAssumption, OrdersInvariant, NEW k \in Marks, NEW n \in 1..Paid,
         RecordRefund(k, n)
  PROVE  OrdersInvariant'
<1>1. charged \in Int /\ refunded \in Int /\ Paid \in Int /\ n \in Nat /\ Paid # 0
  BY DEF OrdersInvariant, TypeOK, Paid
<1>2. order # "none" /\ booking \notin {"none", "pending_request"}
  BY <1>1, MoneyIsPlaced
<1>3. refund' = [refund EXCEPT ![k] = n] /\ n = refund[k] + n /\ GiveBack(n) /\ BalanceBy(n)
  BY <1>1 DEF RecordRefund
<1>4. n \in Int
  BY <1>1
<1> QED BY <1>1, <1>2, <1>3, <1>4, RefundsKeep, Zenon

(* A refund in force was given of what had been paid.                      *)
LEMMA VoidRefundKeeps ==
  ASSUME OrdersAssumption, OrdersInvariant, NEW k \in Marks, VoidRefund(k)
  PROVE  OrdersInvariant'
<1>1. refund[k] \in Nat /\ refund[k] > 0 /\ refund \in [1..NumRefunds -> Nat]
      /\ k \in 1..NumRefunds /\ NumRefunds \in Nat
  BY DEF VoidRefund, OrdersInvariant, TypeOK, Marks, OrdersAssumption
<1>2. refunded # 0
  <2>1. SumTo(refund, NumRefunds) \in Nat /\ refund[k] <= SumTo(refund, NumRefunds)
    BY <1>1, SumToBounds
  <2> QED BY <1>1, <2>1 DEF OrdersInvariant, OrderFollowsLedger
<1>3. order # "none" /\ booking \notin {"none", "pending_request"}
  BY <1>2 DEF OrdersInvariant, BeginsEmpty, BookingFollowsOrder
<1> DEFINE b == -refund[k]
<1>4. b \in Int /\ 0 = refund[k] + b /\ 0 \in Nat
  BY <1>1
<1>5. refund' = [refund EXCEPT ![k] = 0] /\ GiveBack(b) /\ BalanceBy(b)
  BY DEF VoidRefund
<1> HIDE DEF b
<1> QED BY <1>3, <1>4, <1>5, RefundsKeep

-----------------------------------------------------------------------------
(* The payments of a booking that is confirmed: no prepayment is awaited,  *)
(* and one balance at most.                                                *)
OnlyBalances(p, r) ==
  /\ p \in [Rows -> Payments] /\ r \in 0..NumPayments
  /\ \A i \in Rows :
       /\ i > r <=> p[i].state = "unused"
       /\ p[i].state # "ahead"
       /\ p[i].look # None => p[i].state \in Awaited
       /\ p[i].state \in Awaited => \A j \in Rows : p[j].state \in Awaited => i = j

(* The balance is planned, moved or called off; what was received stays.   *)
LEMMA PlanKeepsRows ==
  ASSUME OrdersAssumption, now \in Nat, NEW p, NEW r, OnlyBalances(p, r),
         NEW left \in Int, NEW due \in Int, NEW plannedOnly \in BOOLEAN,
         PlanBalance(p, r, left, due, plannedOnly)
  PROVE  /\ OnlyBalances(pay', rows') /\ r <= rows'
         /\ \A i \in Rows : pay'[i].state = "balance" => pay'[i].amount = left
         /\ Receipts(pay') = Receipts(p)
<1> DEFINE waiting == {i \in Rows : p[i].state = "balance"}
           planned == Row("balance", left, due, LookAt(due))
<1>1. PICK account \in BOOLEAN :
        \/ waiting = {} /\ pay' = p /\ rows' = r
        \/ /\ waiting = {} /\ left > 0 /\ r < NumPayments
           /\ pay' = [p EXCEPT ![r + 1] = planned] /\ rows' = r + 1
        \/ /\ waiting # {} /\ rows' = r
           /\ pay' = [i \in Rows |->
                IF i \notin waiting THEN p[i]
                ELSE IF ~(account /\ left > 0 /\ due > now) THEN CalledOff
                ELSE IF p[i].due = due /\ p[i].amount = left THEN p[i] ELSE planned]
  BY DEF PlanBalance
<1>2. /\ planned.state = "balance" /\ planned.amount = left /\ planned.look \in Int
      /\ left > 0 => planned \in Payments
  BY DEF Row, LookAt, Payments, Awaited, OrdersAssumption
<1>3. CalledOff \in Payments /\ CalledOff.state = "closed" /\ CalledOff.look = None
  BY RowFields
<1>4. /\ p \in [Rows -> Payments] /\ r \in 0..NumPayments /\ r \in Nat /\ NumPayments \in Nat
      /\ \A i \in Rows : p[i] \in Payments /\ (i \in waiting <=> p[i].state = "balance")
  BY DEF OnlyBalances, OrdersAssumption
<1> HIDE DEF planned, waiting
<1>5. CASE waiting = {} /\ pay' = p /\ rows' = r
  BY <1>4, <1>5
<1>6. CASE /\ waiting = {} /\ left > 0 /\ r < NumPayments
           /\ pay' = [p EXCEPT ![r + 1] = planned] /\ rows' = r + 1
  <2>1. r + 1 \in Rows /\ rows' \in 0..NumPayments /\ r <= rows'
    BY <1>4, <1>6 DEF Rows
  <2>2. \A i \in Rows : pay'[i] = IF i = r + 1 THEN planned ELSE p[i]
    BY <1>4, <1>6
  <2>3. pay' \in [Rows -> Payments]
    BY <1>2, <1>4, <1>6
  <2>4. \A i \in Rows : p[i].state \notin Awaited
    BY <1>4, <1>6 DEF OnlyBalances, Awaited
  <2>5. p[r + 1].state = "unused"
    BY <1>4, <2>1 DEF OnlyBalances
  <2>6. \A i \in Rows : i > rows' <=> pay'[i].state = "unused"
    BY <1>2, <1>4, <1>6, <2>2, <2>5 DEF OnlyBalances, Rows
  <2>7. OnlyBalances(pay', rows')
    BY <1>2, <2>1, <2>2, <2>3, <2>4, <2>6 DEF OnlyBalances, Awaited
  <2>8. Receipts(pay') = Receipts(p)
    <3>1. \A i \in Rows : Receipts(pay')[i] = Receipts(p)[i]
      BY <1>2, <2>2, <2>5 DEF Receipts
    <3> QED BY <1>4, <2>3, <3>1, ReceiptsStay
  <2> QED BY <1>2, <2>1, <2>2, <2>4, <2>7, <2>8 DEF Awaited
<1>7. CASE /\ waiting # {} /\ rows' = r
           /\ pay' = [i \in Rows |->
                IF i \notin waiting THEN p[i]
                ELSE IF ~(account /\ left > 0 /\ due > now) THEN CalledOff
                ELSE IF p[i].due = due /\ p[i].amount = left THEN p[i] ELSE planned]
  <2>1. \A i \in Rows : i \notin waiting => pay'[i] = p[i]
    BY <1>7
  <2>2. ASSUME NEW i \in Rows, i \in waiting
        PROVE  /\ pay'[i] \in Payments
               /\ \/ pay'[i] = CalledOff
                  \/ pay'[i].state = "balance" /\ pay'[i].amount = left
    <3>1. CASE ~(account /\ left > 0 /\ due > now)
      BY <1>3, <1>7, <2>2, <3>1
    <3>2. CASE account /\ left > 0 /\ due > now /\ p[i].due = due /\ p[i].amount = left
      BY <1>4, <1>7, <2>2, <3>2
    <3>3. CASE account /\ left > 0 /\ due > now /\ ~(p[i].due = due /\ p[i].amount = left)
      BY <1>2, <1>7, <2>2, <3>3
    <3> QED BY <3>1, <3>2, <3>3
  <2>3. pay' \in [Rows -> Payments]
    <3>1. \A i \in Rows : pay'[i] \in Payments
      BY <1>4, <2>1, <2>2
    <3> QED BY <1>7, <3>1
  <2>4. \A i \in Rows :
          /\ pay'[i].state = "unused" <=> p[i].state = "unused"
          /\ pay'[i].state # "ahead"
          /\ pay'[i].look # None => pay'[i].state \in Awaited
          /\ pay'[i].state \in Awaited => p[i].state \in Awaited
          /\ pay'[i].state = "balance" => pay'[i].amount = left
          /\ Receipts(pay')[i] = Receipts(p)[i]
    <3> TAKE i \in Rows
    <3>1. CASE i \in waiting
      BY <1>3, <1>4, <2>2, <3>1 DEF Receipts, Awaited
    <3>2. CASE i \notin waiting
      BY <1>4, <2>1, <3>2 DEF Receipts, OnlyBalances
    <3> QED BY <3>1, <3>2
  <2>5. OnlyBalances(pay', rows')
    BY <1>4, <1>7, <2>3, <2>4 DEF OnlyBalances
  <2>6. Receipts(pay') = Receipts(p)
    BY <1>4, <2>3, <2>4, ReceiptsStay
  <2> QED BY <1>4, <1>7, <2>4, <2>5, <2>6
<1> QED BY <1>1, <1>5, <1>6, <1>7

(* A booking that is confirmed once its payments are settled: moved, or    *)
(* its prepayment received.                                                *)
LEMMA ConfirmedKeeps ==
  ASSUME OrdersAssumption, OrdersInvariant,
         order \notin {"none", "draft"} \cup Closed,
         booking' = "confirmed", hold' \in Times \cup {None},
         start' \in Times, quote' \in Quotes,
         NEW m \in Int, charged' = charged + m, refunded' = refunded, refund' = refund,
         order' = StatusFor(order, quote'.gross, refundDue, Paid + m, refunded),
         UNCHANGED <<now, refundDue, listed, seen>>,
         OnlyBalances(pay', rows'), rows <= rows',
         SumTo(Receipts(pay'), NumPayments) = SumTo(Receipts(pay), NumPayments) + m,
         \A i \in Rows : pay'[i].state = "balance" /\ quote'.days # None =>
           pay'[i].amount >= quote'.gross - Paid - m
  PROVE  OrdersInvariant'
<1> USE DEF OrdersInvariant
<1>1. /\ charged \in Int /\ refunded \in Int /\ refundDue \in Int /\ Paid \in Int
      /\ quote'.gross \in Int /\ order \in Orderings /\ Paid + m \in Int
  BY QuoteType DEF TypeOK, Paid
<1>2. Paid' = Paid + m /\ Left' = quote'.gross - Paid - m
  BY <1>1 DEF Paid, Left
<1>3. /\ order' \in Orderings \ ({"none", "draft"} \cup Closed)
      /\ order' = StatusFor(order', quote'.gross, refundDue, Paid + m, refunded)
  BY <1>1, StatusSettles
<1>4. /\ now' = now /\ refundDue' = refundDue /\ listed' = listed /\ seen' = seen
      /\ pay' \in [Rows -> Payments] /\ rows' \in 0..NumPayments
  BY DEF OnlyBalances
<1>5. TypeOK'
  BY <1>1, <1>3, <1>4 DEF TypeOK, OnlyBalances, Bookings
<1>6. BookingFollowsOrder'
  BY <1>3 DEF BookingFollowsOrder, OnlyBalances
<1>7. OrderFollowsLedger'
  BY <1>1, <1>2, <1>3, <1>4 DEF OrderFollowsLedger
<1>8. AwaitedCoversTheRest'
  BY <1>2 DEF AwaitedCoversTheRest, OnlyBalances
<1>9. RoutesFit'
  <2>1. \A i \in Rows : pay'[i].state # "ahead" /\ (pay'[i].look # None => pay'[i].state \in Awaited)
    BY DEF OnlyBalances
  <2>2. rows \in Int /\ rows' \in Int /\ \A i \in Rows : i \in Int
    BY <1>4 DEF TypeOK, Rows
  <2>3. \A i \in listed : i \in Rows /\ i <= rows'
    BY <2>2 DEF RoutesFit, TypeOK
  <2>4. seen # NothingSeen => seen.row \in Rows /\ seen.row <= rows'
    BY <2>2 DEF RoutesFit
  <2> QED BY <1>4, <2>1, <2>3, <2>4 DEF RoutesFit
<1>10. BeginsEmpty'
  BY DEF BeginsEmpty
<1> QED BY <1>5, <1>6, <1>7, <1>8, <1>9, <1>10

LEMMA MoveKeeps ==
  ASSUME OrdersAssumption, OrdersInvariant, NEW q \in Quotes, NEW s \in Starts, Move(q, s)
  PROVE  OrdersInvariant'
<1>1. /\ charged \in Int /\ refunded \in Int /\ Paid \in Int /\ now \in Nat
      /\ q.gross \in Nat /\ q.days \in Int /\ s \in Nat /\ s \in Times
      /\ hold \in Times \cup {None} /\ TypeOK
  BY QuoteType DEF OrdersInvariant, TypeOK, Paid, Times, OrdersAssumption
<1>2. order \notin {"none", "draft"} \cup Closed /\ booking = "confirmed"
  BY DEF Move, OrdersInvariant, BookingFollowsOrder
<1>3. OnlyBalances(pay, rows)
  BY <1>2 DEF OnlyBalances, OrdersInvariant, TypeOK, BookingFollowsOrder, RoutesFit
<1>4. /\ quote' = q /\ start' = s /\ booking' = "confirmed" /\ hold' = hold
      /\ order' = StatusFor(order, q.gross, refundDue, Paid, refunded)
      /\ charged' = charged /\ refunded' = refunded /\ refund' = refund
      /\ UNCHANGED <<now, refundDue, listed, seen>>
  BY <1>2 DEF Move, ledger, task
<1>5. /\ OnlyBalances(pay', rows') /\ rows <= rows' /\ Receipts(pay') = Receipts(pay)
      /\ \A i \in Rows : pay'[i].state = "balance" /\ q.days # None =>
           pay'[i].amount >= q.gross - Paid - 0
  <2>1. CASE q.days # None
    <3>1. PlanBalance(pay, rows, q.gross - Paid, s - q.days, TRUE)
      BY <2>1 DEF Move
    <3>2. q.gross - Paid \in Int /\ s - q.days \in Int
      BY <1>1
    <3> HIDE DEF Move
    <3>3. /\ OnlyBalances(pay', rows') /\ rows <= rows' /\ Receipts(pay') = Receipts(pay)
          /\ \A i \in Rows : pay'[i].state = "balance" => pay'[i].amount = q.gross - Paid
      BY <1>1, <1>3, <3>1, <3>2, PlanKeepsRows
    <3> QED BY <1>1, <3>3
  <2>2. CASE q.days = None
    <3>1. pay' = pay /\ rows' = rows /\ rows \in Int
      BY <1>1, <2>2 DEF Move, TypeOK
    <3> QED BY <1>3, <2>2, <3>1
  <2> QED BY <2>1, <2>2
<1>6. SumTo(Receipts(pay'), NumPayments) = SumTo(Receipts(pay), NumPayments) + 0
  BY <1>1, <1>5 DEF OrdersInvariant, OrderFollowsLedger
<1>7. charged' = charged + 0 /\ Paid + 0 = Paid /\ 0 \in Int
  BY <1>1, <1>4
<1>8. order' = StatusFor(order, quote'.gross, refundDue, Paid + 0, refunded)
  BY <1>4, <1>7
<1>9. \A i \in Rows : pay'[i].state = "balance" /\ quote'.days # None =>
        pay'[i].amount >= quote'.gross - Paid - 0
  BY <1>4, <1>5
<1>10. hold' \in Times \cup {None} /\ start' \in Times /\ quote' \in Quotes
  BY <1>1, <1>4
<1> QED BY <1>2, <1>4, <1>5, <1>6, <1>7, <1>8, <1>9, <1>10, ConfirmedKeeps

LEMMA PayAheadKeeps ==
  ASSUME OrdersAssumption, OrdersInvariant, NEW n \in 1..Left, NEW k \in Rows, PayAhead(k, n)
  PROVE  OrdersInvariant'
<1> DEFINE p == [pay EXCEPT ![k] = Received(n)]
<1>1. /\ charged \in Int /\ refunded \in Int /\ Paid \in Int /\ now \in Nat
      /\ quote.gross \in Nat /\ quote.days \in Int /\ start \in Nat /\ start \in Times
      /\ n \in Nat /\ rows \in Int /\ TypeOK /\ Left = quote.gross - Paid /\ Left \in Int
  BY QuoteType DEF OrdersInvariant, TypeOK, Paid, Times, Left
<1>2. /\ pay[k].state = "ahead" /\ booking = "pending_payment"
      /\ order \notin {"none", "draft"} \cup Closed /\ quote \in Quotes
  BY DEF PayAhead, Charge, OrdersInvariant, BookingFollowsOrder, BeginsEmpty
<1>3. /\ booking' = "confirmed" /\ hold' = None /\ charged' = charged + n
      /\ refunded' = refunded /\ refund' = refund /\ quote' = quote /\ start' = start
      /\ order' = StatusFor(order, quote.gross, refundDue, Paid + n, refunded)
      /\ UNCHANGED <<now, refundDue, listed, seen>>
  BY <1>2 DEF PayAhead, Charge, task
<1>4. /\ Received(n) \in Payments /\ Received(n).state = "succeeded"
      /\ Received(n).amount = n /\ Received(n).look = None
  BY <1>1, RowFields
<1>5. \A i \in Rows : p[i] = IF i = k THEN Received(n) ELSE pay[i]
  BY <1>1 DEF TypeOK
<1>6. p \in [Rows -> Payments]
  BY <1>1, <1>4 DEF TypeOK
<1>7. \A i \in Rows : p[i].state \notin Awaited
  <2> TAKE i \in Rows
  <2>1. CASE i = k
    BY <1>4, <1>5, <2>1 DEF Awaited
  <2>2. CASE i # k
    BY <1>2, <1>5, <2>2 DEF OrdersInvariant, BookingFollowsOrder, Awaited
  <2> QED BY <2>1, <2>2
<1>8. OnlyBalances(p, rows)
  <2>1. \A i \in Rows : /\ p[i].look # None => p[i].state \in Awaited
                        /\ i > rows <=> p[i].state = "unused"
    BY <1>1, <1>2, <1>4, <1>5 DEF OrdersInvariant, RoutesFit, TypeOK
  <2> QED BY <1>1, <1>6, <1>7, <2>1 DEF OnlyBalances, TypeOK, Awaited
<1>9. SumTo(Receipts(p), NumPayments) = SumTo(Receipts(pay), NumPayments) + n
  <2>1. \A i \in Rows : i # k => Receipts(p)[i] = Receipts(pay)[i]
    BY <1>5 DEF Receipts
  <2>2. Receipts(p)[k] = n /\ Receipts(pay)[k] = 0
    BY <1>2, <1>4, <1>5 DEF Receipts
  <2>3. SumTo(Receipts(pay), NumPayments) \in Int
    BY <1>1, ReceiptsType, SumToType DEF TypeOK, OrdersAssumption
  <2>4. SumTo(Receipts(p), NumPayments)
          = SumTo(Receipts(pay), NumPayments) + Receipts(p)[k] - Receipts(pay)[k]
    BY <1>1, <1>6, <2>1, ReceiptsMove DEF TypeOK
  <2> QED BY <1>1, <2>2, <2>3, <2>4
<1>10. \/ /\ quote.days # None
          /\ PlanBalance(p, rows, Left - n, start - quote.days, FALSE)
       \/ quote.days = None /\ pay' = p /\ rows' = rows
  BY <1>2, <1>3 DEF PayAhead
<1> HIDE DEF p
<1>11. /\ OnlyBalances(pay', rows') /\ rows <= rows' /\ Receipts(pay') = Receipts(p)
       /\ \A i \in Rows : pay'[i].state = "balance" /\ quote.days # None =>
            pay'[i].amount >= quote.gross - Paid - n
  <2>1. CASE quote.days # None
    <3>1. Left - n \in Int /\ start - quote.days \in Int /\ Left - n = quote.gross - Paid - n
      BY <1>1
    <3>2. /\ OnlyBalances(pay', rows') /\ rows <= rows' /\ Receipts(pay') = Receipts(p)
          /\ \A i \in Rows : pay'[i].state = "balance" => pay'[i].amount = Left - n
      BY <1>1, <1>8, <1>10, <2>1, <3>1, PlanKeepsRows
    <3> QED BY <1>1, <3>1, <3>2
  <2>2. CASE quote.days = None
    BY <1>1, <1>8, <1>10, <2>2
  <2> QED BY <2>1, <2>2
<1>12. SumTo(Receipts(pay'), NumPayments) = SumTo(Receipts(pay), NumPayments) + n
  BY <1>9, <1>11
<1>13. /\ order' = StatusFor(order, quote'.gross, refundDue, Paid + n, refunded)
       /\ hold' \in Times \cup {None} /\ start' \in Times /\ quote' \in Quotes /\ n \in Int
       /\ \A i \in Rows : pay'[i].state = "balance" /\ quote'.days # None =>
            pay'[i].amount >= quote'.gross - Paid - n
  BY <1>1, <1>2, <1>3, <1>11
<1> QED BY <1>2, <1>3, <1>11, <1>12, <1>13, ConfirmedKeeps
-----------------------------------------------------------------------------
LEMMA RequestKeeps ==
  ASSUME OrdersAssumption, OrdersInvariant, NEW q \in Quotes, NEW s \in Starts,
         booking = "none", s > now, quote' = q, start' = s,
         booking' = "pending_request", order' = "draft",
         hold' = Earlier(now + ResponseTime, s),
         UNCHANGED <<rows, pay, now, refundDue, ledger, refund, task>>
  PROVE  OrdersInvariant'
<1> USE DEF OrdersInvariant
<1>1. /\ rows = 0 /\ charged = 0 /\ refunded = 0 /\ order = "none"
      /\ s \in Nat /\ s \in Times /\ s <= MaxTime
      /\ now \in Nat /\ ResponseTime \in Nat /\ MaxTime \in Nat
  BY DEF BeginsEmpty, BookingFollowsOrder, TypeOK, Times, OrdersAssumption
<1>2. hold' \in Times
  BY <1>1 DEF Earlier, Times
<1>3. UNCHANGED <<rows, pay, now, refundDue, charged, refunded, refund, listed, seen>>
  BY DEF ledger, task
<1>4. \A i \in Rows : pay[i].state = "unused"
  BY <1>1 DEF TypeOK, Rows
<1>5. TypeOK'
  BY <1>1, <1>2, <1>3 DEF TypeOK, Bookings, Pending, Orderings
<1>6. BookingFollowsOrder'
  BY <1>3, <1>4 DEF BookingFollowsOrder, Awaited, Closed
<1>7. OrderFollowsLedger'
  BY <1>3 DEF OrderFollowsLedger, StatusFor
<1>8. AwaitedCoversTheRest'
  BY <1>3, <1>4 DEF AwaitedCoversTheRest
<1>9. RoutesFit'
  BY <1>3, <1>4 DEF RoutesFit, Awaited
<1>10. BeginsEmpty'
  BY <1>1, <1>3 DEF BeginsEmpty
<1> QED BY <1>5, <1>6, <1>7, <1>8, <1>9, <1>10

LEMMA BookKeeps ==
  ASSUME OrdersAssumption, OrdersInvariant, Book
  PROVE  OrdersInvariant'
<1>1. ASSUME NEW q \in Quotes, NEW s \in Starts, Create(q, s)
      PROVE  OrdersInvariant'
  <2>1. s \in Times
    BY DEF OrdersAssumption, Times
  <2>2. CASE /\ booking' = "pending_request" /\ order' = "draft"
             /\ hold' = Earlier(now + ResponseTime, s) /\ UNCHANGED <<rows, pay>>
    BY <1>1, <2>2, RequestKeeps DEF Create
  <2>3. CASE order' = PlacedStatus(q.gross) /\ Prepayment(q, s)
    BY <1>1, <2>1, <2>3, PrepaymentKeeps DEF Create
  <2> QED BY <1>1, <2>2, <2>3 DEF Create
<1>2. CASE Accept
  <2>1. quote \in Quotes /\ start \in Times
    BY <1>2 DEF Accept, OrdersInvariant, BeginsEmpty, TypeOK
  <2> QED BY <1>2, <2>1, PrepaymentKeeps DEF Accept
<1>3. /\ Paid \in Int /\ listed \subseteq listed
      /\ \A n \in 0..Nonnegative(Paid) : n \in Int
  BY DEF OrdersInvariant, TypeOK, Paid, Nonnegative
<1>4. CASE Decline \/ ExpireRequest
  <2>1. booking \in Pending \cup {"confirmed"} /\ CancelOrder(Paid) /\ CallOff
        /\ now' = now /\ listed' \subseteq listed /\ seen' = seen
    BY <1>4 DEF Decline, ExpireRequest, Pending, task
  <2> QED BY <1>3, <2>1, CancelKeeps
<1>5. ASSUME NEW back \in 0..Nonnegative(Paid), Cancel(back)
      PROVE  OrdersInvariant'
  <2>1. booking \in Pending \cup {"confirmed"} /\ CancelOrder(back) /\ CallOff
        /\ now' = now /\ listed' \subseteq listed /\ seen' = seen
    BY <1>5 DEF Cancel, task
  <2> QED BY <1>3, <2>1, CancelKeeps
<1>6. CASE End
  <2> USE DEF OrdersInvariant
  <2>1. /\ booking = "confirmed" /\ booking' = "ended"
        /\ UNCHANGED <<now, hold, start, quote, order, refundDue, charged, refunded, rows,
                       pay, refund, listed, seen>>
    BY <1>6 DEF End, ledger, task
  <2>2. TypeOK'
    BY <2>1 DEF TypeOK, Bookings
  <2>3. BookingFollowsOrder'
    BY <2>1 DEF BookingFollowsOrder
  <2>4. OrderFollowsLedger' /\ AwaitedCoversTheRest'
    BY <2>1 DEF OrderFollowsLedger, AwaitedCoversTheRest, Paid, Left
  <2>5. RoutesFit' /\ BeginsEmpty'
    BY <2>1 DEF RoutesFit, BeginsEmpty
  <2> QED BY <2>2, <2>3, <2>4, <2>5
<1> QED BY <1>1, <1>2, <1>4, <1>5, <1>6, MoveKeeps DEF Book

LEMMA MoneyKeeps ==
  ASSUME OrdersAssumption, OrdersInvariant, Money
  PROVE  OrdersInvariant'
BY PayPartKeeps, PayBalanceKeeps, PayAheadKeeps, VoidPaymentKeeps, VoidRefundKeeps,
   RecordRefundKeeps DEF Money
-----------------------------------------------------------------------------
(* A step of the clock, or of the task, that finds nothing to settle.      *)
LEMMA TaskKeeps ==
  ASSUME OrdersAssumption, OrdersInvariant,
         UNCHANGED <<visit, order, refundDue, ledger, rows, refund>>, now' \in Times,
         pay' \in [Rows -> Payments],
         \A i \in Rows : /\ pay'[i].state = pay[i].state /\ pay'[i].due = pay[i].due
                         /\ pay'[i].amount = pay[i].amount,
         listed' \subseteq Rows, seen' \in [row : Rows \cup {0}, again : Int],
         RoutesFit'
  PROVE  OrdersInvariant'
<1> USE DEF OrdersInvariant
<1>1. UNCHANGED <<booking, hold, start, quote, order, refundDue, charged, refunded, rows, refund>>
  BY DEF visit, ledger
<1>2. TypeOK'
  BY <1>1 DEF TypeOK
<1>3. BookingFollowsOrder'
  BY <1>1 DEF BookingFollowsOrder
<1>4. Receipts(pay') = Receipts(pay)
  <2>1. \A i \in Rows : Receipts(pay')[i] = Receipts(pay)[i]
    BY DEF Receipts
  <2> QED BY <2>1, ReceiptsStay DEF TypeOK
<1>5. OrderFollowsLedger'
  BY <1>1, <1>4 DEF OrderFollowsLedger, Paid
<1>6. AwaitedCoversTheRest'
  BY <1>1 DEF AwaitedCoversTheRest, Left, Paid
<1>7. BeginsEmpty'
  BY <1>1 DEF BeginsEmpty
<1> QED BY <1>2, <1>3, <1>5, <1>6, <1>7

LEMMA TaskListsKeeps ==
  ASSUME OrdersAssumption, OrdersInvariant, TaskLists
  PROVE  OrdersInvariant'
<1> USE DEF OrdersInvariant
<1>1. /\ UNCHANGED <<now, visit, order, refundDue, ledger, rows, refund, pay, seen, hold>>
      /\ seen = NothingSeen /\ listed' = Due
  BY DEF TaskLists, visit
<1>2. \A i \in Due : i <= rows /\ (pay[i].state = "ahead" => pay[i].due <= now)
  BY DEF Due, RoutesFit, BookingFollowsOrder, TypeOK, Rows, Awaited
<1>3. RoutesFit'
  BY <1>1, <1>2 DEF RoutesFit
<1>4. listed' \subseteq Rows /\ now' \in Times /\ pay' \in [Rows -> Payments]
      /\ seen' \in [row : Rows \cup {0}, again : Int]
  BY <1>1 DEF Due, TypeOK
<1> QED BY <1>1, <1>3, <1>4, TaskKeeps

LEMMA TaskLooksKeeps ==
  ASSUME OrdersAssumption, OrdersInvariant, NEW k \in Rows, TaskLooks(k)
  PROVE  OrdersInvariant'
<1> USE DEF OrdersInvariant
<1>1. /\ k \in listed /\ k <= rows /\ (pay[k].state = "ahead" => pay[k].due <= now)
      /\ listed' \subseteq listed /\ listed' \subseteq Rows /\ now' = now
  BY DEF TaskLooks, RoutesFit, TypeOK
<1>2. seen' \in [row : Rows, again : Int] /\ seen'.row = k
  <2>1. pay[k].due \in Int /\ None \in Int
    BY DEF TypeOK, Payments, None
  <2> QED BY <2>1 DEF TaskLooks
<1>3. CASE Expires(k)
  <2>1. booking = "pending_payment"
    BY <1>3 DEF Expires, BookingFollowsOrder
  <2>2. CancelOrder(Paid) /\ CallOff /\ Paid \in Int
    BY <1>3, <2>1 DEF TaskLooks, Paid, TypeOK
  <2> QED BY <1>1, <1>2, <2>1, <2>2, CancelKeeps DEF Pending
<1>4. CASE ~Expires(k)
  <2>1. UNCHANGED <<visit, hold, order, refundDue, ledger, rows, pay, refund>>
    BY <1>4 DEF TaskLooks, visit
  <2>2. pay[k].state # "ahead"
    BY <1>1, <1>4 DEF Expires
  <2>3. RoutesFit'
    BY <1>1, <1>2, <2>1, <2>2 DEF RoutesFit
  <2>4. now' \in Times /\ pay' \in [Rows -> Payments]
        /\ seen' \in [row : Rows \cup {0}, again : Int]
    BY <1>1, <1>2, <2>1 DEF TypeOK
  <2> QED BY <1>1, <2>1, <2>3, <2>4, TaskKeeps
<1> QED BY <1>3, <1>4

LEMMA TaskMarksKeeps ==
  ASSUME OrdersAssumption, OrdersInvariant, TaskMarks
  PROVE  OrdersInvariant'
<1> USE DEF OrdersInvariant
<1> DEFINE k == seen.row
           look == IF pay[k].look = None THEN None ELSE seen.again
<1>1. /\ UNCHANGED <<now, visit, order, refundDue, ledger, rows, refund, listed, hold>>
      /\ seen' = NothingSeen /\ seen # NothingSeen
  BY DEF TaskMarks, visit
<1>2. k \in Rows /\ pay[k].state # "ahead" /\ look \in Int
  BY <1>1 DEF RoutesFit, TypeOK, None
<1>3. pay' = [pay EXCEPT ![k] = [pay[k] EXCEPT !.look = look]]
  BY <1>2, Zenon DEF TaskMarks
<1>4. (look # None => pay[k].state \in Awaited) /\ pay \in [Rows -> Payments]
  BY <1>2 DEF RoutesFit, TypeOK
<1> HIDE DEF k, look
<1>5. [pay[k] EXCEPT !.look = look] \in Payments
  BY <1>2, <1>4 DEF Payments
<1>6. pay' \in [Rows -> Payments]
  BY <1>2, <1>3, <1>4, <1>5
<1>7. ASSUME NEW i \in Rows
      PROVE  /\ pay'[i].state = pay[i].state /\ pay'[i].due = pay[i].due
             /\ pay'[i].amount = pay[i].amount
             /\ i # k => pay'[i].look = pay[i].look
             /\ i = k => pay'[i].look = look
  <2>1. CASE i = k
    BY <1>2, <1>3, <1>4, <2>1 DEF Payments
  <2>2. CASE i # k
    BY <1>3, <1>4, <2>2
  <2> QED BY <2>1, <2>2
<1>8. RoutesFit'
  <2>1. \A i \in Rows : /\ pay'[i].state = "ahead" => pay'[i].look = hold /\ hold \in Times
                        /\ pay'[i].look # None => pay'[i].state \in Awaited
    BY <1>2, <1>4, <1>7 DEF RoutesFit
  <2>2. \A i \in listed : i \in Rows /\ i <= rows /\ (pay'[i].state = "ahead" => pay'[i].due <= now)
    BY <1>7 DEF RoutesFit, TypeOK
  <2> QED BY <1>1, <2>1, <2>2 DEF RoutesFit
<1>9. /\ now' \in Times /\ listed' \subseteq Rows
      /\ seen' \in [row : Rows \cup {0}, again : Int]
  BY <1>1 DEF TypeOK, NothingSeen, None
<1> QED BY <1>1, <1>6, <1>7, <1>8, <1>9, TaskKeeps

(* The clock, a task that dies, and a step that changes nothing.           *)
LEMMA IdleKeeps ==
  ASSUME OrdersAssumption, OrdersInvariant, Tick \/ TaskDies \/ UNCHANGED vars
  PROVE  OrdersInvariant'
<1> USE DEF OrdersInvariant
<1>1. /\ UNCHANGED <<visit, hold, order, refundDue, ledger, rows, pay, refund>>
      /\ now' \in Times /\ now \in Nat /\ now' \in Nat /\ now <= now'
      /\ listed' \subseteq listed /\ (seen' = seen \/ seen' = NothingSeen)
  BY DEF Tick, TaskDies, vars, visit, task, TypeOK, Times, OrdersAssumption
<1>2. \A i \in Rows : pay[i].due \in Int
  BY DEF TypeOK, Payments
<1>3. listed' \subseteq Rows /\ seen' \in [row : Rows \cup {0}, again : Int]
      /\ pay' \in [Rows -> Payments]
  BY <1>1 DEF TypeOK, NothingSeen, None
<1>4. RoutesFit'
  <2>1. \A i \in listed' : i \in Rows /\ i <= rows /\ (pay[i].state = "ahead" => pay[i].due <= now')
    BY <1>1, <1>2, <1>3 DEF RoutesFit
  <2> QED BY <1>1, <2>1 DEF RoutesFit
<1> QED BY <1>1, <1>3, <1>4, TaskKeeps

(* Every step keeps the agreement of booking, order, ledger and dates.     *)
LEMMA OrdersInvariantHolds == Spec => []OrdersInvariant
<1>1. Init => OrdersInvariant
  BY OrdersAssumption, InitHolds
<1>2. OrdersInvariant /\ [Next]_vars => OrdersInvariant'
  BY OrdersAssumption, BookKeeps, MoneyKeeps, TaskListsKeeps, TaskLooksKeeps, TaskMarksKeeps,
     IdleKeeps DEF Next, Dates
<1> QED BY <1>1, <1>2, PTL DEF Spec

(* Nothing awaited or received is negative, however often payments and     *)
(* refunds are recorded and taken back, and rows are used one by one.      *)
THEOREM TypeCorrect == Spec => []TypeOK
<1>1. OrdersInvariant => TypeOK
  BY DEF OrdersInvariant
<1> QED BY <1>1, OrdersInvariantHolds, PTL

(* No order of the steps of booking, commerce and the task makes the two   *)
(* modules disagree: booking/orders.py and commerce/payments.py call each  *)
(* other inside one transaction, expire_due_payments in three.             *)
THEOREM BookingAndOrderAgree == Spec => []BookingFollowsOrder
<1>1. OrdersInvariant => BookingFollowsOrder
  BY DEF OrdersInvariant
<1> QED BY <1>1, OrdersInvariantHolds, PTL

(* The order's status, which every operation writes on its own             *)
(* (commerce/payments.py, refunds.py, orders.py), is the ledger's.         *)
THEOREM StatusIsTheLedgers == Spec => []OrderFollowsLedger
<1>1. OrdersInvariant => OrderFollowsLedger
  BY DEF OrdersInvariant
<1> QED BY <1>1, OrdersInvariantHolds, PTL

(* What a customer is asked for is enough, whatever parts were paid, taken *)
(* back or refunded in between (record_payment, void_payment,              *)
(* commerce/refunds.py), and however often the quote changed.              *)
THEOREM AwaitedIsEnough == Spec => []AwaitedCoversTheRest
<1>1. OrdersInvariant => AwaitedCoversTheRest
  BY DEF OrdersInvariant
<1> QED BY <1>1, OrdersInvariantHolds, PTL

(* Whatever parts came and were taken back, and whatever tasks looked on,  *)
(* a waiting booking is confirmed by the payment that completes its        *)
(* prepayment and by nothing else.                                         *)
THEOREM OnlyThePrepaymentConfirms == Spec => ConfirmedIsPaidAhead
<1> DEFINE Confirms == booking = "pending_payment" /\ booking' = "confirmed"
                         => charged' >= quote.ahead /\ charged < quote.ahead
<1>1. ASSUME OrdersInvariant, [Next]_vars, booking = "pending_payment", booking' = "confirmed"
      PROVE  charged' >= quote.ahead /\ charged < quote.ahead
  <2>1. PICK n \in 1..Left, i \in Rows : PayAhead(i, n)
    BY <1>1 DEF Next, Book, Money, Dates, Create, Move, Accept, Decline, ExpireRequest, End,
       Cancel, CallOff, PayPart, PayBalance, VoidPayment, VoidRefund, RecordRefund, GiveBack,
       TaskLists, TaskLooks, TaskMarks, TaskDies, Tick, vars, visit
  <2>2. /\ pay[i].state = "ahead" /\ n >= pay[i].amount /\ charged' = charged + n
    BY <2>1 DEF PayAhead, Covers, Charge
  <2>3. pay[i].amount > 0 /\ pay[i].amount + charged = quote.ahead
    BY <1>1, <2>2 DEF OrdersInvariant, AwaitedCoversTheRest
  <2>4. pay[i].amount \in Int /\ charged \in Int /\ n \in Int
    BY <1>1 DEF OrdersInvariant, TypeOK, Payments
  <2> QED BY <2>2, <2>3, <2>4
<1>2. OrdersInvariant /\ [Next]_vars => [Confirms]_vars
  BY <1>1
<1>3. ConfirmedIsPaidAhead <=> [][Confirms]_vars
  BY PTL DEF ConfirmedIsPaidAhead
<1> HIDE DEF Confirms
<1> QED BY <1>2, <1>3, OrdersInvariantHolds, PTL DEF Spec
===============================================================================
