----------------------------- MODULE BookingLocks -----------------------------
(***************************************************************************)
(* The row locks of booking, commerce and customers: transactions that     *)
(* lock a customer, its visits and their orders one row after another and  *)
(* hold every row to their end.  A company's change of a visit starts from *)
(* the visit or from its order; the privacy run starts from the customer.  *)
(* Which rows a transaction goes on to lock may depend on what it reads in *)
(* those it has.  What the operations write is kept only as far as this    *)
(* choice, or the privacy run's, depends on it (Orders has the rest).      *)
(***************************************************************************)
CONSTANTS Customers,   \* customers of one company
          Visits,      \* their bookings, each with an order
          CustomerOf,  \* the customer of every visit
          Txs,         \* transactions under way at once
          Families,    \* sets of operations; those of one set meet in a run
          Bookings,    \* the visits that a run starts with
          None

(* The order before the booking: cancel_appointment, answer_request and    *)
(* expire_request take both and look at the status only then.              *)
Calling == {"cancel", "answer", "expireRequest"}
(* Commerce, from the order, tells a booking that waits for the payment.   *)
Paying == {"pay", "expirePayment"}
(* The customer, its visits, their orders.                                 *)
Sweeping == {"erase", "anonymize"}
(* A change of the order's ledger alone, a change of the visit alone, and  *)
(* a visit moved or a stay, which is priced again in its order.            *)
Operations == Calling \cup Paying \cup Sweeping \cup {"ledger", "complete", "move"}

Statuses == {"request", "payment", "confirmed", "closed"}

LocksAssumption ==
  /\ CustomerOf \in [Visits -> Customers]
  /\ None \notin Txs /\ None \notin Operations
  /\ None \notin {"customer", "visit", "order"} \X (Customers \cup Visits)
  /\ \A F \in Families : F \subseteq Operations
  /\ Bookings \subseteq [status : [Visits -> Statuses],
                         ahead : SUBSET Visits, personal : SUBSET Visits]
ASSUME LocksAssumption

Customer(c) == <<"customer", c>>
Visit(v)    == <<"visit", v>>
Order(v)    == <<"order", v>>

VisitsOf(c) == {v \in Visits : CustomerOf[v] = c}
Rows == {Customer(c) : c \in Customers} \cup {Visit(v) : v \in Visits}
                                        \cup {Order(v) : v \in Visits}

VARIABLES family,    \* the operations that meet
          op, on,    \* what a transaction does, and to which visit or customer
          asks,      \* the row it has asked for and not got yet
          owner,     \* who holds a row
          status,    \* of a visit
          ahead,     \* visits that end after the privacy run's cutoff
          named,     \* customers who are not anonymised
          personal   \* visits that hold words or an address of the customer

vars == <<family, op, on, asks, owner, status, ahead, named, personal>>

Init ==
  /\ family \in Families
  /\ op = [t \in Txs |-> None] /\ on = [t \in Txs |-> None]
  /\ asks = [t \in Txs |-> None] /\ owner = [r \in Rows |-> None]
  /\ named = Customers
  /\ \E b \in Bookings : status = b.status /\ ahead = b.ahead /\ personal = b.personal
-----------------------------------------------------------------------------
FirstRow(t) ==
  IF op[t] \in Sweeping THEN Customer(on[t])
  ELSE IF op[t] \in {"move", "complete"} THEN Visit(on[t])
  ELSE Order(on[t])

(* Mutant: the erasure reads the visits without a lock.                    *)
SweptUnlocked(t) == IF op[t] = "erase" THEN {} ELSE VisitsOf(on[t]) \cap personal

(* The visits that an erasure reads and an anonymisation writes.           *)
Swept(t) ==
  IF op[t] = "erase" THEN {v \in VisitsOf(on[t]) : on[t] \in named}
                     ELSE VisitsOf(on[t]) \cap personal

(* A visit that ends after the cutoff keeps its customer from the privacy  *)
(* run; by hand a customer is always taken out.                            *)
Strips(t) ==
  op[t] = "erase" => on[t] \in named /\ VisitsOf(on[t]) \cap ahead = {}

HoldsAll(t, rows) == \A r \in rows : owner[r] = t

SweptRows(t) == {Visit(v) : v \in Swept(t)}

(* Visits are locked in id order and so are orders; any order is allowed   *)
(* here.  A run of the code takes several customers, in id order; here it  *)
(* is one.                                                                 *)
SweepRows(t) ==
  SweptRows(t) \cup (IF HoldsAll(t, SweptRows(t)) /\ Strips(t)
                     THEN {Order(v) : v \in VisitsOf(on[t])} ELSE {})

(* Mutant: to be done settles the order of the visit that it has locked.   *)
LaterRowsOfDone(t) ==
  IF op[t] \in Sweeping THEN SweepRows(t)
  ELSE IF \/ op[t] \in Calling
          \/ op[t] \in Paying /\ status[on[t]] = "payment"
       THEN {Visit(on[t])}
  ELSE IF op[t] \in {"move", "complete"} /\ status[on[t]] = "confirmed"
       THEN {Order(on[t])}
  ELSE {}
LaterRows(t) ==
  IF op[t] \in Sweeping THEN SweepRows(t)
  ELSE IF \/ op[t] \in Calling
          \/ op[t] \in Paying /\ status[on[t]] = "payment"
       THEN {Visit(on[t])}
  ELSE IF op[t] = "move" /\ status[on[t]] = "confirmed" THEN {Order(on[t])}
  ELSE {}

NextRows(t) ==
  IF owner[FirstRow(t)] # t THEN {FirstRow(t)}
  ELSE {r \in LaterRows(t) : owner[r] # t}
-----------------------------------------------------------------------------
Begin(t) ==
  /\ op[t] = None
  /\ \E o \in family : \E x \in (IF o \in Sweeping THEN Customers ELSE Visits) :
       op' = [op EXCEPT ![t] = o] /\ on' = [on EXCEPT ![t] = x]
  /\ UNCHANGED <<family, asks, owner, status, ahead, named, personal>>

Ask(t) ==
  /\ op[t] # None /\ asks[t] = None
  /\ \E r \in NextRows(t) : asks' = [asks EXCEPT ![t] = r]
  /\ UNCHANGED <<family, op, on, owner, status, ahead, named, personal>>

Get(t) ==
  /\ asks[t] # None /\ owner[asks[t]] = None
  /\ owner' = [owner EXCEPT ![asks[t]] = t] /\ asks' = [asks EXCEPT ![t] = None]
  /\ UNCHANGED <<family, op, on, status, ahead, named, personal>>

(* What becomes of a visit, with the answers and dates that decide.        *)
Outcomes(o, s) ==
  CASE o = "cancel"                              -> {"closed"}
    [] o = "answer" /\ s = "request"             -> {"payment", "confirmed", "closed"}
    [] o = "expireRequest" /\ s = "request"      -> {"request", "closed"}
    [] o = "pay" /\ s = "payment"                -> {"confirmed"}
    [] o = "expirePayment" /\ s = "payment"      -> {"closed"}
    [] o = "complete" /\ s = "confirmed"         -> {"closed"}
    [] OTHER                                     -> {s}

(* A transaction's end frees all its rows at once.                         *)
End(t) ==
  /\ op' = [op EXCEPT ![t] = None] /\ on' = [on EXCEPT ![t] = None]
  /\ asks' = [asks EXCEPT ![t] = None]
  /\ owner' = [r \in Rows |-> IF owner[r] = t THEN None ELSE owner[r]]
  /\ UNCHANGED family

ChangesVisit(t) ==
  /\ op[t] \notin Sweeping
  /\ \E s \in Outcomes(op[t], status[on[t]]) : status' = [status EXCEPT ![on[t]] = s]
  /\ ahead' = IF op[t] = "move" /\ status[on[t]] = "confirmed"
              THEN ahead \cup {on[t]} ELSE ahead
  /\ UNCHANGED <<named, personal>>

(* The customer is stripped once the orders are locked as well; the        *)
(* privacy run does not look at the visits again.                          *)
StripsCustomer(t) ==
  /\ op[t] \in Sweeping
  /\ IF HoldsAll(t, {Order(v) : v \in VisitsOf(on[t])})
     THEN named' = named \ {on[t]} /\ personal' = personal \ VisitsOf(on[t])
     ELSE UNCHANGED <<named, personal>>
  /\ UNCHANGED <<status, ahead>>

Commit(t) ==
  /\ op[t] # None /\ asks[t] = None /\ NextRows(t) = {}
  /\ ChangesVisit(t) \/ StripsCustomer(t)
  /\ End(t)

(* The operation is refused or its process dies.                           *)
RollBack(t) ==
  op[t] # None /\ End(t) /\ UNCHANGED <<status, ahead, named, personal>>

Next == \E t \in Txs : Begin(t) \/ Ask(t) \/ Get(t) \/ Commit(t) \/ RollBack(t)

Spec == Init /\ [][Next]_vars
-----------------------------------------------------------------------------
RowsOf(t) ==
  IF op[t] = None THEN {}
  ELSE IF op[t] \in Sweeping
  THEN {Customer(on[t])} \cup {Visit(v) : v \in VisitsOf(on[t])}
                         \cup {Order(v) : v \in VisitsOf(on[t])}
  ELSE {Visit(on[t]), Order(on[t])}

(* The types; a transaction asks only for rows of its own visit, or its    *)
(* own customer (booking/retention.py, commerce/orders.py: every query     *)
(* filters by them).                                                       *)
TypeOK ==
  /\ family \in Families
  /\ op \in [Txs -> Operations \cup {None}]
  /\ on \in [Txs -> Customers \cup Visits \cup {None}]
  /\ \A t \in Txs : asks[t] \in RowsOf(t) \cup {None}
  /\ asks \in [Txs -> Rows \cup {None}] /\ owner \in [Rows -> Txs \cup {None}]
  /\ status \in [Visits -> Statuses]
  /\ ahead \subseteq Visits /\ named \subseteq Customers /\ personal \subseteq Visits

Blocks(u, t) == asks[t] # None /\ owner[asks[t]] = u

(* No transactions wait for one another in a circle, which is what the     *)
(* order of the locks is for (booking/orders.py, lock; booking/retention.py*)
(* erase_customers).                                                       *)
NobodyWaitsInACircle ==
  \A S \in SUBSET Txs : S # {} => \E t \in S : \A u \in S : ~Blocks(u, t)

(* Whatever waits, some transaction under way does not.                    *)
SomebodyGoesOn ==
  (\E t \in Txs : op[t] # None) =>
    \E t \in Txs : op[t] # None /\ (asks[t] = None \/ owner[asks[t]] = None)

(* The operations that may meet without waiting in a circle: those that    *)
(* take the order first, or those that take the visit first together with  *)
(* payments, or with the privacy run.                                      *)
SafeTogether(F) ==
  \/ F \cap ({"move"} \cup Sweeping) = {}
  \/ F \cap Calling = {} /\ (F \cap Sweeping = {} \/ F \cap Paying = {})

(* A customer that the privacy run takes out has no visit after the cutoff *)
(* at that moment, although its visits may be moved meanwhile by who does  *)
(* not lock the customer (booking/retention.py, erase_customers).          *)
SweepSparesVisitsAhead ==
  [][\A t \in Txs : op[t] = "erase" /\ op'[t] = None /\ on[t] \in named \ named'
       => VisitsOf(on[t]) \cap ahead' = {}]_vars
=============================================================================
