---------------------------- MODULE PaidOperation ----------------------------
(***************************************************************************)
(* What a customer is promised of an operation paid for with credits       *)
(* (ADR-059, billing/credits.py:12-16): the price is held when it is       *)
(* requested; it is charged in the step that delivers the result, or given *)
(* back; and what has ended stays as it ended.  No worker, lease, queue or *)
(* outage is part of the promise.                                          *)
(***************************************************************************)
CONSTANT Operations

VARIABLES
  price,     \* of each operation: unasked, held, charged, returned
  delivered  \* has the customer got the result?

promiseVars == <<price, delivered>>

Init ==
  /\ price = [o \in Operations |-> "unasked"]
  /\ delivered = [o \in Operations |-> FALSE]

Request(o) ==
  /\ price[o] = "unasked"
  /\ price' = [price EXCEPT ![o] = "held"]
  /\ UNCHANGED delivered

Deliver(o) ==
  /\ price[o] = "held"
  /\ price' = [price EXCEPT ![o] = "charged"]
  /\ delivered' = [delivered EXCEPT ![o] = TRUE]

GiveBack(o) ==
  /\ price[o] = "held"
  /\ price' = [price EXCEPT ![o] = "returned"]
  /\ UNCHANGED delivered

Next == \E o \in Operations : Request(o) \/ Deliver(o) \/ GiveBack(o)

Spec == Init /\ [][Next]_promiseVars
=============================================================================
