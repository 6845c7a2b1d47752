---------------------------- MODULE MCBookingLocks ----------------------------
(* A small instance of BookingLocks: a customer with two visits.           *)
EXTENDS BookingLocks, TLC

CONSTANTS c1, v1, v2

MCCustomerOf == v1 :> c1 @@ v2 :> c1

(* Every family that is safe is part of one of these three.                *)
MCFamilies == { Calling \cup Paying \cup {"ledger", "complete"},
                Paying \cup {"move", "ledger", "complete"},
                Sweeping \cup {"move", "ledger", "complete"} }

(* Who moves a booking, calls it off and removes its customer.             *)
MCMeeting == {{"move", "cancel", "erase"}}

(* Bookings of every status; one of them is after the cutoff or none, and  *)
(* one or both hold words of the customer.                                 *)
MCBookings ==
  [status : {v1 :> "confirmed" @@ v2 :> "closed", v1 :> "request" @@ v2 :> "payment",
             v1 :> "confirmed" @@ v2 :> "confirmed"},
   ahead : {{}, {v2}}, personal : {{v1}, {v1, v2}}]

TxSymmetry == Permutations(Txs)
===============================================================================
