-------------------------------- MODULE Quotas --------------------------------
(***************************************************************************)
(* One quota of one organization over a lifetime period (storage.bytes):   *)
(* billing/quotas.py on its tables QuotaUsage and QuotaReservation.        *)
(*                                                                         *)
(* Every operation of quotas.py locks the reservation and the usage row    *)
(* before it changes them, and runs inside the transaction of its caller:  *)
(* here it is an operator on the rows, for the actions of the callers.     *)
(* The sweep is a process of its own: it lists the overdue reservations in *)
(* one transaction and releases each in another.                           *)
(*                                                                         *)
(* Deadlines are kept as the ticks that are left until them.               *)
(***************************************************************************)
EXTENDS Integers, FiniteSets, PrefixSums

CONSTANTS
  NumHolds,  \* reservations (idempotency keys)
  Limits     \* values a plan or an override may give the quota

ASSUME QuotasAssumption ==
  /\ NumHolds \in Nat
  /\ Limits \subseteq Nat

Holds == 1..NumHolds

VARIABLES
  used,      \* QuotaUsage.used
  reserved,  \* QuotaUsage.reserved
  hold,      \* state of each QuotaReservation
  amount,    \* its amount
  ttl,       \* ticks until its expires_at
  limit,     \* decide_quota().value
  access,    \* AccessMode of the entitlement snapshot
  listed     \* reservations a run of the sweep has still to release

usage     == <<used, reserved>>
claims    == <<hold, amount, ttl>>
quotaVars == <<usage, claims, limit, access, listed>>

(* decide_quota().available, for reading: only a blocked snapshot denies it *)
Available == access # "blocked"
-----------------------------------------------------------------------------
(* reserve_quota under a key that has no reservation yet.  `free` is what  *)
(* the caller's transaction has released before.                           *)
Fits(n, free) == used + reserved - free + n <= limit

CanReserve(h, n, free) ==
  /\ hold[h] = "none"
  /\ access = "full"
  /\ Fits(n, free)

Reserve(h, n, ticks) ==
  /\ CanReserve(h, n, 0)
  /\ hold' = [hold EXCEPT ![h] = "reserved"]
  /\ amount' = [amount EXCEPT ![h] = n]
  /\ ttl' = [ttl EXCEPT ![h] = ticks]
  /\ reserved' = reserved + n
  /\ UNCHANGED used

(* adjust_quota_reservation to n and, in the same transaction,             *)
(* commit_quota.  The limit is read again, and only growth is checked.     *)
(* Mutants: growth is not checked; the settled amount is the one reserved. *)
CanSettleUnchecked(h, n) == hold[h] = "reserved" /\ ttl[h] > 0 /\ Available
CanSettle(h, n) ==
  /\ hold[h] = "reserved" /\ ttl[h] > 0
  /\ n # amount[h] => Available
  /\ n > amount[h] => Fits(n, amount[h])

SettleUnadjusted(h, n) ==
  /\ CanSettle(h, n)
  /\ reserved' = reserved - amount[h]
  /\ used' = used + n
  /\ hold' = [hold EXCEPT ![h] = "committed"]
  /\ ttl' = [ttl EXCEPT ![h] = 0]
  /\ UNCHANGED amount
Settle(h, n) ==
  /\ CanSettle(h, n)
  /\ reserved' = reserved - amount[h]
  /\ used' = used + n
  /\ hold' = [hold EXCEPT ![h] = "committed"]
  /\ amount' = [amount EXCEPT ![h] = n]
  /\ ttl' = [ttl EXCEPT ![h] = 0]

(* extend_quota_reservation: a later deadline, also of a reservation that  *)
(* is overdue but not swept yet.                                           *)
Extend(h, ticks) ==
  /\ ttl' = [ttl EXCEPT ![h] =
       IF hold[h] = "reserved" /\ ticks > ttl[h] THEN ticks ELSE @]
  /\ UNCHANGED <<usage, hold, amount>>

(* release_quota; a reservation released before is left as it is. *)
Release(h) ==
  /\ hold[h] # "committed"
  /\ reserved' = reserved - IF hold[h] = "reserved" THEN amount[h] ELSE 0
  /\ hold' = [hold EXCEPT ![h] = "released"]
  /\ ttl' = [ttl EXCEPT ![h] = 0]
  /\ UNCHANGED <<used, amount>>

(* release_committed_quota *)
ReleaseCommitted(h) ==
  /\ hold[h] = "committed"
  /\ used >= amount[h]
  /\ used' = used - amount[h]
  /\ hold' = [hold EXCEPT ![h] = "released"]
  /\ UNCHANGED <<reserved, amount, ttl>>
-----------------------------------------------------------------------------
Overdue(h) == hold[h] = "reserved" /\ ttl[h] = 0

(* release_expired_quota_reservations chooses, and                         *)
(* _release_expired_reservation releases what is still overdue under its   *)
(* lock; the run may die with the rest of its list.                        *)
(* Mutant: organizations that may not write are not swept.                 *)
SweepListsServed ==
  /\ listed = {} /\ access = "full"
  /\ listed' = {h \in Holds : Overdue(h)}
  /\ UNCHANGED <<usage, claims, limit, access>>
SweepLists ==
  /\ listed = {}
  /\ listed' = {h \in Holds : Overdue(h)}
  /\ UNCHANGED <<usage, claims, limit, access>>

(* Mutant: what was listed is released without a second look. *)
SweepReleasesBlindly(h) ==
  /\ h \in listed
  /\ reserved' = reserved - amount[h]
  /\ hold' = [hold EXCEPT ![h] = "released"]
  /\ listed' = listed \ {h}
  /\ UNCHANGED <<used, amount, ttl, limit, access>>
SweepReleases(h) ==
  /\ h \in listed
  /\ listed' = listed \ {h}
  /\ IF Overdue(h) THEN Release(h) ELSE UNCHANGED <<usage, claims>>
  /\ UNCHANGED <<limit, access>>

SweepDies ==
  /\ listed # {}
  /\ listed' = {}
  /\ UNCHANGED <<usage, claims, limit, access>>

(* The plan, an override or the subscription changes the snapshot. *)
ChangeEntitlement ==
  /\ limit' \in Limits
  /\ access' \in {"full", "read_only", "blocked"}
  /\ UNCHANGED <<usage, claims, listed>>

QuotasInit ==
  /\ used = 0 /\ reserved = 0
  /\ hold = [h \in Holds |-> "none"]
  /\ amount = [h \in Holds |-> 0]
  /\ ttl = [h \in Holds |-> 0]
  /\ limit \in Limits
  /\ access = "full"
  /\ listed = {}
-----------------------------------------------------------------------------
Claimed(s) == [h \in Holds |-> IF hold[h] = s THEN amount[h] ELSE 0]

(* The usage row is a cache that eight operations keep by differences: it  *)
(* says exactly what the reservations say (models.py has CHECKs only for   *)
(* its sign).                                                              *)
UsageIsClaims ==
  /\ reserved = SumTo(Claimed("reserved"), NumHolds)
  /\ used = SumTo(Claimed("committed"), NumHolds)
===============================================================================
