-------------------------------- MODULE Outbox --------------------------------
(***************************************************************************)
(* What ADR-029 promises of every row of the outbox (shared/notifications, *)
(* delivery.py): it is sent or withheld once and for all, and given up only *)
(* until it is taken up again; it is said to be sent only if the provider  *)
(* took it; reports only make it worse; and what is barred does not go out *)
(* any more.  No task, lock, retry or sweep is part of the promise.        *)
(***************************************************************************)
EXTENDS Integers

CONSTANT Items

VARIABLES
  fate,    \* of each row: none, waiting, given up, withheld, out
  worst,   \* how bad the worst that was heard of a row is, 0 before it is out
  taken,   \* rows the provider has taken
  barred   \* rows whose recipient must not be written to

outboxVars == <<fate, worst, taken, barred>>

Unsent == {"waiting", "given up"}

Init ==
  /\ fate = [m \in Items |-> "none"] /\ worst = [m \in Items |-> 0]
  /\ taken = {} /\ barred = {}

(* A row enters the outbox, for a recipient who may be barred already.     *)
Submit(m) ==
  /\ fate[m] = "none"
  /\ fate' = [fate EXCEPT ![m] = "waiting"]
  /\ barred' \in {barred, barred \cup {m}}
  /\ UNCHANGED <<worst, taken>>

(* The provider takes it, as often as it is handed over.                   *)
HandOver(m) ==
  /\ fate[m] \in Unsent /\ m \notin barred
  /\ taken' = taken \cup {m}
  /\ UNCHANGED <<fate, worst, barred>>

Send(m) ==
  /\ fate[m] \in Unsent /\ m \in taken
  /\ fate' = [fate EXCEPT ![m] = "out"]
  /\ \E n \in {1, 2} : worst' = [worst EXCEPT ![m] = n]
  /\ UNCHANGED <<taken, barred>>

(* It is withheld, given up or taken up again, but never once it is out.   *)
Decide(m) ==
  /\ fate[m] \in Unsent
  /\ \E f \in Unsent \cup {"withheld"} : fate' = [fate EXCEPT ![m] = f]
  /\ UNCHANGED <<worst, taken, barred>>

Hear(m) ==
  /\ fate[m] = "out"
  /\ \E n \in 2..4 : n > worst[m] /\ worst' = [worst EXCEPT ![m] = n]
  /\ UNCHANGED <<fate, taken, barred>>

(* The recipient's data are deleted.                                       *)
Bar(m) ==
  /\ fate[m] # "none"
  /\ barred' = barred \cup {m}
  /\ UNCHANGED <<fate, worst, taken>>

Next ==
  \E m \in Items :
    Submit(m) \/ HandOver(m) \/ Send(m) \/ Decide(m) \/ Hear(m) \/ Bar(m)

Spec == Init /\ [][Next]_outboxVars
===============================================================================
