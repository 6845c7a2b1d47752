---------------------------- MODULE PrepaidWallet ----------------------------
(***************************************************************************)
(* What credits.py promises about credits somebody paid for: "purchased    *)
(* credits never expire", a sale brings its credits once however often it  *)
(* is confirmed, a hold spends at most what it holds and ends once, and    *)
(* nothing is ever taken that is not there.  No calendar, no plan and no   *)
(* sweep: the account behaves as if those did not exist.                   *)
(***************************************************************************)
EXTENDS Integers

CONSTANTS Holds, Sales, Corrections

VARIABLES
  free,   \* credits nobody has a claim on
  state,  \* of each hold: idle, held, closed
  held,   \* credits a hold has a claim on
  spent,  \* credits a closed hold took
  bought, \* credits a sale has brought, 0 while it is not paid
  adjusted \* credits a correction has moved, 0 while it is not made

walletVars == <<free, state, held, spent, bought, adjusted>>

Init ==
  /\ free = 0
  /\ state = [k \in Holds |-> "idle"]
  /\ held  = [k \in Holds |-> 0]
  /\ spent = [k \in Holds |-> 0]
  /\ bought   = [s \in Sales |-> 0]
  /\ adjusted = [c \in Corrections |-> 0]

(* A sale is paid, once. *)
Deposit(s) ==
  /\ bought[s] = 0
  /\ free' \in Nat /\ free' > free
  /\ bought' = [bought EXCEPT ![s] = free' - free]
  /\ UNCHANGED <<state, held, spent, adjusted>>

(* A correction by the operator, once, takes only what is free. *)
Adjust(c) ==
  /\ adjusted[c] = 0
  /\ free' \in Nat /\ free' # free
  /\ adjusted' = [adjusted EXCEPT ![c] = free' - free]
  /\ UNCHANGED <<state, held, spent, bought>>

Hold(k) ==
  /\ state[k] = "idle"
  /\ \E n \in 0..free :
       /\ free' = free - n
       /\ held' = [held EXCEPT ![k] = n]
  /\ state' = [state EXCEPT ![k] = "held"]
  /\ UNCHANGED <<spent, bought, adjusted>>

(* The hold ends: n of it is spent, the rest is free again. *)
Close(k) ==
  /\ state[k] = "held"
  /\ \E n \in 0..held[k] :
       /\ free' = free + (held[k] - n)
       /\ spent' = [spent EXCEPT ![k] = n]
  /\ held' = [held EXCEPT ![k] = 0]
  /\ state' = [state EXCEPT ![k] = "closed"]
  /\ UNCHANGED <<bought, adjusted>>

Next ==
  \/ \E s \in Sales : Deposit(s)
  \/ \E c \in Corrections : Adjust(c)
  \/ \E k \in Holds : Hold(k) \/ Close(k)

Spec == Init /\ [][Next]_walletVars
=============================================================================
