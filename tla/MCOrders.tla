------------------------------- MODULE MCOrders -------------------------------
(* A small instance of Orders: a deposit with the rest due before the      *)
(* start, and a price paid ahead in full.                                  *)
EXTENDS Orders

MCQuotes == { [gross |-> 3, ahead |-> 1, days |-> 1],
              [gross |-> 2, ahead |-> 2, days |-> None] }
===============================================================================
