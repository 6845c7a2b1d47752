------------------------------ MODULE MCCredits ------------------------------
(* Small instances of Credits: months of two instants each. *)
EXTENDS Credits

MCMonthOf == [t \in 0..MaxTime |-> t \div 2]
MCCorrectionSizes == {-1}
=============================================================================
