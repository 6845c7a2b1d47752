---------------------------- MODULE MCSubscriptions ----------------------------
(* Small instances of Subscriptions: a trial and what may become of it.        *)
EXTENDS Subscriptions

Is(status, end, closing) == [status |-> status, end |-> end, closing |-> closing]

MCStarts  == {Is("trialing", 1, FALSE)}
MCReports == {Is("active", 1, TRUE), Is("active", 2, FALSE), Is("unpaid", 2, FALSE)}
===============================================================================
