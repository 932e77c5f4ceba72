--------------------------- MODULE MCOutboxRelay ---------------------------
(* OutboxRelay on a small instance: e1 goes to both queues; e2 and e3 go   *)
(* to one, and may be events that never pass their contract check.         *)
EXTENDS OutboxRelay

CONSTANTS e1, e2, e3, w1, w2, q1, q2

MCRoutes == [e \in Events |-> IF e = e1 THEN Queues ELSE {q1}]
=============================================================================
