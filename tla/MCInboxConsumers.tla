-------------------------- MODULE MCInboxConsumers --------------------------
(* InboxConsumers on a small instance: two slots of the webhook queue q1 on *)
(* one channel, and one of the settlement queue q2 on another process's;    *)
(* e1 is sound and goes to both queues; bad, for q2, breaks its contract.   *)
EXTENDS InboxConsumers, TLC

CONSTANTS e1, bad, q1, q2, c1, c2, s1, s2, s3

MCRoutes == [e \in Events |-> IF e = e1 THEN Queues ELSE {q2}]
MCChannelOf == (s1 :> c1) @@ (s2 :> c1) @@ (s3 :> c2)
MCQueueOf == (s1 :> q1) @@ (s2 :> q1) @@ (s3 :> q2)
Symmetry == Permutations({s1, s2})
=============================================================================
