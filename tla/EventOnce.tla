----------------------------- MODULE EventOnce -----------------------------
(***************************************************************************)
(* What SettleFlow promises about domain events: an event that a committed *)
(* command wrote takes effect at every consumer it is routed to, at most   *)
(* once, and no event takes effect that no command wrote.                  *)
(***************************************************************************)
EXTENDS Naturals

CONSTANTS Events, Queues, Routes

VARIABLES
    committed,  \* the events that committed commands wrote
    effects     \* [Queues -> [Events -> Nat]]

vars == <<committed, effects>>

Init ==
    /\ committed = {}
    /\ effects = [q \in Queues |-> [e \in Events |-> 0]]

Write(e) ==
    /\ e \notin committed
    /\ committed' = committed \cup {e}
    /\ UNCHANGED effects

Apply(q, e) ==
    /\ e \in committed
    /\ q \in Routes[e]
    /\ effects[q][e] = 0
    /\ effects' = [effects EXCEPT ![q][e] = 1]
    /\ UNCHANGED committed

Next == \E e \in Events : Write(e) \/ \E q \in Queues : Apply(q, e)

Spec == Init /\ [][Next]_vars
=============================================================================
