----------------------------- MODULE CommandOnce -----------------------------
(***************************************************************************)
(* What idempotent command processing promises, with no leases, tokens,    *)
(* transactions or crashes in sight: a key is decided at most once, the    *)
(* domain effect happens in the very step that decides it and only when it *)
(* is decided as a success, and whatever a client is ever told about the   *)
(* key is that decision.                                                   *)
(***************************************************************************)
EXTENDS Naturals

CONSTANTS Keys, Responses, Successes, Undecided

VARIABLES
    outcome,  \* the decision of each key, or Undecided
    effects,  \* how many domain effects each key has had
    told      \* the responses clients have received for each key

vars == <<outcome, effects, told>>

Init ==
    /\ outcome = [k \in Keys |-> Undecided]
    /\ effects = [k \in Keys |-> 0]
    /\ told = [k \in Keys |-> {}]

Decide(k, r) ==
    /\ outcome[k] = Undecided
    /\ outcome' = [outcome EXCEPT ![k] = r]
    /\ effects' = [effects EXCEPT ![k] = IF r \in Successes THEN @ + 1 ELSE @]

\* The decision reaches its client in the same step, or is lost with the
\* connection and only told when the client asks again.
DecideAndTell(k, r) ==
    Decide(k, r) /\ told' = [told EXCEPT ![k] = @ \cup {r}]

DecideSilently(k, r) ==
    Decide(k, r) /\ UNCHANGED told

Tell(k) ==
    /\ outcome[k] # Undecided
    /\ told' = [told EXCEPT ![k] = @ \cup {outcome[k]}]
    /\ UNCHANGED <<outcome, effects>>

Next ==
    \E k \in Keys :
        \/ Tell(k)
        \/ \E r \in Responses : DecideAndTell(k, r) \/ DecideSilently(k, r)

Spec == Init /\ [][Next]_vars
=============================================================================
