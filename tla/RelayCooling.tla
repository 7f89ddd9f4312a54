---------------------------- MODULE RelayCooling ----------------------------
(***************************************************************************)
(* What relay ordering and failover know of a relay's health: whether it   *)
(* is cooling down (isRelayHealthy of src/relay-state.ts).  A failure puts *)
(* a relay in the set, a success takes it out, and so does time.           *)
(***************************************************************************)
EXTENDS SequencesExt

CONSTANT Relays

VARIABLE cooling

\* markRelayFailure, for one or several relays.
Penalise(S) == cooling' = cooling \cup S
\* markRelaySuccess.
Clear(r) == cooling' = cooling \ {r}
\* The cooldown of some relays has run out.
Expire == \E S \in SUBSET cooling : S # {} /\ cooling' = cooling \ S

\* The candidate orders that orderedRelayCandidates may return for a pool: each
\* relay once, cooling ones at the tail, a healthy pinned relay in front.
Admissible(order, pool, pin) ==
    /\ Len(order) = Cardinality(pool)
    /\ Range(order) = pool
    /\ \A i, j \in DOMAIN order :
          order[i] \in cooling /\ order[j] \notin cooling => j < i
    /\ pin \in pool \ cooling => order[1] = pin
=============================================================================
