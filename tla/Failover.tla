------------------------------ MODULE Failover -------------------------------
(***************************************************************************)
(* What relayFetch promises a caller: each usable relay of the pool is     *)
(* asked, one answer is returned, and the upstream is asked itself only    *)
(* when no usable relay is left.                                           *)
(***************************************************************************)
CONSTANTS
    Turns, Relays,
    Unusable,   \* relays that may not be asked
    Direct,     \* the upstream without a relay
    Nobody

VARIABLES
    pool,       \* the relays a turn may use
    asked,      \* those it has sent its request to
    cancelled,  \* turns whose caller has given up
    over,       \* turns that have returned or thrown
    from        \* whose answer a turn has returned

vars == <<pool, asked, cancelled, over, from>>

Init ==
    /\ pool = [q \in Turns |-> {}]
    /\ asked = [q \in Turns |-> {}]
    /\ cancelled = {}
    /\ over = {}
    /\ from = [q \in Turns |-> Nobody]

Start(q) ==
    /\ pool[q] = {} /\ q \notin over
    /\ \E S \in SUBSET Relays : pool' = [pool EXCEPT ![q] = S]
    /\ UNCHANGED <<asked, cancelled, over, from>>

Exhausted(q) == pool[q] \ Unusable \subseteq asked[q]

Ask(q) ==
    /\ q \notin over
    /\ \E r \in pool[q] \ (Unusable \cup asked[q]) : asked' = [asked EXCEPT ![q] = @ \cup {r}]
    /\ UNCHANGED <<pool, cancelled, over, from>>

Cancel(q) ==
    /\ q \notin over
    /\ cancelled' = cancelled \cup {q}
    /\ UNCHANGED <<pool, asked, over, from>>

\* The answer of a relay, received just now or kept from before.
Return(q) ==
    /\ q \notin over
    /\ \E r \in asked[q] : from' = [from EXCEPT ![q] = r]
    /\ over' = over \cup {q}
    /\ UNCHANGED <<pool, asked, cancelled>>

\* The answer of the upstream, or an error in its stead.
Fallback(q) ==
    /\ q \notin over /\ Exhausted(q)
    /\ from' = [from EXCEPT ![q] = Direct]
    /\ over' = over \cup {q}
    /\ UNCHANGED <<pool, asked, cancelled>>

Throw(q) ==
    /\ q \notin over /\ (q \in cancelled \/ Exhausted(q))
    /\ over' = over \cup {q}
    /\ UNCHANGED <<pool, asked, cancelled, from>>

Next == \E q \in Turns : Start(q) \/ Ask(q) \/ Cancel(q) \/ Return(q) \/ Fallback(q) \/ Throw(q)

Spec == Init /\ [][Next]_vars
=============================================================================
