---------------------------- MODULE MCRelayOrder ----------------------------
(***************************************************************************)
(* Constants for RelayOrder.  One kind of failure is enough: the order     *)
(* only asks whether a relay is cooling.                                   *)
(***************************************************************************)
EXTENDS RelayOrder

CONSTANTS r1, r2, r3, r4

OneKind == {"network"}
OneTick == [s \in OneKind |-> 1]

ThreeRelays == {r1, r2, r3}
ThreePool == <<r1, r2, r3>>
FourRelays == ThreeRelays \cup {r4}
FourPool == <<r1, r2, r3, r4>>

\* Bound of the runs: the order looks at whether a relay cools and whether it is
\* in slow start, not at how often it has failed.
FewFailures == \A r \in Relays : fails[r] <= 1

-----------------------------------------------------------------------------
(* What comments promise, and the code does not keep                       *)

\* "Relays with too few samples (unknown) sort after measured relays but ahead
\* of cooling, in sticky order" (src/relay-state.ts, applyEwmaChallenger): but
\* for the head of the band, which keeps its lead.
UnknownAfterMeasured ==
    LET band == Keep(Rotated, Healthy \ Vercel) IN
    band # <<>> =>
        \A r \in Range(Tail(band)) \ Floored, x \in Range(Tail(band)) \cap Floored :
            Index(x) < Index(r)

\* "A stable spreadKey keeps one conversation on one relay": as long as that
\* relay is healthy and the pool does not change, k standing for the key's hash.
KeyKeepsRelay ==
    [][\A k \in 0..Len(Pool) :
           Spread(k)[1] \in Healthy /\ Spread(k)[1] \in Healthy' => Spread(k)'[1] = Spread(k)[1]]_orderVars
=============================================================================
