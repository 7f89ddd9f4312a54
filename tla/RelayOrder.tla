----------------------------- MODULE RelayOrder ------------------------------
(***************************************************************************)
(* The order in which a turn tries the relays (orderedRelayCandidates of   *)
(* src/relay-state.ts), computed from the pool, the sticky relay and the   *)
(* health records.                                                         *)
(***************************************************************************)
EXTENDS RelayHealth, SequencesExt

CONSTANTS
    Pool,      \* the relays of the pool state, in their order
    Vercel,    \* those on *.vercel.app
    Margin     \* RELAY_EWMA_MARGIN_MS, in units of latency

NoPin == "none"

ASSUME RelayOrderAssumption ==
    /\ Pool \in Seq(Relays) /\ Pool # <<>> /\ IsInjective(Pool)
    /\ Vercel \subseteq Relays
    /\ Margin \in Nat
    /\ NoPin \notin Relays

VARIABLE active    \* url of the pool state

orderVars == <<vars, active>>

\* What failover knows of these records.
Cooling == INSTANCE RelayCooling WITH cooling <- {r \in Relays : ~IsHealthy(r)}

\* The pool from the sticky relay on, or from its start if that has left it.
Rotated ==
    LET first == IF Contains(Pool, active) THEN CHOOSE i \in DOMAIN Pool : Pool[i] = active ELSE 1
    IN  SubSeq(Pool, first, Len(Pool)) \o SubSeq(Pool, 1, first - 1)

\* filter: the relays of S, in their order.
Keep(order, S) ==
    LET at      == {i \in DOMAIN order : order[i] \in S}
        rank(i) == Cardinality({j \in at : j <= i})
    IN  [k \in 1..Cardinality(at) |-> order[CHOOSE i \in at : rank(i) = k]]
Healthy == {r \in Relays : IsHealthy(r)}
Floored == {r \in Relays : samples[r] >= Floor}

\* Mutation: slow start not looked at.
EligibleRecovering(band) == Range(Tail(band)) \cap Floored

\* Relays whose average may be preferred to the sticky one's.
Eligible(band) == {r \in Range(Tail(band)) \cap Floored : ~recovering[r]}

\* The first of the eligible relays with the lowest average.
Challenger(band) ==
    LET fastest == {r \in Eligible(band) : \A x \in Eligible(band) : ewma[r] <= ewma[x]}
    IN  Keep(band, fastest)[1]

\* Faster by more than the margin and by more than a quarter of the average.
Beats(r, head) ==
    /\ ewma[head] # Unmeasured
    /\ ewma[head] - ewma[r] > Margin
    /\ 4 * (ewma[head] - ewma[r]) > ewma[head]

\* applyEwmaChallenger.
Challenged(band) ==
    IF Len(band) <= 1 THEN band
    ELSE IF Eligible(band) # {} /\ Beats(Challenger(band), Head(band))
    THEN <<Challenger(band)>> \o Keep(band, Relays \ {Challenger(band)})
    ELSE <<Head(band)>> \o Keep(Tail(band), Floored) \o Keep(Tail(band), Relays \ Floored)

\* getOrderedRelayUrls.
Ordered ==
    Challenged(Keep(Rotated, Healthy \ Vercel))
       \o Keep(Rotated, Healthy \cap Vercel)
       \o Keep(Rotated, (Relays \ Healthy) \ Vercel)
       \o Keep(Rotated, Vercel \ Healthy)

\* Mutation: a cooling pin hoisted as well.
PinnedCooling(pin) ==
    IF Contains(Ordered, pin) THEN <<pin>> \o Keep(Ordered, Relays \ {pin}) ELSE Ordered

\* The pinned relay in front, if it is in the pool and healthy
\* (isSessionPinEligible).
Pinned(pin) ==
    IF Contains(Ordered, pin) /\ IsHealthy(pin)
    THEN <<pin>> \o Keep(Ordered, Relays \ {pin})
    ELSE Ordered

\* The healthy relays rotated by a hash of the conversation or by the cursor.
Spread(k) ==
    LET healthy == Keep(Ordered, Healthy)
        shift   == k % Len(healthy)
    IN  IF healthy = <<>> THEN Ordered
        ELSE SubSeq(healthy, shift + 1, Len(healthy)) \o SubSeq(healthy, 1, shift)
             \o Keep(Ordered, Relays \ Healthy)

\* orderedRelayCandidates, for a turn pinned to a relay of Relays, one in spread
\* mode or with forced round robin, and any other.
Candidates(pin, spread, k) ==
    IF pin # NoPin THEN Pinned(pin) ELSE IF spread THEN Spread(k) ELSE Ordered

OrderInit == Init /\ active \in Relays

\* A turn that ends on another relay, or a command, moves the sticky relay.
Switch(r) == r # active /\ active' = r /\ UNCHANGED vars

OrderNext ==
    \/ Next /\ UNCHANGED active
    \/ \E r \in Relays : Switch(r)

OrderSpec == OrderInit /\ [][OrderNext]_orderVars

-----------------------------------------------------------------------------
(* Properties                                                              *)

\* Whatever the mode and the pin, a turn gets each relay of the pool exactly
\* once, the cooling ones last and its healthy pin first: what relayFetch is
\* modelled to start from.  Without a pin and outside spread mode Vercel is the
\* last resort among the healthy and among the cooling ones, whatever the
\* averages say.
Index(r) == CHOOSE i \in DOMAIN Ordered : Ordered[i] = r

CandidatesAdmissible ==
    /\ \A pin \in Relays \cup {NoPin}, spread \in BOOLEAN, k \in 0..Len(Pool) :
          Cooling!Admissible(Candidates(pin, spread, k), Range(Pool), pin)
    /\ \A r \in Range(Pool) \cap Vercel, x \in Range(Pool) \ Vercel :
          IsHealthy(r) = IsHealthy(x) => Index(x) < Index(r)

\* The sticky relay loses its lead among healthy relays that are not Vercel's
\* only to one with enough samples, not in slow start, that is faster by more
\* than the margin and than every other such relay.
StickyUntilBeaten ==
    LET first == Ordered[1] IN
    active \in (Healthy \ Vercel) \cap Range(Pool) /\ first # active =>
        /\ samples[first] >= Floor /\ fails[first] = 0
        /\ ewma[active] - ewma[first] > Margin
        /\ 4 * (ewma[active] - ewma[first]) > ewma[active]
        /\ \A r \in (Healthy \ Vercel) \cap Range(Pool) :
              samples[r] >= Floor /\ fails[r] = 0 => ewma[first] <= ewma[r]
=============================================================================
