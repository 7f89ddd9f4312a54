---------------------------- MODULE MCRelayFetch ----------------------------
(***************************************************************************)
(* Constants for RelayFetch: for a single turn an answer for every branch  *)
(* of the loop (403 stands for the other faults that are merely held: 404, *)
(* 401, 520), for concurrent turns the answers that differ in what they    *)
(* share.                                                                  *)
(***************************************************************************)
EXTENDS RelayFetch, TLC

BranchAnswers == {a \in Replies : Verdict(a) \notin {"404", "401", "520"}}
SharedAnswers == {a \in Replies : Verdict(a) \in {"ok", "429"}}

\* Relays are interchangeable but for their URL, and turns altogether.
Symmetry == Permutations(Relays \ Malformed) \cup Permutations(Turns)

-----------------------------------------------------------------------------
(* What comments promise, and the code does not keep                       *)

\* "True only while every candidate that produced a response answered 429"
\* (src/relay.ts, rateLimitOnly), as it matters when the pool is exhausted.
OnlyRateLimits ==
    \A q \in Turns, r \in Relays :
        /\ turn[q].phase = "direct"
        /\ turn[q].rateLimitOnly
        /\ turn[q].legs[r] \in Verdicts
        => turn[q].legs[r] = "429"

\* A hedge is "never [fired] when fewer than two healthy candidates exist
\* (hedging a lone healthy relay into a cooling tail helps nobody)".
HedgeIntoHealthy ==
    [][\A q \in Turns :
           turn[q].phase = "grace" /\ turn'[q].phase = "race"
               => Following(turn[q]) \notin cooling]_vars

\* "Caller abort must propagate unmarked": a relay whose attempt the caller
\* withdrew is not marked as failed.
WithdrawnUnmarked ==
    \A q \in Turns, r \in Relays :
        turn[q].legs[r] = "withdrawn" => turn[q].blame[r] = 0

\* The failure hook is "called once for every attempt this turn abandons in
\* favour of another (... plus the header deadline and network faults)": when a
\* race that lost a leg to a network fault is won by the other, the fault is
\* reported.
FaultsReported ==
    [][\A q \in Turns :
           /\ turn[q].phase = "race"
           /\ turn[q].firstError = "network"
           /\ turn'[q].phase = "done"
           /\ turn'[q].result.status = "ok"
           => turn'[q].attemptNo > turn[q].attemptNo]_vars

\* "a winner that is the caller's preferred (affinity) relay was reached on the
\* first attempt, so the sticky primary never failed a roll".
PinnedWinsFirst ==
    \A q \in Turns :
        turn[q].result.status = "ok" /\ turn[q].result.from = turn[q].pin
            => turn[q].order[1] = turn[q].pin
=============================================================================
