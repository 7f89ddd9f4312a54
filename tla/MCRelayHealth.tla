---------------------------- MODULE MCRelayHealth ----------------------------
(***************************************************************************)
(* Constants for RelayHealth.  One tick stands for fifteen seconds, as in  *)
(* markRelayFailure: 30s by default, 90s after a 429, 60s after a 504, 45s *)
(* after another 5xx.  The six hours of a 402 are cut to ten ticks: all    *)
(* that matters is that they exceed every other escalated first cooldown.  *)
(***************************************************************************)
EXTENDS RelayLatency

Failures == {"network", "429", "504", "5xx", "402"}
BaseTicks ==
    [s \in Failures |-> CASE s = "network" -> 2
                          [] s = "429"     -> 6
                          [] s = "504"     -> 4
                          [] s = "5xx"     -> 3
                          [] s = "402"     -> 10]

-----------------------------------------------------------------------------
(* What comments promise, and the code does not keep                       *)

\* "park the relay for ~6h ... instead of retrying every 30s" (src/relay-state.ts,
\* markRelayFailure): a disabled deployment stays parked until its cooldown runs
\* out or it serves a request.
ParkHolds ==
    [][\A r \in Relays :
           lastStatus[r] = Parked /\ cool[r] > 0 /\ fails'[r] > 0 => cool'[r] >= cool[r] - 1]_vars
=============================================================================
