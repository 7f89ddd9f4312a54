---------------------------- MODULE RelayLatency ----------------------------
(***************************************************************************)
(* RelayHealth with the history of the latencies each relay has shown,     *)
(* which its moving average stands for.                                    *)
(***************************************************************************)
EXTENDS RelayHealth

VARIABLES
    lowest,   \* the lowest latency each relay has shown
    highest   \* the highest

history == <<lowest, highest>>

HistInit ==
    /\ Init
    /\ lowest = [r \in Relays |-> MaxLatency]
    /\ highest = [r \in Relays |-> 0]

HistNext ==
    \/ /\ \E r \in Relays, sample \in 0..MaxLatency :
             /\ Success(r, sample)
             /\ lowest' = [lowest EXCEPT ![r] = AtMost(sample, @)]
             /\ highest' = [highest EXCEPT ![r] = IF sample > @ THEN sample ELSE @]
    \/ /\ Tick \/ \E r \in Relays, status \in Statuses : Failure(r, status)
       /\ UNCHANGED history

HistSpec == HistInit /\ [][HistNext]_<<vars, history>>

\* The average that ranks a relay is as good as its samples: rounding never
\* drifts it below a latency the relay has always exceeded, nor above one it
\* has never reached, and a relay has an average exactly when it has samples.
AverageSound ==
    \A r \in Relays :
        /\ samples[r] > 0 <=> ewma[r] # Unmeasured
        /\ samples[r] > 0 => ewma[r] \in lowest[r]..highest[r]
=============================================================================
