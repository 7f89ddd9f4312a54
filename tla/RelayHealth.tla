----------------------------- MODULE RelayHealth -----------------------------
(***************************************************************************)
(* The in-memory health records of src/relay-state.ts: cooldowns that      *)
(* escalate with consecutive failures, and the moving average of latencies *)
(* that challenges the sticky primary.  cooldownUntil is kept as the time  *)
(* left until it.                                                          *)
(***************************************************************************)
EXTENDS Integers

CONSTANTS
    Relays,
    Statuses,     \* kinds of failure that differ in their cooldown
    Base,         \* cooldown of a first failure of each kind, in ticks
    Parked,       \* the kind of a disabled deployment (402)
    MaxLatency,   \* bound: latency samples are 0..MaxLatency
    Floor         \* RELAY_EWMA_FLOOR

ASSUME RelayHealthAssumption ==
    /\ Base \in [Statuses -> Nat \ {0}]
    /\ Parked \in Statuses
    /\ MaxLatency \in Nat
    /\ Floor \in Nat \ {0}

VARIABLES
    fails,       \* consecutiveFailures, counted up to the escalation cap
    cool,        \* ticks until cooldownUntil
    lastStatus,  \* kind of the last failure on record, NoStatus for none
    recovering,  \* slow-start flag
    ewma,        \* ewmaMs, Unmeasured for undefined
    samples      \* ewmaSamples, counted up to the floor

vars == <<fails, cool, lastStatus, recovering, ewma, samples>>

Cap == 4
Unmeasured == -1
NoStatus == "none"
AtMost(n, limit) == IF n < limit THEN n ELSE limit

TypeOK ==
    /\ fails \in [Relays -> 0..Cap]
    /\ cool \in [Relays -> Nat]
    /\ lastStatus \in [Relays -> Statuses \cup {NoStatus}]
    /\ recovering \in [Relays -> BOOLEAN]
    /\ ewma \in [Relays -> -1..MaxLatency]
    /\ samples \in [Relays -> 0..Floor]

Init ==
    /\ fails = [r \in Relays |-> 0]
    /\ cool = [r \in Relays |-> 0]
    /\ lastStatus = [r \in Relays |-> NoStatus]
    /\ recovering = [r \in Relays |-> FALSE]
    /\ ewma = [r \in Relays |-> Unmeasured]
    /\ samples = [r \in Relays |-> 0]

\* Mutation: rounding up.
SmoothUp(sample, average) == (3 * sample + 7 * average) \div 10 + 1

\* Math.round(0.3 * sample + 0.7 * average).
Smooth(sample, average) == (3 * sample + 7 * average + 5) \div 10

\* Mutation: an escalation that wraps around.
CooldownWrapped(status, consecutive) == Base[status] * (consecutive % Cap)
Cooldown(status, consecutive) == Base[status] * AtMost(consecutive, Cap)

\* markRelayFailure: the new cooldown replaces what was left of the old one.
Failure(r, status) ==
    /\ fails' = [fails EXCEPT ![r] = AtMost(@ + 1, Cap)]
    /\ cool' = [cool EXCEPT ![r] = Cooldown(status, fails[r] + 1)]
    /\ lastStatus' = [lastStatus EXCEPT ![r] = status]
    /\ recovering' = [recovering EXCEPT ![r] = TRUE]
    /\ UNCHANGED <<ewma, samples>>

\* Mutations: a success that does not lift the cooldown, or the slow start.
SuccessStillCooling(r, sample) ==
    /\ fails' = [fails EXCEPT ![r] = 0]
    /\ recovering' = [recovering EXCEPT ![r] = FALSE]
    /\ ewma' = [ewma EXCEPT ![r] = IF @ = Unmeasured THEN sample ELSE Smooth(sample, @)]
    /\ samples' = [samples EXCEPT ![r] = AtMost(@ + 1, Floor)]
    /\ UNCHANGED <<cool, lastStatus>>
SuccessStillRecovering(r, sample) ==
    /\ fails' = [fails EXCEPT ![r] = 0]
    /\ cool' = [cool EXCEPT ![r] = 0]
    /\ ewma' = [ewma EXCEPT ![r] = IF @ = Unmeasured THEN sample ELSE Smooth(sample, @)]
    /\ samples' = [samples EXCEPT ![r] = AtMost(@ + 1, Floor)]
    /\ UNCHANGED <<recovering, lastStatus>>

\* markRelaySuccess with a latency: the record is kept.
Success(r, sample) ==
    /\ fails' = [fails EXCEPT ![r] = 0]
    /\ cool' = [cool EXCEPT ![r] = 0]
    /\ recovering' = [recovering EXCEPT ![r] = FALSE]
    /\ ewma' = [ewma EXCEPT ![r] = IF @ = Unmeasured THEN sample ELSE Smooth(sample, @)]
    /\ samples' = [samples EXCEPT ![r] = AtMost(@ + 1, Floor)]
    /\ UNCHANGED lastStatus

Tick ==
    /\ \E r \in Relays : cool[r] > 0
    /\ cool' = [r \in Relays |-> IF cool[r] > 0 THEN cool[r] - 1 ELSE 0]
    /\ UNCHANGED <<fails, lastStatus, recovering, ewma, samples>>

Next ==
    \/ \E r \in Relays, status \in Statuses : Failure(r, status)
    \/ \E r \in Relays, sample \in 0..MaxLatency : Success(r, sample)
    \/ Tick

Spec == Init /\ [][Next]_vars

IsHealthy(r) == cool[r] = 0

-----------------------------------------------------------------------------
(* Properties                                                              *)

\* A relay never cools longer than its last failure justifies: what is left of
\* a cooldown is at most the base of that failure's kind, escalated by the
\* failures in a row (src/relay-state.ts, markRelayFailure).
CooldownJustified ==
    \A r \in Relays : cool[r] > 0 => /\ lastStatus[r] \in Statuses
                                     /\ fails[r] > 0
                                     /\ cool[r] <= Cooldown(lastStatus[r], fails[r])

\* A chronic offender is never let back earlier by failing again in the same
\* way: a repeated failure does not shorten the cooldown under way.
RepeatNeverShortens ==
    [][\A r \in Relays, status \in Statuses :
           Failure(r, status) /\ status = lastStatus[r] => cool'[r] >= cool[r]]_vars

\* Slow start (src/relay-state.ts, RelayHealth.recovering): exactly the relays
\* whose last answer was a failure are barred from challenging the primary.
RecoveringIsLastFailed == \A r \in Relays : recovering[r] <=> fails[r] > 0
=============================================================================
