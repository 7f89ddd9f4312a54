-------------------------- MODULE RelayHealthProofs --------------------------
(***************************************************************************)
(* Proofs about RelayHealth, and about the order of the relays that        *)
(* RelayOrder computes from it, for every pool, every table of cooldowns   *)
(* and all latencies.                                                      *)
(***************************************************************************)
EXTENDS RelayLatency, RelayOrder, FiniteSetTheorems, SequenceTheorems,
        WellFoundedInduction, TLAPS

\* The three invariants are inductive together.
IInv == TypeOK /\ CooldownJustified /\ RecoveringIsLastFailed

-----------------------------------------------------------------------------
\* Counting on beyond the cap of the escalation makes no difference.
LEMMA CapAbsorbs ==
    ASSUME NEW n \in Nat
    PROVE  /\ AtMost(n, Cap) \in 0..Cap
           /\ AtMost(AtMost(n, Cap), Cap) = AtMost(n, Cap)
           /\ n > 0 => AtMost(n, Cap) > 0
           /\ AtMost(n, Cap) <= AtMost(n + 1, Cap)
BY DEF AtMost, Cap

\* An escalated cooldown is a number of ticks.
LEMMA CooldownType ==
    ASSUME NEW status \in Statuses, NEW n \in Nat
    PROVE  Cooldown(status, n) \in Nat
<1>1. Base[status] \in Nat
  BY RelayHealthAssumption
<1>2. AtMost(n, Cap) \in 0..Cap
  BY CapAbsorbs
<1>3. \A b \in Nat, m \in 0..Cap : b * m \in Nat
  BY DEF Cap
<1> QED
  BY <1>1, <1>2, <1>3 DEF Cooldown

\* One more failure in a row never shortens it.
LEMMA CooldownEscalates ==
    ASSUME NEW status \in Statuses, NEW n \in Nat
    PROVE  Cooldown(status, n) <= Cooldown(status, n + 1)
<1> DEFINE b == Base[status]
           m == AtMost(n, Cap)
           k == AtMost(n + 1, Cap)
<1>1. b \in Nat
  BY RelayHealthAssumption
<1>2. m \in 0..4 /\ k \in 0..4 /\ m <= k
  BY CapAbsorbs DEF Cap
<1> HIDE DEF b, m, k
<1>3. b * m <= b * k
  <2>1. /\ b * 0 = 0 /\ b * 1 = b /\ b * 2 = b + b
        /\ b * 3 = b + b + b /\ b * 4 = b + b + b + b
    BY <1>1
  <2>2. m \in {0, 1, 2, 3, 4} /\ k \in {0, 1, 2, 3, 4}
    BY <1>2
  <2> QED
    BY <1>1, <1>2, <2>1, <2>2
<1> QED
  BY <1>3 DEF Cooldown, b, m, k

\* A smoothed latency lies within the range of latencies.
LEMMA SmoothBounds ==
    ASSUME NEW sample \in 0..MaxLatency, NEW average \in 0..MaxLatency
    PROVE  Smooth(sample, average) \in 0..MaxLatency
BY RelayHealthAssumption DEF Smooth

-----------------------------------------------------------------------------
\* A relay that nothing is known of satisfies the invariant.
LEMMA InitIInv == Init => IInv
BY RelayHealthAssumption
   DEF Init, IInv, TypeOK, CooldownJustified, RecoveringIsLastFailed, Cap, Unmeasured

\* What a step does to a relay keeps the types of its record.
LEMMA TypeOKStep == TypeOK /\ [Next]_vars => TypeOK'
<1> SUFFICES ASSUME TypeOK, [Next]_vars PROVE TypeOK'
  OBVIOUS
<1> USE DEF TypeOK
<1>1. ASSUME NEW r \in Relays, NEW status \in Statuses, Failure(r, status) PROVE TypeOK'
  <2>1. Cooldown(status, fails[r] + 1) \in Nat /\ fails[r] + 1 \in Nat
    BY CooldownType DEF Cap
  <2>2. AtMost(fails[r] + 1, Cap) \in 0..Cap
    BY <2>1, CapAbsorbs
  <2> QED
    BY <1>1, <2>1, <2>2 DEF Failure
<1>2. ASSUME NEW r \in Relays, NEW sample \in 0..MaxLatency, Success(r, sample) PROVE TypeOK'
  <2>1. ewma' \in [Relays -> -1..MaxLatency]
    <3>1. (IF ewma[r] = Unmeasured THEN sample ELSE Smooth(sample, ewma[r])) \in -1..MaxLatency
      <4>1. CASE ewma[r] = Unmeasured
        BY <4>1
      <4>2. CASE ewma[r] # Unmeasured
        <5>1. ewma[r] \in 0..MaxLatency
          BY <4>2, RelayHealthAssumption DEF Unmeasured
        <5>2. Smooth(sample, ewma[r]) \in 0..MaxLatency
          BY <5>1, SmoothBounds
        <5>3. Smooth(sample, ewma[r]) \in -1..MaxLatency
          BY <5>2, RelayHealthAssumption
        <5> QED
          BY <4>2, <5>3
      <4> QED
        BY <4>1, <4>2
    <3> QED
      BY <1>2, <3>1 DEF Success
  <2>2. samples' \in [Relays -> 0..Floor]
    BY <1>2, RelayHealthAssumption DEF Success, AtMost
  <2> QED
    BY <1>2, <2>1, <2>2 DEF Success, Cap
<1>3. CASE Tick
  BY <1>3 DEF Tick
<1>4. CASE UNCHANGED vars
  BY <1>4 DEF vars
<1> QED
  BY <1>1, <1>2, <1>3, <1>4 DEF Next

\* A failure sets a cooldown that its kind and the failures in a row justify,
\* a success lifts it, and time only shortens it.
LEMMA CooldownStep == TypeOK /\ CooldownJustified /\ [Next]_vars => CooldownJustified'
<1> SUFFICES ASSUME TypeOK, CooldownJustified, [Next]_vars,
                    NEW q \in Relays, cool'[q] > 0
             PROVE  /\ lastStatus'[q] \in Statuses
                    /\ fails'[q] > 0
                    /\ cool'[q] <= Cooldown(lastStatus'[q], fails'[q])
  BY DEF CooldownJustified
<1> USE DEF TypeOK
<1>0. ASSUME cool'[q] <= cool[q], fails'[q] = fails[q], lastStatus'[q] = lastStatus[q], cool'[q] \in Nat
      PROVE  /\ lastStatus'[q] \in Statuses
             /\ fails'[q] > 0
             /\ cool'[q] <= Cooldown(lastStatus'[q], fails'[q])
  <2>1. cool[q] > 0
    BY <1>0
  <2>2. /\ lastStatus[q] \in Statuses
        /\ fails[q] > 0
        /\ cool[q] <= Cooldown(lastStatus[q], fails[q])
    BY <2>1 DEF CooldownJustified
  <2>3. Cooldown(lastStatus[q], fails[q]) \in Nat
    BY <2>2, CooldownType
  <2> QED
    BY <1>0, <2>2, <2>3
<1>1. ASSUME NEW r \in Relays, NEW status \in Statuses, Failure(r, status)
      PROVE  /\ lastStatus'[q] \in Statuses
             /\ fails'[q] > 0
             /\ cool'[q] <= Cooldown(lastStatus'[q], fails'[q])
  <2>1. CASE q = r
    <3>1. fails[r] + 1 \in Nat /\ fails[r] + 1 > 0
      BY DEF Cap
    <3>2. /\ AtMost(fails[r] + 1, Cap) > 0
          /\ AtMost(AtMost(fails[r] + 1, Cap), Cap) = AtMost(fails[r] + 1, Cap)
      BY <3>1, CapAbsorbs
    <3>3. /\ fails'[q] = AtMost(fails[r] + 1, Cap)
          /\ cool'[q] = Cooldown(status, fails[r] + 1)
          /\ lastStatus'[q] = status
      BY <1>1, <2>1 DEF Failure
    <3>4. cool'[q] = Cooldown(lastStatus'[q], fails'[q])
      BY <3>2, <3>3 DEF Cooldown
    <3>5. cool'[q] \in Nat
      BY <3>1, <3>3, CooldownType
    <3> QED
      BY <3>2, <3>3, <3>4, <3>5
  <2>2. CASE q # r
    BY <1>1, <2>2, <1>0 DEF Failure
  <2> QED
    BY <2>1, <2>2
<1>2. ASSUME NEW r \in Relays, NEW sample \in 0..MaxLatency, Success(r, sample)
      PROVE  /\ lastStatus'[q] \in Statuses
             /\ fails'[q] > 0
             /\ cool'[q] <= Cooldown(lastStatus'[q], fails'[q])
  <2>1. q # r
    BY <1>2 DEF Success
  <2> QED
    BY <1>2, <2>1, <1>0 DEF Success
<1>3. CASE Tick
  <2>1. cool'[q] <= cool[q] /\ cool'[q] \in Nat
    BY <1>3 DEF Tick
  <2> QED
    BY <1>3, <2>1, <1>0 DEF Tick
<1>4. CASE UNCHANGED vars
  BY <1>4, <1>0 DEF vars
<1> QED
  BY <1>1, <1>2, <1>3, <1>4 DEF Next

\* The flag and the count are set and cleared together.
LEMMA RecoveringStep == TypeOK /\ RecoveringIsLastFailed /\ [Next]_vars => RecoveringIsLastFailed'
<1> SUFFICES ASSUME TypeOK, RecoveringIsLastFailed, [Next]_vars PROVE RecoveringIsLastFailed'
  OBVIOUS
<1> USE DEF TypeOK, RecoveringIsLastFailed
<1>1. ASSUME NEW r \in Relays, NEW status \in Statuses, Failure(r, status)
      PROVE  RecoveringIsLastFailed'
  <2>1. fails[r] + 1 \in Nat /\ fails[r] + 1 > 0
    BY DEF Cap
  <2>2. AtMost(fails[r] + 1, Cap) > 0
    BY <2>1, CapAbsorbs
  <2>3. fails'[r] > 0 /\ recovering'[r] = TRUE
    BY <1>1, <2>2 DEF Failure
  <2>4. \A q \in Relays \ {r} : fails'[q] = fails[q] /\ recovering'[q] = recovering[q]
    BY <1>1 DEF Failure
  <2> QED
    BY <2>3, <2>4
<1>2. ASSUME NEW r \in Relays, NEW sample \in 0..MaxLatency, Success(r, sample)
      PROVE  RecoveringIsLastFailed'
  <2>1. fails'[r] = 0 /\ recovering'[r] = FALSE
    BY <1>2 DEF Success
  <2>2. \A q \in Relays \ {r} : fails'[q] = fails[q] /\ recovering'[q] = recovering[q]
    BY <1>2 DEF Success
  <2> QED
    BY <2>1, <2>2
<1>3. CASE Tick
  BY <1>3 DEF Tick
<1>4. CASE UNCHANGED vars
  BY <1>4 DEF vars
<1> QED
  BY <1>1, <1>2, <1>3, <1>4 DEF Next

-----------------------------------------------------------------------------
\* The records keep their types, their cooldowns are justified by the last
\* failure, and the relays in slow start are those whose last answer was one.
\* (markRelayFailure, markRelaySuccess)
THEOREM HealthInvariant == Spec => []IInv
<1>1. IInv /\ [Next]_vars => IInv'
  BY TypeOKStep, CooldownStep, RecoveringStep DEF IInv
<1> QED
  BY <1>1, InitIInv, PTL DEF Spec

\* Every health record keeps its type.  (RelayHealth)
THEOREM TypeCorrect == Spec => []TypeOK
BY HealthInvariant, PTL DEF IInv

\* No relay ever cools longer than its last failure justifies.
\* (markRelayFailure)
THEOREM CooldownsJustified == Spec => []CooldownJustified
BY HealthInvariant, PTL DEF IInv

\* Exactly the relays whose last answer was a failure are barred from
\* challenging the primary.  (markRelaySuccess, markRelayFailure)
THEOREM SlowStartExact == Spec => []RecoveringIsLastFailed
BY HealthInvariant, PTL DEF IInv

\* Failing again in the same way never shortens a cooldown under way.
\* (markRelayFailure)
THEOREM ChronicNeverShortened == Spec => RepeatNeverShortens
<1>1. IInv /\ [Next]_vars =>
        [\A r \in Relays, status \in Statuses :
           Failure(r, status) /\ status = lastStatus[r] => cool'[r] >= cool[r]]_vars
  <2> SUFFICES ASSUME IInv, NEW r \in Relays, NEW status \in Statuses,
                      Failure(r, status), status = lastStatus[r]
               PROVE  cool'[r] >= cool[r]
    OBVIOUS
  <2>1. cool[r] \in Nat /\ fails[r] \in Nat /\ fails[r] + 1 \in Nat
    BY DEF IInv, TypeOK, Cap
  <2>2. cool'[r] = Cooldown(status, fails[r] + 1)
    BY DEF Failure, IInv, TypeOK
  <2>3. cool[r] > 0 => cool[r] <= Cooldown(status, fails[r])
    BY DEF IInv, CooldownJustified
  <2>4. /\ Cooldown(status, fails[r]) <= Cooldown(status, fails[r] + 1)
        /\ Cooldown(status, fails[r]) \in Nat
        /\ Cooldown(status, fails[r] + 1) \in Nat
    BY <2>1, CooldownEscalates, CooldownType
  <2> QED
    BY <2>1, <2>2, <2>3, <2>4
<1> QED
  BY <1>1, HealthInvariant, PTL DEF Spec, RepeatNeverShortens

-----------------------------------------------------------------------------
(* The average and the latencies it stands for                             *)

LatencyInv == lowest \in [Relays -> 0..MaxLatency] /\ highest \in [Relays -> 0..MaxLatency]

\* Rounding takes a smoothed latency no further than the two it lies between.
LEMMA SmoothBetween ==
    ASSUME NEW sample \in Nat, NEW average \in Nat, NEW low \in Nat, NEW high \in Nat,
           low <= sample, sample <= high, low <= average, average <= high
    PROVE  Smooth(sample, average) \in low..high
BY DEF Smooth

\* A sample moves the average between it and the one before; nothing else moves it.
LEMMA AverageStep ==
    ASSUME TypeOK, LatencyInv, AverageSound, [HistNext]_<<vars, history>>
    PROVE  LatencyInv' /\ AverageSound'
<1>1. CASE UNCHANGED <<vars, history>>
  BY <1>1 DEF vars, history, LatencyInv, AverageSound
<1>2. CASE UNCHANGED <<ewma, samples, history>>
  BY <1>2 DEF history, LatencyInv, AverageSound
<1>3. ASSUME NEW r \in Relays, NEW sample \in 0..MaxLatency, Success(r, sample),
             lowest' = [lowest EXCEPT ![r] = AtMost(sample, @)],
             highest' = [highest EXCEPT ![r] = IF sample > @ THEN sample ELSE @]
      PROVE  LatencyInv' /\ AverageSound'
  <2>1. /\ sample \in Nat /\ MaxLatency \in Nat /\ Floor \in Nat /\ Floor > 0
        /\ lowest[r] \in 0..MaxLatency /\ highest[r] \in 0..MaxLatency
        /\ ewma[r] \in -1..MaxLatency /\ samples[r] \in 0..Floor
    BY RelayHealthAssumption DEF TypeOK, LatencyInv
  <2> DEFINE low == AtMost(sample, lowest[r])
             high == IF sample > highest[r] THEN sample ELSE highest[r]
  <2>2. /\ low \in 0..MaxLatency /\ low <= sample /\ low <= lowest[r]
        /\ high \in 0..MaxLatency /\ sample <= high /\ highest[r] <= high
    BY <2>1 DEF AtMost
  <2>3. lowest' = [lowest EXCEPT ![r] = low] /\ highest' = [highest EXCEPT ![r] = high]
    BY <1>3
  <2> HIDE DEF low, high
  <2>4. LatencyInv'
    BY <2>2, <2>3 DEF LatencyInv
  <2>5. ewma'[r] = (IF ewma[r] = Unmeasured THEN sample ELSE Smooth(sample, ewma[r]))
        /\ samples'[r] > 0
    BY <1>3, <2>1 DEF Success, TypeOK, AtMost
  <2>6. ewma'[r] \in low..high /\ ewma'[r] # Unmeasured
    <3>1. CASE ewma[r] = Unmeasured
      BY <2>1, <2>2, <2>5, <3>1 DEF Unmeasured
    <3>2. CASE ewma[r] # Unmeasured
      <4>1. ewma[r] \in Nat /\ lowest[r] <= ewma[r] /\ ewma[r] <= highest[r]
        BY <2>1, <3>2 DEF AverageSound, Unmeasured
      <4>2. low <= ewma[r] /\ ewma[r] <= high /\ low \in Nat /\ high \in Nat
        BY <2>1, <2>2, <4>1
      <4>3. Smooth(sample, ewma[r]) \in low..high
        BY <2>1, <2>2, <4>1, <4>2, SmoothBetween
      <4> QED
        BY <2>5, <3>2, <4>2, <4>3 DEF Unmeasured
    <3> QED
      BY <3>1, <3>2
  <2>7. ASSUME NEW q \in Relays \ {r}
        PROVE  UNCHANGED <<ewma[q], samples[q], lowest[q], highest[q]>>
    BY <1>3, <2>3 DEF Success, TypeOK, LatencyInv
  <2>8. lowest'[r] = low /\ highest'[r] = high
    BY <2>3 DEF LatencyInv
  <2> QED
    BY <2>4, <2>5, <2>6, <2>7, <2>8 DEF AverageSound
<1> QED
  BY <1>1, <1>2, <1>3 DEF HistNext, Tick, Failure

\* The average that ranks a relay never leaves the range of the latencies it
\* has shown, whatever the samples and however many.
THEOREM AveragesSound == HistSpec => []AverageSound
<1>1. HistInit => TypeOK /\ LatencyInv /\ AverageSound
  <2> SUFFICES ASSUME HistInit PROVE TypeOK /\ LatencyInv /\ AverageSound
    OBVIOUS
  <2>1. TypeOK
    BY InitIInv DEF HistInit, IInv
  <2>2. LatencyInv
    BY RelayHealthAssumption DEF HistInit, LatencyInv
  <2>3. ASSUME NEW r \in Relays PROVE samples[r] = 0 /\ ewma[r] = Unmeasured
    BY DEF HistInit, Init
  <2>4. AverageSound
    <3> SUFFICES ASSUME NEW r \in Relays
                 PROVE  /\ samples[r] > 0 <=> ewma[r] # Unmeasured
                        /\ samples[r] > 0 => ewma[r] \in lowest[r]..highest[r]
      BY Zenon DEF AverageSound
    <3>1. samples[r] = 0 /\ ewma[r] = Unmeasured
      BY <2>3
    <3> QED
      BY <3>1
  <2> QED
    BY <2>1, <2>2, <2>4
<1>2. [HistNext]_<<vars, history>> => [Next]_vars
  BY DEF HistNext, Next
<1> QED
  BY <1>1, <1>2, TypeOKStep, AverageStep, PTL DEF HistSpec

-----------------------------------------------------------------------------
(* Filtering a list                                                        *)

\* Whatever the list has of X comes before whatever it has of Y.
Before(list, X, Y) == \A i, j \in DOMAIN list : list[i] \in X /\ list[j] \in Y => i < j

\* A set of places in a list, and how many of them come no later.
Rank(at, i) == Cardinality({j \in at : j <= i})

\* The places of a set are counted one by one, each with a rank of its own.
LEMMA RankFacts ==
    ASSUME NEW n \in Nat, NEW at \in SUBSET (1..n)
    PROVE  /\ Cardinality(at) \in Nat
           /\ \A i \in at : Rank(at, i) \in 1..Cardinality(at)
           /\ \A i, j \in at : i < j => Rank(at, i) < Rank(at, j)
           /\ \A k \in 1..Cardinality(at) : \E i \in at : Rank(at, i) = k
<1>1. IsFiniteSet(at) /\ Cardinality(at) \in Nat
  <2>1. IsFiniteSet(1..n)
    BY FS_Interval
  <2> QED BY <2>1, FS_Subset, FS_CardinalityType
<1>2. ASSUME NEW i \in at PROVE Rank(at, i) \in 1..Cardinality(at)
  <2> DEFINE low == {j \in at : j <= i}
  <2>1. IsFiniteSet(low) /\ Cardinality(low) \in Nat /\ Cardinality(low) <= Cardinality(at)
    BY <1>1, FS_Subset, FS_CardinalityType
  <2>2. i \in low
    OBVIOUS
  <2>3. Cardinality(low) # 0
    BY <2>1, <2>2, FS_EmptySet
  <2> QED BY <1>1, <2>1, <2>3 DEF Rank
<1>3. ASSUME NEW i \in at, NEW j \in at, i < j PROVE Rank(at, i) < Rank(at, j)
  <2> DEFINE low == {l \in at : l <= i}
             high == {l \in at : l <= j}
  <2>1. IsFiniteSet(high) /\ low \in SUBSET high /\ j \in high /\ j \notin low
    <3>1. at \subseteq Int /\ high \in SUBSET at
      OBVIOUS
    <3>2. IsFiniteSet(high)
      BY <1>1, <3>1, FS_Subset
    <3>3. \A l \in at : l <= i => l <= j
      BY <1>3, <3>1
    <3>4. j \in high /\ j \notin low
      BY <1>3, <3>1
    <3> QED BY <3>2, <3>3, <3>4
  <2>2. IsFiniteSet(low) /\ Cardinality(low) <= Cardinality(high) /\ Cardinality(low) # Cardinality(high)
    <3> HIDE DEF low, high
    <3> QED BY <2>1, FS_Subset
  <2>3. Cardinality(low) \in Nat /\ Cardinality(high) \in Nat
    BY <2>1, <2>2, FS_CardinalityType
  <2> QED BY <2>2, <2>3 DEF Rank
<1>4. ASSUME NEW k \in 1..Cardinality(at) PROVE \E i \in at : Rank(at, i) = k
  <2> DEFINE f == [i \in at |-> Rank(at, i)]
             T == 1..Cardinality(at)
  <2>1. f \in [at -> T]
    BY <1>2
  <2>2. IsInjective(f)
    <3>1. ASSUME NEW i \in at, NEW j \in at, f[i] = f[j] PROVE i = j
      <4>1. i \in Int /\ j \in Int /\ f[i] \in Int /\ f[j] \in Int
        BY <1>1, <2>1
      <4> QED BY <1>3, <3>1, <4>1
    <3> QED BY <3>1 DEF IsInjective
  <2>3. f \in Injection(at, T)
    BY <2>1, <2>2 DEF Injection
  <2>4. IsFiniteSet(T) /\ Cardinality(T) = Cardinality(at)
    BY <1>1, FS_Interval
  <2>5. f \in Surjection(at, T)
    <3> HIDE DEF f, T
    <3> QED BY <2>3, <2>4, FS_Injection
  <2> QED BY <2>5 DEF Surjection
<1> QED BY <1>1, <1>2, <1>3, <1>4

\* filter keeps the members of S that the list has, each as often as it has them, in their
\* order: in front the one that was in front, if it is kept.
LEMMA KeepFacts ==
    ASSUME NEW T, NEW order \in Seq(T), NEW S
    PROVE  /\ Keep(order, S) \in Seq(T)
           /\ Range(Keep(order, S)) = Range(order) \cap S
           /\ IsInjective(order) => IsInjective(Keep(order, S))
           /\ order # <<>> /\ order[1] \in S => Keep(order, S) # <<>> /\ Keep(order, S)[1] = order[1]
           /\ \A X, Y : Before(order, X, Y) => Before(Keep(order, S), X, Y)
<1> DEFINE at == {i \in DOMAIN order : order[i] \in S}
           place(k) == CHOOSE i \in at : Rank(at, i) = k
           kept == [k \in 1..Cardinality(at) |-> order[place(k)]]
<1>1. DOMAIN order = 1..Len(order) /\ Len(order) \in Nat /\ \A i \in DOMAIN order : order[i] \in T
  BY LenProperties
<1>2. at \in SUBSET (1..Len(order))
  BY <1>1
<1>3. Keep(order, S) = kept
  BY DEF Keep, Rank
<1>4. /\ Cardinality(at) \in Nat
      /\ \A i \in at : Rank(at, i) \in 1..Cardinality(at)
      /\ \A i, j \in at : i < j => Rank(at, i) < Rank(at, j)
      /\ \A k \in 1..Cardinality(at) : \E i \in at : Rank(at, i) = k
  <2> HIDE DEF at
  <2> QED BY <1>1, <1>2, RankFacts
<1>5. \A k \in 1..Cardinality(at) : place(k) \in at /\ Rank(at, place(k)) = k
  BY <1>4
<1>6. \A i \in at : place(Rank(at, i)) = i
  <2>1. ASSUME NEW i \in at, NEW j \in at, Rank(at, i) = Rank(at, j) PROVE i = j
    <3>1. i \in Int /\ j \in Int /\ Rank(at, i) \in Int /\ Rank(at, j) \in Int
      BY <1>1, <1>4
    <3> QED BY <1>4, <2>1, <3>1
  <2> HIDE DEF at
  <2>2. ASSUME NEW i \in at PROVE place(Rank(at, i)) = i
    BY <1>4, <1>5, <2>1
  <2> QED BY <2>2
<1> HIDE DEF place
<1>7. kept \in [1..Cardinality(at) -> T]
  BY <1>1, <1>5
<1>8. Keep(order, S) \in Seq(T)
  BY <1>3, <1>4, <1>7, SeqDef
<1>9. Range(Keep(order, S)) = Range(order) \cap S
  <2>1. ASSUME NEW k \in 1..Cardinality(at) PROVE kept[k] \in Range(order) \cap S
    BY <1>5 DEF Range
  <2>2. ASSUME NEW x \in Range(order) \cap S PROVE \E k \in 1..Cardinality(at) : kept[k] = x
    <3>1. PICK i \in at : order[i] = x
      BY DEF Range
    <3> HIDE DEF at
    <3> QED BY <1>4, <1>6, <3>1
  <2>3. DOMAIN kept = 1..Cardinality(at)
    OBVIOUS
  <2> HIDE DEF kept
  <2> QED BY <1>3, <2>1, <2>2, <2>3 DEF Range
<1>10. ASSUME IsInjective(order) PROVE IsInjective(Keep(order, S))
  <2>1. ASSUME NEW k \in 1..Cardinality(at), NEW l \in 1..Cardinality(at), kept[k] = kept[l] PROVE k = l
    <3>1. place(k) = place(l)
      BY <1>5, <1>10, <2>1 DEF IsInjective
    <3> QED BY <1>5, <3>1
  <2>2. DOMAIN kept = 1..Cardinality(at)
    OBVIOUS
  <2> HIDE DEF kept
  <2> QED BY <1>3, <2>1, <2>2 DEF IsInjective
<1>11. ASSUME order # <<>>, order[1] \in S
       PROVE  Keep(order, S) # <<>> /\ Keep(order, S)[1] = order[1]
  <2>1. 1 \in at
    BY <1>1, <1>11, EmptySeq
  <2>2. Rank(at, 1) = 1
    <3>1. {j \in at : j <= 1} = {1}
      BY <1>1, <2>1
    <3> HIDE DEF at
    <3> QED BY <3>1, FS_Singleton DEF Rank
  <2>3. 1 \in 1..Cardinality(at) /\ place(1) = 1
    BY <1>4, <1>6, <2>1, <2>2
  <2>4. kept[1] = order[1] /\ 1 \in DOMAIN kept
    BY <2>3
  <2> HIDE DEF kept
  <2> QED BY <1>3, <2>4
<1>12. ASSUME NEW X, NEW Y, Before(order, X, Y) PROVE Before(Keep(order, S), X, Y)
  <2>1. ASSUME NEW k \in 1..Cardinality(at), NEW l \in 1..Cardinality(at), kept[k] \in X, kept[l] \in Y
        PROVE  k < l
    <3>1. place(k) < place(l)
      BY <1>5, <1>12, <2>1 DEF Before
    <3>2. place(k) \in at /\ place(l) \in at /\ Rank(at, place(k)) = k /\ Rank(at, place(l)) = l
      BY <1>5
    <3> HIDE DEF at
    <3> QED BY <1>4, <3>1, <3>2
  <2>2. DOMAIN kept = 1..Cardinality(at)
    OBVIOUS
  <2> HIDE DEF kept
  <2> QED BY <1>3, <2>1, <2>2 DEF Before
<1> QED BY <1>8, <1>9, <1>10, <1>11, <1>12

-----------------------------------------------------------------------------
(* Lists that have each of a set once                                      *)

\* The list has each member of S once, and nothing else.
Lists(list, S) == list \in Seq(Relays) /\ Range(list) = S /\ IsInjective(list)

\* What that says of the places of the list.
LEMMA ListsFacts ==
    ASSUME NEW list, NEW S, Lists(list, S)
    PROVE  /\ Len(list) \in Nat /\ DOMAIN list = 1..Len(list) /\ S \subseteq Relays
           /\ \A i \in DOMAIN list : list[i] \in S
           /\ \A r \in S : \E i \in DOMAIN list : list[i] = r
           /\ \A i, j \in DOMAIN list : list[i] = list[j] => i = j
           /\ list = <<>> <=> S = {}
<1>1. /\ Len(list) \in Nat /\ DOMAIN list = 1..Len(list)
      /\ \A i \in DOMAIN list : list[i] \in Relays
  BY LenProperties DEF Lists
<1>2. /\ \A i \in DOMAIN list : list[i] \in S
      /\ \A r \in S : \E i \in DOMAIN list : list[i] = r
      /\ \A i, j \in DOMAIN list : list[i] = list[j] => i = j
  BY DEF Lists, Range, IsInjective
<1>3. list = <<>> <=> DOMAIN list = {}
  <2>1. list # <<>> => Len(list) # 0
    BY EmptySeq DEF Lists
  <2> QED BY <1>1, <2>1
<1> QED BY <1>1, <1>2, <1>3

\* Such a list is as long as the set is large.
LEMMA ListsLength ==
    ASSUME NEW list, NEW S, Lists(list, S)
    PROVE  IsFiniteSet(S) /\ Len(list) = Cardinality(S)
<1>1. /\ Len(list) \in Nat /\ DOMAIN list = 1..Len(list)
      /\ list \in [1..Len(list) -> S]
      /\ \A r \in S : \E i \in 1..Len(list) : list[i] = r
  BY ListsFacts, LenProperties DEF Lists
<1>2. list \in Bijection(1..Len(list), S)
  BY <1>1 DEF Lists, Bijection, Injection, Surjection
<1>3. IsFiniteSet(1..Len(list)) /\ Cardinality(1..Len(list)) = Len(list)
  <2>1. ASSUME NEW n \in Nat PROVE IsFiniteSet(1..n) /\ Cardinality(1..n) = n
    <3>1. IsFiniteSet(1..n)
      BY FS_Interval
    <3>2. Cardinality(1..n) = IF 1 > n THEN 0 ELSE n - 1 + 1
      BY FS_Interval
    <3> QED BY <3>1, <3>2
  <2> QED BY <1>1, <2>1
<1>4. ExistsBijection(1..Len(list), S)
  BY <1>2 DEF ExistsBijection
<1> QED BY <1>3, <1>4, FS_Bijection

\* What is kept of a list.
LEMMA KeepLists ==
    ASSUME NEW list, NEW S, Lists(list, S), NEW T
    PROVE  /\ Lists(Keep(list, T), S \cap T)
           /\ list # <<>> /\ list[1] \in T => Keep(list, T) # <<>> /\ Keep(list, T)[1] = list[1]
           /\ \A X, Y : Before(list, X, Y) => Before(Keep(list, T), X, Y)
<1>1. list \in Seq(Relays) /\ Range(list) = S /\ IsInjective(list)
  BY DEF Lists
<1>2. Lists(Keep(list, T), S \cap T)
  BY <1>1, KeepFacts DEF Lists
<1>3. list # <<>> /\ list[1] \in T => Keep(list, T) # <<>> /\ Keep(list, T)[1] = list[1]
  BY <1>1, KeepFacts
<1>4. \A X, Y : Before(list, X, Y) => Before(Keep(list, T), X, Y)
  BY <1>1, KeepFacts
<1> QED BY <1>2, <1>3, <1>4

\* One list after the other, of sets that have nothing in common.
LEMMA ConcatLists ==
    ASSUME NEW a, NEW A, Lists(a, A), NEW b, NEW B, Lists(b, B), A \cap B = {}
    PROVE  /\ Lists(a \o b, A \cup B)
           /\ Before(a \o b, A, B)
           /\ \A X, Y \in SUBSET A : Before(a, X, Y) => Before(a \o b, X, Y)
           /\ a # <<>> => a \o b # <<>> /\ (a \o b)[1] = a[1]
<1> DEFINE c == a \o b
<1>1. /\ Len(a) \in Nat /\ DOMAIN a = 1..Len(a) /\ (a = <<>> <=> A = {})
      /\ \A i \in DOMAIN a : a[i] \in A
      /\ \A i, j \in DOMAIN a : a[i] = a[j] => i = j
  BY ListsFacts
<1>2. /\ Len(b) \in Nat /\ DOMAIN b = 1..Len(b)
      /\ \A i \in DOMAIN b : b[i] \in B
      /\ \A i, j \in DOMAIN b : b[i] = b[j] => i = j
  BY ListsFacts
<1>3. /\ c \in Seq(Relays) /\ Len(c) = Len(a) + Len(b)
      /\ \A i \in 1..(Len(a) + Len(b)) : c[i] = IF i <= Len(a) THEN a[i] ELSE b[i - Len(a)]
  BY ConcatProperties DEF Lists
<1>4. DOMAIN c = 1..(Len(a) + Len(b))
  BY <1>3, LenProperties
<1>5. Range(c) = A \cup B
  BY RangeConcatenation DEF Lists
<1> HIDE DEF c
<1>6. ASSUME NEW i \in DOMAIN c
      PROVE  /\ i <= Len(a) => c[i] = a[i] /\ i \in DOMAIN a /\ c[i] \in A
             /\ i > Len(a) => c[i] = b[i - Len(a)] /\ i - Len(a) \in DOMAIN b /\ c[i] \in B
  BY <1>1, <1>2, <1>3, <1>4
<1>7. ASSUME NEW i \in DOMAIN c, NEW j \in DOMAIN c, c[i] = c[j] PROVE i = j
  <2>1. CASE i <= Len(a) /\ j <= Len(a)
    BY <1>1, <1>6, <1>7, <2>1
  <2>2. CASE i > Len(a) /\ j > Len(a)
    <3>1. i - Len(a) = j - Len(a)
      BY <1>2, <1>6, <1>7, <2>2
    <3> QED BY <1>1, <1>4, <3>1
  <2>3. CASE (i <= Len(a) /\ j > Len(a)) \/ (i > Len(a) /\ j <= Len(a))
    BY <1>6, <1>7, <2>3
  <2> QED BY <1>1, <1>4, <2>1, <2>2, <2>3
<1>8. Lists(c, A \cup B)
  BY <1>3, <1>5, <1>7 DEF Lists, IsInjective
<1>9. ASSUME NEW i \in DOMAIN c, NEW j \in DOMAIN c, c[i] \in A, c[j] \in B PROVE i < j
  <2>1. i <= Len(a) /\ j > Len(a)
    BY <1>1, <1>4, <1>6, <1>9
  <2> QED BY <1>1, <1>4, <2>1
<1>10. ASSUME a # <<>> PROVE c # <<>> /\ c[1] = a[1]
  <2>1. Len(a) > 0
    BY <1>1, <1>10
  <2>2. 1 \in DOMAIN c /\ 1 <= Len(a)
    BY <1>1, <1>2, <1>4, <2>1
  <2> QED BY <1>6, <2>2
<1>11. ASSUME NEW X \in SUBSET A, NEW Y \in SUBSET A, Before(a, X, Y) PROVE Before(c, X, Y)
  <2>1. ASSUME NEW i \in DOMAIN c, NEW j \in DOMAIN c, c[i] \in X, c[j] \in Y PROVE i < j
    <3>1. c[i] \in A /\ c[j] \in A
      BY <2>1
    <3>2. i <= Len(a) /\ j <= Len(a)
      BY <1>1, <1>4, <1>6, <3>1
    <3> QED BY <1>6, <1>11, <2>1, <3>2 DEF Before
  <2> QED BY <2>1 DEF Before
<1>12. Before(c, A, B)
  BY <1>9 DEF Before
<1> QED BY <1>8, <1>10, <1>11, <1>12 DEF c

\* A list of one.
LEMMA SingleLists ==
    ASSUME NEW r \in Relays
    PROVE  Lists(<<r>>, {r}) /\ <<r>> # <<>> /\ <<r>>[1] = r
BY DEF Lists, Range, IsInjective

\* The head of a list, and its tail.
LEMMA HeadLists ==
    ASSUME NEW list, NEW S, Lists(list, S), list # <<>>
    PROVE  /\ list[1] \in S /\ Head(list) = list[1] /\ S \subseteq Relays
           /\ Lists(Tail(list), S \ {list[1]})
<1> DEFINE t == Tail(list)
<1>1. /\ Len(list) \in Nat /\ DOMAIN list = 1..Len(list) /\ S \subseteq Relays
      /\ \A i \in DOMAIN list : list[i] \in S
      /\ \A r \in S : \E i \in DOMAIN list : list[i] = r
      /\ \A i, j \in DOMAIN list : list[i] = list[j] => i = j
      /\ Len(list) > 0
  BY ListsFacts, EmptySeq DEF Lists
<1>2. /\ t \in Seq(Relays) /\ Len(t) = Len(list) - 1
      /\ \A i \in 1..Len(t) : t[i] = list[i + 1]
  BY HeadTailProperties DEF Lists
<1>3. DOMAIN t = 1..(Len(list) - 1)
  BY <1>2, LenProperties
<1> HIDE DEF t
<1>4. 1 \in DOMAIN list /\ Head(list) = list[1]
  BY <1>1 DEF Lists
<1>5. ASSUME NEW i \in DOMAIN t
      PROVE  i + 1 \in DOMAIN list /\ i + 1 # 1 /\ t[i] = list[i + 1] /\ t[i] \in S \ {list[1]}
  <2>1. i + 1 \in DOMAIN list /\ i + 1 # 1 /\ t[i] = list[i + 1]
    BY <1>1, <1>2, <1>3
  <2> QED BY <1>1, <1>4, <2>1
<1>6. ASSUME NEW r \in S \ {list[1]} PROVE \E i \in DOMAIN t : t[i] = r
  <2>1. PICK i \in DOMAIN list : list[i] = r
    BY <1>1
  <2>2. i - 1 \in DOMAIN t /\ t[i - 1] = list[(i - 1) + 1] /\ (i - 1) + 1 = i
    BY <1>1, <1>2, <1>3, <2>1
  <2> QED BY <2>1, <2>2
<1>7. ASSUME NEW i \in DOMAIN t, NEW j \in DOMAIN t, t[i] = t[j] PROVE i = j
  <2>1. i + 1 = j + 1
    BY <1>1, <1>5, <1>7
  <2> QED BY <1>1, <1>3, <2>1
<1>8. Range(t) = S \ {list[1]}
  BY <1>5, <1>6 DEF Range
<1>9. Lists(t, S \ {list[1]})
  BY <1>2, <1>7, <1>8 DEF Lists, IsInjective
<1> QED BY <1>1, <1>4, <1>9 DEF t

\* A part of a list.
LEMMA PartLists ==
    ASSUME NEW list, NEW S, Lists(list, S), NEW m \in Nat \ {0}, NEW n \in Nat, n <= Len(list)
    PROVE  LET part == SubSeq(list, m, n) IN
           /\ Lists(part, {list[i] : i \in m..n})
           /\ Len(part) = IF m <= n THEN n - m + 1 ELSE 0
           /\ \A i \in 1..(n - m + 1) : part[i] = list[m + i - 1]
<1> DEFINE part == SubSeq(list, m, n)
<1>1. /\ Len(list) \in Nat /\ DOMAIN list = 1..Len(list)
      /\ \A i \in DOMAIN list : list[i] \in Relays
      /\ \A i, j \in DOMAIN list : list[i] = list[j] => i = j
  BY ListsFacts, LenProperties DEF Lists
<1>2. \A i \in m..n : i \in DOMAIN list
  BY <1>1
<1>3. /\ part \in Seq(Relays)
      /\ Len(part) = IF m <= n THEN n - m + 1 ELSE 0
      /\ \A i \in 1..(n - m + 1) : part[i] = list[m + i - 1]
  <2>1. \A i \in m..n : list[i] \in Relays
    BY <1>1, <1>2
  <2>2. m \in Int /\ n \in Int
    OBVIOUS
  <2> QED BY <2>1, <2>2, SubSeqProperties
<1>4. DOMAIN part = 1..(n - m + 1)
  <2>1. DOMAIN part = 1..Len(part)
    BY <1>3, LenProperties
  <2> QED BY <1>3, <2>1
<1> HIDE DEF part
<1>5. ASSUME NEW i \in DOMAIN part PROVE part[i] = list[m + i - 1] /\ m + i - 1 \in m..n
  BY <1>3, <1>4
<1>6. ASSUME NEW i \in m..n PROVE i - m + 1 \in DOMAIN part /\ part[i - m + 1] = list[i]
  <2>1. i - m + 1 \in 1..(n - m + 1) /\ m + (i - m + 1) - 1 = i
    OBVIOUS
  <2> QED BY <1>3, <1>4, <2>1
<1>7. Range(part) = {list[i] : i \in m..n}
  <2>1. ASSUME NEW x \in Range(part) PROVE x \in {list[i] : i \in m..n}
    <3>1. PICK i \in DOMAIN part : part[i] = x
      BY DEF Range
    <3> QED BY <1>5, <3>1
  <2>2. ASSUME NEW i \in m..n PROVE list[i] \in Range(part)
    BY <1>6 DEF Range
  <2> QED BY <2>1, <2>2
<1>8. ASSUME NEW i \in DOMAIN part, NEW j \in DOMAIN part, part[i] = part[j] PROVE i = j
  <2>1. m + i - 1 = m + j - 1
    BY <1>1, <1>2, <1>5, <1>8
  <2> QED BY <1>4, <2>1
<1>9. Lists(part, {list[i] : i \in m..n})
  BY <1>3, <1>7, <1>8 DEF Lists, IsInjective
<1> QED BY <1>3, <1>9 DEF part

\* A list turned round still has each of the set once.
LEMMA TurnLists ==
    ASSUME NEW list, NEW S, Lists(list, S), NEW first \in 1..Len(list)
    PROVE  LET turned == SubSeq(list, first, Len(list)) \o SubSeq(list, 1, first - 1) IN
           Lists(turned, S) /\ turned # <<>> /\ turned[1] = list[first]
<1> DEFINE a == SubSeq(list, first, Len(list))
           A == {list[i] : i \in first..Len(list)}
           b == SubSeq(list, 1, first - 1)
           B == {list[i] : i \in 1..(first - 1)}
<1>1. /\ Len(list) \in Nat /\ DOMAIN list = 1..Len(list)
      /\ \A i \in DOMAIN list : list[i] \in S
      /\ \A r \in S : \E i \in DOMAIN list : list[i] = r
      /\ \A i, j \in DOMAIN list : list[i] = list[j] => i = j
  BY ListsFacts
<1>2. first \in Nat \ {0} /\ first - 1 \in Nat /\ first - 1 <= Len(list)
  BY <1>1
<1>3. /\ Lists(a, A) /\ Len(a) = Len(list) - first + 1
      /\ \A i \in 1..(Len(list) - first + 1) : a[i] = list[first + i - 1]
  BY <1>1, <1>2, PartLists
<1>4. Lists(b, B)
  BY <1>1, <1>2, PartLists
<1>5. A \cap B = {}
  BY <1>1, <1>2
<1>6. A \cup B = S
  <2>1. A \cup B \subseteq S
    BY <1>1, <1>2
  <2>2. ASSUME NEW r \in S PROVE r \in A \cup B
    <3>1. PICK i \in DOMAIN list : list[i] = r
      BY <1>1
    <3>2. i \in first..Len(list) \/ i \in 1..(first - 1)
      BY <1>1, <1>2
    <3> QED BY <3>1, <3>2
  <2> QED BY <2>1, <2>2
<1>7. a # <<>> /\ a[1] = list[first]
  <2>1. 1 \in 1..(Len(list) - first + 1) /\ first + 1 - 1 = first /\ Len(a) # 0
    BY <1>1, <1>2, <1>3
  <2> QED BY <1>3, <2>1, EmptySeq
<1> HIDE DEF a, A, b, B
<1>8. Lists(a \o b, A \cup B) /\ (a # <<>> => a \o b # <<>> /\ (a \o b)[1] = a[1])
  BY <1>3, <1>4, <1>5, ConcatLists
<1>9. Lists(a \o b, S) /\ a \o b # <<>> /\ (a \o b)[1] = list[first]
  BY <1>6, <1>7, <1>8
<1> QED BY <1>9 DEF a, b

-----------------------------------------------------------------------------
(* The order of a turn                                                     *)

\* The relays of the pool.
Members == Range(Pool)

\* The pool lists its relays.
LEMMA PoolLists == Lists(Pool, Members) /\ Members \subseteq Relays /\ Pool # <<>>
<1>1. Pool \in Seq(Relays) /\ IsInjective(Pool) /\ Pool # <<>>
  BY RelayOrderAssumption
<1> QED BY <1>1, RangeOfSeq DEF Lists, Members

\* The pool from the sticky relay on lists them as well.
LEMMA RotatedLists ==
    Lists(Rotated, Members) /\ (active \in Members => Rotated # <<>> /\ Rotated[1] = active)
<1> DEFINE first == IF Contains(Pool, active) THEN CHOOSE i \in DOMAIN Pool : Pool[i] = active ELSE 1
<1>1. /\ Len(Pool) \in Nat /\ DOMAIN Pool = 1..Len(Pool) /\ Len(Pool) > 0
      /\ \A r \in Members : \E i \in DOMAIN Pool : Pool[i] = r
  BY PoolLists, ListsFacts, EmptySeq DEF Lists
<1>2. active \in Members => Contains(Pool, active)
  BY <1>1 DEF Contains
<1>3. first \in 1..Len(Pool) /\ (Contains(Pool, active) => Pool[first] = active)
  BY <1>1 DEF Contains
<1>4. Rotated = SubSeq(Pool, first, Len(Pool)) \o SubSeq(Pool, 1, first - 1)
  BY DEF Rotated
<1> HIDE DEF first
<1> QED BY <1>2, <1>3, <1>4, PoolLists, TurnLists

\* Of the relays that may challenge there is one with the lowest average, and the first of
\* these is the challenger.
LEMMA ChallengerFacts ==
    ASSUME TypeOK, NEW band, NEW S, Lists(band, S), Len(band) > 1, Eligible(band) # {}
    PROVE  /\ Challenger(band) \in Eligible(band) /\ Challenger(band) \in S \ {band[1]}
           /\ \A x \in Eligible(band) : ewma[Challenger(band)] <= ewma[x]
<1> DEFINE E == Eligible(band)
           fastest == {r \in E : \A x \in E : ewma[r] <= ewma[x]}
           levels == {ewma[x] + 1 : x \in E}
<1>1. /\ band # <<>> /\ S \subseteq Relays /\ band[1] \in S
      /\ Lists(Tail(band), S \ {band[1]})
  <2>1. band # <<>>
    BY EmptySeq
  <2> QED BY <2>1, HeadLists
<1>2. E \subseteq S \ {band[1]}
  BY <1>1 DEF Eligible, Lists
<1>3. \A x \in E : ewma[x] \in Int /\ ewma[x] + 1 \in Nat
  <2>1. ASSUME NEW r \in Relays PROVE ewma[r] \in Int /\ ewma[r] + 1 \in Nat
    <3>1. ewma[r] \in -1..MaxLatency
      BY DEF TypeOK
    <3> QED BY <3>1, RelayHealthAssumption
  <2> HIDE DEF E
  <2> QED BY <1>1, <1>2, <2>1
<1> HIDE DEF E
<1>4. levels \subseteq Nat /\ levels # {}
  BY <1>3 DEF E
<1>5. PICK m \in levels : \A n \in levels : <<n, m>> \notin OpToRel(<, Nat)
  <2>1. IsWellFoundedOn(OpToRel(<, Nat), Nat)
    BY NatLessThanWellFounded
  <2> HIDE DEF levels
  <2> QED BY <1>4, <2>1, WFMin
<1>6. \A n \in levels : m <= n
  <2>1. ASSUME NEW n \in levels PROVE ~ (n < m)
    <3> HIDE DEF levels
    <3> QED BY <1>4, <1>5 DEF OpToRel
  <2> HIDE DEF levels
  <2> QED BY <1>4, <2>1
<1>7. PICK r \in E : m = ewma[r] + 1
  OBVIOUS
<1>8. r \in fastest
  <2>1. ASSUME NEW x \in E PROVE ewma[r] <= ewma[x]
    <3>1. m <= ewma[x] + 1
      BY <1>6
    <3> QED BY <1>3, <1>7, <3>1
  <2> QED BY <2>1
<1>9. Lists(Keep(band, fastest), S \cap fastest)
  <2> HIDE DEF fastest
  <2> QED BY KeepLists
<1>10. Keep(band, fastest) # <<>> /\ Keep(band, fastest)[1] \in S \cap fastest
  <2>1. S \cap fastest # {}
    BY <1>2, <1>8
  <2> HIDE DEF fastest
  <2> QED BY <1>9, <2>1, ListsFacts, HeadLists
<1>11. Challenger(band) = Keep(band, fastest)[1]
  BY DEF Challenger, E
<1>12. Challenger(band) \in fastest
  BY <1>10, <1>11
<1>13. Challenger(band) \in E /\ \A x \in E : ewma[Challenger(band)] <= ewma[x]
  BY <1>12
<1> QED BY <1>2, <1>13 DEF E

\* applyEwmaChallenger only reorders its band.  Its head leads, or the challenger.
LEMMA ChallengedLists ==
    ASSUME TypeOK, NEW band, NEW S, Lists(band, S)
    PROVE  /\ Lists(Challenged(band), S)
           /\ band # <<>> =>
                 /\ Challenged(band) # <<>>
                 /\ \/ Challenged(band)[1] = band[1]
                    \/ /\ Len(band) > 1 /\ Eligible(band) # {}
                       /\ Challenged(band)[1] = Challenger(band)
                       /\ Beats(Challenger(band), band[1])
<1>1. CASE Len(band) <= 1
  BY <1>1 DEF Challenged
<1>2. CASE /\ Len(band) > 1 /\ Eligible(band) # {} /\ Beats(Challenger(band), Head(band))
  <2> DEFINE c == Challenger(band)
             rest == Keep(band, Relays \ {c})
  <2>1. c \in S /\ S \subseteq Relays /\ band # <<>> /\ Head(band) = band[1]
    <3>1. band # <<>>
      BY <1>2, EmptySeq
    <3>2. S \subseteq Relays /\ Head(band) = band[1]
      BY <3>1, HeadLists
    <3>3. c \in S \ {band[1]}
      BY <1>2, ChallengerFacts
    <3> QED BY <3>1, <3>2, <3>3
  <2>2. Lists(<<c>>, {c}) /\ <<c>> # <<>> /\ <<c>>[1] = c
    BY <2>1, SingleLists
  <2>3. Lists(rest, S \cap (Relays \ {c}))
    BY KeepLists
  <2>4. {c} \cap (S \cap (Relays \ {c})) = {} /\ {c} \cup (S \cap (Relays \ {c})) = S
    BY <2>1
  <2>5. Challenged(band) = <<c>> \o rest
    BY <1>2, ListsFacts DEF Challenged
  <2> HIDE DEF c, rest
  <2>6. Lists(<<c>> \o rest, S) /\ <<c>> \o rest # <<>> /\ (<<c>> \o rest)[1] = c
    BY <2>2, <2>3, <2>4, ConcatLists
  <2> QED BY <1>2, <2>1, <2>5, <2>6 DEF c
<1>3. CASE /\ Len(band) > 1 /\ ~(Eligible(band) # {} /\ Beats(Challenger(band), Head(band)))
  <2> DEFINE h == Head(band)
             t == Tail(band)
             measured == Keep(t, Floored)
             unknown == Keep(t, Relays \ Floored)
             T == S \ {band[1]}
  <2>1. h = band[1] /\ h \in S /\ S \subseteq Relays /\ band # <<>> /\ Lists(t, T)
    <3>1. band # <<>>
      BY <1>3, EmptySeq
    <3> QED BY <3>1, HeadLists
  <2>2. Lists(<<h>>, {h}) /\ <<h>> # <<>> /\ <<h>>[1] = h
    BY <2>1, SingleLists
  <2>3. Lists(measured, T \cap Floored) /\ Lists(unknown, T \cap (Relays \ Floored))
    BY <2>1, KeepLists
  <2>4. /\ {h} \cap (T \cap Floored) = {}
        /\ ({h} \cup (T \cap Floored)) \cap (T \cap (Relays \ Floored)) = {}
        /\ ({h} \cup (T \cap Floored)) \cup (T \cap (Relays \ Floored)) = S
    BY <2>1
  <2>5. Challenged(band) = (<<h>> \o measured) \o unknown
    BY <1>3, ListsFacts DEF Challenged
  <2> HIDE DEF h, t, measured, unknown
  <2>6. /\ Lists(<<h>> \o measured, {h} \cup (T \cap Floored))
        /\ <<h>> \o measured # <<>> /\ (<<h>> \o measured)[1] = h
    BY <2>2, <2>3, <2>4, ConcatLists
  <2>7. /\ Lists((<<h>> \o measured) \o unknown, S)
        /\ (<<h>> \o measured) \o unknown # <<>> /\ ((<<h>> \o measured) \o unknown)[1] = h
    BY <2>3, <2>4, <2>6, ConcatLists
  <2> QED BY <2>1, <2>5, <2>7
<1>4. Len(band) \in Nat
  BY ListsFacts
<1> QED BY <1>1, <1>2, <1>3, <1>4

\* The relays that are cooling.
Cool == Relays \ Healthy

\* getOrderedRelayUrls has each relay of the pool once, the cooling ones last, and Vercel's
\* last among the healthy and among the cooling.
LEMMA OrderedLists ==
    ASSUME TypeOK
    PROVE  /\ Lists(Ordered, Members)
           /\ Before(Ordered, Members \cap Healthy, Members \cap Cool)
           /\ Before(Ordered, Members \cap (Healthy \ Vercel), Members \cap (Healthy \cap Vercel))
           /\ Before(Ordered, Members \cap (Cool \ Vercel), Members \cap (Cool \cap Vercel))
           /\ LET band == Keep(Rotated, Healthy \ Vercel) IN
              band # <<>> => Ordered # <<>> /\ Ordered[1] = Challenged(band)[1]
<1> DEFINE band == Keep(Rotated, Healthy \ Vercel)
           p1 == Challenged(band)
           p2 == Keep(Rotated, Healthy \cap Vercel)
           p3 == Keep(Rotated, Cool \ Vercel)
           p4 == Keep(Rotated, Vercel \ Healthy)
           S1 == Members \cap (Healthy \ Vercel)
           S2 == Members \cap (Healthy \cap Vercel)
           S3 == Members \cap (Cool \ Vercel)
           S4 == Members \cap (Vercel \ Healthy)
<1>1. Lists(Rotated, Members) /\ Members \subseteq Relays
  BY RotatedLists, PoolLists
<1>2. Lists(band, S1) /\ Lists(p2, S2) /\ Lists(p3, S3) /\ Lists(p4, S4)
  BY <1>1, KeepLists
<1>3. Lists(p1, S1) /\ (band # <<>> => p1 # <<>>)
  BY <1>2, ChallengedLists
<1>4. Ordered = ((p1 \o p2) \o p3) \o p4
  BY DEF Ordered, Cool
<1>5. /\ S1 \cap S2 = {} /\ (S1 \cup S2) \cap S3 = {} /\ (S1 \cup S2 \cup S3) \cap S4 = {}
      /\ (S1 \cup S2 \cup S3) \cup S4 = Members
      /\ S1 \cup S2 = Members \cap Healthy /\ S3 \cup S4 = Members \cap Cool
      /\ S4 = Members \cap (Cool \cap Vercel)
  BY <1>1 DEF Cool, Healthy
<1> HIDE DEF band, p1, p2, p3, p4, S1, S2, S3, S4
<1>6. /\ Lists(p1 \o p2, S1 \cup S2) /\ Before(p1 \o p2, S1, S2)
      /\ p1 # <<>> => p1 \o p2 # <<>> /\ (p1 \o p2)[1] = p1[1]
  BY <1>2, <1>3, <1>5, ConcatLists
<1>7. /\ Lists((p1 \o p2) \o p3, S1 \cup S2 \cup S3)
      /\ Before((p1 \o p2) \o p3, S1, S2) /\ Before((p1 \o p2) \o p3, S1 \cup S2, S3)
      /\ p1 # <<>> => (p1 \o p2) \o p3 # <<>> /\ ((p1 \o p2) \o p3)[1] = p1[1]
  BY <1>2, <1>5, <1>6, ConcatLists
<1>8. /\ Lists(Ordered, Members)
      /\ Before(Ordered, S1, S2) /\ Before(Ordered, S1 \cup S2, S3)
      /\ Before(Ordered, S1 \cup S2 \cup S3, S4)
      /\ p1 # <<>> => Ordered # <<>> /\ Ordered[1] = p1[1]
  <2> DEFINE list == (p1 \o p2) \o p3
             S == S1 \cup S2 \cup S3
  <2>1. S1 \in SUBSET S /\ S2 \in SUBSET S /\ S1 \cup S2 \in SUBSET S /\ S3 \in SUBSET S
    OBVIOUS
  <2>2. Lists(list, S) /\ Before(list, S1, S2) /\ Before(list, S1 \cup S2, S3)
    BY <1>7
  <2>3. p1 # <<>> => list # <<>> /\ list[1] = p1[1]
    BY <1>7
  <2>4. Ordered = list \o p4 /\ S \cap S4 = {} /\ S \cup S4 = Members /\ Lists(p4, S4)
    BY <1>2, <1>4, <1>5
  <2> HIDE DEF list, S
  <2>5. /\ Lists(list \o p4, S \cup S4) /\ Before(list \o p4, S, S4)
        /\ \A X, Y \in SUBSET S : Before(list, X, Y) => Before(list \o p4, X, Y)
        /\ list # <<>> => list \o p4 # <<>> /\ (list \o p4)[1] = list[1]
    <3>1. Lists(list, S) /\ Lists(p4, S4) /\ S \cap S4 = {}
      BY <2>2, <2>4
    <3>2. Lists(list \o p4, S \cup S4)
      BY <3>1, ConcatLists
    <3>3. Before(list \o p4, S, S4)
      BY <3>1, ConcatLists
    <3>4. \A X, Y \in SUBSET S : Before(list, X, Y) => Before(list \o p4, X, Y)
      BY <3>1, ConcatLists
    <3>5. list # <<>> => list \o p4 # <<>> /\ (list \o p4)[1] = list[1]
      BY <3>1, ConcatLists
    <3> QED BY <3>2, <3>3, <3>4, <3>5
  <2>6. Before(list \o p4, S1, S2) /\ Before(list \o p4, S1 \cup S2, S3)
    BY <2>1, <2>2, <2>5
  <2> QED BY <2>3, <2>4, <2>5, <2>6 DEF S
<1>9. Before(Ordered, S1 \cup S2, S3 \cup S4) /\ Before(Ordered, S3, S4)
  BY <1>8 DEF Before
<1> QED BY <1>3, <1>5, <1>8, <1>9 DEF band, p1, S1, S2, S3, S4

\* What a turn may start from, in the terms of failover.
LEMMA AdmissibleList ==
    ASSUME NEW list, Lists(list, Members), Before(list, Members \cap Healthy, Members \cap Cool),
           NEW pin, pin \in Members \cap Healthy => list[1] = pin
    PROVE  Cooling!Admissible(list, Range(Pool), pin)
<1>1. Len(list) = Cardinality(Members) /\ Range(list) = Members
  BY ListsLength DEF Lists
<1>2. ASSUME NEW i \in DOMAIN list, NEW j \in DOMAIN list, list[i] \in Cool, list[j] \notin Cool
      PROVE  j < i
  <2>1. list[i] \in Members /\ list[j] \in Members /\ Members \subseteq Relays
    BY ListsFacts, PoolLists
  <2> QED BY <1>2, <2>1 DEF Before, Cool
<1>3. Cool = {r \in Relays : ~IsHealthy(r)} /\ Members \ Cool = Members \cap Healthy
  BY PoolLists DEF Cool, Healthy
<1>4. Cooling!Cardinality(Members) = Cardinality(Members) /\ Cooling!Range(list) = Range(list)
      /\ Cooling!Range(Pool) = Range(Pool)
  BY DEF Cooling!Cardinality, Cardinality, Cooling!Range, Range
<1> QED BY <1>1, <1>2, <1>3, <1>4 DEF Cooling!Admissible, Members

\* The order as it is: a turn without a pin.
LEMMA OrderedAdmissible == TypeOK => Cooling!Admissible(Ordered, Range(Pool), NoPin)
<1> SUFFICES ASSUME TypeOK PROVE Cooling!Admissible(Ordered, Range(Pool), NoPin)
  OBVIOUS
<1>1. NoPin \notin Members
  BY PoolLists, RelayOrderAssumption
<1> QED BY <1>1, OrderedLists, AdmissibleList

\* A healthy pin goes in front of the others.
LEMMA PinnedAdmissible ==
    ASSUME TypeOK, NEW pin \in Relays
    PROVE  Cooling!Admissible(Pinned(pin), Range(Pool), pin)
<1> DEFINE rest == Keep(Ordered, Relays \ {pin})
<1>1. /\ Lists(Ordered, Members) /\ Members \subseteq Relays
      /\ Before(Ordered, Members \cap Healthy, Members \cap Cool)
  BY OrderedLists, PoolLists
<1>2. Contains(Ordered, pin) <=> pin \in Members
  BY <1>1, ListsFacts DEF Contains
<1>3. IsHealthy(pin) <=> pin \in Healthy
  BY DEF Healthy
<1>4. CASE ~(pin \in Members \cap Healthy)
  <2>1. Pinned(pin) = Ordered
    BY <1>2, <1>3, <1>4 DEF Pinned
  <2> QED BY <1>1, <1>4, <2>1, AdmissibleList
<1>5. CASE pin \in Members \cap Healthy
  <2>1. Pinned(pin) = <<pin>> \o rest
    BY <1>2, <1>3, <1>5 DEF Pinned
  <2>2. Lists(<<pin>>, {pin}) /\ <<pin>> # <<>> /\ <<pin>>[1] = pin
    BY SingleLists
  <2>3. /\ Lists(rest, Members \cap (Relays \ {pin}))
        /\ Before(rest, Members \cap Healthy, Members \cap Cool)
    BY <1>1, KeepLists
  <2>4. /\ {pin} \cap (Members \cap (Relays \ {pin})) = {}
        /\ {pin} \cup (Members \cap (Relays \ {pin})) = Members
    BY <1>1, <1>5
  <2> DEFINE one == <<pin>>
  <2> HIDE DEF rest, one
  <2>5. Lists(one \o rest, Members) /\ (one \o rest)[1] = pin
    BY <2>2, <2>3, <2>4, ConcatLists DEF one
  <2>6. Before(one \o rest, Members \cap Healthy, Members \cap Cool)
    <3> DEFINE c == one \o rest
    <3>1. /\ Len(rest) \in Nat /\ DOMAIN rest = 1..Len(rest)
          /\ DOMAIN c = 1..(1 + Len(rest))
          /\ \A i \in 1..Len(rest) : c[i + 1] = rest[i]
      <4>1. /\ Len(rest) \in Nat /\ DOMAIN rest = 1..Len(rest)
            /\ Len(one) = 1 /\ one \in Seq(Relays) /\ rest \in Seq(Relays)
        BY <2>2, <2>3, ListsFacts DEF Lists, one
      <4>2. /\ c \in Seq(Relays) /\ Len(c) = 1 + Len(rest)
            /\ \A i \in 1..(1 + Len(rest)) : c[i] = IF i <= 1 THEN one[i] ELSE rest[i - 1]
        <5>1. /\ c \in Seq(Relays) /\ Len(c) = Len(one) + Len(rest)
              /\ \A i \in 1..(Len(one) + Len(rest)) :
                    c[i] = IF i <= Len(one) THEN one[i] ELSE rest[i - Len(one)]
          BY <4>1, ConcatProperties
        <5> HIDE DEF c
        <5> QED BY <4>1, <5>1
      <4> HIDE DEF c
      <4>3. DOMAIN c = 1..Len(c)
        BY <4>2, LenProperties
      <4>4. ASSUME NEW i \in 1..Len(rest) PROVE c[i + 1] = rest[i]
        <5>1. i + 1 \in 1..(1 + Len(rest)) /\ ~(i + 1 <= 1) /\ (i + 1) - 1 = i
          BY <4>1
        <5> QED BY <4>2, <5>1
      <4> QED BY <4>1, <4>2, <4>3, <4>4
    <3> HIDE DEF c
    <3>2. ASSUME NEW i \in DOMAIN c, NEW j \in DOMAIN c,
                 c[i] \in Members \cap Healthy, c[j] \in Members \cap Cool
          PROVE  i < j
      <4>1. j # 1
        BY <1>5, <2>5, <3>2 DEF c, Cool
      <4>2. CASE i = 1
        BY <3>1, <4>1, <4>2
      <4>3. CASE i # 1
        <5>1. /\ i - 1 \in DOMAIN rest /\ j - 1 \in DOMAIN rest
              /\ c[(i - 1) + 1] = rest[i - 1] /\ c[(j - 1) + 1] = rest[j - 1]
              /\ (i - 1) + 1 = i /\ (j - 1) + 1 = j
          BY <3>1, <4>1, <4>3
        <5>2. i - 1 < j - 1
          BY <2>3, <3>2, <5>1 DEF Before
        <5> QED BY <3>1, <5>2
      <4> QED BY <4>2, <4>3
    <3> QED BY <3>2 DEF Before, c
  <2> QED BY <2>1, <2>5, <2>6, AdmissibleList DEF one
<1> QED BY <1>4, <1>5

\* The healthy relays turned round, wherever the hash or the cursor begins.
LEMMA SpreadAdmissible ==
    ASSUME TypeOK, NEW k \in Nat
    PROVE  Cooling!Admissible(Spread(k), Range(Pool), NoPin)
<1> DEFINE healthy == Keep(Ordered, Healthy)
           shift == k % Len(healthy)
           turned == SubSeq(healthy, shift + 1, Len(healthy)) \o SubSeq(healthy, 1, shift)
           rest == Keep(Ordered, Relays \ Healthy)
<1>1. CASE healthy = <<>>
  BY <1>1, OrderedAdmissible DEF Spread
<1>2. CASE healthy # <<>>
  <2>1. Lists(healthy, Members \cap Healthy) /\ Lists(rest, Members \cap Cool)
    BY OrderedLists, KeepLists DEF Cool
  <2>2. Len(healthy) \in Nat \ {0}
    BY <1>2, <2>1, EmptySeq DEF Lists
  <2>3. Spread(k) = turned \o rest
    BY <1>2 DEF Spread
  <2> HIDE DEF healthy
  <2>4. shift \in 0..(Len(healthy) - 1)
    BY <2>2
  <2> HIDE DEF shift
  <2>5. shift + 1 \in 1..Len(healthy) /\ (shift + 1) - 1 = shift
    BY <2>2, <2>4
  <2>6. Lists(turned, Members \cap Healthy)
    BY <2>1, <2>5, TurnLists
  <2> HIDE DEF turned, rest
  <2>7. (Members \cap Healthy) \cap (Members \cap Cool) = {}
    BY DEF Cool
  <2>8. (Members \cap Healthy) \cup (Members \cap Cool) = Members
    BY PoolLists DEF Cool
  <2>9. /\ Lists(turned \o rest, Members)
        /\ Before(turned \o rest, Members \cap Healthy, Members \cap Cool)
    BY <2>1, <2>6, <2>7, <2>8, ConcatLists
  <2>10. NoPin \notin Members
    BY PoolLists, RelayOrderAssumption
  <2> QED BY <2>3, <2>9, <2>10, AdmissibleList
<1> QED BY <1>1, <1>2

\* Where the order has two relays of its list.
LEMMA IndexBefore ==
    ASSUME TypeOK, NEW X, NEW Y, Before(Ordered, X, Y),
           NEW x \in Members \cap X, NEW y \in Members \cap Y
    PROVE  Index(x) < Index(y)
<1>1. ASSUME NEW r \in Members PROVE Index(r) \in DOMAIN Ordered /\ Ordered[Index(r)] = r
  BY OrderedLists, ListsFacts DEF Index
<1> QED BY <1>1 DEF Before

\* Every state with records of their type.
LEMMA AdmissibleState == TypeOK => CandidatesAdmissible
<1> SUFFICES ASSUME TypeOK PROVE CandidatesAdmissible
  OBVIOUS
<1>1. ASSUME NEW pin \in Relays \cup {NoPin}, NEW spread \in BOOLEAN, NEW k \in 0..Len(Pool)
      PROVE  Cooling!Admissible(Candidates(pin, spread, k), Range(Pool), pin)
  <2>1. k \in Nat
    BY PoolLists, ListsFacts
  <2>2. CASE pin # NoPin
    BY <2>2, PinnedAdmissible DEF Candidates
  <2>3. CASE pin = NoPin /\ spread
    BY <2>1, <2>3, SpreadAdmissible DEF Candidates
  <2>4. CASE pin = NoPin /\ ~spread
    BY <2>4, OrderedAdmissible DEF Candidates
  <2> QED BY <2>2, <2>3, <2>4
<1>2. ASSUME NEW r \in Range(Pool) \cap Vercel, NEW x \in Range(Pool) \ Vercel,
             IsHealthy(r) = IsHealthy(x)
      PROVE  Index(x) < Index(r)
  <2>1. r \in Members /\ x \in Members /\ r \in Relays /\ x \in Relays
    BY PoolLists DEF Members
  <2>2. CASE IsHealthy(r)
    <3>1. r \in Members \cap (Healthy \cap Vercel) /\ x \in Members \cap (Healthy \ Vercel)
      BY <1>2, <2>1, <2>2 DEF Healthy
    <3> QED BY <2>1, <3>1, OrderedLists, IndexBefore
  <2>3. CASE ~IsHealthy(r)
    <3>1. r \in Members \cap (Cool \cap Vercel) /\ x \in Members \cap (Cool \ Vercel)
      BY <1>2, <2>1, <2>3 DEF Healthy, Cool
    <3> QED BY <2>1, <3>1, OrderedLists, IndexBefore
  <2> QED BY <2>2, <2>3
<1> QED BY <1>1, <1>2 DEF CandidatesAdmissible

\* The sticky relay heads the first band; what leads it instead has beaten it.
LEMMA StickyState == TypeOK /\ RecoveringIsLastFailed => StickyUntilBeaten
<1> SUFFICES ASSUME TypeOK, RecoveringIsLastFailed,
                    active \in (Healthy \ Vercel) \cap Range(Pool), Ordered[1] # active
             PROVE  /\ samples[Ordered[1]] >= Floor /\ fails[Ordered[1]] = 0
                    /\ ewma[active] - ewma[Ordered[1]] > Margin
                    /\ 4 * (ewma[active] - ewma[Ordered[1]]) > ewma[active]
                    /\ \A r \in (Healthy \ Vercel) \cap Range(Pool) :
                          samples[r] >= Floor /\ fails[r] = 0 => ewma[Ordered[1]] <= ewma[r]
  BY DEF StickyUntilBeaten
<1> DEFINE band == Keep(Rotated, Healthy \ Vercel)
           S == Members \cap (Healthy \ Vercel)
           c == Challenger(band)
<1>1. active \in Members /\ active \in S
  BY DEF Members
<1>2. Lists(Rotated, Members) /\ Rotated # <<>> /\ Rotated[1] = active
  BY <1>1, RotatedLists
<1>3. Lists(band, S) /\ band # <<>> /\ band[1] = active
  BY <1>1, <1>2, KeepLists
<1>4. Ordered[1] = Challenged(band)[1]
  BY <1>3, OrderedLists
<1> HIDE DEF band
<1>5. /\ Len(band) > 1 /\ Eligible(band) # {} /\ Ordered[1] = c /\ Beats(c, active)
  BY <1>3, <1>4, ChallengedLists
<1>6. /\ c \in Eligible(band) /\ \A x \in Eligible(band) : ewma[c] <= ewma[x]
  BY <1>3, <1>5, ChallengerFacts
<1>7. Lists(Tail(band), S \ {active}) /\ S \subseteq Relays
  BY <1>3, HeadLists
<1>8. Eligible(band) = {r \in (S \ {active}) \cap Floored : ~recovering[r]}
  BY <1>7 DEF Eligible, Lists
<1>9. \A r \in Relays : fails[r] \in Nat /\ (fails[r] = 0 <=> ~recovering[r]) /\ ewma[r] \in Int
  <2>1. ASSUME NEW r \in Relays PROVE fails[r] \in Nat /\ (fails[r] = 0 <=> ~recovering[r]) /\ ewma[r] \in Int
    <3>1. fails[r] \in 0..Cap /\ ewma[r] \in -1..MaxLatency
      BY DEF TypeOK
    <3>2. recovering[r] <=> fails[r] > 0
      BY DEF RecoveringIsLastFailed
    <3> QED BY <3>1, <3>2, RelayHealthAssumption DEF Cap
  <2> QED BY <2>1
<1> HIDE DEF c
<1>10. c \in Relays /\ samples[c] >= Floor /\ fails[c] = 0
  BY <1>6, <1>7, <1>8, <1>9 DEF Floored
<1>11. /\ ewma[active] - ewma[c] > Margin /\ 4 * (ewma[active] - ewma[c]) > ewma[active]
  BY <1>5 DEF Beats
<1>12. ASSUME NEW r \in (Healthy \ Vercel) \cap Range(Pool), samples[r] >= Floor, fails[r] = 0
       PROVE  ewma[c] <= ewma[r]
  <2>1. r \in S /\ r \in Relays
    BY <1>7 DEF Members
  <2>2. CASE r = active
    BY <1>9, <1>10, <1>11, <2>1, <2>2, RelayOrderAssumption
  <2>3. CASE r # active
    <3>1. r \in Eligible(band)
      BY <1>8, <1>9, <1>12, <2>1, <2>3 DEF Floored
    <3> QED BY <1>6, <3>1
  <2> QED BY <2>2, <2>3
<1> QED BY <1>5, <1>10, <1>11, <1>12

-----------------------------------------------------------------------------
(* In every reachable state                                                *)

\* Turns and commands that move the sticky relay leave the records as they are.
LEMMA OrderInvariant == OrderSpec => [](TypeOK /\ RecoveringIsLastFailed)
<1>1. OrderInit => IInv
  BY InitIInv DEF OrderInit
<1>2. IInv /\ [OrderNext]_orderVars => IInv'
  <2>1. [OrderNext]_orderVars => [Next]_vars
    BY DEF OrderNext, orderVars, Switch
  <2> QED BY <2>1, TypeOKStep, CooldownStep, RecoveringStep DEF IInv
<1>3. IInv => TypeOK /\ RecoveringIsLastFailed
  BY DEF IInv
<1> QED BY <1>1, <1>2, <1>3, PTL DEF OrderSpec

\* Whatever the mode, the pin and the health of the relays, a turn gets each relay of the pool
\* exactly once, the cooling ones last and its healthy pin first, and Vercel's last among the
\* healthy and among the cooling (orderedRelayCandidates of src/relay-state.ts).
THEOREM EveryRelayOnce == OrderSpec => []CandidatesAdmissible
BY OrderInvariant, AdmissibleState, PTL

\* The sticky relay loses its lead only to one with enough samples, not in slow start, that is
\* faster by more than the margin and than every other such relay (applyEwmaChallenger).
THEOREM StickyKeepsLead == OrderSpec => []StickyUntilBeaten
BY OrderInvariant, StickyState, PTL
=============================================================================
