------------------------- MODULE LeaseRegistryProofs -------------------------
(***************************************************************************)
(* Proofs about LeaseRegistry for every set of sessions, every cap and all *)
(* timer lengths, and about DaemonLifecycle, by which the daemons that     *)
(* keep such a registry come and go, for every set of sessions, versions   *)
(* and ports.                                                              *)
(***************************************************************************)
EXTENDS LeaseRegistry, DaemonLifecycle, FiniteSetTheorems, WellFoundedInduction, TLAPS

\* The two promises of the registry rest on the types of its clocks and on
\* how those clocks are ordered.
IInv == TypeOK /\ AckedLeaseHeld /\ ClockInv

-----------------------------------------------------------------------------
\* A saturating clock stays within its limit and never runs backwards.
LEMMA AdvanceBounds ==
    ASSUME NEW limit \in Nat, NEW n \in 0..limit
    PROVE  /\ Advance(n, limit) \in 0..limit
           /\ Advance(n, limit) >= n
           /\ n < limit => Advance(n, limit) = n + 1
BY DEF Advance

\* The initial state satisfies the inductive invariant.
LEMMA InitIInv == Init => IInv
BY LeaseAssumption DEF Init, IInv, TypeOK, AckedLeaseHeld, ClockInv, Replies, Unset

\* Every operation of the registry preserves the types.
LEMMA TypeOKStep == TypeOK /\ [Next]_vars => TypeOK'
<1> SUFFICES ASSUME TypeOK, [Next]_vars PROVE TypeOK'
  OBVIOUS
<1> USE LeaseAssumption DEF TypeOK
<1>1. ASSUME NEW c \in Clients, Attach(c) PROVE TypeOK'
  BY <1>1 DEF Attach, SetLease, Replies
<1>2. ASSUME NEW c \in Clients, Heartbeat(c) PROVE TypeOK'
  BY <1>2 DEF Heartbeat, SetLease, Replies
<1>3. ASSUME NEW c \in Clients, Detach(c) PROVE TypeOK'
  BY <1>3 DEF Detach, Replies
<1>4. ASSUME NEW c \in Clients, SessionEnds(c) PROVE TypeOK'
  BY <1>4 DEF SessionEnds, regVars
<1>5. CASE Shutdown
  BY <1>5 DEF Shutdown, regVars
<1>6. CASE Exit
  BY <1>6 DEF Exit, regVars
<1>7. CASE BeginRequest
  BY <1>7 DEF BeginRequest, regVars
<1>8. CASE EndRequest
  BY <1>8 DEF EndRequest, regVars
<1>9. CASE Sweep
  <2>1. leases' \in SUBSET Clients
    BY <1>9 DEF Sweep, Unexpired
  <2>2. emptyFor' \in -1..Grace /\ phase' \in {"serving", "closing", "exited"}
    BY <1>9 DEF Sweep, SweepOccupied, SweepFirstEmpty, SweepStillEmpty, Unset
  <2> QED
    BY <1>9, <2>1, <2>2 DEF Sweep
<1>10. CASE Tick
  <2>1. age' \in [Clients -> 0..(Ttl + 1)]
    BY <1>10, AdvanceBounds DEF Tick
  <2>2. emptyFor' \in -1..Grace
    BY <1>10 DEF Tick, Unset, Advance
  <2>3. upFor' \in 0..(Gc + Grace)
    BY <1>10 DEF Tick, Advance
  <2>4. gcElapsed' \in 0..(Gc + GcSlack)
    BY <1>10 DEF Tick
  <2> QED
    BY <1>10, <2>1, <2>2, <2>3, <2>4 DEF Tick
<1>11. CASE UNCHANGED vars
  BY <1>11 DEF vars
<1> QED
  BY <1>1, <1>2, <1>3, <1>4, <1>5, <1>6, <1>7, <1>8, <1>9, <1>10, <1>11 DEF Next

\* No step of another session, of a sweep or of the clock takes away a lease
\* that was acknowledged less than a TTL ago.
LEMMA AckedLeaseHeldStep == TypeOK /\ AckedLeaseHeld /\ [Next]_vars => AckedLeaseHeld'
<1> SUFFICES ASSUME TypeOK, AckedLeaseHeld, [Next]_vars,
                    NEW c \in Clients, reply'[c] = "ok", age'[c] <= Ttl
             PROVE  c \in leases'
  BY DEF AckedLeaseHeld
<1> USE DEF TypeOK
<1>1. ASSUME NEW d \in Clients, Attach(d) PROVE c \in leases'
  BY <1>1 DEF Attach, SetLease, AckedLeaseHeld
<1>2. ASSUME NEW d \in Clients, Heartbeat(d) PROVE c \in leases'
  BY <1>2 DEF Heartbeat, SetLease, AckedLeaseHeld
<1>3. ASSUME NEW d \in Clients, Detach(d) PROVE c \in leases'
  BY <1>3 DEF Detach, AckedLeaseHeld
<1>4. CASE Sweep
  BY <1>4 DEF Sweep, Unexpired, AckedLeaseHeld
<1>5. CASE Tick
  <2>1. age[c] <= Ttl
    BY <1>5, LeaseAssumption, AdvanceBounds DEF Tick
  <2> QED
    BY <1>5, <2>1 DEF Tick, AckedLeaseHeld
<1>6. CASE UNCHANGED <<leases, age, reply>>
  BY <1>6 DEF AckedLeaseHeld
<1> QED
  BY <1>1, <1>2, <1>3, <1>4, <1>5, <1>6
     DEF Next, SessionEnds, Shutdown, Exit, BeginRequest, EndRequest, regVars, vars

\* The registry's clocks keep their order: the empty window starts at a sweep,
\* and the first sweep comes a whole interval after the daemon bound its port.
LEMMA ClockInvStep == TypeOK /\ ClockInv /\ [Next]_vars => ClockInv'
<1> SUFFICES ASSUME TypeOK, ClockInv, [Next]_vars PROVE ClockInv'
  OBVIOUS
<1> USE LeaseAssumption DEF TypeOK, ClockInv
<1>1. CASE Sweep
  <2>1. upFor >= Gc
    BY <1>1 DEF Sweep
  <2> QED
    BY <1>1, <2>1 DEF Sweep, SweepOccupied, SweepFirstEmpty, SweepStillEmpty, Unset
<1>2. CASE Tick
  BY <1>2 DEF Tick, Advance, Unset
<1>3. CASE UNCHANGED <<emptyFor, gcElapsed, upFor>>
  BY <1>3
<1> QED
  BY <1>1, <1>2, <1>3
     DEF Next, Attach, Heartbeat, Detach, SessionEnds, Shutdown, Exit,
         BeginRequest, EndRequest, regVars, vars

-----------------------------------------------------------------------------
\* Type correctness (src/lease.ts): the clocks stay within their limits and
\* only known sessions hold leases.
THEOREM TypeCorrect == Spec => []TypeOK
<1>1. Init => TypeOK
  BY InitIInv DEF IInv
<1> QED
  BY <1>1, TypeOKStep, PTL DEF Spec

\* The inductive invariant holds in every reachable state.
THEOREM Inductive == Spec => []IInv
<1>1. IInv /\ [Next]_vars => IInv'
  BY TypeOKStep, AckedLeaseHeldStep, ClockInvStep DEF IInv
<1> QED
  BY <1>1, InitIInv, PTL DEF Spec

\* A lease acknowledged less than a TTL ago is held, whatever the sessions,
\* the cap and the timers (src/lease.ts, registerClient, renewClient, sweep).
THEOREM AckedLeaseSafe == Spec => []AckedLeaseHeld
<1>1. IInv => AckedLeaseHeld
  BY DEF IInv
<1> QED
  BY <1>1, Inductive, PTL

-----------------------------------------------------------------------------
\* Only registerClient adds a lease, and it checks the cap first.
LEMMA CapStep == TypeOK /\ CapRespected /\ [Next]_vars => CapRespected'
<1> SUFFICES ASSUME TypeOK, CapRespected, [Next]_vars PROVE CapRespected'
  OBVIOUS
<1> USE LeaseAssumption DEF TypeOK, CapRespected
<1>1. IsFiniteSet(leases) /\ Cardinality(leases) \in Nat
  BY FS_Subset, FS_CardinalityType
<1>2. ASSUME leases' \in SUBSET leases PROVE CapRespected'
  <2>1. Cardinality(leases') <= Cardinality(leases) /\ IsFiniteSet(leases')
    BY <1>1, <1>2, FS_Subset
  <2> QED
    BY <1>1, <2>1, FS_CardinalityType
<1>3. ASSUME NEW c \in Clients, Attach(c) PROVE CapRespected'
  <2>1. CASE IsFull(c) \/ c \in leases
    <3>1. CASE IsFull(c)
      <4>1. leases' = leases
        BY <1>3, <3>1 DEF Attach
      <4> QED
        BY <1>2, <4>1
    <3>2. CASE ~IsFull(c) /\ c \in leases
      <4>1. leases' = leases \cup {c}
        BY <1>3, <3>2 DEF Attach, SetLease
      <4>2. leases' \in SUBSET leases
        BY <3>2, <4>1
      <4> QED
        BY <1>2, <4>2
    <3> QED
      BY <2>1, <3>1, <3>2
  <2>2. CASE ~IsFull(c) /\ c \notin leases
    <3>1. leases' = leases \cup {c} /\ Cardinality(leases) < MaxClients
      BY <1>1, <1>3, <2>2 DEF Attach, SetLease, IsFull
    <3>2. Cardinality(leases') = Cardinality(leases) + 1
      BY <1>1, <2>2, <3>1, FS_AddElement
    <3> QED
      BY <1>1, <3>1, <3>2
  <2> QED
    BY <2>1, <2>2
<1>4. ASSUME NEW c \in Clients, Heartbeat(c) PROVE leases' \in SUBSET leases
  BY <1>4 DEF Heartbeat, SetLease
<1>5. ASSUME NEW c \in Clients, Detach(c) PROVE leases' \in SUBSET leases
  BY <1>5 DEF Detach
<1>6. ASSUME Sweep PROVE leases' \in SUBSET leases
  BY <1>6 DEF Sweep, Unexpired
<1>7. CASE UNCHANGED leases
  BY <1>2, <1>7
<1> QED
  BY <1>2, <1>3, <1>4, <1>5, <1>6, <1>7
     DEF Next, SessionEnds, Shutdown, Exit, BeginRequest, EndRequest, Tick, regVars, vars

\* registerClient's cap holds for any number of sessions.
THEOREM CapSafe == Spec => []CapRespected
<1>1. Init => TypeOK /\ CapRespected
  BY InitIInv, LeaseAssumption, FS_EmptySet DEF IInv, Init, CapRespected
<1> QED
  BY <1>1, TypeOKStep, CapStep, PTL DEF Spec

-----------------------------------------------------------------------------
\* A sweep that retires the daemon found every lease expired, the grace window
\* over and nothing in flight.
LEMMA RetireGuard ==
    ASSUME TypeOK, Sweep, phase' = "exited"
    PROVE  active = 0 /\ Unexpired = {} /\ emptyFor >= Grace /\ emptyFor # Unset
BY DEF Sweep, SweepOccupied, SweepFirstEmpty, SweepStillEmpty, MayRetire, Alive, TypeOK

\* The daemon never retires under a session whose lease is live, nor with a
\* request in flight.
THEOREM RetireSafe == Spec => RetireAbandonsNobody
<1>1. IInv /\ [Next]_vars
      => [IdleRetire => /\ active = 0
                        /\ \A c \in Clients : reply[c] = "ok" => age[c] > Ttl]_vars
  <2> SUFFICES ASSUME IInv, IdleRetire
               PROVE  active = 0 /\ \A c \in Clients : reply[c] = "ok" => age[c] > Ttl
    OBVIOUS
  <2>1. active = 0 /\ Unexpired = {}
    BY RetireGuard DEF IInv, IdleRetire
  <2>2. ASSUME NEW c \in Clients, reply[c] = "ok" PROVE age[c] > Ttl
    BY <2>1, <2>2, LeaseAssumption DEF IInv, TypeOK, AckedLeaseHeld, Unexpired
  <2> QED
    BY <2>1, <2>2
<1> QED
  BY <1>1, Inductive, PTL DEF Spec, RetireAbandonsNobody

\* The daemon serves for at least one sweep interval and the grace window
\* before the sweep can retire it.
THEOREM FreshDaemonSafe == Spec => FreshDaemonSurvives
<1>1. IInv /\ [Next]_vars => [IdleRetire => upFor >= Gc + Grace]_vars
  <2> SUFFICES ASSUME IInv, IdleRetire PROVE upFor >= Gc + Grace
    OBVIOUS
  <2>1. emptyFor >= Grace /\ emptyFor # Unset
    BY RetireGuard DEF IInv, IdleRetire
  <2> QED
    BY <2>1, LeaseAssumption DEF IInv, TypeOK, ClockInv
<1> QED
  BY <1>1, Inductive, PTL DEF Spec, FreshDaemonSurvives

-----------------------------------------------------------------------------
(* The ports and the sessions of DaemonLifecycle (src/client.ts,           *)
(* src/client-recovery.ts, src/proxy-ports.ts)                             *)


\* A state of a session as an attempt leaves it.
Proper(s) ==
    /\ s \in States
    /\ s.att = "settle" => s.at # Base
    /\ s.att \in {"judge", "kill"} => s.why # "none"

\* Another program is found at the base port only: it does not come while the
\* daemons run, so the port that a walk took was never a stranger's.
ServerInv ==
    /\ server \in [Ports -> Holders]
    /\ \A p \in Ports : server[p] = Alien => p = Base
SessionInv ==
    /\ ses \in [Sessions -> States]
    /\ \A q \in Sessions : Proper(ses[q])
\* Whoever serves in process runs.
Live == \A p \in Ports : server[p].kind = "inproc" => ses[server[p].by].up
LifeInv ==
    /\ ServerInv /\ SessionInv /\ Live
    /\ starting \subseteq Sessions /\ events \in 0..MaxEvents

\* This step spares the strangers.
Spares == \A p \in Ports : server[p] = Alien => server'[p] = Alien

\* What the bounds are, and the base port among the ports.
LEMMA LifeNumbers ==
    /\ Version \in [Sessions -> Nat] /\ MaxPort \in Nat
    /\ Breaker \in Nat /\ Breaker > 0 /\ MaxEvents \in Nat
    /\ Ports = 0..MaxPort /\ Ports \subseteq Nat
    /\ Base = 0 /\ Base \in Ports /\ Off \notin Ports
BY LifecycleAssumption DEF Ports, Base, Off

\* What may hold a port.
LEMMA HolderFacts ==
    /\ Free \in Holders /\ Alien \in Holders /\ Hung \in Holders
    /\ Free.kind = "free" /\ Alien.kind = "alien" /\ Hung.kind = "hung"
    /\ \A kind \in {"daemon", "inproc"}, q \in Sessions :
          LET h == Holder(kind, q) IN h \in Holders /\ h.kind = kind /\ h.by = q
    /\ \A h \in Holders : h.kind \in {"daemon", "inproc"} => h.by \in Sessions
<1> USE DEF Free, Alien, Hung, Holders, Loads
<1>1. /\ Free.kind = "free" /\ Alien.kind = "alien" /\ Hung.kind = "hung"
      /\ Free \in Holders /\ Alien \in Holders /\ Hung \in Holders
  OBVIOUS
<1>2. ASSUME NEW kind \in {"daemon", "inproc"}, NEW q \in Sessions
      PROVE  LET h == Holder(kind, q) IN h \in Holders /\ h.kind = kind /\ h.by = q
  BY DEF Holder
<1>3. ASSUME NEW h \in Holders, h.kind \in {"daemon", "inproc"} PROVE h.by \in Sessions
  BY <1>3
<1> QED BY <1>1, <1>2, <1>3

\* A server of ours under another load, or degraded, is the same server.
LEMMA OursFacts ==
    ASSUME NEW h \in Holders, h.kind \in {"daemon", "inproc"}, NEW n,
           \/ \E l \in Loads : n = [h EXCEPT !.load = l]
           \/ n = [h EXCEPT !.degraded = TRUE]
    PROVE  n \in Holders /\ n.kind = h.kind /\ n.by = h.by /\ h.by \in Sessions
<1>1. h \in [kind : {"daemon", "inproc"}, by : Sessions, degraded : BOOLEAN, load : Loads]
  BY DEF Holders, Free, Alien, Hung
<1>2. n \in [kind : {"daemon", "inproc"}, by : Sessions, degraded : BOOLEAN, load : Loads]
      /\ n.kind = h.kind /\ n.by = h.by
  BY <1>1
<1> QED BY <1>1, <1>2 DEF Holders

\* What an attempt makes of the state of its session: proper, and as alive.
From(s, n) == Proper(n) /\ n.up = s.up

\* The attempt goes on at another await.
LEMMA ToFacts ==
    ASSUME NEW s \in States
    PROVE  /\ \A att \in Phases \ {"settle", "judge", "kill"} : From(s, To(s, att))
           /\ \A p \in Ports : From(s, ToAttach(s, p))
           /\ \A why \in {"stale", "transport", "retry", "recover"}, p \in Ports, v \in Nat :
                 From(s, ToJudge(s, why, p, v))
           /\ From(s, Over(s)) /\ Over(s).att = "idle"
<1> USE LifeNumbers
<1>1. ASSUME NEW att \in Phases \ {"settle", "judge", "kill"} PROVE From(s, To(s, att))
  BY DEF From, Proper, To, States
<1>2. ASSUME NEW p \in Ports PROVE From(s, ToAttach(s, p))
  BY DEF From, Proper, ToAttach, States, Phases
<1>3. ASSUME NEW why \in {"stale", "transport", "retry", "recover"}, NEW p \in Ports, NEW v \in Nat
      PROVE  From(s, ToJudge(s, why, p, v))
  BY DEF From, Proper, ToJudge, States, Phases
<1>4. From(s, Over(s)) /\ Over(s).att = "idle"
  BY DEF From, Proper, Over, States, Phases
<1> QED BY <1>1, <1>2, <1>3, <1>4

\* The edge of a busy daemon leaves the attempt where it is.
LEMMA TrackedFacts ==
    ASSUME NEW s \in States, NEW load
    PROVE  LET t == Tracked(s, load) IN
           /\ t \in States /\ t.up = s.up /\ t.att = s.att /\ t.at = s.at
           /\ t.why = s.why /\ t.failures = s.failures /\ t.hb = s.hb
BY DEF Tracked, States

\* What the other steps of a session assign.
LEMMA AssignFacts ==
    ASSUME NEW s \in States
    PROVE  /\ \A p \in Ports \ {Base} :
                 From(s, [s EXCEPT !.att = "settle", !.at = p])
           /\ s.att = "idle" =>
                 /\ From(s, s)
                 /\ From(s, [s EXCEPT !.failures = 0])
                 /\ From(s, [s EXCEPT !.failures = Breaker, !.halted = TRUE, !.spare = TRUE])
           /\ \A m \in 0..Breaker, p \in Ports :
                 From(s, [s EXCEPT !.failures = m, !.att = "backoff", !.at = p, !.hb = Off])
           /\ Proper(s) => From(s, [s EXCEPT !.halted = FALSE, !.failures = 0])
           /\ Proper(s) => From(s, [s EXCEPT !.busy = "long"])
           /\ Proper(s) => From(s, [s EXCEPT !.spare = FALSE])
           /\ \A p \in Ports : Proper(s) => From(s, [s EXCEPT !.spare = FALSE, !.hb = p])
           /\ [s EXCEPT !.up = FALSE] \in States
           /\ Proper(s) => Proper([s EXCEPT !.up = FALSE])
<1>1. 0 \in 0..Breaker /\ Breaker \in 0..Breaker
  BY LifeNumbers
<1>2. ASSUME NEW p \in Ports \ {Base} PROVE From(s, [s EXCEPT !.att = "settle", !.at = p])
  BY DEF From, Proper, States, Phases
<1>3. ASSUME s.att = "idle"
      PROVE  /\ From(s, s)
             /\ From(s, [s EXCEPT !.failures = 0])
             /\ From(s, [s EXCEPT !.failures = Breaker, !.halted = TRUE, !.spare = TRUE])
  BY <1>1, <1>3 DEF From, Proper, States
<1>4. ASSUME NEW m \in 0..Breaker, NEW p \in Ports
      PROVE  From(s, [s EXCEPT !.failures = m, !.att = "backoff", !.at = p, !.hb = Off])
  BY DEF From, Proper, States, Phases
<1>5. ASSUME Proper(s)
      PROVE  /\ From(s, [s EXCEPT !.halted = FALSE, !.failures = 0])
             /\ From(s, [s EXCEPT !.busy = "long"])
  BY <1>1, <1>5 DEF From, Proper, States
<1>6. ASSUME NEW p \in Ports, Proper(s)
      PROVE  /\ From(s, [s EXCEPT !.spare = FALSE])
             /\ From(s, [s EXCEPT !.spare = FALSE, !.hb = p])
  BY <1>6 DEF From, Proper, States
<1>7. /\ [s EXCEPT !.up = FALSE] \in States
      /\ Proper(s) => Proper([s EXCEPT !.up = FALSE])
  BY DEF Proper, States
<1>8. Proper(s) => From(s, [s EXCEPT !.spare = FALSE])
  BY <1>6, LifeNumbers
<1> QED BY <1>2, <1>3, <1>4, <1>5, <1>6, <1>7, <1>8

\* killStaleDaemon returns to whoever called it.
LEMMA ReturnFacts ==
    ASSUME NEW s \in States, s.why # "none"
    PROVE  From(s, Spared(s)) /\ From(s, Replaced(s))
<1>1. s.why \in {"stale", "transport", "retry", "recover"}
  BY DEF States
<1>2. CASE s.why = "stale"
  <2>1. /\ Spared(s) = [s EXCEPT !.att = "spawn", !.why = "none", !.seen = 0]
        /\ Replaced(s) = [s EXCEPT !.att = "spawn", !.why = "none", !.seen = 0]
    BY <1>2 DEF Spared, Replaced
  <2>2. From(s, [s EXCEPT !.att = "spawn", !.why = "none", !.seen = 0])
    BY LifeNumbers DEF From, Proper, States, Phases
  <2> QED BY <2>1, <2>2
<1>3. CASE s.why = "transport"
  <2>1. Spared(s) = ToAttach(s, Base)
    BY <1>3 DEF Spared
  <2>2. Replaced(s) = [s EXCEPT !.att = "spawn", !.why = "none", !.seen = 0]
    BY <1>3 DEF Replaced
  <2>3. From(s, [s EXCEPT !.att = "spawn", !.why = "none", !.seen = 0])
    BY LifeNumbers DEF From, Proper, States, Phases
  <2>4. From(s, ToAttach(s, Base))
    BY LifeNumbers, ToFacts
  <2> QED BY <2>1, <2>2, <2>3, <2>4
<1>4. CASE s.why = "retry"
  <2>1. /\ Spared(s) = [s EXCEPT !.att = "recheck", !.seen = 0]
        /\ Replaced(s) = [s EXCEPT !.att = "spawn", !.seen = 0]
    BY <1>4 DEF Spared, Replaced
  <2>2. /\ From(s, [s EXCEPT !.att = "recheck", !.seen = 0])
        /\ From(s, [s EXCEPT !.att = "spawn", !.seen = 0])
    BY LifeNumbers DEF From, Proper, States, Phases
  <2> QED BY <2>1, <2>2
<1>5. CASE s.why = "recover"
  <2>1. /\ Spared(s) = [s EXCEPT !.att = "probe", !.why = "none", !.at = Base, !.seen = 0]
        /\ Replaced(s) = [s EXCEPT !.att = "probe", !.why = "none", !.at = Base, !.seen = 0]
    BY <1>5 DEF Spared, Replaced
  <2>2. From(s, [s EXCEPT !.att = "probe", !.why = "none", !.at = Base, !.seen = 0])
    BY LifeNumbers DEF From, Proper, States, Phases
  <2> QED BY <2>1, <2>2
<1> QED BY <1>1, <1>2, <1>3, <1>4, <1>5

\* The walk takes the first port that is free above the base port.
LEMMA NextFreeFacts ==
    ASSUME FreeWalked # {}
    PROVE  /\ NextFree \in Ports /\ NextFree # Base
           /\ server[NextFree] = Free
<1>1. IsWellFoundedOn(OpToRel(<, Nat), Nat)
  BY NatLessThanWellFounded
<1>2. FreeWalked \subseteq Nat
  BY LifeNumbers DEF FreeWalked
<1>3. PICK m \in FreeWalked : \A n \in FreeWalked : <<n, m>> \notin OpToRel(<, Nat)
  BY <1>1, <1>2, WFMin
<1>4. ASSUME NEW n \in FreeWalked PROVE ~ (n < m)
  BY <1>2, <1>3 DEF OpToRel
<1>5. \A n \in FreeWalked : m <= n
  BY <1>2, <1>4
<1>6. NextFree \in FreeWalked
  BY <1>5 DEF NextFree
<1> QED BY <1>6 DEF FreeWalked

-----------------------------------------------------------------------------
(* What the steps of the life of a daemon have in common                   *)

Kept == LifeInv' /\ Spares
Counts == (Fault \/ NoFault) /\ starting' \subseteq Sessions

\* The bound of the events is kept.
LEMMA CountsFacts ==
    ASSUME LifeInv, Counts
    PROVE  events' \in 0..MaxEvents /\ starting' \subseteq Sessions
BY LifeNumbers DEF LifeInv, Counts, Fault, NoFault, Event

\* Only one session changes, and it lives on.
LEMMA OneSession ==
    ASSUME LifeInv, NEW q \in Sessions, NEW n, From(ses[q], n), ses' = [ses EXCEPT ![q] = n]
    PROVE  SessionInv' /\ \A o \in Sessions : ses'[o].up = ses[o].up
<1>1. ses' \in [Sessions -> States]
  BY DEF LifeInv, SessionInv, From, Proper
<1>2. ASSUME NEW o \in Sessions PROVE Proper(ses'[o]) /\ ses'[o].up = ses[o].up
  <2>1. CASE o = q
    BY <2>1 DEF LifeInv, SessionInv, From
  <2>2. CASE o # q
    BY <2>2 DEF LifeInv, SessionInv
  <2> QED BY <2>1, <2>2
<1> QED BY <1>1, <1>2 DEF SessionInv

\* The state of a session that no step changes.
LEMMA NoSession ==
    ASSUME LifeInv, UNCHANGED ses
    PROVE  SessionInv' /\ \A o \in Sessions : ses'[o].up = ses[o].up
BY DEF LifeInv, SessionInv

\* One port changes, which no stranger held.
LEMMA OnePort ==
    ASSUME LifeInv, Counts,
           SessionInv', \A o \in Sessions : ses'[o].up = ses[o].up,
           NEW p \in Ports, server[p] # Alien,
           NEW h \in Holders, h # Alien,
           h.kind = "inproc" => h.by \in Sessions /\ ses[h.by].up,
           server' = [server EXCEPT ![p] = h]
    PROVE  Kept
<1>1. server' \in [Ports -> Holders]
  BY DEF LifeInv, ServerInv
<1>2. ASSUME NEW o \in Ports
      PROVE  /\ server'[o] = Alien => o = Base
             /\ server[o] = Alien => server'[o] = Alien
             /\ server'[o].kind = "inproc" => ses'[server'[o].by].up
  <2>1. CASE o = p
    BY <1>1, <2>1 DEF LifeInv, ServerInv
  <2>2. CASE o # p
    <3>1. server'[o] = server[o]
      BY <2>2 DEF LifeInv, ServerInv
    <3>2. server[o].kind = "inproc" => server[o].by \in Sessions
      BY HolderFacts DEF LifeInv, ServerInv
    <3> QED BY <3>1, <3>2 DEF LifeInv, ServerInv, Live
  <2> QED BY <2>1, <2>2
<1>3. ServerInv' /\ Live' /\ Spares
  BY <1>1, <1>2 DEF ServerInv, Live, Spares
<1> QED BY <1>3, CountsFacts DEF Kept, LifeInv

\* The ports stay as they are.
LEMMA NoPort ==
    ASSUME LifeInv, Counts, UNCHANGED server,
           SessionInv', \A o \in Sessions : ses'[o].up = ses[o].up
    PROVE  Kept
<1>1. ServerInv' /\ Spares
  BY DEF LifeInv, ServerInv, Spares
<1>2. ASSUME NEW o \in Ports, server'[o].kind = "inproc" PROVE ses'[server'[o].by].up
  <2>1. server[o].by \in Sessions
    BY <1>2, HolderFacts DEF LifeInv, ServerInv
  <2> QED BY <1>2, <2>1 DEF LifeInv, Live
<1> QED BY <1>1, <1>2, CountsFacts DEF Kept, LifeInv, Live

\* An attempt goes on without touching a port.
LEMMA GoesKeeps ==
    ASSUME LifeInv, NEW q \in Sessions, NEW n,
           From(ses[q], n), Goes(q, n), Fault \/ NoFault
    PROVE  Kept
<1>1. ses' = [ses EXCEPT ![q] = n] /\ UNCHANGED <<server, starting>>
  BY DEF Goes, Become
<1>2. Counts
  BY <1>1 DEF LifeInv, Counts
<1> QED BY <1>1, <1>2, OneSession, NoPort

\* A session or its daemon takes a free port.
LEMMA BindsKeeps ==
    ASSUME LifeInv, Counts,
           SessionInv', \A o \in Sessions : ses'[o].up = ses[o].up,
           NEW p \in Ports, server[p] = Free, NEW q \in Sessions,
           NEW kind \in {"daemon", "inproc"}, kind = "inproc" => ses[q].up,
           Binds(p, kind, q)
    PROVE  Kept
<1> DEFINE h == Holder(kind, q)
<1>1. h \in Holders /\ h.kind = kind /\ h.by = q
  BY HolderFacts
<1>2. server' = [server EXCEPT ![p] = h]
  BY DEF Binds
<1>3. h # Alien /\ server[p] # Alien
  BY <1>1, HolderFacts
<1> HIDE DEF h
<1> QED BY <1>1, <1>2, <1>3, OnePort

\* A port is freed that no stranger holds.
LEMMA FreesKeeps ==
    ASSUME LifeInv, Counts,
           SessionInv', \A o \in Sessions : ses'[o].up = ses[o].up,
           NEW p \in Ports, server[p] # Alien,
           server' = [server EXCEPT ![p] = Free]
    PROVE  Kept
BY HolderFacts, OnePort

\* A session ends and what it serves in process is gone: no other server is.
LEMMA EndsKeeps ==
    ASSUME LifeInv, Counts, SessionInv',
           NEW q \in Sessions, \A o \in Sessions \ {q} : ses'[o].up = ses[o].up,
           server' = Gone(server, q)
    PROVE  Kept
<1>1. server' = [p \in Ports |-> IF server[p].kind = "inproc" /\ server[p].by = q
                                      THEN Free ELSE server[p]]
  BY DEF Gone
<1>2. server' \in [Ports -> Holders]
  BY <1>1, HolderFacts DEF LifeInv, ServerInv
<1>3. ASSUME NEW o \in Ports
      PROVE  /\ server'[o] = Alien => o = Base
             /\ server[o] = Alien => server'[o] = Alien
             /\ server'[o].kind = "inproc" => ses'[server'[o].by].up
  <2>1. CASE server[o].kind = "inproc" /\ server[o].by = q
    BY <1>1, <2>1, HolderFacts
  <2>2. CASE ~(server[o].kind = "inproc" /\ server[o].by = q)
    <3>1. server'[o] = server[o]
      BY <1>1, <2>2
    <3>2. server[o].kind = "inproc" => server[o].by \in Sessions \ {q}
      BY <2>2, HolderFacts DEF LifeInv, ServerInv
    <3> QED BY <3>1, <3>2 DEF LifeInv, ServerInv, Live
  <2> QED BY <2>1, <2>2
<1>4. ServerInv' /\ Live' /\ Spares
  BY <1>2, <1>3 DEF ServerInv, Live, Spares
<1> QED BY <1>4, CountsFacts DEF Kept, LifeInv

\* Whoever holds a port is dislodged, or by mistake a session that is connected
\* to it.
LEMMA DislodgeKeeps ==
    ASSUME LifeInv, Counts, NEW q \in Sessions, NEW n,
           From(ses[q], n), NEW p \in Ports, Dislodge(p, q, n)
    PROVE  Kept
<1>1. CASE server' = Freed(p) /\ Become(q, n)
  <2>1. SessionInv' /\ \A o \in Sessions : ses'[o].up = ses[o].up
    BY <1>1, OneSession DEF Become
  <2>2. CASE server[p] # Alien
    <3>1. server' = [server EXCEPT ![p] = Free]
      BY <1>1, <2>2 DEF Freed
    <3> QED BY <2>1, <2>2, <3>1, FreesKeeps
  <2>3. CASE server[p] = Alien
    BY <1>1, <2>1, <2>3, NoPort DEF Freed
  <2> QED BY <2>2, <2>3
<1>2. ASSUME NEW other \in Sessions \ {q}, server' = Gone(server, other),
             ses' = [ses EXCEPT ![q] = n, ![other].up = FALSE]
      PROVE  Kept
  <2>1. ses' \in [Sessions -> States]
    <3>1. ses[other] \in States /\ n \in States
      BY DEF LifeInv, SessionInv, From, Proper
    <3>2. [ses[other] EXCEPT !.up = FALSE] \in States
      BY <3>1, AssignFacts
    <3> QED BY <1>2, <3>1, <3>2 DEF LifeInv, SessionInv
  <2>2. ASSUME NEW o \in Sessions PROVE Proper(ses'[o]) /\ (o # other => ses'[o].up = ses[o].up)
    <3>1. CASE o = q
      BY <1>2, <3>1 DEF LifeInv, SessionInv, From
    <3>2. CASE o = other
      <4>1. ses'[o] = [ses[o] EXCEPT !.up = FALSE]
        BY <1>2, <3>2 DEF LifeInv, SessionInv
      <4>2. ses[o] \in States /\ Proper(ses[o])
        BY DEF LifeInv, SessionInv
      <4> QED BY <3>2, <4>1, <4>2, AssignFacts
    <3>3. CASE o # q /\ o # other
      BY <1>2, <3>3 DEF LifeInv, SessionInv
    <3> QED BY <3>1, <3>2, <3>3
  <2>3. SessionInv'
    BY <2>1, <2>2 DEF SessionInv
  <2> QED BY <1>2, <2>2, <2>3, EndsKeeps
<1> QED BY <1>1, <1>2 DEF Dislodge

-----------------------------------------------------------------------------
(* The awaits of an attempt                                                *)

\* What is known of a session and of the version of a server of ours.
LEMMA SessionFacts ==
    ASSUME LifeInv, NEW q \in Sessions
    PROVE  /\ ses[q] \in States /\ Proper(ses[q])
           /\ ses[q].at \in Ports /\ Version[q] \in Nat
           /\ \A p \in Ports : Ours(p) => VersionAt(p) \in Nat
<1>1. /\ ses[q] \in States /\ Proper(ses[q])
      /\ ses[q].at \in Ports /\ Version[q] \in Nat
  BY LifeNumbers DEF LifeInv, SessionInv, States
<1>2. ASSUME NEW p \in Ports, Ours(p) PROVE VersionAt(p) \in Nat
  <2>1. server[p].by \in Sessions
    BY <1>2, HolderFacts DEF LifeInv, ServerInv, Ours
  <2> QED BY <2>1, LifeNumbers DEF VersionAt
<1> QED BY <1>1, <1>2

\* probeAndMaybeReplace.
LEMMA ProbeKeeps ==
    ASSUME LifeInv, NEW q \in Sessions, Probe(q)
    PROVE  Kept
<1>1. \E n : From(ses[q], n) /\ Goes(q, n)
  <2>1. From(ses[q], To(ses[q], "spawn")) /\ From(ses[q], ToAttach(ses[q], Base))
    BY SessionFacts, ToFacts, LifeNumbers DEF Phases
  <2>2. ASSUME Ours(Base), NEW why \in {"stale", "transport"}
        PROVE  From(ses[q], ToJudge(ses[q], why, Base, VersionAt(Base)))
    BY <2>2, SessionFacts, ToFacts, LifeNumbers
  <2> QED BY <2>1, <2>2 DEF Probe
<1>2. Fault \/ NoFault
  BY DEF Probe
<1> QED BY <1>1, <1>2, GoesKeeps

\* shouldReplaceDaemon.
LEMMA JudgeKeeps ==
    ASSUME LifeInv, NEW q \in Sessions, Judge(q)
    PROVE  Kept
<1> DEFINE t == Tracked(ses[q], server[ses[q].at].load)
<1>1. /\ t \in States /\ t.up = ses[q].up /\ t.why = ses[q].why
      /\ ses[q].why # "none"
  BY SessionFacts, TrackedFacts DEF Judge, Proper
<1>2. From(ses[q], Spared(ses[q])) /\ From(t, Spared(t))
  BY <1>1, SessionFacts, ReturnFacts
<1>3. From(t, [t EXCEPT !.att = "kill", !.seen = 0])
  BY <1>1 DEF From, Proper, States, Phases
<1>4. \E n : From(ses[q], n) /\ Goes(q, n)
  BY <1>1, <1>2, <1>3 DEF Judge, From
<1>5. Fault \/ NoFault
  BY DEF Judge
<1> QED BY <1>4, <1>5, GoesKeeps

\* killStaleDaemon after its decision.
LEMMA KillKeeps ==
    ASSUME LifeInv, NEW q \in Sessions, Kill(q)
    PROVE  Kept
<1>1. From(ses[q], Replaced(ses[q])) /\ ses[q].at \in Ports
  BY SessionFacts, ReturnFacts DEF Kill, Proper
<1>2. Dislodge(ses[q].at, q, Replaced(ses[q])) /\ Counts
  BY DEF Kill, Counts, NoFault, LifeInv
<1> QED BY <1>1, <1>2, DislodgeKeeps

\* spawnDaemonProcess.
LEMMA SpawnKeeps ==
    ASSUME LifeInv, NEW q \in Sessions, Spawn(q)
    PROVE  Kept
<1>1. /\ From(ses[q], To(ses[q], "bind"))
      /\ From(ses[q], To(ses[q], IF ses[q].why = "retry" THEN "rewait" ELSE "wait"))
  BY SessionFacts, ToFacts DEF Phases
<1>2. CASE Fault /\ Goes(q, To(ses[q], "bind"))
  BY <1>1, <1>2, GoesKeeps
<1>3. CASE ~(Fault /\ Goes(q, To(ses[q], "bind")))
  <2>1. /\ starting' = starting \cup {q} /\ UNCHANGED <<server, events>>
        /\ ses' = [ses EXCEPT ![q] =
              To(ses[q], IF ses[q].why = "retry" THEN "rewait" ELSE "wait")]
    BY <1>3 DEF Spawn, Become
  <2>2. Counts
    BY <2>1 DEF Counts, NoFault, LifeInv
  <2> QED BY <1>1, <2>1, <2>2, OneSession, NoPort
<1> QED BY <1>2, <1>3

\* waitForReady.
LEMMA WaitKeeps ==
    ASSUME LifeInv, NEW q \in Sessions, Wait(q)
    PROVE  Kept
<1>1. /\ From(ses[q], ToAttach(ses[q], Base))
      /\ From(ses[q], To(ses[q], "reclaim")) /\ From(ses[q], To(ses[q], "bind"))
  BY SessionFacts, ToFacts, LifeNumbers DEF Phases
<1>2. Ours(Base) =>
          From(ses[q], ToJudge(ses[q], "retry", Base, VersionAt(Base)))
  BY SessionFacts, ToFacts, LifeNumbers
<1>3. \E n : From(ses[q], n) /\ Goes(q, n)
  BY <1>1, <1>2 DEF Wait
<1>4. Fault \/ NoFault
  BY DEF Wait
<1> QED BY <1>3, <1>4, GoesKeeps

\* The base port is looked at again after a daemon of ours was spared.
LEMMA RecheckKeeps ==
    ASSUME LifeInv, NEW q \in Sessions, Recheck(q)
    PROVE  Kept
<1>1. From(ses[q], ToAttach(ses[q], Base)) /\ From(ses[q], To(ses[q], "bind"))
  BY SessionFacts, ToFacts, LifeNumbers DEF Phases
<1>2. \E n : From(ses[q], n) /\ Goes(q, n)
  BY <1>1 DEF Recheck
<1>3. Fault \/ NoFault
  BY DEF Recheck
<1> QED BY <1>2, <1>3, GoesKeeps

\* reclaimDarkHolder.
LEMMA ReclaimKeeps ==
    ASSUME LifeInv, NEW q \in Sessions, Reclaim(q)
    PROVE  Kept
<1>1. From(ses[q], ToAttach(ses[q], Base)) /\ From(ses[q], To(ses[q], "bind"))
  BY SessionFacts, ToFacts, LifeNumbers DEF Phases
<1>2. CASE \E n : From(ses[q], n) /\ Goes(q, n) /\ NoFault
  BY <1>2, GoesKeeps
<1>3. CASE Dislodge(Base, q, To(ses[q], "bind")) /\ UNCHANGED <<starting, events>>
  <2>1. Counts
    BY <1>3 DEF Counts, NoFault, LifeInv
  <2> QED BY <1>1, <1>3, <2>1, LifeNumbers, DislodgeKeeps
<1> QED BY <1>1, <1>2, <1>3 DEF Reclaim

\* The listen on the base port.
LEMMA BindKeeps ==
    ASSUME LifeInv, NEW q \in Sessions, Bind(q)
    PROVE  Kept
<1>1. From(ses[q], ToAttach(ses[q], Base)) /\ From(ses[q], To(ses[q], "walk"))
  BY SessionFacts, ToFacts, LifeNumbers DEF Phases
<1>2. CASE server[Base] # Free
  BY <1>1, <1>2, GoesKeeps DEF Bind
<1>3. CASE server[Base] = Free
  <2>1. /\ Binds(Base, "inproc", q) /\ ses[q].up
        /\ ses' = [ses EXCEPT ![q] = ToAttach(ses[q], Base)]
        /\ UNCHANGED starting /\ NoFault
    BY <1>3 DEF Bind, Become
  <2>2. Counts
    BY <2>1 DEF Counts, LifeInv
  <2>3. SessionInv' /\ \A o \in Sessions : ses'[o].up = ses[o].up
    BY <1>1, <2>1, OneSession
  <2> QED BY <1>3, <2>1, <2>2, <2>3, LifeNumbers, BindsKeeps
<1> QED BY <1>2, <1>3

\* The walk over the ports above the base port.
LEMMA WalkKeeps ==
    ASSUME LifeInv, NEW q \in Sessions, Walk(q)
    PROVE  Kept
<1>1. From(ses[q], ToAttach(ses[q], Base)) /\ From(ses[q], Over(ses[q]))
  BY SessionFacts, ToFacts, LifeNumbers
<1>2. CASE \E n : From(ses[q], n) /\ Goes(q, n) /\ NoFault
  BY <1>2, GoesKeeps
<1>3. CASE /\ FreeWalked # {}
           /\ Binds(NextFree, "inproc", q)
           /\ Become(q, [ses[q] EXCEPT !.att = "settle", !.at = NextFree])
           /\ UNCHANGED starting
  <2>1. /\ NextFree \in Ports /\ NextFree # Base
        /\ server[NextFree] = Free
    BY <1>3, NextFreeFacts
  <2>2. From(ses[q], [ses[q] EXCEPT !.att = "settle", !.at = NextFree])
    BY <2>1, SessionFacts, AssignFacts
  <2>3. Counts /\ ses[q].up
    BY <1>3 DEF Counts, Walk, LifeInv
  <2>4. SessionInv' /\ \A o \in Sessions : ses'[o].up = ses[o].up
    BY <1>3, <2>2, OneSession DEF Become
  <2> QED BY <1>3, <2>1, <2>3, <2>4, BindsKeeps
<1> QED BY <1>1, <1>2, <1>3 DEF Walk

\* The walked-port guard gives up the port the walk took, never the base port.
LEMMA SettleKeeps ==
    ASSUME LifeInv, NEW q \in Sessions, Settle(q)
    PROVE  Kept
<1>1. /\ ses[q].at \in Ports /\ ses[q].at # Base
      /\ From(ses[q], ToAttach(ses[q], Base))
      /\ From(ses[q], ToAttach(ses[q], ses[q].at))
  BY SessionFacts, ToFacts, LifeNumbers DEF Settle, Proper
<1>2. CASE Goes(q, ToAttach(ses[q], ses[q].at)) /\ NoFault
  BY <1>1, <1>2, GoesKeeps
<1>3. CASE /\ server' = [server EXCEPT ![ses[q].at] = Free]
           /\ Become(q, ToAttach(ses[q], Base))
           /\ UNCHANGED starting /\ NoFault
  <2>1. server[ses[q].at] # Alien
    BY <1>1 DEF LifeInv, ServerInv
  <2>2. Counts
    BY <1>3 DEF Counts, LifeInv
  <2>3. SessionInv' /\ \A o \in Sessions : ses'[o].up = ses[o].up
    BY <1>1, <1>3, OneSession DEF Become
  <2> QED BY <1>1, <1>3, <2>1, <2>2, <2>3, FreesKeeps
<1> QED BY <1>2, <1>3 DEF Settle

\* attachTo, of a session whose attempt is then over.
LEMMA AttachToKeeps ==
    ASSUME LifeInv, NEW q \in Sessions, NEW n, From(ses[q], n),
           NEW p \in Ports, AttachTo(q, n, p), UNCHANGED <<server, starting>>
    PROVE  Kept
<1>1. From(ses[q], [n EXCEPT !.hb = p])
  BY DEF From, Proper, States
<1>2. \E m : From(ses[q], m) /\ Goes(q, m)
  BY <1>1 DEF AttachTo, Goes
<1>3. Fault \/ NoFault
  BY DEF AttachTo
<1> QED BY <1>2, <1>3, GoesKeeps

\* The last step of an attempt.
LEMMA AttachKeeps ==
    ASSUME LifeInv, NEW q \in Sessions, Attaches(q)
    PROVE  Kept
<1>1. From(ses[q], Over(ses[q])) /\ ses[q].at \in Ports
  BY SessionFacts, ToFacts
<1> QED BY <1>1, AttachToKeeps DEF Attaches

\* ensureInProcessFallback.
LEMMA SpareBindsKeeps ==
    ASSUME LifeInv, NEW q \in Sessions, SpareBinds(q)
    PROVE  Kept
<1> DEFINE p == IF server[Base] = Free THEN Base ELSE NextFree
           n == [ses[q] EXCEPT !.spare = FALSE]
<1>1. From(ses[q], n) /\ (p \in Ports => From(ses[q], [ses[q] EXCEPT !.spare = FALSE, !.hb = p]))
  BY SessionFacts, AssignFacts
<1>2. Base \in Ports /\ UNCHANGED starting
  BY LifeNumbers DEF SpareBinds
<1>3. CASE AttachTo(q, n, Base) /\ UNCHANGED server
  BY <1>1, <1>2, <1>3, AttachToKeeps
<1>4. CASE Become(q, n) /\ NoFault /\ UNCHANGED server
  BY <1>1, <1>2, <1>4, GoesKeeps DEF Goes
<1>5. CASE /\ server[Base] = Free \/ FreeWalked # {}
           /\ Binds(p, "inproc", q)
           /\ Become(q, [ses[q] EXCEPT !.spare = FALSE, !.hb = p])
           /\ NoFault
  <2>1. p \in Ports /\ server[p] = Free
    BY <1>2, <1>5, NextFreeFacts
  <2>2. Counts /\ ses[q].up
    BY <1>2, <1>5 DEF Counts, SpareBinds, LifeInv
  <2>3. SessionInv' /\ \A o \in Sessions : ses'[o].up = ses[o].up
    BY <1>1, <1>5, <2>1, OneSession DEF Become
  <2> QED BY <1>5, <2>1, <2>2, <2>3, BindsKeeps
<1> QED BY <1>3, <1>4, <1>5 DEF SpareBinds

-----------------------------------------------------------------------------
(* The timers of a session                                                 *)

\* beatOnce.
LEMMA BeatKeeps ==
    ASSUME LifeInv, NEW q \in Sessions, Beat(q)
    PROVE  Kept
<1>1. From(ses[q], Begun(ses[q]))
  BY SessionFacts, ToFacts DEF Begun, Phases
<1>2. Goes(q, Begun(ses[q])) /\ (Fault \/ NoFault)
  BY DEF Beat
<1> QED BY <1>1, <1>2, GoesKeeps

\* triggerRecovery, up to the backoff, with the edge of the busy daemon seen.
LEMMA RecoverKeeps ==
    ASSUME LifeInv, NEW q \in Sessions, NEW load,
           ses[q].att = "idle", ses[q].hb # Off,
           Recover(q, Tracked(ses[q], load))
    PROVE  Kept
<1> DEFINE t == Tracked(ses[q], load)
<1>1. /\ t \in States /\ t.up = ses[q].up /\ t.att = "idle"
      /\ t.hb \in Ports /\ t.failures \in Nat
  BY SessionFacts, TrackedFacts, LifeNumbers DEF States
<1> HIDE DEF t
<1>2. From(ses[q], [t EXCEPT !.failures = Breaker, !.halted = TRUE, !.spare = TRUE])
  BY <1>1, AssignFacts DEF From
<1>3. ASSUME NEW m \in 1..(t.failures + 1), m < Breaker
      PROVE  From(ses[q], [t EXCEPT !.failures = m, !.att = "backoff", !.at = t.hb, !.hb = Off])
  <2>1. m \in 0..Breaker
    BY <1>1, <1>3, LifeNumbers
  <2>2. From(t, [t EXCEPT !.failures = m, !.att = "backoff", !.at = t.hb, !.hb = Off])
    BY <1>1, <2>1, AssignFacts
  <2> QED BY <1>1, <2>2 DEF From
<1>4. \E n : From(ses[q], n) /\ Goes(q, n)
  BY <1>2, <1>3 DEF Recover, t
<1>5. Fault \/ NoFault
  BY DEF Recover
<1> QED BY <1>4, <1>5, GoesKeeps

\* watchdogCheck.
LEMMA WatchdogKeeps ==
    ASSUME LifeInv, NEW q \in Sessions, Watchdog(q)
    PROVE  Kept
<1> DEFINE load == server[ses[q].hb].load
           t == Tracked(ses[q], load)
<1>1. ses[q].att = "idle" /\ ses[q].hb # Off
  BY DEF Watchdog, Ticks
<1>2. /\ t \in States /\ t.up = ses[q].up /\ t.att = "idle"
  BY <1>1, SessionFacts, TrackedFacts
<1>3. From(ses[q], t) /\ From(ses[q], [t EXCEPT !.failures = 0])
  BY <1>2, AssignFacts DEF From
<1>4. CASE Recover(q, Tracked(ses[q], "idle"))
  BY <1>1, <1>4, RecoverKeeps
<1>5. CASE Recover(q, t)
  BY <1>1, <1>5, RecoverKeeps
<1>6. CASE NoFault /\ (Goes(q, t) \/ Goes(q, [t EXCEPT !.failures = 0]))
  BY <1>3, <1>6, GoesKeeps
<1> QED BY <1>4, <1>5, <1>6 DEF Watchdog

\* triggerRecovery, after the backoff.
LEMMA BackoffEndsKeeps ==
    ASSUME LifeInv, NEW q \in Sessions, BackoffEnds(q)
    PROVE  Kept
<1> DEFINE p == ses[q].at
           t == Tracked(ses[q], server[p].load)
<1>1. p \in Ports /\ t \in States /\ t.up = ses[q].up /\ t.att = ses[q].att
  BY SessionFacts, TrackedFacts
<1>2. From(ses[q], ToAttach(t, p))
  <2>1. From(t, ToAttach(t, p))
    BY <1>1, ToFacts
  <2> QED BY <1>1, <2>1 DEF From
<1>3. From(ses[q], ToJudge(ses[q], "recover", p, Version[q]))
  BY <1>1, SessionFacts, ToFacts
<1>4. Ours(p) => From(ses[q], ToJudge(ses[q], "recover", p, VersionAt(p)))
  BY <1>1, SessionFacts, ToFacts
<1>5. \E n : From(ses[q], n) /\ Goes(q, n)
  BY <1>2, <1>3, <1>4 DEF BackoffEnds
<1>6. Fault \/ NoFault
  BY DEF BackoffEnds
<1> QED BY <1>5, <1>6, GoesKeeps

\* The breaker closes again, and a busy daemon has been so for long.
LEMMA TimesKeep ==
    ASSUME LifeInv, NEW q \in Sessions,
           HaltEnds(q) \/ BusyAges(q)
    PROVE  Kept
<1>1. /\ From(ses[q], [ses[q] EXCEPT !.halted = FALSE, !.failures = 0])
      /\ From(ses[q], [ses[q] EXCEPT !.busy = "long"])
  BY SessionFacts, AssignFacts
<1>2. \E n : From(ses[q], n) /\ Goes(q, n) /\ NoFault
  BY <1>1 DEF HaltEnds, BusyAges
<1> QED BY <1>2, GoesKeeps

-----------------------------------------------------------------------------
(* Sessions, daemons and requests                                          *)

\* model_select and ensureProxyReady.
LEMMA CallKeeps ==
    ASSUME LifeInv, NEW q \in Sessions, Call(q)
    PROVE  Kept
<1>1. From(ses[q], Begun(ses[q]))
  BY SessionFacts, ToFacts DEF Begun, Phases
<1>2. Goes(q, Begun(ses[q])) /\ Fault
  BY DEF Call, Goes, Fault
<1> QED BY <1>1, <1>2, GoesKeeps

\* The process of a session exits.
LEMMA SessionEndsKeeps ==
    ASSUME LifeInv, NEW q \in Sessions, SessionExits(q)
    PROVE  Kept
<1> DEFINE n == [ses[q] EXCEPT !.up = FALSE]
<1>1. n \in States /\ Proper(n)
  BY SessionFacts, AssignFacts
<1>2. /\ server' = Gone(server, q) /\ ses' = [ses EXCEPT ![q] = n]
      /\ UNCHANGED <<starting, events>>
  BY DEF SessionExits, Become
<1> HIDE DEF n
<1>3. Counts
  BY <1>2 DEF Counts, NoFault, LifeInv
<1>4. SessionInv' /\ \A o \in Sessions \ {q} : ses'[o].up = ses[o].up
  <2>1. ses' \in [Sessions -> States]
    BY <1>1, <1>2 DEF LifeInv, SessionInv
  <2>2. \A o \in Sessions : Proper(ses'[o])
    BY <1>1, <1>2 DEF LifeInv, SessionInv
  <2>3. \A o \in Sessions \ {q} : ses'[o].up = ses[o].up
    BY <1>2 DEF LifeInv, SessionInv
  <2> QED BY <2>1, <2>2, <2>3 DEF SessionInv
<1> QED BY <1>2, <1>3, <1>4, EndsKeeps

\* runDaemon.
LEMMA DaemonStartsKeeps ==
    ASSUME LifeInv, NEW q \in Sessions, DaemonStarts(q)
    PROVE  Kept
<1>1. SessionInv' /\ \A o \in Sessions : ses'[o].up = ses[o].up
  BY NoSession DEF DaemonStarts
<1>2. Counts
  BY DEF DaemonStarts, Counts, NoFault, LifeInv
<1>3. CASE UNCHANGED server
  BY <1>1, <1>2, <1>3, NoPort
<1>4. CASE server[Base] = Free /\ Binds(Base, "daemon", q)
  BY <1>1, <1>2, <1>4, LifeNumbers, BindsKeeps
<1>5. CASE FreeWalked # {} /\ Binds(NextFree, "daemon", q)
  BY <1>1, <1>2, <1>5, NextFreeFacts, BindsKeeps
<1> QED BY <1>3, <1>4, <1>5 DEF DaemonStarts

\* A daemon or a request at a port: retired, begun, quiet, ended, crashed, hung
\* or degraded.
PortStep(p) ==
    \/ DaemonRetires(p) \/ RequestBegins(p) \/ RequestQuiets(p)
    \/ RequestEnds(p) \/ Crash(p) \/ Hang(p) \/ Degrade(p)

\* Each of them is of a server of ours, or of one that is silent.
LEMMA PortStepKeeps ==
    ASSUME LifeInv, NEW p \in Ports, PortStep(p)
    PROVE  Kept
<1>1. SessionInv' /\ \A o \in Sessions : ses'[o].up = ses[o].up
  BY NoSession DEF PortStep, DaemonRetires, RequestBegins, RequestQuiets,
     RequestEnds, Crash, Hang, Degrade, Request, Breaks
<1>2. UNCHANGED starting /\ (Fault \/ NoFault)
  BY DEF PortStep, DaemonRetires, RequestBegins, RequestQuiets,
     RequestEnds, Crash, Hang, Degrade, Request, Breaks,
     Fault, NoFault
<1>3. Counts
  BY <1>2 DEF Counts, LifeInv
<1>4. server[p] \in Holders
  BY DEF LifeInv, ServerInv
<1>5. CASE DaemonRetires(p) \/ Crash(p)
  BY <1>1, <1>3, <1>5, HolderFacts, FreesKeeps DEF DaemonRetires, Crash, Breaks
<1>6. CASE Hang(p)
  <2>1. server[p] # Alien /\ Hung # Alien /\ Hung.kind # "inproc"
    BY <1>6, HolderFacts DEF Hang
  <2> QED BY <1>1, <1>3, <1>6, <2>1, HolderFacts, OnePort DEF Hang, Breaks
<1>7. ASSUME NEW l \in Loads, Ours(p), server' = [server EXCEPT ![p].load = l]
      PROVE  Kept
  <2> DEFINE h == [server[p] EXCEPT !.load = l]
  <2>1. /\ h \in Holders /\ h.kind = server[p].kind /\ h.by = server[p].by
        /\ h.by \in Sessions
    BY <1>4, <1>7, OursFacts DEF Ours
  <2>2. h # Alien /\ server[p] # Alien
    BY <1>4, <1>7, <2>1, HolderFacts DEF Ours
  <2>3. server' = [server EXCEPT ![p] = h]
    BY <1>7 DEF LifeInv, ServerInv
  <2>4. h.kind = "inproc" => ses[h.by].up
    BY <2>1 DEF LifeInv, Live
  <2> HIDE DEF h
  <2> QED BY <1>1, <1>3, <2>1, <2>2, <2>3, <2>4, OnePort
<1>8. CASE RequestBegins(p) \/ RequestQuiets(p) \/ RequestEnds(p)
  BY <1>7, <1>8 DEF RequestBegins, RequestQuiets, RequestEnds, Request, Loads
<1>9. CASE Degrade(p)
  <2> DEFINE h == [server[p] EXCEPT !.degraded = TRUE]
  <2>1. /\ h \in Holders /\ h.kind = server[p].kind /\ h.by = server[p].by
        /\ h.by \in Sessions
    BY <1>4, <1>9, OursFacts DEF Ours, Degrade
  <2>2. h # Alien /\ server[p] # Alien
    BY <1>4, <1>9, <2>1, HolderFacts DEF Ours, Degrade
  <2>3. server' = [server EXCEPT ![p] = h]
    BY <1>9 DEF Degrade, Breaks
  <2>4. h.kind = "inproc" => ses[h.by].up
    BY <2>1 DEF LifeInv, Live
  <2> HIDE DEF h
  <2> QED BY <1>1, <1>3, <2>1, <2>2, <2>3, <2>4, OnePort
<1> QED BY <1>5, <1>6, <1>8, <1>9 DEF PortStep

-----------------------------------------------------------------------------
(* The life of the daemon, as a whole                                      *)

\* The invariant holds at first.
LEMMA InitLife == LifeInit => LifeInv
<1> SUFFICES ASSUME LifeInit PROVE LifeInv
  OBVIOUS
<1> USE LifeNumbers
<1>1. ServerInv
  BY HolderFacts DEF LifeInit, ServerInv
<1>2. SessionStart \in States /\ SessionStart.att = "probe"
  BY DEF SessionStart, States, Phases
<1>3. SessionInv
  BY <1>2 DEF LifeInit, SessionInv, Proper
<1>4. Live
  BY HolderFacts DEF LifeInit, Live
<1> QED BY <1>1, <1>3, <1>4 DEF LifeInit, LifeInv

\* Every step keeps the invariant and spares the strangers.
LEMMA LifeStep ==
    LifeInv /\ [LifeNext]_lifeVars => Kept
<1> SUFFICES ASSUME LifeInv, [LifeNext]_lifeVars PROVE Kept
  OBVIOUS
<1>1. CASE UNCHANGED lifeVars
  BY <1>1, NoSession, NoPort DEF lifeVars, Counts, NoFault, LifeInv
<1>2. ASSUME NEW q \in Sessions, Attempt(q) PROVE Kept
  BY <1>2, ProbeKeeps, JudgeKeeps, KillKeeps, SpawnKeeps, WaitKeeps, RecheckKeeps,
     ReclaimKeeps, BindKeeps, WalkKeeps, SettleKeeps, AttachKeeps, BackoffEndsKeeps
     DEF Attempt
<1>3. ASSUME NEW q \in Sessions,
             \/ SpareBinds(q) \/ Beat(q) \/ Watchdog(q) \/ HaltEnds(q)
             \/ BusyAges(q) \/ Call(q) \/ SessionExits(q) \/ DaemonStarts(q)
      PROVE  Kept
  BY <1>3, SpareBindsKeeps, BeatKeeps, WatchdogKeeps, TimesKeep, CallKeeps, SessionEndsKeeps,
     DaemonStartsKeeps
<1>4. ASSUME NEW p \in Ports, PortStep(p) PROVE Kept
  BY <1>4, PortStepKeeps
<1> QED BY <1>1, <1>2, <1>3, <1>4 DEF LifeNext, PortStep

\* Holders, sessions, spawned daemons and events keep their types in every reachable state of the
\* ports and sessions (src/client.ts, src/client-recovery.ts).
THEOREM LifecycleTyped == LifeSpec => []LifeTypeOK
<1>1. LifeInv => LifeTypeOK
  BY DEF LifeInv, ServerInv, SessionInv, LifeTypeOK
<1>2. LifeInit => LifeInv
  BY InitLife
<1>3. LifeInv /\ [LifeNext]_lifeVars => LifeInv'
  BY LifeStep DEF Kept
<1> QED BY <1>1, <1>2, <1>3, PTL DEF LifeSpec

\* A port that a session serves in process is held by a session that runs: whatever ends a
\* session, its own exit or the kill meant for the silent daemon it is connected to
\* (src/proxy-ports.ts, killPortHolder), takes its servers with it.
THEOREM ServersLive == LifeSpec => []Live
<1>1. LifeInv => Live
  BY DEF LifeInv
<1>2. LifeInit => LifeInv
  BY InitLife
<1>3. LifeInv /\ [LifeNext]_lifeVars => LifeInv'
  BY LifeStep DEF Kept
<1> QED BY <1>1, <1>2, <1>3, PTL DEF LifeSpec

\* Whatever a session kills by its port, whichever holder it had looked at before, a program
\* that answers as another than this proxy is not killed (src/proxy-ports.ts, killPortHolder).
THEOREM StrangersSpared == LifeSpec => StrangerSpared
<1>1. LifeInit => LifeInv
  BY InitLife
<1>2. LifeInv /\ [LifeNext]_lifeVars => LifeInv' /\ Spares
  BY LifeStep DEF Kept
<1>3. LifeInv /\ [LifeNext]_lifeVars => LifeInv' /\
          [\A p \in Ports : server[p] = Alien => server'[p] = Alien]_lifeVars
  BY <1>2 DEF Spares
<1> QED BY <1>1, <1>3, PTL DEF LifeSpec, StrangerSpared
====
