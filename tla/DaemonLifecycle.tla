--------------------------- MODULE DaemonLifecycle ---------------------------
(***************************************************************************)
(* How sessions come by a proxy daemon and keep it: src/client.ts,         *)
(* src/client-recovery.ts, src/proxy-ports.ts and the bind loop of         *)
(* startProxy in src/proxy.ts.  A session probes the base port, replaces   *)
(* an outdated daemon, spawns one, reclaims the port from a holder that    *)
(* does not answer, or serves itself in process on a walked port; then it  *)
(* attaches, and its heartbeat and watchdog start over when needed.        *)
(*                                                                         *)
(* One action per await at which a session reads or changes what it shares *)
(* with others: the ports and whoever listens there.  A probe of a live    *)
(* daemon may time out; such time-outs are faults and bounded.  Leases are *)
(* those of LeaseRegistry, which shows that they outlive the beats that    *)
(* renew them: here a daemon holds the lease of whoever beats at it.       *)
(***************************************************************************)
EXTENDS Integers, FiniteSets, FiniteSetsExt

CONSTANTS
    Sessions,
    Version,       \* PKG_VERSION of each session
    Sidecar,       \* sessions whose PI_FREEFLOW_ZEN_TRANSPORT asks for the sidecar
    MaxPort,       \* bound: the last port the walk tries, 20 in the code
    Breaker,       \* BREAKER_FAILURES
    MaxEvents      \* bound: calls, requests, crashes, hangs, degradations, time-outs
                   \* and openings of the breaker

ASSUME LifecycleAssumption ==
    /\ IsFiniteSet(Sessions)
    /\ Version \in [Sessions -> Nat]
    /\ Sidecar \subseteq Sessions
    /\ MaxPort \in Nat
    /\ Breaker \in Nat \ {0}
    /\ MaxEvents \in Nat

VARIABLES
    server,     \* what holds each port
    starting,   \* sessions whose spawned daemon has not bound a port yet
    ses,        \* the state of each session's client
    events

lifeVars == <<server, starting, ses, events>>

Base == 0
Ports == 0..MaxPort
Off == -1

Holder(kind, q) == [kind |-> kind, by |-> q, degraded |-> FALSE, load |-> "idle"]
Free == [kind |-> "free", degraded |-> FALSE, load |-> "idle"]
Alien == [Free EXCEPT !.kind = "alien"]      \* another program, answering HTTP
Hung == [Free EXCEPT !.kind = "hung"]        \* a daemon that accepts and is silent

Loads == {"idle", "flowing", "quiet"}        \* requests in flight; no bytes for 60s

SessionStart ==
    [up |-> TRUE,
     att |-> "probe",       \* where its ensure attempt or recovery is (`ensuring`)
     why |-> "none",        \* what killStaleDaemon was called for
     at |-> Base,           \* the port that call, or attachTo, is about
     seen |-> 0,            \* the version read before it
     hb |-> Off,            \* the port of the heartbeat and watchdog timers
     spare |-> FALSE,       \* an unlatched ensureInProcessFallback is under way
     failures |-> 0, halted |-> FALSE,
     busy |-> "no"]         \* busySince: not set, set, or five minutes ago

Phases == {"idle", "probe", "judge", "kill", "spawn", "wait", "rewait", "recheck",
           "reclaim", "bind", "walk", "settle", "attach", "backoff"}

\* What may hold a port, and the states of a session.
Holders ==
    {Free, Alien, Hung} \cup
    [kind : {"daemon", "inproc"}, by : Sessions, degraded : BOOLEAN, load : Loads]
States ==
    [up : BOOLEAN, att : Phases,
     why : {"none", "stale", "transport", "retry", "recover"},
     at : Ports, seen : Nat, hb : Ports \cup {Off}, spare : BOOLEAN,
     failures : 0..Breaker, halted : BOOLEAN, busy : {"no", "since", "long"}]

LifeTypeOK ==
    /\ server \in [Ports -> Holders]
    /\ starting \subseteq Sessions
    /\ ses \in [Sessions -> States]
    /\ events \in 0..MaxEvents

LifeInit ==
    /\ \E base \in {Free, Alien} : server = [p \in Ports |-> IF p = Base THEN base ELSE Free]
    /\ starting = {}
    /\ ses = [q \in Sessions |-> SessionStart]
    /\ events = 0

-----------------------------------------------------------------------------
(* What a probe tells                                                      *)

\* isProxyAlive: one of ours, of whatever version, that answers.
Ours(p) == server[p].kind \in {"daemon", "inproc"}

VersionAt(p) == Version[server[p].by]
Mismatch(q, p) == server[p].by \in Sidecar <=> q \notin Sidecar

FreeWalked == {p \in Ports \ {Base} : server[p] = Free}

Become(q, s) == ses' = [ses EXCEPT ![q] = s]

\* A time-out, or a connection lost, of a call that would have succeeded.
Event == events < MaxEvents /\ events' = events + 1
Fault == Event
NoFault == UNCHANGED events

\* The attempt of session q goes on, changing nothing but its own state.
Goes(q, s) == Become(q, s) /\ UNCHANGED <<server, starting>>

To(s, phase) == [s EXCEPT !.att = phase]
ToAttach(s, p) == [s EXCEPT !.att = "attach", !.at = p]
ToJudge(s, reason, p, version) ==
    [s EXCEPT !.att = "judge", !.why = reason, !.at = p, !.seen = version]
Begun(s) == To(s, "probe")
Over(s) == [s EXCEPT !.att = "idle", !.why = "none", !.at = Base, !.seen = 0]

-----------------------------------------------------------------------------
(* ensureDaemonAttempt                                                     *)

\* probeAndMaybeReplace, up to killStaleDaemon.
Probe(q) ==
    LET s == ses[q] IN
    /\ s.up /\ s.att = "probe"
    /\ \/ /\ Ours(Base) /\ NoFault
          /\ Goes(q, IF VersionAt(Base) # Version[q]
                     THEN ToJudge(s, "stale", Base, VersionAt(Base))
                     ELSE IF Mismatch(q, Base)
                     THEN ToJudge(s, "transport", Base, VersionAt(Base))
                     ELSE ToAttach(s, Base))
       \/ ~Ours(Base) /\ NoFault /\ Goes(q, To(s, "spawn"))
       \/ Ours(Base) /\ Fault /\ Goes(q, To(s, "spawn"))
       \/ Ours(Base) /\ Fault /\ Goes(q, ToAttach(s, Base))    \* alive, then no health

\* killStaleDaemon has returned false or, of a freed port, true.
Spared(s) ==
    CASE s.why = "stale"     -> [s EXCEPT !.att = "spawn", !.why = "none", !.seen = 0]
      [] s.why = "transport" -> ToAttach(s, Base)
      [] s.why = "retry"     -> [s EXCEPT !.att = "recheck", !.seen = 0]
      [] s.why = "recover"   -> [s EXCEPT !.att = "probe", !.why = "none", !.at = Base, !.seen = 0]
Replaced(s) ==
    CASE s.why \in {"stale", "transport"} ->
            [s EXCEPT !.att = "spawn", !.why = "none", !.seen = 0]
      [] s.why = "retry"   -> [s EXCEPT !.att = "spawn", !.seen = 0]
      [] s.why = "recover" ->
            [s EXCEPT !.att = "probe", !.why = "none", !.at = Base, !.seen = 0]

\* trackBusyEdge.
Tracked(s, load) ==
    [s EXCEPT !.busy = IF load = "idle" THEN "no" ELSE IF @ = "no" THEN "since" ELSE @]

\* isStuckBusy: busy for five minutes and without a byte for one.
Stuck(s, load) == s.busy = "long" /\ load = "quiet"

\* Mutation: an equal or older version spared, a newer one replaced.
JudgeReversed(q) ==
    LET s == ses[q] IN
    /\ s.up /\ s.att = "judge"
    /\ \/ s.seen < Version[q] /\ NoFault /\ Goes(q, Spared(s))
       \/ s.seen >= Version[q] /\ Ours(s.at) /\ NoFault /\ Goes(q, [s EXCEPT !.att = "kill", !.seen = 0])
       \/ s.seen >= Version[q] /\ ~Ours(s.at) /\ NoFault /\ Goes(q, Spared(s))

\* shouldReplaceDaemon.
Judge(q) ==
    LET s == ses[q]
        t == Tracked(s, server[s.at].load) IN
    /\ s.up /\ s.att = "judge"
    /\ \/ s.seen > Version[q] /\ NoFault /\ Goes(q, Spared(s))
       \/ s.seen <= Version[q] /\ ~Ours(s.at) /\ NoFault /\ Goes(q, Spared(s))
       \/ s.seen <= Version[q] /\ Ours(s.at) /\ Fault /\ Goes(q, Spared(s))
       \/ /\ s.seen <= Version[q] /\ Ours(s.at) /\ NoFault
          /\ Goes(q, IF server[s.at].load = "idle" \/ Stuck(t, server[s.at].load)
                     THEN [t EXCEPT !.att = "kill", !.seen = 0] ELSE Spared(t))

\* Mutation: the holder is not asked who it is.
FreedBlindly(p) == [server EXCEPT ![p] = Free]

\* killPortHolder: whatever is ours or silent there by now is shut down, a
\* stranger that answers is not.
Freed(p) == IF server[p] # Alien THEN [server EXCEPT ![p] = Free] ELSE server

\* Of a silent holder the first process `lsof` lists is killed, which may be
\* another session with a connection to the port instead of the holder.
Gone(sv, q) == [p \in Ports |-> IF sv[p].kind = "inproc" /\ sv[p].by = q THEN Free ELSE sv[p]]
Dislodge(p, q, s) ==
    \/ server' = Freed(p) /\ Become(q, s)
    \/ \E other \in Sessions \ {q} :
          /\ server[p] = Hung /\ ses[other].up /\ ses[other].hb = p
          /\ server' = Gone(server, other)
          /\ ses' = [ses EXCEPT ![q] = s, ![other].up = FALSE]

\* killStaleDaemon after its decision; it polls whether the port still answers,
\* which neither a stranger nor a silent holder does.
Kill(q) ==
    LET s == ses[q] IN
    /\ s.up /\ s.att = "kill"
    /\ Dislodge(s.at, q, Replaced(s))
    /\ UNCHANGED <<starting, events>>

\* spawnDaemonProcess: throttled or failed, or a process.  The child has bound
\* a port or exited before its parent spawns the next one: waitForReady gives
\* it five seconds.
Spawn(q) ==
    LET s == ses[q] IN
    /\ s.up /\ s.att = "spawn"
    /\ \/ Fault /\ Goes(q, To(s, "bind"))
       \/ /\ q \notin starting
          /\ starting' = starting \cup {q}
          /\ Become(q, To(s, IF s.why = "retry" THEN "rewait" ELSE "wait"))
          /\ UNCHANGED <<server, events>>

\* waitForReady: the base port answers, and of a first spawn its version is
\* looked at; or the child has gone elsewhere or is slow.
Wait(q) ==
    LET s == ses[q]
        first == s.att = "wait" IN
    /\ s.up /\ s.att \in {"wait", "rewait"}
    /\ \/ /\ Ours(Base) /\ NoFault
          /\ Goes(q, IF first /\ VersionAt(Base) # Version[q]
                     THEN ToJudge(s, "retry", Base, VersionAt(Base))
                     ELSE ToAttach(s, Base))
       \/ /\ ~Ours(Base)
          /\ IF q \in starting THEN Fault ELSE NoFault
          /\ Goes(q, To(s, IF first THEN "reclaim" ELSE "bind"))

Recheck(q) ==
    LET s == ses[q] IN
    /\ s.up /\ s.att = "recheck"
    /\ \/ Ours(Base) /\ NoFault /\ Goes(q, ToAttach(s, Base))
       \/ ~Ours(Base) /\ NoFault /\ Goes(q, To(s, "bind"))
       \/ Ours(Base) /\ Fault /\ Goes(q, To(s, "bind"))

\* reclaimDarkHolder: a silent holder is dislodged, a stranger is not.
Reclaim(q) ==
    LET s == ses[q] IN
    /\ s.up /\ s.att = "reclaim"
    /\ \/ Ours(Base) /\ Goes(q, ToAttach(s, Base)) /\ NoFault
       \/ server[Base] = Free /\ Goes(q, To(s, "bind")) /\ NoFault
       \/ /\ ~Ours(Base) /\ server[Base] # Free
          /\ Dislodge(Base, q, To(s, "bind"))
          /\ UNCHANGED <<starting, events>>

-----------------------------------------------------------------------------
(* startProxy in process, and attachTo                                     *)

Binds(p, kind, q) == server' = [server EXCEPT ![p] = Holder(kind, q)]
NextFree == CHOOSE p \in FreeWalked : \A o \in FreeWalked : p <= o

\* The listen on the base port.
Bind(q) ==
    LET s == ses[q] IN
    /\ s.up /\ s.att = "bind"
    /\ \/ /\ server[Base] = Free
          /\ Binds(Base, "inproc", q)
          /\ Become(q, ToAttach(s, Base))
          /\ UNCHANGED starting
       \/ server[Base] # Free /\ Goes(q, To(s, "walk"))
    /\ NoFault

\* The base port is probed for three seconds, then the ports above are tried.
Walk(q) ==
    LET s == ses[q] IN
    /\ s.up /\ s.att = "walk"
    /\ \/ Ours(Base) /\ Goes(q, ToAttach(s, Base))
       \/ /\ ~Ours(Base) /\ FreeWalked # {}
          /\ Binds(NextFree, "inproc", q)
          /\ Become(q, [s EXCEPT !.att = "settle", !.at = NextFree])
          /\ UNCHANGED starting
       \/ ~Ours(Base) /\ FreeWalked = {} /\ Goes(q, Over(s))
    /\ NoFault

\* The walked-port guard.
Settle(q) ==
    LET s == ses[q] IN
    /\ s.up /\ s.att = "settle"
    /\ \/ /\ Ours(Base)
          /\ server' = [server EXCEPT ![s.at] = Free]
          /\ Become(q, ToAttach(s, Base))
          /\ UNCHANGED starting
       \/ ~Ours(Base) /\ Goes(q, ToAttach(s, s.at))
    /\ NoFault

\* attachTo: registered, answered by an older or another program, or gone,
\* in which case the timers stay as they were.
AttachTo(q, s, p) ==
    \/ /\ Ours(p) \/ server[p] = Alien
       /\ Become(q, [s EXCEPT !.hb = p]) /\ NoFault
    \/ server[p] \in {Free, Hung} /\ Become(q, s) /\ NoFault
    \/ Ours(p) /\ Become(q, s) /\ Fault

Attaches(q) ==
    /\ ses[q].up /\ ses[q].att = "attach"
    /\ AttachTo(q, Over(ses[q]), ses[q].at)
    /\ UNCHANGED <<server, starting>>

\* ensureInProcessFallback, which holds no latch.
SpareBinds(q) ==
    LET s == ses[q]
        p == IF server[Base] = Free THEN Base ELSE NextFree IN
    /\ s.up /\ s.spare
    /\ \/ Ours(Base) /\ AttachTo(q, [s EXCEPT !.spare = FALSE], Base) /\ UNCHANGED server
       \/ /\ ~Ours(Base) /\ (server[Base] = Free \/ FreeWalked # {})
          /\ Binds(p, "inproc", q)
          /\ Become(q, [s EXCEPT !.spare = FALSE, !.hb = p])
          /\ NoFault
       \/ /\ ~Ours(Base) /\ server[Base] # Free /\ FreeWalked = {}
          /\ Become(q, [s EXCEPT !.spare = FALSE])
          /\ NoFault /\ UNCHANGED server
    /\ UNCHANGED starting

-----------------------------------------------------------------------------
(* The timers of a session                                                 *)

Ticks(q) == ses[q].up /\ ses[q].att = "idle" /\ ses[q].hb # Off

\* beatOnce, of a daemon that is gone; one that does not know the session
\* registers it, and another program answers as a legacy daemon would.
Beat(q) ==
    LET s == ses[q]
        p == s.hb IN
    /\ Ticks(q)
    /\ \/ server[p] \in {Free, Hung} /\ Goes(q, Begun(s)) /\ NoFault
       \/ Ours(p) /\ Fault /\ Goes(q, Begun(s))

\* triggerRecovery, up to the backoff: failures older than five minutes are
\* forgotten; with the breaker's last one the session serves itself.
Recover(q, s) ==
    \/ /\ s.failures + 1 = Breaker
       /\ Fault
       /\ Goes(q, [s EXCEPT !.failures = Breaker, !.halted = TRUE, !.spare = TRUE])
    \/ \E n \in 1..(s.failures + 1) :
          /\ n < Breaker
          /\ NoFault
          /\ Goes(q, [s EXCEPT !.failures = n, !.att = "backoff", !.at = s.hb, !.hb = Off])

Outdated(q, p) == VersionAt(p) < Version[q]

\* watchdogCheck; of a health that is not there it asks twice.
Watchdog(q) ==
    LET s == ses[q]
        p == s.hb
        t == Tracked(s, server[p].load) IN
    /\ Ticks(q) /\ ~s.halted
    /\ \/ ~Ours(p) /\ Recover(q, Tracked(s, "idle"))
       \/ /\ Ours(p) /\ ~Outdated(q, p) /\ ~server[p].degraded
          /\ NoFault /\ Goes(q, [t EXCEPT !.failures = 0])
       \/ /\ Ours(p) /\ (Outdated(q, p) \/ server[p].degraded)
          /\ IF server[p].load = "idle" \/ Stuck(t, server[p].load)
             THEN Recover(q, t)
             ELSE NoFault /\ Goes(q, t)

\* triggerRecovery, after the backoff.
BackoffEnds(q) ==
    LET s == ses[q]
        p == s.at
        t == Tracked(s, server[p].load) IN
    /\ s.up /\ s.att = "backoff"
    /\ \/ /\ Ours(p) /\ NoFault
          /\ Goes(q, IF server[p].load = "idle" \/ Stuck(t, server[p].load)
                     THEN ToJudge(s, "recover", p, VersionAt(p))
                     ELSE ToAttach(t, p))
       \/ ~Ours(p) /\ NoFault /\ Goes(q, ToJudge(s, "recover", p, Version[q]))
       \/ Ours(p) /\ Fault /\ Goes(q, ToJudge(s, "recover", p, Version[q]))

HaltEnds(q) ==
    /\ ses[q].up /\ ses[q].halted
    /\ Goes(q, [ses[q] EXCEPT !.halted = FALSE, !.failures = 0])
    /\ NoFault

BusyAges(q) ==
    /\ ses[q].up /\ ses[q].busy = "since"
    /\ Goes(q, [ses[q] EXCEPT !.busy = "long"])
    /\ NoFault

-----------------------------------------------------------------------------
(* Sessions, daemons and requests                                          *)

\* model_select and ensureProxyReady; a call during an attempt shares it.
Call(q) ==
    /\ ses[q].up /\ ses[q].att = "idle" /\ Event
    /\ Become(q, Begun(ses[q]))
    /\ UNCHANGED <<server, starting>>

\* stopHeartbeat as the process exits: it detaches, and its servers are gone.
SessionExits(q) ==
    LET s == ses[q] IN
    /\ s.up
    /\ server' = Gone(server, q)
    /\ Become(q, [s EXCEPT !.up = FALSE])
    /\ UNCHANGED <<starting, events>>

\* runDaemon: bound to the first port it can have, or exited.
DaemonStarts(q) ==
    /\ q \in starting
    /\ starting' = starting \ {q}
    /\ \/ server[Base] = Free /\ Binds(Base, "daemon", q)
       \/ Ours(Base) /\ UNCHANGED server
       \/ /\ server[Base] # Free /\ ~Ours(Base)
          /\ IF FreeWalked = {} THEN UNCHANGED server ELSE Binds(NextFree, "daemon", q)
    /\ UNCHANGED <<ses, events>>

\* startLeaseGC: no lease for a window of grace, and nothing in flight; whoever
\* beats there or is about to attach has come back within that window, but a
\* session backing off for up to a minute has not.
DaemonRetires(p) ==
    /\ server[p].kind = "daemon" /\ server[p].load = "idle"
    /\ \A q \in Sessions : ses[q].up =>
          /\ ses[q].hb # p
          /\ ses[q].att \in {"idle", "backoff"} \/ p # Base
    /\ server' = [server EXCEPT ![p] = Free]
    /\ UNCHANGED <<starting, ses, events>>

Request(p, from, to) ==
    /\ Ours(p) /\ server[p].load = from
    /\ server' = [server EXCEPT ![p].load = to]
    /\ UNCHANGED <<starting, ses>>

RequestBegins(p) ==
    /\ \E q \in Sessions : ses[q].up /\ ses[q].hb = p
    /\ Event
    /\ Request(p, "idle", "flowing")
RequestQuiets(p) == Request(p, "flowing", "quiet") /\ NoFault
RequestEnds(p) == (\E l \in Loads \ {"idle"} : Request(p, l, "idle")) /\ NoFault

Breaks(p, holder) ==
    /\ server' = [server EXCEPT ![p] = holder]
    /\ Fault
    /\ UNCHANGED <<starting, ses>>
Crash(p) == (server[p].kind = "daemon" \/ server[p] = Hung) /\ Breaks(p, Free)
Hang(p) == server[p].kind = "daemon" /\ Breaks(p, Hung)
Degrade(p) == Ours(p) /\ ~server[p].degraded /\ Breaks(p, [server[p] EXCEPT !.degraded = TRUE])

Attempt(q) ==
    \/ Probe(q) \/ Judge(q) \/ Kill(q) \/ Spawn(q) \/ Wait(q)
    \/ Recheck(q) \/ Reclaim(q) \/ Bind(q) \/ Walk(q)
    \/ Settle(q) \/ Attaches(q) \/ BackoffEnds(q)

LifeNext ==
    \/ \E q \in Sessions :
          \/ Attempt(q) \/ SpareBinds(q) \/ Beat(q) \/ Watchdog(q) \/ HaltEnds(q)
          \/ BusyAges(q) \/ Call(q) \/ SessionExits(q) \/ DaemonStarts(q)
    \/ \E p \in Ports :
          \/ DaemonRetires(p) \/ RequestBegins(p) \/ RequestQuiets(p)
          \/ RequestEnds(p) \/ Crash(p) \/ Hang(p) \/ Degrade(p)

LifeSpec == LifeInit /\ [][LifeNext]_lifeVars

\* Every await of an attempt returns, every timer fires, every child starts.
LifeFairSpec ==
    /\ LifeSpec
    /\ \A q \in Sessions :
          /\ WF_lifeVars(Attempt(q)) /\ WF_lifeVars(SpareBinds(q))
          /\ WF_lifeVars(Beat(q)) /\ WF_lifeVars(Watchdog(q)) /\ WF_lifeVars(HaltEnds(q))
          /\ WF_lifeVars(DaemonStarts(q))

-----------------------------------------------------------------------------
(* Properties                                                              *)

Attended(q) == ses[q].hb # Off /\ Ours(ses[q].hb)
Unattended(q) == ses[q].hb = Off /\ ses[q].att = "idle"

\* A session alone, after whatever faults and other sessions left behind, comes
\* to beat at a server that answers, and stays there, and that server is
\* neither older than it nor degraded unless a request is in flight; or it
\* has no timers until its next call.  (Two sessions may disturb each other
\* for ever, and so may a degraded daemon newer than the session, which it
\* recovers from and may not replace: see MCDaemonLifecycle.)
Settled(q) ==
    \/ Unattended(q)
    \/ /\ Attended(q)
       /\ \/ server[ses[q].hb].load # "idle"
          \/ ~Outdated(q, ses[q].hb) /\ ~server[ses[q].hb].degraded
Irreplaceable(q) ==
    \E p \in Ports : Ours(p) /\ server[p].degraded /\ VersionAt(p) > Version[q]
Up == {q \in Sessions : ses[q].up}
LoneSessionSettles ==
    <>[](Cardinality(Up) = 1) =>
        <>[](\A q \in Up : Settled(q) \/ Irreplaceable(q))

\* Whatever is killed by port, a program that answers as another than this
\* proxy is not.
StrangerSpared == [][\A p \in Ports : server[p] = Alien => server'[p] = Alien]_lifeVars

=============================================================================
