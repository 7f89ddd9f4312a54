---------------------------- MODULE LeaseRegistry ----------------------------
(***************************************************************************)
(* The lease registry of one proxy daemon: src/lease.ts, the control       *)
(* endpoints of src/proxy.ts that drive it, and the retirement of          *)
(* src/daemon.ts.  Sessions attach, renew and detach; a periodic sweep     *)
(* drops leases older than the TTL and retires the daemon once no lease    *)
(* has been seen for the grace window with nothing in flight.              *)
(*                                                                         *)
(* The code stores timestamps and only ever compares their distance to     *)
(* Date.now() with a limit, so the model keeps the distances themselves,   *)
(* saturated just above the limit they are compared with.  This keeps the  *)
(* state space finite without a bound on time.                             *)
(***************************************************************************)
EXTENDS Integers, FiniteSets

CONSTANTS
    Clients,     \* the session ids that may attach
    MaxClients,  \* MAX_CLIENTS
    Ttl,         \* DAEMON_TTL_MS, in ticks
    Gc,          \* DAEMON_GC_MS, in ticks
    GcSlack,     \* ticks by which the event loop may run a sweep late
    Grace,       \* DAEMON_GRACE_MS, in ticks
    MaxActive    \* bound: proxied requests in flight

ASSUME LeaseAssumption ==
    /\ IsFiniteSet(Clients)
    /\ MaxClients \in Nat \ {0}
    /\ Ttl \in Nat \ {0}
    /\ Gc \in Nat \ {0}
    /\ GcSlack \in Nat
    /\ Grace \in Nat \ {0}
    /\ MaxActive \in Nat

VARIABLES
    leases,     \* keys of the `leases` map
    age,        \* ticks since the lease of a session was last set
    reply,      \* last answer of the control endpoint to a session
    emptyFor,   \* ticks since `emptySince` was set, Unset for null
    gcElapsed,  \* ticks since the last sweep
    active,     \* activeRequests
    phase,      \* of the daemon process
    up,         \* sessions whose process runs
    upFor       \* history: ticks since the daemon bound its port

regVars == <<leases, age, reply, emptyFor>>
vars == <<leases, age, reply, emptyFor, gcElapsed, active, phase, up, upFor>>

Unset == -1
Replies == {"none", "ok", "unknown", "full"}
\* Saturating clock: n advances until it passes the limit it is compared with.
Advance(n, limit) == IF n < limit THEN n + 1 ELSE n

TypeOK ==
    /\ leases \in SUBSET Clients
    /\ age \in [Clients -> 0..(Ttl + 1)]
    /\ reply \in [Clients -> Replies]
    /\ emptyFor \in -1..Grace
    /\ gcElapsed \in 0..(Gc + GcSlack)
    /\ active \in 0..MaxActive
    /\ phase \in {"serving", "closing", "exited"}
    /\ up \in SUBSET Clients
    /\ upFor \in 0..(Gc + Grace)

Init ==
    /\ leases = {}
    /\ age = [c \in Clients |-> 0]
    /\ reply = [c \in Clients |-> "none"]
    /\ emptyFor = Unset
    /\ gcElapsed = 0
    /\ active = 0
    /\ phase = "serving"
    /\ up = Clients
    /\ upFor = 0

Alive == phase # "exited"

-----------------------------------------------------------------------------
(* Control endpoints                                                       *)

SetLease(c) ==
    /\ leases' = leases \cup {c}
    /\ age' = [age EXCEPT ![c] = 0]
    /\ reply' = [reply EXCEPT ![c] = "ok"]

\* registerClient: a known id never meets the cap, a new one does.
IsFull(c) == c \notin leases /\ Cardinality(leases) >= MaxClients

Attach(c) ==
    /\ Alive /\ c \in up
    /\ \/ ~IsFull(c) /\ SetLease(c)
       \/ /\ IsFull(c)
          /\ reply' = [reply EXCEPT ![c] = "full"]
          /\ UNCHANGED <<leases, age>>
    /\ UNCHANGED <<emptyFor, gcElapsed, active, phase, up, upFor>>

\* renewClient: only a known id is renewed, an unknown one is told so.
Heartbeat(c) ==
    /\ Alive /\ c \in up
    /\ \/ c \in leases /\ SetLease(c)
       \/ /\ c \notin leases
          /\ reply' = [reply EXCEPT ![c] = "unknown"]
          /\ UNCHANGED <<leases, age>>
    /\ UNCHANGED <<emptyFor, gcElapsed, active, phase, up, upFor>>

Detach(c) ==
    /\ Alive /\ c \in up
    /\ leases' = leases \ {c}
    /\ reply' = [reply EXCEPT ![c] = "none"]
    /\ UNCHANGED <<age, emptyFor, gcElapsed, active, phase, up, upFor>>

\* POST /_shutdown answers, then closes the server and exits 50ms later,
\* whatever is still in flight.
Shutdown ==
    /\ phase = "serving"
    /\ phase' = "closing"
    /\ UNCHANGED <<regVars, gcElapsed, active, up, upFor>>

\* The 50ms timer of /_shutdown, or retire() on a signal.
Exit ==
    /\ Alive
    /\ phase' = "exited"
    /\ UNCHANGED <<regVars, gcElapsed, active, up, upFor>>

-----------------------------------------------------------------------------
(* Proxied requests: counted from acceptance to the close of the response  *)

BeginRequest ==
    /\ Alive /\ up # {} /\ active < MaxActive
    /\ active' = active + 1
    /\ UNCHANGED <<regVars, gcElapsed, phase, up, upFor>>

EndRequest ==
    /\ Alive /\ active > 0
    /\ active' = active - 1
    /\ UNCHANGED <<regVars, gcElapsed, phase, up, upFor>>

-----------------------------------------------------------------------------
(* The sweep of startLeaseGC                                               *)

\* Mutations: a lease pruned a tick early, and never.
UnexpiredStrict == {c \in leases : age[c] < Ttl}
UnexpiredForever == leases

Unexpired == {c \in leases : age[c] <= Ttl}

\* Some lease survives the pruning.
SweepOccupied ==
    /\ Unexpired # {}
    /\ emptyFor' = Unset
    /\ UNCHANGED phase

\* The first sweep to find the registry empty only notes it.
SweepFirstEmpty ==
    /\ Unexpired = {} /\ emptyFor = Unset
    /\ emptyFor' = 0
    /\ UNCHANGED phase

\* Mutations: requests in flight, or the grace window, not looked at.
MayRetireMidStream == emptyFor >= Grace
MayRetireAtOnce == active = 0 /\ emptyFor # Unset

MayRetire == active = 0 /\ emptyFor >= Grace

SweepStillEmpty ==
    /\ Unexpired = {} /\ emptyFor # Unset
    /\ \/ MayRetire /\ phase' = "exited"
       \/ ~MayRetire /\ UNCHANGED phase
    /\ UNCHANGED emptyFor

Sweep ==
    /\ Alive /\ gcElapsed >= Gc
    /\ leases' = Unexpired
    /\ \/ SweepOccupied
       \/ SweepFirstEmpty
       \/ SweepStillEmpty
    /\ gcElapsed' = 0
    /\ UNCHANGED <<age, reply, active, up, upFor>>

-----------------------------------------------------------------------------
(* Time and the sessions' processes                                        *)

Tick ==
    /\ Alive /\ gcElapsed < Gc + GcSlack
    /\ gcElapsed' = gcElapsed + 1
    /\ age' = [c \in Clients |-> Advance(age[c], Ttl + 1)]
    /\ emptyFor' = IF emptyFor = Unset THEN Unset ELSE Advance(emptyFor, Grace)
    /\ upFor' = Advance(upFor, Gc + Grace)
    /\ UNCHANGED <<leases, reply, active, phase, up>>

\* A session ends without detaching: its heartbeat simply stops.
SessionEnds(c) ==
    /\ Alive /\ c \in up
    /\ up' = up \ {c}
    /\ UNCHANGED <<regVars, gcElapsed, active, phase, upFor>>

Next ==
    \/ \E c \in Clients : Attach(c) \/ Heartbeat(c) \/ Detach(c) \/ SessionEnds(c)
    \/ Shutdown \/ Exit
    \/ BeginRequest \/ EndRequest
    \/ Sweep \/ Tick

Spec == Init /\ [][Next]_vars

\* The interval timer keeps firing and every proxied response closes in the
\* end (the header deadline and the body-stall cut bound it).
FairSpec == Spec /\ WF_vars(Tick) /\ WF_vars(Sweep) /\ WF_vars(EndRequest)

-----------------------------------------------------------------------------
(* The inductive invariant: what links the registry's clocks to each other *)

\* The empty window is counted from a sweep, and no sweep precedes upFor = Gc.
ClockInv ==
    /\ emptyFor # Unset => upFor >= Gc + emptyFor
    /\ gcElapsed <= upFor \/ upFor >= Gc

-----------------------------------------------------------------------------
(* Properties                                                              *)

\* registerClient: however attaches, renewals and sweeps interleave, the
\* snapshot /_health publishes never outgrows MAX_CLIENTS.
CapRespected == Cardinality(leases) <= MaxClients

\* A session the daemon told "ok" less than a TTL ago, and that has not
\* detached since, is still registered: no sweep, and no other session at the
\* cap, takes a live lease away (src/lease.ts, sweep and registerClient).
AckedLeaseHeld ==
    \A c \in Clients : reply[c] = "ok" /\ age[c] <= Ttl => c \in leases

IdleRetire == phase' = "exited" /\ Sweep

\* Retirement by the sweep abandons nobody: every session ever acknowledged
\* has detached or been silent for more than a TTL, and nothing is in flight
\* ("daemon never exits mid-stream", src/lease.ts).
RetireAbandonsNobody ==
    [][IdleRetire => /\ active = 0
                     /\ \A c \in Clients : reply[c] = "ok" => age[c] > Ttl]_vars

\* A fresh spawn always survives its re-attach window: the sweep cannot retire
\* a daemon before one sweep interval and the whole grace window have passed
\* since it bound its port (src/daemon.ts, runDaemon).
FreshDaemonSurvives == [][IdleRetire => upFor >= Gc + Grace]_vars

\* Once no session process is left, the daemon goes away by itself, whatever
\* leases and requests they left behind.
OrphanDaemonExits == (up = {}) ~> (phase = "exited")
=============================================================================
