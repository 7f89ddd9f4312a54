------------------------- MODULE MCDaemonLifecycle -------------------------
(***************************************************************************)
(* An older and a newer session for TLC, and what comments promise of two  *)
(* sessions that the code does not keep.                                   *)
(***************************************************************************)
EXTENDS DaemonLifecycle

MCVersion == [q \in Sessions |-> IF q = 1 THEN 1 ELSE 2]

-----------------------------------------------------------------------------
(* What comments promise, and the code does not keep                       *)

Taken(p, q) == Ours(p) /\ ses[q].att \in {"kill", "reclaim"} /\ ses[q].at = p
               /\ server'[p] = Free /\ ses'[q].att # ses[q].att

\* src/client-recovery.ts:199, a daemon is replaced "when the daemon is stale or
\* degraded": after its backoff triggerRecovery also decides to replace the
\* healthy one of the same version that another session has started meanwhile.
HealthyNotReplaced ==
    [][\A q \in Sessions :
          ses[q].att = "judge" /\ ses[q].why = "recover" /\ ses'[q].att = "kill" =>
              Outdated(q, ses[q].at) \/ server[ses[q].at].degraded]_lifeVars

\* README.md:341, "sessions with in-flight requests are never interrupted": the
\* request may begin after the health that showed the daemon idle.
NeverInterrupted ==
    [][\A q \in Sessions, p \in Ports : Taken(p, q) => server[p].load # "flowing"]_lifeVars

\* src/client.ts:318, a newer daemon is "left running": the one whose version
\* was read may have been replaced by a newer one before the kill.
NewerLeftRunning ==
    [][\A q \in Sessions, p \in Ports : Taken(p, q) => VersionAt(p) <= Version[q]]_lifeVars

\* src/client.ts:757, "never hand the caller a port we did not attach to (no
\* lease, no heartbeat)": attachTo returns without timers when the daemon went
\* away meanwhile, and a failed bind returns the base port.
NeverStranded == \A q \in Sessions : ses[q].up => ~Unattended(q)

\* src/proxy-ports.ts:239, only "a holder that claims (or cannot deny) being
\* this daemon may be dislodged": `lsof` also lists the processes connected to
\* the port, and the first one listed is killed.
SessionsNotKilled ==
    [][\A q \in Up : ~ses'[q].up => ses'[q] = [ses[q] EXCEPT !.up = FALSE]
          /\ \A o \in Sessions \ {q} : ses'[o] = ses[o]]_lifeVars

\* src/client-recovery.ts:117, a daemon is not recovered from that may not be
\* replaced: a degraded newer one is, again and again.  And two sessions may
\* replace each other's daemon for ever.
Settles == <>[](\A q \in Up : Settled(q))
=============================================================================
