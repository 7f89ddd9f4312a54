---------------------------- MODULE UpdatesFloor ----------------------------
(***************************************************************************)
(* Updates, and what an update that is over promises of every daemon that  *)
(* comes after it.                                                         *)
(***************************************************************************)
EXTENDS Updates

VARIABLE floor    \* the oldest version the daemon may have after an update

floorVars == <<vars, floor>>

FloorInit == Init /\ floor = 0

\* An update that is over has the daemon replaced, unless it could not be killed or
\* another was being started meanwhile.
FloorNext ==
    /\ Next
    /\ floor' = IF /\ \E s \in Sessions : Kill(s)
                   /\ code'[Daemon] = 0 /\ child = [s \in Sessions |-> NoChild]
                THEN package ELSE floor

FloorSpec == FloorInit /\ [][FloorNext]_floorVars

-----------------------------------------------------------------------------
\* Once an update has restarted the daemon, no session brings an older one back,
\* from whatever copy it starts it (src/updater.ts, performAutoUpdate;
\* src/client-staging.ts, materializeDaemonSources).
DaemonCurrent == Runs(Daemon) => code[Daemon] >= floor
=============================================================================
