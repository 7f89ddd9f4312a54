---------------------------- MODULE MCRelayStore ----------------------------
(***************************************************************************)
(* RelayEdits for TLC, and what the comments of src/relay-state.ts say of  *)
(* the files the processes share.                                          *)
(***************************************************************************)
EXTENDS RelayEdits

FairHistSpec == HistSpec /\ \A p \in Procs : WF_vars(Step(p))

-----------------------------------------------------------------------------
(* What comments promise, and the code does not keep                       *)

\* "the operation is re-applied to the freshest on-disk state at write time,
\* so concurrent sessions cannot silently clobber each other's edits"
\* (src/relay-state.ts, withRelayState): an added relay nobody removed stays,
\* when every edit goes through withRelayState.
EditsNotClobbered == "menu" \notin bypassed => AddsKept

\* "Reloads from disk only when another process changed the state file (mtime
\* moved), so cross-session relay-pool updates propagate to workers"
\* (src/relay-state.ts, getOrderedRelayUrls): a process at rest that sees no
\* newer mtime has the pool that is on disk.
UpdatesPropagate ==
    \A p \in Procs : pc[p] = "idle" /\ synced[p] => cache[p] = Parse(main)

\* "Only a lock older than LOCK_STALE_MS is taken over; a fresh lock means a
\* concurrent writer is active right now" (src/relay-state.ts,
\* tryAcquireRelayLock).
OnlyStaleTakenOver == [][\A p \in Procs : TakeOverLock(p) => lock # "fresh"]_vars

\* "Backs up the current non-empty state to .bak before overwriting so a
\* corrupt or empty save can always be recovered by loadRelayState"
\* (src/relay-state.ts, saveRelayState): after one fault a file can be loaded,
\* or the backup is about to be completed.
FilesRecoverable ==
    faults <= 1 /\ ~emptied =>
        \/ Usable(main) \/ Usable(bak)
        \/ \E p \in Procs : pc[p] = "backupWrite" /\ Usable(cur[p])

\* "a removed sticky primary falls back to the first remaining relay instead of
\* pointing at a relay that no longer exists" (src/relay-state.ts,
\* removeRelay): the saved primary is always a saved relay.
StickyInPool == Usable(main) => main.url \in main.relays
=============================================================================
