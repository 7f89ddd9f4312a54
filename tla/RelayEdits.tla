----------------------------- MODULE RelayEdits -----------------------------
(***************************************************************************)
(* RelayStore with the history that tells which edits have been reported   *)
(* to a user, and in which ways a process has saved main without the lock. *)
(***************************************************************************)
EXTENDS RelayStore

VARIABLES
    adding,    \* the relay the add command under way in a process adds
    added,     \* relays whose add command has reported success
    dropped,   \* relays a remove command was issued for
    bypassed   \* ways in which some process went on to save without the lock

hist == <<adding, added, dropped, bypassed>>

\* recoverFromBackup has found a pool and goes on to save it over main.
Recovering(p) == pc[p] = "readBak" /\ pc'[p] = "backupRead" /\ healing'[p]

HistInit ==
    /\ Init
    /\ adding = [p \in Procs |-> NoRelay]
    /\ added = {}
    /\ dropped = {}
    /\ bypassed = {}

HistNext ==
    /\ adding' = [p \in Procs |->
           IF job'[p].kind = "add" THEN job'[p].relay
           ELSE IF pc'[p] \in {"idle", "dead"} THEN NoRelay ELSE adding[p]]
    /\ added' = added \cup ({adding[p] : p \in {q \in Procs : Publish(q)}} \ {NoRelay})
    /\ dropped' = dropped \cup {job'[p].relay : p \in {q \in Procs : job'[q].kind = "remove"}}
    /\ bypassed' = bypassed
           \cup {"held" : p \in {q \in Procs : pc[q] = "lockStat" /\ pc'[q] = "readMain"}}
           \cup {"menu" : p \in {q \in Procs : BeginMenu(q)}}
           \cup {"recovery" : p \in {q \in Procs : Recovering(q) /\ ~locked[q]}}

HistSpec == HistInit /\ [][Next /\ HistNext]_<<vars, hist>>

AddsKept == \A r \in added \ dropped : r \in main.relays

\* As long as no process saves without the lock and no file is damaged, the
\* lock is enough: an add that reported success is never undone by another
\* session's edit, computed from a pool it read earlier (src/relay-state.ts,
\* withRelayState).  A process that only looks at an emptied pool saves too:
\* loadRelayState restores the backup over main, and takes no lock for it.
LockedAddsKept == bypassed = {} /\ faults = 0 => AddsKept
=============================================================================
