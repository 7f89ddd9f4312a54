----------------------------- MODULE RelayStore -----------------------------
(***************************************************************************)
(* The relay pool on disk: loading, saving, recovery from the backup, the  *)
(* lock of withRelayState and the mtime-checked cache of                   *)
(* src/relay-state.ts, as used by the sessions and the daemon that share   *)
(* one state directory.                                                    *)
(*                                                                         *)
(* Every file operation is one step, since the processes interleave        *)
(* between any two of them.  A state document is abstracted to the pool    *)
(* and the sticky primary, all that edits and recovery tell apart.         *)
(***************************************************************************)
EXTENDS Integers, FiniteSets

CONSTANTS
    Procs,      \* processes that share the state directory
    Relays,     \* relay urls
    Saved,      \* the pool the processes start from
    NoRelay,    \* the empty url
    Damaged,    \* content of a file that is torn or is not JSON
    Junk,       \* content of a file that lists entries, none of them a relay
    Missing,    \* content of a file that does not exist
    MaxEdits,   \* bound: edits begun, by all processes together
    MaxFaults   \* bound: crashes, damaged files and failed file operations

ASSUME RelayStoreAssumption ==
    /\ NoRelay \notin Relays
    /\ {Damaged, Junk, Missing}
           \cap [relays : SUBSET Relays, url : Relays \cup {NoRelay}] = {}
    /\ Junk \notin {Damaged, Missing}
    /\ Saved \subseteq Relays /\ Saved # {}
    /\ MaxEdits \in Nat
    /\ MaxFaults \in Nat

VARIABLES
    main,     \* RELAY_STATE_FILE
    bak,      \* RELAY_STATE_FILE.bak
    lock,     \* RELAY_STATE_FILE.lock: absent, fresh or older than LOCK_STALE_MS
    pc,       \* next file operation of each process
    job,      \* what the process is doing it for
    doc,      \* the state it loaded or is about to save
    cur,      \* the previous main it is about to back up
    healing,  \* the save under way is recoverFromBackup's
    locked,   \* it created the lock
    cache,    \* activeRelayState
    synced,   \* lastKnownStateMtimeMs is the mtime of main
    flight,   \* relay answering a request of this process, NoRelay for none
    edits,    \* edits begun
    faults,   \* faults so far
    emptied,  \* history: an edit has made an empty pool
    junked    \* history: main was left with entries that are no relays

files == <<main, bak, lock>>
bounds == <<edits, faults>>
past == <<emptied, junked>>
vars == <<files, pc, job, doc, cur, healing, locked, cache, synced, flight,
          bounds, past>>

Docs == [relays : SUBSET Relays, url : Relays \cup {NoRelay}]
Fresh == [relays |-> {}, url |-> NoRelay]
Kinds == {"add", "use", "remove", "keep", "stick"}
Jobs == [kind : Kinds, relay : Relays] \cup [kind : {"view", "boot"}, relay : {NoRelay}]
FirstOf(S) == IF S = {} THEN NoRelay ELSE CHOOSE r \in S : TRUE
NoJob == [kind |-> "view", relay |-> NoRelay]
PCs == {"idle", "lock", "lockStat", "lockRm", "readMain", "readBak", "backupRead",
        "backupOpen", "backupWrite", "rename", "publish", "unlock", "dead"}

TypeOK ==
    /\ main \in Docs \cup {Damaged, Junk, Missing}
    /\ bak \in Docs \cup {Damaged, Junk, Missing}
    /\ lock \in {"absent", "fresh", "stale"}
    /\ pc \in [Procs -> PCs]
    /\ job \in [Procs -> Jobs]
    /\ doc \in [Procs -> Docs]
    /\ cur \in [Procs -> Docs \cup {Junk}]
    /\ healing \in [Procs -> BOOLEAN]
    /\ locked \in [Procs -> BOOLEAN]
    /\ cache \in [Procs -> Docs]
    /\ synced \in [Procs -> BOOLEAN]
    /\ flight \in [Procs -> Relays \cup {NoRelay}]
    /\ edits \in 0..MaxEdits
    /\ faults \in 0..MaxFaults
    /\ emptied \in BOOLEAN
    /\ junked \in BOOLEAN

\* Some relays are saved, their backup is one edit behind, and every process
\* has just loaded them.
Init ==
    /\ main = [relays |-> Saved, url |-> FirstOf(Saved)]
    /\ bak = [relays |-> {main.url}, url |-> main.url]
    /\ lock = "absent"
    /\ pc = [p \in Procs |-> "idle"]
    /\ job = [p \in Procs |-> NoJob]
    /\ doc = [p \in Procs |-> Fresh]
    /\ cur = [p \in Procs |-> Fresh]
    /\ healing = [p \in Procs |-> FALSE]
    /\ locked = [p \in Procs |-> FALSE]
    /\ cache = [p \in Procs |-> main]
    /\ synced = [p \in Procs |-> TRUE]
    /\ flight = [p \in Procs |-> NoRelay]
    /\ edits = 0
    /\ faults = 0
    /\ emptied = FALSE
    /\ junked = FALSE

Goto(p, label) == pc' = [pc EXCEPT ![p] = label]

-----------------------------------------------------------------------------
(* The state document                                                      *)

\* parseRelayState: null for a damaged file, and for a pool that is empty once
\* the entries that are no relays are dropped.
Usable(f) == f \in Docs /\ f.relays # {}
Parse(f) == [f EXCEPT !.url = IF @ = NoRelay THEN FirstOf(f.relays) ELSE @]

\* The updaters the commands and relayFetch pass to withRelayState.  "keep"
\* stands for on, auto and spread, which re-ensure the sticky primary.
Removed(s, r) ==
    LET left == s.relays \ {r}
    IN  [relays |-> left, url |-> IF s.url = r THEN FirstOf(left) ELSE s.url]
Ensured(s, r) == [s EXCEPT !.relays = @ \cup {r}]
Apply(j, s) ==
    CASE j.kind = "add"    -> [Ensured(s, j.relay) EXCEPT !.url = j.relay]
      [] j.kind = "use"    -> IF j.relay \in s.relays THEN [s EXCEPT !.url = j.relay] ELSE s
      [] j.kind = "remove" -> Removed(s, j.relay)
      [] j.kind = "keep"   -> IF s.url = NoRelay THEN s ELSE Ensured(s, s.url)
      [] j.kind = "stick"  -> [s EXCEPT !.url = j.relay]

-----------------------------------------------------------------------------
(* Starting an operation                                                   *)

Begin(p, j, label) ==
    /\ pc[p] = "idle"
    /\ job' = [job EXCEPT ![p] = j]
    /\ Goto(p, label)

\* What the handlers check, in the state they hold in memory, before they
\* edit: a relay to remove is saved and not the active one.
Admissible(p, kind, r) ==
    CASE kind = "remove" -> r \in cache[p].relays /\ r # cache[p].url
      [] kind = "use"    -> r \in cache[p].relays
      [] kind = "keep"   -> r = FirstOf(Relays)  \* takes no relay
      [] OTHER           -> r \in Relays

\* A command: withRelayState.
BeginEdit(p) ==
    /\ edits < MaxEdits
    /\ \E kind \in {"add", "use", "remove", "keep"}, r \in Relays :
           /\ Admissible(p, kind, r)
           /\ Begin(p, [kind |-> kind, relay |-> r], "lock")
    /\ edits' = edits + 1
    /\ UNCHANGED <<files, doc, cur, healing, locked, cache, synced, flight, faults, past>>

\* The relay menu of index.ts edits the object it was handed and saves it as
\* it is, without the lock and without reloading it.
BeginMenu(p) ==
    /\ edits < MaxEdits
    /\ \E r \in cache[p].relays :
           /\ Begin(p, NoJob, "backupRead")
           /\ doc' = [doc EXCEPT ![p] = [cache[p] EXCEPT !.url = r]]
           /\ cache' = [cache EXCEPT ![p] = [cache[p] EXCEPT !.url = r]]
    /\ edits' = edits + 1
    /\ UNCHANGED <<files, cur, healing, locked, synced, flight, faults, past>>

\* relayFetch, its candidates up to date, sends a request through a relay that
\* is not the primary ...
BeginRequest(p) ==
    /\ pc[p] = "idle" /\ synced[p] /\ flight[p] = NoRelay
    /\ \E r \in cache[p].relays \ {cache[p].url} : flight' = [flight EXCEPT ![p] = r]
    /\ UNCHANGED <<files, pc, job, doc, cur, healing, locked, cache, synced, bounds, past>>

\* ... and, once it has been answered, makes that relay the primary.
BeginStick(p) ==
    /\ edits < MaxEdits /\ flight[p] # NoRelay
    /\ Begin(p, [kind |-> "stick", relay |-> flight[p]], "lock")
    /\ flight' = [flight EXCEPT ![p] = NoRelay]
    /\ edits' = edits + 1
    /\ UNCHANGED <<files, doc, cur, healing, locked, cache, synced, faults, past>>

\* getActiveRelayState, getOrderedRelayUrls: stat, and reload when it moved.
\* The mtime recorded is the one seen before the load.
BeginView(p) ==
    /\ ~synced[p]
    /\ Begin(p, NoJob, "readMain")
    /\ synced' = [synced EXCEPT ![p] = TRUE]
    /\ UNCHANGED <<files, doc, cur, healing, locked, cache, flight, bounds, past>>

-----------------------------------------------------------------------------
(* tryAcquireRelayLock                                                     *)

\* Mutation: the lock file created without the exclusive flag.
CreateLockLenient(p) ==
    /\ pc[p] = "lock"
    /\ lock' = "fresh"
    /\ locked' = [locked EXCEPT ![p] = TRUE]
    /\ Goto(p, "readMain")
    /\ UNCHANGED <<main, bak, job, doc, cur, healing, cache, synced, flight, bounds, past>>

\* The lock file can be neither created nor removed, which is ignored.
LockFault == faults < MaxFaults /\ faults' = faults + 1

\* A writer that cannot create the lock file proceeds without it.
CreateLock(p) ==
    /\ pc[p] = "lock"
    /\ \/ /\ lock = "absent"
          /\ lock' = "fresh"
          /\ locked' = [locked EXCEPT ![p] = TRUE]
          /\ Goto(p, "readMain")
          /\ UNCHANGED faults
       \/ /\ lock # "absent"
          /\ Goto(p, "lockStat")
          /\ UNCHANGED <<lock, locked, faults>>
       \/ LockFault /\ Goto(p, "readMain") /\ UNCHANGED <<lock, locked>>
    /\ UNCHANGED <<main, bak, job, doc, cur, healing, cache, synced, flight, edits, past>>

\* Mutations: a fresh lock taken over like a stale one, or waited for.
StatLockGreedy(p) ==
    /\ pc[p] = "lockStat"
    /\ Goto(p, IF lock = "absent" THEN "lock" ELSE "lockRm")
    /\ UNCHANGED <<files, job, doc, cur, healing, locked, cache, synced, flight, bounds, past>>
StatLockWaiting(p) ==
    /\ pc[p] = "lockStat"
    /\ Goto(p, IF lock = "stale" THEN "lockRm" ELSE "lock")
    /\ UNCHANGED <<files, job, doc, cur, healing, locked, cache, synced, flight, bounds, past>>

\* A vanished lock is retried, a stale one taken over, and a fresh one makes
\* the writer proceed without it.
StatLock(p) ==
    /\ pc[p] = "lockStat"
    /\ Goto(p, CASE lock = "absent" -> "lock"
                 [] lock = "stale"  -> "lockRm"
                 [] lock = "fresh"  -> "readMain")
    /\ UNCHANGED <<files, job, doc, cur, healing, locked, cache, synced, flight, bounds, past>>

\* A stale lock that cannot be removed makes the writer proceed without it.
TakeOverLock(p) ==
    /\ pc[p] = "lockRm"
    /\ \/ lock' = "absent" /\ Goto(p, "lock") /\ UNCHANGED faults
       \/ LockFault /\ Goto(p, "readMain") /\ UNCHANGED lock
    /\ UNCHANGED <<main, bak, job, doc, cur, healing, locked, cache, synced, flight,
                   edits, past>>

\* The lock of a crashed writer reaches LOCK_STALE_MS.  A live writer holds
\* its lock only through synchronous calls, far shorter than that.
AgeLock ==
    /\ lock = "fresh" /\ \A p \in Procs : ~locked[p]
    /\ lock' = "stale"
    /\ UNCHANGED <<main, bak, pc, job, doc, cur, healing, locked, cache, synced, flight,
                   bounds, past>>

-----------------------------------------------------------------------------
(* loadRelayState                                                          *)

\* The caller receives d: an edit applies its updater and goes on to save, a
\* view or a starting process takes d as its in-memory state.
Loaded(p, d) ==
    /\ healing' = [healing EXCEPT ![p] = FALSE]
    /\ job' = [job EXCEPT ![p] = NoJob]
    /\ \/ /\ job[p].kind = "view"
          /\ cache' = [cache EXCEPT ![p] = d]
          /\ doc' = [doc EXCEPT ![p] = Fresh]
          /\ Goto(p, "idle")
          /\ UNCHANGED emptied
       \/ /\ job[p].kind = "boot"
          /\ doc' = [doc EXCEPT ![p] = d]
          /\ Goto(p, "publish")
          /\ UNCHANGED <<cache, emptied>>
       \/ /\ job[p].kind \in Kinds
          /\ doc' = [doc EXCEPT ![p] = Apply(job[p], d)]
          /\ emptied' = (emptied \/ Apply(job[p], d).relays = {})
          /\ Goto(p, "backupRead")
          /\ UNCHANGED cache

ReadMain(p) ==
    /\ pc[p] = "readMain"
    /\ \/ Usable(main) /\ Loaded(p, Parse(main))
       \/ /\ ~Usable(main)
          /\ Goto(p, "readBak")
          /\ UNCHANGED <<doc, job, cache, healing, emptied>>
    /\ UNCHANGED <<files, cur, locked, synced, flight, bounds, junked>>

\* recoverFromBackup: what it finds is saved over main before it is returned.
ReadBak(p) ==
    /\ pc[p] = "readBak"
    /\ \/ /\ Usable(bak)
          /\ doc' = [doc EXCEPT ![p] = Parse(bak)]
          /\ healing' = [healing EXCEPT ![p] = TRUE]
          /\ Goto(p, "backupRead")
          /\ UNCHANGED <<job, cache, emptied>>
       \/ ~Usable(bak) /\ Loaded(p, Fresh)
    /\ UNCHANGED <<files, cur, locked, synced, flight, bounds, junked>>

-----------------------------------------------------------------------------
(* saveRelayState                                                          *)

\* Mutation: an empty pool backed up like any other.
WorthBackingUpAny(f) == f \in Docs \cup {Junk}

\* A main that lists anything is backed up, by the number of its entries:
\* whether one of them is a relay is not looked at.
WorthBackingUp(f) == f = Junk \/ (f \in Docs /\ f.relays # {})

ReadForBackup(p) ==
    /\ pc[p] = "backupRead"
    /\ \/ WorthBackingUp(main) /\ cur' = [cur EXCEPT ![p] = main] /\ Goto(p, "backupOpen")
       \/ ~WorthBackingUp(main) /\ Goto(p, "rename") /\ UNCHANGED cur
    /\ UNCHANGED <<files, job, doc, healing, locked, cache, synced, flight, bounds, past>>

\* The backup is written in place: opening it truncates it.
OpenBackup(p) ==
    /\ pc[p] = "backupOpen"
    /\ bak' = Damaged
    /\ Goto(p, "backupWrite")
    /\ UNCHANGED <<main, lock, job, doc, cur, healing, locked, cache, synced, flight,
                   bounds, past>>

WriteBackup(p) ==
    /\ pc[p] = "backupWrite"
    /\ \/ bak' = cur[p] /\ UNCHANGED faults
       \/ faults < MaxFaults /\ faults' = faults + 1 /\ bak' = Damaged
    /\ cur' = [cur EXCEPT ![p] = Fresh]
    /\ Goto(p, "rename")
    /\ UNCHANGED <<main, lock, job, doc, healing, locked, cache, synced, flight, edits, past>>

\* Main is replaced in one step (writeFileAtomic), so every recorded mtime is
\* out of date.
Replace(p) ==
    /\ main' = doc[p]
    /\ synced' = [q \in Procs |-> FALSE]
    /\ UNCHANGED faults

\* A failed write is logged and otherwise ignored.
WriteFails ==
    /\ faults < MaxFaults
    /\ faults' = faults + 1
    /\ UNCHANGED <<main, synced>>

Rename(p) ==
    /\ pc[p] = "rename"
    /\ Replace(p) \/ WriteFails
    /\ \/ healing[p] /\ Loaded(p, doc[p])
       \/ /\ ~healing[p]
          /\ Goto(p, "publish")
          /\ UNCHANGED <<doc, job, cache, healing, emptied>>
    /\ UNCHANGED <<bak, lock, cur, locked, flight, edits, junked>>

\* setActiveRelayState: adopt the state, then record the mtime main has now.
Publish(p) ==
    /\ pc[p] = "publish"
    /\ cache' = [cache EXCEPT ![p] = doc[p]]
    /\ synced' = [synced EXCEPT ![p] = TRUE]
    /\ doc' = [doc EXCEPT ![p] = Fresh]
    /\ Goto(p, IF locked[p] THEN "unlock" ELSE "idle")
    /\ UNCHANGED <<files, job, cur, healing, locked, flight, bounds, past>>

\* The lock file is removed by name, whoever created it.
Unlock(p) ==
    /\ pc[p] = "unlock"
    /\ \/ lock' = "absent" /\ UNCHANGED faults
       \/ LockFault /\ UNCHANGED lock
    /\ locked' = [locked EXCEPT ![p] = FALSE]
    /\ Goto(p, "idle")
    /\ UNCHANGED <<main, bak, job, doc, cur, healing, cache, synced, flight, edits, past>>

-----------------------------------------------------------------------------
(* Faults                                                                  *)

Crash(p) ==
    /\ pc[p] \notin {"idle", "dead"} /\ faults < MaxFaults
    /\ faults' = faults + 1
    /\ Goto(p, "dead")
    /\ doc' = [doc EXCEPT ![p] = Fresh]
    /\ cur' = [cur EXCEPT ![p] = Fresh]
    /\ healing' = [healing EXCEPT ![p] = FALSE]
    /\ locked' = [locked EXCEPT ![p] = FALSE]
    /\ flight' = [flight EXCEPT ![p] = NoRelay]
    /\ job' = [job EXCEPT ![p] = NoJob]
    /\ cache' = [cache EXCEPT ![p] = Fresh]
    /\ synced' = [synced EXCEPT ![p] = FALSE]
    /\ UNCHANGED <<files, edits, past>>

\* A new process loads the state, then records the mtime main has by then.
Restart(p) ==
    /\ pc[p] = "dead"
    /\ job' = [job EXCEPT ![p] = [kind |-> "boot", relay |-> NoRelay]]
    /\ Goto(p, "readMain")
    /\ UNCHANGED <<files, doc, cur, healing, locked, cache, synced, flight, bounds, past>>

\* Something else deletes or garbles main, or leaves it with an empty pool or
\* with entries that are no relays (an edit by hand, an older version).
DamageMain ==
    /\ faults < MaxFaults
    /\ faults' = faults + 1
    /\ main' \in {Damaged, Junk, Missing, Fresh}
    /\ junked' = (junked \/ main' = Junk)
    /\ synced' = [q \in Procs |-> FALSE]
    /\ UNCHANGED <<bak, lock, pc, job, doc, cur, healing, locked, cache, flight, edits, emptied>>

-----------------------------------------------------------------------------
LockStep(p) == CreateLock(p) \/ StatLock(p) \/ TakeOverLock(p) \/ Unlock(p)
LoadStep(p) == ReadMain(p) \/ ReadBak(p)
SaveStep(p) == ReadForBackup(p) \/ OpenBackup(p) \/ WriteBackup(p) \/ Rename(p) \/ Publish(p)
\* One file operation of a process that is in the middle of something.
Step(p) == LockStep(p) \/ LoadStep(p) \/ SaveStep(p)

Next ==
    \/ \E p \in Procs : \/ BeginEdit(p) \/ BeginMenu(p) \/ BeginRequest(p)
                        \/ BeginStick(p) \/ BeginView(p)
                        \/ Step(p)
                        \/ Crash(p) \/ Restart(p)
    \/ AgeLock
    \/ DamageMain

Spec == Init /\ [][Next]_vars

\* An operation is a run of synchronous calls: the process executes them one
\* after the other unless it dies.
FairSpec == Spec /\ \A p \in Procs : WF_vars(Step(p))

-----------------------------------------------------------------------------
(* Properties                                                              *)

\* Before any fault, the lock is a lock: two writers that both hold it never
\* coexist, although a third may be writing without it, and although the
\* release removes the file by name (src/relay-state.ts, tryAcquireRelayLock).
LockExclusive ==
    faults = 0 => \A p, q \in Procs : locked[p] /\ locked[q] => p = q

\* After one fault there is a pool to load, however the processes interleave and
\* unless an edit emptied it: main or its backup can be loaded, or a writer is
\* about to complete the backup (src/relay-state.ts, saveRelayState).  One case
\* is worse: a main whose entries are no relays cannot be loaded, yet the next
\* save, the recovery's own included, copies it over the good backup.  The pool
\* is then left to the memory of the writers until one of them replaces main,
\* and who reads in between finds none (FilesRecoverable of MCRelayStore).
PoolRecoverable ==
    faults <= 1 /\ ~emptied =>
        \/ Usable(main) \/ Usable(bak)
        \/ \E p \in Procs : pc[p] = "backupWrite" /\ Usable(cur[p])
        \/ junked /\ \E p \in Procs : pc[p] \in {"backupWrite", "rename"} /\ Usable(doc[p])

\* No process waits for another's lock: an edit comes to its end even when
\* the lock holder died ("Never spins here", withRelayState).
EditsFinish == \A p \in Procs : (pc[p] = "lock") ~> (pc[p] \in {"idle", "dead"})
=============================================================================
