------------------------------ MODULE Updates ------------------------------
(***************************************************************************)
(* New versions (src/update-checker.ts, src/updater.ts,                    *)
(* src/update-core.ts, /freeflow update): a session finds one on the       *)
(* registry, installs it with whatever manager there is and kills the      *)
(* daemon, and whichever session misses the daemon starts the next one     *)
(* from a copy of the package, staged by version (src/client-staging.ts).  *)
(*                                                                         *)
(* How sessions find and lose the daemon is DaemonLifecycle's subject;     *)
(* here it is down, or being started, or up with the code it was started   *)
(* with, next to sessions with theirs, which share the cache of Catalog.   *)
(***************************************************************************)
EXTENDS Catalog

CONSTANTS
    Sessions,    \* host sessions
    Daemon,      \* the daemon
    MaxChecks    \* bound: checks and commands

ASSUME UpdatesAssumption == Procs = Sessions \cup {Daemon} /\ Daemon \notin Sessions

VARIABLES
    published,   \* the latest version on the registry
    package,     \* the version installed
    known,       \* UPDATE_CACHE_FILE
    job,         \* the update each session is at
    staged,      \* the version whose code is staged under each version's name
    child,       \* the start of a daemon each session is at
    checks

updateVars == <<published, package, known, job, staged, child, checks>>
vars == <<catalogVars, updateVars>>

Nothing == [version |-> 0, fresh |-> FALSE]
NoJob == [phase |-> "idle", hosts |-> 0, global |-> FALSE]
NoChild == [phase |-> "none", version |-> 0]

UpdatesTypeOK ==
    /\ published \in Versions /\ package \in Versions
    /\ known \in [version : Versions \cup {0}, fresh : BOOLEAN]
    /\ job \in [Sessions ->
           [phase : {"idle", "check", "auto", "command", "probe", "host", "global", "kill"},
            hosts : 0..2, global : BOOLEAN]]
    /\ staged \in [Versions -> Versions \cup {0}]
    /\ child \in [Sessions -> [phase : {"none", "staging", "boot"}, version : Versions \cup {0}]]

Init ==
    /\ CatalogInit
    /\ published = First
    /\ package = First
    /\ known \in {Nothing, [version |-> First, fresh |-> FALSE]}
    /\ job = [s \in Sessions |-> NoJob]
    /\ staged = [v \in Versions |-> 0]
    /\ child = [s \in Sessions |-> NoChild]
    /\ checks = 0

Runs(p) == code[p] # 0
JobAt(s, phase) == job[s].phase = phase
Becomes(s, phase) == job' = [job EXCEPT ![s].phase = phase]
GivesUp(s) == job' = [job EXCEPT ![s] = NoJob]

-----------------------------------------------------------------------------
(* The check and the install                                               *)

Begin(s, phase) ==
    /\ Runs(s) /\ JobAt(s, "idle") /\ checks < MaxChecks
    /\ checks' = checks + 1
    /\ Becomes(s, phase)
    /\ UNCHANGED <<catalogVars, published, package, known, staged, child>>

\* checkForUpdateInBackground, at the start of a session
CheckForUpdate(s) == ~known.fresh /\ Begin(s, "check")
\* /freeflow update
UpdateCommand(s) == Begin(s, "command")

\* fetchLatestVersion answers the check: that is remembered for a day before
\* anything is installed; without auto-update the user is only told.
Latest(s) ==
    /\ JobAt(s, "check")
    /\ known' \in {known, [version |-> published, fresh |-> TRUE]}
    /\ IF published > package
       THEN \E autoUpdate \in BOOLEAN : IF autoUpdate THEN Becomes(s, "auto") ELSE GivesUp(s)
       ELSE GivesUp(s)
    /\ UNCHANGED <<catalogVars, published, package, staged, child, checks>>

\* performAutoUpdate asks the registry again; the command takes what it knows if
\* the registry does not answer.
Compared(s) ==
    /\ JobAt(s, "auto") \/ JobAt(s, "command")
    /\ \/ IF published > package THEN Becomes(s, "probe") ELSE GivesUp(s)
       \/ /\ JobAt(s, "command")
          /\ IF known.version > package THEN Becomes(s, "probe") ELSE GivesUp(s)
    /\ UNCHANGED <<catalogVars, published, package, known, staged, child, checks>>

NoAnswer(s) ==
    /\ JobAt(s, "check") \/ JobAt(s, "auto")
    /\ GivesUp(s)
    /\ UNCHANGED <<catalogVars, published, package, known, staged, child, checks>>

\* The managers there are: those of hosts, omp and pi, and npm or bun.
Probe(s) ==
    /\ JobAt(s, "probe")
    /\ \E hosts \in 0..2, global \in BOOLEAN :
          job' = [job EXCEPT ![s] =
              IF hosts > 0 THEN [phase |-> "host", hosts |-> hosts, global |-> global]
              ELSE IF global THEN [phase |-> "global", hosts |-> 0, global |-> TRUE]
              ELSE NoJob]
    /\ UNCHANGED <<catalogVars, published, package, known, staged, child, checks>>

\* The next manager after one that failed.
NextManager(j) ==
    CASE j.phase = "host" /\ j.hosts > 1 -> [j EXCEPT !.hosts = @ - 1]
      [] j.phase = "host" /\ j.hosts = 1 /\ j.global -> [j EXCEPT !.phase = "global", !.hosts = 0]
      [] OTHER -> NoJob

\* runUpdateStep: a manager that reports success may have installed another copy
\* than this one; one that fails, or is killed for its time, may have installed it.
Install(s) ==
    /\ JobAt(s, "host") \/ JobAt(s, "global")
    /\ package' \in {package, published}
    /\ \/ Becomes(s, "kill")
       \/ job' = [job EXCEPT ![s] = NextManager(@)]
    /\ UNCHANGED <<catalogVars, published, known, staged, child, checks>>

\* killPortHolder: the daemon goes, or there is none, or it cannot be killed.
Kill(s) ==
    /\ JobAt(s, "kill")
    /\ GivesUp(s)
    /\ \/ Stop(Daemon)
       \/ UNCHANGED catalogVars
    /\ UNCHANGED <<published, package, known, staged, child, checks>>

-----------------------------------------------------------------------------
(* Sessions and the daemon                                                 *)

\* Mutation: the copy is looked for under the version of the session.
NameOfSession(s) == code[s]
\* materializeDaemonSources reads the version of the package on the disk.
Name(s) == package

\* A session that misses the daemon starts one, from the copy staged under that
\* version if there is one.
Spawn(s) ==
    /\ Runs(s) /\ ~Runs(Daemon) /\ child[s] = NoChild
    /\ child' = [child EXCEPT ![s] =
           IF staged[Name(s)] = 0 THEN [phase |-> "staging", version |-> Name(s)]
           ELSE [phase |-> "boot", version |-> staged[Name(s)]]]
    /\ UNCHANGED <<catalogVars, published, package, known, job, staged, checks>>

\* The sources are copied, and renamed to the version that was read; whoever came
\* first is used.  Where the copy fails, or the runtime needs none, the package is.
Copy(s) ==
    LET name == child[s].version
        copy == IF staged[name] = 0 THEN package ELSE staged[name]
    IN
    /\ child[s].phase = "staging"
    /\ \/ /\ staged' = [staged EXCEPT ![name] = copy]
          /\ child' = [child EXCEPT ![s] = [phase |-> "boot", version |-> copy]]
       \/ /\ child' = [child EXCEPT ![s] = [phase |-> "boot", version |-> package]]
          /\ UNCHANGED staged
    /\ UNCHANGED <<catalogVars, published, package, known, job, checks>>

\* The daemon binds its port, or finds it bound and leaves.
Bind(s) ==
    /\ child[s].phase = "boot"
    /\ child' = [child EXCEPT ![s] = NoChild]
    /\ IF Runs(Daemon) THEN UNCHANGED catalogVars ELSE Start(Daemon, child[s].version)
    /\ UNCHANGED <<published, package, known, job, staged, checks>>

\* A session loads the package.
Open(s) ==
    /\ Start(s, package)
    /\ UNCHANGED updateVars

\* A session with newer code replaces the daemon (DaemonLifecycle).
Replace(s) ==
    /\ Runs(Daemon) /\ code[s] > code[Daemon]
    /\ Stop(Daemon)
    /\ UNCHANGED updateVars

\* A session ends; a manager it started may still finish.
Quit(s) ==
    /\ Stop(s)
    /\ IF JobAt(s, "host") \/ JobAt(s, "global")
       THEN package' \in {package, published} ELSE UNCHANGED package
    /\ GivesUp(s)
    /\ child' = [child EXCEPT ![s] = IF @.phase = "staging" THEN NoChild ELSE @]
    /\ UNCHANGED <<published, known, staged, checks>>

-----------------------------------------------------------------------------
Publish ==
    /\ published + 1 \in Versions
    /\ published' = published + 1
    /\ UNCHANGED <<catalogVars, package, known, job, staged, child, checks>>

\* UPDATE_CHECK_TTL_MS
Forget ==
    /\ known.fresh
    /\ known' = [known EXCEPT !.fresh = FALSE]
    /\ UNCHANGED <<catalogVars, published, package, job, staged, child, checks>>

UpdateStep ==
    \/ \E s \in Sessions :
          \/ CheckForUpdate(s) \/ UpdateCommand(s) \/ Latest(s) \/ Compared(s) \/ NoAnswer(s)
          \/ Probe(s) \/ Install(s) \/ Kill(s)
          \/ Spawn(s) \/ Copy(s) \/ Bind(s) \/ Open(s) \/ Replace(s) \/ Quit(s)
    \/ Publish \/ Forget

Next ==
    \/ CatalogStep /\ UNCHANGED updateVars
    \/ UpdateStep

Spec == Init /\ [][Next]_vars
=============================================================================
