----------------------------- MODULE ClineStore -----------------------------
(***************************************************************************)
(* The file of the Cline logins and its recovery copy (src/cline-pool.ts), *)
(* as several processes of the host and the daemon edit it without a lock, *)
(* and the device login and the logout of src/commands-cline.ts and        *)
(* src/cline-device-auth.ts that lead to such edits.                       *)
(*                                                                         *)
(* ClineRoll takes an edit of the pool for one step.  Here an edit is what *)
(* it is: a read of the file (or of the copy cached under its mtime), and  *)
(* a save that secures the pool it replaces, renames the new one over it,  *)
(* reads it back, secures that one as well and stamps the cache.  Another  *)
(* process may come between any two of these, and a crash too.             *)
(*                                                                         *)
(* Of a login the model keeps the token and the account; caps, counters    *)
(* and parks are those of ClineRoll, and their patches touch no login.     *)
(***************************************************************************)
EXTENDS Naturals, FiniteSets, FiniteSetsExt

CONSTANTS
    Procs,      \* processes that load cline-pool.ts
    MaxSlot,    \* bound: names of logins, 1 for "default", n for "slot-n"
    Named,      \* those a user names in a command
    Accounts,   \* accounts a browser may be signed in with
    NoAccount,  \* the identity of a pasted key
    MaxOps,     \* bound: commands and patches
    MaxFaults   \* bound: crashes, losses of the file and failed writes of the copy

ASSUME ClineStoreAssumption ==
    /\ IsFiniteSet(Procs) /\ IsFiniteSet(Accounts) /\ NoAccount \notin Accounts
    /\ MaxSlot \in Nat \ {0} /\ Named \subseteq 1..MaxSlot
    /\ MaxOps \in Nat /\ MaxFaults \in Nat

VARIABLES
    main,    \* CLINE_POOL_FILE
    writes,  \* changes of it so far, its mtime unless it is missing
    backup,  \* CLINE_POOL_BACKUP_FILE
    cache,   \* cached and cachedMtime of each process
    proc,    \* the command or patch each process is at
    ops,     \* commands and patches so far; tokens are numbered by them
    faults   \* crashes, losses and failed writes so far

vars == <<main, writes, backup, cache, proc, ops, faults>>

Slots == 1..MaxSlot
PastedKey == 0
Logins == [token : 0..MaxOps + MaxSlot, account : Accounts \cup {NoAccount}]
Docs == UNION {[S -> Logins] : S \in SUBSET Slots}
NoLogins == <<>>

Missing == [is |-> "missing", doc |-> NoLogins, mtime |-> 0]
NoCopy == [is |-> "missing", doc |-> NoLogins]
Torn == [is |-> "torn", doc |-> NoLogins]
NoCache == [held |-> FALSE, doc |-> NoLogins, mtime |-> 0]

\* The phases in which a process is between two accesses to the files.
FilePhases ==
    {"look", "read", "stamp", "edit", "add", "remove", "recover", "write", "check", "latch",
     "scrub", "landed"}
\* Those in which it waits for Cline or for the user.
Waits == {"pick", "authorize", "poll", "register", "choose"}

Idle ==
    [kind |-> "none",       \* login, paste, logout or patch
     phase |-> "idle",
     slot |-> 1,
     auto |-> FALSE,        \* the slot was picked by nextClineSlot
     account |-> NoAccount,
     token |-> PastedKey,
     pool |-> NoLogins,     \* the pool in hand
     before |-> 0,          \* the mtime before the read
     again |-> FALSE,       \* the read is repeated
     then |-> "idle",       \* where loadPool returns to
     onread |-> "idle",     \* where readPoolFile returns to
     onsave |-> "idle",     \* where savePool returns to
     ok |-> FALSE,          \* what savePool returned
     late |-> FALSE,        \* the device code's time is up
     saved |-> FALSE]       \* the user was told that the login is saved

Phases == FilePhases \cup Waits \cup {"idle"}
Operations ==
    [kind : {"none", "login", "paste", "logout", "patch"}, phase : Phases, slot : Slots,
     auto : BOOLEAN, account : Accounts \cup {NoAccount}, token : 0..MaxOps + MaxSlot,
     pool : Docs, before : Nat, again : BOOLEAN, then : Phases, onread : Phases,
     onsave : Phases \cup {"patched"}, ok : BOOLEAN, late : BOOLEAN, saved : BOOLEAN]

TypeOK ==
    /\ main \in [is : {"missing", "torn", "doc"}, doc : Docs, mtime : 0..writes]
    /\ writes \in Nat
    /\ backup \in [is : {"missing", "torn", "doc"}, doc : Docs]
    /\ cache \in [Procs -> [held : BOOLEAN, doc : Docs, mtime : 0..writes]]
    /\ proc \in [Procs -> Operations]
    /\ ops \in 0..MaxOps /\ faults \in 0..MaxFaults

\* Any pool of distinct accounts that was saved at peace, and its copy.
Init ==
    /\ \E doc \in {d \in Docs : \A s \in DOMAIN d :
                      /\ d[s].token = IF d[s].account = NoAccount THEN PastedKey ELSE s
                      /\ 1..s \subseteq DOMAIN d
                      /\ \A t \in DOMAIN d \ {s} : d[t].account # d[s].account} :
          /\ main = IF doc = NoLogins THEN Missing ELSE [is |-> "doc", doc |-> doc, mtime |-> 1]
          /\ backup = IF doc = NoLogins THEN NoCopy ELSE [is |-> "doc", doc |-> doc]
    /\ writes = 1
    /\ cache = [p \in Procs |-> NoCache]
    /\ proc = [p \in Procs |-> Idle]
    /\ ops = 0
    /\ faults = 0

Step(p, new) == proc' = [proc EXCEPT ![p] = new]
At(p, phase) == proc[p].phase = phase
Size(doc) == Cardinality(DOMAIN doc)

-----------------------------------------------------------------------------
(* loadPool and readPoolFile                                               *)

\* loadPool begins.
Load(r, then) ==
    [r EXCEPT !.phase = "look", !.then = then, !.onread = "stamp", !.again = FALSE]
\* readPoolFile, without the cache.
ReadFile(r, then) == [r EXCEPT !.phase = "read", !.onread = then]

\* Mutation: a cached pool is used whatever the file's mtime.
FreshWhenHeld(p) == cache[p].held
\* cached && before === cachedMtime
Fresh(p) == cache[p].held /\ cache[p].mtime = main.mtime

\* The file, or, if it is missing or unusable, a copy with a login in it, which is
\* saved as the pool at once; or nothing.
Read(p) ==
    LET r == [proc[p] EXCEPT !.before = IF proc[p].onread = "stamp" THEN main.mtime ELSE 0] IN
    /\ \/ At(p, "read")
       \/ At(p, "look") /\ ~Fresh(p)
    /\ Step(p, CASE main.is = "doc" -> [r EXCEPT !.pool = main.doc, !.phase = r.onread]
                 [] main.is # "doc" /\ backup.doc # NoLogins ->
                        [r EXCEPT !.pool = backup.doc, !.phase = "recover", !.onsave = r.onread]
                 [] OTHER -> [r EXCEPT !.pool = NoLogins, !.phase = r.onread])
    /\ UNCHANGED <<main, writes, backup, cache, ops, faults>>

\* The pool as this process last read or wrote it.
Recall(p) ==
    /\ At(p, "look") /\ Fresh(p)
    /\ Step(p, [proc[p] EXCEPT !.pool = cache[p].doc, !.phase = proc[p].then,
                                 !.then = "idle", !.onread = "idle"])
    /\ UNCHANGED <<main, writes, backup, cache, ops, faults>>

\* A file that moved across the read is read once more; what that gives is cached
\* under the mtime seen after it.
Stamp(p) ==
    LET r == proc[p] IN
    /\ At(p, "stamp")
    /\ IF main.mtime # r.before /\ ~r.again
       THEN /\ Step(p, [ReadFile(r, "stamp") EXCEPT !.again = TRUE])
            /\ UNCHANGED cache
       ELSE /\ Step(p, [r EXCEPT !.phase = r.then, !.then = "idle", !.onread = "idle",
                                      !.before = 0, !.again = FALSE, !.ok = FALSE])
            /\ cache' = [cache EXCEPT ![p] = [held |-> TRUE, doc |-> r.pool, mtime |-> main.mtime]]
    /\ UNCHANGED <<main, writes, backup, ops, faults>>

-----------------------------------------------------------------------------
(* savePool                                                                *)

\* keepLargestBackup: ties do not replace, and an unreadable copy counts for less
\* than any pool with a login.
KeepLargest(file) ==
    IF /\ file.is = "doc" /\ file.doc # NoLogins
       /\ backup.is = "doc" => Size(file.doc) > Size(backup.doc)
    THEN [is |-> "doc", doc |-> file.doc]
    ELSE backup

\* The copy is written in place, if it changes.  A write that fails is ignored: the
\* copy stays as it was, or is torn.
Rewrite(new) ==
    \/ backup' = new /\ UNCHANGED faults
    \/ /\ new # backup /\ faults < MaxFaults
       /\ faults' = faults + 1
       /\ backup' \in {backup, Torn}

\* A save begins: the pool being replaced is secured.
Save(p, r, pool, onsave) ==
    /\ Rewrite(KeepLargest(main))
    /\ Step(p, [r EXCEPT !.pool = pool, !.phase = "write", !.onsave = onsave])

\* recoverPoolFromBackup
Recover(p) ==
    /\ At(p, "recover")
    /\ Save(p, proc[p], proc[p].pool, proc[p].onsave)
    /\ UNCHANGED <<main, writes, cache, ops>>

\* "Saved Cline login"
ToldSaved == [Idle EXCEPT !.saved = TRUE]

\* What follows a save.
Saved(r, ok) ==
    CASE r.onsave = "patched" -> Idle
      [] r.onsave = "landed" /\ ok -> ToldSaved
      \* A save that failed is doubted: the login may be on the disk after all.
      [] r.onsave = "landed" /\ ~ok -> Load(r, "landed")
      [] OTHER -> [r EXCEPT !.phase = r.onsave, !.onsave = "idle", !.ok = ok]

\* The save ends with a throw: the cache is dropped.
Unsaved(p) ==
    /\ cache' = [cache EXCEPT ![p] = NoCache]
    /\ Step(p, Saved(proc[p], FALSE))

\* writeFileAtomic: the rename lands, or it reports success and does not, or it
\* throws.
Write(p) ==
    /\ At(p, "write")
    /\ \/ /\ main' = [is |-> "doc", doc |-> proc[p].pool, mtime |-> writes + 1]
          /\ writes' = writes + 1
          /\ Step(p, [proc[p] EXCEPT !.phase = "check"])
          /\ UNCHANGED cache
       \/ /\ Step(p, [proc[p] EXCEPT !.phase = "check"])
          /\ UNCHANGED <<main, writes, cache>>
       \/ /\ Unsaved(p)
          /\ UNCHANGED <<main, writes>>
    /\ UNCHANGED <<backup, ops, faults>>

\* Mutation: the rename's word is taken for it.
LandedOnTrust(p) == TRUE
\* What the file holds is what was written.
Landed(p) == main.is = "doc" /\ main.doc = proc[p].pool

Check(p) ==
    /\ At(p, "check")
    /\ IF Landed(p)
       THEN /\ Step(p, [proc[p] EXCEPT !.phase = "latch"])
            /\ UNCHANGED cache
       ELSE Unsaved(p)
    /\ UNCHANGED <<main, writes, backup, ops, faults>>

\* The pool just written is secured too, and cached under the mtime the file has by
\* now.
Latch(p) ==
    /\ At(p, "latch")
    /\ Rewrite(KeepLargest([is |-> "doc", doc |-> proc[p].pool]))
    /\ cache' = [cache EXCEPT ![p] = [held |-> TRUE, doc |-> proc[p].pool, mtime |-> main.mtime]]
    /\ Step(p, Saved(proc[p], TRUE))
    /\ UNCHANGED <<main, writes, ops>>

-----------------------------------------------------------------------------
(* addAccount                                                              *)

\* An account without identity is known by its token alone.
SameAccount(a, b) ==
    IF a.account # NoAccount /\ b.account # NoAccount THEN a.account = b.account
    ELSE a.token = b.token

HeldElsewhere(r, login) ==
    \E s \in DOMAIN r.pool \ {r.slot} : SameAccount(r.pool[s], login)

\* A login replaces the one in its slot; a pasted key leaves it its identity.
Put(r) ==
    LET old == IF r.slot \in DOMAIN r.pool THEN r.pool[r.slot].account ELSE NoAccount
        login == [token |-> r.token,
                  account |-> IF r.account = NoAccount THEN old ELSE r.account]
    IN  [s \in DOMAIN r.pool \cup {r.slot} |-> IF s = r.slot THEN login ELSE r.pool[s]]

\* The account another slot holds is refused.
Refused(r) == HeldElsewhere(r, [token |-> r.token, account |-> r.account])

Add(p) ==
    /\ At(p, "add")
    /\ IF Refused(proc[p])
       THEN /\ Step(p, Idle)
            /\ UNCHANGED <<backup, faults>>
       ELSE Save(p, proc[p], Put(proc[p]), "landed")
    /\ UNCHANGED <<main, writes, cache, ops>>

\* The save failed, and the pool was loaded again.
Doubt(p) ==
    LET r == proc[p] IN
    /\ At(p, "landed")
    /\ Step(p, IF r.slot \in DOMAIN r.pool /\ r.pool[r.slot].token = r.token
               THEN ToldSaved ELSE Idle)
    /\ UNCHANGED <<main, writes, backup, cache, ops, faults>>

-----------------------------------------------------------------------------
(* removeAccount                                                           *)

Without(doc, gone) == [s \in DOMAIN doc \ gone |-> doc[s]]

Remove(p) ==
    LET r == proc[p] IN
    /\ At(p, "remove")
    /\ IF r.slot \notin DOMAIN r.pool
       THEN /\ Step(p, Idle)
            /\ UNCHANGED <<backup, faults>>
       ELSE Save(p, [r EXCEPT !.token = r.pool[r.slot].token], Without(r.pool, {r.slot}),
                 "scrub")
    /\ UNCHANGED <<main, writes, cache, ops>>

\* Mutation: the copy keeps what was logged out.
ScrubNothing(r) == backup
\* forgetAccountInBackup: the slot goes, and whatever else holds its token.
Scrubbed(r) ==
    IF backup.is # "doc" THEN backup
    ELSE [backup EXCEPT !.doc =
             Without(@, {s \in DOMAIN @ : s = r.slot \/ @[s].token = r.token})]

\* Whether the save reached the disk or not, the copy is scrubbed, and whether that
\* succeeds or not, the user is told that the login is gone.
Scrub(p) ==
    /\ At(p, "scrub")
    /\ Rewrite(Scrubbed(proc[p]))
    /\ Step(p, Idle)
    /\ UNCHANGED <<main, writes, cache, ops>>

-----------------------------------------------------------------------------
(* patchAccountOnDisk                                                      *)

\* A slot that is gone is left alone.
Edit(p) ==
    LET r == proc[p] IN
    /\ At(p, "edit")
    /\ IF r.slot \notin DOMAIN r.pool
       THEN /\ Step(p, Idle)
            /\ UNCHANGED <<backup, faults>>
       ELSE Save(p, r, [r.pool EXCEPT ![r.slot].token = r.token], "patched")
    /\ UNCHANGED <<main, writes, cache, ops>>

-----------------------------------------------------------------------------
(* The commands, and the device login                                      *)

\* The next operation of a process, at the file or after a look at it.
Begin(p, r) ==
    /\ At(p, "idle") /\ ops < MaxOps
    /\ ops' = ops + 1
    /\ Step(p, r)
    /\ UNCHANGED <<main, writes, backup, cache, faults>>

NewToken == MaxSlot + ops + 1

\* /freeflow cline login, into a slot the user names or the next free one.
LogIn(p, s) ==
    Begin(p, [Idle EXCEPT !.kind = "login", !.slot = s, !.token = NewToken, !.phase = "authorize"])

LogInNext(p) ==
    Begin(p, Load([Idle EXCEPT !.kind = "login", !.token = NewToken], "pick"))

\* /freeflow cline login --key
PasteKey(p, s) ==
    Begin(p, Load([Idle EXCEPT !.kind = "paste", !.slot = s], "add"))

\* /freeflow cline logout
LogOut(p) == Begin(p, Load([Idle EXCEPT !.kind = "logout"], "choose"))

\* Fresh tokens for a slot; the patches of caps, counters and the active slot write
\* the file as this one does.
Patch(p, s) ==
    Begin(p, ReadFile([Idle EXCEPT !.kind = "patch", !.slot = s, !.token = NewToken], "edit"))

\* nextClineSlot, before the login is approved.
Pick(p) ==
    LET free == Slots \ DOMAIN proc[p].pool IN
    /\ At(p, "pick") /\ free # {}
    /\ Step(p, [proc[p] EXCEPT !.slot = Min(free), !.auto = TRUE, !.pool = NoLogins,
                             !.phase = "authorize"])
    /\ UNCHANGED <<main, writes, backup, cache, ops, faults>>

Fail(p) == Step(p, Idle)

\* startDeviceAuth
Authorize(p) ==
    /\ At(p, "authorize")
    /\ \/ Step(p, [proc[p] EXCEPT !.phase = "poll"])
       \/ Fail(p)
    /\ UNCHANGED <<main, writes, backup, cache, ops, faults>>

\* The device code's lifetime is over.
Deadline(p) ==
    /\ At(p, "poll") /\ ~proc[p].late
    /\ Step(p, [proc[p] EXCEPT !.late = TRUE])
    /\ UNCHANGED <<main, writes, backup, cache, ops, faults>>

\* pollDeviceToken, the user approves: the account is the browser's.
Approve(p, a) ==
    /\ At(p, "poll")
    /\ Step(p, [proc[p] EXCEPT !.account = a, !.phase = "register"])
    /\ UNCHANGED <<main, writes, backup, cache, ops, faults>>

\* The code is refused, or the answer is of no use.
Refuse(p) ==
    /\ At(p, "poll")
    /\ Fail(p)
    /\ UNCHANGED <<main, writes, backup, cache, ops, faults>>

\* Pending, slow_down, a 429 or 5xx, or a fault: the poll is repeated until the
\* deadline.
Pending(p) ==
    /\ At(p, "poll")
    /\ IF proc[p].late THEN Fail(p) ELSE UNCHANGED proc
    /\ UNCHANGED <<main, writes, backup, cache, ops, faults>>

\* registerClineToken; a login that is not registered is lost.
Register(p) ==
    /\ At(p, "register")
    /\ \/ Step(p, Load(proc[p], "add"))
       \/ Fail(p)
    /\ UNCHANGED <<main, writes, backup, cache, ops, faults>>

\* The login to remove is chosen from the pool as it was loaded, and looked up by
\* its name when the user has chosen.
Choose(p) ==
    LET r == proc[p] IN
    /\ At(p, "choose")
    /\ \/ \E s \in DOMAIN r.pool :
             Step(p, [Load(r, "remove") EXCEPT !.slot = s, !.pool = NoLogins])
       \/ Fail(p)
    /\ UNCHANGED <<main, writes, backup, cache, ops, faults>>

-----------------------------------------------------------------------------
(* Faults                                                                  *)

\* The copy as the next step of a process writes it.
NextCopy(p) ==
    LET r == proc[p] IN
    CASE \/ At(p, "recover")
         \/ At(p, "add") /\ ~Refused(r)
         \/ (At(p, "remove") \/ At(p, "edit")) /\ r.slot \in DOMAIN r.pool
              -> KeepLargest(main)
      [] At(p, "latch") -> KeepLargest([is |-> "doc", doc |-> r.pool])
      [] At(p, "scrub") -> Scrubbed(r)
      [] OTHER -> backup

\* The process dies at the files; a copy it was writing may be torn.
Crash(p) ==
    /\ faults < MaxFaults /\ proc[p].phase \in FilePhases
    /\ faults' = faults + 1
    /\ cache' = [cache EXCEPT ![p] = NoCache]
    /\ Step(p, Idle)
    /\ UNCHANGED backup \/ (NextCopy(p) # backup /\ backup' = Torn)
    /\ UNCHANGED <<main, writes, ops>>

\* The file is deleted, or overwritten with something else, while no process is at
\* it.
Lose ==
    /\ faults < MaxFaults /\ main.is = "doc"
    /\ \A p \in Procs : proc[p].phase \notin FilePhases
    /\ faults' = faults + 1
    /\ \/ main' = Missing /\ UNCHANGED writes
       \/ /\ main' = [is |-> "torn", doc |-> NoLogins, mtime |-> writes + 1]
          /\ writes' = writes + 1
    /\ UNCHANGED <<backup, cache, proc, ops>>

-----------------------------------------------------------------------------
FileStep(p) ==
    \/ Recall(p) \/ Read(p) \/ Stamp(p) \/ Recover(p)
    \/ Write(p) \/ Check(p) \/ Latch(p)
    \/ Add(p) \/ Doubt(p) \/ Remove(p) \/ Scrub(p) \/ Edit(p)

LoginStep(p) ==
    \/ Pick(p) \/ Authorize(p) \/ Deadline(p) \/ Refuse(p) \/ Pending(p) \/ Register(p)
    \/ \E a \in Accounts : Approve(p, a)

Command(p) ==
    \/ LogInNext(p) \/ LogOut(p) \/ Choose(p)
    \/ \E s \in Named : LogIn(p, s) \/ PasteKey(p, s)
    \/ \E s \in Slots : Patch(p, s)

Next ==
    \/ \E p \in Procs : FileStep(p) \/ LoginStep(p) \/ Command(p) \/ Crash(p)
    \/ Lose

Spec == Init /\ [][Next]_vars
=============================================================================
