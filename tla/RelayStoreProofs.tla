-------------------------- MODULE RelayStoreProofs --------------------------
(***************************************************************************)
(* Proofs about RelayStore for any number of processes, relays, edits and  *)
(* faults.                                                                 *)
(***************************************************************************)
EXTENDS RelayEdits, TLAPS

\* Before any fault the lock file exists exactly while one writer owns it, so
\* it never grows stale and nobody is on the way to taking it over.
LockInv ==
    faults = 0 =>
        /\ lock # "stale"
        /\ lock = "fresh" <=> \E p \in Procs : locked[p]
        /\ \A p, q \in Procs : locked[p] /\ locked[q] => p = q
        /\ \A p \in Procs : pc[p] # "lockRm"
        /\ \A p \in Procs : pc[p] = "unlock" => locked[p]

Saving(p) == pc[p] \in {"backupRead", "backupOpen", "backupWrite", "rename"}
Loading(p) == pc[p] \in {"readMain", "readBak"}

\* The backup can be loaded, or somebody is about to complete it.
BackupGood ==
    Usable(bak) \/ \E p \in Procs : pc[p] = "backupWrite" /\ Usable(cur[p])

\* Somebody who is past reading main holds a pool that he goes on to save.
InMemory == \E p \in Procs : pc[p] \in {"backupWrite", "rename"} /\ Usable(doc[p])

\* What is written to the backup is worth having, unless main was junk; what is
\* saved over main is, unless an edit emptied it.
CurInv ==
    /\ main = Junk => junked
    /\ \A p \in Procs :
           /\ pc[p] \in {"backupOpen", "backupWrite"} =>
                  Usable(cur[p]) \/ (junked /\ cur[p] = Junk)
           /\ Saving(p) /\ ~emptied => Usable(doc[p])

\* Each fault takes away at most one of the two copies, and junk in main both:
\* the pool is then in the memory of who replaced the backup with it.
PoolInv ==
    ~emptied =>
        /\ faults = 0 => Usable(main) /\ BackupGood /\ ~junked
        /\ faults = 1 => Usable(main) \/ BackupGood \/ (junked /\ InMemory)

-----------------------------------------------------------------------------
(* The document operators                                                  *)

\* The first relay of a pool is a relay, if there is one.
LEMMA FirstOfType ==
    ASSUME NEW S \in SUBSET Relays
    PROVE  FirstOf(S) \in Relays \cup {NoRelay}
<1>1. CASE S = {}
  BY <1>1 DEF FirstOf
<1>2. CASE S # {}
  <2>1. (CHOOSE r \in S : TRUE) \in S
    BY <1>2
  <2> QED
    BY <1>2, <2>1 DEF FirstOf
<1> QED
  BY <1>1, <1>2

\* A file that can be used is a document.
LEMMA ParseType ==
    ASSUME NEW f, Usable(f)
    PROVE  Parse(f) \in Docs
<1>1. f \in Docs /\ FirstOf(f.relays) \in Relays \cup {NoRelay}
  BY FirstOfType DEF Usable, Docs
<1> QED
  BY <1>1 DEF Parse, Docs

\* A document with another primary is one,
LEMMA SwitchType ==
    ASSUME NEW s \in Docs, NEW r \in Relays
    PROVE  [s EXCEPT !.url = r] \in Docs
BY DEF Docs

\* and so is one that was edited.
LEMMA ApplyType ==
    ASSUME NEW j \in Jobs, j.kind \in Kinds, NEW s \in Docs
    PROVE  Apply(j, s) \in Docs
<1>1. /\ j.relay \in Relays
      /\ s = [relays |-> s.relays, url |-> s.url]
      /\ s.relays \in SUBSET Relays
      /\ s.url \in Relays \cup {NoRelay}
  BY DEF Jobs, Docs, Kinds
<1>2. ASSUME NEW r \in Relays PROVE Ensured(s, r) \in Docs
  BY <1>1, <1>2 DEF Ensured, Docs
<1>3. Removed(s, j.relay) \in Docs
  <2>1. FirstOf(s.relays \ {j.relay}) \in Relays \cup {NoRelay}
    BY <1>1, FirstOfType
  <2> QED
    BY <1>1, <2>1 DEF Removed, Docs
<1>4. CASE j.kind = "add"
  <2>1. Apply(j, s) = [Ensured(s, j.relay) EXCEPT !.url = j.relay]
    BY <1>4 DEF Apply
  <2> QED
    BY <1>1, <1>2, <2>1 DEF Docs
<1>5. CASE j.kind = "use"
  BY <1>1, <1>5 DEF Apply, Docs
<1>6. CASE j.kind = "remove"
  BY <1>3, <1>6 DEF Apply
<1>7. CASE j.kind = "keep"
  BY <1>1, <1>2, <1>7 DEF Apply
<1>8. CASE j.kind = "stick"
  BY <1>1, <1>8 DEF Apply, Docs
<1> QED
  BY <1>4, <1>5, <1>6, <1>7, <1>8 DEF Kinds

-----------------------------------------------------------------------------
(* Type correctness                                                        *)

\* The types hold at the start.
LEMMA InitTypeOK == Init => TypeOK
<1> SUFFICES ASSUME Init PROVE TypeOK
  OBVIOUS
<1>1. FirstOf(Saved) \in Relays \cup {NoRelay} /\ FirstOf(Saved) \in Saved
  <2>1. (CHOOSE r \in Saved : TRUE) \in Saved
    BY RelayStoreAssumption
  <2> QED
    BY <2>1, RelayStoreAssumption DEF FirstOf
<1>2. main \in Docs /\ bak \in Docs
  BY <1>1, RelayStoreAssumption DEF Init, Docs
<1>3. Fresh \in Docs /\ NoJob \in Jobs
  BY DEF Fresh, Docs, NoJob, Jobs
<1>4. /\ doc \in [Procs -> Docs] /\ cur \in [Procs -> Docs] /\ cache \in [Procs -> Docs]
      /\ job \in [Procs -> Jobs] /\ pc \in [Procs -> PCs]
  BY <1>2, <1>3 DEF Init, PCs
<1>5. /\ healing \in [Procs -> BOOLEAN] /\ locked \in [Procs -> BOOLEAN]
      /\ synced \in [Procs -> BOOLEAN] /\ emptied \in BOOLEAN /\ junked \in BOOLEAN
      /\ flight \in [Procs -> Relays \cup {NoRelay}]
  BY DEF Init
<1>6. edits \in 0..MaxEdits /\ faults \in 0..MaxFaults /\ lock \in {"absent", "fresh", "stale"}
  BY RelayStoreAssumption DEF Init
<1> QED
  BY <1>2, <1>4, <1>5, <1>6 DEF TypeOK

\* What a load leaves behind.
LEMMA LoadedType ==
    ASSUME TypeOK, NEW p \in Procs, NEW d \in Docs, Loaded(p, d)
    PROVE  /\ healing' \in [Procs -> BOOLEAN]
           /\ job' \in [Procs -> Jobs]
           /\ cache' \in [Procs -> Docs]
           /\ doc' \in [Procs -> Docs]
           /\ pc' \in [Procs -> PCs]
           /\ emptied' \in BOOLEAN
<1>1. Fresh \in Docs /\ NoJob \in Jobs
  BY DEF Fresh, Docs, NoJob, Jobs
<1>2. job[p].kind \in Kinds => Apply(job[p], d) \in Docs
  BY ApplyType DEF TypeOK
<1>3. emptied' \in BOOLEAN
  BY DEF Loaded, TypeOK
<1> QED
  BY <1>1, <1>2, <1>3 DEF Loaded, TypeOK, Goto, PCs

\* Every step keeps them.
LEMMA TypeOKStep == TypeOK /\ [Next]_vars => TypeOK'
<1> SUFFICES ASSUME TypeOK, [Next]_vars PROVE TypeOK'
  OBVIOUS
<1>0. Fresh \in Docs /\ NoJob \in Jobs
  BY DEF Fresh, Docs, NoJob, Jobs
<1> USE RelayStoreAssumption
<1>1. ASSUME NEW p \in Procs, BeginEdit(p) PROVE TypeOK'
  BY <1>1 DEF BeginEdit, Begin, Goto, TypeOK, PCs, Jobs, Kinds, files, past
<1>2. ASSUME NEW p \in Procs, BeginMenu(p) PROVE TypeOK'
  <2>1. PICK r \in cache[p].relays :
           /\ Begin(p, NoJob, "backupRead")
           /\ doc' = [doc EXCEPT ![p] = [cache[p] EXCEPT !.url = r]]
           /\ cache' = [cache EXCEPT ![p] = [cache[p] EXCEPT !.url = r]]
    BY <1>2 DEF BeginMenu
  <2>2. [cache[p] EXCEPT !.url = r] \in Docs
    <3>1. cache[p] \in Docs /\ r \in Relays
      BY <2>1 DEF TypeOK, Docs
    <3> QED
      BY <3>1, SwitchType
  <2> QED
    BY <1>0, <1>2, <2>1, <2>2 DEF BeginMenu, Begin, Goto, TypeOK, PCs, files, past
<1>3. ASSUME NEW p \in Procs, BeginRequest(p) PROVE TypeOK'
  <2>1. cache[p].relays \in SUBSET Relays
    BY DEF TypeOK, Docs
  <2> QED
    BY <1>3, <2>1 DEF BeginRequest, TypeOK, files, bounds, past
<1>4. ASSUME NEW p \in Procs, BeginStick(p) PROVE TypeOK'
  BY <1>4 DEF BeginStick, Begin, Goto, TypeOK, PCs, Jobs, Kinds, files, past
<1>5. ASSUME NEW p \in Procs, BeginView(p) PROVE TypeOK'
  BY <1>0, <1>5 DEF BeginView, Begin, Goto, TypeOK, PCs, files, bounds, past
<1>6. ASSUME NEW p \in Procs, LockStep(p) PROVE TypeOK'
  <2>1. CASE CreateLock(p)
    <3>1. faults' \in 0..MaxFaults /\ lock' \in {"absent", "fresh", "stale"}
      BY <2>1 DEF CreateLock, LockFault, TypeOK
    <3>2. locked' \in [Procs -> BOOLEAN] /\ pc' \in [Procs -> PCs]
      BY <2>1 DEF CreateLock, Goto, TypeOK, PCs
    <3> QED
      BY <2>1, <3>1, <3>2 DEF CreateLock, TypeOK, past
  <2>2. CASE StatLock(p)
    BY <2>2 DEF StatLock, Goto, TypeOK, PCs, files, bounds, past
  <2>3. CASE TakeOverLock(p)
    BY <2>3 DEF TakeOverLock, LockFault, Goto, TypeOK, PCs, past
  <2>4. CASE Unlock(p)
    BY <2>4 DEF Unlock, LockFault, Goto, TypeOK, PCs, past
  <2> QED
    BY <1>6, <2>1, <2>2, <2>3, <2>4 DEF LockStep
<1>7. ASSUME NEW p \in Procs, ReadMain(p) PROVE TypeOK'
  <2>1. CASE Usable(main) /\ Loaded(p, Parse(main))
    BY <1>7, <2>1, ParseType, LoadedType DEF ReadMain, TypeOK, files, bounds, past
  <2>2. CASE ~(Usable(main) /\ Loaded(p, Parse(main)))
    BY <1>7, <2>2 DEF ReadMain, Goto, TypeOK, PCs, files, bounds, past
  <2> QED
    BY <2>1, <2>2
<1>8. ASSUME NEW p \in Procs, ReadBak(p) PROVE TypeOK'
  <2>1. CASE ~Usable(bak) /\ Loaded(p, Fresh)
    BY <1>0, <1>8, <2>1, LoadedType DEF ReadBak, TypeOK, files, bounds, past
  <2>2. CASE Usable(bak)
    <3>1. Parse(bak) \in Docs
      BY <2>2, ParseType
    <3>2. /\ doc' = [doc EXCEPT ![p] = Parse(bak)]
          /\ healing' = [healing EXCEPT ![p] = TRUE]
          /\ pc' = [pc EXCEPT ![p] = "backupRead"]
          /\ UNCHANGED <<job, cache, emptied>>
      BY <1>8, <2>2 DEF ReadBak, Goto
    <3> QED
      BY <1>8, <3>1, <3>2 DEF ReadBak, TypeOK, PCs, files, bounds, past
  <2> QED
    BY <1>8, <2>1, <2>2 DEF ReadBak
<1>9. ASSUME NEW p \in Procs, ReadForBackup(p) PROVE TypeOK'
  BY <1>9 DEF ReadForBackup, WorthBackingUp, Goto, TypeOK, PCs, files, bounds, past
<1>10. ASSUME NEW p \in Procs, OpenBackup(p) PROVE TypeOK'
  BY <1>10 DEF OpenBackup, Goto, TypeOK, PCs, bounds, past
<1>11. ASSUME NEW p \in Procs, WriteBackup(p) PROVE TypeOK'
  BY <1>0, <1>11 DEF WriteBackup, Goto, TypeOK, PCs, past
<1>12. ASSUME NEW p \in Procs, Rename(p) PROVE TypeOK'
  <2>1. /\ main' \in Docs \cup {Damaged, Junk, Missing}
        /\ synced' \in [Procs -> BOOLEAN]
        /\ faults' \in 0..MaxFaults
    <3>1. CASE Replace(p)
      BY <3>1 DEF Replace, TypeOK
    <3>2. CASE WriteFails
      BY <3>2 DEF WriteFails, TypeOK
    <3> QED
      BY <1>12, <3>1, <3>2 DEF Rename
  <2>2. CASE healing[p] /\ Loaded(p, doc[p])
    <3>1. doc[p] \in Docs
      BY DEF TypeOK
    <3> QED
      BY <1>12, <2>1, <2>2, <3>1, LoadedType DEF Rename, TypeOK
  <2>3. CASE ~(healing[p] /\ Loaded(p, doc[p]))
    BY <1>12, <2>1, <2>3 DEF Rename, Goto, TypeOK, PCs, past
  <2> QED
    BY <2>2, <2>3
<1>13. ASSUME NEW p \in Procs, Publish(p) PROVE TypeOK'
  BY <1>0, <1>13 DEF Publish, Goto, TypeOK, PCs, files, bounds, past
<1>14. ASSUME NEW p \in Procs, Crash(p) PROVE TypeOK'
  BY <1>0, <1>14 DEF Crash, Goto, TypeOK, PCs, files, past
<1>15. ASSUME NEW p \in Procs, Restart(p) PROVE TypeOK'
  BY <1>15 DEF Restart, Goto, TypeOK, PCs, Jobs, files, bounds, past
<1>16. CASE AgeLock
  BY <1>16 DEF AgeLock, TypeOK, bounds, past
<1>17. CASE DamageMain
  BY <1>0, <1>17 DEF DamageMain, TypeOK
<1>18. CASE UNCHANGED vars
  BY <1>18 DEF vars, files, bounds, past, TypeOK
<1> QED
  BY <1>1, <1>2, <1>3, <1>4, <1>5, <1>6, <1>7, <1>8, <1>9, <1>10, <1>11, <1>12,
     <1>13, <1>14, <1>15, <1>16, <1>17, <1>18 DEF Next, Step, LoadStep, SaveStep

-----------------------------------------------------------------------------
(* The lock                                                                *)

\* Steps that leave the lock, its owners and the label "lockRm" alone.
LEMMA LockFrame ==
    ASSUME TypeOK, LockInv, NEW p \in Procs, NEW label,
           Goto(p, label), label \notin {"lockRm", "unlock"},
           UNCHANGED <<lock, locked>>, faults' = 0 => faults = 0
    PROVE  LockInv'
BY DEF LockInv, Goto, TypeOK

\* Faults are never undone.
LEMMA FaultsGrow == TypeOK /\ [Next]_vars => faults' >= faults
<1> SUFFICES ASSUME TypeOK, [Next]_vars PROVE faults' >= faults
  OBVIOUS
<1>1. faults \in Nat
  BY DEF TypeOK
<1>2. ASSUME NEW p \in Procs, SaveStep(p) PROVE faults' >= faults
  BY <1>1, <1>2 DEF SaveStep, ReadForBackup, OpenBackup, WriteBackup, Rename, Replace,
                    WriteFails, Publish, bounds, past
<1>3. ASSUME NEW p \in Procs, LockStep(p) \/ LoadStep(p) PROVE faults' >= faults
  BY <1>1, <1>3 DEF LockStep, CreateLock, StatLock, TakeOverLock, Unlock, LockFault,
                    LoadStep, ReadMain, ReadBak, bounds, past
<1>4. ASSUME NEW p \in Procs,
             \/ BeginEdit(p) \/ BeginMenu(p) \/ BeginRequest(p) \/ BeginStick(p)
             \/ BeginView(p) \/ Crash(p) \/ Restart(p)
      PROVE  faults' >= faults
  BY <1>1, <1>4 DEF BeginEdit, BeginMenu, BeginRequest, BeginStick, BeginView, Crash,
                    Restart, bounds, past
<1>5. CASE AgeLock \/ DamageMain \/ UNCHANGED vars
  BY <1>1, <1>5 DEF AgeLock, DamageMain, vars, bounds, past
<1> QED
  BY <1>2, <1>3, <1>4, <1>5 DEF Next, Step

\* Every step keeps the lock with its holder, as long as nothing fails.
LEMMA LockInvStep == TypeOK /\ LockInv /\ [Next]_vars => LockInv'
<1> SUFFICES ASSUME TypeOK, LockInv, [Next]_vars, faults' = 0 PROVE LockInv'
  BY DEF LockInv
<1>0. faults = 0
  BY FaultsGrow DEF TypeOK
<1>1. ASSUME NEW p \in Procs, BeginEdit(p) PROVE LockInv'
  BY <1>0, <1>1, LockFrame DEF BeginEdit, Begin, files
<1>2. ASSUME NEW p \in Procs, BeginMenu(p) PROVE LockInv'
  BY <1>0, <1>2, LockFrame DEF BeginMenu, Begin, files
<1>3. ASSUME NEW p \in Procs, BeginStick(p) PROVE LockInv'
  BY <1>0, <1>3, LockFrame DEF BeginStick, Begin, files
<1>4. ASSUME NEW p \in Procs, BeginView(p) PROVE LockInv'
  BY <1>0, <1>4, LockFrame DEF BeginView, Begin, files
<1>5. ASSUME NEW p \in Procs, LoadStep(p) PROVE LockInv'
  BY <1>0, <1>5, LockFrame DEF LoadStep, ReadMain, ReadBak, Loaded, files
<1>6. ASSUME NEW p \in Procs,
             ReadForBackup(p) \/ OpenBackup(p) \/ WriteBackup(p) \/ Rename(p)
      PROVE  LockInv'
  BY <1>0, <1>6, LockFrame
     DEF ReadForBackup, OpenBackup, WriteBackup, Rename, Loaded, files
<1>7. ASSUME NEW p \in Procs, Publish(p) PROVE LockInv'
  BY <1>0, <1>7 DEF Publish, Goto, LockInv, TypeOK, files
<1>8. ASSUME NEW p \in Procs, CreateLock(p) PROVE LockInv'
  BY <1>0, <1>8 DEF CreateLock, LockFault, Goto, LockInv, TypeOK
<1>9. ASSUME NEW p \in Procs, StatLock(p) PROVE LockInv'
  BY <1>0, <1>9 DEF StatLock, Goto, LockInv, TypeOK, files
<1>10. ASSUME NEW p \in Procs, TakeOverLock(p) PROVE FALSE
  BY <1>0, <1>10 DEF TakeOverLock, LockInv
<1>11. ASSUME NEW p \in Procs, Unlock(p) PROVE LockInv'
  BY <1>0, <1>11 DEF Unlock, LockFault, Goto, LockInv, TypeOK
<1>12. ASSUME AgeLock PROVE FALSE
  BY <1>0, <1>12 DEF AgeLock, LockInv
<1>13. ASSUME NEW p \in Procs, Restart(p) PROVE LockInv'
  BY <1>0, <1>13, LockFrame DEF Restart, files
<1>14. ASSUME NEW p \in Procs, Crash(p) PROVE FALSE
  BY <1>0, <1>14 DEF Crash
<1>15. ASSUME DamageMain PROVE FALSE
  BY <1>0, <1>15 DEF DamageMain
<1>16. ASSUME UNCHANGED <<pc, lock, locked, faults>> PROVE LockInv'
  BY <1>16 DEF LockInv
<1>17. ASSUME NEW p \in Procs, BeginRequest(p) PROVE LockInv'
  BY <1>16, <1>17 DEF BeginRequest, files, bounds, past
<1>18. ASSUME NEW p \in Procs, Step(p) PROVE LockInv'
  BY <1>5, <1>6, <1>7, <1>8, <1>9, <1>10, <1>11, <1>18 DEF Step, LockStep, SaveStep
<1>19. CASE UNCHANGED vars
  BY <1>16, <1>19 DEF vars, files, bounds, past
<1> QED
  BY <1>1, <1>2, <1>3, <1>4, <1>12, <1>13, <1>14, <1>17, <1>18, <1>19, <1>15 DEF Next

-----------------------------------------------------------------------------
(* The two copies of the pool                                              *)

\* An edit that does not empty a pool leaves one that can be used.
LEMMA LoadedUsable ==
    ASSUME TypeOK, NEW p \in Procs, NEW d \in Docs, Loaded(p, d), Saving(p)', ~emptied'
    PROVE  Usable(doc[p])' /\ ~emptied
<1>1. job[p].kind \in Kinds /\ job[p] \in Jobs
  BY DEF Loaded, Goto, Saving, TypeOK
<1>2. job[p].kind # "view" /\ job[p].kind # "boot"
  BY <1>1 DEF Kinds
<1>3. Apply(job[p], d) \in Docs
  BY <1>1, ApplyType
<1> QED
  BY <1>1, <1>2, <1>3 DEF Loaded, Usable, TypeOK

\* What another process holds or saves is not touched by a step of this one.
LEMMA CurFrame ==
    ASSUME TypeOK, CurInv, NEW p \in Procs, NEW label, Goto(p, label),
           emptied => emptied', junked => junked', main' = Junk => junked',
           \A q \in Procs \ {p} : doc'[q] = doc[q] /\ cur'[q] = cur[q],
           label \in {"backupOpen", "backupWrite"} =>
               Usable(cur[p])' \/ (junked' /\ cur'[p] = Junk),
           Saving(p)' /\ ~emptied' => Usable(doc[p])'
    PROVE  CurInv'
<1>1. \A q \in Procs \ {p} : pc'[q] = pc[q]
  BY DEF Goto, TypeOK
<1>2. pc'[p] = label
  BY DEF Goto, TypeOK
<1> QED
  BY <1>1, <1>2 DEF CurInv, Saving, Usable

\* Every step keeps a pool with relays in the hands of who saves or backs up.
LEMMA CurInvStep == TypeOK /\ CurInv /\ [Next]_vars => CurInv'
<1> SUFFICES ASSUME TypeOK, CurInv, [Next]_vars PROVE CurInv'
  OBVIOUS
<1>1. ASSUME NEW p \in Procs, ReadForBackup(p) PROVE CurInv'
  BY <1>1 DEF ReadForBackup, WorthBackingUp, Usable, Goto, CurInv, Saving, TypeOK, files, past
<1>2. ASSUME NEW p \in Procs, OpenBackup(p) PROVE CurInv'
  BY <1>2 DEF OpenBackup, Goto, CurInv, Saving, Usable, TypeOK, past
<1>3. ASSUME NEW p \in Procs, WriteBackup(p) PROVE CurInv'
  BY <1>3 DEF WriteBackup, Goto, CurInv, Saving, Usable, TypeOK, past
<1>4. ASSUME NEW p \in Procs, Crash(p) PROVE CurInv'
  BY <1>4 DEF Crash, Goto, CurInv, Saving, Usable, TypeOK, files, past
<1>5. ASSUME UNCHANGED <<main, cur, doc, past>>, NEW p \in Procs, NEW label, Goto(p, label),
             label \notin {"backupRead", "backupOpen", "backupWrite", "rename"}
      PROVE  CurInv'
  BY <1>5 DEF Goto, CurInv, Saving, Usable, TypeOK, past
<1>6. ASSUME NEW p \in Procs, BeginEdit(p) \/ BeginStick(p) \/ BeginView(p) \/ Restart(p)
      PROVE  CurInv'
  BY <1>5, <1>6 DEF BeginEdit, BeginStick, BeginView, Begin, Restart, files
<1>7. ASSUME NEW p \in Procs, BeginMenu(p) PROVE CurInv'
  <2>1. PICK r \in cache[p].relays : doc' = [doc EXCEPT ![p] = [cache[p] EXCEPT !.url = r]]
    BY <1>7 DEF BeginMenu
  <2>2. cache[p] \in Docs /\ r \in Relays
    BY <2>1 DEF TypeOK, Docs
  <2>3. Usable([cache[p] EXCEPT !.url = r])
    BY <2>1, <2>2, SwitchType DEF Usable, Docs
  <2> QED
    BY <1>7, <2>1, <2>3 DEF BeginMenu, Begin, Goto, CurInv, Saving, Usable, TypeOK, files, past
<1>8. ASSUME NEW p \in Procs, LockStep(p) PROVE CurInv'
  BY <1>5, <1>8 DEF LockStep, CreateLock, StatLock, TakeOverLock, Unlock, Goto, TypeOK, files
<1>9. ASSUME NEW p \in Procs, NEW d \in Docs, Loaded(p, d), UNCHANGED <<cur, junked>>,
             main' = Junk => junked'
      PROVE  CurInv'
  <2>1. Saving(p)' /\ ~emptied' => Usable(doc[p])'
    BY <1>9, LoadedUsable
  <2>2. emptied => emptied'
    BY <1>9 DEF Loaded
  <2>3. \A q \in Procs \ {p} : doc'[q] = doc[q]
    BY <1>9 DEF Loaded, TypeOK
  <2>4. PICK label : Goto(p, label) /\ label \notin {"backupOpen", "backupWrite"}
    BY <1>9 DEF Loaded
  <2> QED
    BY <1>9, <2>1, <2>2, <2>3, <2>4, CurFrame
<1>10. ASSUME NEW p \in Procs, ReadMain(p) PROVE CurInv'
  <2>1. CASE Usable(main) /\ Loaded(p, Parse(main))
    BY <1>9, <1>10, <2>1, ParseType DEF ReadMain, CurInv, files
  <2>2. CASE ~Usable(main) /\ Goto(p, "readBak") /\ UNCHANGED <<doc, job, cache, healing, emptied>>
    BY <1>5, <1>10, <2>2 DEF ReadMain, files, past
  <2> QED
    BY <1>10, <2>1, <2>2 DEF ReadMain
<1>11. ASSUME NEW p \in Procs, ReadBak(p) PROVE CurInv'
  <2>1. CASE ~Usable(bak) /\ Loaded(p, Fresh)
    <3>1. Fresh \in Docs
      BY DEF Fresh, Docs
    <3> QED
      BY <1>9, <1>11, <2>1, <3>1 DEF ReadBak, CurInv, files
  <2>2. CASE /\ Usable(bak)
             /\ doc' = [doc EXCEPT ![p] = Parse(bak)]
             /\ Goto(p, "backupRead")
             /\ UNCHANGED <<job, cache, emptied>>
    <3>1. Usable(Parse(bak))
      BY <2>2, ParseType DEF Usable, Parse, Docs
    <3> QED
      BY <1>11, <2>2, <3>1 DEF ReadBak, Goto, CurInv, Saving, Usable, TypeOK, files, past
  <2> QED
    BY <1>11, <2>1, <2>2 DEF ReadBak
<1>12. ASSUME NEW p \in Procs, Rename(p) PROVE CurInv'
  <2>1. doc[p] \in Docs /\ (main' = Junk => junked')
    <3>1. doc[p] \in Docs /\ Junk \notin Docs
      BY RelayStoreAssumption DEF TypeOK, Docs
    <3> QED
      BY <1>12, <3>1 DEF Rename, Replace, WriteFails, CurInv
  <2>2. CASE healing[p] /\ Loaded(p, doc[p])
    BY <1>9, <1>12, <2>1, <2>2 DEF Rename
  <2>3. CASE ~healing[p] /\ Goto(p, "publish") /\ UNCHANGED <<doc, job, cache, healing, emptied>>
    BY <1>12, <2>1, <2>3 DEF Rename, Goto, CurInv, Saving, Usable, TypeOK
  <2> QED
    BY <1>12, <2>2, <2>3 DEF Rename
<1>13. ASSUME NEW p \in Procs, Publish(p) PROVE CurInv'
  BY <1>13 DEF Publish, Goto, CurInv, Saving, Usable, TypeOK, files, past
<1>14. CASE DamageMain
  <2>1. Damaged # Junk /\ Missing # Junk /\ Fresh # Junk
    BY RelayStoreAssumption DEF Fresh
  <2> QED
    BY <1>14, <2>1 DEF DamageMain, CurInv, Saving, Usable
<1>15. CASE UNCHANGED <<main, pc, cur, doc, past>>
  BY <1>15 DEF CurInv, Saving, Usable, past
<1> QED
  BY <1>1, <1>2, <1>3, <1>4, <1>6, <1>7, <1>8, <1>10, <1>11, <1>12, <1>13, <1>14, <1>15
     DEF Next, Step, LoadStep, SaveStep, BeginRequest, AgeLock, vars, files

\* A step that touches neither copy, nor a writer about to complete one.
LEMMA PoolFrame ==
    ASSUME TypeOK, PoolInv, NEW p \in Procs, NEW label, Goto(p, label),
           pc[p] \notin {"backupWrite", "rename"},
           UNCHANGED <<main, bak, junked>>, emptied => emptied',
           \A q \in Procs \ {p} : doc'[q] = doc[q] /\ cur'[q] = cur[q],
           faults' \in {faults, faults + 1}
    PROVE  PoolInv'
<1>1. \A q \in Procs \ {p} : pc'[q] = pc[q] /\ doc'[q] = doc[q] /\ cur'[q] = cur[q]
  BY DEF Goto, TypeOK
<1>2. BackupGood => BackupGood'
  BY <1>1 DEF BackupGood, Usable
<1>3. InMemory => InMemory'
  BY <1>1 DEF InMemory, Usable
<1> QED
  BY <1>2, <1>3 DEF PoolInv, Usable, TypeOK

\* No step spends the last usable copy, with one fault at most.
LEMMA PoolInvStep == TypeOK /\ CurInv /\ PoolInv /\ [Next]_vars => PoolInv'
<1> SUFFICES ASSUME TypeOK, CurInv, PoolInv, [Next]_vars PROVE PoolInv'
  OBVIOUS
<1>1. ASSUME NEW p \in Procs,
             BeginEdit(p) \/ BeginMenu(p) \/ BeginStick(p) \/ BeginView(p) \/ Restart(p)
      PROVE  PoolInv'
  <2>1. /\ pc[p] \in {"idle", "dead"} /\ UNCHANGED <<main, bak, cur, past, faults>>
        /\ \A q \in Procs \ {p} : doc'[q] = doc[q]
        /\ \E label : Goto(p, label)
    BY <1>1 DEF BeginEdit, BeginMenu, BeginStick, BeginView, Begin, Restart, files, bounds, TypeOK
  <2> QED
    BY <2>1, PoolFrame DEF past
<1>2. ASSUME NEW p \in Procs, LockStep(p) PROVE PoolInv'
  <2>1. /\ pc[p] \in {"lock", "lockStat", "lockRm", "unlock"}
        /\ UNCHANGED <<main, bak, doc, cur, past>>
        /\ faults' \in {faults, faults + 1}
        /\ \E label : Goto(p, label)
    BY <1>2 DEF LockStep, CreateLock, StatLock, TakeOverLock, Unlock, LockFault, files, bounds
  <2> QED
    BY <2>1, PoolFrame DEF past
<1>3. ASSUME NEW p \in Procs, LoadStep(p) PROVE PoolInv'
  <2>1. /\ pc[p] \in {"readMain", "readBak"}
        /\ UNCHANGED <<main, bak, cur, junked, faults>>
        /\ emptied => emptied'
        /\ \A q \in Procs \ {p} : doc'[q] = doc[q]
        /\ \E label : Goto(p, label)
    BY <1>3 DEF LoadStep, ReadMain, ReadBak, Loaded, files, bounds, TypeOK
  <2> QED
    BY <2>1, PoolFrame
<1>4. ASSUME NEW p \in Procs, ReadForBackup(p) \/ Publish(p) PROVE PoolInv'
  <2>1. /\ pc[p] \in {"backupRead", "publish"}
        /\ UNCHANGED <<main, bak, past, faults>>
        /\ \A q \in Procs \ {p} : doc'[q] = doc[q] /\ cur'[q] = cur[q]
        /\ \E label : Goto(p, label)
    BY <1>4 DEF ReadForBackup, Publish, files, bounds, TypeOK
  <2> QED
    BY <2>1, PoolFrame DEF past
\* From here on the pool is in the backup, or else in memory.
<1>5. ASSUME NEW p \in Procs, OpenBackup(p) PROVE PoolInv'
  <2>1. pc'[p] = "backupWrite" /\ UNCHANGED <<main, doc, cur, past, faults>>
    BY <1>5 DEF OpenBackup, Goto, TypeOK, bounds
  <2>2. CASE Usable(cur[p])
    <3>1. BackupGood'
      BY <2>1, <2>2 DEF BackupGood, Usable
    <3> QED
      BY <2>1, <3>1 DEF PoolInv, Usable, past
  <2>3. CASE junked /\ cur[p] = Junk
    <3>1. ~emptied => InMemory'
      BY <1>5, <2>1 DEF OpenBackup, CurInv, Saving, InMemory, Usable
    <3> QED
      BY <2>1, <2>3, <3>1 DEF PoolInv, Usable, past
  <2> QED
    BY <1>5, <2>2, <2>3 DEF OpenBackup, CurInv
<1>6. ASSUME NEW p \in Procs, WriteBackup(p) PROVE PoolInv'
  <2>1. pc'[p] = "rename" /\ pc[p] = "backupWrite" /\ UNCHANGED <<main, doc, past>>
    BY <1>6 DEF WriteBackup, Goto, TypeOK
  <2>2. CASE bak' = cur[p] /\ UNCHANGED faults /\ Usable(cur[p])
    <3>1. BackupGood'
      BY <2>2 DEF BackupGood, Usable
    <3> QED
      BY <2>1, <2>2, <3>1 DEF PoolInv, Usable, past
  <2>3. CASE bak' = cur[p] /\ UNCHANGED faults /\ junked /\ cur[p] = Junk
    <3>1. ~emptied => InMemory'
      BY <2>1 DEF CurInv, Saving, InMemory, Usable
    <3> QED
      BY <2>1, <2>3, <3>1 DEF PoolInv, Usable, past
  <2>4. CASE faults' = faults + 1
    BY <2>1, <2>4 DEF PoolInv, Usable, TypeOK, past
  <2> QED
    BY <1>6, <2>2, <2>3, <2>4 DEF WriteBackup, CurInv
<1>7. ASSUME NEW p \in Procs, Rename(p) PROVE PoolInv'
  <2>1. pc[p] = "rename" /\ UNCHANGED <<bak, cur, junked>> /\ (emptied => emptied')
    BY <1>7 DEF Rename, Replace, WriteFails, Loaded, TypeOK
  <2>2. BackupGood => BackupGood'
    BY <1>7, <2>1 DEF Rename, Loaded, Goto, BackupGood, TypeOK, Usable
  <2>3. CASE Replace(p)
    <3>1. ~emptied' => ~emptied /\ Usable(main')
      BY <2>1, <2>3 DEF Replace, CurInv, Saving
    <3> QED
      BY <2>1, <2>2, <2>3, <3>1 DEF Replace, PoolInv, Usable
  <2>4. CASE WriteFails
    BY <2>1, <2>2, <2>4 DEF WriteFails, PoolInv, Usable, TypeOK
  <2> QED
    BY <1>7, <2>3, <2>4 DEF Rename
<1>8. ASSUME NEW p \in Procs, Crash(p) PROVE PoolInv'
  BY <1>8 DEF Crash, PoolInv, files, Usable, TypeOK, past
<1>9. CASE DamageMain
  <2>1. BackupGood => BackupGood'
    BY <1>9 DEF DamageMain, BackupGood, Usable
  <2> QED
    BY <1>9, <2>1 DEF DamageMain, PoolInv, TypeOK
<1>10. CASE UNCHANGED <<main, bak, pc, doc, cur, faults, past>>
  BY <1>10 DEF PoolInv, BackupGood, InMemory, Usable, past
<1> QED
  BY <1>1, <1>2, <1>3, <1>4, <1>5, <1>6, <1>7, <1>8, <1>9, <1>10
     DEF Next, Step, SaveStep, BeginRequest, AgeLock, files, bounds, vars

-----------------------------------------------------------------------------
(* What the lock is enough for                                             *)

\* Adds reported to a user, of relays nobody asked to remove.
Kept == added \ dropped

\* The pool an edit was begun for is loaded before anything is saved for it.
JobHeld(p) ==
    job[p].kind \in Kinds =>
        pc[p] \in {"lock", "lockStat", "lockRm"} \/ Loading(p) \/ (Saving(p) /\ healing[p])

\* An edit is forgotten once its pool has been loaded and edited, and the
\* history of a process agrees with it until then.
JobInv(p) ==
    /\ JobHeld(p)
    /\ job[p].kind = "add" => adding[p] = job[p].relay
    /\ job[p].kind = "remove" => job[p].relay \in dropped
    /\ job[p].kind \in Kinds \ {"add"} => adding[p] = NoRelay
    /\ pc[p] = "idle" => adding[p] = NoRelay

\* Who saves holds the lock, what it saves has every relay kept so far, and an
\* add that is about to be reported is in it, or will be once the pool that was
\* recovered for it has been edited.
EditInv(p) ==
    /\ pc[p] # "dead"
    /\ locked[p] => pc[p] \notin {"idle", "lock", "lockStat"}
    /\ Saving(p) \/ pc[p] = "publish" => locked[p]
    /\ pc[p] \in {"lock", "lockStat"} => job[p].kind \in Kinds
    /\ Loading(p) /\ locked[p] => job[p].kind \in Kinds
    /\ Loading(p) /\ ~locked[p] => job[p].kind = "view"
    /\ Saving(p) /\ healing[p] => job[p].kind \in Kinds
    /\ pc[p] = "readBak" /\ locked[p] => Kept = {}
    /\ Saving(p) => Kept \subseteq doc[p].relays
    /\ Saving(p) /\ ~healing[p] => adding[p] \in doc[p].relays \cup {NoRelay}
    /\ pc[p] = "publish" => adding[p] \in main.relays \cup {NoRelay}

PoolKept == main \in Docs /\ Kept \subseteq main.relays

\* As long as nothing fails and nobody saves without the lock.
EditsInv ==
    bypassed = {} /\ faults = 0 => PoolKept /\ \A p \in Procs : EditInv(p)

\* What a step of one process leaves alone in another.
Still(q) == UNCHANGED <<pc[q], job[q], doc[q], locked[q], healing[q]>>

-----------------------------------------------------------------------------
(* The history of a step                                                   *)

\* An edit starts in a process at rest.
LEMMA JobsBegin ==
    ASSUME TypeOK, Next, NEW p \in Procs, job'[p].kind \in Kinds
    PROVE  job'[p] = job[p] \/ pc[p] = "idle"
<1> SUFFICES ASSUME job'[p] # job[p] PROVE pc[p] = "idle"
  OBVIOUS
<1>0. NoJob.kind \notin Kinds
  BY DEF NoJob, Kinds
<1>1. ASSUME NEW q \in Procs,
             BeginEdit(q) \/ BeginMenu(q) \/ BeginStick(q) \/ BeginView(q)
      PROVE  pc[p] = "idle"
  BY <1>0, <1>1 DEF BeginEdit, BeginMenu, BeginStick, BeginView, Begin, TypeOK
<1>2. ASSUME NEW q \in Procs, LoadStep(q) \/ Rename(q) PROVE pc[p] = "idle"
  BY <1>0, <1>2 DEF LoadStep, ReadMain, ReadBak, Rename, Loaded, TypeOK
<1>3. ASSUME NEW q \in Procs, Crash(q) PROVE pc[p] = "idle"
  BY <1>0, <1>3 DEF Crash, TypeOK
<1>4. ASSUME NEW q \in Procs, Restart(q) PROVE pc[p] = "idle"
  BY <1>4 DEF Restart, TypeOK, Kinds
<1>5. job' = job => pc[p] = "idle"
  OBVIOUS
<1> QED
  BY <1>1, <1>2, <1>3, <1>4, <1>5
     DEF Next, Step, LockStep, SaveStep, BeginRequest, AgeLock, DamageMain, CreateLock,
         StatLock, TakeOverLock, Unlock, ReadForBackup, OpenBackup, WriteBackup, Publish

\* An edit is dropped as soon as it has been applied.
LEMMA JobHeldStep ==
    ASSUME TypeOK, \A p \in Procs : JobHeld(p), Next
    PROVE  \A p \in Procs : JobHeld(p)'
<1> SUFFICES ASSUME NEW p \in Procs PROVE JobHeld(p)'
  OBVIOUS
<1>0. NoJob.kind \notin Kinds
  BY DEF NoJob, Kinds
<1>1. ASSUME NEW q \in Procs, BeginEdit(q) \/ BeginMenu(q) \/ BeginStick(q) \/ BeginView(q)
      PROVE  JobHeld(p)'
  <2>1. PICK j, label : Begin(q, j, label) /\ (label = "lock" \/ j = NoJob)
    BY <1>1 DEF BeginEdit, BeginMenu, BeginStick, BeginView
  <2> QED
    BY <1>0, <1>1, <2>1
       DEF BeginEdit, BeginMenu, BeginStick, BeginView, Begin, Goto, TypeOK, JobHeld,
           Loading, Saving
<1>2. ASSUME NEW q \in Procs, LockStep(q) PROVE JobHeld(p)'
  BY <1>2 DEF LockStep, CreateLock, StatLock, TakeOverLock, Unlock, Goto, TypeOK, JobHeld,
              Loading, Saving
<1>3. ASSUME NEW q \in Procs, NEW d, Loaded(q, d) PROVE JobHeld(p)'
  BY <1>0, <1>3 DEF Loaded, Goto, TypeOK, JobHeld, Loading, Saving
<1>4. ASSUME NEW q \in Procs, LoadStep(q) PROVE JobHeld(p)'
  BY <1>3, <1>4 DEF LoadStep, ReadMain, ReadBak, Goto, TypeOK, JobHeld, Loading, Saving
<1>5. ASSUME NEW q \in Procs, SaveStep(q) PROVE JobHeld(p)'
  BY <1>3, <1>5 DEF SaveStep, ReadForBackup, OpenBackup, WriteBackup, Rename, Publish, Goto,
                    TypeOK, JobHeld, Loading, Saving
<1>6. ASSUME NEW q \in Procs, Crash(q) \/ Restart(q) PROVE JobHeld(p)'
  BY <1>0, <1>6 DEF Crash, Restart, Goto, TypeOK, JobHeld, Loading, Saving, Kinds
<1>7. CASE UNCHANGED <<pc, job, healing>>
  BY <1>7 DEF JobHeld, Loading, Saving
<1> QED
  BY <1>1, <1>2, <1>4, <1>5, <1>6, <1>7 DEF Next, Step, BeginRequest, AgeLock, DamageMain

\* The history of a process follows its edit.
LEMMA JobInvStep ==
    ASSUME TypeOK, \A p \in Procs : JobInv(p), [Next /\ HistNext]_<<vars, hist>>
    PROVE  \A p \in Procs : JobInv(p)'
<1>1. CASE UNCHANGED <<vars, hist>>
  BY <1>1 DEF vars, hist, JobInv, JobHeld, Loading, Saving
<1>2. CASE Next /\ HistNext
  <2> SUFFICES ASSUME NEW p \in Procs PROVE JobInv(p)'
    OBVIOUS
  <2>1. adding'[p] = IF job'[p].kind = "add" THEN job'[p].relay
                     ELSE IF pc'[p] \in {"idle", "dead"} THEN NoRelay ELSE adding[p]
    BY <1>2 DEF HistNext
  <2>2. job'[p].kind = "remove" => job'[p].relay \in dropped'
    BY <1>2 DEF HistNext
  <2>3. job'[p].kind \in Kinds \ {"add"} => adding'[p] = NoRelay
    BY <1>2, <2>1, JobsBegin DEF JobInv
  <2>4. JobHeld(p)'
    BY <1>2, JobHeldStep DEF JobInv
  <2>5. pc'[p] = "idle" => job'[p].kind # "add"
    BY <2>4 DEF JobHeld, Loading, Saving, Kinds
  <2> QED
    BY <2>1, <2>2, <2>3, <2>4, <2>5 DEF JobInv
<1> QED
  BY <1>1, <1>2

-----------------------------------------------------------------------------
(* Edits under the lock                                                    *)

\* Only a process that publishes reports an add.
LEMMA KeptShrinks ==
    ASSUME TypeOK, HistNext, \A q \in Procs : pc'[q] = pc[q] \/ pc[q] # "publish"
    PROVE  Kept' \subseteq Kept
<1>1. ASSUME NEW q \in Procs, Publish(q) PROVE FALSE
  <2>1. pc[q] = "publish" /\ pc' = [pc EXCEPT ![q] = IF locked[q] THEN "unlock" ELSE "idle"]
    BY <1>1 DEF Publish, Goto
  <2> QED
    BY <1>1, <2>1 DEF TypeOK
<1> QED
  BY <1>1 DEF HistNext, Kept

\* As long as nobody goes around the lock, no process did in this step.
LEMMA NoBypass ==
    ASSUME HistNext, bypassed' = {}, NEW p \in Procs
    PROVE  /\ bypassed = {}
           /\ ~BeginMenu(p)
           /\ pc[p] = "lockStat" => pc'[p] # "readMain"
           /\ Recovering(p) => locked[p]
<1> DEFINE held == {q \in Procs : pc[q] = "lockStat" /\ pc'[q] = "readMain"}
           menu == {q \in Procs : BeginMenu(q)}
           unlocked == {q \in Procs : Recovering(q) /\ ~locked[q]}
<1>1. bypassed' = bypassed \cup {"held" : q \in held} \cup {"menu" : q \in menu}
                           \cup {"recovery" : q \in unlocked}
  BY DEF HistNext
<1>2. held = {} /\ menu = {} /\ unlocked = {} /\ bypassed = {}
  <2> HIDE DEF held, menu, unlocked
  <2> QED
    BY <1>1
<1> QED
  BY <1>2

\* A process that takes no step keeps what it had, unless the one that does
\* holds the lock, when it has nothing to lose.
LEMMA Elsewhere ==
    ASSUME HistNext, NEW p \in Procs, NEW q \in Procs, Still(q), JobInv(q), EditInv(q),
           locked[p] => ~locked[q],
           locked[p] \/ (UNCHANGED main /\ Kept' \subseteq Kept)
    PROVE  EditInv(q)'
<1>1. adding'[q] = adding[q]
  <2>1. adding'[q] = IF job[q].kind = "add" THEN job[q].relay
                     ELSE IF pc[q] \in {"idle", "dead"} THEN NoRelay ELSE adding[q]
    BY DEF HistNext, Still
  <2> QED
    BY <2>1 DEF JobInv, EditInv
<1> QED
  BY <1>1 DEF Still, EditInv, Saving, Loading

\* An edit takes out the relay it removes and no other; one that adds has it.
LEMMA ApplyKeeps ==
    ASSUME NEW j \in Jobs, j.kind \in Kinds, NEW s \in Docs
    PROVE  /\ \A r \in s.relays : r \in Apply(j, s).relays \/ (j.kind = "remove" /\ r = j.relay)
           /\ j.kind = "add" => j.relay \in Apply(j, s).relays
<1>1. s = [relays |-> s.relays, url |-> s.url]
  BY DEF Docs
<1>2. CASE j.kind = "remove"
  <2>1. Apply(j, s) = Removed(s, j.relay)
    BY <1>2 DEF Apply
  <2> QED
    BY <1>2, <2>1 DEF Removed
<1>3. CASE j.kind = "add"
  <2>1. Apply(j, s) = [Ensured(s, j.relay) EXCEPT !.url = j.relay]
    BY <1>3 DEF Apply
  <2>2. Apply(j, s).relays = s.relays \cup {j.relay}
    BY <1>1, <2>1 DEF Ensured
  <2> QED
    BY <1>3, <2>2
<1>4. CASE j.kind = "use" \/ j.kind = "stick"
  <2>1. Apply(j, s).relays = s.relays
    BY <1>1, <1>4 DEF Apply
  <2> QED
    BY <1>4, <2>1
<1>5. CASE j.kind = "keep"
  <2>1. Apply(j, s) = IF s.url = NoRelay THEN s ELSE Ensured(s, s.url)
    BY <1>5 DEF Apply
  <2>2. s.relays \subseteq Apply(j, s).relays
    BY <1>1, <2>1 DEF Ensured
  <2> QED
    BY <1>5, <2>2
<1> QED
  BY <1>2, <1>3, <1>4, <1>5 DEF Kinds

\* An edit of a pool that has what is kept saves a pool that has it too.
LEMMA EditLoaded ==
    ASSUME TypeOK, NEW p \in Procs, NEW d \in Docs, Loaded(p, d), HistNext,
           UNCHANGED locked, locked[p], job[p].kind \in Kinds, JobInv(p),
           Kept \subseteq d.relays, Kept' \subseteq Kept
    PROVE  EditInv(p)'
<1>1. /\ job[p] \in Jobs
      /\ pc' = [pc EXCEPT ![p] = "backupRead"]
      /\ doc' = [doc EXCEPT ![p] = Apply(job[p], d)]
      /\ healing' = [healing EXCEPT ![p] = FALSE]
      /\ job' = [job EXCEPT ![p] = NoJob]
  BY DEF Loaded, Goto, Kinds, TypeOK
<1>2. pc'[p] = "backupRead" /\ doc'[p] = Apply(job[p], d) /\ ~healing'[p] /\ job'[p] = NoJob
  BY <1>1 DEF TypeOK
<1>3. adding'[p] = adding[p]
  BY <1>2 DEF HistNext, NoJob
<1>4. Kept' \subseteq Apply(job[p], d).relays
  <2> SUFFICES ASSUME NEW r \in Kept' PROVE r \in Apply(job[p], d).relays
    OBVIOUS
  <2>1. r \in d.relays /\ r \notin dropped
    BY DEF Kept
  <2> QED
    BY <1>1, <2>1, ApplyKeeps DEF JobInv
<1>5. adding[p] \in Apply(job[p], d).relays \cup {NoRelay}
  BY <1>1, ApplyKeeps DEF JobInv
<1> QED
  BY <1>2, <1>3, <1>4, <1>5 DEF EditInv, Saving, Loading

\* Every step keeps the relays reported, as long as nobody goes around the lock.
LEMMA EditsInvStep ==
    ASSUME TypeOK, LockInv, EditsInv, \A p \in Procs : JobInv(p),
           [Next /\ HistNext]_<<vars, hist>>
    PROVE  EditsInv'
<1>1. CASE UNCHANGED <<vars, hist>>
  BY <1>1 DEF vars, files, bounds, past, hist, EditsInv, PoolKept, EditInv, Kept, Saving, Loading
<1> SUFFICES ASSUME Next, HistNext, bypassed' = {}, faults' = 0
             PROVE  PoolKept' /\ \A p \in Procs : EditInv(p)'
  BY <1>1 DEF EditsInv
<1>2. /\ faults = 0 /\ bypassed = {} /\ PoolKept
      /\ \A p \in Procs : EditInv(p)
      /\ \A p, q \in Procs : locked[p] /\ locked[q] => p = q
      /\ \A p \in Procs : pc[p] # "lockRm"
  <2>1. faults = 0 /\ bypassed = {}
    <3>1. faults \in Nat /\ faults' >= faults
      BY FaultsGrow DEF TypeOK
    <3>2. bypassed \subseteq bypassed'
      BY DEF HistNext
    <3> QED
      BY <3>1, <3>2
  <2> QED
    BY <2>1 DEF EditsInv, LockInv
<1> DEFINE Others(p) == \A q \in Procs \ {p} : Still(q)
\* A step of p that leaves main alone and reports nothing.
<1>3. ASSUME NEW p \in Procs, Others(p), EditInv(p)', UNCHANGED main, Kept' \subseteq Kept
      PROVE  PoolKept' /\ \A q \in Procs : EditInv(q)'
  <2>1. PoolKept'
    BY <1>2, <1>3 DEF PoolKept
  <2>2. ASSUME NEW q \in Procs \ {p} PROVE EditInv(q)'
    BY <1>2, <1>3, <2>2, Elsewhere
  <2> QED
    BY <1>3, <2>1, <2>2
<1>4. ASSUME NEW p \in Procs, Others(p), pc[p] # "publish" PROVE Kept' \subseteq Kept
  BY <1>4, KeptShrinks DEF Still
<1>5. ASSUME NEW p \in Procs, BeginEdit(p) \/ BeginStick(p) \/ BeginView(p)
      PROVE  PoolKept' /\ \A q \in Procs : EditInv(q)'
  <2>1. PICK j, label : /\ Begin(p, j, label)
                        /\ \/ label = "lock" /\ j.kind \in Kinds
                           \/ label = "readMain" /\ j = NoJob
    <3>1. CASE BeginEdit(p)
      BY <3>1 DEF BeginEdit, Kinds
    <3>2. CASE BeginStick(p)
      BY <3>2 DEF BeginStick, Kinds
    <3>3. CASE BeginView(p)
      BY <3>3 DEF BeginView
    <3> QED
      BY <1>5, <3>1, <3>2, <3>3
  <2>2. UNCHANGED <<main, doc, locked, healing>>
    BY <1>5 DEF BeginEdit, BeginStick, BeginView, files
  <2>3. pc[p] = "idle" /\ pc'[p] = label /\ job'[p] = j /\ Others(p)
    BY <2>1, <2>2 DEF Begin, Goto, TypeOK, Still
  <2>4. Kept' \subseteq Kept
    BY <1>4, <2>3
  <2>5. EditInv(p)'
    BY <1>2, <2>1, <2>2, <2>3 DEF EditInv, Saving, Loading, NoJob, Kinds
  <2> QED
    BY <1>3, <2>2, <2>3, <2>4, <2>5
<1>6. ASSUME NEW p \in Procs, BeginMenu(p) PROVE FALSE
  BY <1>6, NoBypass
<1>7. ASSUME NEW p \in Procs, LockStep(p)
      PROVE  PoolKept' /\ \A q \in Procs : EditInv(q)'
  <2>1. Others(p) /\ UNCHANGED <<main, doc, job, healing>>
    BY <1>7 DEF LockStep, CreateLock, StatLock, TakeOverLock, Unlock, Goto, TypeOK, Still, files
  <2>2. /\ pc[p] \in {"lock", "lockStat", "unlock"}
        /\ \/ pc[p] = "lock" /\ locked'[p] /\ pc'[p] = "readMain"
           \/ pc[p] \in {"lock", "lockStat"} /\ ~locked'[p] /\ pc'[p] \in {"lock", "lockStat"}
           \/ ~locked'[p] /\ pc'[p] = "idle"
    <3>1. pc[p] \in {"lock", "lockStat"} => ~locked[p]
      BY <1>2 DEF EditInv
    <3>2. CASE CreateLock(p)
      BY <1>2, <3>1, <3>2 DEF CreateLock, LockFault, Goto, TypeOK
    <3>3. CASE StatLock(p)
      <4>1. pc'[p] # "readMain"
        BY <3>3, NoBypass DEF StatLock
      <4>2. pc'[p] \in {"lock", "lockRm"}
        BY <3>3, <4>1 DEF StatLock, Goto, TypeOK
      <4>3. lock # "stale"
        BY <1>2 DEF LockInv
      <4> QED
        BY <3>1, <3>3, <4>1, <4>2, <4>3 DEF StatLock, Goto, TypeOK, files
    <3>4. CASE Unlock(p)
      BY <3>4 DEF Unlock, Goto, TypeOK
    <3>5. CASE TakeOverLock(p)
      BY <1>2, <3>5 DEF TakeOverLock
    <3> QED
      BY <1>7, <3>2, <3>3, <3>4, <3>5 DEF LockStep
  <2>3. Kept' \subseteq Kept
    BY <1>4, <2>1, <2>2
  <2>4. EditInv(p)'
    BY <1>2, <2>1, <2>2 DEF EditInv, Saving, Loading
  <2> QED
    BY <1>3, <2>1, <2>3, <2>4
<1>8. ASSUME NEW p \in Procs, LoadStep(p)
      PROVE  PoolKept' /\ \A q \in Procs : EditInv(q)'
  <2>1. Others(p) /\ UNCHANGED <<main, locked>> /\ Loading(p)
    BY <1>8 DEF LoadStep, ReadMain, ReadBak, Loaded, Goto, TypeOK, Still, Loading, files
  <2>2. Kept' \subseteq Kept
    BY <1>4, <2>1 DEF Loading
  \* What is read has every relay kept, if it is read for an edit.
  <2>3. ASSUME NEW d \in Docs, Loaded(p, d), locked[p] => Kept \subseteq d.relays
        PROVE  EditInv(p)'
    <3>1. CASE locked[p]
      <4>1. job[p].kind \in Kinds
        BY <1>2, <2>1, <3>1 DEF EditInv
      <4> QED
        BY <2>1, <2>2, <2>3, <3>1, <4>1, EditLoaded
    <3>2. CASE ~locked[p]
      <4>1. job[p].kind = "view"
        BY <1>2, <2>1, <3>2 DEF EditInv
      <4>2. pc'[p] = "idle" /\ ~locked'[p]
        BY <2>1, <2>3, <3>2, <4>1 DEF Loaded, Goto, TypeOK, Kinds
      <4> QED
        BY <4>2 DEF EditInv, Saving, Loading
    <3> QED
      BY <3>1, <3>2
  <2>4. ASSUME ReadMain(p) PROVE EditInv(p)'
    <3>1. CASE Usable(main) /\ Loaded(p, Parse(main))
      <4>1. Parse(main) \in Docs /\ Parse(main).relays = main.relays
        BY <3>1, ParseType DEF Parse, Usable, Docs
      <4> QED
        BY <1>2, <2>3, <3>1, <4>1 DEF PoolKept
    <3>2. CASE ~Usable(main) /\ Goto(p, "readBak") /\ UNCHANGED <<doc, job, cache, healing, emptied>>
      <4>1. Kept = {}
        BY <1>2, <3>2 DEF PoolKept, Usable
      <4>2. pc'[p] = "readBak" /\ UNCHANGED <<job, locked>>
        BY <2>1, <3>2 DEF Goto, TypeOK
      <4> QED
        BY <1>2, <2>1, <2>2, <4>1, <4>2 DEF EditInv, Saving, Loading
    <3> QED
      BY <2>4, <3>1, <3>2 DEF ReadMain
  <2>5. ASSUME ReadBak(p) PROVE EditInv(p)'
    <3>1. CASE ~Usable(bak) /\ Loaded(p, Fresh)
      <4>1. Fresh \in Docs
        BY DEF Fresh, Docs
      <4>2. locked[p] => Kept = {}
        BY <1>2, <2>5 DEF EditInv, ReadBak
      <4> QED
        BY <2>3, <3>1, <4>1, <4>2
    <3>2. CASE /\ healing' = [healing EXCEPT ![p] = TRUE]
               /\ Goto(p, "backupRead")
               /\ UNCHANGED <<job, cache, emptied>>
      <4>1. pc[p] = "readBak" /\ pc'[p] = "backupRead" /\ healing'[p]
        BY <2>5, <3>2 DEF ReadBak, Goto, TypeOK
      <4>2. locked[p]
        BY <4>1, NoBypass DEF Recovering
      <4>3. Kept = {} /\ job[p].kind \in Kinds
        BY <1>2, <4>1, <4>2 DEF EditInv, Loading
      <4> QED
        BY <2>1, <2>2, <3>2, <4>1, <4>2, <4>3 DEF EditInv, Saving, Loading
    <3> QED
      BY <2>5, <3>1, <3>2 DEF ReadBak
  <2>6. EditInv(p)'
    BY <1>8, <2>4, <2>5 DEF LoadStep
  <2> QED
    BY <1>3, <2>1, <2>2, <2>6
<1>9. ASSUME NEW p \in Procs, ReadForBackup(p) \/ OpenBackup(p) \/ WriteBackup(p)
      PROVE  PoolKept' /\ \A q \in Procs : EditInv(q)'
  <2>1. Others(p) /\ UNCHANGED <<main, doc, job, healing, locked>>
    BY <1>9 DEF ReadForBackup, OpenBackup, WriteBackup, Goto, TypeOK, Still, files
  <2>2. Saving(p) /\ Saving(p)' /\ pc[p] # "publish"
    BY <1>9 DEF ReadForBackup, OpenBackup, WriteBackup, Goto, TypeOK, Saving
  <2>3. Kept' \subseteq Kept
    BY <1>4, <2>1, <2>2
  <2>4. adding'[p] = adding[p]
    BY <2>1, <2>2 DEF HistNext, JobInv, Saving
  <2>5. EditInv(p)'
    BY <1>2, <2>1, <2>2, <2>3, <2>4 DEF EditInv, Saving, Loading
  <2> QED
    BY <1>3, <2>1, <2>3, <2>5
<1>10. ASSUME NEW p \in Procs, Rename(p)
       PROVE  PoolKept' /\ \A q \in Procs : EditInv(q)'
  <2>1. Others(p) /\ UNCHANGED locked /\ pc[p] = "rename" /\ locked[p]
    BY <1>2, <1>10 DEF Rename, Loaded, Goto, TypeOK, Still, EditInv, Saving
  <2>2. Kept' \subseteq Kept
    BY <1>4, <2>1
  <2>3. main' = doc[p] /\ doc[p] \in Docs
    BY <1>2, <1>10 DEF Rename, Replace, WriteFails, TypeOK
  <2>4. Kept \subseteq doc[p].relays
    BY <1>2, <2>1 DEF EditInv, Saving
  <2>5. CASE healing[p] /\ Loaded(p, doc[p])
    <3>1. job[p].kind \in Kinds
      BY <1>2, <2>1, <2>5 DEF EditInv, Saving
    <3>2. EditInv(p)'
      BY <2>1, <2>2, <2>3, <2>4, <2>5, <3>1, EditLoaded
    <3> QED
      BY <1>2, <2>1, <2>2, <2>3, <2>4, <3>2, Elsewhere DEF PoolKept
  <2>6. CASE ~healing[p] /\ Goto(p, "publish") /\ UNCHANGED <<doc, job, cache, healing, emptied>>
    <3>1. pc'[p] = "publish" /\ job'[p] = job[p]
      BY <2>6 DEF Goto, TypeOK
    <3>2. adding'[p] = adding[p]
      BY <3>1 DEF HistNext, JobInv
    <3>3. EditInv(p)'
      BY <1>2, <2>1, <2>3, <2>6, <3>1, <3>2 DEF EditInv, Saving, Loading
    <3> QED
      BY <1>2, <2>1, <2>2, <2>3, <2>4, <3>3, Elsewhere DEF PoolKept
  <2> QED
    BY <1>10, <2>5, <2>6 DEF Rename
<1>11. ASSUME NEW p \in Procs, Publish(p)
       PROVE  PoolKept' /\ \A q \in Procs : EditInv(q)'
  <2>1. Others(p) /\ UNCHANGED <<main, locked>> /\ pc[p] = "publish"
    BY <1>11 DEF Publish, Goto, TypeOK, Still, files
  <2>2. locked[p] /\ adding[p] \in main.relays \cup {NoRelay}
    BY <1>2, <2>1 DEF EditInv
  <2>3. pc'[p] = "unlock"
    BY <1>11, <2>2 DEF Publish, Goto, TypeOK
  <2>4. Kept' \subseteq Kept \cup main.relays
    <3>1. ASSUME NEW q \in Procs, Publish(q) PROVE q = p
      <4>1. pc[q] = "publish"
        BY <3>1 DEF Publish
      <4> QED
        BY <1>2, <2>2, <4>1 DEF EditInv
    <3>2. added' \subseteq added \cup ({adding[p]} \ {NoRelay})
      BY <3>1 DEF HistNext
    <3>3. dropped \subseteq dropped'
      BY DEF HistNext
    <3> QED
      BY <2>2, <3>2, <3>3 DEF Kept
  <2>5. PoolKept'
    BY <1>2, <2>1, <2>4 DEF PoolKept
  <2>6. EditInv(p)'
    BY <2>1, <2>2, <2>3 DEF EditInv, Saving, Loading
  <2> QED
    BY <1>2, <2>1, <2>2, <2>5, <2>6, Elsewhere
<1>12. ASSUME NEW p \in Procs, Crash(p) \/ Restart(p) PROVE FALSE
  BY <1>2, <1>12 DEF Crash, Restart, EditInv
<1>13. ASSUME DamageMain PROVE FALSE
  BY <1>2, <1>13 DEF DamageMain
<1>14. ASSUME UNCHANGED <<main, pc, job, doc, healing, locked>>
       PROVE  PoolKept' /\ \A q \in Procs : EditInv(q)'
  <2>1. Kept' \subseteq Kept
    BY <1>14, KeptShrinks
  <2>2. ASSUME NEW q \in Procs PROVE adding'[q] = adding[q]
    BY <1>2, <1>14 DEF HistNext, JobInv, EditInv
  <2> QED
    BY <1>2, <1>14, <2>1, <2>2 DEF PoolKept, EditInv, Saving, Loading
<1> QED
  BY <1>5, <1>6, <1>7, <1>8, <1>9, <1>10, <1>11, <1>12, <1>13, <1>14
     DEF Next, Step, SaveStep, BeginRequest, AgeLock, files

-----------------------------------------------------------------------------
\* Type correctness (src/relay-state.ts): whatever is parsed, edited, recovered
\* or saved is a well-formed document.
THEOREM TypeCorrect == Spec => []TypeOK
BY InitTypeOK, TypeOKStep, PTL DEF Spec

\* Until a fault happens, at most one writer holds the lock file, for any
\* number of processes and edits, unlocked writers included.
THEOREM LockSafe == Spec => []LockExclusive
<1>1. Init => LockInv
  BY DEF Init, LockInv
<1>2. LockInv => LockExclusive
  BY DEF LockInv, LockExclusive
<1> QED
  BY <1>1, <1>2, InitTypeOK, TypeOKStep, LockInvStep, PTL DEF Spec

\* One crash, failed write or damaged file never costs the pool, for any
\* number of processes and edits; where main was left with entries that are no
\* relays, both files may be unusable until the writers that hold the pool save it.
THEOREM PoolSafe == Spec => []PoolRecoverable
<1>1. Init => CurInv /\ PoolInv
  <2> SUFFICES ASSUME Init PROVE CurInv /\ PoolInv
    OBVIOUS
  <2>1. main \in Docs /\ bak \in Docs
    BY InitTypeOK, RelayStoreAssumption DEF Init, Docs, FirstOf
  <2>2. Usable(main) /\ Usable(bak)
    BY <2>1, RelayStoreAssumption DEF Init, Usable
  <2>3. Junk \notin Docs
    BY RelayStoreAssumption DEF Docs
  <2> QED
    BY <2>1, <2>2, <2>3 DEF Init, CurInv, Saving, PoolInv, BackupGood
<1>2. TypeOK /\ PoolInv => PoolRecoverable
  BY DEF TypeOK, PoolInv, BackupGood, InMemory, PoolRecoverable
<1> QED
  BY <1>1, <1>2, InitTypeOK, TypeOKStep, CurInvStep, PoolInvStep, PTL DEF Spec
\* As long as nothing fails and nobody saves without the lock, an add that was
\* reported to a user stays, for any number of processes, relays and edits.
THEOREM AddsSafe == HistSpec => []LockedAddsKept
<1> DEFINE IInv == TypeOK /\ LockInv /\ (\A p \in Procs : JobInv(p)) /\ EditsInv
<1>1. HistInit => IInv
  <2> SUFFICES ASSUME HistInit PROVE IInv
    OBVIOUS
  <2>1. TypeOK /\ LockInv
    BY InitTypeOK DEF HistInit, Init, LockInv
  <2>2. ASSUME NEW p \in Procs PROVE JobInv(p)
    BY DEF HistInit, Init, JobInv, JobHeld, NoJob, Kinds
  <2>3. main \in Docs
    BY <2>1, RelayStoreAssumption DEF HistInit, Init, TypeOK, Docs, FirstOf
  <2>4. EditsInv
    BY <2>3 DEF HistInit, Init, EditsInv, PoolKept, Kept, EditInv, Saving, Loading
  <2> QED
    BY <2>1, <2>2, <2>4
<1>2. IInv /\ [Next /\ HistNext]_<<vars, hist>> => IInv'
  <2> SUFFICES ASSUME IInv, [Next /\ HistNext]_<<vars, hist>> PROVE IInv'
    OBVIOUS
  <2>1. [Next]_vars
    OBVIOUS
  <2> QED
    BY <2>1, TypeOKStep, LockInvStep, JobInvStep, EditsInvStep
<1>3. IInv => LockedAddsKept
  BY DEF EditsInv, PoolKept, Kept, LockedAddsKept, AddsKept
<1> HIDE DEF IInv
<1> QED
  BY <1>1, <1>2, <1>3, PTL DEF HistSpec
=============================================================================
