-------------------------- MODULE ClineStoreProofs --------------------------
(***************************************************************************)
(* Proofs about the file of the Cline logins (src/cline-pool.ts).          *)
(***************************************************************************)
EXTENDS ClineEdits, WellFoundedInduction, TLAPS

Lands == {"login", "paste"}
Tells == {"login", "patch"}      \* the operations with a new token
Saving == {"write", "check", "latch"}

Holds(r) == r.slot \in DOMAIN r.pool /\ r.pool[r.slot].token = r.token
Distinct(doc) == \A s, t \in DOMAIN doc : doc[s].token = doc[t].token => s = t

-----------------------------------------------------------------------------
(* Where an operation can be                                               *)

\* In loadPool, on behalf of what follows it.
InLoad(r) ==
    /\ r.onread = "stamp"
    /\ \/ r.kind = "login" /\ r.then \in {"pick", "add", "landed"}
       \/ r.kind = "paste" /\ r.then \in {"add", "landed"}
       \/ r.kind = "logout" /\ r.then \in {"choose", "remove"}
\* In readPoolFile, which returns to `on`.
InRead(r, on) ==
    \/ on = "stamp" /\ InLoad(r)
    \/ on = "edit" /\ r.onread = "edit" /\ r.kind = "patch" /\ r.then = "idle"
\* In savePool.
InSave(r) ==
    \/ InRead(r, r.onsave)
    \/ /\ r.then = "idle"
       /\ \/ r.onsave = "landed" /\ r.kind \in Lands
          \/ r.onsave = "scrub" /\ r.kind = "logout"
          \/ r.onsave = "patched" /\ r.kind = "patch"

Flow(r) ==
    /\ r.phase = "idle" => r.kind = "none" /\ r.then = "idle"
    /\ r.phase # "idle" => r.kind # "none" /\ ~r.saved
    /\ r.phase \in {"look", "stamp"} => InLoad(r)
    /\ r.phase = "read" => InRead(r, r.onread)
    /\ r.phase = "recover" => InRead(r, r.onsave)
    /\ r.phase \in Saving => InSave(r)
    /\ r.phase \in Waits => r.then = "idle"
    /\ r.phase \in {"pick", "authorize", "poll", "register"} => r.kind = "login"
    /\ r.phase = "choose" => r.kind = "logout"
    /\ r.phase \in {"add", "landed"} => r.kind \in Lands /\ r.then = "idle"
    /\ r.phase \in {"remove", "scrub"} => r.kind = "logout" /\ r.then = "idle"
    /\ r.phase = "edit" => r.kind = "patch" /\ r.then = "idle"
    /\ r.kind = "paste" => r.token = PastedKey /\ r.account = NoAccount

Control ==
    /\ TypeOK
    /\ backup.is # "doc" => backup.doc = NoLogins
    /\ \A p \in Procs : Flow(proc[p])

-----------------------------------------------------------------------------
(* What is known of a login that is reported saved                         *)

Doubting(r) == r.then = "landed" \/ r.phase = "landed"

Told(p) ==
    LET r == proc[p] IN
    /\ r.phase \in Saving /\ r.onsave = "landed" => Holds(r)
    /\ r.phase = "latch" /\ r.onsave = "landed" => landed[p]
    /\ Doubting(r) /\ r.phase # "look" /\ Holds(r) => landed[p]
    /\ Doubting(r) /\ r.phase = "look" => ~cache[p].held

SavedInv == Control /\ landed \in [Procs -> BOOLEAN] /\ \A p \in Procs : Told(p)

-----------------------------------------------------------------------------
(* The files and the pool as it should be, while no accesses overlap       *)

\* What the save that is under way leaves.
Outcome(r) == IF r.onsave \in {"stamp", "edit"} THEN intended ELSE Target(r)

Agrees(p) ==
    LET r == proc[p] IN
    /\ r.phase \in {"look", "read", "recover", "stamp", "edit", "add", "remove", "landed",
                    "write"} => Effective = intended
    /\ r.phase \in {"recover", "stamp", "edit", "add", "remove", "landed"} => r.pool = intended
    /\ r.phase \in Saving => r.pool = Outcome(r) /\ Distinct(r.pool)
    /\ r.phase = "check" => Effective = intended \/ Landed(p)
    /\ r.phase = "latch" => Landed(p)
    /\ r.phase = "scrub" => IF r.ok THEN main.is = "doc" /\ main.doc = Target(r)
                            ELSE Effective = intended
    /\ r.phase = "scrub" \/ (r.phase \in Saving /\ r.onsave = "scrub") =>
           r.slot \in DOMAIN intended /\ r.token = intended[r.slot].token

\* A pool holds each token once, and none that a process is about to save.
Sound(doc, issued, procs) ==
    /\ Distinct(doc)
    /\ \A s \in DOMAIN doc :
          /\ doc[s].token <= MaxSlot + issued
          /\ \A q \in Procs : procs[q].kind \in Tells => doc[s].token # procs[q].token

\* Tokens are new when they are taken.
Issued ==
    \A p \in Procs : proc[p].kind \in Tells =>
        /\ proc[p].token \in MaxSlot + 1..MaxSlot + ops
        /\ \A q \in Procs : q # p /\ proc[q].kind \in Tells => proc[q].token # proc[p].token

PoolsOK ==
    /\ intended \in Docs
    /\ Sound(intended, ops, proc) /\ Sound(backup.doc, ops, proc) /\ Distinct(Effective)
    /\ main.is # "doc" /\ faults = 0 => backup.doc = NoLogins
    /\ DOMAIN backup.doc \subseteq DOMAIN intended \cup cut

CachesOK ==
    \A q \in Procs : cache[q].held =>
        /\ main.is = "doc" /\ cache[q].mtime = main.mtime => cache[q].doc = main.doc
        /\ main.is # "doc" /\ faults = 0 => cache[q].doc = NoLogins

Alone == \A p, q \in Procs : Busy(p) /\ Busy(q) => p = q

AtPeace ==
    /\ Alone
    /\ Quiet => Effective = intended
    /\ \A p \in Procs : Agrees(p)
    /\ Issued /\ PoolsOK /\ CachesOK

IInv == SavedInv /\ (~overlapped /\ ~blind => AtPeace)

-----------------------------------------------------------------------------
(* Pools, and records of operations                                        *)

\* The bounds of the model, as facts.
LEMMA Bounds ==
    /\ MaxSlot \in Nat /\ MaxSlot >= 1 /\ MaxOps \in Nat /\ MaxFaults \in Nat
    /\ Named \subseteq Slots /\ 1 \in Slots /\ Slots \subseteq Nat
    /\ NoAccount \notin Accounts
BY ClineStoreAssumption DEF Slots

\* What is a pool.
LEMMA DocsFacts ==
    ASSUME NEW d
    PROVE  d \in Docs <=> /\ DOMAIN d \subseteq Slots
                          /\ d = [s \in DOMAIN d |-> d[s]]
                          /\ \A s \in DOMAIN d : d[s] \in Logins
<1>1. d \in Docs => /\ DOMAIN d \subseteq Slots /\ d = [s \in DOMAIN d |-> d[s]]
                     /\ \A s \in DOMAIN d : d[s] \in Logins
  BY DEF Docs
<1>2. ASSUME DOMAIN d \subseteq Slots, d = [s \in DOMAIN d |-> d[s]],
             \A s \in DOMAIN d : d[s] \in Logins
      PROVE  d \in Docs
  <2>1. d \in [DOMAIN d -> Logins]
    BY <1>2
  <2> QED BY <2>1, <1>2 DEF Docs
<1> QED BY <1>1, <1>2

\* No login at all is a pool.
LEMMA NoLoginsFacts == NoLogins \in Docs /\ DOMAIN NoLogins = {}
<1>1. DOMAIN NoLogins = {} /\ NoLogins = [s \in {} |-> NoLogins[s]]
  BY DEF NoLogins
<1> QED BY <1>1, DocsFacts

\* A login put into its slot.
LEMMA PutFacts ==
    ASSUME NEW r \in Operations
    PROVE  /\ Put(r) \in Docs /\ DOMAIN Put(r) = DOMAIN r.pool \cup {r.slot}
           /\ Put(r)[r.slot].token = r.token
           /\ Put(r)[r.slot].account = IF r.account # NoAccount THEN r.account
                                       ELSE IF r.slot \in DOMAIN r.pool
                                            THEN r.pool[r.slot].account ELSE NoAccount
           /\ \A s \in DOMAIN r.pool : s # r.slot => Put(r)[s] = r.pool[s]
<1> DEFINE old == IF r.slot \in DOMAIN r.pool THEN r.pool[r.slot].account ELSE NoAccount
           login == [token |-> r.token,
                     account |-> IF r.account = NoAccount THEN old ELSE r.account]
           put == [s \in DOMAIN r.pool \cup {r.slot} |-> IF s = r.slot THEN login ELSE r.pool[s]]
<1>1. /\ r.pool \in Docs /\ r.slot \in Slots /\ r.token \in 0..MaxOps + MaxSlot
      /\ r.account \in Accounts \cup {NoAccount}
  BY DEF Operations
<1>2. DOMAIN r.pool \subseteq Slots /\ \A s \in DOMAIN r.pool : r.pool[s] \in Logins
  BY <1>1, DocsFacts
<1>3. old \in Accounts \cup {NoAccount}
  BY <1>2 DEF Logins
<1>4. login \in Logins
  BY <1>1, <1>3 DEF Logins
<1>5. put \in Docs
  <2>1. DOMAIN put \subseteq Slots /\ \A s \in DOMAIN put : put[s] \in Logins
    BY <1>1, <1>2, <1>4
  <2> QED BY <2>1, DocsFacts
<1>6. Put(r) = put
  BY DEF Put
<1> QED BY <1>5, <1>6

\* A pool without some of its slots.
LEMMA WithoutFacts ==
    ASSUME NEW d \in Docs, NEW gone
    PROVE  /\ Without(d, gone) \in Docs /\ DOMAIN Without(d, gone) = DOMAIN d \ gone
           /\ \A s \in DOMAIN d \ gone : Without(d, gone)[s] = d[s]
<1>1. DOMAIN d \subseteq Slots /\ \A s \in DOMAIN d : d[s] \in Logins
  BY DocsFacts
<1> QED BY <1>1, DocsFacts DEF Without

\* A login with another token.
LEMMA PatchFacts ==
    ASSUME NEW d \in Docs, NEW t \in DOMAIN d, NEW k \in 0..MaxOps + MaxSlot
    PROVE  LET e == [d EXCEPT ![t].token = k]
           IN  /\ e \in Docs /\ DOMAIN e = DOMAIN d /\ e[t].token = k
               /\ \A s \in DOMAIN d \ {t} : e[s] = d[s]
<1> DEFINE e == [d EXCEPT ![t].token = k]
<1>1. DOMAIN d \subseteq Slots /\ \A s \in DOMAIN d : d[s] \in Logins
  BY DocsFacts
<1>2. e[t] = [d[t] EXCEPT !.token = k] /\ \A s \in DOMAIN d \ {t} : e[s] = d[s]
  OBVIOUS
<1>3. e[t] \in Logins /\ e[t].token = k
  BY <1>1, <1>2 DEF Logins
<1>4. \A s \in DOMAIN e : e[s] \in Logins
  BY <1>1, <1>2, <1>3
<1> QED BY <1>1, <1>2, <1>3, <1>4, DocsFacts

\* A set of numbers has a least one.
LEMMA MinFacts ==
    ASSUME NEW S, S \subseteq Nat, S # {}
    PROVE  Min(S) \in S /\ \A n \in S : Min(S) <= n
<1>1. IsWellFoundedOn(OpToRel(<, Nat), Nat)
  BY NatLessThanWellFounded
<1>2. PICK m \in S : \A n \in S : <<n, m>> \notin OpToRel(<, Nat)
  BY <1>1, WFMin
<1>3. ASSUME NEW n \in S PROVE ~ (n < m)
  BY <1>2 DEF OpToRel
<1>4. \A n \in S : m <= n
  BY <1>3
<1> QED BY <1>4 DEF Min

\* No operation, before and after a login that was saved.
LEMMA IdleFacts ==
    /\ Idle \in Operations /\ ToldSaved \in Operations
    /\ Idle.kind = "none" /\ Idle.phase = "idle" /\ Idle.then = "idle" /\ ~Idle.saved
    /\ Idle.token = PastedKey /\ Idle.account = NoAccount /\ Idle.onsave = "idle"
    /\ ToldSaved.kind = "none" /\ ToldSaved.phase = "idle" /\ ToldSaved.then = "idle"
    /\ ToldSaved.saved /\ ToldSaved.onsave = "idle"
<1>1. Idle \in Operations
  BY Bounds, NoLoginsFacts DEF Idle, Operations, Phases, PastedKey
<1> QED BY <1>1 DEF Idle, ToldSaved, Operations, PastedKey

\* The same operation, further on.
Keeps(n, r) ==
    /\ n \in Operations
    /\ n.kind = r.kind /\ n.slot = r.slot /\ n.account = r.account /\ n.token = r.token
    /\ n.saved = r.saved

\* The phases are those an operation may be in.
LEMMA PhaseFacts ==
    /\ FilePhases \subseteq Phases /\ Waits \subseteq Phases /\ "idle" \in Phases
    /\ {"look", "read", "stamp", "edit", "add", "remove", "recover", "write", "check", "latch",
        "scrub", "landed", "pick", "authorize", "poll", "register", "choose"} \subseteq Phases
BY DEF Phases, FilePhases, Waits

\* loadPool begins.
LEMMA LoadFacts ==
    ASSUME NEW r \in Operations, NEW then \in Phases
    PROVE  LET n == Load(r, then)
           IN  /\ Keeps(n, r) /\ n.pool = r.pool /\ n.onsave = r.onsave
               /\ n.phase = "look" /\ n.then = then /\ n.onread = "stamp"
<1>1. "look" \in Phases /\ "stamp" \in Phases
  BY PhaseFacts
<1> DEFINE n == [r EXCEPT !.phase = "look", !.then = then, !.onread = "stamp", !.again = FALSE]
<1>2. n \in Operations
  BY <1>1 DEF Operations
<1>3. /\ n.phase = "look" /\ n.then = then /\ n.onread = "stamp" /\ n.pool = r.pool
      /\ n.onsave = r.onsave /\ n.kind = r.kind /\ n.slot = r.slot /\ n.account = r.account
      /\ n.token = r.token /\ n.saved = r.saved
  BY DEF Operations
<1>4. Load(r, then) = n
  BY DEF Load
<1> QED BY <1>2, <1>3, <1>4 DEF Keeps

\* What follows a save, by where it returns to.
LEMMA SavedFacts ==
    ASSUME NEW r \in Operations, NEW ok \in BOOLEAN
    PROVE  LET n == Saved(r, ok)
           IN  /\ n \in Operations
               /\ r.onsave = "patched" => n = Idle
               /\ r.onsave = "landed" /\ ok => n = ToldSaved
               /\ r.onsave = "landed" /\ ~ok => n = Load(r, "landed")
               /\ r.onsave \notin {"patched", "landed"} =>
                     /\ Keeps(n, r) /\ n.pool = r.pool /\ n.onsave = "idle" /\ n.ok = ok
                     /\ n.phase = r.onsave /\ n.then = r.then /\ n.onread = r.onread
<1>1. CASE r.onsave = "patched"
  BY <1>1, IdleFacts DEF Saved
<1>2. CASE r.onsave = "landed" /\ ok
  BY <1>2, IdleFacts DEF Saved
<1>3. CASE r.onsave = "landed" /\ ~ok
  <2>1. Saved(r, ok) = Load(r, "landed")
    BY <1>3 DEF Saved
  <2>2. "landed" \in Phases
    BY PhaseFacts
  <2>3. Load(r, "landed") \in Operations
    BY <2>2, LoadFacts DEF Keeps
  <2> QED BY <1>3, <2>1, <2>3
<1>4. CASE r.onsave \notin {"patched", "landed"}
  <2>1. Saved(r, ok) = [r EXCEPT !.phase = r.onsave, !.onsave = "idle", !.ok = ok]
    BY <1>4 DEF Saved
  <2>2. r.onsave \in Phases
    BY <1>4 DEF Operations
  <2> DEFINE n == [r EXCEPT !.phase = r.onsave, !.onsave = "idle", !.ok = ok]
  <2>3. n \in Operations
    BY <2>2, PhaseFacts DEF Operations
  <2>4. /\ n.pool = r.pool /\ n.onsave = "idle" /\ n.ok = ok /\ n.phase = r.onsave
        /\ n.then = r.then /\ n.onread = r.onread /\ n.kind = r.kind /\ n.slot = r.slot
        /\ n.account = r.account /\ n.token = r.token /\ n.saved = r.saved
    BY DEF Operations
  <2> QED BY <1>4, <2>1, <2>3, <2>4 DEF Keeps
<1> QED BY <1>1, <1>2, <1>3, <1>4

\* A step of one process.
LEMMA StepFacts ==
    ASSUME proc \in [Procs -> Operations], NEW p \in Procs, NEW n, Step(p, n)
    PROVE  /\ proc'[p] = n /\ proc' = [proc EXCEPT ![p] = n]
           /\ \A q \in Procs : q # p => proc'[q] = proc[q]
BY DEF Step

-----------------------------------------------------------------------------
(* Every operation is where it can be                                      *)

\* Everything but the records of the processes.
FilesOK ==
    /\ main \in [is : {"missing", "torn", "doc"}, doc : Docs, mtime : 0..writes]
    /\ writes \in Nat
    /\ backup \in [is : {"missing", "torn", "doc"}, doc : Docs]
    /\ backup.is # "doc" => backup.doc = NoLogins
    /\ cache \in [Procs -> [held : BOOLEAN, doc : Docs, mtime : 0..writes]]
    /\ ops \in 0..MaxOps /\ faults \in 0..MaxFaults

\* The invariant of control, in parts.
LEMMA ControlParts ==
    Control <=> /\ FilesOK /\ proc \in [Procs -> Operations]
                /\ \A p \in Procs : Flow(proc[p])
BY DEF Control, FilesOK, TypeOK

\* A step of one process keeps the invariant if its new record and the files do.
LEMMA ControlStep ==
    ASSUME Control, NEW p \in Procs, NEW n \in Operations, Step(p, n), Flow(n), FilesOK'
    PROVE  Control'
<1>1. proc \in [Procs -> Operations] /\ \A q \in Procs : Flow(proc[q])
  BY ControlParts
<1>2. proc'[p] = n /\ proc' = [proc EXCEPT ![p] = n] /\ \A q \in Procs : q # p => proc'[q] = proc[q]
  BY <1>1, StepFacts
<1>3. proc' \in [Procs -> Operations]
  BY <1>1, <1>2
<1>4. ASSUME NEW q \in Procs PROVE Flow(proc'[q])
  BY <1>1, <1>2
<1> QED BY <1>3, <1>4, ControlParts DEF Control, FilesOK, TypeOK

\* What an operation in the middle of something is.
LEMMA OpFacts ==
    ASSUME Control, NEW p \in Procs
    PROVE  /\ proc[p] \in Operations /\ Flow(proc[p]) /\ proc \in [Procs -> Operations]
           /\ proc[p].pool \in Docs /\ proc[p].slot \in Slots
           /\ proc[p].token \in 0..MaxOps + MaxSlot
           /\ proc[p].account \in Accounts \cup {NoAccount}
           /\ FilesOK
<1>1. proc[p] \in Operations /\ Flow(proc[p]) /\ proc \in [Procs -> Operations] /\ FilesOK
  BY ControlParts
<1> QED BY <1>1 DEF Operations

\* The copy is left, or replaced by the pool it is compared with.
LEMMA KeepFacts ==
    ASSUME NEW file
    PROVE  \/ KeepLargest(file) = backup
           \/ /\ file.is = "doc" /\ file.doc # NoLogins
              /\ KeepLargest(file) = [is |-> "doc", doc |-> file.doc]
BY DEF KeepLargest

\* What the copy becomes is a copy.
LEMMA KeepTyped ==
    ASSUME FilesOK, NEW file, file.doc \in Docs
    PROVE  /\ KeepLargest(file) \in [is : {"missing", "torn", "doc"}, doc : Docs]
           /\ KeepLargest(file).is # "doc" => KeepLargest(file).doc = NoLogins
<1>1. CASE KeepLargest(file) = backup
  BY <1>1 DEF FilesOK
<1>2. CASE KeepLargest(file) = [is |-> "doc", doc |-> file.doc]
  BY <1>2
<1> QED BY <1>1, <1>2, KeepFacts

\* A copy that is written is the new one, unless the write fails.
LEMMA RewriteFacts ==
    ASSUME FilesOK, NEW new \in [is : {"missing", "torn", "doc"}, doc : Docs],
           new.is # "doc" => new.doc = NoLogins, Rewrite(new)
    PROVE  /\ backup' \in [is : {"missing", "torn", "doc"}, doc : Docs]
           /\ backup'.is # "doc" => backup'.doc = NoLogins
           /\ faults \in Nat /\ faults' \in 0..MaxFaults
           /\ \/ backup' = new /\ faults' = faults
              \/ new # backup /\ faults' = faults + 1 /\ faults' # faults
                 /\ (backup' = backup \/ backup' = Torn)
<1>1. /\ backup \in [is : {"missing", "torn", "doc"}, doc : Docs] /\ faults \in 0..MaxFaults
      /\ MaxFaults \in Nat /\ (backup.is # "doc" => backup.doc = NoLogins)
  BY Bounds DEF FilesOK
<1>2. /\ Torn \in [is : {"missing", "torn", "doc"}, doc : Docs]
      /\ Torn.is # "doc" /\ Torn.doc = NoLogins
  BY NoLoginsFacts DEF Torn
<1>3. CASE backup' = new /\ UNCHANGED faults
  BY <1>1, <1>3
<1>4. CASE new # backup /\ faults < MaxFaults /\ faults' = faults + 1 /\ backup' \in {backup, Torn}
  BY <1>1, <1>2, <1>4
<1> QED BY <1>3, <1>4 DEF Rewrite

\* A scrubbed copy is what it was without the login's slot and token.
LEMMA ScrubFacts ==
    ASSUME FilesOK, NEW r
    PROVE  /\ Scrubbed(r) \in [is : {"missing", "torn", "doc"}, doc : Docs]
           /\ Scrubbed(r).is = backup.is
           /\ backup.is # "doc" => Scrubbed(r) = backup
           /\ backup.is = "doc" =>
                 Scrubbed(r).doc = Without(backup.doc, {s \in DOMAIN backup.doc :
                                       s = r.slot \/ backup.doc[s].token = r.token})
<1> DEFINE gone == {s \in DOMAIN backup.doc : s = r.slot \/ backup.doc[s].token = r.token}
<1>1. backup \in [is : {"missing", "torn", "doc"}, doc : Docs]
  BY DEF FilesOK
<1>2. CASE backup.is # "doc"
  BY <1>1, <1>2 DEF Scrubbed
<1>3. CASE backup.is = "doc"
  <2>1. Scrubbed(r) = [backup EXCEPT !.doc = Without(backup.doc, gone)]
    BY <1>1, <1>3 DEF Scrubbed
  <2>2. backup.doc \in Docs
    BY <1>1
  <2>3. Without(backup.doc, gone) \in Docs
    BY <2>2, WithoutFacts
  <2>4. /\ Scrubbed(r).is = backup.is /\ Scrubbed(r).doc = Without(backup.doc, gone)
        /\ Scrubbed(r) \in [is : {"missing", "torn", "doc"}, doc : Docs]
    BY <1>1, <2>1, <2>3
  <2> QED BY <1>3, <2>4
<1> QED BY <1>2, <1>3

-----------------------------------------------------------------------------
(* The commands and the device login, away from the files                  *)

Calm(p) ==
    /\ proc[p].phase \notin FilePhases /\ proc[p].phase \in Phases
    /\ UNCHANGED <<main, writes, backup, cache, faults>>
    /\ \A q \in Procs : q # p => proc'[q] = proc[q]
    /\ proc'[p].phase \in FilePhases => proc'[p].phase \in {"look", "read"}
    /\ ~proc'[p].saved \/ proc'[p] = proc[p]
    /\ ~Doubting(proc'[p])
    /\ \/ /\ ops' = ops
          /\ \/ proc'[p].kind = "none"
             \/ proc'[p].kind = proc[p].kind /\ proc'[p].token = proc[p].token
       \/ /\ ops' = ops + 1
          /\ proc'[p].kind \in Tells => proc'[p].token = NewToken

\* A process with nothing to do is where it can be.
LEMMA IdleFlow == Flow(Idle) /\ Flow(ToldSaved) /\ ~Doubting(Idle) /\ ~Doubting(ToldSaved)
BY IdleFacts DEF Flow, Doubting, Saving, Waits

\* A process that waits steps on, or gives up.
LEMMA WaitCalm ==
    ASSUME Control, NEW p \in Procs, proc[p].phase \in Waits, NEW n \in Operations, Step(p, n),
           UNCHANGED <<main, writes, backup, cache, ops, faults>>,
           Flow(n), ~n.saved, ~Doubting(n), n.phase \in FilePhases => n.phase = "look",
           n.kind = "none" \/ (n.kind = proc[p].kind /\ n.token = proc[p].token)
    PROVE  Control' /\ Calm(p)
<1>1. FilesOK /\ proc \in [Procs -> Operations]
  BY ControlParts
<1>2. FilesOK'
  BY <1>1 DEF FilesOK
<1>3. Control'
  BY <1>2, ControlStep
<1>4. proc'[p] = n /\ \A q \in Procs : q # p => proc'[q] = proc[q]
  BY <1>1, StepFacts
<1>5. proc[p].phase \notin FilePhases /\ proc[p].phase \in Phases
  BY DEF Waits, FilePhases, Phases
<1> QED BY <1>3, <1>4, <1>5 DEF Calm

\* A login that ends without a word.
LEMMA FailCalm ==
    ASSUME Control, NEW p \in Procs, proc[p].phase \in Waits, Fail(p),
           UNCHANGED <<main, writes, backup, cache, ops, faults>>
    PROVE  Control' /\ Calm(p)
<1>1. Step(p, Idle)
  BY DEF Fail
<1> QED BY <1>1, IdleFacts, IdleFlow, WaitCalm DEF FilePhases

\* A command is begun.
LEMMA BeginCalm ==
    ASSUME Control, NEW p \in Procs, NEW n \in Operations, Begin(p, n), Flow(n), ~n.saved,
           ~Doubting(n), n.phase \in {"look", "read", "authorize"},
           n.kind \in Tells => n.token = NewToken
    PROVE  Control' /\ Calm(p)
<1>1. FilesOK /\ proc \in [Procs -> Operations]
  BY ControlParts
<1>2. /\ Step(p, n) /\ ops' = ops + 1 /\ ops < MaxOps /\ proc[p].phase = "idle"
      /\ UNCHANGED <<main, writes, backup, cache, faults>>
  BY DEF Begin, At
<1>3. FilesOK'
  BY <1>1, <1>2, Bounds DEF FilesOK
<1>4. Control'
  BY <1>2, <1>3, ControlStep
<1>5. proc'[p] = n /\ \A q \in Procs : q # p => proc'[q] = proc[q]
  BY <1>1, <1>2, StepFacts
<1>6. n.phase \in FilePhases => n.phase \in {"look", "read"}
  BY DEF FilePhases
<1> QED BY <1>2, <1>4, <1>5, <1>6, PhaseFacts DEF Calm, FilePhases

\* The tokens that are issued are tokens.
LEMMA NewTokenTyped == ASSUME FilesOK, ops < MaxOps PROVE NewToken \in 0..MaxOps + MaxSlot
BY Bounds DEF FilesOK, NewToken

\* /freeflow cline login with a name.
LEMMA LogInCalm ==
    ASSUME Control, NEW p \in Procs, NEW s \in Named, LogIn(p, s) PROVE Control' /\ Calm(p)
<1> DEFINE n == [Idle EXCEPT !.kind = "login", !.slot = s, !.token = NewToken,
                             !.phase = "authorize"]
<1>1. Begin(p, n) /\ ops < MaxOps
  BY DEF LogIn, Begin
<1>2. NewToken \in 0..MaxOps + MaxSlot
  BY <1>1, ControlParts, NewTokenTyped
<1>3. n \in Operations
  BY <1>2, Bounds, PhaseFacts, IdleFacts DEF Operations
<1>4. n.kind = "login" /\ n.token = NewToken /\ n.phase = "authorize" /\ n.then = "idle" /\ ~n.saved
  BY IdleFacts DEF Operations
<1>5. Flow(n) /\ ~Doubting(n)
  BY <1>4 DEF Flow, Doubting, Saving, Waits
<1> QED BY <1>1, <1>3, <1>4, <1>5, BeginCalm

\* /freeflow cline login without one.
LEMMA LogInNextCalm == ASSUME Control, NEW p \in Procs, LogInNext(p) PROVE Control' /\ Calm(p)
<1> DEFINE r == [Idle EXCEPT !.kind = "login", !.token = NewToken]
           n == Load(r, "pick")
<1>1. Begin(p, n) /\ ops < MaxOps
  BY DEF LogInNext, Begin
<1>2. NewToken \in 0..MaxOps + MaxSlot
  BY <1>1, ControlParts, NewTokenTyped
<1>3. r \in Operations /\ r.kind = "login" /\ r.token = NewToken /\ ~r.saved
  BY <1>2, IdleFacts DEF Operations
<1> HIDE DEF r
<1>9. "pick" \in Phases
  BY PhaseFacts
<1>4. /\ n \in Operations /\ n.kind = "login" /\ n.token = NewToken /\ n.phase = "look"
      /\ n.then = "pick" /\ n.onread = "stamp" /\ ~n.saved
  BY <1>3, <1>9, LoadFacts DEF Keeps
<1>5. Flow(n) /\ ~Doubting(n)
  BY <1>4 DEF Flow, InLoad, Doubting, Saving, Waits
<1> QED BY <1>1, <1>4, <1>5, BeginCalm

\* /freeflow cline login --key.
LEMMA PasteKeyCalm ==
    ASSUME Control, NEW p \in Procs, NEW s \in Named, PasteKey(p, s) PROVE Control' /\ Calm(p)
<1> DEFINE r == [Idle EXCEPT !.kind = "paste", !.slot = s]
           n == Load(r, "add")
<1>1. Begin(p, n)
  BY DEF PasteKey
<1>2. /\ r \in Operations /\ r.kind = "paste" /\ r.token = PastedKey /\ r.account = NoAccount
      /\ ~r.saved
  BY IdleFacts, Bounds DEF Operations
<1> HIDE DEF r
<1>9. "add" \in Phases
  BY PhaseFacts
<1>3. /\ n \in Operations /\ n.kind = "paste" /\ n.token = PastedKey /\ n.account = NoAccount
      /\ n.phase = "look" /\ n.then = "add" /\ n.onread = "stamp" /\ ~n.saved
  BY <1>2, <1>9, LoadFacts DEF Keeps
<1>4. Flow(n) /\ ~Doubting(n) /\ n.kind \notin Tells
  BY <1>3 DEF Flow, InLoad, Doubting, Saving, Waits, Tells
<1> QED BY <1>1, <1>3, <1>4, BeginCalm

\* /freeflow cline logout.
LEMMA LogOutCalm == ASSUME Control, NEW p \in Procs, LogOut(p) PROVE Control' /\ Calm(p)
<1> DEFINE r == [Idle EXCEPT !.kind = "logout"]
           n == Load(r, "choose")
<1>1. Begin(p, n)
  BY DEF LogOut
<1>2. r \in Operations /\ r.kind = "logout" /\ ~r.saved
  BY IdleFacts DEF Operations
<1> HIDE DEF r
<1>9. "choose" \in Phases
  BY PhaseFacts
<1>3. /\ n \in Operations /\ n.kind = "logout"
      /\ n.phase = "look" /\ n.then = "choose" /\ n.onread = "stamp" /\ ~n.saved
  BY <1>2, <1>9, LoadFacts DEF Keeps
<1>4. Flow(n) /\ ~Doubting(n) /\ n.kind \notin Tells
  BY <1>3 DEF Flow, InLoad, Doubting, Saving, Waits, Tells
<1> QED BY <1>1, <1>3, <1>4, BeginCalm

\* A patch begins.
LEMMA PatchCalm ==
    ASSUME Control, NEW p \in Procs, NEW s \in Slots, Patch(p, s) PROVE Control' /\ Calm(p)
<1> DEFINE r == [Idle EXCEPT !.kind = "patch", !.slot = s, !.token = NewToken]
           n == [r EXCEPT !.phase = "read", !.onread = "edit"]
<1>1. Begin(p, n) /\ ops < MaxOps
  BY DEF Patch, Begin, ReadFile
<1>2. NewToken \in 0..MaxOps + MaxSlot
  BY <1>1, ControlParts, NewTokenTyped
<1>3. r \in Operations /\ r.kind = "patch" /\ r.token = NewToken /\ ~r.saved /\ r.then = "idle"
  BY <1>2, IdleFacts DEF Operations
<1>4. /\ n \in Operations /\ n.kind = "patch" /\ n.token = NewToken /\ ~n.saved
      /\ n.phase = "read" /\ n.onread = "edit" /\ n.then = "idle"
  BY <1>3, PhaseFacts DEF Operations
<1>5. Flow(n) /\ ~Doubting(n)
  BY <1>4 DEF Flow, InRead, InLoad, Doubting, Saving, Waits
<1> QED BY <1>1, <1>4, <1>5, BeginCalm

\* The next free slot is picked.
LEMMA PickCalm == ASSUME Control, NEW p \in Procs, Pick(p) PROVE Control' /\ Calm(p)
<1> DEFINE r == proc[p]
           free == Slots \ DOMAIN r.pool
           n == [r EXCEPT !.slot = Min(free), !.auto = TRUE, !.pool = NoLogins,
                          !.phase = "authorize"]
<1>1. /\ r.phase = "pick" /\ free # {} /\ Step(p, n)
      /\ UNCHANGED <<main, writes, backup, cache, ops, faults>>
  BY DEF Pick, At
<1>2. r \in Operations /\ r.kind = "login" /\ r.then = "idle" /\ ~r.saved /\ r.phase \in Waits
  BY <1>1, OpFacts DEF Flow, Waits
<1>3. Min(free) \in Slots
  <2>1. free \subseteq Nat
    BY Bounds
  <2> QED BY <1>1, <2>1, MinFacts
<1>4. /\ n \in Operations /\ n.kind = r.kind /\ n.token = r.token /\ n.phase = "authorize"
      /\ n.then = r.then /\ n.saved = r.saved
  BY <1>2, <1>3, NoLoginsFacts, PhaseFacts DEF Operations
<1>5. Flow(n) /\ ~Doubting(n) /\ n.phase \notin FilePhases
  BY <1>2, <1>4 DEF Flow, Doubting, Saving, Waits, FilePhases
<1> QED BY <1>1, <1>2, <1>4, <1>5, WaitCalm

\* The device login is asked for.
LEMMA AuthorizeCalm == ASSUME Control, NEW p \in Procs, Authorize(p) PROVE Control' /\ Calm(p)
<1> DEFINE r == proc[p]
           n == [r EXCEPT !.phase = "poll"]
<1>1. /\ r.phase = "authorize" /\ (Step(p, n) \/ Fail(p))
      /\ UNCHANGED <<main, writes, backup, cache, ops, faults>>
  BY DEF Authorize, At
<1>2. r \in Operations /\ r.kind = "login" /\ r.then = "idle" /\ ~r.saved /\ r.phase \in Waits
  BY <1>1, OpFacts DEF Flow, Waits, Authorize, At
<1>3. /\ n \in Operations /\ n.kind = r.kind /\ n.token = r.token /\ n.phase = "poll"
      /\ n.then = r.then /\ n.saved = r.saved
  BY <1>2, PhaseFacts DEF Operations
<1>4. Flow(n) /\ ~Doubting(n) /\ n.phase \notin FilePhases
  BY <1>2, <1>3 DEF Flow, Doubting, Saving, Waits, FilePhases
<1>5. CASE Step(p, n)
  BY <1>1, <1>2, <1>3, <1>4, <1>5, WaitCalm
<1> QED BY <1>1, <1>2, <1>5, FailCalm

\* The device code's time is up.
LEMMA DeadlineCalm == ASSUME Control, NEW p \in Procs, Deadline(p) PROVE Control' /\ Calm(p)
<1> DEFINE r == proc[p]
           n == [r EXCEPT !.late = TRUE]
<1>1. /\ r.phase = "poll" /\ Step(p, n)
      /\ UNCHANGED <<main, writes, backup, cache, ops, faults>>
  BY DEF Deadline, At
<1>2. r \in Operations /\ r.kind = "login" /\ r.then = "idle" /\ ~r.saved /\ r.phase \in Waits
  BY <1>1, OpFacts DEF Flow, Waits
<1>3. /\ n \in Operations /\ n.kind = r.kind /\ n.token = r.token /\ n.phase = "poll"
      /\ n.then = r.then /\ n.saved = r.saved
  BY <1>1, <1>2 DEF Operations
<1>4. Flow(n) /\ ~Doubting(n) /\ n.phase \notin FilePhases
  BY <1>2, <1>3 DEF Flow, Doubting, Saving, Waits, FilePhases
<1> QED BY <1>1, <1>2, <1>3, <1>4, WaitCalm

\* The code is refused.
LEMMA RefuseCalm == ASSUME Control, NEW p \in Procs, Refuse(p) PROVE Control' /\ Calm(p)
<1>1. proc[p].phase \in Waits /\ Fail(p) /\ UNCHANGED <<main, writes, backup, cache, ops, faults>>
  BY DEF Refuse, At, Waits
<1> QED BY <1>1, FailCalm

\* The poll is repeated, or given up.
LEMMA PendingCalm == ASSUME Control, NEW p \in Procs, Pending(p) PROVE Control' /\ Calm(p)
<1>1. proc[p].phase = "poll" /\ UNCHANGED <<main, writes, backup, cache, ops, faults>>
  BY DEF Pending, At
<1>2. CASE Fail(p)
  BY <1>1, <1>2, FailCalm DEF Waits
<1>3. CASE proc' = proc
  <2>1. /\ proc[p] \in Operations /\ Flow(proc[p]) /\ proc[p].kind = "login"
        /\ proc[p].then = "idle" /\ ~proc[p].saved /\ proc \in [Procs -> Operations]
    BY <1>1, OpFacts DEF Flow, Waits
  <2>2. Step(p, proc[p])
    BY <1>3, <2>1 DEF Step
  <2>3. ~Doubting(proc[p]) /\ proc[p].phase \notin FilePhases /\ proc[p].phase \in Waits
    BY <1>1, <2>1 DEF Doubting, FilePhases, Waits
  <2> QED BY <1>1, <2>1, <2>2, <2>3, WaitCalm
<1> QED BY <1>2, <1>3 DEF Pending

\* The user approves.
LEMMA ApproveCalm ==
    ASSUME Control, NEW p \in Procs, NEW a \in Accounts, Approve(p, a) PROVE Control' /\ Calm(p)
<1> DEFINE r == proc[p]
           n == [r EXCEPT !.account = a, !.phase = "register"]
<1>1. /\ r.phase = "poll" /\ Step(p, n)
      /\ UNCHANGED <<main, writes, backup, cache, ops, faults>>
  BY DEF Approve, At
<1>2. r \in Operations /\ r.kind = "login" /\ r.then = "idle" /\ ~r.saved /\ r.phase \in Waits
  BY <1>1, OpFacts DEF Flow, Waits
<1>3. /\ n \in Operations /\ n.kind = r.kind /\ n.token = r.token /\ n.phase = "register"
      /\ n.then = r.then /\ n.saved = r.saved
  BY <1>1, <1>2, PhaseFacts DEF Operations
<1>4. Flow(n) /\ ~Doubting(n) /\ n.phase \notin FilePhases
  BY <1>2, <1>3 DEF Flow, Doubting, Saving, Waits, FilePhases
<1> QED BY <1>1, <1>2, <1>3, <1>4, WaitCalm

\* The token is registered, or lost.
LEMMA RegisterCalm == ASSUME Control, NEW p \in Procs, Register(p) PROVE Control' /\ Calm(p)
<1> DEFINE r == proc[p]
           n == Load(r, "add")
<1>1. /\ r.phase = "register" /\ (Step(p, n) \/ Fail(p))
      /\ UNCHANGED <<main, writes, backup, cache, ops, faults>>
  BY DEF Register, At
<1>2. r \in Operations /\ r.kind = "login" /\ r.then = "idle" /\ ~r.saved /\ r.phase \in Waits
  BY <1>1, OpFacts DEF Flow, Waits
<1>3. "add" \in Phases
  BY PhaseFacts
<1>4. /\ n \in Operations /\ n.kind = r.kind /\ n.token = r.token /\ n.phase = "look"
      /\ n.then = "add" /\ n.onread = "stamp" /\ n.saved = r.saved
  BY <1>2, <1>3, LoadFacts DEF Keeps
<1>5. Flow(n) /\ ~Doubting(n)
  BY <1>2, <1>4 DEF Flow, InLoad, Doubting, Saving, Waits
<1>6. CASE Step(p, n)
  BY <1>1, <1>2, <1>4, <1>5, <1>6, WaitCalm
<1> QED BY <1>1, <1>2, <1>6, FailCalm

\* The user chooses the login to remove.
LEMMA ChooseCalm == ASSUME Control, NEW p \in Procs, Choose(p) PROVE Control' /\ Calm(p)
<1> DEFINE r == proc[p]
           l == Load(r, "remove")
<1>1. r.phase = "choose" /\ UNCHANGED <<main, writes, backup, cache, ops, faults>>
  BY DEF Choose, At
<1>2. /\ r \in Operations /\ r.kind = "logout" /\ r.then = "idle" /\ ~r.saved
      /\ r.phase \in Waits /\ DOMAIN r.pool \subseteq Slots
  BY <1>1, OpFacts, DocsFacts DEF Flow, Waits
<1>3. "remove" \in Phases
  BY PhaseFacts
<1>4. /\ l \in Operations /\ l.kind = r.kind /\ l.token = r.token /\ l.phase = "look"
      /\ l.then = "remove" /\ l.onread = "stamp" /\ l.saved = r.saved
  BY <1>2, <1>3, LoadFacts DEF Keeps
<1>5. ASSUME NEW s \in DOMAIN r.pool, Step(p, [l EXCEPT !.slot = s, !.pool = NoLogins])
      PROVE  Control' /\ Calm(p)
  <2> DEFINE n == [l EXCEPT !.slot = s, !.pool = NoLogins]
  <2> HIDE DEF l
  <2>1. /\ n \in Operations /\ n.kind = r.kind /\ n.token = r.token /\ n.phase = "look"
        /\ n.then = "remove" /\ n.onread = "stamp" /\ n.saved = r.saved
    BY <1>2, <1>4, NoLoginsFacts DEF Operations
  <2>2. Flow(n) /\ ~Doubting(n)
    BY <1>2, <2>1 DEF Flow, InLoad, Doubting, Saving, Waits
  <2>3. Step(p, n)
    BY <1>5 DEF l
  <2> QED BY <1>1, <1>2, <2>1, <2>2, <2>3, WaitCalm
<1> QED BY <1>1, <1>2, <1>5, FailCalm DEF Choose

-----------------------------------------------------------------------------
(* What each access to the files does                                      *)

Others(p) == \A q \in Procs : q # p => proc'[q] = proc[q]
Still == UNCHANGED <<main, writes, backup, cache, ops, faults>>

\* The cached pool is taken.
LEMMA RecallDoes ==
    ASSUME Control, NEW p \in Procs, Recall(p)
    PROVE  LET r == proc[p]  n == proc'[p]
           IN  /\ Control' /\ Others(p) /\ Still
               /\ r.phase = "look" /\ Fresh(p) /\ Keeps(n, r)
               /\ n.phase = r.then /\ n.then = "idle" /\ n.pool = cache[p].doc
<1> DEFINE r == proc[p]
           n == [r EXCEPT !.pool = cache[p].doc, !.phase = r.then, !.then = "idle",
                          !.onread = "idle"]
<1>1. r.phase = "look" /\ Fresh(p) /\ Step(p, n) /\ Still
  BY DEF Recall, At, Still
<1>2. /\ r \in Operations /\ InLoad(r) /\ ~r.saved /\ FilesOK /\ proc \in [Procs -> Operations]
      /\ (r.kind = "paste" => r.token = PastedKey /\ r.account = NoAccount)
  BY <1>1, OpFacts DEF Flow
<1>3. cache[p].doc \in Docs /\ r.then \in Phases
  BY <1>2 DEF FilesOK, Operations
<1>4. /\ n \in Operations /\ Keeps(n, r) /\ n.phase = r.then /\ n.then = "idle"
      /\ n.pool = cache[p].doc
  <2>1. n \in Operations
    BY <1>2, <1>3, PhaseFacts DEF Operations
  <2>2. /\ n.kind = r.kind /\ n.slot = r.slot /\ n.account = r.account /\ n.token = r.token
        /\ n.saved = r.saved /\ n.phase = r.then /\ n.then = "idle" /\ n.pool = cache[p].doc
    BY <1>2 DEF Operations
  <2> QED BY <2>1, <2>2 DEF Keeps
<1> HIDE DEF n
<1>5. Flow(n)
  BY <1>2, <1>4 DEF Flow, InLoad, Keeps, Saving, Waits, Lands
<1>6. FilesOK'
  BY <1>1, <1>2 DEF FilesOK, Still
<1>7. Control'
  BY <1>1, <1>4, <1>5, <1>6, ControlStep
<1>8. proc'[p] = n /\ Others(p)
  BY <1>1, <1>2, StepFacts DEF Others
<1> QED BY <1>1, <1>4, <1>7, <1>8

\* The file is read, or its copy.
LEMMA ReadDoes ==
    ASSUME Control, NEW p \in Procs, Read(p)
    PROVE  LET r == proc[p]  n == proc'[p]
           IN  /\ Control' /\ Others(p) /\ Still
               /\ r.phase \in {"look", "read"} /\ Keeps(n, r) /\ n.then = r.then
               /\ \/ main.is = "doc" /\ n.pool = main.doc /\ n.phase = r.onread
                  \/ /\ main.is # "doc" /\ backup.doc # NoLogins
                     /\ n.pool = backup.doc /\ n.phase = "recover" /\ n.onsave = r.onread
                  \/ /\ main.is # "doc" /\ backup.doc = NoLogins
                     /\ n.pool = NoLogins /\ n.phase = r.onread
<1> DEFINE r0 == proc[p]
           r == [r0 EXCEPT !.before = IF r0.onread = "stamp" THEN main.mtime ELSE 0]
           n == CASE main.is = "doc" -> [r EXCEPT !.pool = main.doc, !.phase = r.onread]
                  [] main.is # "doc" /\ backup.doc # NoLogins ->
                         [r EXCEPT !.pool = backup.doc, !.phase = "recover", !.onsave = r.onread]
                  [] OTHER -> [r EXCEPT !.pool = NoLogins, !.phase = r.onread]
<1>1. r0.phase \in {"look", "read"} /\ Step(p, n) /\ Still
  BY DEF Read, At, Still
<1>2. /\ r0 \in Operations /\ InRead(r0, r0.onread) /\ ~r0.saved /\ FilesOK
      /\ proc \in [Procs -> Operations]
      /\ (r0.kind = "paste" => r0.token = PastedKey /\ r0.account = NoAccount)
  BY <1>1, OpFacts DEF Flow, InRead, InLoad
<1>3. /\ main.doc \in Docs /\ backup.doc \in Docs /\ main.mtime \in Nat
      /\ r0.onread \in Phases /\ r0.onread \in {"stamp", "edit"}
  BY <1>2 DEF FilesOK, Operations, InRead, InLoad
<1>4. /\ r \in Operations /\ Keeps(r, r0) /\ r.then = r0.then /\ r.onread = r0.onread
  BY <1>2, <1>3 DEF Operations, Keeps
<1> HIDE DEF r
<1>5. /\ Keeps(n, r0) /\ n.then = r0.then /\ n.onread = r0.onread
      /\ \/ main.is = "doc" /\ n.pool = main.doc /\ n.phase = r0.onread
         \/ /\ main.is # "doc" /\ backup.doc # NoLogins
            /\ n.pool = backup.doc /\ n.phase = "recover" /\ n.onsave = r0.onread
         \/ /\ main.is # "doc" /\ backup.doc = NoLogins
            /\ n.pool = NoLogins /\ n.phase = r0.onread
  <2>1. CASE main.is = "doc"
    <3>1. n = [r EXCEPT !.pool = main.doc, !.phase = r.onread]
      BY <2>1
    <3> HIDE DEF n
    <3>2. n \in Operations
      BY <1>3, <1>4, <3>1 DEF Operations
    <3> QED BY <1>4, <2>1, <3>1, <3>2 DEF Operations, Keeps
  <2>2. CASE main.is # "doc" /\ backup.doc # NoLogins
    <3>1. n = [r EXCEPT !.pool = backup.doc, !.phase = "recover", !.onsave = r.onread]
      BY <2>2
    <3> HIDE DEF n
    <3>2. n \in Operations
      BY <1>3, <1>4, <3>1, PhaseFacts DEF Operations
    <3> QED BY <1>4, <2>2, <3>1, <3>2 DEF Operations, Keeps
  <2>3. CASE main.is # "doc" /\ backup.doc = NoLogins
    <3>1. n = [r EXCEPT !.pool = NoLogins, !.phase = r.onread]
      BY <2>3
    <3> HIDE DEF n
    <3>2. n \in Operations
      BY <1>3, <1>4, <3>1, NoLoginsFacts DEF Operations
    <3> QED BY <1>4, <2>3, <3>1, <3>2 DEF Operations, Keeps
  <2> QED BY <2>1, <2>2, <2>3
<1> HIDE DEF n
<1>6. Flow(n)
  <2>1. CASE r0.onread = "stamp"
    BY <1>2, <1>5, <2>1 DEF Flow, InLoad, InRead, Keeps, Saving, Waits, Lands
  <2>2. CASE r0.onread = "edit"
    BY <1>2, <1>5, <2>2 DEF Flow, InLoad, InRead, Keeps, Saving, Waits, Lands
  <2> QED BY <1>3, <2>1, <2>2
<1>7. FilesOK'
  BY <1>1, <1>2 DEF FilesOK, Still
<1>8. Control'
  BY <1>1, <1>5, <1>6, <1>7, ControlStep DEF Keeps
<1>9. proc'[p] = n /\ Others(p)
  BY <1>1, <1>2, StepFacts DEF Others
<1> QED BY <1>1, <1>5, <1>8, <1>9

\* The file's mtime is looked at after the read.
LEMMA StampDoes ==
    ASSUME Control, NEW p \in Procs, Stamp(p)
    PROVE  LET r == proc[p]  n == proc'[p]
           IN  /\ Control' /\ Others(p) /\ r.phase = "stamp" /\ Keeps(n, r) /\ n.pool = r.pool
               /\ UNCHANGED <<main, writes, backup, ops, faults>>
               /\ \/ n.phase = "read" /\ n.then = r.then /\ UNCHANGED cache
                  \/ /\ n.phase = r.then /\ n.then = "idle"
                     /\ cache' = [cache EXCEPT ![p] =
                                    [held |-> TRUE, doc |-> r.pool, mtime |-> main.mtime]]
<1> DEFINE r == proc[p]
           n1 == [ReadFile(r, "stamp") EXCEPT !.again = TRUE]
           n2 == [r EXCEPT !.phase = r.then, !.then = "idle", !.onread = "idle",
                           !.before = 0, !.again = FALSE, !.ok = FALSE]
           entry == [held |-> TRUE, doc |-> r.pool, mtime |-> main.mtime]
<1>1. /\ r.phase = "stamp" /\ UNCHANGED <<main, writes, backup, ops, faults>>
      /\ \/ Step(p, n1) /\ UNCHANGED cache
         \/ Step(p, n2) /\ cache' = [cache EXCEPT ![p] = entry]
  BY DEF Stamp, At
<1>2. /\ r \in Operations /\ InLoad(r) /\ ~r.saved /\ FilesOK /\ proc \in [Procs -> Operations]
      /\ (r.kind = "paste" => r.token = PastedKey /\ r.account = NoAccount)
      /\ r.pool \in Docs
  BY <1>1, OpFacts DEF Flow
<1>3. CASE Step(p, n1) /\ UNCHANGED cache
  <2>1. ReadFile(r, "stamp") = [r EXCEPT !.phase = "read", !.onread = "stamp"]
    BY DEF ReadFile
  <2>2. /\ n1 \in Operations /\ Keeps(n1, r) /\ n1.pool = r.pool /\ n1.phase = "read"
        /\ n1.then = r.then /\ n1.onread = "stamp"
    <3> DEFINE m == [r EXCEPT !.phase = "read", !.onread = "stamp"]
    <3>1. /\ m \in Operations /\ Keeps(m, r) /\ m.pool = r.pool /\ m.phase = "read"
          /\ m.then = r.then /\ m.onread = "stamp"
      BY <1>2, PhaseFacts DEF Operations, Keeps
    <3>2. n1 = [m EXCEPT !.again = TRUE]
      BY <2>1
    <3> HIDE DEF m, n1
    <3> QED BY <3>1, <3>2 DEF Operations, Keeps
  <2> HIDE DEF n1
  <2>3. Flow(n1)
    BY <1>2, <2>2 DEF Flow, InLoad, InRead, Keeps, Saving, Waits, Lands
  <2>4. FilesOK'
    BY <1>1, <1>2, <1>3 DEF FilesOK
  <2>5. Control'
    BY <1>3, <2>2, <2>3, <2>4, ControlStep
  <2>6. proc'[p] = n1 /\ Others(p)
    BY <1>2, <1>3, StepFacts DEF Others
  <2> QED BY <1>1, <1>3, <2>2, <2>5, <2>6
<1>4. CASE Step(p, n2) /\ cache' = [cache EXCEPT ![p] = entry]
  <2>1. r.then \in Phases
    BY <1>2 DEF Operations
  <2>2. /\ n2 \in Operations /\ Keeps(n2, r) /\ n2.pool = r.pool /\ n2.phase = r.then
        /\ n2.then = "idle"
    <3> DEFINE m == [r EXCEPT !.phase = r.then, !.then = "idle", !.onread = "idle"]
    <3>1. /\ m \in Operations /\ Keeps(m, r) /\ m.pool = r.pool /\ m.phase = r.then
          /\ m.then = "idle"
      BY <1>2, <2>1, PhaseFacts DEF Operations, Keeps
    <3>2. n2 = [m EXCEPT !.before = 0, !.again = FALSE, !.ok = FALSE]
      BY <1>2 DEF Operations
    <3> HIDE DEF m, n2
    <3> QED BY <3>1, <3>2 DEF Operations, Keeps
  <2> HIDE DEF n2
  <2>3. Flow(n2)
    BY <1>2, <2>2 DEF Flow, InLoad, InRead, Keeps, Saving, Waits, Lands
  <2>4. FilesOK'
    <3>1. entry \in [held : BOOLEAN, doc : Docs, mtime : 0..writes]
      BY <1>2 DEF FilesOK
    <3> HIDE DEF entry
    <3> QED BY <1>1, <1>2, <1>4, <3>1 DEF FilesOK
  <2>5. Control'
    BY <1>4, <2>2, <2>3, <2>4, ControlStep
  <2>6. proc'[p] = n2 /\ Others(p)
    BY <1>2, <1>4, StepFacts DEF Others
  <2> QED BY <1>1, <1>4, <2>2, <2>5, <2>6
<1> QED BY <1>1, <1>3, <1>4

\* What a save leaves of its operation, whether it succeeded or not.
After(r, n, ok) ==
    \/ r.onsave = "patched" /\ n = Idle
    \/ r.onsave = "landed" /\ ok /\ n = ToldSaved
    \/ /\ r.onsave = "landed" /\ ~ok /\ Keeps(n, r) /\ n.pool = r.pool
       /\ n.phase = "look" /\ n.then = "landed"
    \/ /\ r.onsave \in {"stamp", "edit", "scrub"} /\ Keeps(n, r) /\ n.pool = r.pool
       /\ n.phase = r.onsave /\ n.then = r.then /\ n.ok = ok

\* What Saved gives is one of these, and is where it can be.
LEMMA AfterSaved ==
    ASSUME NEW r \in Operations, r.phase \in Saving, Flow(r), NEW ok \in BOOLEAN
    PROVE  Saved(r, ok) \in Operations /\ Flow(Saved(r, ok)) /\ After(r, Saved(r, ok), ok)
<1> DEFINE n == Saved(r, ok)
<1>1. /\ InSave(r) /\ ~r.saved /\ r.kind # "none"
      /\ (r.kind = "paste" => r.token = PastedKey /\ r.account = NoAccount)
  BY DEF Flow, Saving
<1>2. n \in Operations
  BY SavedFacts
<1>3. r.onsave \in {"patched", "landed", "stamp", "edit", "scrub"}
  BY <1>1 DEF InSave, InRead
<1>4. CASE r.onsave = "patched"
  BY <1>2, <1>4, SavedFacts, IdleFlow DEF After
<1>5. CASE r.onsave = "landed" /\ ok
  BY <1>2, <1>5, SavedFacts, IdleFlow DEF After
<1>6. CASE r.onsave = "landed" /\ ~ok
  <2>1. n = Load(r, "landed") /\ "landed" \in Phases
    BY <1>6, SavedFacts, PhaseFacts
  <2> HIDE DEF n
  <2>2. /\ Keeps(n, r) /\ n.pool = r.pool /\ n.phase = "look" /\ n.then = "landed"
        /\ n.onread = "stamp"
    BY <2>1, LoadFacts
  <2>3. r.kind \in Lands
    BY <1>1, <1>6 DEF InSave, InRead, InLoad, Lands
  <2>4. Flow(n)
    BY <1>1, <2>2, <2>3 DEF Flow, InLoad, Keeps, Saving, Waits, Lands
  <2> QED BY <1>2, <1>6, <2>2, <2>4 DEF n, After
<1>7. CASE r.onsave \in {"stamp", "edit", "scrub"}
  <2>1. /\ Keeps(n, r) /\ n.pool = r.pool /\ n.phase = r.onsave /\ n.then = r.then
        /\ n.onread = r.onread /\ n.ok = ok
    BY <1>7, SavedFacts
  <2> HIDE DEF n
  <2>2. Flow(n)
    BY <1>1, <1>7, <2>1 DEF Flow, InSave, InRead, InLoad, Keeps, Saving, Waits, Lands
  <2> QED BY <1>2, <1>7, <2>1, <2>2 DEF n, After
<1> QED BY <1>3, <1>4, <1>5, <1>6, <1>7

\* A save begins.
LEMMA SaveDoes ==
    ASSUME Control, NEW p \in Procs, NEW r \in Operations, NEW pool \in Docs,
           NEW onsave \in Phases \cup {"patched"}, Save(p, r, pool, onsave),
           UNCHANGED <<main, writes, cache, ops>>
    PROVE  LET n == proc'[p]
           IN  /\ FilesOK' /\ Others(p) /\ Step(p, n) /\ Keeps(n, r) /\ n.pool = pool
               /\ n.phase = "write" /\ n.onsave = onsave /\ n.then = r.then /\ n.onread = r.onread
               /\ Rewrite(KeepLargest(main))
<1> DEFINE n == [r EXCEPT !.pool = pool, !.phase = "write", !.onsave = onsave]
<1>1. Rewrite(KeepLargest(main)) /\ Step(p, n)
  BY DEF Save
<1>2. FilesOK /\ proc \in [Procs -> Operations] /\ main.doc \in Docs
  BY ControlParts DEF FilesOK
<1>3. /\ n \in Operations /\ Keeps(n, r) /\ n.pool = pool /\ n.phase = "write"
      /\ n.onsave = onsave /\ n.then = r.then /\ n.onread = r.onread
  BY PhaseFacts DEF Operations, Keeps
<1> HIDE DEF n
<1>4. FilesOK'
  <2>1. /\ backup' \in [is : {"missing", "torn", "doc"}, doc : Docs]
        /\ backup'.is # "doc" => backup'.doc = NoLogins
        /\ faults' \in 0..MaxFaults
    <3>1. /\ KeepLargest(main) \in [is : {"missing", "torn", "doc"}, doc : Docs]
          /\ KeepLargest(main).is # "doc" => KeepLargest(main).doc = NoLogins
      BY <1>2, KeepTyped
    <3> QED BY <1>1, <1>2, <3>1, RewriteFacts
  <2> QED BY <1>2, <2>1 DEF FilesOK
<1>5. proc'[p] = n /\ Others(p)
  BY <1>1, <1>2, StepFacts DEF Others
<1> QED BY <1>1, <1>3, <1>4, <1>5

\* The copy is to be saved as the pool.
LEMMA RecoverDoes ==
    ASSUME Control, NEW p \in Procs, Recover(p)
    PROVE  LET r == proc[p]  n == proc'[p]
           IN  /\ Control' /\ Others(p) /\ UNCHANGED <<main, writes, cache, ops>>
               /\ r.phase = "recover" /\ Rewrite(KeepLargest(main))
               /\ Keeps(n, r) /\ n.pool = r.pool /\ n.phase = "write" /\ n.onsave = r.onsave
               /\ n.onsave \in {"stamp", "edit"} /\ n.then = r.then
<1> DEFINE r == proc[p]  n == proc'[p]
<1>1. /\ r.phase = "recover" /\ Save(p, r, r.pool, r.onsave)
      /\ UNCHANGED <<main, writes, cache, ops>>
  BY DEF Recover, At
<1>2. /\ r \in Operations /\ InRead(r, r.onsave) /\ ~r.saved /\ r.kind # "none"
      /\ (r.kind = "paste" => r.token = PastedKey /\ r.account = NoAccount)
      /\ r.pool \in Docs
  BY <1>1, OpFacts DEF Flow
<1>3. r.onsave \in Phases \cup {"patched"} /\ r.onsave \in {"stamp", "edit"}
  BY <1>2 DEF Operations, InRead
<1>4. /\ FilesOK' /\ Others(p) /\ Step(p, n) /\ Keeps(n, r) /\ n.pool = r.pool
      /\ n.phase = "write" /\ n.onsave = r.onsave /\ n.then = r.then /\ n.onread = r.onread
      /\ Rewrite(KeepLargest(main))
  BY <1>1, <1>2, <1>3, SaveDoes
<1> HIDE DEF r, n
<1>5. Flow(n)
  BY <1>2, <1>3, <1>4 DEF Flow, InSave, InRead, InLoad, Keeps, Saving, Waits, Lands
<1>6. Control'
  BY <1>4, <1>5, ControlStep DEF Keeps
<1> QED BY <1>1, <1>3, <1>4, <1>6 DEF r, n

\* A login is put into the pool in hand, or refused.
LEMMA AddDoes ==
    ASSUME Control, NEW p \in Procs, Add(p)
    PROVE  LET r == proc[p]  n == proc'[p]
           IN  /\ Control' /\ Others(p) /\ UNCHANGED <<main, writes, cache, ops>>
               /\ r.phase = "add"
               /\ \/ n = Idle /\ UNCHANGED <<backup, faults>>
                  \/ /\ ~Refused(r)
                     /\ Rewrite(KeepLargest(main)) /\ Keeps(n, r) /\ n.pool = Put(r)
                     /\ n.phase = "write" /\ n.onsave = "landed" /\ n.then = "idle"
<1> DEFINE r == proc[p]  n == proc'[p]
<1>1. /\ r.phase = "add" /\ UNCHANGED <<main, writes, cache, ops>>
      /\ \/ Step(p, Idle) /\ UNCHANGED <<backup, faults>>
         \/ ~Refused(r) /\ Save(p, r, Put(r), "landed")
  BY DEF Add, At
<1>2. /\ r \in Operations /\ r.kind \in Lands /\ r.then = "idle" /\ ~r.saved
      /\ (r.kind = "paste" => r.token = PastedKey /\ r.account = NoAccount)
      /\ proc \in [Procs -> Operations] /\ FilesOK
  BY <1>1, OpFacts DEF Flow
<1>3. CASE Step(p, Idle) /\ UNCHANGED <<backup, faults>>
  <2>1. FilesOK'
    BY <1>1, <1>2, <1>3 DEF FilesOK
  <2>2. Control'
    BY <1>3, <2>1, IdleFacts, IdleFlow, ControlStep
  <2>3. n = Idle /\ Others(p)
    BY <1>2, <1>3, StepFacts DEF Others
  <2> QED BY <1>1, <1>3, <2>2, <2>3
<1>4. CASE ~Refused(r) /\ Save(p, r, Put(r), "landed")
  <2>1. Put(r) \in Docs /\ "landed" \in Phases \cup {"patched"}
    BY <1>2, PutFacts, PhaseFacts
  <2>2. /\ FilesOK' /\ Others(p) /\ Step(p, n) /\ Keeps(n, r) /\ n.pool = Put(r)
        /\ n.phase = "write" /\ n.onsave = "landed" /\ n.then = r.then
        /\ Rewrite(KeepLargest(main))
    BY <1>1, <1>2, <1>4, <2>1, SaveDoes
  <2> HIDE DEF r, n
  <2>3. Flow(n)
    BY <1>2, <2>2 DEF Flow, InSave, InRead, InLoad, Keeps, Saving, Waits, Lands
  <2>4. Control'
    BY <2>2, <2>3, ControlStep DEF Keeps
  <2> QED BY <1>1, <1>2, <1>4, <2>2, <2>4 DEF r, n
<1> QED BY <1>1, <1>3, <1>4

\* A login is taken from the pool in hand, unless it is gone.
LEMMA RemoveDoes ==
    ASSUME Control, NEW p \in Procs, Remove(p)
    PROVE  LET r == proc[p]  n == proc'[p]
           IN  /\ Control' /\ Others(p) /\ UNCHANGED <<main, writes, cache, ops>>
               /\ r.phase = "remove" /\ r.kind = "logout"
               /\ \/ n = Idle /\ UNCHANGED <<backup, faults>>
                  \/ /\ r.slot \in DOMAIN r.pool /\ Rewrite(KeepLargest(main))
                     /\ n.kind = "logout" /\ n.slot = r.slot /\ n.token = r.pool[r.slot].token
                     /\ ~n.saved /\ n.pool = Without(r.pool, {r.slot})
                     /\ n.phase = "write" /\ n.onsave = "scrub" /\ n.then = "idle"
<1> DEFINE r == proc[p]  n == proc'[p]
           m == [r EXCEPT !.token = r.pool[r.slot].token]
<1>1. /\ r.phase = "remove" /\ UNCHANGED <<main, writes, cache, ops>>
      /\ \/ Step(p, Idle) /\ UNCHANGED <<backup, faults>>
         \/ /\ r.slot \in DOMAIN r.pool
            /\ Save(p, m, Without(r.pool, {r.slot}), "scrub")
  BY DEF Remove, At
<1>2. /\ r \in Operations /\ r.kind = "logout" /\ r.then = "idle" /\ ~r.saved /\ r.pool \in Docs
      /\ proc \in [Procs -> Operations] /\ FilesOK
  BY <1>1, OpFacts DEF Flow
<1>3. CASE Step(p, Idle) /\ UNCHANGED <<backup, faults>>
  <2>1. FilesOK'
    BY <1>1, <1>2, <1>3 DEF FilesOK
  <2>2. Control'
    BY <1>3, <2>1, IdleFacts, IdleFlow, ControlStep
  <2>3. n = Idle /\ Others(p)
    BY <1>2, <1>3, StepFacts DEF Others
  <2> QED BY <1>1, <1>2, <1>3, <2>2, <2>3
<1>4. CASE r.slot \in DOMAIN r.pool /\ Save(p, m, Without(r.pool, {r.slot}), "scrub")
  <2>1. Without(r.pool, {r.slot}) \in Docs /\ "scrub" \in Phases \cup {"patched"}
    BY <1>2, WithoutFacts, PhaseFacts
  <2>2. r.pool[r.slot].token \in 0..MaxOps + MaxSlot
    BY <1>2, <1>4, DocsFacts DEF Logins
  <2>3. /\ m \in Operations /\ m.kind = "logout" /\ m.slot = r.slot /\ ~m.saved
        /\ m.token = r.pool[r.slot].token /\ m.then = "idle"
    BY <1>2, <2>2 DEF Operations
  <2> HIDE DEF m
  <2>4. /\ FilesOK' /\ Others(p) /\ Step(p, n) /\ Keeps(n, m)
        /\ n.pool = Without(r.pool, {r.slot})
        /\ n.phase = "write" /\ n.onsave = "scrub" /\ n.then = m.then
        /\ Rewrite(KeepLargest(main))
    BY <1>1, <1>4, <2>1, <2>3, SaveDoes
  <2> HIDE DEF r, n
  <2>5. Flow(n)
    BY <2>3, <2>4 DEF Flow, InSave, InRead, InLoad, Keeps, Saving, Waits, Lands
  <2>6. Control'
    BY <2>4, <2>5, ControlStep DEF Keeps
  <2> QED BY <1>1, <1>2, <1>4, <2>3, <2>4, <2>6 DEF r, n, Keeps
<1> QED BY <1>1, <1>3, <1>4

\* A token is renewed in the pool in hand, unless its slot is gone.
LEMMA EditDoes ==
    ASSUME Control, NEW p \in Procs, Edit(p)
    PROVE  LET r == proc[p]  n == proc'[p]
           IN  /\ Control' /\ Others(p) /\ UNCHANGED <<main, writes, cache, ops>>
               /\ r.phase = "edit" /\ r.kind = "patch"
               /\ \/ n = Idle /\ UNCHANGED <<backup, faults>>
                  \/ /\ r.slot \in DOMAIN r.pool /\ Rewrite(KeepLargest(main))
                     /\ Keeps(n, r) /\ n.pool = [r.pool EXCEPT ![r.slot].token = r.token]
                     /\ n.phase = "write" /\ n.onsave = "patched" /\ n.then = "idle"
<1> DEFINE r == proc[p]  n == proc'[p]
           pool == [r.pool EXCEPT ![r.slot].token = r.token]
<1>1. /\ r.phase = "edit" /\ UNCHANGED <<main, writes, cache, ops>>
      /\ \/ Step(p, Idle) /\ UNCHANGED <<backup, faults>>
         \/ r.slot \in DOMAIN r.pool /\ Save(p, r, pool, "patched")
  BY DEF Edit, At
<1>2. /\ r \in Operations /\ r.kind = "patch" /\ r.then = "idle" /\ ~r.saved /\ r.pool \in Docs
      /\ r.token \in 0..MaxOps + MaxSlot /\ proc \in [Procs -> Operations] /\ FilesOK
  BY <1>1, OpFacts DEF Flow
<1>3. CASE Step(p, Idle) /\ UNCHANGED <<backup, faults>>
  <2>1. FilesOK'
    BY <1>1, <1>2, <1>3 DEF FilesOK
  <2>2. Control'
    BY <1>3, <2>1, IdleFacts, IdleFlow, ControlStep
  <2>3. n = Idle /\ Others(p)
    BY <1>2, <1>3, StepFacts DEF Others
  <2> QED BY <1>1, <1>2, <1>3, <2>2, <2>3
<1>4. CASE r.slot \in DOMAIN r.pool /\ Save(p, r, pool, "patched")
  <2>1. pool \in Docs /\ "patched" \in Phases \cup {"patched"}
    BY <1>2, <1>4, PatchFacts
  <2>2. /\ FilesOK' /\ Others(p) /\ Step(p, n) /\ Keeps(n, r) /\ n.pool = pool
        /\ n.phase = "write" /\ n.onsave = "patched" /\ n.then = r.then
        /\ Rewrite(KeepLargest(main))
    BY <1>1, <1>2, <1>4, <2>1, SaveDoes
  <2> HIDE DEF r, n, pool
  <2>3. Flow(n)
    BY <1>2, <2>2 DEF Flow, InSave, InRead, InLoad, Keeps, Saving, Waits, Lands
  <2>4. Control'
    BY <2>2, <2>3, ControlStep DEF Keeps
  <2> QED BY <1>1, <1>2, <1>4, <2>2, <2>4 DEF r, n, pool
<1> QED BY <1>1, <1>3, <1>4

\* A save that ends with a throw.
LEMMA UnsavedDoes ==
    ASSUME Control, NEW p \in Procs, proc[p].phase \in Saving, Unsaved(p),
           UNCHANGED <<main, writes, backup, ops, faults>>
    PROVE  LET r == proc[p]  n == proc'[p]
           IN  /\ Control' /\ Others(p) /\ After(r, n, FALSE)
               /\ cache' = [cache EXCEPT ![p] = NoCache]
<1> DEFINE r == proc[p]  n == proc'[p]
<1>1. cache' = [cache EXCEPT ![p] = NoCache] /\ Step(p, Saved(r, FALSE))
  BY DEF Unsaved
<1>2. r \in Operations /\ Flow(r) /\ proc \in [Procs -> Operations] /\ FilesOK
  BY OpFacts
<1>3. Saved(r, FALSE) \in Operations /\ Flow(Saved(r, FALSE)) /\ After(r, Saved(r, FALSE), FALSE)
  BY <1>2, AfterSaved
<1>4. FilesOK'
  <2>1. NoCache \in [held : BOOLEAN, doc : Docs, mtime : 0..writes]
    BY <1>2, NoLoginsFacts DEF NoCache, FilesOK
  <2> QED BY <1>1, <1>2, <2>1 DEF FilesOK
<1>5. Control'
  BY <1>1, <1>3, <1>4, ControlStep
<1>6. n = Saved(r, FALSE) /\ Others(p)
  BY <1>1, <1>2, StepFacts DEF Others
<1> QED BY <1>1, <1>3, <1>5, <1>6

\* A step of the save that changes nothing but the phase.
LEMMA PhaseOnly ==
    ASSUME NEW r \in Operations, r.phase \in Saving, Flow(r), NEW to \in {"check", "latch"}
    PROVE  LET n == [r EXCEPT !.phase = to]
           IN  /\ n \in Operations /\ Keeps(n, r) /\ n.pool = r.pool /\ n.phase = to
               /\ n.onsave = r.onsave /\ n.then = r.then /\ Flow(n)
<1> DEFINE n == [r EXCEPT !.phase = to]
<1>1. /\ n \in Operations /\ Keeps(n, r) /\ n.pool = r.pool /\ n.phase = to
      /\ n.onsave = r.onsave /\ n.then = r.then /\ n.onread = r.onread
  BY PhaseFacts DEF Operations, Keeps
<1> HIDE DEF n
<1>2. Flow(n)
  BY <1>1 DEF Flow, InSave, InRead, InLoad, Keeps, Saving, Waits, Lands
<1> QED BY <1>1, <1>2 DEF n

\* The rename lands, or only says so, or throws.
LEMMA WriteDoes ==
    ASSUME Control, NEW p \in Procs, Write(p)
    PROVE  LET r == proc[p]  n == proc'[p]
           IN  /\ Control' /\ Others(p) /\ UNCHANGED <<backup, ops, faults>>
               /\ r.phase = "write"
               /\ \/ /\ Keeps(n, r) /\ n.pool = r.pool /\ n.phase = "check"
                     /\ n.onsave = r.onsave /\ n.then = r.then /\ UNCHANGED cache
                     /\ \/ /\ main' = [is |-> "doc", doc |-> r.pool, mtime |-> writes + 1]
                           /\ writes' = writes + 1
                        \/ UNCHANGED <<main, writes>>
                  \/ /\ After(r, n, FALSE) /\ cache' = [cache EXCEPT ![p] = NoCache]
                     /\ UNCHANGED <<main, writes>>
<1> DEFINE r == proc[p]  n == proc'[p]
           m == [r EXCEPT !.phase = "check"]
           new == [is |-> "doc", doc |-> r.pool, mtime |-> writes + 1]
<1>1. /\ r.phase = "write" /\ UNCHANGED <<backup, ops, faults>>
      /\ \/ main' = new /\ writes' = writes + 1 /\ Step(p, m) /\ UNCHANGED cache
         \/ Step(p, m) /\ UNCHANGED <<main, writes, cache>>
         \/ Unsaved(p) /\ UNCHANGED <<main, writes>>
  BY DEF Write, At
<1>2. /\ r \in Operations /\ Flow(r) /\ proc \in [Procs -> Operations] /\ FilesOK
      /\ r.pool \in Docs /\ r.phase \in Saving
  BY <1>1, OpFacts DEF Saving
<1>3. /\ m \in Operations /\ Keeps(m, r) /\ m.pool = r.pool /\ m.phase = "check"
      /\ m.onsave = r.onsave /\ m.then = r.then /\ Flow(m)
  BY <1>2, PhaseOnly
<1>4. CASE main' = new /\ writes' = writes + 1 /\ Step(p, m) /\ UNCHANGED cache
  <2>1. FilesOK'
    <3>1. main' \in [is : {"missing", "torn", "doc"}, doc : Docs, mtime : 0..writes']
      BY <1>2, <1>4 DEF FilesOK
    <3>2. cache' \in [Procs -> [held : BOOLEAN, doc : Docs, mtime : 0..writes']]
      <4>1. ASSUME NEW q \in Procs
            PROVE  cache[q] \in [held : BOOLEAN, doc : Docs, mtime : 0..writes + 1]
        BY <1>2 DEF FilesOK
      <4>2. cache = [q \in Procs |-> cache[q]]
        BY <1>2 DEF FilesOK
      <4>3. cache \in [Procs -> [held : BOOLEAN, doc : Docs, mtime : 0..writes + 1]]
        BY <4>1, <4>2
      <4> QED BY <1>4, <4>3
    <3> QED BY <1>1, <1>2, <1>4, <3>1, <3>2 DEF FilesOK
  <2> HIDE DEF m
  <2>2. Control'
    BY <1>3, <1>4, <2>1, ControlStep
  <2>3. n = m /\ Others(p)
    BY <1>2, <1>4, StepFacts DEF Others
  <2> QED BY <1>1, <1>3, <1>4, <2>2, <2>3
<1>5. CASE Step(p, m) /\ UNCHANGED <<main, writes, cache>>
  <2>1. FilesOK'
    BY <1>1, <1>2, <1>5 DEF FilesOK
  <2> HIDE DEF m
  <2>2. Control'
    BY <1>3, <1>5, <2>1, ControlStep
  <2>3. n = m /\ Others(p)
    BY <1>2, <1>5, StepFacts DEF Others
  <2> QED BY <1>1, <1>3, <1>5, <2>2, <2>3
<1>6. CASE Unsaved(p) /\ UNCHANGED <<main, writes>>
  BY <1>1, <1>2, <1>6, UnsavedDoes
<1> QED BY <1>1, <1>4, <1>5, <1>6

\* The file is read back.
LEMMA CheckDoes ==
    ASSUME Control, NEW p \in Procs, Check(p)
    PROVE  LET r == proc[p]  n == proc'[p]
           IN  /\ Control' /\ Others(p) /\ UNCHANGED <<main, writes, backup, ops, faults>>
               /\ r.phase = "check"
               /\ \/ /\ Landed(p) /\ Keeps(n, r) /\ n.pool = r.pool /\ n.phase = "latch"
                     /\ n.onsave = r.onsave /\ n.then = r.then /\ UNCHANGED cache
                  \/ /\ ~Landed(p) /\ After(r, n, FALSE)
                     /\ cache' = [cache EXCEPT ![p] = NoCache]
<1> DEFINE r == proc[p]  n == proc'[p]
           m == [r EXCEPT !.phase = "latch"]
<1>1. /\ r.phase = "check" /\ UNCHANGED <<main, writes, backup, ops, faults>>
      /\ \/ Landed(p) /\ Step(p, m) /\ UNCHANGED cache
         \/ ~Landed(p) /\ Unsaved(p)
  BY DEF Check, At
<1>2. /\ r \in Operations /\ Flow(r) /\ proc \in [Procs -> Operations] /\ FilesOK
      /\ r.phase \in Saving
  BY <1>1, OpFacts DEF Saving
<1>3. /\ m \in Operations /\ Keeps(m, r) /\ m.pool = r.pool /\ m.phase = "latch"
      /\ m.onsave = r.onsave /\ m.then = r.then /\ Flow(m)
  BY <1>2, PhaseOnly
<1>4. CASE Landed(p) /\ Step(p, m) /\ UNCHANGED cache
  <2>1. FilesOK'
    BY <1>1, <1>2, <1>4 DEF FilesOK
  <2> HIDE DEF m
  <2>2. Control'
    BY <1>3, <1>4, <2>1, ControlStep
  <2>3. n = m /\ Others(p)
    BY <1>2, <1>4, StepFacts DEF Others
  <2> QED BY <1>1, <1>3, <1>4, <2>2, <2>3
<1>5. CASE ~Landed(p) /\ Unsaved(p)
  BY <1>1, <1>2, <1>5, UnsavedDoes
<1> QED BY <1>1, <1>4, <1>5

\* The pool on the disk is secured and cached.
LEMMA LatchDoes ==
    ASSUME Control, NEW p \in Procs, Latch(p)
    PROVE  LET r == proc[p]  n == proc'[p]
           IN  /\ Control' /\ Others(p) /\ UNCHANGED <<main, writes, ops>>
               /\ r.phase = "latch" /\ After(r, n, TRUE)
               /\ Rewrite(KeepLargest([is |-> "doc", doc |-> r.pool]))
               /\ cache' = [cache EXCEPT ![p] =
                               [held |-> TRUE, doc |-> r.pool, mtime |-> main.mtime]]
<1> DEFINE r == proc[p]  n == proc'[p]
           file == [is |-> "doc", doc |-> r.pool]
           entry == [held |-> TRUE, doc |-> r.pool, mtime |-> main.mtime]
<1>1. /\ r.phase = "latch" /\ UNCHANGED <<main, writes, ops>>
      /\ Rewrite(KeepLargest(file)) /\ cache' = [cache EXCEPT ![p] = entry]
      /\ Step(p, Saved(r, TRUE))
  BY DEF Latch, At
<1>2. /\ r \in Operations /\ Flow(r) /\ proc \in [Procs -> Operations] /\ FilesOK
      /\ r.phase \in Saving /\ r.pool \in Docs
  BY <1>1, OpFacts DEF Saving
<1>3. Saved(r, TRUE) \in Operations /\ Flow(Saved(r, TRUE)) /\ After(r, Saved(r, TRUE), TRUE)
  BY <1>2, AfterSaved
<1>4. FilesOK'
  <2>1. entry \in [held : BOOLEAN, doc : Docs, mtime : 0..writes]
    BY <1>2 DEF FilesOK
  <2>2. file.doc \in Docs
    BY <1>2
  <2>3. /\ KeepLargest(file) \in [is : {"missing", "torn", "doc"}, doc : Docs]
        /\ KeepLargest(file).is # "doc" => KeepLargest(file).doc = NoLogins
    BY <1>2, <2>2, KeepTyped
  <2> HIDE DEF entry, file
  <2>4. /\ backup' \in [is : {"missing", "torn", "doc"}, doc : Docs]
        /\ backup'.is # "doc" => backup'.doc = NoLogins
        /\ faults' \in 0..MaxFaults
    BY <1>1, <1>2, <2>3, RewriteFacts
  <2> QED BY <1>1, <1>2, <2>1, <2>4 DEF FilesOK
<1>5. Control'
  BY <1>1, <1>3, <1>4, ControlStep
<1>6. n = Saved(r, TRUE) /\ Others(p)
  BY <1>1, <1>2, StepFacts DEF Others
<1> QED BY <1>1, <1>3, <1>5, <1>6

\* A save that failed is looked into.
LEMMA DoubtDoes ==
    ASSUME Control, NEW p \in Procs, Doubt(p)
    PROVE  LET r == proc[p]  n == proc'[p]
           IN  /\ Control' /\ Others(p) /\ Still /\ r.phase = "landed"
               /\ n = IF Holds(r) THEN ToldSaved ELSE Idle
<1> DEFINE r == proc[p]  n == proc'[p]
           m == IF Holds(r) THEN ToldSaved ELSE Idle
<1>1. r.phase = "landed" /\ Still /\ Step(p, m)
  BY DEF Doubt, At, Still, Holds
<1>2. proc \in [Procs -> Operations] /\ FilesOK
  BY OpFacts
<1>3. m \in Operations /\ Flow(m)
  BY IdleFacts, IdleFlow
<1>4. FilesOK'
  BY <1>1, <1>2 DEF FilesOK, Still
<1> HIDE DEF m
<1>5. Control'
  BY <1>1, <1>3, <1>4, ControlStep
<1>6. n = m /\ Others(p)
  BY <1>1, <1>2, StepFacts DEF Others
<1> QED BY <1>1, <1>5, <1>6 DEF m

\* The copy is scrubbed.
LEMMA ScrubDoes ==
    ASSUME Control, NEW p \in Procs, Scrub(p)
    PROVE  LET r == proc[p]  n == proc'[p]
           IN  /\ Control' /\ Others(p) /\ UNCHANGED <<main, writes, cache, ops>>
               /\ r.phase = "scrub" /\ r.kind = "logout" /\ n = Idle /\ Rewrite(Scrubbed(r))
<1> DEFINE r == proc[p]  n == proc'[p]
<1>1. /\ r.phase = "scrub" /\ UNCHANGED <<main, writes, cache, ops>>
      /\ Step(p, Idle) /\ Rewrite(Scrubbed(r))
  BY DEF Scrub, At
<1>2. proc \in [Procs -> Operations] /\ FilesOK /\ r.kind = "logout"
  BY <1>1, OpFacts DEF Flow
<1>3. FilesOK'
  <2>1. /\ backup' \in [is : {"missing", "torn", "doc"}, doc : Docs]
        /\ backup'.is # "doc" => backup'.doc = NoLogins
        /\ faults' \in 0..MaxFaults
    <3>1. /\ Scrubbed(r) \in [is : {"missing", "torn", "doc"}, doc : Docs]
          /\ Scrubbed(r).is # "doc" => Scrubbed(r).doc = NoLogins
      BY <1>2, ScrubFacts DEF FilesOK
    <3> QED BY <1>1, <1>2, <3>1, RewriteFacts
  <2> QED BY <1>1, <1>2, <2>1 DEF FilesOK
<1>4. Control'
  BY <1>1, <1>3, IdleFacts, IdleFlow, ControlStep
<1>5. n = Idle /\ Others(p)
  BY <1>1, <1>2, StepFacts DEF Others
<1> QED BY <1>1, <1>2, <1>4, <1>5

\* A process dies at the files.
LEMMA CrashDoes ==
    ASSUME Control, NEW p \in Procs, Crash(p)
    PROVE  LET r == proc[p]  n == proc'[p]
           IN  /\ Control' /\ Others(p) /\ UNCHANGED <<main, writes, ops>>
               /\ r.phase \in FilePhases /\ n = Idle /\ faults' = faults + 1
               /\ cache' = [cache EXCEPT ![p] = NoCache]
               /\ UNCHANGED backup \/ backup' = Torn
<1> DEFINE r == proc[p]  n == proc'[p]
<1>1. /\ r.phase \in FilePhases /\ UNCHANGED <<main, writes, ops>> /\ Step(p, Idle)
      /\ faults < MaxFaults /\ faults' = faults + 1 /\ cache' = [cache EXCEPT ![p] = NoCache]
      /\ UNCHANGED backup \/ backup' = Torn
  BY DEF Crash, At
<1>2. proc \in [Procs -> Operations] /\ FilesOK
  BY OpFacts
<1>3. FilesOK'
  <2>1. NoCache \in [held : BOOLEAN, doc : Docs, mtime : 0..writes]
    BY <1>2, NoLoginsFacts DEF NoCache, FilesOK
  <2>2. /\ backup' \in [is : {"missing", "torn", "doc"}, doc : Docs]
        /\ backup'.is # "doc" => backup'.doc = NoLogins
    BY <1>1, <1>2, NoLoginsFacts DEF FilesOK, Torn
  <2>3. faults' \in 0..MaxFaults
    BY <1>1, <1>2, Bounds DEF FilesOK
  <2> QED BY <1>1, <1>2, <2>1, <2>2, <2>3 DEF FilesOK
<1>4. Control'
  BY <1>1, <1>3, IdleFacts, IdleFlow, ControlStep
<1>5. n = Idle /\ Others(p)
  BY <1>1, <1>2, StepFacts DEF Others
<1> QED BY <1>1, <1>4, <1>5

\* The file is lost.
LEMMA LoseDoes ==
    ASSUME Control, Lose
    PROVE  /\ Control' /\ UNCHANGED <<backup, cache, proc, ops>> /\ faults' = faults + 1
           /\ main.is = "doc" /\ main'.is # "doc" /\ \A p \in Procs : ~Busy(p)
<1>1. /\ faults < MaxFaults /\ faults' = faults + 1 /\ main.is = "doc"
      /\ UNCHANGED <<backup, cache, proc, ops>> /\ \A p \in Procs : ~Busy(p)
      /\ \/ main' = Missing /\ UNCHANGED writes
         \/ main' = [is |-> "torn", doc |-> NoLogins, mtime |-> writes + 1] /\ writes' = writes + 1
  BY DEF Lose, Busy
<1>2. FilesOK /\ proc \in [Procs -> Operations] /\ \A p \in Procs : Flow(proc[p])
  BY ControlParts
<1>3. writes \in Nat /\ writes' \in Nat /\ writes <= writes'
  BY <1>1, <1>2 DEF FilesOK
<1>4. /\ main' \in [is : {"missing", "torn", "doc"}, doc : Docs, mtime : 0..writes']
      /\ main'.is # "doc"
  BY <1>1, <1>2, <1>3, NoLoginsFacts DEF Missing
<1>5. cache' \in [Procs -> [held : BOOLEAN, doc : Docs, mtime : 0..writes']]
  <2>1. ASSUME NEW q \in Procs
        PROVE  cache[q] \in [held : BOOLEAN, doc : Docs, mtime : 0..writes']
    BY <1>2, <1>3 DEF FilesOK
  <2>2. cache = [q \in Procs |-> cache[q]]
    BY <1>2 DEF FilesOK
  <2>3. cache \in [Procs -> [held : BOOLEAN, doc : Docs, mtime : 0..writes']]
    BY <2>1, <2>2
  <2> QED BY <1>1, <2>3
<1>6. FilesOK'
  BY <1>1, <1>2, <1>3, <1>4, <1>5, Bounds DEF FilesOK
<1>7. Control'
  BY <1>1, <1>2, <1>6 DEF Control, FilesOK, TypeOK
<1> QED BY <1>1, <1>4, <1>7

\* Every step of a command away from the files is such a step.
LEMMA Calms ==
    ASSUME Control, NEW p \in Procs, LoginStep(p) \/ Command(p)
    PROVE  Control' /\ Calm(p)
<1>1. CASE LoginStep(p)
  BY <1>1, PickCalm, AuthorizeCalm, DeadlineCalm, RefuseCalm, PendingCalm, RegisterCalm,
     ApproveCalm DEF LoginStep
<1>2. CASE Command(p)
  BY <1>2, LogInNextCalm, LogOutCalm, ChooseCalm, LogInCalm, PasteKeyCalm, PatchCalm DEF Command
<1> QED BY <1>1, <1>2

\* The history of a login's token.
LEMMA LandedFacts ==
    ASSUME HistNext, NEW p \in Procs
    PROVE  /\ landed' \in [Procs -> BOOLEAN]
           /\ landed[p] /\ proc'[p].kind \in Lands => landed'[p]
           /\ /\ proc'[p].kind \in Lands /\ proc'[p].slot \in DOMAIN Effective'
              /\ Effective'[proc'[p].slot].token = proc'[p].token
              => landed'[p]
BY DEF HistNext, Lands

\* Who doubts or saves a login has one.
LEMMA LandsFacts ==
    ASSUME NEW r \in Operations, Flow(r)
    PROVE  /\ Doubting(r) => r.kind \in Lands /\ r.phase # "idle" /\ ~r.saved
           /\ r.phase \in Saving /\ r.onsave = "landed" => r.kind \in Lands /\ ~Doubting(r)
           /\ r.phase # "idle" => ~r.saved
<1>1. r.phase \in Phases
  BY DEF Operations
<1>2. Doubting(r) => r.kind \in Lands /\ r.phase # "idle"
  BY <1>1 DEF Flow, Doubting, InSave, InRead, InLoad, Lands, Saving, Phases, FilePhases, Waits
<1>3. r.phase \in Saving /\ r.onsave = "landed" => r.kind \in Lands /\ ~Doubting(r)
  BY DEF Flow, Doubting, InSave, InRead, InLoad, Lands, Saving
<1>4. r.phase # "idle" => ~r.saved
  BY DEF Flow
<1> QED BY <1>2, <1>3, <1>4

\* A process that does not move keeps what is known of its login.
LEMMA OthersTold ==
    ASSUME SavedInv, HistNext, NEW p \in Procs, Others(p), NEW q \in Procs, q # p,
           cache'[q] = cache[q]
    PROVE  Told(q)'
<1>1. proc'[q] = proc[q] /\ Told(q) /\ proc[q] \in Operations /\ Flow(proc[q])
  BY OpFacts DEF SavedInv, Others
<1>2. landed[q] /\ proc[q].kind \in Lands => landed'[q]
  BY <1>1, LandedFacts
<1>3. /\ Doubting(proc[q]) => proc[q].kind \in Lands
      /\ proc[q].phase \in Saving /\ proc[q].onsave = "landed" => proc[q].kind \in Lands
  BY <1>1, LandsFacts
<1> QED BY <1>1, <1>2, <1>3 DEF Told, Saving

\* What has to be shown of the process that moves.
Truthful(p) == Told(p)' /\ (Ended(p) /\ proc'[p].saved => landed[p])

\* No step away from the files says that a login is saved.
LEMMA CalmTold == ASSUME Control, NEW p \in Procs, Calm(p) PROVE Truthful(p)
<1>1. proc[p] \in Operations /\ Flow(proc[p])
  BY OpFacts
<1>2. /\ proc'[p].phase \in FilePhases => proc'[p].phase \in {"look", "read"}
      /\ ~proc'[p].saved \/ proc'[p] = proc[p]
      /\ ~Doubting(proc'[p])
  BY DEF Calm
<1>3. Told(p)'
  BY <1>2 DEF Told, Saving, FilePhases
<1>4. Ended(p) => ~proc'[p].saved
  BY <1>1, <1>2, LandsFacts DEF Ended, At
<1> QED BY <1>3, <1>4 DEF Truthful

\* A doubt is not settled by the cache, which the failed save dropped.
LEMMA RecallTold ==
    ASSUME SavedInv, NEW p \in Procs, Recall(p) PROVE Truthful(p)
<1> DEFINE r == proc[p]  n == proc'[p]
<1>1. /\ Others(p) /\ Still /\ r.phase = "look" /\ Fresh(p) /\ Keeps(n, r)
      /\ n.phase = r.then /\ n.then = "idle" /\ n.pool = cache[p].doc
  BY RecallDoes DEF SavedInv
<1>2. r \in Operations /\ Flow(r) /\ Told(p)
  BY OpFacts DEF SavedInv
<1>3. ~Doubting(r)
  BY <1>1, <1>2 DEF Told, Fresh
<1>4. r.then \in {"pick", "add", "choose", "remove"} /\ ~r.saved
  BY <1>1, <1>2, <1>3 DEF Flow, InLoad, Doubting
<1>5. Told(p)'
  BY <1>1, <1>4 DEF Told, Saving, Doubting
<1> QED BY <1>1, <1>4, <1>5 DEF Truthful, Keeps

\* What is read in doubt is on the disk.
LEMMA ReadTold ==
    ASSUME SavedInv, HistNext, NEW p \in Procs, Read(p) PROVE Truthful(p)
<1> DEFINE r == proc[p]  n == proc'[p]
<1>1. /\ Control' /\ Still /\ r.phase \in {"look", "read"} /\ Keeps(n, r) /\ n.then = r.then
      /\ \/ main.is = "doc" /\ n.pool = main.doc /\ n.phase = r.onread
         \/ /\ main.is # "doc" /\ backup.doc # NoLogins
            /\ n.pool = backup.doc /\ n.phase = "recover" /\ n.onsave = r.onread
         \/ /\ main.is # "doc" /\ backup.doc = NoLogins
            /\ n.pool = NoLogins /\ n.phase = r.onread
  BY ReadDoes DEF SavedInv
<1>2. r \in Operations /\ Flow(r) /\ FilesOK
  BY OpFacts DEF SavedInv
<1>3. r.onread \in {"stamp", "edit"} /\ ~r.saved
  BY <1>1, <1>2 DEF Flow, InRead, InLoad
<1>4. n.pool = NoLogins \/ n.pool = Effective'
  <2>1. Effective' = Effective
    BY <1>1 DEF Effective, Still
  <2>2. n.pool = NoLogins \/ n.pool = Effective
    BY <1>1, <1>2 DEF Effective, FilesOK
  <2> QED BY <2>1, <2>2
<1>5. Holds(n) => n.slot \in DOMAIN Effective' /\ Effective'[n.slot].token = n.token
  BY <1>4, NoLoginsFacts DEF Holds
<1>6. n \in Operations /\ Flow(n)
  BY <1>1 DEF Control, TypeOK
<1>7. Doubting(n) /\ Holds(n) => landed'[p]
  BY <1>5, <1>6, LandsFacts, LandedFacts
<1>8. Told(p)'
  BY <1>1, <1>3, <1>7 DEF Told, Saving
<1> QED BY <1>1, <1>3, <1>8 DEF Truthful, Ended, Keeps

\* What is cached in doubt was on the disk when it was read.
LEMMA StampTold ==
    ASSUME SavedInv, HistNext, NEW p \in Procs, Stamp(p) PROVE Truthful(p)
<1> DEFINE r == proc[p]  n == proc'[p]
<1>1. /\ r.phase = "stamp" /\ Keeps(n, r) /\ n.pool = r.pool
      /\ \/ n.phase = "read" /\ n.then = r.then
         \/ n.phase = r.then /\ n.then = "idle"
  BY StampDoes DEF SavedInv
<1>2. r \in Operations /\ Flow(r) /\ Told(p)
  BY OpFacts DEF SavedInv
<1>3. r.then \in {"pick", "add", "landed", "choose", "remove"} /\ ~r.saved
  BY <1>1, <1>2 DEF Flow, InLoad
<1>4. Doubting(n) => Doubting(r)
  BY <1>1, <1>3 DEF Doubting
<1>5. Holds(n) <=> Holds(r)
  BY <1>1 DEF Holds, Keeps
<1>6. Doubting(n) /\ Holds(n) => landed'[p]
  <2>1. Doubting(r) /\ Holds(r) => landed[p] /\ r.kind \in Lands
    BY <1>1, <1>2, LandsFacts DEF Told
  <2> QED BY <1>1, <1>4, <1>5, <2>1, LandedFacts DEF Keeps
<1>7. Told(p)'
  BY <1>1, <1>3, <1>6 DEF Told, Saving
<1> QED BY <1>1, <1>3, <1>7 DEF Truthful, Ended, Keeps

\* What is recovered in doubt is in the copy, which counts while the file is lost.
LEMMA RecoverTold ==
    ASSUME SavedInv, HistNext, NEW p \in Procs, Recover(p) PROVE Truthful(p)
<1> DEFINE r == proc[p]  n == proc'[p]
<1>1. /\ r.phase = "recover" /\ Keeps(n, r) /\ n.pool = r.pool /\ n.phase = "write"
      /\ n.onsave \in {"stamp", "edit"} /\ n.then = r.then
  BY RecoverDoes DEF SavedInv
<1>2. r \in Operations /\ Flow(r) /\ Told(p)
  BY OpFacts DEF SavedInv
<1>3. Doubting(n) /\ Holds(n) => landed'[p]
  <2>1. Doubting(r) /\ Holds(r) => landed[p] /\ r.kind \in Lands
    BY <1>1, <1>2, LandsFacts DEF Told
  <2>2. Doubting(n) /\ Holds(n) => Doubting(r) /\ Holds(r)
    BY <1>1 DEF Doubting, Holds, Keeps
  <2> QED BY <1>1, <2>1, <2>2, LandedFacts DEF Keeps
<1>4. Told(p)'
  BY <1>1, <1>3 DEF Told
<1> QED BY <1>1, <1>4 DEF Truthful, Ended

\* What is known survives the end of a save that failed.
LEMMA AfterTold ==
    ASSUME SavedInv, HistNext, NEW p \in Procs, proc[p].phase \in Saving,
           After(proc[p], proc'[p], FALSE), ~cache'[p].held
    PROVE  Truthful(p)
<1> DEFINE r == proc[p]  n == proc'[p]
<1>1. r \in Operations /\ Flow(r) /\ Told(p)
  BY OpFacts DEF SavedInv
<1>2. ~r.saved
  BY <1>1, LandsFacts DEF Saving
<1>3. CASE n = Idle
  BY <1>3, IdleFacts, IdleFlow DEF Told, Truthful, Saving
<1>4. CASE Keeps(n, r) /\ n.phase = "look" /\ n.then = "landed"
  BY <1>4 DEF Told, Truthful, Saving, Ended
<1>5. CASE /\ r.onsave \in {"stamp", "edit", "scrub"} /\ Keeps(n, r) /\ n.pool = r.pool
           /\ n.phase = r.onsave /\ n.then = r.then
  <2>1. Doubting(n) /\ Holds(n) => Doubting(r) /\ Holds(r)
    BY <1>5 DEF Doubting, Holds, Keeps
  <2>2. Doubting(r) /\ Holds(r) => landed[p] /\ r.kind \in Lands
    BY <1>1, LandsFacts DEF Told, Saving
  <2>3. Doubting(n) /\ Holds(n) => landed'[p]
    BY <1>5, <2>1, <2>2, LandedFacts DEF Keeps
  <2> QED BY <1>2, <1>5, <2>3 DEF Told, Truthful, Saving, Keeps
<1> QED BY <1>3, <1>4, <1>5 DEF After

\* A write keeps the login in hand.
LEMMA WriteTold ==
    ASSUME SavedInv, HistNext, NEW p \in Procs, Write(p) PROVE Truthful(p)
<1> DEFINE r == proc[p]  n == proc'[p]
<1>1. /\ r.phase = "write"
      /\ \/ /\ Keeps(n, r) /\ n.pool = r.pool /\ n.phase = "check"
            /\ n.onsave = r.onsave /\ n.then = r.then
         \/ After(r, n, FALSE) /\ cache' = [cache EXCEPT ![p] = NoCache]
  BY WriteDoes DEF SavedInv
<1>2. r \in Operations /\ Flow(r) /\ Told(p) /\ FilesOK
  BY OpFacts DEF SavedInv
<1>3. CASE /\ Keeps(n, r) /\ n.pool = r.pool /\ n.phase = "check"
           /\ n.onsave = r.onsave /\ n.then = r.then
  <2>1. Doubting(r) /\ Holds(r) => landed[p] /\ r.kind \in Lands
    BY <1>1, <1>2, LandsFacts DEF Told
  <2>2. (Doubting(n) => Doubting(r)) /\ (Holds(n) <=> Holds(r))
    BY <1>3 DEF Doubting, Holds, Keeps
  <2>3. Doubting(n) /\ Holds(n) => landed'[p]
    BY <1>3, <2>1, <2>2, LandedFacts DEF Keeps
  <2>4. n.onsave = "landed" => Holds(n)
    BY <1>1, <1>2, <1>3, <2>2 DEF Told, Saving
  <2> QED BY <1>3, <2>3, <2>4 DEF Told, Truthful, Ended
<1>4. CASE After(r, n, FALSE) /\ cache' = [cache EXCEPT ![p] = NoCache]
  <2>1. ~cache'[p].held
    BY <1>2, <1>4 DEF FilesOK, NoCache
  <2> QED BY <1>1, <1>4, <2>1, AfterTold DEF Saving
<1> QED BY <1>1, <1>3, <1>4

\* The file that was read back holds the login.
LEMMA CheckTold ==
    ASSUME SavedInv, HistNext, NEW p \in Procs, Check(p) PROVE Truthful(p)
<1> DEFINE r == proc[p]  n == proc'[p]
<1>1. /\ r.phase = "check" /\ UNCHANGED <<main, writes, backup, ops, faults>>
      /\ \/ /\ Landed(p) /\ Keeps(n, r) /\ n.pool = r.pool /\ n.phase = "latch"
            /\ n.onsave = r.onsave /\ n.then = r.then
         \/ After(r, n, FALSE) /\ cache' = [cache EXCEPT ![p] = NoCache]
  BY CheckDoes DEF SavedInv
<1>2. r \in Operations /\ Flow(r) /\ Told(p) /\ FilesOK
  BY OpFacts DEF SavedInv
<1>3. CASE /\ Landed(p) /\ Keeps(n, r) /\ n.pool = r.pool /\ n.phase = "latch"
           /\ n.onsave = r.onsave /\ n.then = r.then
  <2>1. Doubting(r) /\ Holds(r) => landed[p] /\ r.kind \in Lands
    BY <1>1, <1>2, LandsFacts DEF Told
  <2>2. (Doubting(n) => Doubting(r)) /\ (Holds(n) <=> Holds(r))
    BY <1>3 DEF Doubting, Holds, Keeps
  <2>3. Doubting(n) /\ Holds(n) => landed'[p]
    BY <1>3, <2>1, <2>2, LandedFacts DEF Keeps
  <2>4. n.onsave = "landed" => Holds(n) /\ n.kind \in Lands
    BY <1>1, <1>2, <1>3, <2>2, LandsFacts DEF Told, Saving, Keeps
  <2>5. Effective' = n.pool
    BY <1>1, <1>3 DEF Effective, Landed
  <2>6. n.onsave = "landed" => landed'[p]
    BY <2>4, <2>5, LandedFacts DEF Holds
  <2> QED BY <1>3, <2>3, <2>4, <2>6 DEF Told, Truthful, Ended
<1>4. CASE After(r, n, FALSE) /\ cache' = [cache EXCEPT ![p] = NoCache]
  <2>1. ~cache'[p].held
    BY <1>2, <1>4 DEF FilesOK, NoCache
  <2> QED BY <1>1, <1>4, <2>1, AfterTold DEF Saving
<1> QED BY <1>1, <1>3, <1>4

\* A login that was read back has been on the disk.
LEMMA LatchTold ==
    ASSUME SavedInv, HistNext, NEW p \in Procs, Latch(p) PROVE Truthful(p)
<1> DEFINE r == proc[p]  n == proc'[p]
<1>1. r.phase = "latch" /\ After(r, n, TRUE)
  BY LatchDoes DEF SavedInv
<1>2. r \in Operations /\ Flow(r) /\ Told(p)
  BY OpFacts DEF SavedInv
<1>3. ~r.saved
  BY <1>1, <1>2, LandsFacts
<1>4. CASE n = Idle
  BY <1>4, IdleFacts, IdleFlow DEF Told, Truthful, Saving
<1>5. CASE r.onsave = "landed" /\ n = ToldSaved
  <2>1. landed[p]
    BY <1>1, <1>2, <1>5 DEF Told
  <2> QED BY <1>5, <2>1, IdleFacts, IdleFlow DEF Told, Truthful, Saving
<1>6. CASE /\ r.onsave \in {"stamp", "edit", "scrub"} /\ Keeps(n, r) /\ n.pool = r.pool
           /\ n.phase = r.onsave /\ n.then = r.then
  <2>1. Doubting(n) /\ Holds(n) => Doubting(r) /\ Holds(r)
    BY <1>6 DEF Doubting, Holds, Keeps
  <2>2. Doubting(r) /\ Holds(r) => landed[p] /\ r.kind \in Lands
    BY <1>1, <1>2, LandsFacts DEF Told
  <2>3. Doubting(n) /\ Holds(n) => landed'[p]
    BY <1>6, <2>1, <2>2, LandedFacts DEF Keeps
  <2> QED BY <1>3, <1>6, <2>3 DEF Told, Truthful, Saving, Keeps
<1> QED BY <1>1, <1>4, <1>5, <1>6 DEF After

\* The edits say of no login that it is saved.
LEMMA EditsTold ==
    ASSUME SavedInv, NEW p \in Procs, Add(p) \/ Remove(p) \/ Edit(p) \/ Scrub(p) \/ Crash(p)
    PROVE  Truthful(p)
<1> DEFINE r == proc[p]  n == proc'[p]
<1>1. r \in Operations /\ Flow(r)
  BY OpFacts DEF SavedInv
<1>2. CASE n = Idle
  BY <1>2, IdleFacts, IdleFlow DEF Told, Truthful, Saving
<1>3. CASE Add(p) /\ n # Idle
  <2>1. /\ Keeps(n, r) /\ n.pool = Put(r) /\ n.phase = "write" /\ n.onsave = "landed"
        /\ n.then = "idle"
    BY <1>3, AddDoes DEF SavedInv
  <2>2. Holds(n)
    BY <1>1, <2>1, PutFacts DEF Holds, Keeps
  <2> QED BY <2>1, <2>2 DEF Told, Truthful, Saving, Doubting, Ended
<1>4. CASE (Remove(p) \/ Edit(p)) /\ n # Idle
  <2>1. n.phase = "write" /\ n.onsave \in {"scrub", "patched"} /\ n.then = "idle"
    BY <1>4, RemoveDoes, EditDoes DEF SavedInv
  <2> QED BY <2>1 DEF Told, Truthful, Saving, Doubting, Ended
<1>5. CASE Scrub(p) \/ Crash(p)
  BY <1>2, <1>5, ScrubDoes, CrashDoes DEF SavedInv
<1> QED BY <1>2, <1>3, <1>4, <1>5

\* A doubt is settled by what was on the disk.
LEMMA DoubtTold ==
    ASSUME SavedInv, NEW p \in Procs, Doubt(p) PROVE Truthful(p)
<1> DEFINE r == proc[p]  n == proc'[p]
<1>1. r.phase = "landed" /\ n = IF Holds(r) THEN ToldSaved ELSE Idle
  BY DoubtDoes DEF SavedInv
<1>2. Holds(r) => landed[p]
  BY <1>1 DEF SavedInv, Told, Doubting
<1>3. CASE Holds(r)
  BY <1>1, <1>2, <1>3, IdleFacts, IdleFlow DEF Told, Truthful, Saving
<1>4. CASE ~Holds(r)
  BY <1>1, <1>4, IdleFacts, IdleFlow DEF Told, Truthful, Saving
<1> QED BY <1>3, <1>4

\* A step of one process, and what it says of the others.
LEMMA Moves ==
    ASSUME Control, NEW p \in Procs, FileStep(p) \/ LoginStep(p) \/ Command(p) \/ Crash(p)
    PROVE  /\ Control' /\ Others(p)
           /\ \A q \in Procs : q # p => cache'[q] = cache[q]
<1>1. cache \in [Procs -> [held : BOOLEAN, doc : Docs, mtime : 0..writes]]
  BY ControlParts DEF FilesOK
<1>2. CASE LoginStep(p) \/ Command(p)
  BY <1>2, Calms DEF Calm, Others
<1>3. CASE Recall(p) \/ Read(p) \/ Doubt(p)
  BY <1>3, RecallDoes, ReadDoes, DoubtDoes DEF Still
<1>4. CASE Recover(p) \/ Add(p) \/ Remove(p) \/ Edit(p) \/ Scrub(p)
  BY <1>4, RecoverDoes, AddDoes, RemoveDoes, EditDoes, ScrubDoes
<1>5. CASE Stamp(p)
  BY <1>1, <1>5, StampDoes
<1>6. CASE Latch(p)
  BY <1>1, <1>6, LatchDoes
<1>7. CASE Write(p) \/ Check(p)
  BY <1>1, <1>7, WriteDoes, CheckDoes
<1>8. CASE Crash(p)
  BY <1>1, <1>8, CrashDoes
<1> QED BY <1>2, <1>3, <1>4, <1>5, <1>6, <1>7, <1>8 DEF FileStep

\* The same for every step of a process.
LEMMA MovesTold ==
    ASSUME SavedInv, HistNext, NEW p \in Procs,
           FileStep(p) \/ LoginStep(p) \/ Command(p) \/ Crash(p)
    PROVE  Truthful(p)
<1>1. CASE LoginStep(p) \/ Command(p)
  BY <1>1, Calms, CalmTold DEF SavedInv
<1>2. CASE FileStep(p)
  BY <1>2, RecallTold, ReadTold, StampTold, RecoverTold, WriteTold, CheckTold, LatchTold,
     EditsTold, DoubtTold DEF FileStep
<1> QED BY <1>1, <1>2, EditsTold

\* Every step keeps what is known of the logins that are reported saved.
LEMMA SavedStep ==
    ASSUME SavedInv, HistNext
    PROVE  SavedInv' /\ \A p \in Procs : Ended(p) /\ proc'[p].saved => landed[p]
<1>1. landed' \in [Procs -> BOOLEAN]
  BY DEF HistNext
<1>2. CASE Lose
  <2>1. Control' /\ proc' = proc /\ cache' = cache
    BY <1>2, LoseDoes DEF SavedInv
  <2>2. ASSUME NEW q \in Procs PROVE Told(q)'
    <3>1. Told(q) /\ proc[q] \in Operations /\ Flow(proc[q])
      BY OpFacts DEF SavedInv
    <3>2. /\ Doubting(proc[q]) => proc[q].kind \in Lands
          /\ proc[q].phase \in Saving /\ proc[q].onsave = "landed" => proc[q].kind \in Lands
      BY <3>1, LandsFacts
    <3>3. landed[q] /\ proc[q].kind \in Lands => landed'[q]
      BY <2>1, LandedFacts
    <3> QED BY <2>1, <3>1, <3>2, <3>3 DEF Told, Saving
  <2> QED BY <1>1, <2>1, <2>2 DEF SavedInv, Ended, At
<1>3. ASSUME NEW p \in Procs, FileStep(p) \/ LoginStep(p) \/ Command(p) \/ Crash(p)
      PROVE  SavedInv' /\ \A q \in Procs : Ended(q) /\ proc'[q].saved => landed[q]
  <2>1. Control' /\ Others(p) /\ \A q \in Procs : q # p => cache'[q] = cache[q]
    BY <1>3, Moves DEF SavedInv
  <2>2. Told(p)' /\ (Ended(p) /\ proc'[p].saved => landed[p])
    BY <1>3, MovesTold DEF Truthful
  <2>3. ASSUME NEW q \in Procs PROVE Told(q)'
    BY <2>1, <2>2, OthersTold
  <2>4. ASSUME NEW q \in Procs, Ended(q), proc'[q].saved PROVE landed[q]
    BY <2>1, <2>2, <2>4 DEF Others, Ended, At
  <2> QED BY <1>1, <2>1, <2>3, <2>4 DEF SavedInv
<1> QED BY <1>2, <1>3 DEF HistNext, Next

\* So does a step that changes nothing.
LEMMA StillSaved == ASSUME SavedInv, UNCHANGED hvars PROVE SavedInv'
BY DEF SavedInv, Control, TypeOK, Told, hvars, vars, hist

\* No process has anything to do at first.
LEMMA InitControl == Init => Control
<1> SUFFICES ASSUME Init PROVE Control
  OBVIOUS
<1>1. proc = [p \in Procs |-> Idle] /\ cache = [p \in Procs |-> NoCache] /\ writes = 1
      /\ ops = 0 /\ faults = 0
  BY DEF Init
<1>2. PICK doc \in Docs :
        /\ main = IF doc = NoLogins THEN Missing ELSE [is |-> "doc", doc |-> doc, mtime |-> 1]
        /\ backup = IF doc = NoLogins THEN NoCopy ELSE [is |-> "doc", doc |-> doc]
  BY DEF Init
<1>3. main \in [is : {"missing", "torn", "doc"}, doc : Docs, mtime : 0..writes]
  BY <1>1, <1>2, NoLoginsFacts DEF Missing
<1>4. /\ backup \in [is : {"missing", "torn", "doc"}, doc : Docs]
      /\ backup.is # "doc" => backup.doc = NoLogins
  BY <1>2, NoLoginsFacts DEF NoCopy
<1>5. cache \in [Procs -> [held : BOOLEAN, doc : Docs, mtime : 0..writes]]
  <2>1. NoCache \in [held : BOOLEAN, doc : Docs, mtime : 0..writes]
    BY <1>1, NoLoginsFacts DEF NoCache
  <2> QED BY <1>1, <2>1
<1>6. FilesOK
  BY <1>1, <1>3, <1>4, <1>5, Bounds DEF FilesOK
<1>7. proc \in [Procs -> Operations] /\ \A p \in Procs : Flow(proc[p])
  BY <1>1, IdleFacts, IdleFlow
<1> QED BY <1>6, <1>7, ControlParts

\* Nor is a login in doubt then.
LEMMA InitSaved == HistInit => SavedInv
<1> SUFFICES ASSUME HistInit PROVE SavedInv
  OBVIOUS
<1>1. Control /\ landed = [p \in Procs |-> FALSE] /\ proc = [p \in Procs |-> Idle]
  BY InitControl DEF HistInit, Init
<1>2. ASSUME NEW p \in Procs PROVE Told(p)
  BY <1>1, IdleFacts, IdleFlow DEF Told, Saving
<1> QED BY <1>1, <1>2 DEF SavedInv

\* What is known of the logins that are reported saved, in every state.
LEMMA SavedAlways == HistSpec => []SavedInv
<1>1. SavedInv /\ [HistNext]_hvars => SavedInv'
  BY SavedStep, StillSaved
<1> QED BY <1>1, InitSaved, PTL DEF HistSpec

\* Every operation stays where it can be.
LEMMA ControlStepAll == Control /\ [Next]_vars => Control'
<1>1. ASSUME Control, Next PROVE Control'
  BY <1>1, Moves, LoseDoes DEF Next
<1>2. ASSUME Control, UNCHANGED vars PROVE Control'
  BY <1>2 DEF Control, TypeOK, vars
<1> QED BY <1>1, <1>2

-----------------------------------------------------------------------------
\* Every operation on the file of the logins keeps the files, the caches and its own
\* state what they should be, whichever processes come between its accesses and
\* wherever they crash (src/cline-pool.ts).
THEOREM ClineStoreTyped == Spec => []TypeOK
<1>1. Spec => []Control
  BY InitControl, ControlStepAll, PTL DEF Spec
<1>2. Control => TypeOK
  BY DEF Control
<1> QED BY <1>1, <1>2, PTL

\* A user who is told that a login is saved had it on the disk: the write was read
\* back, or the file as it was loaded after a save that failed holds it
\* (src/cline-pool.ts, savePool and addAccount).
THEOREM SavedSafe == HistSpec => SavedMeansLanded
<1>1. SavedInv /\ [HistNext]_hvars =>
          [\A p \in Procs : Ended(p) /\ proc'[p].saved => landed[p]]_hvars
  BY SavedStep
<1> QED BY <1>1, SavedAlways, PTL DEF HistSpec, SavedMeansLanded

-----------------------------------------------------------------------------
(* While no accesses overlap                                               *)

Peaceful == SavedInv /\ HistNext /\ AtPeace /\ ~overlapped' /\ ~blind'

\* One process at the files, and the edit that ends is its own.
LEMMA PeacefulFacts ==
    ASSUME Peaceful
    PROVE  /\ Alone' /\ ~overlapped /\ ~blind
           /\ \A p \in Procs : faults > 0 /\ main.is # "doc" /\ proc[p].phase = "look" /\ Fresh(p)
                               => proc'[p] = proc[p]
BY DEF Peaceful, HistNext, Alone, At

\* What the step of a process makes of the pool as it should be.
LEMMA IntendedFacts ==
    ASSUME Peaceful, NEW p \in Procs, Others(p)
    PROVE  intended' = IF Lost THEN Effective'
                       ELSE IF Ended(p) /\ Made(p) THEN Target(proc[p]) ELSE intended
<1>1. \A q \in Procs : Ended(q) => q = p
  BY DEF Others, Ended, At
<1>2. Ended(p) => (CHOOSE q \in Procs : Ended(q)) = p
  BY <1>1
<1>3. intended' = IF Lost THEN Effective'
                  ELSE IF \E q \in Procs : Ended(q) /\ Made(q)
                  THEN Target(proc[CHOOSE q \in Procs : Ended(q)])
                  ELSE intended
  BY DEF Peaceful, HistNext
<1>4. (\E q \in Procs : Ended(q) /\ Made(q)) <=> Ended(p) /\ Made(p)
  BY <1>1
<1> QED BY <1>2, <1>3, <1>4

\* What a step leaves of the logouts that left the copy as it was.
LEMMA CutFacts ==
    ASSUME Peaceful, NEW p \in Procs, Others(p)
    PROVE  /\ cut \ {proc[p].slot} \subseteq cut'
           /\ proc[p].phase # "scrub" \/ faults' # faults => cut \subseteq cut'
           /\ Removing(p) /\ Broken(p) /\ Made(p) => proc[p].slot \in cut'
<1> DEFINE done == {q \in Procs : At(q, "scrub") /\ Ended(q) /\ ~Broken(q)}
           short == {q \in Procs : Removing(q) /\ Broken(q) /\ Made(q)}
<1>1. cut' = (cut \ {proc[q].slot : q \in done}) \cup {proc[q].slot : q \in short}
  BY DEF Peaceful, HistNext
<1>2. \A q \in Procs : Ended(q) => q = p
  BY DEF Others, Ended, At
<1>3. \A q \in done : q = p
  BY <1>2
<1>4. proc[p].phase # "scrub" \/ faults' # faults => done = {}
  BY <1>2 DEF At, Broken
<1>5. Removing(p) /\ Broken(p) /\ Made(p) => p \in short
  OBVIOUS
<1> HIDE DEF done, short
<1> QED BY <1>1, <1>3, <1>4, <1>5

\* Nothing is made or lost by a step that ends nothing, or ends it without a word.
LEMMA NothingMade ==
    ASSUME Peaceful, NEW p \in Procs, Others(p), ~proc'[p].saved,
           faults' = faults \/ proc'[p].phase # "idle",
           proc[p].phase \notin {"latch", "scrub"} \/ proc'[p].phase # "idle",
           main.is = "doc" => main'.is = "doc",
           backup'.is = "torn" => backup' = backup \/ main'.is = "doc"
    PROVE  intended' = intended
<1>1. ~Lost
  BY DEF Lost
<1>2. ~(Ended(p) /\ Made(p))
  BY DEF Made, Broken, Ended, At
<1> QED BY <1>1, <1>2, IntendedFacts

\* Operations that agree put the same login into the same pool.
LEMMA PutSame ==
    ASSUME NEW r \in Operations, NEW n \in Operations, n.slot = r.slot, n.account = r.account,
           n.token = r.token, n.pool = r.pool
    PROVE  Put(n) = Put(r)
BY DEF Put

\* An operation with another pool in hand.
LEMMA WithPool ==
    ASSUME NEW r \in Operations, NEW d \in Docs
    PROVE  LET m == [r EXCEPT !.pool = d]
           IN  /\ m \in Operations /\ m.pool = d /\ m.slot = r.slot /\ m.account = r.account
               /\ m.token = r.token
BY DEF Operations

\* The edit of an operation does not change while it goes on.
LEMMA TargetSame ==
    ASSUME NEW p \in Procs, proc[p] \in Operations, proc'[p] \in Operations, intended \in Docs,
           Keeps(proc'[p], proc[p]), intended' = intended
    PROVE  Target(proc[p])' = Target(proc[p])
<1> DEFINE r == proc[p]  n == proc'[p]
           a == [r EXCEPT !.pool = intended]  b == [n EXCEPT !.pool = intended]
<1>1. n.kind = r.kind /\ n.slot = r.slot /\ n.account = r.account /\ n.token = r.token
  BY DEF Keeps
<1>2. Put(b) = Put(a)
  <2>1. /\ a \in Operations /\ a.pool = intended /\ a.slot = r.slot /\ a.account = r.account
        /\ a.token = r.token
    BY WithPool
  <2>2. /\ b \in Operations /\ b.pool = intended /\ b.slot = n.slot /\ b.account = n.account
        /\ b.token = n.token
    BY WithPool
  <2> HIDE DEF a, b
  <2> QED BY <1>1, <2>1, <2>2, PutSame
<1> QED BY <1>1, <1>2 DEF Target

\* What an edit leaves of the pool.
LEMMA TargetFacts ==
    ASSUME NEW r \in Operations, r.kind # "none", intended \in Docs
    PROVE  LET d == Target(r)
           IN  /\ d \in Docs
               /\ r.kind \in Lands => /\ DOMAIN d = DOMAIN intended \cup {r.slot}
                                      /\ d = Put([r EXCEPT !.pool = intended])
               /\ r.kind = "logout" => /\ DOMAIN d = DOMAIN intended \ {r.slot}
                                       /\ d = Without(intended, {r.slot})
               /\ r.kind = "patch" => DOMAIN d = DOMAIN intended
               /\ \A s \in DOMAIN d :
                     \/ s \in DOMAIN intended /\ d[s].token = intended[s].token
                     \/ r.kind # "logout" /\ s = r.slot /\ d[s].token = r.token
<1> DEFINE m == [r EXCEPT !.pool = intended]
<1>1. r.kind \in {"login", "paste", "logout", "patch"} /\ r.token \in 0..MaxOps + MaxSlot
  BY DEF Operations
<1>2. CASE r.kind \in Lands
  <2>1. Target(r) = Put(m)
    BY <1>2 DEF Target, Lands
  <2>2. m \in Operations /\ m.pool = intended /\ m.slot = r.slot /\ m.token = r.token
    BY WithPool
  <2> HIDE DEF m
  <2>3. /\ Put(m) \in Docs /\ DOMAIN Put(m) = DOMAIN intended \cup {r.slot}
        /\ Put(m)[r.slot].token = r.token
        /\ \A s \in DOMAIN intended : s # r.slot => Put(m)[s] = intended[s]
    BY <2>2, PutFacts
  <2> QED BY <1>2, <2>1, <2>3 DEF Lands, m
<1>3. CASE r.kind = "logout"
  <2> DEFINE e == Without(intended, {r.slot})
  <2>1. Target(r) = e
    BY <1>3 DEF Target
  <2>2. /\ e \in Docs /\ DOMAIN e = DOMAIN intended \ {r.slot}
        /\ \A s \in DOMAIN intended \ {r.slot} : e[s] = intended[s]
    BY WithoutFacts
  <2> HIDE DEF e
  <2>3. \A s \in DOMAIN e : s \in DOMAIN intended /\ e[s].token = intended[s].token
    BY <2>2
  <2> QED BY <1>3, <2>1, <2>2, <2>3 DEF Lands, e
<1>4. CASE r.kind = "patch" /\ r.slot \in DOMAIN intended
  <2>1. Target(r) = [intended EXCEPT ![r.slot].token = r.token]
    BY <1>4 DEF Target
  <2> DEFINE e == [intended EXCEPT ![r.slot].token = r.token]
  <2>2. /\ e \in Docs /\ DOMAIN e = DOMAIN intended /\ e[r.slot].token = r.token
        /\ \A s \in DOMAIN intended \ {r.slot} : e[s] = intended[s]
    BY <1>1, <1>4, PatchFacts
  <2> HIDE DEF e
  <2> QED BY <1>4, <2>1, <2>2 DEF Lands, e
<1>5. CASE r.kind = "patch" /\ r.slot \notin DOMAIN intended
  <2>1. Target(r) = intended
    BY <1>5 DEF Target
  <2> QED BY <1>5, <2>1 DEF Lands
<1> QED BY <1>1, <1>2, <1>3, <1>4, <1>5 DEF Lands

\* The process that moves takes no new token.
SameToken(p) ==
    /\ ops' = ops
    /\ proc'[p].kind \in Tells => proc[p].kind \in Tells /\ proc'[p].token = proc[p].token

\* A sound pool stays so when no token is taken.
LEMMA SoundStays ==
    ASSUME NEW doc, NEW p \in Procs, Others(p), Sound(doc, ops, proc), SameToken(p)
    PROVE  Sound(doc, ops', proc')
BY DEF Sound, Others, SameToken

\* No logins at all are sound.
LEMMA SoundNone == ASSUME NEW k, NEW procs PROVE Sound(NoLogins, k, procs) /\ Distinct(NoLogins)
BY NoLoginsFacts DEF Sound, Distinct

\* So is a sound pool without some of its logins.
LEMMA SoundWithout ==
    ASSUME NEW doc \in Docs, NEW k, NEW procs, NEW gone, Sound(doc, k, procs)
    PROVE  Sound(Without(doc, gone), k, procs)
<1> DEFINE e == Without(doc, gone)
<1>1. DOMAIN e = DOMAIN doc \ gone /\ \A s \in DOMAIN doc \ gone : e[s] = doc[s]
  BY WithoutFacts
<1> HIDE DEF e
<1>2. \A s \in DOMAIN e : s \in DOMAIN doc /\ e[s] = doc[s]
  BY <1>1
<1>3. Distinct(e)
  BY <1>2 DEF Sound, Distinct
<1> QED BY <1>2, <1>3 DEF Sound, e

\* Tokens stay distinct when none is taken.
LEMMA IssuedStays ==
    ASSUME NEW p \in Procs, Others(p), Issued, SameToken(p) PROVE Issued'
<1> SUFFICES ASSUME NEW q \in Procs, proc'[q].kind \in Tells
             PROVE  /\ proc'[q].token \in MaxSlot + 1..MaxSlot + ops'
                    /\ \A o \in Procs : o # q /\ proc'[o].kind \in Tells
                                        => proc'[o].token # proc'[q].token
  BY DEF Issued
<1>1. \A o \in Procs : proc'[o].kind \in Tells
                       => proc[o].kind \in Tells /\ proc'[o].token = proc[o].token
  BY DEF Others, SameToken
<1> QED BY <1>1 DEF Issued, SameToken

\* What an edit leaves is sound once its process has none.
LEMMA TargetSound ==
    ASSUME Control, Issued, intended \in Docs, Sound(intended, ops, proc), NEW p \in Procs,
           proc[p].kind # "none", Distinct(Target(proc[p])), Others(p), ops' = ops,
           proc'[p].kind = "none"
    PROVE  Sound(Target(proc[p]), ops', proc')
<1> DEFINE r == proc[p]  d == Target(r)
<1>1. r \in Operations /\ (r.kind = "paste" => r.token = PastedKey) /\ ops \in Nat
  BY OpFacts DEF Flow, FilesOK
<1>2. \A s \in DOMAIN d :
          \/ s \in DOMAIN intended /\ d[s].token = intended[s].token
          \/ r.kind # "logout" /\ s = r.slot /\ d[s].token = r.token
  BY <1>1, TargetFacts
<1>3. r.kind \in {"login", "paste", "logout", "patch"}
  BY <1>1 DEF Operations
<1>4. r.kind # "logout" => r.token <= MaxSlot + ops
  BY <1>1, <1>3, Bounds DEF Issued, Tells, PastedKey
<1>5. ASSUME NEW q \in Procs, proc'[q].kind \in Tells
      PROVE  q # p /\ proc'[q] = proc[q] /\ (r.kind # "logout" => r.token # proc[q].token)
  <2>1. q # p /\ proc'[q] = proc[q]
    BY <1>5 DEF Others, Tells
  <2>2. proc[q].token > 0
    BY <1>5, <2>1, Bounds DEF Issued
  <2>3. CASE r.kind = "paste"
    BY <1>1, <2>1, <2>2, <2>3 DEF PastedKey
  <2>4. CASE r.kind \in Tells
    BY <1>5, <2>1, <2>4 DEF Issued
  <2> QED BY <1>3, <2>1, <2>3, <2>4 DEF Tells
<1> HIDE DEF d, r
<1>6. \A s \in DOMAIN d : d[s].token <= MaxSlot + ops'
  BY <1>2, <1>4 DEF Sound
<1>7. ASSUME NEW s \in DOMAIN d, NEW q \in Procs, proc'[q].kind \in Tells
      PROVE  d[s].token # proc'[q].token
  BY <1>2, <1>5, <1>7 DEF Sound
<1> QED BY <1>6, <1>7 DEF Sound, d, r

\* A login that no other slot holds leaves the tokens distinct.
LEMMA PutDistinct ==
    ASSUME NEW r \in Operations, Flow(r), r.kind \in Lands, Distinct(r.pool),
           r.kind = "login" => \A s \in DOMAIN r.pool : r.pool[s].token # r.token,
           ~Refused(r)
    PROVE  Distinct(Put(r))
<1> DEFINE d == Put(r)
<1>1. \A s \in DOMAIN r.pool \ {r.slot} : r.pool[s].token # r.token
  <2>1. CASE r.kind = "login"
    BY <2>1
  <2>2. CASE r.kind = "paste"
    BY <2>2 DEF Flow, Refused, HeldElsewhere, SameAccount
  <2> QED BY <2>1, <2>2 DEF Lands
<1>2. /\ DOMAIN d = DOMAIN r.pool \cup {r.slot} /\ d[r.slot].token = r.token
      /\ \A s \in DOMAIN r.pool : s # r.slot => d[s] = r.pool[s]
  BY PutFacts
<1> HIDE DEF d
<1>3. Distinct(d)
  BY <1>1, <1>2 DEF Distinct
<1> QED BY <1>3 DEF d

\* What a process that is at the files has to bring to a step.
LEMMA BusyPeace ==
    ASSUME Peaceful, NEW p \in Procs, Busy(p), Others(p), SameToken(p),
           Agrees(p)', ~Busy(p)' => Effective' = intended', PoolsOK', CachesOK'
    PROVE  AtPeace'
<1>1. Alone' /\ AtPeace
  BY PeacefulFacts DEF Peaceful
<1>2. \A q \in Procs : q # p => ~Busy(q) /\ ~Busy(q)'
  BY <1>1 DEF AtPeace, Alone, Others, Busy
<1>3. ASSUME NEW q \in Procs PROVE Agrees(q)'
  <2>1. CASE q = p
    BY <2>1
  <2>2. CASE q # p
    BY <1>2, <2>2 DEF Agrees, Busy, FilePhases, Saving
  <2> QED BY <2>1, <2>2
<1>4. Quiet' => Effective' = intended'
  BY DEF Quiet
<1>5. Issued'
  BY <1>1, IssuedStays DEF AtPeace
<1> QED BY <1>1, <1>3, <1>4, <1>5 DEF AtPeace

\* The pools stay what they are when neither the files nor the intention change.
LEMMA PoolsKept ==
    ASSUME Peaceful, NEW p \in Procs, Others(p), SameToken(p), intended' = intended,
           UNCHANGED <<main, backup, faults>>, proc[p].phase # "scrub"
    PROVE  PoolsOK' /\ Effective' = Effective
<1>1. Sound(intended', ops', proc') /\ Sound(backup'.doc, ops', proc')
  BY SoundStays DEF Peaceful, AtPeace, PoolsOK
<1>2. Effective' = Effective
  BY DEF Effective
<1>3. cut \subseteq cut'
  BY CutFacts
<1> QED BY <1>1, <1>2, <1>3 DEF Peaceful, AtPeace, PoolsOK

\* A step away from the files.
LEMMA CalmPeace == ASSUME Peaceful, NEW p \in Procs, Calm(p) PROVE AtPeace'
<1> DEFINE r == proc[p]  n == proc'[p]
<1>1. /\ r.phase \notin FilePhases /\ Others(p)
      /\ UNCHANGED <<main, writes, backup, cache, faults>>
      /\ n.phase \in FilePhases => n.phase \in {"look", "read"}
      /\ ~n.saved \/ n = r
      /\ \/ ops' = ops /\ (n.kind = "none" \/ (n.kind = r.kind /\ n.token = r.token))
         \/ ops' = ops + 1 /\ (n.kind \in Tells => n.token = NewToken)
  BY DEF Calm, Others
<1>2. AtPeace /\ Alone' /\ Control
  BY PeacefulFacts DEF Peaceful, SavedInv
<1>3. intended' = intended
  <2>1. ~Lost
    BY <1>1 DEF Lost
  <2>2. ~(Ended(p) /\ Made(p))
    BY <1>1 DEF Made, Broken, Ended, At, FilePhases
  <2> QED BY <1>1, <2>1, <2>2, IntendedFacts
<1>4. Effective' = Effective
  BY <1>1 DEF Effective
<1>5. Quiet' => Quiet
  BY <1>1 DEF Quiet, Busy, Others
<1>6. ASSUME NEW q \in Procs PROVE Agrees(q)'
  <2>1. CASE q = p
    <3>1. CASE n.phase \in FilePhases
      <4>1. Quiet
        BY <1>1, <1>2, <3>1 DEF Quiet, Busy, Others, Alone
      <4>2. Effective' = intended'
        BY <1>2, <1>3, <1>4, <4>1 DEF AtPeace
      <4> QED BY <1>1, <2>1, <3>1, <4>2 DEF Agrees, Saving
    <3>2. CASE n.phase \notin FilePhases
      BY <2>1, <3>2 DEF Agrees, FilePhases, Saving
    <3> QED BY <3>1, <3>2
  <2>2. CASE q # p
    <3>1. Agrees(q) /\ proc'[q] = proc[q] /\ proc[q] \in Operations
      BY <1>1, <1>2, <2>2, OpFacts DEF AtPeace, Others
    <3>2. Target(proc[q])' = Target(proc[q])
      BY <1>2, <1>3, <3>1, TargetSame DEF AtPeace, PoolsOK, Keeps
    <3>3. Landed(q)' = Landed(q) /\ Outcome(proc[q])' = Outcome(proc[q])
      BY <1>1, <1>3, <3>1, <3>2 DEF Landed, Outcome
    <3> QED BY <1>1, <1>3, <1>4, <3>1, <3>2, <3>3 DEF Agrees
  <2> QED BY <2>1, <2>2
<1>7. CachesOK'
  BY <1>1, <1>2 DEF CachesOK, AtPeace
<1>8. CASE ops' = ops /\ (n.kind = "none" \/ (n.kind = r.kind /\ n.token = r.token))
  <2>1. SameToken(p)
    BY <1>8 DEF SameToken, Tells
  <2>2. PoolsOK' /\ Issued'
    BY <1>1, <1>2, <1>3, <2>1, PoolsKept, IssuedStays DEF AtPeace, FilePhases
  <2> QED BY <1>2, <1>3, <1>4, <1>5, <1>6, <1>7, <2>2 DEF AtPeace
<1>9. CASE ops' = ops + 1 /\ (n.kind \in Tells => n.token = NewToken)
  <2>1. ops \in Nat /\ NewToken = MaxSlot + ops + 1
    BY <1>2, ControlParts DEF FilesOK, NewToken
  <2>2. ASSUME NEW d \in Docs, Sound(d, ops, proc) PROVE Sound(d, ops', proc')
    <3>1. ASSUME NEW s \in DOMAIN d
          PROVE  d[s].token \in Nat /\ d[s].token <= MaxSlot + ops
      BY <2>2, DocsFacts, Bounds DEF Sound, Logins
    <3>2. ASSUME NEW s \in DOMAIN d, NEW q \in Procs, proc'[q].kind \in Tells
          PROVE  d[s].token # proc'[q].token
      <4>1. CASE q = p
        BY <1>9, <2>1, <3>1, <3>2, <4>1, Bounds
      <4>2. CASE q # p
        BY <1>1, <2>2, <3>2, <4>2 DEF Sound, Others
      <4> QED BY <4>1, <4>2
    <3>3. \A s \in DOMAIN d : d[s].token <= MaxSlot + ops'
      BY <1>9, <2>1, <3>1, Bounds
    <3> QED BY <2>2, <3>2, <3>3 DEF Sound
  <2>3. PoolsOK'
    <3>1. backup.doc \in Docs /\ intended \in Docs /\ PoolsOK
      BY <1>2, ControlParts DEF FilesOK, AtPeace, PoolsOK
    <3>2. Sound(intended', ops', proc') /\ Sound(backup'.doc, ops', proc')
      BY <1>1, <1>3, <2>2, <3>1 DEF PoolsOK
    <3>3. cut \subseteq cut'
      BY <1>1, CutFacts DEF FilePhases
    <3> QED BY <1>1, <1>3, <1>4, <3>1, <3>2, <3>3 DEF PoolsOK
  <2>4. Issued'
    <3>1. ASSUME NEW q \in Procs, q # p, proc[q].kind \in Tells
          PROVE  proc[q].token \in MaxSlot + 1..MaxSlot + ops /\ proc[q].token # NewToken
      BY <1>2, <2>1, <3>1, Bounds DEF AtPeace, Issued
    <3>2. ASSUME NEW q \in Procs, proc'[q].kind \in Tells
          PROVE  proc'[q].token \in MaxSlot + 1..MaxSlot + ops'
      BY <1>1, <1>9, <2>1, <3>1, <3>2, Bounds DEF Others
    <3>3. ASSUME NEW q \in Procs, NEW o \in Procs, proc'[q].kind \in Tells, o # q,
                 proc'[o].kind \in Tells
          PROVE  proc'[o].token # proc'[q].token
      <4>1. CASE q = p
        BY <1>1, <1>9, <3>1, <3>3, <4>1 DEF Others
      <4>2. CASE o = p
        BY <1>1, <1>9, <3>1, <3>3, <4>2 DEF Others
      <4>3. CASE q # p /\ o # p
        BY <1>1, <1>2, <3>3, <4>3 DEF Others, AtPeace, Issued
      <4> QED BY <4>1, <4>2, <4>3
    <3> QED BY <3>2, <3>3 DEF Issued
  <2> QED BY <1>2, <1>3, <1>4, <1>5, <1>6, <1>7, <2>3, <2>4 DEF AtPeace
<1> QED BY <1>1, <1>8, <1>9

\* What is known of a process at peace.
LEMMA PeaceFacts ==
    ASSUME Peaceful, NEW p \in Procs
    PROVE  /\ Control /\ AtPeace /\ Agrees(p) /\ PoolsOK /\ CachesOK /\ Issued /\ FilesOK
           /\ proc[p] \in Operations /\ Flow(proc[p])
           /\ proc[p].phase # "idle" => ~proc[p].saved /\ proc[p].kind # "none"
           /\ intended \in Docs /\ main.doc \in Docs /\ backup.doc \in Docs /\ faults \in Nat
           /\ backup.is # "doc" => backup.doc = NoLogins
           /\ main.is # "doc" => Effective = backup.doc
           /\ main.is = "doc" => Effective = main.doc
<1>1. Control /\ AtPeace /\ Agrees(p) /\ PoolsOK /\ CachesOK /\ Issued
  BY DEF Peaceful, SavedInv, AtPeace
<1>2. FilesOK /\ proc[p] \in Operations /\ Flow(proc[p])
  BY <1>1, OpFacts
<1>3. proc[p].phase # "idle" => ~proc[p].saved /\ proc[p].kind # "none"
  BY <1>2 DEF Flow
<1>4. /\ intended \in Docs /\ main.doc \in Docs /\ backup.doc \in Docs /\ faults \in Nat
      /\ backup.is # "doc" => backup.doc = NoLogins
  BY <1>1, <1>2, Bounds DEF PoolsOK, FilesOK
<1> QED BY <1>1, <1>2, <1>3, <1>4 DEF Effective

\* A record that keeps its operation takes no new token.
LEMMA KeepsToken ==
    ASSUME NEW p \in Procs, Keeps(proc'[p], proc[p]), ops' = ops PROVE SameToken(p)
BY DEF Keeps, SameToken

\* A read, or what follows one.
LEMMA LoadPeace ==
    ASSUME Peaceful, NEW p \in Procs, proc[p].phase \in {"look", "read", "stamp"}, Others(p),
           Keeps(proc'[p], proc[p]), UNCHANGED <<main, backup, ops, faults>>,
           proc'[p].phase \notin Saving \cup {"scrub"},
           proc'[p].phase \in {"recover", "stamp", "edit", "add", "remove", "landed"}
               => proc'[p].pool = intended,
           CachesOK'
    PROVE  AtPeace'
<1> DEFINE r == proc[p]  n == proc'[p]
<1>1. Effective = intended /\ ~r.saved
  BY PeaceFacts DEF Agrees
<1>2. SameToken(p) /\ ~n.saved
  BY <1>1, KeepsToken DEF Keeps
<1>3. intended' = intended
  BY <1>2, NothingMade
<1>4. PoolsOK' /\ Effective' = Effective
  BY <1>2, <1>3, PoolsKept
<1>5. Agrees(p)'
  BY <1>1, <1>3, <1>4 DEF Agrees, Saving
<1> QED BY <1>1, <1>2, <1>3, <1>4, <1>5, BusyPeace DEF Busy, FilePhases

\* At peace, a cached pool is what the files give.
LEMMA RecallPeace == ASSUME Peaceful, NEW p \in Procs, Recall(p) PROVE AtPeace'
<1> DEFINE r == proc[p]  n == proc'[p]
<1>1. /\ Others(p) /\ Still /\ r.phase = "look" /\ Fresh(p) /\ Keeps(n, r) /\ n.phase = r.then
      /\ n.pool = cache[p].doc
  BY PeaceFacts, RecallDoes
<1>2. InLoad(r) /\ CachesOK /\ PoolsOK /\ faults \in Nat /\ Effective = intended
      /\ (main.is # "doc" => Effective = backup.doc) /\ (main.is = "doc" => Effective = main.doc)
  BY <1>1, PeaceFacts DEF Flow, Agrees
<1>3. n.phase \in {"pick", "add", "landed", "choose", "remove"}
  BY <1>1, <1>2 DEF InLoad
<1>4. n.pool = intended
  <2>1. CASE main.is = "doc"
    BY <1>1, <1>2, <2>1 DEF CachesOK, Fresh
  <2>2. CASE main.is # "doc"
    <3>1. n # r
      BY <1>1, <1>3
    <3>2. faults = 0
      BY <1>1, <1>2, <2>2, <3>1, PeacefulFacts
    <3> QED BY <1>1, <1>2, <2>2, <3>2 DEF CachesOK, Fresh, PoolsOK
  <2> QED BY <2>1, <2>2
<1>5. CachesOK'
  BY <1>1, <1>2 DEF CachesOK, Still
<1> QED BY <1>1, <1>3, <1>4, <1>5, LoadPeace DEF Still, Saving

\* A read gives what the files do.
LEMMA ReadPeace == ASSUME Peaceful, NEW p \in Procs, Read(p) PROVE AtPeace'
<1> DEFINE r == proc[p]  n == proc'[p]
<1>1. /\ Others(p) /\ Still /\ r.phase \in {"look", "read"} /\ Keeps(n, r)
      /\ \/ main.is = "doc" /\ n.pool = main.doc /\ n.phase = r.onread
         \/ /\ main.is # "doc" /\ backup.doc # NoLogins
            /\ n.pool = backup.doc /\ n.phase = "recover" /\ n.onsave = r.onread
         \/ /\ main.is # "doc" /\ backup.doc = NoLogins
            /\ n.pool = NoLogins /\ n.phase = r.onread
  BY PeaceFacts, ReadDoes
<1>2. /\ CachesOK /\ Effective = intended
      /\ (main.is # "doc" => Effective = backup.doc) /\ (main.is = "doc" => Effective = main.doc)
  BY <1>1, PeaceFacts DEF Agrees
<1>3. r.onread \in {"stamp", "edit"}
  BY <1>1, PeaceFacts DEF Flow, InRead, InLoad
<1>4. n.pool = intended /\ n.phase \in {"recover", "stamp", "edit"}
  BY <1>1, <1>2, <1>3
<1>5. CachesOK'
  BY <1>1, <1>2 DEF CachesOK, Still
<1> QED BY <1>1, <1>4, <1>5, LoadPeace DEF Still, Saving

\* What is cached is what the files give.
LEMMA StampPeace == ASSUME Peaceful, NEW p \in Procs, Stamp(p) PROVE AtPeace'
<1> DEFINE r == proc[p]  n == proc'[p]
           entry == [held |-> TRUE, doc |-> r.pool, mtime |-> main.mtime]
<1>1. /\ Others(p) /\ r.phase = "stamp" /\ Keeps(n, r) /\ n.pool = r.pool
      /\ UNCHANGED <<main, backup, ops, faults>>
      /\ \/ n.phase = "read" /\ UNCHANGED cache
         \/ n.phase = r.then /\ cache' = [cache EXCEPT ![p] = entry]
  BY PeaceFacts, StampDoes
<1>2. /\ CachesOK /\ PoolsOK /\ Effective = intended /\ r.pool = intended /\ InLoad(r)
      /\ (main.is # "doc" => Effective = backup.doc) /\ (main.is = "doc" => Effective = main.doc)
      /\ cache \in [Procs -> [held : BOOLEAN, doc : Docs, mtime : 0..writes]]
  BY <1>1, PeaceFacts DEF Agrees, Flow, FilesOK
<1>3. n.phase \in {"read", "pick", "add", "landed", "choose", "remove"}
  BY <1>1, <1>2 DEF InLoad
<1>4. CachesOK'
  <2>1. CASE UNCHANGED cache
    BY <1>1, <1>2, <2>1 DEF CachesOK
  <2>2. CASE cache' = [cache EXCEPT ![p] = entry]
    <3>1. cache'[p] = entry /\ \A q \in Procs : q # p => cache'[q] = cache[q]
      BY <1>2, <2>2
    <3>2. /\ main.is = "doc" => r.pool = main.doc
          /\ main.is # "doc" /\ faults = 0 => r.pool = NoLogins
      BY <1>2 DEF PoolsOK
    <3> QED BY <1>1, <1>2, <3>1, <3>2 DEF CachesOK
  <2> QED BY <1>1, <2>1, <2>2
<1> QED BY <1>1, <1>2, <1>3, <1>4, LoadPeace DEF Saving

-----------------------------------------------------------------------------
(* A save, and what it leaves                                              *)

\* What securing a pool leaves of the copy, whether the write succeeds or not.
LEMMA SecureFacts ==
    ASSUME FilesOK, NEW file, file.doc \in Docs, Rewrite(KeepLargest(file))
    PROVE  /\ \/ backup' = backup
              \/ file.is = "doc" /\ backup'.is = "doc" /\ backup'.doc = file.doc
              \/ file.is = "doc" /\ backup' = Torn /\ backup'.doc = NoLogins
           /\ faults' = 0 => faults = 0
<1>1. /\ KeepLargest(file) \in [is : {"missing", "torn", "doc"}, doc : Docs]
      /\ KeepLargest(file).is # "doc" => KeepLargest(file).doc = NoLogins
  BY KeepTyped
<1>2. /\ faults \in Nat
      /\ \/ backup' = KeepLargest(file) /\ faults' = faults
         \/ KeepLargest(file) # backup /\ faults' = faults + 1
            /\ (backup' = backup \/ backup' = Torn)
  BY <1>1, RewriteFacts
<1>3. Torn.doc = NoLogins
  BY DEF Torn
<1>4. \/ KeepLargest(file) = backup
      \/ file.is = "doc" /\ KeepLargest(file) = [is |-> "doc", doc |-> file.doc]
  BY KeepFacts
<1> QED BY <1>2, <1>3, <1>4

\* The pool a save replaces is secured.
LEMMA SaveDocs ==
    ASSUME Peaceful, NEW p \in Procs, Others(p), SameToken(p), Effective = intended,
           intended' = intended, UNCHANGED main, Rewrite(KeepLargest(main)), proc[p].phase # "scrub"
    PROVE  PoolsOK' /\ Effective' = Effective
<1>1. PoolsOK /\ FilesOK /\ main.doc \in Docs /\ (main.is = "doc" => main.doc = intended)
  BY PeaceFacts
<1>2. /\ \/ backup' = backup
         \/ main.is = "doc" /\ (backup'.doc = intended \/ backup'.doc = NoLogins)
      /\ faults' = 0 => faults = 0
  BY <1>1, SecureFacts
<1>3. Sound(intended', ops', proc') /\ Sound(backup'.doc, ops', proc')
  BY <1>1, <1>2, SoundStays, SoundNone DEF PoolsOK
<1>4. Effective' = Effective
  BY <1>2 DEF Effective
<1>5. cut \subseteq cut'
  BY CutFacts
<1>6. DOMAIN backup'.doc \subseteq DOMAIN intended' \cup cut'
  BY <1>1, <1>2, <1>5, NoLoginsFacts DEF PoolsOK
<1> QED BY <1>1, <1>2, <1>3, <1>4, <1>6 DEF PoolsOK

\* A save begins, of the pool as the edit leaves it.
LEMMA BeginPeace ==
    ASSUME Peaceful, NEW p \in Procs, Busy(p), Others(p), SameToken(p), ~proc'[p].saved,
           proc[p].phase \notin Saving \cup {"scrub"}, proc'[p].phase = "write",
           UNCHANGED <<main, cache>>, Rewrite(KeepLargest(main)), Effective = intended,
           intended' = intended => /\ proc'[p].pool = Outcome(proc[p])'
                                   /\ Distinct(proc'[p].pool),
           proc'[p].onsave = "scrub" => /\ proc'[p].slot \in DOMAIN intended
                                        /\ proc'[p].token = intended[proc'[p].slot].token
    PROVE  AtPeace'
<1>1. CachesOK /\ FilesOK /\ main.doc \in Docs
  BY PeaceFacts
<1>2. /\ backup' = backup \/ main.is = "doc"
      /\ faults' = 0 => faults = 0
  BY <1>1, SecureFacts
<1>3. intended' = intended
  BY <1>2, NothingMade DEF Saving
<1>4. PoolsOK' /\ Effective' = Effective
  BY <1>3, SaveDocs
<1>5. Agrees(p)'
  BY <1>3, <1>4 DEF Agrees, Saving
<1>6. CachesOK'
  BY <1>1, <1>2 DEF CachesOK
<1> QED BY <1>3, <1>4, <1>5, <1>6, BusyPeace DEF Busy, FilePhases

\* An edit that is refused, or whose login is gone.
LEMMA RefusedPeace ==
    ASSUME Peaceful, NEW p \in Procs, proc[p].phase \in {"add", "remove", "edit"}, Others(p),
           proc'[p] = Idle, UNCHANGED <<main, backup, cache, ops, faults>>
    PROVE  AtPeace'
<1>1. Effective = intended /\ CachesOK
  BY PeaceFacts DEF Agrees
<1>2. SameToken(p) /\ ~Idle.saved /\ Idle.phase = "idle"
  BY IdleFacts DEF SameToken, Tells
<1>3. intended' = intended
  BY <1>2, NothingMade
<1>4. PoolsOK' /\ Effective' = Effective
  BY <1>2, <1>3, PoolsKept
<1>5. Agrees(p)'
  BY <1>2 DEF Agrees, Saving
<1>6. CachesOK'
  BY <1>1 DEF CachesOK
<1> QED BY <1>1, <1>2, <1>3, <1>4, <1>5, <1>6, BusyPeace DEF Busy, FilePhases

\* A recovery saves the pool as it should be.
LEMMA RecoverPeace == ASSUME Peaceful, NEW p \in Procs, Recover(p) PROVE AtPeace'
<1> DEFINE r == proc[p]  n == proc'[p]
<1>1. /\ Others(p) /\ UNCHANGED <<main, writes, cache, ops>> /\ r.phase = "recover"
      /\ Rewrite(KeepLargest(main)) /\ Keeps(n, r) /\ n.pool = r.pool /\ n.phase = "write"
      /\ n.onsave \in {"stamp", "edit"}
  BY PeaceFacts, RecoverDoes
<1>2. Effective = intended /\ r.pool = intended /\ ~r.saved /\ Distinct(intended)
  BY <1>1, PeaceFacts DEF Agrees, PoolsOK, Sound
<1>3. SameToken(p) /\ ~n.saved
  BY <1>1, <1>2, KeepsToken DEF Keeps
<1>4. intended' = intended => n.pool = Outcome(r)' /\ Distinct(n.pool)
  BY <1>1, <1>2 DEF Outcome
<1> QED BY <1>1, <1>2, <1>3, <1>4, BeginPeace DEF Busy, FilePhases, Saving

\* A login that is put into the pool as it should be.
LEMMA AddPeace == ASSUME Peaceful, NEW p \in Procs, Add(p) PROVE AtPeace'
<1> DEFINE r == proc[p]  n == proc'[p]
<1>1. /\ Others(p) /\ UNCHANGED <<main, writes, cache, ops>> /\ r.phase = "add"
      /\ \/ n = Idle /\ UNCHANGED <<backup, faults>>
         \/ /\ ~Refused(r)
            /\ Rewrite(KeepLargest(main)) /\ Keeps(n, r) /\ n.pool = Put(r)
            /\ n.phase = "write" /\ n.onsave = "landed"
  BY PeaceFacts, AddDoes
<1>2. CASE n = Idle /\ UNCHANGED <<backup, faults>>
  BY <1>1, <1>2, RefusedPeace
<1>3. CASE /\ ~Refused(r) /\ Rewrite(KeepLargest(main)) /\ Keeps(n, r)
           /\ n.pool = Put(r) /\ n.phase = "write" /\ n.onsave = "landed"
  <2>1. /\ Effective = intended /\ r.pool = intended /\ ~r.saved /\ PoolsOK /\ r.kind \in Lands
        /\ r \in Operations /\ Flow(r) /\ intended \in Docs
    BY <1>1, PeaceFacts DEF Agrees, Flow
  <2>2. SameToken(p) /\ ~n.saved
    BY <1>1, <1>3, <2>1, KeepsToken DEF Keeps
  <2>3. Distinct(n.pool)
    <3>1. Distinct(r.pool)
      BY <2>1 DEF PoolsOK, Sound
    <3>2. r.kind = "login" => \A s \in DOMAIN r.pool : r.pool[s].token # r.token
      BY <2>1 DEF PoolsOK, Sound, Tells
    <3> QED BY <1>3, <2>1, <3>1, <3>2, PutDistinct
  <2>4. ASSUME intended' = intended PROVE n.pool = Outcome(r)'
    <3> DEFINE a == [r EXCEPT !.pool = intended]
    <3>1. Target(r)' = Target(r)
      BY <1>3, <2>1, <2>4, TargetSame DEF Keeps
    <3>2. Target(r) = Put(a)
      BY <2>1 DEF Target, Lands
    <3>3. /\ a \in Operations /\ a.pool = r.pool /\ a.slot = r.slot /\ a.account = r.account
          /\ a.token = r.token
      BY <2>1, WithPool
    <3> HIDE DEF a
    <3>4. Put(a) = Put(r)
      BY <2>1, <3>3, PutSame
    <3> QED BY <1>3, <3>1, <3>2, <3>4 DEF Outcome
  <2> QED BY <1>1, <1>3, <2>1, <2>2, <2>3, <2>4, BeginPeace DEF Busy, FilePhases, Saving
<1> QED BY <1>1, <1>2, <1>3

\* A login that is taken from the pool as it should be.
LEMMA RemovePeace == ASSUME Peaceful, NEW p \in Procs, Remove(p) PROVE AtPeace'
<1> DEFINE r == proc[p]  n == proc'[p]
<1>1. /\ Others(p) /\ UNCHANGED <<main, writes, cache, ops>> /\ r.phase = "remove"
      /\ \/ n = Idle /\ UNCHANGED <<backup, faults>>
         \/ /\ r.slot \in DOMAIN r.pool /\ Rewrite(KeepLargest(main))
            /\ n.kind = "logout" /\ n.slot = r.slot /\ n.token = r.pool[r.slot].token
            /\ ~n.saved /\ n.pool = Without(r.pool, {r.slot})
            /\ n.phase = "write" /\ n.onsave = "scrub"
  BY PeaceFacts, RemoveDoes
<1>2. CASE n = Idle /\ UNCHANGED <<backup, faults>>
  BY <1>1, <1>2, RefusedPeace
<1>3. CASE /\ r.slot \in DOMAIN r.pool /\ Rewrite(KeepLargest(main))
           /\ n.kind = "logout" /\ n.slot = r.slot /\ n.token = r.pool[r.slot].token
           /\ ~n.saved /\ n.pool = Without(r.pool, {r.slot})
           /\ n.phase = "write" /\ n.onsave = "scrub"
  <2>1. Effective = intended /\ r.pool = intended /\ PoolsOK /\ intended \in Docs
    BY <1>1, PeaceFacts DEF Agrees
  <2>2. SameToken(p)
    BY <1>1, <1>3 DEF SameToken, Tells
  <2>3. Distinct(n.pool)
    BY <1>3, <2>1, SoundWithout DEF PoolsOK, Sound
  <2>4. intended' = intended => n.pool = Outcome(r)'
    BY <1>3, <2>1 DEF Outcome, Target
  <2> QED BY <1>1, <1>3, <2>1, <2>2, <2>3, <2>4, BeginPeace DEF Busy, FilePhases, Saving
<1> QED BY <1>1, <1>2, <1>3

\* A token that is renewed in the pool as it should be.
LEMMA EditPeace == ASSUME Peaceful, NEW p \in Procs, Edit(p) PROVE AtPeace'
<1> DEFINE r == proc[p]  n == proc'[p]
           patched == [r.pool EXCEPT ![r.slot].token = r.token]
<1>1. /\ Others(p) /\ UNCHANGED <<main, writes, cache, ops>> /\ r.phase = "edit"
      /\ r.kind = "patch"
      /\ \/ n = Idle /\ UNCHANGED <<backup, faults>>
         \/ /\ r.slot \in DOMAIN r.pool /\ Rewrite(KeepLargest(main))
            /\ Keeps(n, r) /\ n.pool = patched /\ n.phase = "write" /\ n.onsave = "patched"
  BY PeaceFacts, EditDoes
<1>2. CASE n = Idle /\ UNCHANGED <<backup, faults>>
  BY <1>1, <1>2, RefusedPeace
<1>3. CASE /\ r.slot \in DOMAIN r.pool /\ Rewrite(KeepLargest(main))
           /\ Keeps(n, r) /\ n.pool = patched /\ n.phase = "write" /\ n.onsave = "patched"
  <2>1. /\ Effective = intended /\ r.pool = intended /\ ~r.saved /\ PoolsOK
        /\ r \in Operations /\ intended \in Docs /\ r.token \in 0..MaxOps + MaxSlot
    BY <1>1, PeaceFacts, OpFacts DEF Agrees
  <2>2. SameToken(p) /\ ~n.saved
    BY <1>1, <1>3, <2>1, KeepsToken DEF Keeps
  <2>3. Distinct(n.pool)
    <3>1. /\ DOMAIN patched = DOMAIN intended /\ patched[r.slot].token = r.token
          /\ \A s \in DOMAIN intended \ {r.slot} : patched[s] = intended[s]
      BY <1>3, <2>1, PatchFacts
    <3> HIDE DEF patched
    <3>2. \A s \in DOMAIN intended : intended[s].token # r.token
      BY <1>1, <2>1 DEF PoolsOK, Sound, Tells
    <3>3. Distinct(intended)
      BY <2>1 DEF PoolsOK, Sound
    <3>4. Distinct(patched)
      BY <3>1, <3>2, <3>3 DEF Distinct
    <3> QED BY <1>3, <3>4
  <2>4. ASSUME intended' = intended PROVE n.pool = Outcome(r)'
    <3>1. Target(r)' = Target(r)
      BY <1>3, <2>1, <2>4, TargetSame DEF Keeps
    <3>2. Target(r) = patched
      BY <1>1, <1>3, <2>1 DEF Target
    <3> QED BY <1>3, <3>1, <3>2 DEF Outcome
  <2> QED BY <1>1, <1>3, <2>1, <2>2, <2>3, <2>4, BeginPeace DEF Busy, FilePhases, Saving
<1> QED BY <1>1, <1>2, <1>3

\* What a save leaves does not change while it is under way.
LEMMA OutcomeSame ==
    ASSUME Peaceful, NEW p \in Procs, Keeps(proc'[p], proc[p]), intended' = intended,
           proc'[p].onsave = proc[p].onsave
    PROVE  Outcome(proc[p])' = Outcome(proc[p])
<1>1. Target(proc[p])' = Target(proc[p])
  BY PeaceFacts, TargetSame DEF Keeps
<1> QED BY <1>1 DEF Outcome

\* A save that failed and changed nothing.
LEMMA FailedPeace ==
    ASSUME Peaceful, NEW p \in Procs, proc[p].phase \in {"write", "check"}, Others(p),
           After(proc[p], proc'[p], FALSE), UNCHANGED <<main, backup, ops, faults>>,
           cache' = [cache EXCEPT ![p] = NoCache], Effective = intended
    PROVE  AtPeace'
<1> DEFINE r == proc[p]  n == proc'[p]
<1>1. /\ ~r.saved /\ r.pool = Outcome(r) /\ CachesOK
      /\ cache \in [Procs -> [held : BOOLEAN, doc : Docs, mtime : 0..writes]]
      /\ (r.onsave = "scrub" => r.slot \in DOMAIN intended
                                /\ r.token = intended[r.slot].token)
  BY PeaceFacts DEF Agrees, Saving, FilesOK
<1>2. /\ ~n.saved /\ SameToken(p) /\ n.phase \in {"idle", "look", "stamp", "edit", "scrub"}
      /\ (n.phase # "idle" => n.slot = r.slot /\ n.token = r.token)
  BY <1>1, IdleFacts, KeepsToken DEF After, Keeps, SameToken, Tells
<1>3. intended' = intended
  BY <1>2, NothingMade
<1>4. PoolsOK' /\ Effective' = Effective
  BY <1>2, <1>3, PoolsKept
<1>5. Agrees(p)'
  <2>1. n.phase \in {"stamp", "edit"} => n.pool = intended
    BY <1>1, IdleFacts DEF After, Outcome
  <2>2. n.phase = "scrub" => ~n.ok /\ r.onsave = "scrub"
    BY IdleFacts DEF After
  <2> QED BY <1>1, <1>2, <1>3, <1>4, <2>1, <2>2 DEF Agrees, Saving
<1>6. CachesOK'
  <2>1. cache'[p] = NoCache /\ \A q \in Procs : q # p => cache'[q] = cache[q]
    BY <1>1
  <2> QED BY <1>1, <2>1 DEF CachesOK, NoCache
<1> QED BY <1>2, <1>3, <1>4, <1>5, <1>6, BusyPeace DEF Busy, FilePhases

\* The file is written, or the write fails.
LEMMA WritePeace == ASSUME Peaceful, NEW p \in Procs, Write(p) PROVE AtPeace'
<1> DEFINE r == proc[p]  n == proc'[p]
<1>1. /\ Others(p) /\ UNCHANGED <<backup, ops, faults>> /\ r.phase = "write"
      /\ \/ /\ Keeps(n, r) /\ n.pool = r.pool /\ n.phase = "check"
            /\ n.onsave = r.onsave /\ UNCHANGED cache
            /\ \/ /\ main' = [is |-> "doc", doc |-> r.pool, mtime |-> writes + 1]
                  /\ writes' = writes + 1
               \/ UNCHANGED <<main, writes>>
         \/ /\ After(r, n, FALSE) /\ cache' = [cache EXCEPT ![p] = NoCache]
            /\ UNCHANGED <<main, writes>>
  BY PeaceFacts, WriteDoes
<1>2. /\ ~r.saved /\ r.pool = Outcome(r) /\ Distinct(r.pool) /\ CachesOK /\ PoolsOK
      /\ Effective = intended /\ FilesOK
      /\ (r.onsave = "scrub" => r.slot \in DOMAIN intended
                                /\ r.token = intended[r.slot].token)
  BY <1>1, PeaceFacts DEF Agrees, Saving
<1>3. CASE Keeps(n, r) /\ n.pool = r.pool /\ n.phase = "check" /\ n.onsave = r.onsave
           /\ UNCHANGED cache
  <2>1. SameToken(p) /\ ~n.saved
    BY <1>1, <1>2, <1>3, KeepsToken DEF Keeps
  <2>2. main' = main \/ main' = [is |-> "doc", doc |-> r.pool, mtime |-> writes + 1]
    BY <1>1, <1>3 DEF After
  <2>3. intended' = intended
    BY <1>1, <1>3, <2>1, <2>2, NothingMade
  <2>4. Outcome(r)' = Outcome(r)
    BY <1>3, <2>3, OutcomeSame
  <2>5. CASE main' = main
    <3>1. PoolsOK' /\ Effective' = Effective
      BY <1>1, <2>1, <2>3, <2>5, PoolsKept
    <3>2. Agrees(p)'
      BY <1>2, <1>3, <2>3, <2>4, <3>1 DEF Agrees, Saving, Keeps
    <3>3. CachesOK'
      BY <1>1, <1>2, <1>3, <2>5 DEF CachesOK
    <3> QED BY <1>1, <1>3, <2>1, <3>1, <3>2, <3>3, BusyPeace DEF Busy, FilePhases
  <2>6. CASE main' = [is |-> "doc", doc |-> r.pool, mtime |-> writes + 1]
    <3>1. main'.is = "doc" /\ main'.doc = r.pool /\ main'.mtime = writes + 1
      BY <2>6
    <3>2. Landed(p)'
      BY <1>3, <3>1 DEF Landed
    <3>3. Agrees(p)'
      BY <1>2, <1>3, <2>3, <2>4, <3>2 DEF Agrees, Saving, Keeps
    <3>4. CachesOK'
      <4>1. ASSUME NEW q \in Procs PROVE cache[q].mtime # writes + 1
        BY <1>2 DEF FilesOK
      <4> QED BY <1>3, <3>1, <4>1 DEF CachesOK
    <3>5. PoolsOK'
      <4>1. Sound(intended', ops', proc') /\ Sound(backup'.doc, ops', proc')
        BY <1>1, <1>2, <2>1, <2>3, SoundStays DEF PoolsOK
      <4>2. Distinct(Effective')
        BY <1>2, <3>1 DEF Effective
      <4>3. cut \subseteq cut'
        BY <1>1, CutFacts
      <4> QED BY <1>1, <1>2, <2>3, <3>1, <4>1, <4>2, <4>3 DEF PoolsOK
    <3> QED BY <1>1, <1>3, <2>1, <3>3, <3>4, <3>5, BusyPeace DEF Busy, FilePhases
  <2> QED BY <2>2, <2>5, <2>6
<1>4. CASE After(r, n, FALSE) /\ cache' = [cache EXCEPT ![p] = NoCache] /\ UNCHANGED <<main, writes>>
  BY <1>1, <1>2, <1>4, FailedPeace
<1> QED BY <1>1, <1>3, <1>4

\* The file is read back.
LEMMA CheckPeace == ASSUME Peaceful, NEW p \in Procs, Check(p) PROVE AtPeace'
<1> DEFINE r == proc[p]  n == proc'[p]
<1>1. /\ Others(p) /\ UNCHANGED <<main, writes, backup, ops, faults>> /\ r.phase = "check"
      /\ \/ /\ Landed(p) /\ Keeps(n, r) /\ n.pool = r.pool /\ n.phase = "latch"
            /\ n.onsave = r.onsave /\ UNCHANGED cache
         \/ /\ ~Landed(p) /\ After(r, n, FALSE) /\ cache' = [cache EXCEPT ![p] = NoCache]
  BY PeaceFacts, CheckDoes
<1>2. /\ ~r.saved /\ r.pool = Outcome(r) /\ Distinct(r.pool) /\ CachesOK
      /\ (Effective = intended \/ Landed(p))
      /\ (r.onsave = "scrub" => r.slot \in DOMAIN intended
                                /\ r.token = intended[r.slot].token)
  BY <1>1, PeaceFacts DEF Agrees, Saving
<1>3. CASE Landed(p) /\ Keeps(n, r) /\ n.pool = r.pool /\ n.phase = "latch"
           /\ n.onsave = r.onsave /\ UNCHANGED cache
  <2>1. SameToken(p) /\ ~n.saved
    BY <1>1, <1>2, <1>3, KeepsToken DEF Keeps
  <2>2. intended' = intended
    BY <1>1, <1>3, <2>1, NothingMade
  <2>3. Outcome(r)' = Outcome(r)
    BY <1>3, <2>2, OutcomeSame
  <2>4. PoolsOK' /\ Effective' = Effective
    BY <1>1, <2>1, <2>2, PoolsKept
  <2>5. Landed(p)'
    BY <1>1, <1>3 DEF Landed
  <2>6. Agrees(p)'
    BY <1>2, <1>3, <2>2, <2>3, <2>5 DEF Agrees, Saving, Keeps
  <2>7. CachesOK'
    BY <1>1, <1>2, <1>3 DEF CachesOK
  <2> QED BY <1>1, <1>3, <2>1, <2>4, <2>6, <2>7, BusyPeace DEF Busy, FilePhases
<1>4. CASE ~Landed(p) /\ After(r, n, FALSE) /\ cache' = [cache EXCEPT ![p] = NoCache]
  BY <1>1, <1>2, <1>4, FailedPeace
<1> QED BY <1>1, <1>3, <1>4

\* The edit that a save was for.
LEMMA OnsaveFacts ==
    ASSUME Control, NEW p \in Procs, proc[p].phase \in Saving
    PROVE  LET r == proc[p]
           IN  /\ r.kind # "none" /\ r.onsave \in {"patched", "landed", "stamp", "edit", "scrub"}
               /\ r.onsave = "patched" => r.kind = "patch"
               /\ r.onsave = "landed" => r.kind \in Lands
               /\ r.onsave = "scrub" => r.kind = "logout"
<1> DEFINE r == proc[p]
<1>1. InSave(r) /\ r.kind # "none"
  BY OpFacts DEF Flow, Saving
<1>2. r.onsave \in {"patched", "landed", "stamp", "edit", "scrub"}
  BY <1>1 DEF InSave, InRead, InLoad
<1>3. r.onsave = "patched" => r.kind = "patch"
  BY <1>1 DEF InSave, InRead, InLoad
<1>4. r.onsave = "landed" => r.kind \in Lands
  BY <1>1 DEF InSave, InRead, InLoad
<1>5. r.onsave = "scrub" => r.kind = "logout"
  BY <1>1 DEF InSave, InRead, InLoad
<1> QED BY <1>1, <1>2, <1>3, <1>4, <1>5

\* The pool is on the disk, and is secured and cached.
LEMMA LatchPeace == ASSUME Peaceful, NEW p \in Procs, Latch(p) PROVE AtPeace'
<1> DEFINE r == proc[p]  n == proc'[p]
           file == [is |-> "doc", doc |-> r.pool]
           entry == [held |-> TRUE, doc |-> r.pool, mtime |-> main.mtime]
<1>1. /\ Others(p) /\ UNCHANGED <<main, writes, ops>> /\ r.phase = "latch"
      /\ After(r, n, TRUE) /\ Rewrite(KeepLargest(file))
      /\ cache' = [cache EXCEPT ![p] = entry]
  BY PeaceFacts, LatchDoes
<1>2. /\ ~r.saved /\ r.pool = Outcome(r) /\ Distinct(r.pool) /\ CachesOK /\ PoolsOK /\ Issued
      /\ Landed(p) /\ r \in Operations /\ intended \in Docs /\ Control
      /\ cache \in [Procs -> [held : BOOLEAN, doc : Docs, mtime : 0..writes]]
      /\ (r.onsave = "scrub" => r.slot \in DOMAIN intended
                                /\ r.token = intended[r.slot].token)
  BY <1>1, PeaceFacts DEF Agrees, Saving, FilesOK
<1>3. main.is = "doc" /\ main.doc = r.pool /\ Effective' = r.pool
  BY <1>1, <1>2 DEF Landed, Effective
<1>4. /\ r.kind # "none" /\ r.onsave \in {"patched", "landed", "stamp", "edit", "scrub"}
      /\ (r.onsave = "patched" => r.kind = "patch") /\ (r.onsave = "landed" => r.kind \in Lands)
      /\ (r.onsave = "scrub" => r.kind = "logout")
  BY <1>1, <1>2, OnsaveFacts DEF Saving
<1>5. /\ backup' = backup \/ backup'.doc = r.pool \/ backup'.doc = NoLogins
      /\ faults' = 0 => faults = 0
  <2>1. FilesOK /\ r.pool \in Docs
    BY <1>1, <1>2, PeaceFacts, OpFacts
  <2>2. file.doc \in Docs /\ file.doc = r.pool
    BY <2>1
  <2> HIDE DEF file
  <2> QED BY <1>1, <2>1, <2>2, SecureFacts
<1>6. CachesOK'
  <2>1. cache'[p] = entry /\ \A q \in Procs : q # p => cache'[q] = cache[q]
    BY <1>1, <1>2
  <2> QED BY <1>1, <1>2, <1>3, <1>5, <2>1 DEF CachesOK
<1>7. SameToken(p) /\ (n.saved => n.phase = "idle")
  BY <1>1, <1>2, IdleFacts, KeepsToken DEF After, Keeps, SameToken, Tells
<1>8. ~Lost
  BY <1>1, <1>3 DEF Lost
<1>9. cut \subseteq cut'
  BY <1>1, CutFacts
<1>10. CASE r.onsave \in {"patched", "landed"}
  <2>1. n.phase = "idle" /\ n.kind = "none" /\ (r.onsave = "landed" => n.saved)
    BY <1>1, <1>10, IdleFacts DEF After
  <2>2. r.pool = Target(r) /\ Effective' = Target(r)
    BY <1>2, <1>3, <1>10 DEF Outcome
  <2>3. Ended(p) /\ Made(p)
    BY <1>1, <1>10, <2>1, <2>2 DEF Ended, Made, At
  <2>4. intended' = Target(r) /\ r.pool = Target(r)
    BY <1>1, <1>8, <2>2, <2>3, IntendedFacts
  <2>5. Target(r) \in Docs /\ DOMAIN intended \subseteq DOMAIN Target(r)
    BY <1>2, <1>4, <1>10, TargetFacts
  <2>6. Sound(intended', ops', proc')
    BY <1>1, <1>2, <1>4, <2>1, <2>4, TargetSound DEF PoolsOK
  <2>7. Sound(backup'.doc, ops', proc')
    BY <1>1, <1>2, <1>5, <1>7, <2>4, <2>6, SoundStays, SoundNone DEF PoolsOK
  <2>8. DOMAIN backup'.doc \subseteq DOMAIN intended' \cup cut'
    BY <1>2, <1>5, <1>9, <2>4, <2>5, NoLoginsFacts DEF PoolsOK
  <2>9. PoolsOK'
    BY <1>1, <1>2, <1>3, <2>4, <2>5, <2>6, <2>7, <2>8 DEF PoolsOK
  <2>10. Agrees(p)'
    BY <2>1 DEF Agrees, Saving
  <2> QED BY <1>1, <1>3, <1>6, <1>7, <2>4, <2>9, <2>10, BusyPeace DEF Busy, FilePhases
<1>11. CASE r.onsave \in {"stamp", "edit", "scrub"}
  <2>1. /\ Keeps(n, r) /\ n.pool = r.pool /\ n.phase = r.onsave /\ n.ok
    BY <1>1, <1>11 DEF After
  <2>2. ~(Ended(p) /\ Made(p))
    BY <1>11, <2>1 DEF Ended
  <2>3. intended' = intended
    BY <1>1, <1>8, <2>2, IntendedFacts
  <2>4. Sound(r.pool, ops, proc) /\ DOMAIN r.pool \subseteq DOMAIN intended
    <3>1. CASE r.onsave \in {"stamp", "edit"}
      BY <1>2, <3>1 DEF Outcome, PoolsOK
    <3>2. CASE r.onsave = "scrub"
      <4>1. r.pool = Without(intended, {r.slot})
        BY <1>2, <1>4, <3>2 DEF Outcome, Target
      <4>2. Sound(intended, ops, proc)
        BY <1>2 DEF PoolsOK
      <4>3. Sound(r.pool, ops, proc)
        BY <1>2, <4>1, <4>2, SoundWithout
      <4>4. DOMAIN Without(intended, {r.slot}) = DOMAIN intended \ {r.slot}
        BY <1>2, WithoutFacts
      <4> QED BY <4>1, <4>3, <4>4
    <3> QED BY <1>11, <3>1, <3>2
  <2>5. Sound(intended', ops', proc') /\ Sound(backup'.doc, ops', proc')
    BY <1>1, <1>2, <1>5, <1>7, <2>3, <2>4, SoundStays, SoundNone DEF PoolsOK
  <2>6. DOMAIN backup'.doc \subseteq DOMAIN intended' \cup cut'
    BY <1>2, <1>5, <1>9, <2>3, <2>4, NoLoginsFacts DEF PoolsOK
  <2>7. PoolsOK'
    BY <1>1, <1>2, <1>3, <2>3, <2>5, <2>6 DEF PoolsOK
  <2>8. Agrees(p)'
    <3>1. CASE r.onsave \in {"stamp", "edit"}
      BY <1>2, <1>3, <2>1, <2>3, <3>1 DEF Agrees, Saving, Outcome
    <3>2. CASE r.onsave = "scrub"
      <4>1. Target(r)' = Target(r)
        BY <1>2, <2>1, <2>3, TargetSame DEF Keeps
      <4>2. main'.is = "doc" /\ main'.doc = Target(r)'
        BY <1>1, <1>2, <1>3, <3>2, <4>1 DEF Outcome
      <4> QED BY <1>2, <2>1, <2>3, <3>2, <4>2 DEF Agrees, Saving, Keeps
    <3> QED BY <1>11, <3>1, <3>2
  <2> QED BY <1>1, <1>6, <1>7, <1>11, <2>1, <2>7, <2>8, BusyPeace DEF Busy, FilePhases
<1> QED BY <1>4, <1>10, <1>11

\* At peace a save that failed left nothing on the disk, unless what it would have
\* left was there before.
LEMMA DoubtPeace == ASSUME Peaceful, NEW p \in Procs, Doubt(p) PROVE AtPeace'
<1> DEFINE r == proc[p]  n == proc'[p]
<1>1. /\ Others(p) /\ Still /\ r.phase = "landed" /\ n = IF Holds(r) THEN ToldSaved ELSE Idle
  BY PeaceFacts, DoubtDoes
<1>2. /\ Effective = intended /\ r.pool = intended /\ PoolsOK /\ CachesOK /\ r \in Operations
      /\ r.kind \in Lands /\ intended \in Docs
      /\ (r.kind = "paste" => r.token = PastedKey /\ r.account = NoAccount)
  BY <1>1, PeaceFacts DEF Agrees, Flow
<1>3. n.phase = "idle" /\ n.kind = "none" /\ (n.saved => Holds(r))
  BY <1>1, IdleFacts
<1>4. SameToken(p)
  BY <1>1, <1>3 DEF SameToken, Tells, Still
<1>5. intended' = intended
  <2>1. ~Lost
    BY <1>1 DEF Lost, Still
  <2>2. CASE Holds(r)
    <3>1. r.kind = "paste" /\ r.slot \in DOMAIN intended /\ intended[r.slot].token = r.token
      BY <1>2, <2>2 DEF Holds, PoolsOK, Sound, Lands, Tells
    <3> DEFINE a == [r EXCEPT !.pool = intended]
    <3>2. Target(r) = Put(a)
      BY <3>1 DEF Target
    <3>3. /\ a \in Operations /\ a.pool = intended /\ a.slot = r.slot /\ a.account = NoAccount
          /\ a.token = r.token
      BY <1>2, <3>1, WithPool
    <3> HIDE DEF a
    <3>4. Put(a) = intended
      <4>1. /\ Put(a) \in Docs /\ DOMAIN Put(a) = DOMAIN intended
            /\ Put(a)[r.slot].token = intended[r.slot].token
            /\ Put(a)[r.slot].account = intended[r.slot].account
            /\ \A s \in DOMAIN intended : s # r.slot => Put(a)[s] = intended[s]
        BY <3>1, <3>3, PutFacts
      <4>2. Put(a)[r.slot] \in Logins /\ intended[r.slot] \in Logins
        BY <1>2, <3>1, <4>1, DocsFacts
      <4>3. Put(a)[r.slot] = intended[r.slot]
        BY <4>1, <4>2 DEF Logins
      <4>4. \A s \in DOMAIN intended : Put(a)[s] = intended[s]
        BY <4>1, <4>3
      <4>5. /\ Put(a) = [s \in DOMAIN Put(a) |-> Put(a)[s]]
            /\ intended = [s \in DOMAIN intended |-> intended[s]]
        BY <1>2, <4>1, DocsFacts
      <4> QED BY <4>1, <4>4, <4>5
    <3> QED BY <1>1, <2>1, <3>2, <3>4, IntendedFacts
  <2>3. CASE ~Holds(r)
    <3>1. ~Made(p)
      BY <1>1, <1>3, <2>3 DEF Made, Broken, At, Still
    <3> QED BY <1>1, <2>1, <3>1, IntendedFacts
  <2> QED BY <2>2, <2>3
<1>6. PoolsOK' /\ Effective' = Effective
  BY <1>1, <1>4, <1>5, PoolsKept DEF Still
<1>7. Agrees(p)'
  BY <1>3 DEF Agrees, Saving
<1>8. CachesOK'
  BY <1>1, <1>2 DEF CachesOK, Still
<1> QED BY <1>1, <1>2, <1>4, <1>5, <1>6, <1>7, <1>8, BusyPeace DEF Busy, FilePhases

\* What is on the disk at any access is the pool before the edit or after it.
LEMMA OneOrOther ==
    ASSUME Control, PoolsOK, NEW p \in Procs, Busy(p), Agrees(p)
    PROVE  Effective = intended \/ Effective = Target(proc[p])
<1> DEFINE r == proc[p]
<1>1. CASE r.phase \in {"look", "read", "recover", "stamp", "edit", "add", "remove", "landed",
                        "write"}
  BY <1>1 DEF Agrees
<1>2. CASE r.phase \in {"check", "latch"}
  BY <1>2 DEF Agrees, Saving, Landed, Effective, Outcome
<1>3. CASE r.phase = "scrub"
  BY <1>3 DEF Agrees, Effective
<1> QED BY <1>1, <1>2, <1>3 DEF Busy, FilePhases

\* A crash, or a last write of the copy that fails, leaves the edit made or not made,
\* and a copy that is torn is missed only while the file is lost.
LEMMA BrokenPeace ==
    ASSUME Peaceful, NEW p \in Procs, Busy(p), Others(p), proc'[p] = Idle,
           UNCHANGED <<main, ops>>, faults' = faults + 1, UNCHANGED backup \/ backup' = Torn,
           CachesOK'
    PROVE  AtPeace'
<1> DEFINE r == proc[p]  n == proc'[p]
<1>1. /\ Others(p) /\ UNCHANGED <<main, ops>> /\ r.phase \in FilePhases /\ n = Idle
      /\ faults' = faults + 1 /\ (UNCHANGED backup \/ backup' = Torn)
  BY DEF Busy
<1>2. /\ PoolsOK /\ CachesOK /\ Issued /\ Agrees(p) /\ r \in Operations /\ intended \in Docs
      /\ FilesOK /\ Control /\ faults \in Nat /\ r.kind # "none"
      /\ (backup.is # "doc" => backup.doc = NoLogins)
  BY <1>1, PeaceFacts DEF FilePhases
<1>3. n.phase = "idle" /\ n.kind = "none" /\ ~n.saved
  BY <1>1, IdleFacts
<1>4. SameToken(p) /\ Busy(p) /\ faults' # 0
  BY <1>1, <1>2, <1>3 DEF SameToken, Tells, Busy
<1>5. Ended(p) /\ Broken(p) /\ faults' # faults
  BY <1>1, <1>2, <1>3 DEF Ended, Broken, At, FilePhases
<1>6. Torn.is = "torn" /\ Torn.doc = NoLogins
  BY DEF Torn
<1>7. intended' = Effective' /\ (Lost \/ intended' = intended \/ intended' = Target(r))
  <2>1. CASE Lost
    BY <1>1, <2>1, IntendedFacts
  <2>2. CASE ~Lost
    <3>1. Effective' = Effective
      <4>1. CASE UNCHANGED backup \/ main.is = "doc"
        BY <1>1, <4>1 DEF Effective
      <4>2. CASE backup' = Torn /\ main.is # "doc" /\ backup.is = "doc"
        BY <1>1, <1>6, <2>2, <4>2 DEF Lost
      <4>3. CASE backup' = Torn /\ main.is # "doc" /\ backup.is # "doc"
        BY <1>1, <1>6, <4>3 DEF Effective
      <4> QED BY <1>1, <4>1, <4>2, <4>3
    <3>2. Effective = intended \/ Effective = Target(r)
      BY <1>2, <1>4, OneOrOther
    <3>3. intended' = IF Effective' = Target(r) THEN Target(r) ELSE intended
      BY <1>1, <1>5, <2>2, IntendedFacts DEF Made
    <3> QED BY <3>1, <3>2, <3>3
  <2> QED BY <2>1, <2>2
<1>8. Lost => intended' = NoLogins
  <2>1. Lost => main'.is # "doc" /\ backup'.is = "torn"
    BY <1>1 DEF Lost
  <2> QED BY <1>7, <2>1 DEF Effective
<1>9. Distinct(Effective')
  <2>1. main'.is = "doc" \/ backup'.is # "doc" \/ UNCHANGED backup
    BY <1>1, <1>6
  <2>2. CASE main'.is = "doc" \/ UNCHANGED backup
    <3>1. Effective' = Effective
      BY <1>1, <2>2 DEF Effective
    <3> QED BY <1>2, <3>1 DEF PoolsOK
  <2>3. CASE main'.is # "doc" /\ backup'.is # "doc"
    BY <2>3, SoundNone DEF Effective
  <2> QED BY <2>1, <2>2, <2>3
<1>10. Sound(intended', ops', proc')
  <2>1. CASE Lost
    BY <1>8, <2>1, SoundNone
  <2>2. CASE intended' = intended
    BY <1>1, <1>2, <1>4, <2>2, SoundStays DEF PoolsOK
  <2>3. CASE intended' = Target(r)
    <3>1. Distinct(Target(r))
      BY <1>7, <1>9, <2>3
    <3> QED BY <1>1, <1>2, <1>3, <2>3, <3>1, TargetSound DEF PoolsOK
  <2> QED BY <1>7, <2>1, <2>2, <2>3
<1>11. Sound(backup'.doc, ops', proc')
  <2>1. Sound(backup.doc, ops', proc')
    BY <1>1, <1>2, <1>4, SoundStays DEF PoolsOK
  <2> QED BY <1>1, <1>6, <2>1, SoundNone
<1>12. intended' \in Docs
  <2>1. Target(r) \in Docs
    BY <1>2, TargetFacts
  <2> QED BY <1>2, <1>7, <1>8, <2>1, NoLoginsFacts
<1>13. DOMAIN backup'.doc \subseteq DOMAIN intended' \cup cut'
  <2>1. CASE backup' = Torn
    BY <1>6, <2>1, NoLoginsFacts
  <2>2. CASE UNCHANGED backup
    <3>1. cut \subseteq cut' /\ DOMAIN backup'.doc \subseteq DOMAIN intended \cup cut
      BY <1>1, <1>2, <1>5, <2>2, CutFacts DEF PoolsOK
    <3>2. ~Lost
      BY <1>1, <2>2 DEF Lost, FilesOK
    <3>3. CASE intended' = intended
      BY <3>1, <3>3
    <3>4. CASE intended' = Target(r) /\ r.kind # "logout"
      <4>1. r.kind \in Lands \cup {"patch"}
        BY <1>2, <3>4 DEF Operations, Lands
      <4>2. DOMAIN intended \subseteq DOMAIN Target(r)
        BY <1>2, <4>1, TargetFacts
      <4> QED BY <3>1, <3>4, <4>2
    <3>5. CASE intended' = Target(r) /\ r.kind = "logout" /\ intended' # intended
      <4>1. Effective' = Effective /\ Effective # intended /\ Effective' = Target(r)
        BY <1>1, <1>7, <2>2, <3>5 DEF Effective
      <4>2. r.phase \in {"check", "latch", "scrub"}
        BY <1>1, <1>2, <4>1 DEF Agrees, FilePhases
      <4>3. r.phase \in {"check", "latch"} => r.onsave = "scrub"
        <5>1. CASE r.phase \in {"check", "latch"}
          <6>1. Effective = r.pool /\ r.pool = Outcome(r)
            BY <1>2, <4>1, <5>1 DEF Agrees, Saving, Landed, Effective
          <6>2. r.onsave \notin {"stamp", "edit"}
            BY <4>1, <6>1 DEF Outcome
          <6> QED BY <1>2, <3>5, <5>1, <6>2, OnsaveFacts DEF Saving, Lands
        <5> QED BY <5>1
      <4>4. Removing(p) /\ Made(p)
        BY <1>5, <4>1, <4>2, <4>3 DEF Removing, Made, At
      <4>5. r.slot \in cut'
        BY <1>1, <1>5, <4>4, CutFacts
      <4>6. DOMAIN Target(r) = DOMAIN intended \ {r.slot}
        BY <1>2, <3>5, TargetFacts
      <4> QED BY <3>1, <3>5, <4>5, <4>6
    <3> QED BY <1>7, <3>2, <3>3, <3>4, <3>5
  <2> QED BY <1>1, <2>1, <2>2
<1>14. PoolsOK'
  BY <1>4, <1>9, <1>10, <1>11, <1>12, <1>13 DEF PoolsOK
<1>15. Agrees(p)'
  BY <1>3 DEF Agrees, Saving
<1> QED BY <1>1, <1>4, <1>7, <1>14, <1>15, BusyPeace

\* A crash leaves the edit made or not made.
LEMMA CrashPeace == ASSUME Peaceful, NEW p \in Procs, Crash(p) PROVE AtPeace'
<1>1. /\ Others(p) /\ UNCHANGED <<main, writes, ops>> /\ Busy(p) /\ proc'[p] = Idle
      /\ faults' = faults + 1 /\ cache' = [cache EXCEPT ![p] = NoCache]
      /\ UNCHANGED backup \/ backup' = Torn
  BY PeaceFacts, CrashDoes DEF Busy
<1>2. CachesOK /\ FilesOK /\ faults \in Nat
  BY PeaceFacts
<1>3. CachesOK'
  <2>1. cache \in [Procs -> [held : BOOLEAN, doc : Docs, mtime : 0..writes]]
    BY <1>2 DEF FilesOK
  <2>2. cache'[p] = NoCache /\ \A q \in Procs : q # p => cache'[q] = cache[q]
    BY <1>1, <2>1
  <2> QED BY <1>1, <1>2, <2>2 DEF CachesOK, NoCache
<1> QED BY <1>1, <1>3, BrokenPeace

\* The copy is scrubbed of what was logged out, and of nothing else.
LEMMA ScrubbedPeace ==
    ASSUME Peaceful, NEW p \in Procs, Scrub(p), backup' = Scrubbed(proc[p]), UNCHANGED faults
    PROVE  AtPeace'
<1> DEFINE r == proc[p]  n == proc'[p]
           gone == {s \in DOMAIN backup.doc : s = r.slot \/ backup.doc[s].token = r.token}
<1>1. /\ Others(p) /\ UNCHANGED <<main, writes, cache, ops, faults>> /\ r.phase = "scrub"
      /\ r.kind = "logout" /\ n = Idle /\ backup' = Scrubbed(r)
  BY PeaceFacts, ScrubDoes
<1>2. /\ PoolsOK /\ CachesOK /\ Issued /\ r \in Operations /\ intended \in Docs /\ FilesOK
      /\ backup.doc \in Docs /\ Control
      /\ r.slot \in DOMAIN intended /\ r.token = intended[r.slot].token
      /\ IF r.ok THEN main.is = "doc" /\ main.doc = Target(r) ELSE Effective = intended
      /\ (backup.is # "doc" => backup.doc = NoLogins)
      /\ (main.is # "doc" => Effective = backup.doc) /\ (main.is = "doc" => Effective = main.doc)
  BY <1>1, PeaceFacts DEF Agrees
<1>3. n.phase = "idle" /\ n.kind = "none" /\ ~n.saved
  BY <1>1, IdleFacts
<1>4. SameToken(p)
  BY <1>1, <1>3 DEF SameToken, Tells
<1>5. /\ backup'.is = backup.is /\ (backup.is # "doc" => backup'.doc = NoLogins)
      /\ (backup.is = "doc" => backup'.doc = Without(backup.doc, gone))
  BY <1>1, <1>2, ScrubFacts
<1>6. ~Lost
  BY <1>1, <1>5 DEF Lost
<1>7. Ended(p) /\ ~Broken(p)
  BY <1>1, <1>3 DEF Ended, Broken, At
<1>8. Target(r) = Without(intended, {r.slot})
  BY <1>1 DEF Target
<1>9. Distinct(intended)
  BY <1>2 DEF PoolsOK, Sound
<1>10. intended' = Effective' /\ (intended' = intended \/ intended' = Target(r))
  <2>1. CASE r.ok
    <3>1. intended' = Target(r)
      BY <1>1, <1>6, <1>7, <2>1, IntendedFacts DEF Made, At
    <3> QED BY <1>1, <1>2, <2>1, <3>1 DEF Effective
  <2>2. CASE ~r.ok /\ main.is = "doc"
    <3>1. intended' = intended
      BY <1>1, <1>3, <1>6, <1>7, <2>2, IntendedFacts DEF Made, At
    <3> QED BY <1>1, <1>2, <2>2, <3>1 DEF Effective
  <2>3. CASE ~r.ok /\ main.is # "doc"
    <3>1. intended' = Target(r)
      BY <1>1, <1>6, <1>7, <2>3, IntendedFacts DEF Made, At
    <3>2. backup.doc = intended /\ backup.is = "doc"
      BY <1>2, <2>3, NoLoginsFacts
    <3>3. gone = {r.slot}
      BY <1>2, <1>9, <3>2 DEF Distinct
    <3> HIDE DEF gone
    <3>4. backup'.doc = Target(r)
      BY <1>5, <1>8, <3>2, <3>3
    <3> QED BY <1>1, <1>5, <2>3, <3>1, <3>2, <3>4 DEF Effective
  <2> QED BY <2>1, <2>2, <2>3
<1> HIDE DEF gone
<1>11. Sound(intended', ops', proc')
  <2>1. CASE intended' = intended
    BY <1>1, <1>2, <1>4, <2>1, SoundStays DEF PoolsOK
  <2>2. CASE intended' = Target(r)
    <3>1. Distinct(Target(r))
      BY <1>2, <1>8, SoundWithout DEF PoolsOK, Sound
    <3> QED BY <1>1, <1>2, <1>3, <2>2, <3>1, TargetSound DEF PoolsOK
  <2> QED BY <1>10, <2>1, <2>2
<1>12. Sound(backup'.doc, ops', proc')
  <2>1. Sound(backup.doc, ops', proc')
    BY <1>1, <1>2, <1>4, SoundStays DEF PoolsOK
  <2> QED BY <1>2, <1>5, <2>1, SoundWithout, SoundNone
<1>13. DOMAIN backup'.doc \subseteq DOMAIN intended' \cup cut'
  <2>1. DOMAIN backup'.doc \subseteq DOMAIN backup.doc \ {r.slot}
    <3>1. r.slot \in DOMAIN backup.doc => r.slot \in gone
      BY DEF gone
    <3>2. CASE backup.is = "doc"
      <4>1. DOMAIN Without(backup.doc, gone) = DOMAIN backup.doc \ gone
        BY <1>2, WithoutFacts
      <4> QED BY <1>5, <3>1, <3>2, <4>1
    <3>3. CASE backup.is # "doc"
      BY <1>5, <3>3, NoLoginsFacts
    <3> QED BY <3>2, <3>3
  <2>2. DOMAIN intended \ {r.slot} \subseteq DOMAIN intended'
    <3>1. DOMAIN Without(intended, {r.slot}) = DOMAIN intended \ {r.slot}
      BY <1>2, WithoutFacts
    <3> QED BY <1>8, <1>10, <3>1
  <2>3. cut \ {r.slot} \subseteq cut' /\ DOMAIN backup.doc \subseteq DOMAIN intended \cup cut
    BY <1>1, <1>2, CutFacts DEF PoolsOK
  <2> QED BY <2>1, <2>2, <2>3
<1>14. main'.is # "doc" /\ faults' = 0 => backup'.doc = NoLogins
  BY <1>1, <1>2, NoLoginsFacts DEF PoolsOK
<1>15. intended' \in Docs
  <2>1. Without(intended, {r.slot}) \in Docs
    BY <1>2, WithoutFacts
  <2> QED BY <1>2, <1>8, <1>10, <2>1
<1>16. PoolsOK'
  BY <1>10, <1>11, <1>12, <1>13, <1>14, <1>15 DEF PoolsOK, Sound
<1>17. Agrees(p)'
  BY <1>3 DEF Agrees, Saving
<1>18. CachesOK'
  BY <1>1, <1>2 DEF CachesOK
<1> QED BY <1>1, <1>4, <1>10, <1>16, <1>17, <1>18, BusyPeace DEF Busy, FilePhases

\* The copy is scrubbed, or what was logged out stays in it.
LEMMA ScrubPeace == ASSUME Peaceful, NEW p \in Procs, Scrub(p) PROVE AtPeace'
<1> DEFINE r == proc[p]
<1>1. /\ Others(p) /\ UNCHANGED <<main, writes, cache, ops>> /\ r.phase = "scrub"
      /\ proc'[p] = Idle /\ Rewrite(Scrubbed(r))
  BY PeaceFacts, ScrubDoes
<1>2. CachesOK /\ FilesOK /\ Busy(p)
  BY <1>1, PeaceFacts DEF Busy, FilePhases
<1>3. /\ Scrubbed(r) \in [is : {"missing", "torn", "doc"}, doc : Docs]
      /\ Scrubbed(r).is # "doc" => Scrubbed(r).doc = NoLogins
  BY <1>2, ScrubFacts DEF FilesOK
<1>4. /\ faults \in Nat
      /\ \/ backup' = Scrubbed(r) /\ faults' = faults
         \/ faults' = faults + 1 /\ (backup' = backup \/ backup' = Torn)
  BY <1>1, <1>2, <1>3, RewriteFacts
<1>5. CASE backup' = Scrubbed(r) /\ faults' = faults
  BY <1>5, ScrubbedPeace
<1>6. CASE faults' = faults + 1 /\ (backup' = backup \/ backup' = Torn)
  <2>1. CachesOK'
    BY <1>1, <1>2, <1>4, <1>6 DEF CachesOK
  <2> QED BY <1>1, <1>2, <1>6, <2>1, BrokenPeace
<1> QED BY <1>4, <1>5, <1>6

\* The loss of the file leaves what its copy gives.
LEMMA LosePeace == ASSUME Peaceful, Lose PROVE AtPeace'
<1>1. /\ UNCHANGED <<backup, cache, proc, ops>> /\ faults' = faults + 1
      /\ main.is = "doc" /\ main'.is # "doc" /\ \A p \in Procs : ~Busy(p)
  BY LoseDoes DEF Peaceful, SavedInv
<1>2. AtPeace /\ FilesOK /\ Alone' /\ (backup.is # "doc" => backup.doc = NoLogins)
  BY PeacefulFacts, ControlParts DEF Peaceful, SavedInv, FilesOK
<1>3. faults \in Nat /\ faults' # 0 /\ backup.doc \in Docs
  BY <1>1, <1>2, Bounds DEF FilesOK
<1>4. Effective' = backup.doc
  BY <1>1, <1>2 DEF Effective
<1>5. intended' = backup.doc
  BY <1>1, <1>4 DEF Lost, Peaceful, HistNext
<1>6. PoolsOK'
  BY <1>1, <1>2, <1>3, <1>4, <1>5 DEF AtPeace, PoolsOK, Sound
<1>7. CachesOK'
  BY <1>1, <1>3 DEF CachesOK
<1>8. Issued'
  BY <1>1, <1>2 DEF AtPeace, Issued
<1>9. ASSUME NEW p \in Procs PROVE Agrees(p)'
  BY <1>1 DEF Agrees, Busy, FilePhases, Saving
<1> QED BY <1>2, <1>4, <1>5, <1>6, <1>7, <1>8, <1>9 DEF AtPeace

-----------------------------------------------------------------------------
(* The invariant                                                           *)

\* Every step at peace keeps it.
LEMMA PeaceStep == ASSUME Peaceful PROVE AtPeace'
<1>1. CASE Lose
  BY <1>1, LosePeace
<1>2. ASSUME NEW p \in Procs, FileStep(p) PROVE AtPeace'
  BY <1>2, RecallPeace, ReadPeace, StampPeace, RecoverPeace, AddPeace, RemovePeace, EditPeace,
     WritePeace, CheckPeace, LatchPeace, DoubtPeace, ScrubPeace DEF FileStep
<1>3. ASSUME NEW p \in Procs, LoginStep(p) \/ Command(p) PROVE AtPeace'
  <2>1. Calm(p)
    BY <1>3, Calms DEF Peaceful, SavedInv
  <2> QED BY <2>1, CalmPeace
<1>4. ASSUME NEW p \in Procs, Crash(p) PROVE AtPeace'
  BY <1>4, CrashPeace
<1> QED BY <1>1, <1>2, <1>3, <1>4 DEF Peaceful, HistNext, Next

\* Any pool of distinct accounts that was saved at peace.
LEMMA InitPeace == HistInit => AtPeace
<1> SUFFICES ASSUME HistInit PROVE AtPeace
  OBVIOUS
<1>1. /\ proc = [p \in Procs |-> Idle] /\ cache = [p \in Procs |-> NoCache] /\ ops = 0
      /\ faults = 0 /\ intended = Effective
  BY DEF HistInit, Init
<1>2. PICK doc \in Docs :
        /\ \A s \in DOMAIN doc :
              /\ doc[s].token = IF doc[s].account = NoAccount THEN PastedKey ELSE s
              /\ \A t \in DOMAIN doc \ {s} : doc[t].account # doc[s].account
        /\ main = IF doc = NoLogins THEN Missing ELSE [is |-> "doc", doc |-> doc, mtime |-> 1]
        /\ backup = IF doc = NoLogins THEN NoCopy ELSE [is |-> "doc", doc |-> doc]
  BY DEF HistInit, Init
<1>3. /\ intended = doc /\ Effective = doc /\ backup.doc = doc
      /\ main.is # "doc" => backup.doc = NoLogins
  <2>1. CASE doc = NoLogins
    BY <1>1, <1>2, <2>1 DEF Missing, NoCopy, Effective
  <2>2. CASE doc # NoLogins
    BY <1>1, <1>2, <2>2 DEF Effective
  <2> QED BY <2>1, <2>2
<1>4. \A p \in Procs : proc[p].phase = "idle" /\ proc[p].kind = "none"
  BY <1>1, IdleFacts
<1>5. DOMAIN doc \subseteq Slots
  BY <1>2, DocsFacts
<1>6. Distinct(doc)
  <2>1. ASSUME NEW s \in DOMAIN doc, NEW t \in DOMAIN doc, doc[s].token = doc[t].token
        PROVE  s = t
    BY <1>2, <1>5, <2>1, Bounds DEF PastedKey, Slots
  <2> QED BY <2>1 DEF Distinct
<1>7. Sound(doc, ops, proc)
  <2>1. \A s \in DOMAIN doc : doc[s].token <= MaxSlot + ops
    BY <1>1, <1>2, <1>5, Bounds DEF PastedKey, Slots
  <2>2. \A q \in Procs : proc[q].kind \notin Tells
    BY <1>4 DEF Tells
  <2> QED BY <1>6, <2>1, <2>2 DEF Sound
<1>8. PoolsOK
  BY <1>2, <1>3, <1>6, <1>7 DEF PoolsOK
<1>9. CachesOK
  BY <1>1 DEF CachesOK, NoCache
<1>10. Issued
  BY <1>4 DEF Issued, Tells
<1>11. Alone /\ \A p \in Procs : Agrees(p)
  BY <1>4 DEF Alone, Agrees, Busy, FilePhases, Saving
<1> QED BY <1>3, <1>8, <1>9, <1>10, <1>11 DEF AtPeace

\* Every step keeps the invariant: a state that is not overlapped or blind comes from
\* one that is not.
LEMMA IInvStep == ASSUME IInv, HistNext PROVE IInv'
<1>1. SavedInv'
  BY SavedStep DEF IInv
<1>2. ASSUME ~overlapped', ~blind' PROVE AtPeace'
  <2>1. ~overlapped /\ ~blind
    BY <1>2 DEF HistNext
  <2> QED BY <1>2, <2>1, PeaceStep DEF IInv, Peaceful
<1> QED BY <1>1, <1>2 DEF IInv

\* So does a step that changes nothing.
LEMMA StillIInv == ASSUME IInv, UNCHANGED hvars PROVE IInv'
<1>1. SavedInv'
  BY StillSaved DEF IInv
<1>2. /\ UNCHANGED <<main, writes, backup, cache, proc, ops, faults>>
      /\ UNCHANGED <<intended, overlapped, blind, cut, landed>>
  BY DEF hvars, vars, hist
<1>3. ASSUME AtPeace PROVE AtPeace'
  <2>1. Alone' /\ Issued' /\ CachesOK' /\ PoolsOK' /\ (Quiet' => Effective' = intended')
    BY <1>2, <1>3 DEF AtPeace, Alone, Busy, Issued, CachesOK, PoolsOK, Quiet, Effective
  <2>2. ASSUME NEW p \in Procs PROVE Agrees(p)'
    BY <1>2, <1>3 DEF AtPeace, Agrees, Effective, Outcome, Target, Landed
  <2> QED BY <2>1, <2>2 DEF AtPeace
<1> QED BY <1>1, <1>2, <1>3 DEF IInv

\* The invariant, in every state.
LEMMA IInvAlways == HistSpec => []IInv
<1>1. HistInit => IInv
  BY InitSaved, InitPeace DEF IInv
<1>2. IInv /\ [HistNext]_hvars => IInv'
  BY IInvStep, StillIInv
<1> QED BY <1>1, <1>2, PTL DEF HistSpec

\* As long as no two accesses to the files overlap, every edit of the logins is one
\* step: caches, recovery copies, failed saves and crashes lose no login and bring
\* none back (src/cline-pool.ts, loadPool and savePool).
THEOREM PoolSafe == HistSpec => []PoolAsEdited
<1>1. IInv => PoolAsEdited
  BY DEF IInv, AtPeace, PoolAsEdited
<1> QED BY <1>1, IInvAlways, PTL

\* A logout that was not cut short, and could write the recovery copy, leaves nothing
\* of its login there: the copy holds besides the pool only slots whose last logout
\* failed in this (src/cline-pool.ts, forgetAccountInBackup).
THEOREM ForgottenSafe == HistSpec => []LogoutForgotten
<1>1. IInv => LogoutForgotten
  BY DEF IInv, AtPeace, PoolsOK, LogoutForgotten
<1> QED BY <1>1, IInvAlways, PTL
=============================================================================
