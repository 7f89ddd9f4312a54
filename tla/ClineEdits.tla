----------------------------- MODULE ClineEdits -----------------------------
(***************************************************************************)
(* ClineStore with the history of its edits, against the pool that         *)
(* ClineRoll assumes, whose edits are single steps (src/cline-pool.ts).    *)
(***************************************************************************)
EXTENDS ClineStore

VARIABLES
    intended,    \* the logins after every edit that was made, in one step each
    overlapped,  \* two accesses to the files at once
    blind,       \* a pool cached while the file was lost was used
    cut,         \* slots whose last logout left the recovery copy as it was
    landed       \* the token each process's login has had on the disk

hist == <<intended, overlapped, blind, cut, landed>>
hvars == <<vars, hist>>

Busy(p) == proc[p].phase \in FilePhases
Quiet == \A p \in Procs : ~Busy(p)

\* What a process that starts now would find.
Effective == IF main.is = "doc" THEN main.doc
             ELSE IF backup.is = "doc" THEN backup.doc ELSE NoLogins

HistInit ==
    /\ Init
    /\ intended = Effective
    /\ overlapped = FALSE
    /\ blind = FALSE
    /\ cut = {}
    /\ landed = [p \in Procs |-> FALSE]

\* The edit a process is at, made on the pool as it should be.
Target(r) ==
    CASE r.kind \in {"login", "paste"} -> Put([r EXCEPT !.pool = intended])
      [] r.kind = "logout" -> Without(intended, {r.slot})
      [] r.kind = "patch" /\ r.slot \in DOMAIN intended ->
             [intended EXCEPT ![r.slot].token = r.token]
      [] OTHER -> intended

Ended(p) == ~At(p, "idle") /\ proc'[p].phase = "idle"
\* A crash ends the edit, or its last write of the copy fails.
Broken(p) == Ended(p) /\ faults' # faults
\* The login a logout removes has been taken out of the pool in hand.
Removing(p) == At(p, "scrub") \/ proc[p].onsave = "scrub"
\* The file is lost, or, while it is, the copy is torn.
Lost == /\ main'.is # "doc"
        /\ \/ main.is = "doc"
           \/ backup.is = "doc" /\ backup'.is = "torn"

\* An edit is made when it is reported and the save did not fail; a crash, or a copy
\* that could not be written, leaves it made or not made.
Made(p) ==
    IF Broken(p) THEN Effective' = Target(proc[p])
    ELSE \/ proc'[p].saved
         \/ At(p, "latch") /\ proc[p].onsave = "patched"
         \/ At(p, "scrub") /\ (proc[p].ok \/ main.is # "doc")

\* A loss leaves what the recovery copy gives.
HistNext ==
    /\ Next
    /\ intended' =
           IF Lost THEN Effective'
           ELSE IF \E p \in Procs : Ended(p) /\ Made(p)
           THEN Target(proc[CHOOSE p \in Procs : Ended(p)])
           ELSE intended
    /\ overlapped' =
           \/ overlapped
           \/ \E p, q \in Procs : p # q /\ Busy(p)' /\ Busy(q)'
    /\ blind' = (\/ blind
                 \/ /\ faults > 0 /\ main.is # "doc"
                    /\ \E p \in Procs : At(p, "look") /\ Fresh(p) /\ proc'[p] # proc[p])
    /\ cut' = (cut \ {proc[p].slot : p \in {q \in Procs :
                          At(q, "scrub") /\ Ended(q) /\ ~Broken(q)}})
              \cup {proc[p].slot : p \in {q \in Procs :
                          Removing(q) /\ Broken(q) /\ Made(q)}}
    /\ landed' = [p \in Procs |->
           /\ proc'[p].kind \in {"login", "paste"}
           /\ \/ landed[p]
              \/ /\ proc'[p].slot \in DOMAIN Effective'
                 /\ Effective'[proc'[p].slot].token = proc'[p].token]

HistSpec == HistInit /\ [][HistNext]_hvars

-----------------------------------------------------------------------------
\* As long as no two accesses to the files overlap, every edit is the one step that
\* ClineRoll takes it for: caches, copies and crashes of other processes lose no
\* login and bring none back (src/cline-pool.ts, loadPool and savePool).
PoolAsEdited == Quiet /\ ~overlapped /\ ~blind => Effective = intended

\* The recovery copy holds no login that was logged out, as long as accesses do not
\* overlap: a logout that was cut short by a crash, or could not write the copy,
\* leaves the login of its own slot there and no other, until that slot is logged
\* out again (src/cline-pool.ts, forgetAccountInBackup, which ignores a failed write).
LogoutForgotten ==
    Quiet /\ ~overlapped /\ ~blind => DOMAIN backup.doc \subseteq DOMAIN intended \cup cut

\* A user who is told that a login is saved had it on the disk, whatever other
\* processes did and however the write failed (src/cline-pool.ts, addAccount).
SavedMeansLanded ==
    [][\A p \in Procs : Ended(p) /\ proc'[p].saved => landed[p]]_hvars
=============================================================================
