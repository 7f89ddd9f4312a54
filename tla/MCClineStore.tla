---------------------------- MODULE MCClineStore ----------------------------
(***************************************************************************)
(* The edits of the login file for TLC, and formulas that comments of the  *)
(* code promise and the code does not keep.                                *)
(***************************************************************************)
EXTENDS ClineEdits, TLC

Symmetry == Permutations(Procs)

-----------------------------------------------------------------------------
(* What comments promise, and the code does not keep                       *)

\* "never overwriting a saved login" (src/commands-cline.ts, nextClineSlot)
NeverOverwritten ==
    [][\A p \in Procs :
          At(p, "add") /\ proc'[p].phase = "write" /\ proc[p].auto
          => proc[p].slot \notin DOMAIN proc[p].pool]_hvars

\* "Every other account stays available for recovery" (src/cline-pool.ts,
\* forgetAccountInBackup)
OthersKept ==
    Quiet /\ ~overlapped /\ faults = 0 => DOMAIN intended \subseteq DOMAIN backup.doc

\* The user is told that a login is removed when it is.
RemovedMeansGone ==
    [][\A p \in Procs : Ended(p) /\ At(p, "scrub") /\ ~Broken(p) => proc[p].ok]_hvars

\* "A removal is an explicit instruction, so the removed identity is dropped from the
\* copy too" (src/cline-pool.ts, forgetAccountInBackup): no crash, and no failed write
\* of the copy, leaves a login there that the user was told is gone.
RemovedIsForgotten ==
    Quiet /\ ~overlapped /\ ~blind => DOMAIN backup.doc \subseteq DOMAIN intended

\* "re-reading from disk only when another process changed the file" (loadPool)
CacheCoherent ==
    Quiet => \A p \in Procs : Fresh(p) /\ main.is = "doc" => cache[p].doc = main.doc
=============================================================================
