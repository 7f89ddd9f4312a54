----------------------------- MODULE MCClineRoll -----------------------------
(***************************************************************************)
(* ClineParks for TLC, and what the comments of src/cline-roll.ts and      *)
(* src/cline-pool.ts say of parks and logins.                              *)
(***************************************************************************)
EXTENDS ClineParks, TLC

FairHistSpec == HistSpec /\ \A q \in Turns : WF_vars(Step(q))

Symmetry == Permutations(Turns) \cup Permutations(Slots)

-----------------------------------------------------------------------------
(* What comments promise, and the code does not keep                       *)

\* "Resolves to the fresh tokens, or null when the grant is dead ... May throw on
\* transient network faults; callers treat a throw as "keep the stale token""
\* (src/cline-roll.ts, ClineRefresher): no login is parked for a fault of the
\* network.
ParkMeansRejected == \A s \in parked : doomed[s] # 0

\* "The pause never blocks a slot whose credential a fresh login replaced"
\* (src/cline-roll.ts, CLINE_DEAD_GRANT_COOLDOWN_MS): no login is parked for the
\* grant of another that had its slot before.
ParkNamesLogin == \A s \in parked : doomed[s] \in {0, bearer[s]}

\* "Writing the snapshot back would revert a login added or removed while the
\* request was in flight" (src/cline-pool.ts, patchAccountOnDisk): a slot never
\* goes back to an older login.
LoginNotReverted == [][\A s \in saved \cap saved' : bearer'[s] >= bearer[s]]_vars

\* "... the first event is an in-stream 429 error ...: convert it to a 429
\* Response so rollChat rolls to the next slot" (src/cline-roll.ts,
\* peekStreamForInStreamError).
MaskedNeverServed == \A q \in Turns, s \in Slots : turn[q].fate[s] # "masked"
=============================================================================
