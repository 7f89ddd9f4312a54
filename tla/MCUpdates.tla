----------------------------- MODULE MCUpdates -----------------------------
(***************************************************************************)
(* Updates over two versions of the code whose catalogs differ.            *)
(***************************************************************************)
EXTENDS UpdatesFloor

CONSTANTS b, c, w     \* model ids

\* b is withdrawn by the second version, which adds c; w is only ever listed.
MCIds == {b, c, w}
MCStatic == (1 :> {b}) @@ (2 :> {c})
MCDead == (1 :> {}) @@ (2 :> {b})
MCSuffixed == {b, w}
MCListings == <<{b, c}, {}, {b, w}>>

VARIABLE focus      \* what an instance is about

hvars == <<floorVars, focus>>

\* The product of caches and installs is too large.  With installs there is no cache,
\* Zen's list stays, and sessions come and go at will; with caches and lists one
\* session runs at a time, the first of them in the middle of an install, and the
\* daemon's runtime needs no staged copy.
InstallsInit == Init /\ cache = NoFile

ListsInit ==
    /\ listing = 1
    /\ cache \in Caches
    /\ expiries = 0
    /\ refreshes = 0
    /\ \E s \in Sessions :
          /\ code = [p \in Procs |-> IF p = s THEN First ELSE 0]
          /\ alive = [p \in Procs |-> IF p = s THEN StaticBase(First) ELSE NoModels]
          /\ job = [q \in Sessions |-> IF q = s THEN [NoJob EXCEPT !.phase = "global"] ELSE NoJob]
    /\ asking = [p \in Procs |-> [k \in Kinds |-> NotAsking]]
    /\ published = 2
    /\ package = 1
    /\ known = Nothing
    /\ staged = [v \in Versions |-> 0]
    /\ child = [s \in Sessions |-> NoChild]
    /\ checks = MaxChecks

HistInit ==
    /\ \/ focus = "installs" /\ InstallsInit
       \/ focus = "lists" /\ ListsInit
    /\ floor = 0

Focused ==
    CASE focus = "installs" -> listing' = listing /\ refreshes' = refreshes
      [] focus = "lists" ->
             /\ Cardinality({s \in Sessions : code'[s] # 0 \/ child'[s] # NoChild}) <= 1
             /\ staged' = staged

HistNext == FloorNext /\ Focused /\ UNCHANGED focus

HistSpec == HistInit /\ [][HistNext]_hvars

Symmetry == Permutations(Sessions)

-----------------------------------------------------------------------------
(* What comments and messages promise, and the code does not keep          *)

\* "its copy is byte-identical for the same version" (src/client-staging.ts,
\* materializeDaemonSources): an install comes between the version and the copy.
StagedAsNamed == \A v \in Versions : staged[v] \in {0, v}

\* "must not leave the live daemon serving the old build" (src/updater.ts,
\* performAutoUpdate): one that is being started is not there to be killed.
NoOldDaemonComing ==
    [][\A s, t \in Sessions : Kill(s) => child[t].version \in {0} \cup package..published]_hvars

\* "pi-freeflow auto-updated to v..." (src/updater.ts, performAutoUpdate)
SuccessMeansInstalled ==
    [][\A s \in Sessions : Install(s) /\ JobAt(s, "kill")' => package' = published]_hvars

\* "a 304 Not Modified response skips merge and returns the in-memory catalog
\* unchanged" (src/catalog.ts, above refreshCatalog; likewise the title of the test
\* "refreshCatalog uses If-None-Match ETag and skips merge on 304"): the cached list
\* is merged, as the comment in the function says.
NotModifiedUnchanged ==
    [][\A p \in Procs, kind \in Kinds : NotModified(p, kind) => alive'[p] = alive[p]]_hvars

\* A cache is only replaced by a newer list (src/catalog.ts, refreshCatalog): the 304
\* of a slow request writes the list it had read.
NewerListKept == [][cache'.etag # NoTag => cache'.etag >= cache.etag]_hvars

\* What a process offered, it offers until it ends: a refresh that fails falls back to
\* the cache, which may know less.
OfferKept ==
    [][\A p \in Procs : code'[p] = code[p] => DOMAIN alive[p] \subseteq DOMAIN alive'[p]]_hvars
=============================================================================
