------------------------------ MODULE Catalog ------------------------------
(***************************************************************************)
(* The catalog of free models (src/catalog.ts): static definitions that    *)
(* come with the code, overlaid with what Zen lists, through a cache file  *)
(* that sessions and the daemon share, each with the code it was started   *)
(* with.                                                                   *)
(*                                                                         *)
(* Of a model the definition is kept only as what gave it: the static list *)
(* of a version of the code, or the wire.                                  *)
(***************************************************************************)
EXTENDS Naturals, FiniteSets, Sequences, TLC

CONSTANTS
    Procs,         \* processes that load catalog.ts
    Ids,           \* model ids
    Versions,      \* versions of the code
    Static,        \* ALL_MODELS of each version
    Dead,          \* DEAD_MODEL_IDS of each version
    Suffixed,      \* ids with a free suffix
    Listings,      \* what Zen lists, one list after the other
    MaxExpiries,   \* bound: times the cache outlives its TTL
    MaxRefreshes   \* bound: /freeflow refresh

ASSUME CatalogAssumption ==
    /\ Versions \subseteq Nat \ {0} /\ \E v \in Versions : \A u \in Versions : v <= u
    /\ Static \in [Versions -> SUBSET Ids] /\ Dead \in [Versions -> SUBSET Ids]
    /\ \A v \in Versions : Static[v] \cap Dead[v] = {}
    /\ Suffixed \subseteq Ids
    /\ Listings \in Seq(SUBSET Ids) /\ Listings # <<>>
    /\ MaxExpiries \in Nat /\ MaxRefreshes \in Nat

VARIABLES
    listing,    \* the list Zen has now; its number is its etag
    cache,      \* CATALOG_CACHE_FILE
    code,       \* version each process runs, 0 if it does not
    alive,      \* aliveCatalog of each process
    asking,     \* refreshes of each process that wait for Zen
    expiries, refreshes

catalogVars == <<listing, cache, code, alive, asking, expiries, refreshes>>

Wire == 0
NoTag == 0
NoModels == <<>>
Models == UNION {[S -> Versions \cup {Wire}] : S \in SUBSET Ids}
Files == [usable : BOOLEAN, fresh : BOOLEAN, models : Models, etag : 0..Len(Listings)]

\* A file that is missing or that does not parse.
NoFile == [usable |-> FALSE, fresh |-> FALSE, models |-> NoModels, etag |-> NoTag]

\* The refresh at the start of a process, and the user's.
Kinds == {"background", "forced"}
NotAsking == [waits |-> FALSE, disk |-> FALSE, stale |-> NoFile]

CatalogTypeOK ==
    /\ listing \in DOMAIN Listings /\ cache \in Files
    /\ code \in [Procs -> Versions \cup {0}] /\ alive \in [Procs -> Models]
    /\ asking \in [Procs -> [Kinds -> [waits : BOOLEAN, disk : BOOLEAN, stale : Files]]]

-----------------------------------------------------------------------------
(* Merging                                                                 *)

\* isFreeCatalogId
Free(v, id) == id \notin Dead[v] /\ (id \in Suffixed \/ id \in Static[v])

\* Mutation: an entry that is free stays as it was cached.
SanitizeUnrepaired(v, models) == [id \in {i \in DOMAIN models : Free(v, i)} |-> models[id]]
\* sanitizeCatalogModels: paid and dead entries go, known ones become this code's.
Sanitize(v, models) ==
    [id \in {i \in DOMAIN models : Free(v, i)} |->
        IF id \in Static[v] THEN v ELSE models[id]]

\* mergeCatalog: nothing of the base is dropped, fresh entries win.
Merge(v, base, fresh) ==
    LET free == {i \in DOMAIN fresh : Free(v, i)}
    IN  Sanitize(v, [id \in DOMAIN base \cup free |->
                        IF id \in free THEN fresh[id] ELSE base[id]])

StaticBase(v) == [id \in Static[v] |-> v]

\* enrichModelDef, of the free entries of a list.
Enriched(v, ids) ==
    [id \in {i \in ids : Free(v, i)} |-> IF id \in Static[v] THEN v ELSE Wire]

-----------------------------------------------------------------------------
First == CHOOSE v \in Versions : \A u \in Versions : v <= u

\* No usable cache; one that the first version wrote; or one from before the filter, with
\* paid ids and the wire's definitions.
Caches ==
    {NoFile}
    \cup {[usable |-> TRUE, fresh |-> f, etag |-> e,
           models |-> Merge(v, StaticBase(v), Enriched(v, Listings[1]))] :
          f \in BOOLEAN, e \in {NoTag, 1}, v \in {First}}
    \cup {[usable |-> TRUE, fresh |-> f, etag |-> NoTag, models |-> [id \in Ids |-> Wire]] :
          f \in BOOLEAN}

CatalogInit ==
    /\ listing = 1
    /\ cache \in Caches
    /\ code = [p \in Procs |-> 0]
    /\ alive = [p \in Procs |-> NoModels]
    /\ asking = [p \in Procs |-> [k \in Kinds |-> NotAsking]]
    /\ expiries = 0
    /\ refreshes = 0

\* readCatalogCache, of a cache that has not expired; without an etag to send, the file
\* is read once more as it is.
AsRead(v) ==
    IF cache.fresh /\ cache.etag # NoTag
    THEN [cache EXCEPT !.models = Sanitize(v, @)] ELSE cache

\* A list is served from a fresh cache unless the user forces it; Zen is asked if
\* there is a cache to revalidate, or if forced; otherwise the static list stays.
Begun(p, kind, v, current) ==
    LET disk == cache.fresh /\ Sanitize(v, cache.models) # NoModels
        served == disk /\ kind = "background"
    IN
    /\ alive' = [alive EXCEPT ![p] =
           IF served THEN Merge(v, StaticBase(v), Sanitize(v, cache.models)) ELSE current]
    /\ asking' = [asking EXCEPT ![p][kind] =
           IF kind = "forced" \/ (cache.usable /\ ~served)
           THEN [waits |-> TRUE, disk |-> disk, stale |-> AsRead(v)] ELSE NotAsking]

\* A process starts with the static list and refreshes it in the background.
Start(p, v) ==
    /\ code[p] = 0
    /\ code' = [code EXCEPT ![p] = v]
    /\ Begun(p, "background", v, StaticBase(v))
    /\ UNCHANGED <<listing, cache, expiries, refreshes>>

Stop(p) ==
    /\ code[p] # 0
    /\ code' = [code EXCEPT ![p] = 0]
    /\ alive' = [alive EXCEPT ![p] = NoModels]
    /\ asking' = [asking EXCEPT ![p] = [k \in Kinds |-> NotAsking]]
    /\ UNCHANGED <<listing, cache, expiries, refreshes>>

\* /freeflow refresh
Refresh(p) ==
    /\ code[p] # 0 /\ ~asking[p]["forced"].waits
    /\ refreshes < MaxRefreshes
    /\ refreshes' = refreshes + 1
    /\ Begun(p, "forced", code[p], alive[p])
    /\ UNCHANGED <<listing, cache, code, expiries>>

\* The refresh is over; its write reaches the file or not.
Over(p, kind, models, file) ==
    /\ asking[p][kind].waits
    /\ asking' = [asking EXCEPT ![p][kind] = NotAsking]
    /\ alive' = [alive EXCEPT ![p] = models]
    /\ cache' \in {cache, file}
    /\ UNCHANGED <<listing, code, expiries, refreshes>>

\* Mutation: a 304 means that there is nothing to merge.
RevalidatedUnmerged(p, stale) == alive[p]
\* The cached list may hold ids that this process never merged.
Revalidated(p, stale) ==
    IF stale.models = NoModels THEN alive[p]
    ELSE Merge(code[p], alive[p], Sanitize(code[p], stale.models))

\* 304: the list is the one the cache as it was read has the etag of; that cache is
\* written again, with a new time.
NotModified(p, kind) ==
    LET stale == asking[p][kind].stale IN
    /\ stale.etag = listing
    /\ Over(p, kind, Revalidated(p, stale), [stale EXCEPT !.fresh = TRUE])

\* The etag of an answer: its own, or, if it has none, the one that was sent.
Tags(stale) == {listing, stale.etag}

\* 200
Listed(p, kind) ==
    LET stale == asking[p][kind].stale
        merged == Merge(code[p], alive[p], Enriched(code[p], Listings[listing]))
    IN
    /\ Listings[listing] # {}
    /\ \E tag \in Tags(stale) :
          Over(p, kind, merged, [usable |-> TRUE, fresh |-> TRUE, models |-> merged, etag |-> tag])

\* 200 with an empty list: only its etag is kept, with the list as it was read.
ListedEmpty(p, kind) ==
    LET stale == asking[p][kind].stale IN
    /\ Listings[listing] = {}
    /\ \E tag \in Tags(stale) :
          Over(p, kind, alive[p],
               IF stale.usable /\ tag # stale.etag
               THEN [stale EXCEPT !.etag = tag, !.fresh = TRUE] ELSE cache)

\* No answer, an error, or one that does not parse: the cache as it was read if it
\* was fresh, or else as it is now, over the static list.
Unanswered(p, kind) ==
    LET ask == asking[p][kind]
        file == IF ask.disk THEN ask.stale ELSE cache
        v == code[p]
    IN  Over(p, kind,
             IF file.models = NoModels THEN alive[p]
             ELSE Merge(v, StaticBase(v), Sanitize(v, file.models)),
             cache)

\* Zen's list changes.
Relist ==
    /\ listing < Len(Listings)
    /\ listing' = listing + 1
    /\ UNCHANGED <<cache, code, alive, asking, expiries, refreshes>>

\* CATALOG_CACHE_TTL_MS
Expire ==
    /\ cache.fresh /\ expiries < MaxExpiries
    /\ cache' = [cache EXCEPT !.fresh = FALSE]
    /\ expiries' = expiries + 1
    /\ UNCHANGED <<listing, code, alive, asking, refreshes>>

Answer(p, kind) ==
    \/ NotModified(p, kind) \/ Listed(p, kind) \/ ListedEmpty(p, kind)
    \/ Unanswered(p, kind)

CatalogStep ==
    \/ \E p \in Procs : Refresh(p) \/ \E kind \in Kinds : Answer(p, kind)
    \/ Relist \/ Expire

-----------------------------------------------------------------------------
\* Whatever other versions of the code wrote to the cache and whatever Zen answers, a
\* process offers all of its own models, as its own code defines them, and none
\* that its code bars (src/catalog.ts, mergeCatalog and sanitizeCatalogModels).
CatalogSound ==
    \A p \in Procs : code[p] # 0 =>
        /\ \A id \in Static[code[p]] : id \in DOMAIN alive[p] /\ alive[p][id] = code[p]
        /\ \A id \in DOMAIN alive[p] : Free(code[p], id)

\* What Zen lists and no version bars is offered once Zen has answered, with a list
\* or with 304, by a process that never saw that list itself: "the cached list is still
\* the only record of" what is in it (src/catalog.ts, in the body of refreshCatalog).
\* The doc above the function says the opposite (NotModifiedUnchanged of MCUpdates).
Answered(p) == \E kind \in Kinds : NotModified(p, kind) \/ Listed(p, kind)
ListingShown ==
    [][\A p \in Procs : Answered(p) =>
          \A id \in Listings[listing] :
              (\A v \in Versions : Free(v, id)) => id \in DOMAIN alive'[p]]_catalogVars
=============================================================================
