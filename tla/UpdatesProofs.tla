--------------------------- MODULE UpdatesProofs ---------------------------
(***************************************************************************)
(* Proofs about Catalog and Updates, for any number of sessions, versions, *)
(* models and lists.                                                       *)
(***************************************************************************)
EXTENDS UpdatesFloor, TLAPS

\* What CatalogSound asks of the models m of a process with code v.
Sound(v, m) ==
    /\ \A id \in Static[v] : id \in DOMAIN m /\ m[id] = v
    /\ \A id \in DOMAIN m : Free(v, id)

\* The listed ids that no version bars.
Unbarred(k) == {id \in Listings[k] : \A v \in Versions : Free(v, id)}

\* A file with the etag of the present list has all that is unbarred in it.
Bears(file) ==
    /\ file.etag <= listing
    /\ file.etag = listing => Unbarred(listing) \subseteq DOMAIN file.models

\* Only a running process asks, with the cache as it was once.
AskingInv ==
    /\ \A p \in Procs, kind \in Kinds : asking[p][kind].waits => code[p] # 0
    /\ Bears(cache) /\ \A p \in Procs, kind \in Kinds : Bears(asking[p][kind].stale)

\* A copy is not older than its name, and nothing is newer than the package.
StagedInv ==
    /\ package <= published
    /\ \A v \in Versions : staged[v] # 0 => v <= staged[v] /\ staged[v] <= package

\* Nor is a daemon that is being started older than the floor.
ChildInv ==
    \A s \in Sessions : child[s] # NoChild =>
        child[s].version \in Versions /\ floor <= child[s].version /\ child[s].version <= package

\* The inductive invariant of the catalog, and that of the updates.
CatalogInv == CatalogTypeOK /\ CatalogSound /\ AskingInv
FloorInv ==
    /\ UpdatesTypeOK /\ StagedInv /\ ChildInv
    /\ floor \in Nat /\ floor <= package
    /\ DaemonCurrent

IInv == CatalogInv /\ FloorInv

-----------------------------------------------------------------------------
(* Merging                                                                 *)

\* A model list is a function from some ids to what defines them.
LEMMA ModelsAre ==
    ASSUME NEW m
    PROVE  m \in Models <=> DOMAIN m \in SUBSET Ids /\ m \in [DOMAIN m -> Versions \cup {Wire}]
BY DEF Models

\* The static list is all free: no version bars its own models.
LEMMA StaticFree ==
    ASSUME NEW v \in Versions, NEW id \in Static[v]
    PROVE  Free(v, id) /\ id \in Ids
BY CatalogAssumption DEF Free

\* sanitizeCatalogModels returns the free entries, the known ones defined by v.
LEMMA SanitizeType ==
    ASSUME NEW v \in Versions, NEW m \in Models
    PROVE  /\ Sanitize(v, m) \in Models
           /\ DOMAIN Sanitize(v, m) = {id \in DOMAIN m : Free(v, id)}
<1>1. DOMAIN m \in SUBSET Ids /\ m \in [DOMAIN m -> Versions \cup {Wire}]
  BY ModelsAre
<1>2. /\ DOMAIN Sanitize(v, m) = {id \in DOMAIN m : Free(v, id)}
      /\ Sanitize(v, m) \in [{id \in DOMAIN m : Free(v, id)} -> Versions \cup {Wire}]
  BY <1>1 DEF Sanitize
<1> QED
  BY <1>1, <1>2, ModelsAre

\* mergeCatalog drops no free entry of either list and defines its own by v.
LEMMA MergeType ==
    ASSUME NEW v \in Versions, NEW base \in Models, NEW fresh \in Models
    PROVE  /\ Merge(v, base, fresh) \in Models
           /\ DOMAIN Merge(v, base, fresh) = {id \in DOMAIN base \cup DOMAIN fresh : Free(v, id)}
           /\ Static[v] \subseteq DOMAIN base => Sound(v, Merge(v, base, fresh))
<1> DEFINE free == {id \in DOMAIN fresh : Free(v, id)}
           both == [id \in DOMAIN base \cup free |-> IF id \in free THEN fresh[id] ELSE base[id]]
<1>1. /\ DOMAIN base \in SUBSET Ids /\ base \in [DOMAIN base -> Versions \cup {Wire}]
      /\ DOMAIN fresh \in SUBSET Ids /\ fresh \in [DOMAIN fresh -> Versions \cup {Wire}]
  BY ModelsAre
<1>2. /\ DOMAIN both = DOMAIN base \cup free
      /\ both \in [DOMAIN both -> Versions \cup {Wire}]
  BY <1>1
<1>3. both \in Models
  BY <1>1, <1>2, ModelsAre
<1> HIDE DEF both
<1>4. Merge(v, base, fresh) = Sanitize(v, both)
  BY DEF Merge, both
<1>5. DOMAIN Sanitize(v, both) = {id \in DOMAIN base \cup DOMAIN fresh : Free(v, id)}
  BY <1>2, <1>3, SanitizeType
<1>6. ASSUME Static[v] \subseteq DOMAIN base
      PROVE  Sound(v, Sanitize(v, both))
  <2>1. \A id \in Static[v] : id \in DOMAIN both /\ Free(v, id)
    BY <1>2, <1>6, StaticFree
  <2> QED
    BY <1>5, <2>1 DEF Sound, Sanitize
<1> QED
  BY <1>3, <1>4, <1>5, <1>6, SanitizeType

\* The static list is sound, and so is what is merged into it.
LEMMA StaticBaseType ==
    ASSUME NEW v \in Versions
    PROVE  StaticBase(v) \in Models /\ Sound(v, StaticBase(v)) /\ DOMAIN StaticBase(v) = Static[v]
<1>1. DOMAIN StaticBase(v) = Static[v] /\ StaticBase(v) \in [Static[v] -> Versions \cup {Wire}]
  BY DEF StaticBase
<1>2. Static[v] \in SUBSET Ids
  BY CatalogAssumption
<1>3. StaticBase(v) \in Models
  BY <1>1, <1>2, ModelsAre
<1> QED
  BY <1>1, <1>3, StaticFree DEF Sound, StaticBase

\* What enrichModelDef makes of a list are its free entries.
LEMMA EnrichedType ==
    ASSUME NEW v \in Versions, NEW ids \in SUBSET Ids
    PROVE  /\ Enriched(v, ids) \in Models
           /\ DOMAIN Enriched(v, ids) = {id \in ids : Free(v, id)}
<1>1. /\ DOMAIN Enriched(v, ids) = {id \in ids : Free(v, id)}
      /\ Enriched(v, ids) \in [{id \in ids : Free(v, id)} -> Versions \cup {Wire}]
  BY DEF Enriched
<1> QED
  BY <1>1, ModelsAre

\* Whatever list is read, what comes of it over the static list is sound.
LEMMA OverStatic ==
    ASSUME NEW v \in Versions, NEW m \in Models
    PROVE  /\ Merge(v, StaticBase(v), Sanitize(v, m)) \in Models
           /\ Sound(v, Merge(v, StaticBase(v), Sanitize(v, m)))
BY StaticBaseType, SanitizeType, MergeType

\* A list merged into a sound one leaves it sound.
LEMMA OverSound ==
    ASSUME NEW v \in Versions, NEW base \in Models, Sound(v, base), NEW m \in Models
    PROVE  Merge(v, base, m) \in Models /\ Sound(v, Merge(v, base, m))
BY ZenonT(60), MergeType DEF Sound

\* The list of a process that has none.
LEMMA NoModelsType == NoModels \in Models /\ DOMAIN NoModels = {}
<1>1. DOMAIN NoModels = {} /\ NoModels \in [{} -> Versions \cup {Wire}]
  BY DEF NoModels
<1> QED
  BY <1>1, ModelsAre

-----------------------------------------------------------------------------
(* The catalog                                                             *)

\* There is a first version and a first list.
LEMMA Firsts == First \in Versions /\ 1 \in DOMAIN Listings
<1>1. First \in Versions
  BY CatalogAssumption DEF First
<1>2. 1 \in DOMAIN Listings
  BY CatalogAssumption
<1> QED
  BY <1>1, <1>2

\* Every list is one of known ids, numbered from 1.
LEMMA ListingType ==
    ASSUME CatalogTypeOK
    PROVE  /\ listing \in Nat /\ listing >= 1 /\ listing <= Len(Listings) /\ Len(Listings) \in Nat
           /\ Listings[listing] \in SUBSET Ids /\ Unbarred(listing) \subseteq Listings[listing]
<1>1. Len(Listings) \in Nat /\ DOMAIN Listings = 1..Len(Listings)
      /\ \A k \in 1..Len(Listings) : Listings[k] \in SUBSET Ids
  BY CatalogAssumption
<1> QED
  BY <1>1 DEF CatalogTypeOK, Unbarred

\* A file that does not parse has no etag.
LEMMA NoFileType ==
    ASSUME CatalogTypeOK
    PROVE  NoFile \in Files /\ Bears(NoFile) /\ NoFile.etag = NoTag
BY ListingType, NoModelsType DEF NoFile, Files, Bears, NoTag

\* What is unbarred is free for every version.
LEMMA UnbarredFree ==
    ASSUME NEW k, NEW v \in Versions, NEW id \in Unbarred(k)
    PROVE  Free(v, id)
BY DEF Unbarred

\* What a version reads of the cache has everything in it that no version bars.
LEMMA AsReadType ==
    ASSUME CatalogInv, NEW v \in Versions
    PROVE  AsRead(v) \in Files /\ Bears(AsRead(v))
<1>1. cache \in Files /\ Bears(cache) /\ cache.models \in Models
  BY DEF CatalogInv, CatalogTypeOK, AskingInv, Files
<1>2. CASE AsRead(v) = cache
  BY <1>1, <1>2
<1>3. CASE AsRead(v) # cache
  <2> DEFINE m == Sanitize(v, cache.models)
  <2>1. AsRead(v) = [cache EXCEPT !.models = m]
    BY <1>3 DEF AsRead
  <2>2. m \in Models /\ DOMAIN m = {id \in DOMAIN cache.models : Free(v, id)}
    BY <1>1, SanitizeType
  <2> HIDE DEF m
  <2>3. AsRead(v) \in Files /\ AsRead(v).etag = cache.etag /\ AsRead(v).models = m
    BY <1>1, <2>1, <2>2 DEF Files
  <2>4. \A id \in Unbarred(listing) : Free(v, id)
    BY DEF Unbarred
  <2>5. Unbarred(listing) \subseteq DOMAIN cache.models =>
            Unbarred(listing) \subseteq DOMAIN m
    BY <2>2, <2>4
  <2> QED
    BY <1>1, <2>3, <2>5 DEF Bears
<1> QED
  BY <1>2, <1>3

\* A refresh of a process that has a sound list: the list stays sound, and the
\* cache it remembers bears its etag, as it is or as this version reads it.
LEMMA BegunFacts ==
    ASSUME CatalogInv, NEW p \in Procs, NEW kind \in Kinds, NEW v \in Versions,
           NEW current \in Models, Sound(v, current), Begun(p, kind, v, current)
    PROVE  /\ alive' \in [Procs -> Models] /\ Sound(v, alive'[p])
           /\ \A q \in Procs : q # p => alive'[q] = alive[q]
           /\ asking' \in [Procs -> [Kinds -> [waits : BOOLEAN, disk : BOOLEAN, stale : Files]]]
           /\ \A k \in Kinds : Bears(asking'[p][k].stale) \/ asking'[p][k] = asking[p][k]
           /\ \A q \in Procs : q # p => asking'[q] = asking[q]
<1>1. /\ cache \in Files /\ cache.models \in Models /\ alive \in [Procs -> Models]
      /\ asking \in [Procs -> [Kinds -> [waits : BOOLEAN, disk : BOOLEAN, stale : Files]]]
      /\ NoFile \in Files
  BY NoFileType DEF CatalogInv, CatalogTypeOK, Files
<1>2. PICK m, a :
          /\ alive' = [alive EXCEPT ![p] = m] /\ asking' = [asking EXCEPT ![p][kind] = a]
          /\ m \in {Merge(v, StaticBase(v), Sanitize(v, cache.models)), current}
          /\ \/ a = NotAsking
             \/ \E disk \in BOOLEAN : a = [waits |-> TRUE, disk |-> disk, stale |-> AsRead(v)]
  <2> DEFINE disk == cache.fresh /\ Sanitize(v, cache.models) # NoModels
             m == IF disk /\ kind = "background"
                  THEN Merge(v, StaticBase(v), Sanitize(v, cache.models)) ELSE current
             a == IF kind = "forced" \/ (cache.usable /\ ~(disk /\ kind = "background"))
                  THEN [waits |-> TRUE, disk |-> disk, stale |-> AsRead(v)] ELSE NotAsking
  <2>1. alive' = [alive EXCEPT ![p] = m] /\ asking' = [asking EXCEPT ![p][kind] = a]
    BY DEF Begun
  <2>2. m \in {Merge(v, StaticBase(v), Sanitize(v, cache.models)), current}
    OBVIOUS
  <2>3. disk \in BOOLEAN
    OBVIOUS
  <2>4. a = NotAsking \/ \E d \in BOOLEAN : a = [waits |-> TRUE, disk |-> d, stale |-> AsRead(v)]
    BY <2>3
  <2> HIDE DEF m, a
  <2> QED
    BY <2>1, <2>2, <2>4
<1>3. m \in Models /\ Sound(v, m)
  BY <1>1, <1>2, OverStatic
<1>4. a \in [waits : BOOLEAN, disk : BOOLEAN, stale : Files] /\ Bears(a.stale)
  <2>1. AsRead(v) \in Files /\ Bears(AsRead(v))
    BY <1>1, AsReadType
  <2>2. NoFile \in Files /\ Bears(NoFile)
    BY NoFileType DEF CatalogInv
  <2>3. CASE a = NotAsking
    <3>1. a.stale = NoFile
      BY <2>3 DEF NotAsking
    <3> QED
      BY <2>2, <2>3, <3>1 DEF NotAsking
  <2>4. CASE a # NotAsking
    <3>1. PICK disk \in BOOLEAN : a = [waits |-> TRUE, disk |-> disk, stale |-> AsRead(v)]
      BY <1>2, <2>4
    <3>2. a.stale = AsRead(v)
      BY <3>1
    <3> QED
      BY <2>1, <3>1, <3>2
  <2> QED
    BY <2>3, <2>4
<1>5. /\ alive' \in [Procs -> Models] /\ Sound(v, alive'[p])
      /\ \A q \in Procs : q # p => alive'[q] = alive[q]
  BY <1>1, <1>2, <1>3
<1>6. /\ asking' \in [Procs -> [Kinds -> [waits : BOOLEAN, disk : BOOLEAN, stale : Files]]]
      /\ \A k \in Kinds : Bears(asking'[p][k].stale) \/ asking'[p][k] = asking[p][k]
      /\ \A q \in Procs : q # p => asking'[q] = asking[q]
  BY <1>1, <1>2, <1>4
<1> QED
  BY <1>5, <1>6

\* A process starts with any version of the code, whatever the cache holds.
LEMMA StartInv ==
    ASSUME CatalogInv, NEW p \in Procs, NEW v \in Versions, Start(p, v)
    PROVE  CatalogInv'
<1>1. v # 0
  BY CatalogAssumption
<1>2. /\ "background" \in Kinds /\ StaticBase(v) \in Models /\ Sound(v, StaticBase(v))
      /\ Begun(p, "background", v, StaticBase(v))
  BY StaticBaseType DEF Start, Kinds
<1>3. /\ alive' \in [Procs -> Models] /\ Sound(v, alive'[p])
      /\ \A q \in Procs : q # p => alive'[q] = alive[q]
      /\ asking' \in [Procs -> [Kinds -> [waits : BOOLEAN, disk : BOOLEAN, stale : Files]]]
      /\ \A k \in Kinds : Bears(asking'[p][k].stale) \/ asking'[p][k] = asking[p][k]
      /\ \A q \in Procs : q # p => asking'[q] = asking[q]
  BY <1>2, BegunFacts
<1>4. /\ code' = [code EXCEPT ![p] = v] /\ code \in [Procs -> Versions \cup {0}]
      /\ listing' = listing /\ cache' = cache
  BY DEF Start, CatalogInv, CatalogTypeOK
<1>5. code' \in [Procs -> Versions \cup {0}] /\ code'[p] = v
      /\ \A q \in Procs : q # p => code'[q] = code[q]
  BY <1>4
<1>6. CatalogTypeOK'
  BY <1>3, <1>4, <1>5 DEF CatalogInv, CatalogTypeOK
<1>7. CatalogSound'
  BY <1>3, <1>5 DEF CatalogInv, CatalogSound, Sound
<1>8. AskingInv'
  <2>1. \A q \in Procs, k \in Kinds : asking'[q][k].waits => code'[q] # 0
    BY <1>1, <1>3, <1>5 DEF CatalogInv, AskingInv
  <2>2. Bears(cache)' /\ \A file : Bears(file)' <=> Bears(file)
    BY <1>4 DEF CatalogInv, AskingInv, Bears, Unbarred
  <2>3. \A q \in Procs, k \in Kinds : Bears(asking'[q][k].stale)
    BY SMTT(60), <1>3, NoFileType DEF CatalogInv, AskingInv
  <2> QED
    BY <1>4, <2>1, <2>2, <2>3 DEF AskingInv, Bears, Unbarred
<1> QED
  BY <1>6, <1>7, <1>8 DEF CatalogInv

\* A process ends.
LEMMA StopInv ==
    ASSUME CatalogInv, NEW p \in Procs, Stop(p)
    PROVE  CatalogInv'
<1>1. /\ code' = [code EXCEPT ![p] = 0] /\ alive' = [alive EXCEPT ![p] = NoModels]
      /\ asking' = [asking EXCEPT ![p] = [k \in Kinds |-> NotAsking]]
      /\ listing' = listing /\ cache' = cache
  BY DEF Stop
<1>2. [k \in Kinds |-> NotAsking] \in [Kinds -> [waits : BOOLEAN, disk : BOOLEAN, stale : Files]]
      /\ NotAsking.waits = FALSE /\ Bears(NotAsking.stale)
  BY NoFileType DEF NotAsking, CatalogInv
<1>3. CatalogTypeOK'
  BY <1>1, <1>2, NoModelsType DEF CatalogInv, CatalogTypeOK
<1>4. CatalogSound'
  BY <1>1 DEF CatalogInv, CatalogTypeOK, CatalogSound
<1>5. AskingInv'
  BY <1>1, <1>2 DEF CatalogInv, CatalogTypeOK, AskingInv, Bears, Unbarred
<1> QED
  BY <1>3, <1>4, <1>5 DEF CatalogInv

\* A user refreshes the list.
LEMMA RefreshInv ==
    ASSUME CatalogInv, NEW p \in Procs, Refresh(p)
    PROVE  CatalogInv'
<1> DEFINE v == code[p]
<1>1. /\ v \in Versions /\ "forced" \in Kinds /\ alive[p] \in Models /\ Sound(v, alive[p])
      /\ Begun(p, "forced", v, alive[p])
  BY DEF Refresh, Kinds, CatalogInv, CatalogTypeOK, CatalogSound, Sound
<1> HIDE DEF v
<1>2. /\ alive' \in [Procs -> Models] /\ Sound(v, alive'[p])
      /\ \A q \in Procs : q # p => alive'[q] = alive[q]
      /\ asking' \in [Procs -> [Kinds -> [waits : BOOLEAN, disk : BOOLEAN, stale : Files]]]
      /\ \A k \in Kinds : Bears(asking'[p][k].stale) \/ asking'[p][k] = asking[p][k]
      /\ \A q \in Procs : q # p => asking'[q] = asking[q]
  BY <1>1, BegunFacts
<1>3. code' = code /\ listing' = listing /\ cache' = cache /\ v # 0
  BY DEF Refresh, v
<1>4. CatalogTypeOK'
  BY <1>2, <1>3 DEF CatalogInv, CatalogTypeOK
<1>5. CatalogSound'
  BY <1>2, <1>3 DEF CatalogInv, CatalogSound, Sound, v
<1>6. AskingInv'
  <2>1. \A q \in Procs, k \in Kinds : asking'[q][k].waits => code'[q] # 0
    BY <1>2, <1>3 DEF CatalogInv, AskingInv, v
  <2>2. \A q \in Procs, k \in Kinds : Bears(asking'[q][k].stale)
    BY SMTT(60), <1>2, NoFileType DEF CatalogInv, AskingInv
  <2> QED
    BY <1>3, <2>1, <2>2 DEF CatalogInv, AskingInv, Bears, Unbarred
<1> QED
  BY <1>4, <1>5, <1>6 DEF CatalogInv

\* A refresh that is over leaves a sound list, and a file that bears its etag.
LEMMA OverInv ==
    ASSUME CatalogInv, NEW p \in Procs, NEW kind \in Kinds, NEW models \in Models,
           Sound(code[p], models), NEW file \in Files, Bears(file), Over(p, kind, models, file)
    PROVE  CatalogInv'
<1>1. /\ asking' = [asking EXCEPT ![p][kind] = NotAsking]
      /\ alive' = [alive EXCEPT ![p] = models]
      /\ cache' \in {cache, file}
      /\ listing' = listing /\ code' = code
  BY DEF Over
<1>2. NotAsking \in [waits : BOOLEAN, disk : BOOLEAN, stale : Files]
      /\ NotAsking.waits = FALSE /\ Bears(NotAsking.stale)
  BY NoFileType DEF NotAsking, CatalogInv
<1>3. CatalogTypeOK'
  BY <1>1, <1>2 DEF CatalogInv, CatalogTypeOK
<1>4. CatalogSound'
  BY <1>1 DEF CatalogInv, CatalogTypeOK, CatalogSound, Sound
<1>5. AskingInv'
  BY <1>1, <1>2 DEF CatalogInv, CatalogTypeOK, AskingInv, Bears, Unbarred
<1> QED
  BY <1>3, <1>4, <1>5 DEF CatalogInv

\* Who asks runs, and its list and the cache it remembers are in order.
LEMMA AskerFacts ==
    ASSUME CatalogInv, NEW p \in Procs, NEW kind \in Kinds, asking[p][kind].waits
    PROVE  /\ code[p] \in Versions /\ alive[p] \in Models /\ Sound(code[p], alive[p])
           /\ asking[p][kind].stale \in Files /\ asking[p][kind].stale.models \in Models
           /\ Bears(asking[p][kind].stale)
           /\ cache \in Files /\ cache.models \in Models /\ Bears(cache)
BY DEF CatalogInv, CatalogTypeOK, CatalogSound, AskingInv, Sound, Files

\* A 304 confirms the list as it was read, which the process merges: it has all of it.
LEMMA NotModifiedInv ==
    ASSUME CatalogInv, NEW p \in Procs, NEW kind \in Kinds, NotModified(p, kind)
    PROVE  /\ CatalogInv'
           /\ Unbarred(listing) \subseteq DOMAIN alive'[p]
<1> DEFINE stale == asking[p][kind].stale
           v == code[p]
           file == [stale EXCEPT !.fresh = TRUE]
           models == Revalidated(p, stale)
<1>1. /\ stale.etag = listing /\ Over(p, kind, models, file) /\ asking[p][kind].waits
  BY DEF NotModified, Over
<1>2. /\ v \in Versions /\ alive[p] \in Models /\ Sound(v, alive[p])
      /\ stale \in Files /\ stale.models \in Models /\ Bears(stale)
  BY <1>1, AskerFacts
<1>3. file \in Files /\ Bears(file)
  <2> HIDE DEF stale
  <2> QED
    BY <1>2 DEF Files, Bears
<1>4. /\ models \in Models /\ Sound(v, models)
      /\ Unbarred(listing) \subseteq DOMAIN models
  <2>1. Unbarred(listing) \subseteq DOMAIN stale.models
    BY <1>1, <1>2 DEF Bears
  <2>2. CASE stale.models = NoModels
    BY <1>2, <2>1, <2>2, NoModelsType DEF Revalidated
  <2>3. CASE stale.models # NoModels
    <3>1. models = Merge(v, alive[p], Sanitize(v, stale.models))
      BY <2>3 DEF Revalidated
    <3>2. Sanitize(v, stale.models) \in Models
          /\ DOMAIN Sanitize(v, stale.models) = {id \in DOMAIN stale.models : Free(v, id)}
      BY <1>2, SanitizeType
    <3> HIDE DEF models, stale, v
    <3>3. models \in Models /\ Sound(v, models)
      BY <1>2, <3>1, <3>2, OverSound
    <3>4. DOMAIN models = {id \in DOMAIN alive[p] \cup DOMAIN Sanitize(v, stale.models) : Free(v, id)}
      BY <1>2, <3>1, <3>2, MergeType
    <3> QED
      BY <1>2, <2>1, <3>2, <3>3, <3>4, UnbarredFree
  <2> QED
    BY <2>2, <2>3
<1> HIDE DEF models, file
<1>5. CatalogInv'
  BY <1>1, <1>3, <1>4, OverInv
<1>6. alive'[p] = models
  BY <1>1 DEF Over, CatalogInv, CatalogTypeOK
<1> QED
  BY <1>4, <1>5, <1>6

\* A 200 brings the list itself.
LEMMA ListedInv ==
    ASSUME CatalogInv, NEW p \in Procs, NEW kind \in Kinds, Listed(p, kind)
    PROVE  /\ CatalogInv'
           /\ Unbarred(listing) \subseteq DOMAIN alive'[p]
<1> DEFINE stale == asking[p][kind].stale
           v == code[p]
           models == Merge(v, alive[p], Enriched(v, Listings[listing]))
<1>1. PICK tag \in Tags(stale) :
         Over(p, kind, models, [usable |-> TRUE, fresh |-> TRUE, models |-> models, etag |-> tag])
  BY DEF Listed
<1> DEFINE file == [usable |-> TRUE, fresh |-> TRUE, models |-> models, etag |-> tag]
<1>2. /\ v \in Versions /\ alive[p] \in Models /\ Sound(v, alive[p])
      /\ stale \in Files /\ Bears(stale)
  BY <1>1, AskerFacts DEF Over
<1>3. /\ listing \in Nat /\ listing <= Len(Listings) /\ Len(Listings) \in Nat
      /\ Listings[listing] \in SUBSET Ids /\ Unbarred(listing) \subseteq Listings[listing]
  BY ListingType DEF CatalogInv
<1>4. /\ models \in Models /\ Sound(v, models)
      /\ Unbarred(listing) \subseteq DOMAIN models
  <2>1. /\ Enriched(v, Listings[listing]) \in Models
        /\ DOMAIN Enriched(v, Listings[listing]) = {id \in Listings[listing] : Free(v, id)}
    BY <1>2, <1>3, EnrichedType
  <2> DEFINE fresh == Enriched(v, Listings[listing])
  <2> HIDE DEF fresh, v
  <2>2. models \in Models /\ Sound(v, models)
    BY <1>2, <2>1, OverSound DEF fresh
  <2>3. DOMAIN models = {id \in DOMAIN alive[p] \cup DOMAIN fresh : Free(v, id)}
    BY <1>2, <2>1, MergeType DEF fresh
  <2> QED
    BY <1>2, <1>3, <2>1, <2>2, <2>3, UnbarredFree DEF fresh
<1>5. file \in Files /\ Bears(file)
  <2>1. tag \in 0..Len(Listings) /\ tag <= listing
    BY <1>2, <1>3 DEF Tags, Files, Bears
  <2> HIDE DEF models
  <2> QED
    BY <1>4, <2>1 DEF Files, Bears
<1> HIDE DEF models, file
<1>6. CatalogInv'
  BY <1>1, <1>4, <1>5, OverInv DEF file
<1>7. alive'[p] = models
  BY <1>1 DEF Over, CatalogInv, CatalogTypeOK
<1> QED
  BY <1>4, <1>6, <1>7

\* A file with another etag.
LEMMA Retagged ==
    ASSUME NEW f \in Files, NEW e \in 0..Len(Listings)
    PROVE  /\ [f EXCEPT !.etag = e, !.fresh = TRUE] \in Files
           /\ [f EXCEPT !.etag = e, !.fresh = TRUE].etag = e
<1>1. [f EXCEPT !.etag = e, !.fresh = TRUE] \in Files
  BY DEF Files
<1>2. [f EXCEPT !.etag = e, !.fresh = TRUE].etag = e
  BY DEF Files
<1> QED
  BY <1>1, <1>2

\* An empty list leaves the models alone, and has nothing that a file could miss.
LEMMA ListedEmptyInv ==
    ASSUME CatalogInv, NEW p \in Procs, NEW kind \in Kinds, ListedEmpty(p, kind)
    PROVE  CatalogInv'
<1> DEFINE stale == asking[p][kind].stale
<1>1. PICK tag \in Tags(stale) :
         Over(p, kind, alive[p], IF stale.usable /\ tag # stale.etag
                                 THEN [stale EXCEPT !.etag = tag, !.fresh = TRUE] ELSE cache)
  BY DEF ListedEmpty
<1> DEFINE file == IF stale.usable /\ tag # stale.etag
                   THEN [stale EXCEPT !.etag = tag, !.fresh = TRUE] ELSE cache
<1>2. /\ alive[p] \in Models /\ Sound(code[p], alive[p])
      /\ stale \in Files /\ cache \in Files /\ Bears(cache)
  BY <1>1, AskerFacts DEF Over
<1>3. /\ listing \in Nat /\ listing <= Len(Listings) /\ Len(Listings) \in Nat
      /\ Unbarred(listing) = {}
  BY ListingType DEF CatalogInv, ListedEmpty
<1>4. file \in Files /\ Bears(file)
  <2>1. CASE stale.usable /\ tag # stale.etag
    <3>1. tag = listing
      BY <2>1 DEF Tags
    <3>3. tag \in 0..Len(Listings)
      BY <1>3, <3>1
    <3>2. /\ [stale EXCEPT !.etag = tag, !.fresh = TRUE] \in Files
          /\ [stale EXCEPT !.etag = tag, !.fresh = TRUE].etag = tag
      BY <1>2, <3>3, Retagged
    <3> QED
      BY <1>3, <2>1, <3>1, <3>2 DEF Bears
  <2>2. CASE ~(stale.usable /\ tag # stale.etag)
    BY <1>2, <2>2
  <2> QED
    BY <2>1, <2>2
<1>5. Over(p, kind, alive[p], file)
  BY <1>1
<1> HIDE DEF file
<1> QED
  BY <1>2, <1>4, <1>5, OverInv

\* A failed refresh falls back to a file, over the static list.
LEMMA UnansweredInv ==
    ASSUME CatalogInv, NEW p \in Procs, NEW kind \in Kinds, Unanswered(p, kind)
    PROVE  CatalogInv'
<1> DEFINE ask == asking[p][kind]
           file == IF ask.disk THEN ask.stale ELSE cache
           v == code[p]
           models == IF file.models = NoModels THEN alive[p]
                     ELSE Merge(v, StaticBase(v), Sanitize(v, file.models))
<1>1. Over(p, kind, models, cache)
  BY DEF Unanswered
<1>2. /\ v \in Versions /\ alive[p] \in Models /\ Sound(v, alive[p])
      /\ file.models \in Models /\ cache \in Files /\ Bears(cache)
  BY <1>1, AskerFacts DEF Over
<1>3. models \in Models /\ Sound(v, models)
  BY <1>2, OverStatic
<1> HIDE DEF models
<1> QED
  BY <1>1, <1>2, <1>3, OverInv

\* Zen's list changes, and what had its etag has an old one.
LEMMA RelistInv ==
    ASSUME CatalogInv, Relist
    PROVE  CatalogInv'
<1>1. /\ listing' = listing + 1 /\ listing' \in DOMAIN Listings
      /\ UNCHANGED <<cache, code, alive, asking>>
  BY CatalogAssumption, ListingType DEF Relist, CatalogInv
<1>2. \A file \in Files : Bears(file) => Bears(file)'
  <2>1. listing \in Nat
    BY ListingType DEF CatalogInv
  <2>2. \A file \in Files : file.etag <= listing => file.etag < listing + 1 /\ file.etag # listing + 1
    BY <2>1 DEF Files
  <2> QED
    BY <1>1, <2>2 DEF Bears, Files
<1>3. CatalogTypeOK' /\ CatalogSound'
  BY <1>1 DEF CatalogInv, CatalogTypeOK, CatalogSound, Files, Models
<1>4. AskingInv'
  BY <1>1, <1>2 DEF CatalogInv, CatalogTypeOK, AskingInv, Bears
<1> QED
  BY <1>3, <1>4 DEF CatalogInv

\* The cache goes stale.
LEMMA ExpireInv ==
    ASSUME CatalogInv, Expire
    PROVE  CatalogInv'
<1>1. /\ cache' = [cache EXCEPT !.fresh = FALSE]
      /\ UNCHANGED <<listing, code, alive, asking>>
  BY DEF Expire
<1>2. cache' \in Files /\ cache'.etag = cache.etag /\ cache'.models = cache.models
  BY <1>1 DEF CatalogInv, CatalogTypeOK, Files
<1>3. CatalogTypeOK' /\ CatalogSound'
  BY <1>1, <1>2 DEF CatalogInv, CatalogTypeOK, CatalogSound
<1>4. AskingInv'
  BY <1>1, <1>2 DEF CatalogInv, AskingInv, Bears, Unbarred
<1> QED
  BY <1>3, <1>4 DEF CatalogInv

\* Whatever happens to the catalog of running processes keeps its invariant.
LEMMA CatalogStepInv ==
    ASSUME CatalogInv, CatalogStep
    PROVE  CatalogInv'
BY RefreshInv, NotModifiedInv, ListedInv, ListedEmptyInv, UnansweredInv, RelistInv, ExpireInv
   DEF CatalogStep, Answer

\* So does what does not touch it.
LEMMA CatalogSame ==
    ASSUME CatalogInv, UNCHANGED catalogVars
    PROVE  CatalogInv'
BY DEF CatalogInv, CatalogTypeOK, CatalogSound, AskingInv, Bears, Unbarred, catalogVars,
       Files, Models

\* At the start nobody runs, and the cache is one that a first version may leave.
LEMMA CatalogStarts == CatalogInit => CatalogInv
<1> SUFFICES ASSUME CatalogInit
             PROVE  CatalogInv
  OBVIOUS
<1>1. listing = 1 /\ 1 \in DOMAIN Listings /\ Len(Listings) \in Nat /\ Len(Listings) >= 1
      /\ Listings[1] \in SUBSET Ids
  BY CatalogAssumption DEF CatalogInit
<1>2. NoFile \in Files /\ Bears(NoFile)
  BY <1>1, NoModelsType DEF NoFile, Files, Bears, NoTag
<1>3. cache \in Files /\ Bears(cache)
  <2>1. CASE cache = NoFile
    BY <1>2, <2>1
  <2>2. ASSUME NEW f \in BOOLEAN, NEW e \in {NoTag, 1},
               cache = [usable |-> TRUE, fresh |-> f, etag |-> e,
                        models |-> Merge(First, StaticBase(First), Enriched(First, Listings[1]))]
        PROVE  cache \in Files /\ Bears(cache)
    <3> DEFINE fresh == Enriched(First, Listings[1])
               models == Merge(First, StaticBase(First), fresh)
    <3>1. fresh \in Models /\ DOMAIN fresh = {id \in Listings[1] : Free(First, id)}
      BY <1>1, Firsts, EnrichedType
    <3> HIDE DEF fresh
    <3>2. models \in Models
          /\ DOMAIN models = {id \in DOMAIN StaticBase(First) \cup DOMAIN fresh : Free(First, id)}
      BY <3>1, Firsts, StaticBaseType, MergeType
    <3> HIDE DEF models
    <3>3. Unbarred(1) \subseteq DOMAIN models
      <4>1. \A id \in Unbarred(1) : id \in Listings[1] /\ Free(First, id)
        BY Firsts DEF Unbarred
      <4> QED
        BY <3>1, <3>2, <4>1
    <3>4. cache = [usable |-> TRUE, fresh |-> f, etag |-> e, models |-> models]
      BY <2>2 DEF models, fresh
    <3> QED
      BY <1>1, <3>2, <3>3, <3>4 DEF Files, Bears, NoTag
  <2>3. ASSUME NEW f \in BOOLEAN,
               cache = [usable |-> TRUE, fresh |-> f, etag |-> NoTag, models |-> [id \in Ids |-> Wire]]
        PROVE  cache \in Files /\ Bears(cache)
    <3>1. [id \in Ids |-> Wire] \in Models
      BY ModelsAre
    <3> QED
      BY <1>1, <2>3, <3>1 DEF Files, Bears, NoTag
  <2> QED
    BY <2>1, <2>2, <2>3 DEF CatalogInit, Caches
<1>4. CatalogTypeOK
  BY <1>1, <1>2, <1>3, NoModelsType DEF CatalogInit, CatalogTypeOK, NotAsking
<1>5. CatalogSound
  BY DEF CatalogInit, CatalogSound
<1>6. AskingInv
  BY <1>2, <1>3 DEF CatalogInit, AskingInv, NotAsking
<1> QED
  BY <1>4, <1>5, <1>6 DEF CatalogInv

-----------------------------------------------------------------------------
(* The updates                                                             *)

\* Versions are numbers, and the processes are the sessions and the daemon.
LEMMA Parties ==
    /\ \A v \in Versions : v \in Nat /\ v # 0
    /\ Daemon \in Procs /\ Sessions \subseteq Procs /\ Daemon \notin Sessions
BY CatalogAssumption, UpdatesAssumption

\* A step that keeps the floor, sets no version back and starts no daemon.
LEMMA SameDaemon ==
    ASSUME FloorInv, UpdatesTypeOK', StagedInv', ChildInv', floor' = floor,
           package' \in {package, published}, code'[Daemon] \in {0, code[Daemon]}
    PROVE  FloorInv'
<1>1. floor \in Nat /\ floor <= package /\ package \in Nat /\ published \in Nat
      /\ package <= published
  BY Parties DEF FloorInv, UpdatesTypeOK, StagedInv
<1>2. floor' <= package'
  BY <1>1
<1>3. DaemonCurrent'
  BY DEF FloorInv, DaemonCurrent, Runs
<1> QED
  BY <1>1, <1>2, <1>3 DEF FloorInv

\* A step that changes at most the cache of the registry's answers and a job.
LEMMA JobInv ==
    ASSUME FloorInv, UpdatesTypeOK', floor' = floor, code'[Daemon] \in {0, code[Daemon]},
           UNCHANGED <<published, package, staged, child>>
    PROVE  FloorInv'
<1>1. StagedInv' /\ ChildInv'
  BY DEF FloorInv, StagedInv, ChildInv
<1> QED
  BY <1>1, SameDaemon

\* What is staged, if anything is, is between its name and the package.
LEMMA StagedFacts ==
    ASSUME FloorInv, NEW v \in Versions
    PROVE  /\ staged[v] \in Nat
           /\ staged[v] # 0 => staged[v] \in Versions /\ v <= staged[v] /\ staged[v] <= package
<1>1. staged[v] \in Versions \cup {0}
  BY DEF FloorInv, UpdatesTypeOK
<1> QED
  BY <1>1, Parties DEF FloorInv, StagedInv

\* The jobs a session can be at.
Jobs == [phase : {"idle", "check", "auto", "command", "probe", "host", "global", "kill"},
         hosts : 0..2, global : BOOLEAN]

\* A session's job may become any of them.
LEMMA JobType ==
    ASSUME UpdatesTypeOK, NEW s \in Sessions, NEW j \in Jobs,
           job' = [job EXCEPT ![s] = j],
           UNCHANGED <<published, package, known, staged, child>>
    PROVE  UpdatesTypeOK'
BY DEF UpdatesTypeOK, Jobs

\* A job goes from phase to phase,
LEMMA Phases ==
    ASSUME UpdatesTypeOK, NEW s \in Sessions,
           NEW phase \in {"idle", "check", "auto", "command", "probe", "host", "global", "kill"},
           Becomes(s, phase)
    PROVE  job' = [job EXCEPT ![s] = [job[s] EXCEPT !.phase = phase]]
           /\ [job[s] EXCEPT !.phase = phase] \in Jobs
BY ZenonT(60) DEF UpdatesTypeOK, Becomes, Jobs

\* or is dropped.
LEMMA GivenUp ==
    ASSUME NEW s \in Sessions, GivesUp(s)
    PROVE  job' = [job EXCEPT ![s] = NoJob] /\ NoJob \in Jobs
BY DEF GivesUp, NoJob, Jobs

\* The check, the command, and what the registry answers.
LEMMA AskingRegistryInv ==
    ASSUME FloorInv, NEW s \in Sessions, floor' = floor,
           CheckForUpdate(s) \/ UpdateCommand(s) \/ Latest(s) \/ Compared(s) \/ NoAnswer(s)
    PROVE  FloorInv'
<1>1. UpdatesTypeOK
  BY DEF FloorInv
<1>2. /\ UNCHANGED <<published, package, staged, child>> /\ code' = code
      /\ known' \in {known, [version |-> published, fresh |-> TRUE]}
      /\ \/ \E phase \in {"check", "auto", "command", "probe"} : Becomes(s, phase)
         \/ GivesUp(s)
  <2>1. CASE CheckForUpdate(s) \/ UpdateCommand(s)
    BY <2>1 DEF CheckForUpdate, UpdateCommand, Begin, catalogVars
  <2>2. CASE Latest(s)
    BY <2>2 DEF Latest, catalogVars
  <2>3. CASE Compared(s)
    BY <2>3 DEF Compared, catalogVars
  <2>4. CASE NoAnswer(s)
    BY <2>4 DEF NoAnswer, catalogVars
  <2> QED
    BY <2>1, <2>2, <2>3, <2>4
<1>3. \E j \in Jobs : job' = [job EXCEPT ![s] = j]
  <2>1. ASSUME NEW phase \in {"check", "auto", "command", "probe"}, Becomes(s, phase)
        PROVE  \E j \in Jobs : job' = [job EXCEPT ![s] = j]
    <3>1. job' = [job EXCEPT ![s] = [job[s] EXCEPT !.phase = phase]]
          /\ [job[s] EXCEPT !.phase = phase] \in Jobs
      BY <1>1, <2>1, Phases
    <3> QED
      BY <3>1
  <2>2. CASE GivesUp(s)
    BY <2>2, GivenUp
  <2> QED
    BY <1>2, <2>1, <2>2
<1>4. job' \in [Sessions -> Jobs]
  <2>1. job \in [Sessions -> Jobs]
    BY <1>1 DEF UpdatesTypeOK, Jobs
  <2> QED
    BY <1>3, <2>1
<1>5. known' \in [version : Versions \cup {0}, fresh : BOOLEAN]
  <2>1. [version |-> published, fresh |-> TRUE] \in [version : Versions \cup {0}, fresh : BOOLEAN]
        /\ known \in [version : Versions \cup {0}, fresh : BOOLEAN]
    BY <1>1 DEF UpdatesTypeOK
  <2> QED
    BY <1>2, <2>1
<1>6. UpdatesTypeOK'
  BY <1>1, <1>2, <1>4, <1>5 DEF UpdatesTypeOK, Jobs
<1> QED
  BY <1>2, <1>6, JobInv

\* Probing the managers changes nothing but the job.
LEMMA ProbeInv ==
    ASSUME FloorInv, NEW s \in Sessions, floor' = floor, Probe(s)
    PROVE  FloorInv'
<1>1. UpdatesTypeOK
  BY DEF FloorInv
<1>2. \E j \in Jobs : job' = [job EXCEPT ![s] = j]
  <2>1. PICK hosts \in 0..2, global \in BOOLEAN :
           job' = [job EXCEPT ![s] =
              IF hosts > 0 THEN [phase |-> "host", hosts |-> hosts, global |-> global]
              ELSE IF global THEN [phase |-> "global", hosts |-> 0, global |-> TRUE]
              ELSE NoJob]
    BY DEF Probe
  <2>2. /\ [phase |-> "host", hosts |-> hosts, global |-> global] \in Jobs
        /\ [phase |-> "global", hosts |-> 0, global |-> TRUE] \in Jobs
        /\ NoJob \in Jobs
    BY DEF Jobs, NoJob
  <2> QED
    BY <2>1, <2>2
<1>3. UNCHANGED <<published, package, known, staged, child>> /\ code' = code
  BY DEF Probe, catalogVars
<1>4. UpdatesTypeOK'
  BY <1>1, <1>2, <1>3, JobType
<1> QED
  BY <1>3, <1>4, JobInv

\* An installer only ever brings the latest version.
LEMMA InstallInv ==
    ASSUME FloorInv, NEW s \in Sessions, floor' = floor, Install(s)
    PROVE  FloorInv'
<1>1. UpdatesTypeOK /\ package \in Nat /\ published \in Nat /\ package <= published
  BY Parties DEF FloorInv, UpdatesTypeOK, StagedInv
<1>2. /\ package' \in {package, published} /\ code' = code
      /\ UNCHANGED <<published, known, staged, child>>
  BY DEF Install, catalogVars
<1>3. \E j \in Jobs : job' = [job EXCEPT ![s] = j]
  <2>1. job[s] \in Jobs
    BY <1>1 DEF UpdatesTypeOK, Jobs
  <2>2. NextManager(job[s]) \in Jobs
    <3>1. ASSUME NEW j \in Jobs, j.hosts > 1
          PROVE  [j EXCEPT !.hosts = @ - 1] \in Jobs
      <4>1. j.hosts - 1 \in 0..2
        BY <3>1 DEF Jobs
      <4> QED
        BY <4>1 DEF Jobs
    <3>2. ASSUME NEW j \in Jobs
          PROVE  [j EXCEPT !.phase = "global", !.hosts = 0] \in Jobs
      <4>1. 0 \in 0..2
        OBVIOUS
      <4> QED
        BY <4>1 DEF Jobs
    <3>3. NoJob \in Jobs
      BY DEF NoJob, Jobs
    <3> QED
      BY <2>1, <3>1, <3>2, <3>3 DEF NextManager
  <2>3. CASE Becomes(s, "kill")
    BY <1>1, <2>3, Phases
  <2>4. CASE job' = [job EXCEPT ![s] = NextManager(@)]
    BY <2>2, <2>4
  <2> QED
    BY <2>3, <2>4 DEF Install
<1>4. UpdatesTypeOK'
  <2>1. job' \in [Sessions -> Jobs]
    BY <1>1, <1>3 DEF UpdatesTypeOK, Jobs
  <2> QED
    BY <1>1, <1>2, <2>1 DEF UpdatesTypeOK, Jobs
<1>5. package' \in Nat /\ package <= package' /\ package' <= published'
  BY <1>1, <1>2
<1>6. StagedInv'
  <2>1. \A v \in Versions : staged[v] \in Nat
    BY StagedFacts
  <2> QED
    BY <1>1, <1>2, <1>5, <2>1 DEF FloorInv, StagedInv
<1>7. ChildInv'
  BY <1>1, <1>2, <1>5, Parties DEF FloorInv, ChildInv
<1> QED
  BY <1>2, <1>4, <1>6, <1>7, SameDaemon

\* The end of an update, whether it raises the floor or not.
LEMMA KillInv ==
    ASSUME FloorInv, NEW s \in Sessions, Kill(s), CatalogTypeOK,
           \/ floor' = floor
           \/ /\ floor' = package
              /\ code'[Daemon] = 0 /\ child = [q \in Sessions |-> NoChild]
    PROVE  FloorInv'
<1>1. UpdatesTypeOK /\ package \in Nat
  BY Parties DEF FloorInv, UpdatesTypeOK
<1>2. UNCHANGED <<published, package, known, staged, child>> /\ GivesUp(s)
  BY DEF Kill
<1>3. UpdatesTypeOK'
  BY <1>1, <1>2, GivenUp, JobType
<1>4. code'[Daemon] \in {0, code[Daemon]}
  BY Parties DEF Kill, Stop, catalogVars, CatalogTypeOK
<1>5. CASE floor' = floor
  BY <1>2, <1>3, <1>4, <1>5, JobInv
<1>6. CASE floor' = package /\ code'[Daemon] = 0 /\ child = [q \in Sessions |-> NoChild]
  <2>1. StagedInv' /\ ChildInv'
    BY <1>2, <1>6 DEF FloorInv, StagedInv, ChildInv
  <2>2. DaemonCurrent'
    BY <1>6 DEF DaemonCurrent, Runs
  <2> QED
    BY <1>1, <1>2, <1>3, <1>6, <2>1, <2>2 DEF FloorInv
<1> QED
  BY <1>5, <1>6

\* The start of a daemon that a session may be at.
Children == [phase : {"none", "staging", "boot"}, version : Versions \cup {0}]

\* The starts of a daemon, by phase.
LEMMA ChildrenType ==
    /\ NoChild \in Children
    /\ \A v \in Versions : [phase |-> "staging", version |-> v] \in Children
    /\ \A v \in Versions : [phase |-> "boot", version |-> v] \in Children
BY DEF NoChild, Children

\* A session that comes to be at the start of a daemon that is neither older than the
\* floor nor newer than the package.
LEMMA ChildSet ==
    ASSUME FloorInv, NEW s \in Sessions, NEW ch \in Children,
           ch = NoChild \/ (ch.version \in Versions /\ floor <= ch.version /\ ch.version <= package),
           child' = [child EXCEPT ![s] = ch], UNCHANGED <<floor, package>>
    PROVE  child' \in [Sessions -> Children] /\ ChildInv'
<1>1. child' \in [Sessions -> Children] /\ child'[s] = ch
      /\ \A q \in Sessions : q # s => child'[q] = child[q]
  BY DEF FloorInv, UpdatesTypeOK, Children
<1> QED
  BY <1>1 DEF FloorInv, ChildInv

\* A copy staged under the version of the package is of that version.
LEMMA SpawnInv ==
    ASSUME FloorInv, NEW s \in Sessions, floor' = floor, Spawn(s)
    PROVE  FloorInv'
<1>1. /\ UpdatesTypeOK /\ package \in Versions /\ package \in Nat
      /\ floor \in Nat /\ floor <= package
  BY Parties DEF FloorInv, UpdatesTypeOK
<1>2. /\ UNCHANGED <<published, package, known, job, staged>> /\ code' = code
      /\ child' = [child EXCEPT ![s] =
             IF staged[package] = 0 THEN [phase |-> "staging", version |-> package]
             ELSE [phase |-> "boot", version |-> staged[package]]]
  BY DEF Spawn, Name, catalogVars
<1>3. staged[package] # 0 => staged[package] = package
  BY <1>1, StagedFacts
<1>4. \E ch \in Children :
         /\ child' = [child EXCEPT ![s] = ch]
         /\ ch.version = package
  <2>1. CASE staged[package] = 0
    BY <1>1, <1>2, <2>1, ChildrenType
  <2>2. CASE staged[package] # 0
    <3>1. child' = [child EXCEPT ![s] = [phase |-> "boot", version |-> package]]
      BY <1>2, <1>3, <2>2
    <3> QED
      BY <1>1, <3>1, ChildrenType
  <2> QED
    BY <2>1, <2>2
<1>5. child' \in [Sessions -> Children] /\ ChildInv'
  <2>1. PICK ch \in Children : child' = [child EXCEPT ![s] = ch] /\ ch.version = package
    BY <1>4
  <2>2. ch.version \in Versions /\ floor <= ch.version /\ ch.version <= package
    BY <1>1, <2>1
  <2> QED
    BY <1>2, <2>1, <2>2, ChildSet
<1>6. UpdatesTypeOK' /\ StagedInv'
  BY <1>1, <1>2, <1>5 DEF UpdatesTypeOK, Children, FloorInv, StagedInv
<1> QED
  BY <1>2, <1>5, <1>6, SameDaemon

\* What is copied under a version is that version or one installed since.
LEMMA CopyInv ==
    ASSUME FloorInv, NEW s \in Sessions, floor' = floor, Copy(s)
    PROVE  FloorInv'
<1> DEFINE name == child[s].version
           copy == IF staged[name] = 0 THEN package ELSE staged[name]
<1>1. /\ UpdatesTypeOK /\ package \in Versions /\ package \in Nat
      /\ floor \in Nat /\ floor <= package
  BY Parties DEF FloorInv, UpdatesTypeOK
<1>2. name \in Versions /\ name \in Nat /\ floor <= name /\ name <= package
  <2>1. child[s] # NoChild
    BY DEF Copy, NoChild
  <2> QED
    BY <2>1, Parties DEF FloorInv, ChildInv
<1>3. copy \in Versions /\ name <= copy /\ copy <= package /\ floor <= copy
  <2>1. CASE staged[name] = 0
    BY <1>1, <1>2, <2>1
  <2>2. CASE staged[name] # 0
    <3>1. staged[name] \in Versions /\ name <= staged[name] /\ staged[name] <= package
      BY <1>2, <2>2, StagedFacts
    <3>2. staged[name] \in Nat /\ copy = staged[name]
      BY <1>2, <2>2, StagedFacts
    <3> HIDE DEF name, copy
    <3> QED
      BY <1>1, <1>2, <3>1, <3>2
  <2> QED
    BY <2>1, <2>2
<1>4. /\ UNCHANGED <<published, package, known, job>> /\ code' = code
      /\ \/ /\ staged' = [staged EXCEPT ![name] = copy]
            /\ child' = [child EXCEPT ![s] = [phase |-> "boot", version |-> copy]]
         \/ /\ child' = [child EXCEPT ![s] = [phase |-> "boot", version |-> package]]
            /\ UNCHANGED staged
  BY DEF Copy, catalogVars
<1> HIDE DEF name, copy
<1>5. \E ch \in Children :
         /\ child' = [child EXCEPT ![s] = ch]
         /\ ch.version \in Versions /\ floor <= ch.version /\ ch.version <= package
  <2>1. /\ [phase |-> "boot", version |-> copy] \in Children
        /\ [phase |-> "boot", version |-> package] \in Children
    BY <1>1, <1>3, ChildrenType
  <2> QED
    BY <1>1, <1>3, <1>4, <2>1
<1>6. child' \in [Sessions -> Children] /\ ChildInv'
  BY <1>4, <1>5, ChildSet
<1>7. staged' \in [Versions -> Versions \cup {0}]
      /\ \A v \in Versions : staged'[v] = staged[v] \/ (v = name /\ staged'[v] = copy)
  BY <1>1, <1>2, <1>3, <1>4 DEF UpdatesTypeOK
<1>8. StagedInv'
  BY <1>3, <1>4, <1>7 DEF FloorInv, StagedInv
<1>9. UpdatesTypeOK'
  BY <1>1, <1>4, <1>6, <1>7 DEF UpdatesTypeOK, Children
<1> QED
  BY <1>4, <1>6, <1>8, <1>9, SameDaemon

\* A daemon that binds is one that was being started.
LEMMA BindInv ==
    ASSUME FloorInv, CatalogTypeOK, NEW s \in Sessions, floor' = floor, Bind(s)
    PROVE  FloorInv' /\ (UNCHANGED catalogVars \/ Start(Daemon, child[s].version))
                     /\ child[s].version \in Versions
<1>1. child[s] # NoChild
  BY DEF Bind, NoChild
<1>2. /\ child[s].version \in Versions /\ floor <= child[s].version
      /\ child[s].version \in Nat /\ floor \in Nat /\ floor <= package
  BY <1>1, Parties DEF FloorInv, ChildInv
<1>3. /\ UNCHANGED <<published, package, known, job, staged>>
      /\ child' = [child EXCEPT ![s] = NoChild]
      /\ UNCHANGED catalogVars \/ Start(Daemon, child[s].version)
  BY DEF Bind
<1>4. child' \in [Sessions -> Children] /\ ChildInv'
  BY <1>3, ChildrenType, ChildSet
<1>5. UpdatesTypeOK' /\ StagedInv'
  BY <1>3, <1>4 DEF UpdatesTypeOK, Children, FloorInv, StagedInv
<1>6. code'[Daemon] \in {code[Daemon], child[s].version}
  BY <1>3, Parties DEF Start, catalogVars, CatalogTypeOK
<1>7. DaemonCurrent'
  BY <1>2, <1>6 DEF FloorInv, DaemonCurrent, Runs
<1> QED
  BY <1>2, <1>3, <1>4, <1>5, <1>7 DEF FloorInv

\* A session that ends may leave a manager behind that installs the latest version.
LEMMA QuitInv ==
    ASSUME FloorInv, CatalogTypeOK, NEW s \in Sessions, floor' = floor, Quit(s)
    PROVE  FloorInv'
<1>1. UpdatesTypeOK /\ package \in Nat /\ published \in Nat /\ package <= published
  BY Parties DEF FloorInv, UpdatesTypeOK, StagedInv
<1>2. /\ package' \in {package, published} /\ GivesUp(s) /\ Stop(s)
      /\ UNCHANGED <<published, known, staged>>
      /\ child' = [child EXCEPT ![s] = IF @.phase = "staging" THEN NoChild ELSE @]
  BY DEF Quit
<1>3. code'[Daemon] = code[Daemon]
  BY <1>2, Parties DEF Stop, CatalogTypeOK
<1>4. package' \in Nat /\ package <= package' /\ package' <= published'
  BY <1>1, <1>2
<1>5. child' \in [Sessions -> Children]
      /\ \A q \in Sessions : child'[q] \in {child[q], NoChild}
  BY <1>1, <1>2, ChildrenType DEF UpdatesTypeOK, Children
<1>6. ChildInv'
  BY <1>1, <1>4, <1>5, Parties DEF FloorInv, ChildInv
<1>7. StagedInv'
  <2>1. \A v \in Versions : staged[v] \in Nat
    BY StagedFacts
  <2> QED
    BY <1>1, <1>2, <1>4, <2>1 DEF FloorInv, StagedInv
<1>8. UpdatesTypeOK'
  <2>1. job' \in [Sessions -> Jobs]
    BY <1>1, <1>2, GivenUp DEF UpdatesTypeOK, Jobs
  <2> QED
    BY <1>1, <1>2, <1>5, <2>1 DEF UpdatesTypeOK, Jobs, Children
<1> QED
  BY <1>2, <1>3, <1>6, <1>7, <1>8, SameDaemon

\* What neither installs nor starts a daemon: a session that opens or replaces the
\* daemon, time that passes, and whatever happens to the catalog.
LEMMA OthersInv ==
    ASSUME FloorInv, CatalogTypeOK, floor' = floor,
           \/ \E s \in Sessions : Open(s) \/ Replace(s)
           \/ Forget
           \/ CatalogStep /\ UNCHANGED updateVars
    PROVE  FloorInv'
<1>1. UNCHANGED <<published, package, job, staged, child>>
      /\ (known' = known \/ known' = [known EXCEPT !.fresh = FALSE])
  BY DEF Open, Replace, Forget, updateVars
<1>2. code'[Daemon] \in {0, code[Daemon]}
  <2>1. CASE \E s \in Sessions : Open(s)
    BY <2>1, Parties DEF Open, Start, CatalogTypeOK
  <2>2. CASE \E s \in Sessions : Replace(s)
    BY <2>2, Parties DEF Replace, Stop, CatalogTypeOK
  <2>3. CASE Forget
    BY <2>3 DEF Forget, catalogVars
  <2>4. CASE CatalogStep
    <3>1. code' = code
      BY ZenonT(40), <2>4 DEF CatalogStep, Refresh, Answer, NotModified, Listed, ListedEmpty, Unanswered,
                  Over, Relist, Expire
    <3> QED
      BY <3>1
  <2> QED
    BY <2>1, <2>2, <2>3, <2>4
<1>3. UpdatesTypeOK'
  BY <1>1 DEF FloorInv, UpdatesTypeOK
<1> QED
  BY <1>1, <1>2, <1>3, JobInv

\* A new version on the registry is newer than the package.
LEMMA PublishInv ==
    ASSUME FloorInv, floor' = floor, Publish
    PROVE  FloorInv'
<1>1. UpdatesTypeOK /\ package \in Nat /\ published \in Nat /\ package <= published
  BY Parties DEF FloorInv, UpdatesTypeOK, StagedInv
<1>2. /\ published' = published + 1 /\ published' \in Versions /\ code' = code
      /\ UNCHANGED <<package, known, job, staged, child>>
  BY DEF Publish, catalogVars
<1>3. UpdatesTypeOK' /\ ChildInv'
  BY <1>1, <1>2 DEF UpdatesTypeOK, FloorInv, ChildInv
<1>4. package' <= published'
  BY <1>1, <1>2
<1>5. StagedInv'
  BY <1>2, <1>4 DEF FloorInv, StagedInv
<1> QED
  BY <1>2, <1>3, <1>5, SameDaemon

-----------------------------------------------------------------------------
(* The theorems                                                            *)

\* Whatever happens to sessions, daemon and package, the catalog's invariant is kept:
\* the code that is started is a version.
LEMMA NextCatalogInv ==
    ASSUME IInv, FloorNext
    PROVE  CatalogInv'
<1>1. CatalogInv /\ CatalogTypeOK /\ FloorInv /\ package \in Versions /\ Next
  BY DEF IInv, CatalogInv, FloorInv, UpdatesTypeOK, FloorNext
<1>2. CASE CatalogStep
  BY <1>1, <1>2, CatalogStepInv
<1>3. CASE UNCHANGED catalogVars
  BY <1>1, <1>3, CatalogSame
<1>4. ASSUME NEW s \in Sessions, Kill(s) \/ Replace(s) \/ Quit(s) \/ Open(s)
      PROVE  CatalogInv'
  BY <1>1, <1>3, <1>4, Parties, StopInv, StartInv DEF Kill, Replace, Quit, Open
<1>5. ASSUME NEW s \in Sessions, Bind(s)
      PROVE  CatalogInv'
  <2>1. child[s] # NoChild
    BY <1>5 DEF Bind, NoChild
  <2>2. child[s].version \in Versions
    BY <1>1, <2>1 DEF FloorInv, ChildInv
  <2> QED
    BY <1>1, <1>3, <1>5, <2>2, Parties, StartInv DEF Bind
<1>6. ASSUME NEW s \in Sessions,
             \/ CheckForUpdate(s) \/ UpdateCommand(s) \/ Latest(s) \/ Compared(s) \/ NoAnswer(s)
             \/ Probe(s) \/ Install(s) \/ Spawn(s) \/ Copy(s)
      PROVE  UNCHANGED catalogVars
  BY <1>6 DEF CheckForUpdate, UpdateCommand, Begin, Latest, Compared, NoAnswer, Probe, Install,
              Spawn, Copy
<1>7. Publish \/ Forget => UNCHANGED catalogVars
  BY DEF Publish, Forget
<1> QED
  BY <1>1, <1>2, <1>3, <1>4, <1>5, <1>6, <1>7 DEF Next, UpdateStep

\* And so is that of the updates.
LEMMA NextFloorInv ==
    ASSUME IInv, FloorNext
    PROVE  FloorInv'
<1>1. CatalogTypeOK /\ FloorInv /\ Next
  BY DEF IInv, CatalogInv, FloorNext
<1>2. \/ floor' = floor
      \/ /\ \E s \in Sessions : Kill(s)
         /\ floor' = package /\ code'[Daemon] = 0 /\ child = [q \in Sessions |-> NoChild]
  BY DEF FloorNext
<1>3. CASE \E s \in Sessions : Kill(s)
  BY <1>1, <1>2, <1>3, KillInv
<1>4. CASE floor' = floor /\ ~\E s \in Sessions : Kill(s)
  <2>1. CASE CatalogStep /\ UNCHANGED updateVars
    BY <1>1, <1>4, <2>1, OthersInv
  <2>2. ASSUME NEW s \in Sessions,
               \/ CheckForUpdate(s) \/ UpdateCommand(s) \/ Latest(s) \/ Compared(s)
               \/ NoAnswer(s)
        PROVE  FloorInv'
    BY <1>1, <1>4, <2>2, AskingRegistryInv
  <2>3. ASSUME NEW s \in Sessions, Probe(s) \/ Install(s) \/ Spawn(s) \/ Copy(s)
        PROVE  FloorInv'
    BY <1>1, <1>4, <2>3, ProbeInv, InstallInv, SpawnInv, CopyInv
  <2>4. ASSUME NEW s \in Sessions, Bind(s) \/ Quit(s)
        PROVE  FloorInv'
    BY <1>1, <1>4, <2>4, BindInv, QuitInv
  <2>5. ASSUME NEW s \in Sessions, Open(s) \/ Replace(s)
        PROVE  FloorInv'
    BY <1>1, <1>4, <2>5, OthersInv
  <2>6. Publish \/ Forget => FloorInv'
    BY <1>1, <1>4, PublishInv, OthersInv
  <2> QED
    BY <1>1, <1>4, <2>1, <2>2, <2>3, <2>4, <2>5, <2>6 DEF Next, UpdateStep
<1> QED
  BY <1>2, <1>3, <1>4

\* At the start nothing is staged or being started, and no floor is set.
LEMMA Starts == FloorInit => IInv
<1> SUFFICES ASSUME FloorInit
             PROVE  IInv
  OBVIOUS
<1>1. CatalogInv
  BY CatalogStarts DEF FloorInit, Init
<1>2. /\ published = First /\ package = First /\ First \in Versions /\ First \in Nat
      /\ job = [s \in Sessions |-> NoJob] /\ staged = [v \in Versions |-> 0]
      /\ child = [s \in Sessions |-> NoChild] /\ floor = 0
      /\ known \in {Nothing, [version |-> First, fresh |-> FALSE]}
      /\ code = [p \in Procs |-> 0]
  <2>1. FloorInit => CatalogInit
    BY DEF FloorInit, Init
  <2>2. CatalogInit => code = [p \in Procs |-> 0]
    BY DEF CatalogInit
  <2>3. First \in Versions /\ First \in Nat
    BY Firsts, Parties
  <2> QED
    BY <2>1, <2>2, <2>3 DEF FloorInit, Init
<1>3. known \in [version : Versions \cup {0}, fresh : BOOLEAN]
  <2>1. /\ [version |-> First, fresh |-> FALSE] \in [version : Versions \cup {0}, fresh : BOOLEAN]
        /\ Nothing \in [version : Versions \cup {0}, fresh : BOOLEAN]
    BY <1>2 DEF Nothing
  <2> QED
    BY <1>2, <2>1
<1>4. NoJob \in Jobs /\ NoChild \in Children
  BY ChildrenType DEF NoJob, Jobs
<1>5. UpdatesTypeOK
  BY <1>2, <1>3, <1>4 DEF UpdatesTypeOK, Jobs, Children
<1>6. StagedInv /\ ChildInv
  BY <1>2 DEF StagedInv, ChildInv
<1>7. floor <= package /\ floor \in Nat /\ DaemonCurrent
  BY <1>2, Parties DEF DaemonCurrent, Runs
<1> QED
  BY <1>1, <1>5, <1>6, <1>7 DEF IInv, FloorInv

\* The inductive invariant holds in every reachable state.
THEOREM Invariance == FloorSpec => []IInv
<1>1. FloorInit => IInv
  BY Starts
<1>2. IInv /\ [FloorNext]_floorVars => IInv'
  <2>1. ASSUME IInv, FloorNext
        PROVE  IInv'
    BY <2>1, NextCatalogInv, NextFloorInv DEF IInv
  <2>2. ASSUME IInv, UNCHANGED floorVars
        PROVE  IInv'
    <3>1. UNCHANGED catalogVars /\ UNCHANGED updateVars /\ floor' = floor
      BY <2>2 DEF floorVars, vars
    <3>2. CatalogInv'
      BY <2>2, <3>1, CatalogSame DEF IInv
    <3>3. FloorInv'
      BY <2>2, <3>1 DEF IInv, FloorInv, UpdatesTypeOK, StagedInv, ChildInv, DaemonCurrent, Runs,
                        updateVars, catalogVars
    <3> QED
      BY <3>2, <3>3 DEF IInv
  <2> QED
    BY <2>1, <2>2
<1> QED
  BY <1>1, <1>2, PTL DEF FloorSpec

\* Catalog and updates stay in their types.
THEOREM TypeCorrect == FloorSpec => [](CatalogTypeOK /\ UpdatesTypeOK)
<1>1. IInv => CatalogTypeOK /\ UpdatesTypeOK
  BY DEF IInv, CatalogInv, FloorInv
<1> QED
  BY <1>1, Invariance, PTL

\* Whatever versions share the cache and whatever Zen lists and answers, a process
\* offers its own code's models and none that its code bars (src/catalog.ts).
THEOREM OffersAreSound == FloorSpec => []CatalogSound
<1>1. IInv => CatalogSound
  BY DEF IInv, CatalogInv
<1> QED
  BY <1>1, Invariance, PTL

\* After an update that restarted the daemon no session, however old, starts an older
\* one, from whatever copy (src/updater.ts, src/client-staging.ts).
THEOREM DaemonNeverOlder == FloorSpec => []DaemonCurrent
<1>1. IInv => DaemonCurrent
  BY DEF IInv, FloorInv
<1> QED
  BY <1>1, Invariance, PTL

\* What Zen lists and no version bars is offered as soon as Zen has answered, even by
\* 304 to a process that never saw that list (src/catalog.ts, refreshCatalog).
THEOREM ListedIsShown == FloorSpec => ListingShown
<1>1. IInv /\ [FloorNext]_floorVars =>
         [\A p \in Procs : Answered(p) =>
             \A id \in Listings[listing] :
                 (\A v \in Versions : Free(v, id)) => id \in DOMAIN alive'[p]]_catalogVars
  <2> SUFFICES ASSUME IInv, NEW p \in Procs, Answered(p), NEW id \in Listings[listing],
                      \A v \in Versions : Free(v, id)
               PROVE  id \in DOMAIN alive'[p]
    OBVIOUS
  <2>1. CatalogInv /\ id \in Unbarred(listing)
    BY DEF IInv, Unbarred
  <2> QED
    BY <2>1, NotModifiedInv, ListedInv DEF Answered
<1> QED
  BY <1>1, Invariance, PTL DEF FloorSpec, ListingShown
=============================================================================
