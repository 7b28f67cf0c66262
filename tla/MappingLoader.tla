---------------------------- MODULE MappingLoader ----------------------------
(* The AniList-to-arr map (internal/mapping): one Load per pass asks which     *)
(* animap release is the latest, downloads it when its tag is new, and either  *)
(* accepts it whole or keeps the map it has. Records are modelled field by     *)
(* field because the acceptance guards count them; an episode fact is only its *)
(* noun and the series and season it belongs to. Downloads run under retries,  *)
(* so an answer here is the last one of its attempts.                          *)
EXTENDS Integers, FiniteSets, Sequences

CONSTANTS
  Release,        \* tag -> the document animap published under it
  OverrideFiles,  \* what overrides.json may hold: a sequence of rows, or NoFile
  Persisted,      \* the caches state.json may hold at boot
  NoTag, NoFile,
  FloorDivisor,   \* coverageFloor's 100
  RefreshWindow,  \* Loader.refresh
  MaxOverrides,   \* maxOverrideRecords
  MaxAge,         \* bound: the age of a cache saturates here
  MaxStreak       \* bound: the rejection streak saturates here

Tags == DOMAIN Release
Answers == {"ok", "transient", "refusal"}

ASSUME LoaderAssumption ==
  /\ NoTag \notin Tags
  /\ FloorDivisor \in Nat \ {0}
  /\ {RefreshWindow, MaxOverrides, MaxAge} \subseteq Nat
  /\ MaxStreak \in Nat \ {0}

VARIABLES
  mapCache,     \* the mapping.Cache the next Load is handed
  mapSaved,     \* the one state.json holds
  mapOutcome,   \* how the last Load ended
  mapLatest,    \* upstream: the latest release
  mapCalm       \* upstream answers, and nothing else changes, from here on

loaderVars == <<mapCache, mapSaved, mapOutcome, mapLatest, mapCalm>>
------------------------------------------------------------------------------
(* Records *)

Clamp(n) == IF n > 0 THEN n ELSE 0

Canonicalize(r) ==
  [al |-> r.al, tvdb |-> Clamp(r.tvdb), movies |-> {id \in r.movies : id > 0},
   anidb |-> Clamp(r.anidb), season |-> Clamp(r.season),
   kind |-> IF r.kind \in {"present", "absent"} THEN r.kind ELSE "unknown"]

RadarrRoute(r) == r.movies # {}
SonarrRoute(r) == r.tvdb > 0
HasRoute(r) == RadarrRoute(r) \/ SonarrRoute(r)
HasMappedSeason(r) == r.season > 0

\* deduplicateRecords: the last record of a positive AniList id is the effective one.
Effective(recs) ==
  {recs[i] : i \in {k \in DOMAIN recs :
     recs[k].al > 0 /\ \A j \in DOMAIN recs : recs[j].al = recs[k].al => j <= k}}

CoverageFloor(n) == LET share == (n + FloorDivisor - 1) \div FloorDivisor
                    IN IF share > 1 THEN share ELSE 1
Routed(rs) == {r \in rs : HasRoute(r)}
Covered(rs) == Cardinality(Routed(rs)) >= CoverageFloor(Cardinality(rs))
CacheUsable(recs) == LET rs == Effective(recs) IN rs # {} /\ Covered(rs)
------------------------------------------------------------------------------
(* Acceptance of a downloaded document against the previous cache *)

ShrunkBelowHalf(count, before) == 2 * count < before

\* validatePopulation: extinction at any size, collapse from the floor up.
PopulationLost(before, count, floor) ==
  \/ before > 0 /\ count = 0
  \/ before >= floor /\ ShrunkBelowHalf(count, before)

OnRadarr(rs) == {r \in rs : RadarrRoute(r)}
OnSonarr(rs) == {r \in rs : SonarrRoute(r)}
RoutesLost(prev, next) ==
  LET floor == CoverageFloor(Cardinality(prev))
      lost(before, after) == PopulationLost(Cardinality(before), Cardinality(after), floor)
  IN lost(OnRadarr(prev), OnRadarr(next)) \/ lost(OnSonarr(prev), OnSonarr(next))

FactNouns == {"season-range", "special", "season-episode", "single-special"}
Names(facts, key, noun) == key \in DOMAIN facts /\ \E f \in facts[key] : f.noun = noun
Carriers(facts, noun) == {k \in DOMAIN facts : Names(facts, k, noun)}

\* The document still answers an anime's fact, or states every episode of it.
KeptByAniDB(doc, aid, noun) == Names(doc.facts, aid, noun) \/ aid \in doc.stated
\* An entry's key is read through the join a record of the document would use.
KeptByAniList(doc, al, noun) ==
  LET joined == {r.anidb : r \in {x \in Effective(doc.recs) : x.al = al /\ x.anidb > 0}}
  IN IF joined # {} THEN \A aid \in joined : KeptByAniDB(doc, aid, noun)
     ELSE Names(doc.alFacts, al, noun) \/ al \in doc.alStated

FactsLost(recs, facts, alFacts, doc) ==
  LET floor == CoverageFloor(Cardinality(Effective(recs)))
      lost(carriers, kept) == PopulationLost(Cardinality(carriers), Cardinality(kept), floor)
  IN \E noun \in FactNouns :
       \/ lost(Carriers(facts, noun), {k \in Carriers(facts, noun) : KeptByAniDB(doc, k, noun)})
       \/ lost(Carriers(alFacts, noun), {k \in Carriers(alFacts, noun) : KeptByAniList(doc, k, noun)})

\* Mutant: only the whole map's size is held against the previous one.
RefusesBySize(cache, doc) ==
  \/ ~Covered(Effective(doc.recs))
  \/ CacheUsable(cache.recs) /\ ShrunkBelowHalf(Cardinality(Effective(doc.recs)), Cardinality(Effective(cache.recs)))

\* acceptRelease's refusals; an unusable previous cache anchors none of the relative ones.
RefusesOver(recs, facts, alFacts, doc) ==
  \E prev \in {Effective(recs)}, next \in {Effective(doc.recs)} :
     \/ ~Covered(next)
     \/ /\ CacheUsable(recs)
        /\ \/ RoutesLost(prev, next)
           \/ ShrunkBelowHalf(Cardinality(next), Cardinality(prev))
           \/ FactsLost(recs, facts, alFacts, doc)
Refuses(cache, doc) == RefusesOver(cache.recs, cache.facts, cache.alFacts, doc)
------------------------------------------------------------------------------
(* The overrides file and the index *)

\* parseOverrides: the rows kept are the last of each positive id, one bad row refuses the file.
UnstatedScope(row) == LET r == Canonicalize(row) IN
  row.typed /\ SonarrRoute(r) /\ r.kind = "unknown" /\ ~HasMappedSeason(r)
EffectiveOverrides(file) ==
  LET kept == Effective([i \in DOMAIN file |-> Canonicalize(file[i])])
  IN IF file = NoFile \/ (\E i \in DOMAIN file : \/ file[i].retired
                                                 \/ file[i].al > 0 /\ UnstatedScope(file[i]))
                      \/ Cardinality(kept) > MaxOverrides
     THEN {} ELSE kept

NewIndex(cache, overrides) ==
  LET upstream == Effective(cache.recs)
      pinned == {r.al : r \in overrides}
  IN [records |-> {r \in upstream : r.al \notin pinned} \cup overrides,
      scoped |-> {r \in upstream : SonarrRoute(r) /\ HasMappedSeason(r)},
      pinned |-> pinned,
      facts |-> cache.facts,
      alFacts |-> [k \in DOMAIN cache.alFacts \ pinned |-> cache.alFacts[k]]]

\* MappingFor: what the map says of a record's episodes, on that record's series and season only.
MappingFor(idx, r) ==
  LET facts == IF r.anidb > 0 THEN idx.facts ELSE idx.alFacts
      key == IF r.anidb > 0 THEN r.anidb ELSE r.al
  IN IF key \notin DOMAIN facts THEN {}
     ELSE {f \in facts[key] : f.tvdb = r.tvdb /\ (f.noun = "season-episode" => f.season = r.season)}

\* Index.SiblingSeasons, over the counts the upstream records built.
SiblingSeasons(idx, r) ==
  LET holders(s) == Cardinality({x \in idx.scoped : x.tvdb = r.tvdb /\ x.season = s})
      seasons == {x.season : x \in {y \in idx.scoped : y.tvdb = r.tvdb}}
  IN {s \in seasons : ~(s = r.season /\ holders(s) = 1)}
------------------------------------------------------------------------------
(* Load *)

Canonical(cache) == [cache EXCEPT !.recs = [i \in DOMAIN @ |-> Canonicalize(@[i])]]

Counted(streak) == IF streak < MaxStreak THEN streak + 1 ELSE streak

\* The index a load serves: the overrides file it finds, over the cache it returns.
Served(file) == NewIndex(mapCache, EffectiveOverrides(file))

Return(cache, outcome) ==
  /\ mapCache' = cache
  /\ mapOutcome' = outcome
  /\ UNCHANGED <<mapSaved, mapLatest, mapCalm>>

\* A cache just confirmed: fresh, nothing refused since.
Confirmed(tag, map) ==
  [age |-> 0, tag |-> tag, refused |-> NoTag, streak |-> 0,
   recs |-> map.recs, facts |-> map.facts, alFacts |-> map.alFacts]

\* degradeRefresh: the stale map when there is a usable one; a persistent refusal counts either way.
Degrade(persistent, cache, usable) ==
  Return(IF persistent THEN [cache EXCEPT !.streak = Counted(@)] ELSE cache,
         IF usable THEN "stale" ELSE "none")

LoadCheckFailed(prev, usable, answer) ==
  /\ ~mapCalm
  /\ Degrade(answer = "refusal", prev, usable)

LoadReuse(prev, usable) ==
  /\ usable /\ mapLatest = prev.tag
  /\ Return(Confirmed(prev.tag, prev), "map")

LoadRefusedUnchanged(prev, usable) ==
  /\ usable /\ mapLatest # prev.tag /\ mapLatest = prev.refused
  /\ Degrade(TRUE, prev, usable)

Downloads(prev, usable) == ~(usable /\ mapLatest \in {prev.tag, prev.refused})

\* Mutant: a download cut short sets its release aside like a refused one.
FetchTransientSetsAside(prev, usable) ==
  Downloads(prev, usable) /\ ~mapCalm /\ Degrade(FALSE, [prev EXCEPT !.refused = mapLatest], usable)

LoadFetchTransient(prev, usable) ==
  Downloads(prev, usable) /\ ~mapCalm /\ Degrade(FALSE, prev, usable)

\* Mutant: a refused download is tried again on every load.
FetchRefusedForgets(prev, usable) ==
  /\ Downloads(prev, usable)
  /\ ~Release[mapLatest].readable \/ Refuses(prev, Release[mapLatest])
  /\ Degrade(TRUE, prev, usable)

\* A refused download is remembered by its tag.
LoadFetchRefused(prev, usable) ==
  /\ Downloads(prev, usable)
  /\ ~Release[mapLatest].readable \/ Refuses(prev, Release[mapLatest])
  /\ Degrade(TRUE, [prev EXCEPT !.refused = mapLatest], usable)

LoadAccept(prev, usable) ==
  LET doc == Release[mapLatest] IN
  /\ Downloads(prev, usable)
  /\ doc.readable /\ ~Refuses(prev, doc)
  /\ Return(Confirmed(mapLatest, doc), "map")

\* refreshCache: a cache within the refresh window asks nothing.
Load == \E prev \in {Canonical(mapCache)} : \E usable \in {CacheUsable(prev.recs)} :
  LET fresh == prev.age >= 0 /\ prev.age < RefreshWindow /\ usable
  IN \/ fresh /\ Return(prev, "map")
     \/ /\ ~fresh
        /\ \/ LoadReuse(prev, usable)
           \/ LoadRefusedUnchanged(prev, usable)
           \/ LoadFetchTransient(prev, usable)
           \/ LoadFetchRefused(prev, usable)
           \/ LoadAccept(prev, usable)
           \/ \E answer \in Answers \ {"ok"} : LoadCheckFailed(prev, usable, answer)
------------------------------------------------------------------------------
(* The surroundings *)

SaveMap == /\ mapSaved # mapCache /\ mapSaved' = mapCache
           /\ UNCHANGED <<mapCache, mapOutcome, mapLatest, mapCalm>>

RestartLoader == /\ ~mapCalm
                 /\ mapCache' = mapSaved /\ mapOutcome' = "boot"
                 /\ UNCHANGED <<mapSaved, mapLatest, mapCalm>>

Age == /\ mapCache.age < MaxAge
       /\ mapCache' = [mapCache EXCEPT !.age = @ + 1]
       /\ UNCHANGED <<mapSaved, mapOutcome, mapLatest, mapCalm>>

PublishRelease(tag) == /\ ~mapCalm /\ mapLatest' = tag
                /\ UNCHANGED <<mapCache, mapSaved, mapOutcome, mapCalm>>

Settle == /\ ~mapCalm /\ mapCalm' = TRUE
          /\ UNCHANGED <<mapCache, mapSaved, mapOutcome, mapLatest>>

LoaderInit ==
  /\ mapCache \in Persisted /\ mapSaved = mapCache
  /\ mapOutcome = "boot"
  /\ mapLatest \in Tags
  /\ mapCalm = FALSE

LoaderNext ==
  \/ Load \/ SaveMap \/ RestartLoader \/ Age \/ Settle
  \/ \E tag \in Tags : PublishRelease(tag)

LoaderSpec == LoaderInit /\ [][LoaderNext]_loaderVars
------------------------------------------------------------------------------
\* Record and Cache, as far as the loader looks at them; a document's facts are per key.
Kinds == {"present", "absent", "unknown", "odd"}  \* Record.Type: "odd" for any other text
MapRecord == [al : Int, tvdb : Int, movies : SUBSET Int, anidb : Int, season : Int, kind : Kinds]
MapTypeOK(map) ==
  /\ map.recs \in Seq(MapRecord)
  /\ IsFiniteSet(DOMAIN map.facts) /\ IsFiniteSet(DOMAIN map.alFacts)
CacheTypeOK(cache) ==
  /\ cache = [age |-> cache.age, tag |-> cache.tag, refused |-> cache.refused, streak |-> cache.streak,
              recs |-> cache.recs, facts |-> cache.facts, alFacts |-> cache.alFacts]
  /\ cache.age \in Int /\ cache.age <= MaxAge
  /\ {cache.tag, cache.refused} \subseteq Tags \cup {NoTag}
  /\ cache.streak \in 0..MaxStreak
  /\ MapTypeOK(cache)

LoaderTypeOK ==
  /\ CacheTypeOK(mapCache) /\ CacheTypeOK(mapSaved)
  /\ mapOutcome \in {"boot", "map", "stale", "none"}
  /\ mapLatest \in Tags /\ mapCalm \in BOOLEAN

(* A release the loader has set aside by its tag is one it still refuses: it   *)
(* is unreadable, or the guards refuse it against the very map kept in force,  *)
(* and a rejection streak says so. Otherwise skipping its download             *)
(* (refreshCache) would freeze the map on a release it could accept.           *)
RefusalStands(cache) ==
  cache.refused # NoTag =>
    /\ cache.streak > 0
    /\ \/ ~Release[cache.refused].readable
       \/ Refuses(Canonical(cache), Release[cache.refused])

\* state.json holds what an earlier process saved.
ASSUME MapAssumption == /\ \A tag \in Tags : MapTypeOK(Release[tag])
                        /\ \A cache \in Persisted : CacheTypeOK(cache) /\ RefusalStands(cache)

(* On a series no override touches, the sibling seasons of a record are those  *)
(* the other served records map (Index.SiblingSeasons counts instead).         *)
OtherSeasons(idx, r) ==
  {x.season : x \in {y \in idx.records : y.al # r.al /\ y.tvdb = r.tvdb /\ HasMappedSeason(y)}}
SiblingsCounted ==
  \A file \in OverrideFiles : LET idx == Served(file) IN
    \A r \in {x \in idx.records : SonarrRoute(x)} :
      (\A x \in idx.records \cup idx.scoped : x.tvdb = r.tvdb => x.al \notin idx.pinned)
        => SiblingSeasons(idx, r) = OtherSeasons(idx, r)

(* What the loader keeps true of the caches and of the index it serves.        *)
LoaderInv == /\ LoaderTypeOK
             /\ RefusalStands(mapCache) /\ RefusalStands(mapSaved)
             /\ SiblingsCounted

(* Once a pass was handed a usable map, no Load hands back an unusable one, or *)
(* one that lost an arr: whole, per arr and per episode fact, at least half    *)
(* survives any single refresh, and what an override pins is not consulted.    *)
Half(before, after) == 2 * Cardinality(after) >= Cardinality(before)
Survives(before, after) == before # {} => after # {}
KeepsMap ==
  LET was == Canonical(mapCache)
      prev == Effective(was.recs)
      next == Effective(mapCache'.recs)
  IN CacheUsable(was.recs) =>
       /\ CacheUsable(mapCache'.recs) /\ Half(prev, next)
       /\ Survives(OnRadarr(prev), OnRadarr(next))
       /\ Survives(OnSonarr(prev), OnSonarr(next))
       /\ \A noun \in FactNouns :
            Survives(Carriers(was.facts, noun),
                     {aid \in Carriers(was.facts, noun) : \/ Names(mapCache'.facts, aid, noun)
                                                          \/ aid \in Release[mapCache'.tag].stated})
MapOf(cache) == <<cache.recs, cache.facts, cache.alFacts>>
LoaderKeepsMap == [][mapOutcome' # "boot" /\ MapOf(mapCache') # MapOf(mapCache) => KeepsMap]_loaderVars

(* Once upstream answers and settles, the map is the latest release, or the    *)
(* cache names that release as the one refused; it does not linger on an       *)
(* older one (a transient failure between two answers costs nothing).          *)
LoaderConverges == mapCalm ~> (mapLatest \in {mapCache.tag, mapCache.refused})

(* Index.SiblingSeasons' own words: the seasons other records of the index map *)
(* on the record's series.                                                     *)
SiblingsAreOthers == mapOutcome # "boot" =>
  \A file \in OverrideFiles : LET idx == Served(file) IN
    \A r \in {x \in idx.records : SonarrRoute(x)} : SiblingSeasons(idx, r) = OtherSeasons(idx, r)
=============================================================================
