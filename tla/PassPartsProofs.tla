--------------------------- MODULE PassPartsProofs ---------------------------
(* The loader keeps its map for any releases and overrides; a walk's published *)
(* snapshot is whole, for any list of series, any number of slots and any      *)
(* failure budget; a walk of SeaDex loses no record, whatever it is served;    *)
(* the lookups of a pass keep their promises for any AniList, batch size and   *)
(* breaker; the title harvest overtakes no show, for any journal and any       *)
(* answers; and what is proved of a component holds of it inside a pass: while *)
(* another part is at work, it rests.                                          *)
EXTENDS PassParts, VerdictsProofs

------------------------------------------------------------------------------
(* The map loader: its caches.                                                 *)

\* A record read twice is the record read once.
LEMMA CanonicalRecord ==
  ASSUME NEW r \in MapRecord
  PROVE  Canonicalize(r) \in MapRecord /\ Canonicalize(Canonicalize(r)) = Canonicalize(r)
<1>1. \A n \in Int : Clamp(n) \in Int /\ Clamp(Clamp(n)) = Clamp(n)
  BY DEF Clamp
<1>2. \A ids \in SUBSET Int : /\ {id \in ids : id > 0} \in SUBSET Int
                               /\ {id \in {id \in ids : id > 0} : id > 0} = {id \in ids : id > 0}
  OBVIOUS
<1> QED BY <1>1, <1>2 DEF Canonicalize, MapRecord, Kinds

\* The private copy Load works on: the records read, all else the cache's own.
LEMMA CanonicalFields ==
  ASSUME NEW cache, CacheTypeOK(cache)
  PROVE  Canonical(cache) =
           [age |-> cache.age, tag |-> cache.tag, refused |-> cache.refused, streak |-> cache.streak,
            recs |-> [i \in DOMAIN cache.recs |-> Canonicalize(cache.recs[i])],
            facts |-> cache.facts, alFacts |-> cache.alFacts]
BY DEF CacheTypeOK, Canonical

LEMMA CanonicalCopy ==
  ASSUME NEW cache, CacheTypeOK(cache)
  PROVE  /\ CacheTypeOK(Canonical(cache))
         /\ Canonical(Canonical(cache)) = Canonical(cache)
<1> DEFINE copied == [i \in DOMAIN cache.recs |-> Canonicalize(cache.recs[i])]
<1>1. /\ Len(cache.recs) \in Nat /\ DOMAIN cache.recs = 1..Len(cache.recs)
      /\ \A i \in DOMAIN cache.recs : cache.recs[i] \in MapRecord
  BY DEF CacheTypeOK, MapTypeOK
<1>2. copied \in Seq(MapRecord)
  BY <1>1, CanonicalRecord
<1>3. [i \in DOMAIN copied |-> Canonicalize(copied[i])] = copied
  BY <1>1, CanonicalRecord
<1>4. CacheTypeOK(Canonical(cache))
  BY <1>2, CanonicalFields DEF CacheTypeOK, MapTypeOK
<1>5. Canonical(Canonical(cache)) =
           [age |-> cache.age, tag |-> cache.tag, refused |-> cache.refused, streak |-> cache.streak,
            recs |-> [i \in DOMAIN copied |-> Canonicalize(copied[i])],
            facts |-> cache.facts, alFacts |-> cache.alFacts]
  BY <1>4, CanonicalFields
<1> QED BY <1>3, <1>4, <1>5, CanonicalFields

\* Two caches of one map, their other fields aside.
SameMap(c, d) == c.recs = d.recs /\ c.facts = d.facts /\ c.alFacts = d.alFacts

LEMMA CanonicalOfSame ==
  ASSUME NEW c, NEW d, CacheTypeOK(c), CacheTypeOK(d), SameMap(c, d)
  PROVE  SameMap(Canonical(c), Canonical(d))
BY CanonicalFields DEF SameMap

\* The guards look at nothing of a cache but its map.
LEMMA RefusesSame ==
  ASSUME NEW c, NEW d, SameMap(c, d), NEW doc
  PROVE  Refuses(c, doc) <=> Refuses(d, doc)
BY DEF Refuses, SameMap

\* A release set aside stays refused while the map and its tag stay.
LEMMA StandsOnMap ==
  ASSUME NEW c, NEW d, CacheTypeOK(c), CacheTypeOK(d), RefusalStands(c),
         SameMap(Canonical(c), Canonical(d)), d.refused = c.refused,
         c.streak > 0 => d.streak > 0
  PROVE  RefusalStands(d)
BY RefusesSame DEF RefusalStands

------------------------------------------------------------------------------
(* A Load                                                                      *)

CacheInv(cache) == CacheTypeOK(cache) /\ RefusalStands(cache)
CachesInv == /\ CacheInv(mapCache) /\ CacheInv(mapSaved)
             /\ mapOutcome \in {"boot", "map", "stale", "none"}
             /\ mapLatest \in Tags /\ mapCalm \in BOOLEAN

\* What a Load may hand back: the map it had, or a release its guards let through.
KeptMap(cache) == SameMap(cache, Canonical(mapCache))
Accepted(cache) ==
  /\ cache.tag = mapLatest /\ SameMap(cache, Release[mapLatest])
  /\ ~Refuses(Canonical(mapCache), Release[mapLatest])

\* A refusal counts, and names its release: its cache is what it was otherwise.
RefusedCache(cache, tag, streak) ==
  [age |-> cache.age, tag |-> cache.tag, refused |-> tag, streak |-> streak,
   recs |-> cache.recs, facts |-> cache.facts, alFacts |-> cache.alFacts]

LEMMA CountedFields ==
  ASSUME NEW cache, CacheTypeOK(cache), NEW tag
  PROVE  /\ Counted(cache.streak) \in 1..MaxStreak
         /\ [cache EXCEPT !.streak = Counted(@)] = RefusedCache(cache, cache.refused, Counted(cache.streak))
         /\ [[cache EXCEPT !.refused = tag] EXCEPT !.streak = Counted(@)]
              = RefusedCache(cache, tag, Counted(cache.streak))
<1>1. Counted(cache.streak) \in 1..MaxStreak
  BY LoaderAssumption DEF CacheTypeOK, Counted
<1>2. [cache EXCEPT !.streak = Counted(@)] = RefusedCache(cache, cache.refused, Counted(cache.streak))
  BY DEF CacheTypeOK, RefusedCache
<1>3. [cache EXCEPT !.refused = tag] = RefusedCache(cache, tag, cache.streak)
  BY DEF CacheTypeOK, RefusedCache
<1>4. [RefusedCache(cache, tag, cache.streak) EXCEPT !.streak = Counted(@)]
        = RefusedCache(cache, tag, Counted(cache.streak))
  BY DEF RefusedCache
<1> QED BY <1>1, <1>2, <1>3, <1>4, Zenon

\* A confirmed cache has nothing set aside.
LEMMA FreshCache ==
  ASSUME NEW tag \in Tags \cup {NoTag}, NEW map, MapTypeOK(map)
  PROVE  CacheInv(Confirmed(tag, map)) /\ SameMap(Confirmed(tag, map), map) /\ Confirmed(tag, map).tag = tag
<1>1. MapTypeOK(Confirmed(tag, map)) /\ SameMap(Confirmed(tag, map), map)
  BY DEF MapTypeOK, Confirmed, SameMap
<1>2. CacheTypeOK(Confirmed(tag, map))
  BY <1>1, LoaderAssumption DEF CacheTypeOK, Confirmed
<1> QED BY <1>1, <1>2 DEF CacheInv, RefusalStands, Confirmed

LEMMA LoadStep ==
  ASSUME CachesInv, Load
  PROVE  /\ CacheInv(mapCache') /\ (KeptMap(mapCache') \/ Accepted(mapCache'))
         /\ mapOutcome' \in {"map", "stale", "none"} /\ UNCHANGED <<mapSaved, mapLatest, mapCalm>>
<1> DEFINE prev == Canonical(mapCache)
           usable == CacheUsable(prev.recs)
<1>1. CacheTypeOK(prev) /\ Canonical(prev) = prev /\ CacheTypeOK(mapCache) /\ RefusalStands(mapCache)
  BY CanonicalCopy DEF CachesInv, CacheInv
<1>2. RefusalStands(prev)
  <2>1. prev.refused = mapCache.refused /\ prev.streak = mapCache.streak
    BY <1>1, CanonicalFields
  <2> QED BY <1>1, <2>1, StandsOnMap DEF SameMap
<1>3. ASSUME NEW outcome, Return(prev, outcome)
      PROVE  CacheInv(mapCache') /\ KeptMap(mapCache')
  BY <1>1, <1>2, <1>3 DEF Return, CacheInv, KeptMap, SameMap
<1>4. ASSUME NEW tag \in {prev.refused} \cup Tags, NEW cache,
             cache = RefusedCache(prev, tag, Counted(prev.streak)),
             tag # prev.refused => ~Release[tag].readable \/ Refuses(prev, Release[tag])
      PROVE  CacheInv(cache) /\ KeptMap(cache)
  <2>1. Counted(prev.streak) \in 1..MaxStreak /\ mapLatest \in Tags
    BY <1>1, CountedFields DEF CachesInv
  <2>2. CacheTypeOK(cache) /\ SameMap(cache, prev)
    BY <1>1, <1>4, <2>1 DEF CacheTypeOK, MapTypeOK, SameMap, RefusedCache
  <2>3. SameMap(Canonical(cache), prev)
    BY <1>1, <2>2, CanonicalOfSame
  <2>4. RefusalStands(cache)
    <3>1. cache.refused = tag /\ cache.streak > 0
      BY <1>4, <2>1 DEF RefusedCache
    <3>2. \A doc : Refuses(Canonical(cache), doc) <=> Refuses(prev, doc)
      BY <2>3, RefusesSame
    <3>3. tag # NoTag => ~Release[tag].readable \/ Refuses(prev, Release[tag])
      BY <1>1, <1>2, <1>4 DEF RefusalStands
    <3> QED BY <3>1, <3>2, <3>3 DEF RefusalStands
  <2> QED BY <2>2, <2>4 DEF CacheInv, KeptMap
<1>5. ASSUME NEW given, Degrade(given, prev, usable)
      PROVE  CacheInv(mapCache') /\ KeptMap(mapCache')
  <2>1. mapCache' = prev \/ mapCache' = [prev EXCEPT !.streak = Counted(@)]
    BY <1>5 DEF Degrade, Return
  <2>2. CASE mapCache' = prev
    BY <1>1, <1>2, <2>2 DEF CacheInv, KeptMap, SameMap
  <2>3. CASE mapCache' = [prev EXCEPT !.streak = Counted(@)]
    BY <1>1, <1>4, <2>3, CountedFields DEF CachesInv
  <2> QED BY <2>1, <2>2, <2>3
<1>6. ASSUME LoadReuse(prev, usable)
      PROVE  CacheInv(mapCache') /\ (KeptMap(mapCache') \/ Accepted(mapCache'))
  <2>1. mapCache' = Confirmed(prev.tag, prev)
    BY <1>1, <1>6 DEF LoadReuse, Return
  <2>2. prev.tag \in Tags \cup {NoTag} /\ MapTypeOK(prev)
    BY <1>1 DEF CacheTypeOK
  <2> QED BY <2>1, <2>2, FreshCache DEF KeptMap
<1>7. ASSUME LoadFetchRefused(prev, usable)
      PROVE  CacheInv(mapCache') /\ (KeptMap(mapCache') \/ Accepted(mapCache'))
  <2>1. mapCache' = [[prev EXCEPT !.refused = mapLatest] EXCEPT !.streak = Counted(@)]
    BY <1>7 DEF LoadFetchRefused, Degrade, Return
  <2>2. ~Release[mapLatest].readable \/ Refuses(prev, Release[mapLatest])
    BY <1>7 DEF LoadFetchRefused
  <2> QED BY <1>1, <1>4, <2>1, <2>2, CountedFields DEF CachesInv
<1>8. ASSUME LoadAccept(prev, usable)
      PROVE  CacheInv(mapCache') /\ (KeptMap(mapCache') \/ Accepted(mapCache'))
  <2>1. /\ mapCache' = Confirmed(mapLatest, Release[mapLatest])
        /\ ~Refuses(prev, Release[mapLatest])
    BY <1>8 DEF LoadAccept, Return
  <2>2. MapTypeOK(Release[mapLatest])
    BY MapAssumption DEF CachesInv
  <2> QED BY <2>1, <2>2, FreshCache DEF CachesInv, Accepted
<1>9. CacheInv(mapCache') /\ (KeptMap(mapCache') \/ Accepted(mapCache'))
  BY <1>3, <1>5, <1>6, <1>7, <1>8 DEF Load, LoadRefusedUnchanged, LoadFetchTransient, LoadCheckFailed
<1>10. mapOutcome' \in {"map", "stale", "none"} /\ UNCHANGED <<mapSaved, mapLatest, mapCalm>>
  BY DEF Load, LoadReuse, LoadRefusedUnchanged, LoadFetchTransient, LoadFetchRefused, LoadAccept,
         LoadCheckFailed, Degrade, Return
<1> QED BY <1>9, <1>10

LEMMA CachesStep == CachesInv /\ [LoaderNext]_loaderVars => CachesInv'
<1> SUFFICES ASSUME CachesInv, [LoaderNext]_loaderVars PROVE CachesInv'
  OBVIOUS
<1>1. CASE Load
  BY <1>1, LoadStep DEF CachesInv
<1>2. CASE SaveMap \/ RestartLoader \/ Settle \/ (\E tag \in Tags : PublishRelease(tag))
  BY <1>2 DEF CachesInv, SaveMap, RestartLoader, Settle, PublishRelease
<1>3. CASE Age
  <2>1. mapCache' = [age |-> mapCache.age + 1, tag |-> mapCache.tag, refused |-> mapCache.refused,
                     streak |-> mapCache.streak, recs |-> mapCache.recs, facts |-> mapCache.facts,
                     alFacts |-> mapCache.alFacts]
    BY <1>3 DEF Age, CachesInv, CacheInv, CacheTypeOK
  <2>2. CacheTypeOK(mapCache') /\ SameMap(mapCache, mapCache')
    BY <1>3, <2>1, LoaderAssumption DEF Age, CachesInv, CacheInv, CacheTypeOK, MapTypeOK, SameMap
  <2>3. RefusalStands(mapCache')
    BY <2>1, <2>2, CanonicalOfSame, StandsOnMap DEF CachesInv, CacheInv
  <2> QED BY <1>3, <2>2, <2>3 DEF Age, CachesInv, CacheInv
<1>4. CASE UNCHANGED loaderVars
  BY <1>4 DEF CachesInv, loaderVars
<1> QED BY <1>1, <1>2, <1>3, <1>4 DEF LoaderNext

LEMMA CachesBegin == LoaderInit => CachesInv
BY MapAssumption DEF LoaderInit, CachesInv, CacheInv

------------------------------------------------------------------------------
(* The effective records                                                       *)

\* Of each AniList id there is one effective record, and a map has finitely many.
LEMMA EffectiveOne ==
  ASSUME NEW recs \in Seq(MapRecord)
  PROVE  /\ Effective(recs) \subseteq MapRecord
         /\ \A x, y \in Effective(recs) : x.al = y.al => x = y
<1>1. DOMAIN recs = 1..Len(recs) /\ Len(recs) \in Nat /\ \A i \in DOMAIN recs : recs[i] \in MapRecord
  OBVIOUS
<1>2. Effective(recs) \subseteq MapRecord
  BY <1>1 DEF Effective
<1>3. ASSUME NEW x \in Effective(recs), NEW y \in Effective(recs), x.al = y.al
      PROVE  x = y
  <2>1. PICK i \in DOMAIN recs : x = recs[i] /\ \A j \in DOMAIN recs : recs[j].al = recs[i].al => j <= i
    BY DEF Effective
  <2>2. PICK k \in DOMAIN recs : y = recs[k] /\ \A j \in DOMAIN recs : recs[j].al = recs[k].al => j <= k
    BY DEF Effective
  <2>3. i <= k /\ k <= i
    BY <1>3, <2>1, <2>2
  <2> QED BY <1>1, <2>1, <2>2, <2>3
<1> QED BY <1>2, <1>3

LEMMA EffectiveFinite ==
  ASSUME NEW recs \in Seq(MapRecord)
  PROVE  IsFiniteSet(Effective(recs))
<1> DEFINE held == {recs[i] : i \in 1..Len(recs)}
<1>1. Len(recs) \in Nat /\ DOMAIN recs = 1..Len(recs)
  OBVIOUS
<1>2. recs \in Surjection(1..Len(recs), held)
  BY <1>1 DEF Surjection
<1>3. IsFiniteSet(held)
  BY <1>1, <1>2, FS_Interval, FS_Surjection
<1>4. Effective(recs) \in SUBSET held
  BY <1>1 DEF Effective
<1> QED BY <1>3, <1>4, FS_Subset

\* A loss the guards let pass is neither an extinction nor, of a whole map, a collapse.
LEMMA PopulationKept ==
  ASSUME NEW before, NEW after, IsFiniteSet(before), IsFiniteSet(after), NEW floor,
         ~PopulationLost(Cardinality(before), Cardinality(after), floor)
  PROVE  Survives(before, after)
BY FS_CardinalityType, FS_EmptySet DEF PopulationLost, Survives

\* A map that covers its arrs has records.
LEMMA CoveredMap ==
  ASSUME NEW recs \in Seq(MapRecord), Covered(Effective(recs))
  PROVE  CacheUsable(recs)
<1> SUFFICES ASSUME Effective(recs) = {} PROVE FALSE
  BY DEF CacheUsable
<1>1. Routed({}) = {} /\ Cardinality({}) = 0
  BY FS_EmptySet DEF Routed
<1>2. ~(0 >= CoverageFloor(0))
  BY LoaderAssumption DEF CoverageFloor
<1>3. Covered({})
  OBVIOUS
<1> QED BY <1>1, <1>2, <1>3 DEF Covered

------------------------------------------------------------------------------
(* What a Load keeps                                                           *)

LEMMA KeptKeeps ==
  ASSUME CachesInv, Load, KeptMap(mapCache')
  PROVE  KeepsMap
<1> DEFINE was == Canonical(mapCache)
<1>1. CacheTypeOK(was)
  BY CanonicalCopy DEF CachesInv, CacheInv
<1>2. IsFiniteSet(Effective(was.recs))
  BY <1>1, EffectiveFinite DEF CacheTypeOK, MapTypeOK
<1>3. Half(Effective(was.recs), Effective(was.recs))
  BY <1>2, FS_CardinalityType DEF Half
<1>4. mapCache'.recs = was.recs /\ mapCache'.facts = was.facts
  BY DEF KeptMap, SameMap
<1>5. \A noun \in FactNouns :
        Survives(Carriers(was.facts, noun),
                 {aid \in Carriers(was.facts, noun) : \/ Names(mapCache'.facts, aid, noun)
                                                      \/ aid \in Release[mapCache'.tag].stated})
  BY <1>4 DEF Survives, Carriers
<1> QED BY <1>3, <1>4, <1>5 DEF KeepsMap, Survives

LEMMA AcceptedKeeps ==
  ASSUME CachesInv, Accepted(mapCache')
  PROVE  KeepsMap
<1> DEFINE was == Canonical(mapCache)
           doc == Release[mapLatest]
           prev == Effective(was.recs)
           next == Effective(doc.recs)
           kept(noun) == {k \in Carriers(was.facts, noun) : KeptByAniDB(doc, k, noun)}
<1>1. CacheTypeOK(was) /\ MapTypeOK(doc)
  BY CanonicalCopy, MapAssumption DEF CachesInv, CacheInv
<1>2. IsFiniteSet(prev) /\ IsFiniteSet(next)
  BY <1>1, EffectiveFinite DEF CacheTypeOK, MapTypeOK
<1>3. mapCache'.recs = doc.recs /\ mapCache'.facts = doc.facts /\ mapCache'.tag = mapLatest
  BY DEF Accepted, SameMap
<1> SUFFICES ASSUME CacheUsable(was.recs)
             PROVE  /\ CacheUsable(mapCache'.recs) /\ Half(prev, next)
                    /\ Survives(OnRadarr(prev), OnRadarr(next))
                    /\ Survives(OnSonarr(prev), OnSonarr(next))
                    /\ \A noun \in FactNouns : Survives(Carriers(was.facts, noun), kept(noun))
  BY <1>3 DEF KeepsMap, KeptByAniDB
<1>4. /\ Covered(next) /\ ~RoutesLost(prev, next)
      /\ ~ShrunkBelowHalf(Cardinality(next), Cardinality(prev))
      /\ ~FactsLost(was.recs, was.facts, was.alFacts, doc)
  BY DEF Accepted, Refuses, RefusesOver
<1>5. CacheUsable(mapCache'.recs)
  BY <1>1, <1>3, <1>4, CoveredMap DEF MapTypeOK
<1>6. Half(prev, next)
  BY <1>2, <1>4, FS_CardinalityType DEF ShrunkBelowHalf, Half
<1>7. Survives(OnRadarr(prev), OnRadarr(next)) /\ Survives(OnSonarr(prev), OnSonarr(next))
  <2>1. /\ IsFiniteSet(OnRadarr(prev)) /\ IsFiniteSet(OnRadarr(next))
        /\ IsFiniteSet(OnSonarr(prev)) /\ IsFiniteSet(OnSonarr(next))
    BY <1>2, FS_Subset DEF OnRadarr, OnSonarr
  <2> QED BY <1>4, <2>1, PopulationKept DEF RoutesLost
<1>8. ASSUME NEW noun \in FactNouns
      PROVE  Survives(Carriers(was.facts, noun), kept(noun))
  <2>1. IsFiniteSet(Carriers(was.facts, noun))
    BY <1>1, FS_Subset DEF CacheTypeOK, MapTypeOK, Carriers
  <2>2. IsFiniteSet(kept(noun))
    BY <2>1, FS_Subset
  <2>3. ~PopulationLost(Cardinality(Carriers(was.facts, noun)), Cardinality(kept(noun)),
                        CoverageFloor(Cardinality(prev)))
    BY <1>4 DEF FactsLost
  <2> QED BY <2>1, <2>2, <2>3, PopulationKept
<1> QED BY <1>5, <1>6, <1>7, <1>8

LEMMA LoaderStepKeeps ==
  CachesInv /\ [LoaderNext]_loaderVars =>
    (mapOutcome' # "boot" /\ MapOf(mapCache') # MapOf(mapCache) => KeepsMap)
<1> SUFFICES ASSUME CachesInv, [LoaderNext]_loaderVars, mapOutcome' # "boot", MapOf(mapCache') # MapOf(mapCache)
             PROVE  KeepsMap
  OBVIOUS
<1>1. CASE Load
  BY <1>1, LoadStep, KeptKeeps, AcceptedKeeps
<1>2. CASE Age
  <2>1. MapOf(mapCache') = MapOf(mapCache)
    BY <1>2 DEF Age, CachesInv, CacheInv, CacheTypeOK, MapOf
  <2> QED BY <2>1
<1>3. CASE SaveMap \/ RestartLoader \/ Settle \/ (\E tag \in Tags : PublishRelease(tag)) \/ UNCHANGED loaderVars
  BY <1>3 DEF SaveMap, RestartLoader, Settle, PublishRelease, loaderVars
<1> QED BY <1>1, <1>2, <1>3 DEF LoaderNext

(* However the releases change, no load loses the films, the series or an      *)
(* episode fact of a usable map, or half of it.                                *)
THEOREM KeepsItsMap == LoaderSpec => LoaderKeepsMap
<1>1. CachesInv /\ [LoaderNext]_loaderVars =>
        [mapOutcome' # "boot" /\ MapOf(mapCache') # MapOf(mapCache) => KeepsMap]_loaderVars
  BY LoaderStepKeeps
<1> QED BY <1>1, CachesBegin, CachesStep, PTL DEF LoaderSpec, LoaderKeepsMap

------------------------------------------------------------------------------
(* The index a Load serves                                                     *)

\* Siblings by count are siblings by record, where no override adds or takes one.
LEMMA SiblingsAgree ==
  ASSUME NEW cache, CacheTypeOK(cache), NEW overrides,
         NEW r \in NewIndex(cache, overrides).records, SonarrRoute(r),
         \A x \in NewIndex(cache, overrides).records \cup NewIndex(cache, overrides).scoped :
           x.tvdb = r.tvdb => x.al \notin NewIndex(cache, overrides).pinned
  PROVE  SiblingSeasons(NewIndex(cache, overrides), r) = OtherSeasons(NewIndex(cache, overrides), r)
<1> DEFINE arrived == Effective(cache.recs)
           idx == NewIndex(cache, overrides)
           scope == {y \in idx.scoped : y.tvdb = r.tvdb}
           holders(s) == {x \in idx.scoped : x.tvdb = r.tvdb /\ x.season = s}
<1>1. /\ arrived \subseteq MapRecord
      /\ \A x, y \in arrived : x.al = y.al => x = y
  BY EffectiveOne DEF CacheTypeOK, MapTypeOK
<1>2. /\ idx.records = {x \in arrived : x.al \notin {o.al : o \in overrides}} \cup overrides
      /\ idx.scoped = {x \in arrived : SonarrRoute(x) /\ HasMappedSeason(x)}
      /\ idx.pinned = {o.al : o \in overrides}
  BY DEF NewIndex
<1>3. r \in arrived
  BY <1>2
<1>4. scope = {y \in idx.records : y.tvdb = r.tvdb /\ HasMappedSeason(y)}
  <2>1. ASSUME NEW y \in scope PROVE y \in idx.records /\ y.tvdb = r.tvdb /\ HasMappedSeason(y)
    BY <1>2, <2>1
  <2>2. ASSUME NEW y \in idx.records, y.tvdb = r.tvdb, HasMappedSeason(y) PROVE y \in scope
    <3>1. y \in arrived
      BY <1>2, <2>2
    <3>2. SonarrRoute(y)
      BY <2>2 DEF SonarrRoute
    <3> QED BY <1>2, <2>2, <3>1, <3>2
  <2> QED BY <2>1, <2>2
<1>5. /\ SiblingSeasons(idx, r) = {s \in {x.season : x \in scope} : ~(s = r.season /\ Cardinality(holders(s)) = 1)}
      /\ OtherSeasons(idx, r) = {x.season : x \in {y \in scope : y.al # r.al}}
  <2>1. SiblingSeasons(idx, r) = {s \in {x.season : x \in scope} : ~(s = r.season /\ Cardinality(holders(s)) = 1)}
    BY DEF SiblingSeasons
  <2>2. {y \in scope : y.al # r.al}
          = {y \in idx.records : y.al # r.al /\ y.tvdb = r.tvdb /\ HasMappedSeason(y)}
    BY <1>4
  <2> QED BY <2>1, <2>2 DEF OtherSeasons
<1>6. ASSUME NEW x \in scope, x.al # r.al
      PROVE  ~(x.season = r.season /\ Cardinality(holders(x.season)) = 1)
  <2> SUFFICES ASSUME x.season = r.season PROVE Cardinality(holders(x.season)) # 1
    OBVIOUS
  <2>1. x \in arrived /\ HasMappedSeason(x)
    BY <1>2
  <2>2. r \in holders(x.season) /\ x \in holders(x.season)
    BY <1>2, <1>3, <2>1 DEF HasMappedSeason
  <2>3. IsFiniteSet(holders(x.season))
    BY <1>2, EffectiveFinite, FS_Subset DEF CacheTypeOK, MapTypeOK
  <2> QED BY <1>6, <2>2, <2>3, FS_Singleton
<1>7. ASSUME NEW x \in scope, ~(x.season = r.season /\ Cardinality(holders(x.season)) = 1)
      PROVE  \E y \in scope : y.al # r.al /\ y.season = x.season
  <2>1. CASE x.al # r.al
    BY <2>1
  <2>2. CASE x.al = r.al
    <3>1. x = r
      BY <1>1, <1>2, <1>3, <2>2
    <3>2. holders(r.season) # {r}
      BY <1>7, <3>1, FS_Singleton
    <3>3. r \in holders(r.season)
      BY <1>2, <3>1
    <3>4. PICK y \in holders(r.season) : y # r
      BY <3>2, <3>3
    <3>5. y \in arrived /\ y \in scope /\ y.season = x.season
      BY <1>2, <3>1
    <3> QED BY <1>1, <1>3, <3>4, <3>5
  <2> QED BY <2>1, <2>2
<1> QED BY <1>5, <1>6, <1>7

LEMMA CachesSound == CachesInv => LoaderInv
<1> SUFFICES ASSUME CachesInv PROVE LoaderInv
  OBVIOUS
<1>1. SiblingsCounted
  BY SiblingsAgree DEF SiblingsCounted, Served, CachesInv, CacheInv
<1> QED BY <1>1 DEF CachesInv, CacheInv, LoaderInv, LoaderTypeOK

(* What the loader keeps set aside it still refuses, and an index it serves    *)
(* counts the sibling seasons of a series no override touches right.           *)
THEOREM LoaderSound == LoaderSpec => []LoaderInv
BY CachesBegin, CachesStep, CachesSound, PTL DEF LoaderSpec

------------------------------------------------------------------------------
(* A walk of a library.                                                        *)

USE WalkAssumption

Steps == {"unfed", "files", "episodes", "nothing"} \cup Results
WalkTypeOK ==
  /\ walkAt \in {"list", "tags", "fan", "radarr", "publish", "snapshot", "failed"}
  /\ walkStep \in [Kept -> Steps]
  /\ walkStop \in {"none", "budget", "changed", "shutdown"}
  /\ walkFailed \in Nat
  /\ walkMissed \in BOOLEAN /\ walkLive \in BOOLEAN /\ walkChanged \in BOOLEAN
  /\ walkOrders \in [nonAired : SUBSET Series, aired : SUBSET Series, clean : BOOLEAN]

Placeholders == {s \in Kept : walkStep[s] = "placeholder"}
Lost(s) == walkStep[s] = "nothing"
Short(s) == walkStep[s] \in {"item", "placeholder"}

\* Before the fan-out nothing was read; a series is lost only once it stopped.
FanBegins == walkAt \in {"list", "tags"} =>
  walkStop = "none" /\ ~walkMissed /\ \A s \in Kept : walkStep[s] = "unfed"
LossStops == (\E s \in Kept : Lost(s)) => ~FanLive
CauseTrue == /\ walkStop = "budget" => walkFailed >= FailureBudget
             /\ walkStop = "shutdown" => ~walkLive
FailuresCounted == walkFailed = Cardinality(Placeholders)
MissesKnown == /\ \A s \in Kept : Short(s) => walkMissed
               /\ walkMissed => \E s \in Kept : Short(s) \/ Lost(s)
\* After it, every series has its result, not all of them placeholders.
FanJoined == walkAt \in {"radarr", "publish", "snapshot"} =>
  /\ walkStop = "none" /\ \A s \in Kept : walkStep[s] \in Results
  /\ Kept # {} => walkFailed # Cardinality(Kept)
OrdersWhole ==
  /\ walkAt \notin {"list", "failed"} => walkOrders.nonAired \cup walkOrders.aired = Series
  /\ walkOrders.clean => walkAt = "snapshot"
  /\ walkAt = "snapshot" => (walkOrders.clean <=> ~walkMissed)

\* What every step of a walk preserves.
WalkInv == /\ WalkTypeOK /\ FanBegins /\ LossStops /\ CauseTrue /\ FailuresCounted
           /\ MissesKnown /\ FanJoined /\ OrdersWhole

\* The list is finite, so the series kept, and the placeholders among them, can be counted.
LEMMA KeptFinite == IsFiniteSet(Kept) /\ \A T \in SUBSET Kept : IsFiniteSet(T)
<1>1. IsFiniteSet(Kept)
  BY FS_Difference DEF Kept
<1> QED BY <1>1, FS_Subset

\* A walk starts with nothing read.
LEMMA WalkBegins == WalkInit => WalkInv
<1> SUFFICES ASSUME WalkInit PROVE WalkInv
  OBVIOUS
<1>1. Placeholders = {}
  BY DEF WalkInit, Placeholders
<1>2. FailuresCounted
  BY <1>1, FS_EmptySet DEF WalkInit, FailuresCounted
<1> QED BY <1>2 DEF WalkInit, WalkInv, WalkTypeOK, FanBegins, LossStops, CauseTrue, MissesKnown,
             FanJoined, OrdersWhole, NoOrders, Steps, Lost, Short, FanLive

\* A goroutine's step: one series moves on, and only a placeholder is counted.
LEMMA SeriesStep ==
  ASSUME WalkInv, NEW s \in Kept,
         \/ SkipSeries(s) \/ FilesRead(s) \/ FilesFailed(s) \/ FilesOfOther(s)
         \/ EpisodesRead(s) \/ EpisodesFailed(s)
  PROVE  WalkInv'
<1> USE DEF Lost, Short, Steps, Results
<1>1. walkStep[s] \in {"files", "episodes"} /\ walkStep \in [Kept -> Steps] /\ walkAt \in {"fan", "failed"}
  BY DEF WalkInv, WalkTypeOK, FanBegins, FanJoined, SkipSeries, FilesRead, FilesFailed, FilesOfOther,
         EpisodesRead, EpisodesFailed
<1>2. UNCHANGED <<walkAt, walkOrders, walkLive, walkChanged>>
  BY DEF SkipSeries, FilesRead, FilesFailed, FilesOfOther, EpisodesRead, EpisodesFailed
<1>3. PICK fate \in Steps \ {"unfed"} : walkStep' = [walkStep EXCEPT ![s] = fate]
  BY DEF SkipSeries, FilesRead, FilesFailed, FilesOfOther, EpisodesRead, EpisodesFailed, Ends
<1>4. s \notin Placeholders /\ walkStep'[s] = fate
  BY <1>1, <1>3 DEF Placeholders
<1>5. Placeholders' = IF fate = "placeholder" THEN Placeholders \cup {s} ELSE Placeholders
  BY <1>1, <1>3, <1>4 DEF Placeholders
<1>6. FailuresCounted'
  <2>1. walkFailed' = IF fate = "placeholder" THEN walkFailed + 1 ELSE walkFailed
    BY <1>1, <1>3, <1>4 DEF SkipSeries, FilesRead, FilesFailed, FilesOfOther, EpisodesRead, EpisodesFailed, Ends
  <2>2. Placeholders \in SUBSET Kept
    BY DEF Placeholders
  <2> QED BY <2>1, <2>2, <1>4, <1>5, KeptFinite, FS_AddElement DEF WalkInv, FailuresCounted
<1>7. /\ walkStop' \in {"none", "budget", "changed", "shutdown"}
      /\ walkFailed' \in Nat /\ walkFailed' >= walkFailed /\ walkMissed' \in BOOLEAN
  <2> USE DEF WalkInv, WalkTypeOK, FanCause, Stops
  <2>1. CASE SkipSeries(s) \/ FilesRead(s) \/ EpisodesRead(s)
    BY <2>1 DEF SkipSeries, FilesRead, EpisodesRead
  <2>2. CASE FilesFailed(s)
    BY <2>2 DEF FilesFailed
  <2>3. CASE FilesOfOther(s)
    BY <2>3 DEF FilesOfOther
  <2>4. CASE EpisodesFailed(s)
    BY <2>4 DEF EpisodesFailed
  <2> QED BY <2>1, <2>2, <2>3, <2>4
<1>8. WalkTypeOK'
  BY <1>1, <1>2, <1>3, <1>7 DEF WalkInv, WalkTypeOK
<1>9. LossStops'
  <2>1. ~FanLive => ~FanLive'
    BY <1>2 DEF FanLive, SkipSeries, FilesRead, FilesFailed, FilesOfOther, EpisodesRead, EpisodesFailed,
                Stops, FanCause
  <2>2. fate = "nothing" => ~FanLive'
    BY <1>1, <1>2, <1>3, <1>4, <2>1 DEF FanLive, SkipSeries, FilesRead, FilesFailed, FilesOfOther,
       EpisodesRead, EpisodesFailed, Ends, Stops, FanCause
  <2> QED BY <1>1, <1>3, <2>1, <2>2 DEF WalkInv, LossStops
<1>10. CauseTrue'
  BY <1>2, <1>7 DEF WalkInv, WalkTypeOK, CauseTrue, SkipSeries, FilesRead, FilesFailed, FilesOfOther,
         EpisodesRead, EpisodesFailed, Stops, FanCause, FanLive
<1>11. MissesKnown'
  <2>1. walkMissed => walkMissed'
    BY DEF SkipSeries, FilesRead, FilesFailed, FilesOfOther, EpisodesRead, EpisodesFailed
  <2>2. fate \in {"item", "placeholder"} => walkMissed'
    BY <1>1, <1>3, <1>4 DEF SkipSeries, FilesRead, FilesFailed, FilesOfOther, EpisodesRead, EpisodesFailed, Ends
  <2>3. walkMissed' => walkMissed \/ fate \in {"item", "placeholder", "nothing"}
    BY <1>1, <1>3, <1>4 DEF SkipSeries, FilesRead, FilesFailed, FilesOfOther, EpisodesRead, EpisodesFailed, Ends
  <2> QED BY <1>1, <1>3, <1>4, <2>1, <2>2, <2>3 DEF WalkInv, MissesKnown
<1>12. FanBegins' /\ FanJoined' /\ OrdersWhole'
  BY <1>1, <1>2 DEF WalkInv, FanBegins, FanJoined, OrdersWhole
<1> QED BY <1>6, <1>8, <1>9, <1>10, <1>11, <1>12 DEF WalkInv

\* A fan-out that ended without an error read every series, with some success.
LEMMA JoinStep == WalkInv /\ JoinFan => WalkInv'
<1> SUFFICES ASSUME WalkInv, JoinFan PROVE WalkInv'
  OBVIOUS
<1> USE DEF Lost, Short, Steps, Results, fanVars
<1>1. UNCHANGED <<walkStep, walkStop, walkFailed, walkMissed, walkOrders, walkLive, walkChanged>>
  BY DEF JoinFan, Fails, MovesTo
<1>2. Placeholders' = Placeholders
  BY <1>1 DEF Placeholders
<1>3. CASE walkAt' = "failed"
  BY <1>1, <1>2, <1>3 DEF JoinFan, FanDone, WalkInv, WalkTypeOK, FanBegins, LossStops, CauseTrue, FailuresCounted, MissesKnown,
     FanJoined, OrdersWhole, FanLive
<1>4. CASE walkAt' = "radarr" /\ ~FetchError /\ FanCause # "changed"
  <2>1. walkStop = "none" /\ walkLive
    BY <1>4 DEF WalkInv, WalkTypeOK, CauseTrue, FetchError, FanCause
  <2>2. \A s \in Kept : walkStep[s] \in Results
    BY <2>1 DEF JoinFan, FanDone, FanLive, Running, Unfed, WalkInv, WalkTypeOK, LossStops
  <2>3. Kept # {} => walkFailed # Cardinality(Kept)
    BY <1>4 DEF FetchError
  <2>4. FanJoined'
    BY <1>1, <2>1, <2>2, <2>3 DEF FanJoined, Kept
  <2> QED BY <1>1, <1>2, <1>4, <2>4 DEF JoinFan, FanDone, WalkInv, WalkTypeOK, FanBegins, LossStops, CauseTrue, FailuresCounted,
             MissesKnown, OrdersWhole, FanLive
<1> QED BY <1>3, <1>4 DEF JoinFan, Fails, MovesTo

\* The steps that leave the fan-out as it is, and the one that feeds it.
LEMMA OtherStep ==
  ASSUME WalkInv,
         \/ ListSonarr \/ ResolveTags \/ FeedSeries \/ WalkRadarr \/ PublishSnapshot
         \/ Cancel \/ Upgrade \/ UNCHANGED walkVars
  PROVE  WalkInv'
<1> USE DEF Lost, Short, Steps, Results, fanVars, walkVars
<1>1. CASE FeedSeries
  <2>1. PICK s \in Kept : walkStep[s] = "unfed" /\ walkStep' = [walkStep EXCEPT ![s] = "files"]
    BY <1>1 DEF FeedSeries, Unfed
  <2>2. Placeholders' = Placeholders
    BY <2>1 DEF Placeholders, WalkInv, WalkTypeOK
  <2>3. walkAt = "fan" /\ UNCHANGED <<walkAt, walkStop, walkFailed, walkMissed, walkOrders, walkLive, walkChanged>>
    BY <1>1 DEF FeedSeries
  <2> QED BY <2>1, <2>2, <2>3 DEF WalkInv, WalkTypeOK, FanBegins, LossStops, CauseTrue, FailuresCounted, MissesKnown,
             FanJoined, OrdersWhole, FanLive
<1>2. ASSUME UNCHANGED <<walkStep, walkStop, walkFailed, walkMissed>>
      PROVE  /\ Placeholders' = Placeholders
             /\ (walkLive' => walkLive) => LossStops' /\ CauseTrue' /\ FailuresCounted' /\ MissesKnown'
  BY <1>2 DEF Placeholders, WalkInv, LossStops, CauseTrue, FailuresCounted, MissesKnown, FanLive
<1>3. CASE ListSonarr
  <2>1. walkAt = "list" /\ UNCHANGED <<walkStep, walkStop, walkFailed, walkMissed, walkLive, walkChanged>>
    BY <1>3 DEF ListSonarr, Fails
  <2>2. \/ walkAt' = "failed" /\ walkOrders' = walkOrders
        \/ walkAt' \in {"fan", "tags"} /\ walkOrders' = ListedOrders
    BY <1>3 DEF ListSonarr, Fails
  <2>3. LossStops' /\ CauseTrue' /\ FailuresCounted' /\ MissesKnown'
    BY <1>2, <2>1
  <2>4. ~walkOrders.clean
    BY <2>1 DEF WalkInv, OrdersWhole
  <2>5. /\ ListedOrders \in [nonAired : SUBSET Series, aired : SUBSET Series, clean : BOOLEAN]
        /\ ListedOrders.nonAired \cup ListedOrders.aired = Series /\ ~ListedOrders.clean
    BY DEF ListedOrders
  <2>6. WalkTypeOK' /\ FanBegins' /\ FanJoined'
    BY <2>1, <2>2, <2>5 DEF WalkInv, WalkTypeOK, FanBegins, FanJoined
  <2>7. OrdersWhole'
    BY <2>2, <2>4, <2>5 DEF OrdersWhole
  <2> QED BY <2>3, <2>6, <2>7 DEF WalkInv
<1>4. CASE ResolveTags \/ WalkRadarr
  BY <1>2, <1>4 DEF ResolveTags, WalkRadarr, Fails, MovesTo, WalkInv, WalkTypeOK, FanBegins, FanJoined, OrdersWhole
<1>5. CASE PublishSnapshot
  <2>1. walkAt = "publish" /\ UNCHANGED <<walkStep, walkStop, walkFailed, walkMissed, walkLive, walkChanged>>
    BY <1>5 DEF PublishSnapshot, Fails
  <2>2. \/ walkAt' = "failed" /\ walkOrders' = walkOrders
        \/ walkAt' = "snapshot" /\ walkOrders' = [walkOrders EXCEPT !.clean = ~walkMissed]
    BY <1>5 DEF PublishSnapshot, Fails
  <2>3. LossStops' /\ CauseTrue' /\ FailuresCounted' /\ MissesKnown'
    BY <1>2, <2>1
  <2>4. WalkTypeOK' /\ FanBegins' /\ FanJoined'
    BY <2>1, <2>2 DEF WalkInv, WalkTypeOK, FanBegins, FanJoined
  <2>5. OrdersWhole'
    BY <2>1, <2>2 DEF WalkInv, WalkTypeOK, OrdersWhole
  <2> QED BY <2>3, <2>4, <2>5 DEF WalkInv
<1>6. CASE Cancel \/ Upgrade \/ UNCHANGED walkVars
  <2>1. /\ UNCHANGED <<walkAt, walkStep, walkStop, walkFailed, walkMissed, walkOrders>>
        /\ walkLive' = walkLive \/ walkLive' = FALSE
        /\ walkChanged' = walkChanged \/ walkChanged' = TRUE
    BY <1>6 DEF Cancel, Upgrade
  <2>2. LossStops' /\ CauseTrue' /\ FailuresCounted' /\ MissesKnown'
    BY <1>2, <2>1
  <2>3. WalkTypeOK' /\ FanBegins' /\ FanJoined' /\ OrdersWhole'
    BY <2>1 DEF WalkInv, WalkTypeOK, FanBegins, FanJoined, OrdersWhole
  <2> QED BY <2>2, <2>3 DEF WalkInv
<1> QED BY <1>1, <1>3, <1>4, <1>5, <1>6

\* Every step of a walk preserves the invariant.
LEMMA WalkStep == WalkInv /\ [WalkNext]_walkVars => WalkInv'
BY SeriesStep, JoinStep, OtherStep DEF WalkNext, Walk, FetchSeries

\* The invariant says that what is published is whole.
LEMMA InvIsWhole == WalkInv => WalkWhole
<1> SUFFICES ASSUME WalkInv PROVE WalkWhole
  OBVIOUS
<1> USE DEF Lost, Short, Steps, Results
<1>1. Placeholders \in SUBSET Kept /\ IsFiniteSet(Placeholders) /\ walkFailed = Cardinality(Placeholders)
  BY KeptFinite DEF Placeholders, WalkInv, FailuresCounted
<1>2. Partial <=> Placeholders # {}
  BY <1>1, FS_EmptySet DEF Partial, WalkInv, WalkTypeOK
<1>3. ASSUME walkAt = "snapshot"
      PROVE  /\ Items = Kept /\ FanCause # "changed"
             /\ Kept # {} => \E s \in Kept : walkStep[s] # "placeholder"
             /\ walkOrders.clean <=> \A s \in Kept : walkStep[s] = "listed"
  <2>1. walkStop = "none" /\ \A s \in Kept : walkStep[s] \in Results
    BY <1>3 DEF WalkInv, FanJoined
  <2>2. Kept # {} => Placeholders # Kept
    BY <1>1, <1>3 DEF WalkInv, FanJoined
  <2>3. walkOrders.clean <=> \A s \in Kept : ~Short(s)
    BY <1>3, <2>1 DEF WalkInv, OrdersWhole, MissesKnown
  <2> QED BY <2>1, <2>2, <2>3 DEF Items, FanCause, Placeholders
<1>4. walkAt \in {"radarr", "publish", "snapshot"} => Running = {}
  BY DEF WalkInv, FanJoined, Running
<1>5. walkOrders.clean => walkAt = "snapshot" /\ walkOrders.nonAired \cup walkOrders.aired = Series
  BY DEF WalkInv, OrdersWhole
<1> QED BY <1>1, <1>2, <1>3, <1>4, <1>5 DEF WalkWhole, Placeholders

(* No walk publishes a snapshot without a series the list kept, or releases an *)
(* episode order on a read that failed (WalkWhole).                            *)
THEOREM WalksWhole == WalkSpec => []WalkWhole
<1>1. WalkSpec => []WalkInv
  BY WalkBegins, WalkStep, PTL DEF WalkSpec
<1> QED BY <1>1, InvIsWhole, PTL

------------------------------------------------------------------------------
(* A walk of the SeaDex collection.                                            *)

\* Records are ordered by their cursors.
LEMMA PastIs ==
  /\ \A r \in Record : {r.created, r.id, r.al, r.weight} \subseteq Nat
  /\ \A r \in Record : ~Past(r, r)
  /\ \A r, q \in Record : Past(r, q) => ~Past(q, r)
  /\ \A r, q, p \in Record : Past(r, q) /\ Past(q, p) => Past(r, p)
  /\ \A r, q \in Record : <<r.created, r.id>> # <<q.created, q.id>> => Past(r, q) \/ Past(q, r)
<1>1. \A r \in Record : {r.created, r.id, r.al, r.weight} \subseteq Nat
  BY FetchAssumption
<1> QED BY <1>1 DEF Past

\* No two of them share an id or a cursor.
Distinct(rs) == \A r, q \in rs : r # q => r.al # q.al /\ <<r.created, r.id>> # <<q.created, q.id>>

\* Sorted lists each record once, each past the one before.
LEMMA SortedIs ==
  ASSUME NEW rs \in SUBSET Record, Distinct(rs)
  PROVE  /\ Cardinality(rs) \in Nat /\ Sorted(rs) \in [1..Cardinality(rs) -> rs]
         /\ \A i, j \in 1..Cardinality(rs) : i < j => Past(Sorted(rs)[j], Sorted(rs)[i])
         /\ \A r \in rs : \E i \in 1..Cardinality(rs) : Sorted(rs)[i] = r
<1> DEFINE n == Cardinality(rs)
           Below(r) == {q \in rs : Past(r, q)}
<1>1. IsFiniteSet(rs) /\ n \in Nat
  BY FetchAssumption, FS_Subset, FS_CardinalityType
<1>2. \A r \in rs : IsFiniteSet(Below(r)) /\ Cardinality(Below(r)) \in Nat
  BY <1>1, FS_Subset, FS_CardinalityType
<1>3. \A r \in rs : Place(rs, r) = Cardinality(Below(r)) + 1
  BY DEF Place
<1>4. ASSUME NEW r \in rs, NEW q \in rs, Past(r, q)
      PROVE  Place(rs, q) < Place(rs, r)
  <2>1. Below(q) \subseteq Below(r)
    BY <1>4, PastIs
  <2>2. q \in Below(r) /\ q \notin Below(q)
    BY <1>4, PastIs
  <2> HIDE DEF Below
  <2>3. Cardinality(Below(q)) <= Cardinality(Below(r)) /\ Cardinality(Below(q)) # Cardinality(Below(r))
    BY <1>2, <2>1, <2>2, FS_Subset
  <2> QED BY <1>2, <1>3, <2>3
<1>5. \A r \in rs : Place(rs, r) \in 1..n
  <2> SUFFICES ASSUME NEW r \in rs PROVE Place(rs, r) \in 1..n
    OBVIOUS
  <2>1. Below(r) \subseteq rs /\ Below(r) # rs
    BY PastIs
  <2> HIDE DEF Below
  <2>2. Cardinality(Below(r)) <= n /\ Cardinality(Below(r)) # n
    BY <1>1, <2>1, FS_Subset
  <2> QED BY <1>1, <1>2, <1>3, <2>2
<1>6. \A r, q \in rs : r # q => Place(rs, r) # Place(rs, q)
  <2> SUFFICES ASSUME NEW r \in rs, NEW q \in rs, r # q PROVE Place(rs, r) # Place(rs, q)
    OBVIOUS
  <2>1. Past(r, q) \/ Past(q, r)
    BY PastIs DEF Distinct
  <2> QED BY <1>4, <1>5, <2>1
<1> DEFINE place == [r \in rs |-> Place(rs, r)]
<1>7. place \in Injection(rs, 1..n)
  BY <1>5, <1>6 DEF Injection, IsInjective
<1>8. place \in Surjection(rs, 1..n)
  <2>1. IsFiniteSet(1..n) /\ Cardinality(1..n) = n
    BY <1>1, FS_Interval
  <2> HIDE DEF place
  <2> QED BY <1>7, <2>1, FS_Injection
<1>9. \A i \in 1..n : \E r \in rs : Place(rs, r) = i
  BY <1>8 DEF Surjection
<1>10. \A i \in 1..n : Sorted(rs)[i] \in rs /\ Place(rs, Sorted(rs)[i]) = i
  BY <1>9 DEF Sorted
<1>11. ASSUME NEW i \in 1..n, NEW j \in 1..n, i < j
       PROVE  Past(Sorted(rs)[j], Sorted(rs)[i])
  <2>1. Sorted(rs)[i] # Sorted(rs)[j]
    BY <1>10, <1>11
  <2>2. Past(Sorted(rs)[j], Sorted(rs)[i]) \/ Past(Sorted(rs)[i], Sorted(rs)[j])
    BY <1>10, <2>1, PastIs DEF Distinct
  <2>3. Past(Sorted(rs)[i], Sorted(rs)[j]) => j < i
    BY <1>4, <1>10
  <2> QED BY <1>11, <2>2, <2>3
<1>12. \A r \in rs : Sorted(rs)[Place(rs, r)] = r
  BY <1>5, <1>6, <1>10
<1>13. Sorted(rs) \in [1..n -> rs]
  BY <1>10 DEF Sorted
<1> QED BY <1>1, <1>5, <1>11, <1>12, <1>13


\* The sum of the weights exists, and follows the sequence.
LEMMA SumIs ==
  ASSUME NEW rows \in Seq(Record)
  PROVE  \E sum \in [0..Len(rows) -> Nat] :
           /\ sum[0] = 0 /\ \A i \in 1..Len(rows) : sum[i] = rows[i].weight + sum[i - 1]
           /\ Weight(rows) = sum[Len(rows)]
<1> DEFINE n == Len(rows)
           Step(f, i) == IF i = 0 THEN 0 ELSE rows[i].weight + f[i - 1]
           Sums(k, f) == \A i \in 0..k : f[i] = Step(f, i)
           Summed == {k \in 0..n : \E f \in [0..k -> Nat] : Sums(k, f)}
<1>1. n \in Nat /\ \A i \in 1..n : rows[i].weight \in Nat
  BY PastIs, LenProperties
<1>2. 0 \in Summed
  <2> DEFINE z == [i \in 0..0 |-> 0]
  <2>1. z \in [0..0 -> Nat] /\ \A i \in 0..0 : i = 0 /\ z[i] = 0
    OBVIOUS
  <2> HIDE DEF z
  <2>2. Sums(0, z)
    BY <2>1
  <2>3. 0 \in 0..n
    BY <1>1
  <2> QED BY <2>1, <2>2, <2>3
<1>3. ASSUME NEW k \in 1..n, k - 1 \in Summed PROVE k \in Summed
  <2>1. PICK f \in [0..k - 1 -> Nat] : Sums(k - 1, f)
    BY <1>3
  <2> DEFINE g == [i \in 0..k |-> IF i = k THEN rows[k].weight + f[k - 1] ELSE f[i]]
  <2>2. /\ k - 1 \in 0..k - 1 /\ k \in 0..n /\ k # 0
        /\ \A i \in 0..k : i # k => i \in 0..k - 1
        /\ \A i \in 0..k : i # 0 => i - 1 \in 0..k - 1 /\ i - 1 \in 0..k /\ i - 1 # k
    BY <1>1
  <2>3. g \in [0..k -> Nat]
    BY <1>1, <2>2
  <2>4. g[k] = rows[k].weight + f[k - 1] /\ \A i \in 0..k - 1 : g[i] = f[i]
    BY <1>1
  <2> HIDE DEF g
  <2>5. ASSUME NEW i \in 0..k PROVE g[i] = Step(g, i)
    <3>1. CASE i = k
      BY <2>2, <2>4, <3>1
    <3>2. CASE i # k
      <4>1. i \in 0..k - 1 /\ g[i] = f[i]
        BY <2>2, <2>4, <3>2
      <4>2. f[i] = Step(f, i)
        BY <2>1, <4>1
      <4>3. i # 0 => g[i - 1] = f[i - 1]
        BY <2>2, <2>4
      <4> QED BY <4>1, <4>2, <4>3
    <3> QED BY <3>1, <3>2
  <2>6. Sums(k, g)
    BY <2>5
  <2> QED BY <2>2, <2>3, <2>6
<1>4. n \in Summed
  <2>1. \A k \in 1..n : k - 1 \in Summed => k \in Summed
    BY <1>3
  <2> HIDE DEF Summed, n
  <2>2. \A k \in 0..n : k \in Summed
    BY <1>1, <1>2, <2>1, Climb
  <2> QED BY <1>1, <2>2
<1>5. PICK f \in [0..n -> Nat] : Sums(n, f)
  BY <1>4
<1>6. f = [i \in 0..n |-> Step(f, i)]
  BY <1>5
<1> DEFINE Recursive(h) == h = [i \in 0..n |-> Step(h, i)]
           sum == CHOOSE h : Recursive(h)
<1>7. Recursive(sum)
  <2>1. Recursive(f)
    BY <1>6
  <2> HIDE DEF Recursive
  <2> QED BY <2>1
<1>8. Weight(rows) = sum[n]
  BY Zenon DEF Weight
<1> HIDE DEF sum
<1>9. /\ \A i \in 0..n : sum[i] = Step(sum, i)
      /\ sum = [i \in 0..n |-> sum[i]]
  BY <1>7
<1>10. \A i \in 0..n : sum[i] \in Nat
  <2> DEFINE Good == {k \in 0..n : sum[k] \in Nat}
  <2>1. 0 \in Good
    BY <1>1, <1>9
  <2>2. ASSUME NEW k \in 1..n, k - 1 \in Good PROVE k \in Good
    <3>1. k \in 0..n /\ k # 0 /\ sum[k - 1] \in Nat /\ rows[k].weight \in Nat
      BY <1>1, <2>2
    <3>2. sum[k] = rows[k].weight + sum[k - 1]
      BY <1>9, <3>1
    <3> QED BY <3>1, <3>2
  <2>3. \A k \in 1..n : k - 1 \in Good => k \in Good
    BY <2>2
  <2>4. \A k \in 0..n : k \in Good
    <3> HIDE DEF Good, n
    <3> QED BY <1>1, <2>1, <2>3, Climb
  <2> QED BY <2>4
<1>11. sum \in [0..n -> Nat]
  BY <1>9, <1>10
<1>12. sum[0] = 0 /\ \A i \in 1..n : sum[i] = rows[i].weight + sum[i - 1]
  <2>1. 0 \in 0..n /\ \A i \in 1..n : i \in 0..n /\ i # 0
    BY <1>1
  <2> QED BY <1>9, <2>1
<1> QED BY <1>8, <1>11, <1>12

\* Pages weigh together what they weigh apart.
LEMMA WeightAdds ==
  ASSUME NEW rows \in Seq(Record), NEW more \in Seq(Record)
  PROVE  /\ Weight(rows) \in Nat /\ Weight(more) \in Nat
         /\ Weight(rows \o more) = Weight(rows) + Weight(more)
<1> DEFINE n == Len(rows)
           m == Len(more)
           both == rows \o more
<1>1. n \in Nat /\ m \in Nat /\ \A i \in 1..m : more[i].weight \in Nat
  BY PastIs, LenProperties
<1>2. /\ both \in Seq(Record) /\ Len(both) = n + m
      /\ \A i \in 1..n : both[i] = rows[i]
      /\ \A i \in 1..m : both[n + i] = more[i]
  BY <1>1, ConcatProperties
<1>3. PICK a \in [0..n -> Nat] : /\ a[0] = 0 /\ \A i \in 1..n : a[i] = rows[i].weight + a[i - 1]
                                 /\ Weight(rows) = a[n]
  BY SumIs
<1>4. PICK b \in [0..m -> Nat] : /\ b[0] = 0 /\ \A i \in 1..m : b[i] = more[i].weight + b[i - 1]
                                 /\ Weight(more) = b[m]
  BY SumIs
<1> HIDE DEF both
<1>5. PICK c \in [0..n + m -> Nat] :
        /\ c[0] = 0 /\ \A i \in 1..n + m : c[i] = both[i].weight + c[i - 1]
        /\ Weight(both) = c[n + m]
  BY <1>2, SumIs
<1> HIDE DEF n, m
<1>6. c[n] = a[n]
  <2> DEFINE Same == {k \in 0..n : c[k] = a[k]}
  <2>1. 0 \in Same
    BY <1>1, <1>3, <1>5
  <2>2. ASSUME NEW k \in 1..n, k - 1 \in Same PROVE k \in Same
    <3>1. k \in 0..n /\ k \in 1..n + m /\ c[k - 1] = a[k - 1]
      BY <1>1, <2>2
    <3>2. c[k] = rows[k].weight + c[k - 1]
      BY <1>2, <1>5, <3>1
    <3>3. a[k] = rows[k].weight + a[k - 1]
      BY <1>3
    <3> QED BY <3>1, <3>2, <3>3
  <2>3. \A k \in 1..n : k - 1 \in Same => k \in Same
    BY <2>2
  <2>4. \A k \in 0..n : k \in Same
    <3> HIDE DEF Same
    <3> QED BY <1>1, <2>1, <2>3, Climb
  <2> QED BY <1>1, <2>4
<1>7. a[n] \in Nat /\ b[m] \in Nat /\ \A k \in 0..m : b[k] \in Nat
  <2>1. n \in 0..n /\ m \in 0..m
    BY <1>1
  <2> QED BY <1>3, <1>4, <2>1
<1>8. c[n + m] = a[n] + b[m]
  <2> DEFINE Same == {k \in 0..m : c[n + k] = a[n] + b[k]}
  <2>1. 0 \in Same
    <3>1. n + 0 = n /\ a[n] + 0 = a[n] /\ 0 \in 0..m
      BY <1>1, <1>7
    <3> QED BY <1>4, <1>6, <3>1
  <2>2. ASSUME NEW k \in 1..m, k - 1 \in Same PROVE k \in Same
    <3>1. n + k \in 1..n + m /\ (n + k) - 1 = n + (k - 1) /\ k - 1 \in 0..m /\ k \in 0..m
      BY <1>1
    <3>2. c[n + k] = more[k].weight + c[n + (k - 1)]
      BY <1>2, <1>5, <3>1
    <3>3. c[n + (k - 1)] = a[n] + b[k - 1] /\ b[k] = more[k].weight + b[k - 1]
      BY <1>4, <2>2
    <3>4. b[k - 1] \in Nat /\ more[k].weight \in Nat
      BY <1>1, <1>7, <3>1
    <3>5. more[k].weight + (a[n] + b[k - 1]) = a[n] + (more[k].weight + b[k - 1])
      BY <1>7, <3>4
    <3> QED BY <3>1, <3>2, <3>3, <3>5
  <2>3. \A k \in 1..m : k - 1 \in Same => k \in Same
    BY <2>2
  <2>4. \A k \in 0..m : k \in Same
    <3> HIDE DEF Same
    <3> QED BY <1>1, <2>1, <2>3, Climb
  <2> QED BY <1>1, <2>4
<1> QED BY <1>3, <1>4, <1>5, <1>7, <1>8 DEF both

\* The first n of a sequence are a sequence, each in its place.
LEMMA FirstAre ==
  ASSUME NEW rows \in Seq(Record), NEW n \in Nat
  PROVE  /\ FirstOf(rows, n) \in Seq(Record)
         /\ Len(FirstOf(rows, n)) = (IF n < Len(rows) THEN n ELSE Len(rows))
         /\ \A i \in 1..Len(FirstOf(rows, n)) : i \in 1..Len(rows) /\ FirstOf(rows, n)[i] = rows[i]
<1> DEFINE k == IF n < Len(rows) THEN n ELSE Len(rows)
<1>1. Len(rows) \in Nat /\ k \in Nat /\ k <= Len(rows)
  BY LenProperties
<1>2. /\ SubSeq(rows, 1, k) \in Seq(Record) /\ Len(SubSeq(rows, 1, k)) = k
      /\ \A i \in 1..k : SubSeq(rows, 1, k)[i] = rows[i]
  BY <1>1, SubSeqProperties
<1>3. \A i \in 1..k : i \in 1..Len(rows)
  BY <1>1
<1> QED BY <1>2, <1>3 DEF FirstOf

\* A page from the sorted records leaves out only what lies past its last record.
LEMMA FirstPage ==
  ASSUME NEW rs \in SUBSET Record, Distinct(rs)
  PROVE  LET rows == FirstOf(Sorted(rs), PerPage) IN
         /\ rows \in Seq(Record)
         /\ \A i, j \in 1..Len(rows) : i < j => Past(rows[j], rows[i])
         /\ \A r \in rs : r \in ToRecords(rows) \/ (Len(rows) >= PerPage /\ Past(r, rows[Len(rows)]))
<1> DEFINE n == Cardinality(rs)
           all == Sorted(rs)
           rows == FirstOf(all, PerPage)
<1>1. /\ n \in Nat /\ all \in [1..n -> rs]
      /\ \A i, j \in 1..n : i < j => Past(all[j], all[i])
      /\ \A r \in rs : \E i \in 1..n : all[i] = r
  BY SortedIs
<1>2. PerPage \in Nat /\ PerPage >= 1
  BY FetchAssumption
<1> HIDE DEF n, all
<1>3. all \in Seq(Record) /\ Len(all) = n
  <2>1. all \in Seq(rs) /\ Len(all) = n
    BY <1>1, SeqDef, LenProperties
  <2> QED BY <1>1, <2>1
<1>4. /\ rows \in Seq(Record) /\ Len(rows) = (IF PerPage < n THEN PerPage ELSE n)
      /\ \A i \in 1..Len(rows) : i \in 1..n /\ rows[i] = all[i]
  BY <1>2, <1>3, FirstAre
<1> HIDE DEF rows
<1>5. \A i, j \in 1..Len(rows) : i < j => Past(rows[j], rows[i])
  BY <1>1, <1>4
<1>6. ASSUME NEW r \in rs
      PROVE  r \in ToRecords(rows) \/ (Len(rows) >= PerPage /\ Past(r, rows[Len(rows)]))
  <2>1. PICK i \in 1..n : all[i] = r
    BY <1>1
  <2>2. CASE i <= Len(rows)
    <3>1. i \in 1..Len(rows) /\ rows[i] = r
      BY <1>1, <1>2, <1>4, <2>1, <2>2
    <3>2. DOMAIN rows = 1..Len(rows)
      BY <1>4, LenProperties
    <3> QED BY <3>1, <3>2 DEF ToRecords
  <2>3. CASE ~(i <= Len(rows))
    <3>1. Len(rows) = PerPage /\ PerPage \in 1..n /\ PerPage < i /\ PerPage \in 1..Len(rows)
      BY <1>1, <1>2, <1>4, <2>3
    <3>2. rows[PerPage] = all[PerPage]
      BY <1>4, <3>1
    <3>3. Past(all[i], all[PerPage])
      BY <1>1, <3>1
    <3> QED BY <1>2, <2>1, <3>1, <3>2, <3>3
  <2> QED BY <2>2, <2>3
<1> QED BY <1>4, <1>5, <1>6 DEF rows, all

\* What a walk keeps: its types, and upstream's records told apart.
FetchTypeOK ==
  /\ fetchMode \in {"full", "window"} /\ fetchAt \in {"walking", "accepted", "refused"}
  /\ upstream \in SUBSET Record /\ Distinct(upstream) /\ upStanding \subseteq upstream
  /\ pageCursor \in SUBSET Record /\ collected \in Seq(Record)
  /\ fetchTotals.weight \in Nat /\ fetchTotals.total \in Nat

\* What the records read are: no two of an id, each past the one before.
Spread(rows) == \A i, j \in 1..Len(rows) : i # j => rows[i].al # rows[j].al
Rising(rows) == \A i \in 2..Len(rows) : Past(rows[i], rows[i - 1])
\* The cursor is the last record read.
CursorFollows ==
  fetchAt = "walking" => pageCursor = IF Len(collected) = 0 THEN {} ELSE {collected[Len(collected)]}
WeightKept == Weight(collected) = fetchTotals.weight /\ fetchTotals.weight <= MaxTotalWeight
\* What stood throughout was read, or is still ahead of the cursor.
NothingSkipped ==
  fetchFaults \cap {"cut", "unvouched"} = {} =>
    \A r \in Asked(upStanding) :
      r \in ToRecords(collected) \/ (fetchAt # "accepted" /\ \A c \in pageCursor : Past(r, c))
\* An accepted full walk is at least half of the largest total reported.
FullEnough ==
  fetchAt = "accepted" /\ fetchMode = "full" => Len(collected) > 0 /\ 2 * Len(collected) >= fetchTotals.total
\* What every step of a walk preserves.
CatalogueInv ==
  /\ FetchTypeOK /\ Spread(collected) /\ Rising(collected)
  /\ CursorFollows /\ WeightKept /\ NothingSkipped /\ FullEnough

\* The pages a request may be answered with, and what an advancing one leaves out.
LEMMA PagesAre ==
  ASSUME FetchTypeOK, NEW page \in Pages
  PROVE  /\ page.rows \in Seq(Record) /\ page.total \in Nat
         /\ page.kind \notin {"cut", "unvouched"} /\ Advances(page.rows) =>
              \A r \in JoinFilters(pageCursor) :
                \/ r \in ToRecords(page.rows)
                \/ Len(page.rows) >= PerPage /\ Past(r, page.rows[Len(page.rows)])
<1> DEFINE match == JoinFilters(pageCursor)
           every == JoinFilters({})
           rows == FirstOf(Sorted(match), PerPage)
           first == FirstOf(Sorted(every), PerPage)
           Leaves(s) == \A r \in match :
             r \in ToRecords(s) \/ (Len(s) >= PerPage /\ Past(r, s[Len(s)]))
<1>1. /\ match \in SUBSET Record /\ Distinct(match) /\ every \in SUBSET Record /\ Distinct(every)
      /\ match \subseteq every /\ Cardinality(match) \in Nat /\ Cardinality(every) \in Nat
  <2>1. match \in SUBSET Record /\ every \in SUBSET Record /\ match \subseteq every
    BY DEF JoinFilters, FetchTypeOK
  <2>2. Distinct(match) /\ Distinct(every)
    BY DEF JoinFilters, FetchTypeOK, Distinct
  <2> HIDE DEF match, every
  <2>3. Cardinality(match) \in Nat /\ Cardinality(every) \in Nat
    BY <2>1, FetchAssumption, FS_Subset, FS_CardinalityType
  <2> QED BY <2>1, <2>2, <2>3
<1>2. /\ rows \in Seq(Record) /\ \A i, j \in 1..Len(rows) : i < j => Past(rows[j], rows[i])
      /\ Leaves(rows)
  <2> HIDE DEF match
  <2> QED BY <1>1, FirstPage
<1>3. first \in Seq(Record) /\ Leaves(first)
  <2> HIDE DEF match, every
  <2> QED BY <1>1, FirstPage
<1>4. PerPage \in Nat /\ Len(rows) \in Nat /\ <<>> \in Seq(Record)
  BY <1>2, FetchAssumption, LenProperties, EmptySeq
<1>5. \/ page.kind \notin {"cut", "unvouched"} /\ page.rows \in {rows, first, Reverse(rows)}
      \/ page.kind \in {"cut", "unvouched"} /\ page.rows \in {rows, <<>>} \cup {FirstOf(rows, n) : n \in 0..Len(rows) - 1}
  BY DEF Pages, Page
<1>6. page.total \in {0, Cardinality(match), Cardinality(every), Cardinality(match) + PerPage}
  BY DEF Pages, Page
<1> HIDE DEF match, every, rows, first
<1>7. page.total \in Nat
  BY <1>1, <1>4, <1>6
<1>8. /\ Reverse(rows) \in Seq(Record) /\ Len(Reverse(rows)) = Len(rows)
      /\ \A i \in 1..Len(rows) : Reverse(rows)[i] = rows[Len(rows) - i + 1]
  BY <1>2, <1>4 DEF Reverse
<1>9. \A n \in 0..Len(rows) - 1 : FirstOf(rows, n) \in Seq(Record)
  <2> SUFFICES ASSUME NEW n \in 0..Len(rows) - 1 PROVE FirstOf(rows, n) \in Seq(Record)
    OBVIOUS
  <2>1. n \in Nat
    BY <1>4
  <2> QED BY <1>2, <2>1, FirstAre
<1>10. page.rows \in Seq(Record)
  BY <1>2, <1>3, <1>4, <1>5, <1>8, <1>9
<1>11. ASSUME Advances(Reverse(rows)) PROVE Leaves(Reverse(rows))
  <2>1. ~(Len(rows) >= 2)
    <3> SUFFICES ASSUME Len(rows) >= 2 PROVE FALSE
      OBVIOUS
    <3> DEFINE k == Len(rows)
    <3>1. k \in 1..k /\ k - 1 \in 1..k /\ k - 1 < k /\ 1 \in 1..k /\ 2 \in 1..k
          /\ k - 1 + 1 = k /\ k - 2 + 1 = k - 1
      BY <1>4
    <3>2. Reverse(rows)[1] = rows[k] /\ Reverse(rows)[2] = rows[k - 1]
      BY <1>8, <3>1
    <3>3. 2 \in DOMAIN Reverse(rows)
      BY <1>8, <3>1, LenProperties
    <3>4. Past(Reverse(rows)[2], Reverse(rows)[2 - 1])
      BY <1>11, <3>3 DEF Advances
    <3>5. Past(rows[k], rows[k - 1]) /\ rows[k] \in Record /\ rows[k - 1] \in Record
      BY <1>2, <3>1, ElementOfSeq
    <3> QED BY <3>2, <3>4, <3>5, PastIs
  <2>2. Reverse(rows) = rows
    <3>1. \A i \in 1..Len(rows) : Len(rows) - i + 1 = i
      BY <1>4, <2>1
    <3> QED BY <1>2, <1>8, <3>1, SeqEqual
  <2> QED BY <1>2, <2>2
<1>12. ASSUME page.kind \notin {"cut", "unvouched"}, Advances(page.rows) PROVE Leaves(page.rows)
  <2>1. page.rows \in {rows, first, Reverse(rows)}
    BY <1>5, <1>12
  <2>2. page.rows = Reverse(rows) => Leaves(page.rows)
    BY <1>11, <1>12
  <2> QED BY <1>2, <1>3, <2>1, <2>2
<1> QED BY <1>7, <1>10, <1>12 DEF match

\* Of a page whose identities are valid no two records share an id.
LEMMA ValidIsSpread ==
  ASSUME NEW rows \in Seq(Record), Cardinality(IdsOf(rows)) = Len(rows)
  PROVE  Spread(rows)
<1> DEFINE n == Len(rows)
           id == [i \in 1..n |-> rows[i].al]
           ids == IdsOf(rows)
<1>1. n \in Nat /\ DOMAIN rows = 1..n
  BY LenProperties
<1>2. IsFiniteSet(1..n) /\ Cardinality(1..n) = n
  <2> HIDE DEF n
  <2>1. IsFiniteSet(1..n) /\ Cardinality(1..n) = IF 1 > n THEN 0 ELSE n - 1 + 1
    BY <1>1, FS_Interval
  <2> QED BY <1>1, <2>1
<1>3. id \in Surjection(1..n, ids)
  BY <1>1 DEF Surjection, IdsOf
<1> HIDE DEF id, ids
<1>4. id \in Injection(1..n, ids)
  <2>1. Cardinality(ids) = n
    BY DEF ids
  <2> HIDE DEF n
  <2> QED BY <1>2, <1>3, <2>1, FS_Surjection
<1>5. \A i, j \in 1..n : i # j => id[i] # id[j]
  BY <1>4 DEF Injection, IsInjective
<1> QED BY <1>5 DEF Spread, id

\* What is spread has as many records as places, and as many ids.
LEMMA SpreadCounts ==
  ASSUME NEW rows \in Seq(Record), Spread(rows)
  PROVE  Len(rows) = Cardinality(ToRecords(rows)) /\ Len(rows) = Cardinality(IdsOf(rows))
<1> DEFINE n == Len(rows)
           id == [i \in 1..n |-> rows[i].al]
           at == [i \in 1..n |-> rows[i]]
<1>1. n \in Nat /\ DOMAIN rows = 1..n
  BY LenProperties
<1>2. IsFiniteSet(1..n) /\ Cardinality(1..n) = n
  <2> HIDE DEF n
  <2>1. IsFiniteSet(1..n) /\ Cardinality(1..n) = IF 1 > n THEN 0 ELSE n - 1 + 1
    BY <1>1, FS_Interval
  <2> QED BY <1>1, <2>1
<1>3. id \in Surjection(1..n, IdsOf(rows)) /\ at \in Surjection(1..n, ToRecords(rows))
  BY <1>1 DEF Surjection, IdsOf, ToRecords
<1>4. id \in Injection(1..n, IdsOf(rows))
  BY <1>3 DEF Spread, Surjection, Injection, IsInjective
<1>5. at \in Injection(1..n, ToRecords(rows))
  BY <1>3 DEF Spread, Surjection, Injection, IsInjective
<1> HIDE DEF id, at, n
<1>6. Cardinality(IdsOf(rows)) = n
  BY <1>2, <1>3, <1>4, FS_Surjection
<1>7. Cardinality(ToRecords(rows)) = n
  BY <1>2, <1>3, <1>5, FS_Surjection
<1> QED BY <1>6, <1>7 DEF n

\* The larger of two numbers is one.
LEMMA MaxOfTwo ==
  ASSUME NEW i \in Nat, NEW j \in Nat
  PROVE  Max({i, j}) \in Nat
<1>1. \E k \in {i, j} : \A q \in {i, j} : k >= q
  OBVIOUS
<1> QED BY <1>1 DEF Max

\* A walk starts with its invariant.
LEMMA CatalogueStarts == CatalogueInit => CatalogueInv
<1> SUFFICES ASSUME CatalogueInit PROVE CatalogueInv
  OBVIOUS
<1> USE DEF CatalogueInit
<1>1. collected = <<>> /\ collected \in Seq(Record) /\ Len(collected) = 0
  BY EmptySeq
<1>2. FetchTypeOK
  BY <1>1 DEF FetchTypeOK, Distinct
<1>3. Spread(collected) /\ Rising(collected)
  BY <1>1 DEF Spread, Rising
<1>4. WeightKept
  <2>1. PICK sum \in [0..Len(collected) -> Nat] : sum[0] = 0 /\ Weight(collected) = sum[Len(collected)]
    BY <1>1, SumIs
  <2> QED BY <1>1, <2>1, FetchAssumption DEF WeightKept
<1>5. CursorFollows /\ FullEnough
  BY <1>1 DEF CursorFollows, FullEnough
<1>6. NothingSkipped
  BY DEF NothingSkipped
<1> QED BY <1>2, <1>3, <1>4, <1>5, <1>6 DEF CatalogueInv

\* A walk that is refused keeps what it had.
LEMMA RefusalKeeps ==
  ASSUME CatalogueInv, Refuse, fetchFaults \subseteq fetchFaults', fetchAt = "walking"
  PROVE  CatalogueInv'
<1> USE DEF CatalogueInv, Refuse
<1>1. FetchTypeOK'
  BY DEF FetchTypeOK, Distinct
<1>2. Spread(collected)' /\ Rising(collected)'
  BY DEF Spread, Rising, Past
<1>3. CursorFollows' /\ FullEnough'
  BY DEF CursorFollows, FullEnough
<1>4. WeightKept'
  <2>1. Weight(collected)' = Weight(collected)
    BY DEF Weight
  <2> QED BY <2>1 DEF WeightKept
<1>5. NothingSkipped'
  BY DEF NothingSkipped, Asked, ToRecords, Past
<1> QED BY <1>1, <1>2, <1>3, <1>4, <1>5

\* So does one beside which upstream changes.
LEMMA ChangesKeep ==
  ASSUME CatalogueInv, NEW r \in Record, Insert(r) \/ (r \in upstream /\ Delete(r))
  PROVE  CatalogueInv'
<1> USE DEF CatalogueInv
<1>1. /\ fetchAt = "walking"
      /\ UNCHANGED <<fetchMode, fetchAt, pageCursor, collected, fetchTotals, fetchFaults>>
      /\ upStanding' \subseteq upStanding
  BY DEF Insert, Delete
<1>2. upstream' \in SUBSET Record /\ upStanding' \subseteq upstream'
  BY DEF Insert, Delete, FetchTypeOK
<1>3. Distinct(upstream')
  BY DEF Insert, Delete, FetchTypeOK, Distinct
<1>4. FetchTypeOK'
  BY <1>1, <1>2, <1>3 DEF FetchTypeOK, Distinct
<1>5. Spread(collected)' /\ Rising(collected)'
  BY <1>1 DEF Spread, Rising, Past
<1>6. CursorFollows' /\ FullEnough'
  BY <1>1 DEF CursorFollows, FullEnough
<1>7. WeightKept'
  <2>1. Weight(collected)' = Weight(collected)
    BY <1>1 DEF Weight
  <2> QED BY <1>1, <2>1 DEF WeightKept
<1>8. NothingSkipped'
  BY <1>1 DEF NothingSkipped, Asked, ToRecords, Past
<1> QED BY <1>4, <1>5, <1>6, <1>7, <1>8

\* What a page that is taken changes; the walk it comes to is written l.
PageTaken(page, tot) ==
  LET rows == page.rows
      done == Len(rows) < PerPage
  IN /\ fetchAt = "walking" /\ fetchFaults' = fetchFaults \cup ({page.kind} \ {"honest"})
     /\ tot.weight = fetchTotals.weight + Weight(rows) /\ tot.total = Max({fetchTotals.total, page.total})
     /\ WithinBudgets(rows) /\ ValidIdentities(rows) /\ Advances(rows)
     /\ done => ValidateFinishedFetch(Len(collected \o rows), tot)
     /\ collected' = collected \o rows /\ fetchTotals' = tot
     /\ fetchAt' = (IF done THEN "accepted" ELSE "walking")
     /\ pageCursor' = (IF done THEN pageCursor ELSE {rows[Len(rows)]})
     /\ UNCHANGED <<fetchMode, upstream, upStanding, upChanges>>

\* A page is taken, or refuses the walk.
LEMMA FetchPageDoes ==
  ASSUME NEW page, FetchPage(page)
  PROVE  \/ /\ Refuse /\ fetchAt = "walking" /\ fetchFaults \subseteq fetchFaults'
         \/ \E tot : PageTaken(page, tot)
<1> DEFINE tot == [weight |-> fetchTotals.weight + Weight(page.rows), chunks |-> fetchTotals.chunks + 1,
                   total |-> Max({fetchTotals.total, page.total}),
                   pages |-> Max({fetchTotals.pages, page.pages})]
<1>1. fetchAt = "walking" /\ fetchFaults \subseteq fetchFaults'
  BY DEF FetchPage
<1>2. Refuse \/ PageTaken(page, tot)
  BY DEF FetchPage, PageTaken
<1> QED BY <1>1, <1>2

\* A page that is taken leaves the invariant.
LEMMA PageKeeps ==
  ASSUME CatalogueInv, NEW page \in Pages, NEW tot, PageTaken(page, tot)
  PROVE  CatalogueInv'
<1> DEFINE rows == page.rows
           was == collected
           all == was \o rows
           n == Len(was)
           k == Len(rows)
           done == k < PerPage
<1>1. FetchTypeOK /\ fetchAt = "walking"
  BY DEF CatalogueInv, PageTaken
<1>2. /\ rows \in Seq(Record) /\ page.total \in Nat
      /\ page.kind \notin {"cut", "unvouched"} =>
           \A r \in JoinFilters(pageCursor) : r \in ToRecords(rows) \/ (k >= PerPage /\ Past(r, rows[k]))
  BY <1>1, PagesAre DEF PageTaken
<1>3. /\ PerPage \in Nat /\ PerPage >= 1 /\ MaxTotalWeight \in Nat /\ MaxPageWeight \in Nat
      /\ was \in Seq(Record) /\ n \in Nat /\ k \in Nat
      /\ DOMAIN rows = 1..k /\ DOMAIN was = 1..n
  BY <1>1, <1>2, FetchAssumption, LenProperties DEF FetchTypeOK
<1>4. /\ all \in Seq(Record) /\ Len(all) = n + k /\ DOMAIN all = 1..n + k
      /\ \A i \in 1..n : all[i] = was[i]
      /\ \A i \in 1..k : all[n + i] = rows[i]
      /\ \A i \in 1..n + k : i \in 1..n \/ (i - n \in 1..k /\ n + (i - n) = i)
  <2>1. all \in Seq(Record) /\ Len(all) = n + k
        /\ (\A i \in 1..n : all[i] = was[i]) /\ (\A i \in 1..k : all[n + i] = rows[i])
    BY <1>2, <1>3, ConcatProperties
  <2>2. \A i \in 1..n + k : i \in 1..n \/ (i - n \in 1..k /\ n + (i - n) = i)
    BY <1>3
  <2> HIDE DEF all
  <2>3. DOMAIN all = 1..n + k
    BY <2>1, LenProperties
  <2> QED BY <2>1, <2>2, <2>3
<1>5. /\ collected' = all /\ fetchTotals' = tot
      /\ fetchAt' = (IF done THEN "accepted" ELSE "walking")
      /\ pageCursor' = (IF done THEN pageCursor ELSE {rows[k]})
      /\ UNCHANGED <<fetchMode, upstream, upStanding, upChanges>>
      /\ tot.weight = fetchTotals.weight + Weight(rows) /\ tot.total = Max({fetchTotals.total, page.total})
      /\ fetchFaults' = fetchFaults \cup ({page.kind} \ {"honest"})
      /\ WithinBudgets(rows) /\ ValidIdentities(rows) /\ Advances(rows)
      /\ done => ValidateFinishedFetch(n + k, tot)
  BY <1>4 DEF PageTaken
<1>6. ~done => k \in 1..k /\ rows[k] \in Record
  BY <1>2, <1>3, ElementOfSeq
<1>7. pageCursor = IF n = 0 THEN {} ELSE {was[n]}
  BY <1>1 DEF CatalogueInv, CursorFollows
<1> HIDE DEF rows, was, all, n, k
<1>8. Weight(rows) \in Nat /\ Weight(was) \in Nat /\ Weight(all) = Weight(was) + Weight(rows)
  BY <1>2, <1>3, WeightAdds DEF all
<1>9. Weight(all) = tot.weight /\ tot.weight \in Nat /\ tot.weight <= MaxTotalWeight
  <2>1. Weight(was) = fetchTotals.weight
    BY DEF was, CatalogueInv, WeightKept
  <2>2. Weight(rows) <= MaxTotalWeight - fetchTotals.weight
    BY <1>1, <1>3, <1>5, <1>8 DEF WithinBudgets, FetchTypeOK
  <2> QED BY <1>3, <1>5, <1>8, <2>1, <2>2
<1>10. tot.total \in Nat
  BY <1>1, <1>2, <1>5, MaxOfTwo DEF FetchTypeOK
<1>11. FetchTypeOK'
  <2>1. pageCursor' \in SUBSET Record
    BY <1>1, <1>5, <1>6 DEF FetchTypeOK
  <2>2. fetchAt' \in {"walking", "accepted", "refused"} /\ collected' \in Seq(Record)
    BY <1>4, <1>5
  <2>3. fetchTotals'.weight \in Nat /\ fetchTotals'.total \in Nat
    BY <1>5, <1>9, <1>10
  <2> QED BY <1>1, <1>5, <2>1, <2>2, <2>3 DEF FetchTypeOK, Distinct
<1>12. Spread(all)
  <2>1. Spread(was) /\ Spread(rows)
    <3>1. Spread(rows)
      BY <1>2, <1>5, ValidIsSpread DEF ValidIdentities, k
    <3> QED BY <3>1 DEF CatalogueInv, was
  <2>2. \A i \in 1..n, j \in 1..k : was[i].al # rows[j].al
    BY <1>3, <1>5 DEF ValidIdentities, IdsOf, was
  <2>3. \A i, j \in 1..n : i # j => was[i].al # was[j].al
    BY <2>1 DEF Spread, n
  <2>4. \A i, j \in 1..k : i # j => rows[i].al # rows[j].al
    BY <2>1 DEF Spread, k
  <2>5. ASSUME NEW i \in 1..n + k, NEW j \in 1..n + k, i # j
        PROVE  all[i].al # all[j].al
    <3>1. CASE i \in 1..n /\ j \in 1..n
      BY <1>4, <2>3, <2>5, <3>1
    <3>2. CASE i \in 1..n /\ j \notin 1..n
      BY <1>4, <2>2, <3>2
    <3>3. CASE i \notin 1..n /\ j \in 1..n
      BY <1>4, <2>2, <3>3
    <3>4. CASE i \notin 1..n /\ j \notin 1..n
      <4>1. i - n # j - n
        BY <1>3, <2>5
      <4>2. i - n \in 1..k /\ j - n \in 1..k /\ all[i] = rows[i - n] /\ all[j] = rows[j - n]
        BY <1>4, <3>4
      <4> QED BY <2>4, <4>1, <4>2
    <3> QED BY <3>1, <3>2, <3>3, <3>4
  <2> QED BY <1>4, <2>5 DEF Spread
<1>13. Rising(all)
  <2>1. \A i \in 2..n : Past(was[i], was[i - 1])
    BY DEF CatalogueInv, Rising, was, n
  <2>2. \A i \in 1..k : IF i = 1 THEN \A c \in pageCursor : Past(rows[1], c) ELSE Past(rows[i], rows[i - 1])
    BY <1>3, <1>5 DEF Advances
  <2>3. ASSUME NEW i \in 2..n + k PROVE Past(all[i], all[i - 1])
    <3>1. CASE i \in 1..n
      <4>1. i \in 2..n /\ i - 1 \in 1..n
        BY <1>3, <3>1
      <4> QED BY <1>4, <2>1, <3>1, <4>1
    <3>2. CASE i \notin 1..n /\ i - n = 1
      <4>1. i = n + 1 /\ i - 1 = n /\ 1 \in 1..k /\ n \in 1..n /\ n # 0
        BY <1>3, <3>2
      <4>2. Past(rows[1], was[n])
        BY <1>7, <2>2, <4>1
      <4>3. all[i] = rows[1] /\ all[i - 1] = was[n]
        BY <1>4, <4>1
      <4> QED BY <4>2, <4>3
    <3>3. CASE i \notin 1..n /\ i - n # 1
      <4>1. i - n \in 1..k /\ i - n # 1 /\ (i - n) - 1 \in 1..k
            /\ n + (i - n) = i /\ n + ((i - n) - 1) = i - 1
        BY <1>3, <3>3
      <4>2. Past(rows[i - n], rows[(i - n) - 1])
        BY <2>2, <4>1
      <4>3. all[n + (i - n)] = rows[i - n] /\ all[n + ((i - n) - 1)] = rows[(i - n) - 1]
        BY <1>4, <4>1
      <4> QED BY <4>1, <4>2, <4>3
    <3> QED BY <3>1, <3>2, <3>3
  <2> QED BY <1>4, <2>3 DEF Rising
<1>14. CursorFollows'
  <2> SUFFICES ASSUME ~done PROVE pageCursor' = IF Len(all) = 0 THEN {} ELSE {all[Len(all)]}
    BY <1>5 DEF CursorFollows
  <2>1. k \in 1..k /\ n + k # 0
    BY <1>3
  <2>2. all[n + k] = rows[k]
    BY <1>4, <2>1
  <2> QED BY <1>4, <1>5, <2>1, <2>2
<1>15. WeightKept'
  <2>1. Weight(collected)' = Weight(all)
    BY <1>5 DEF Weight
  <2> QED BY <1>5, <1>9, <2>1 DEF WeightKept
<1>16. NothingSkipped'
  <2> SUFFICES ASSUME fetchFaults' \cap {"cut", "unvouched"} = {}, NEW r \in Asked(upStanding)
               PROVE  \/ r \in ToRecords(all)
                      \/ ~done /\ \A c \in pageCursor' : Past(r, c)
    BY <1>5 DEF NothingSkipped, Asked, ToRecords, Past
  <2>1. fetchFaults \cap {"cut", "unvouched"} = {} /\ page.kind \notin {"cut", "unvouched"}
    BY <1>5
  <2>2. r \in ToRecords(was) \/ \A c \in pageCursor : Past(r, c)
    BY <2>1 DEF CatalogueInv, NothingSkipped, was
  <2>3. CASE r \in ToRecords(was)
    <3>1. PICK i \in 1..n : r = was[i]
      BY <1>3, <2>3 DEF ToRecords
    <3>2. i \in 1..n + k /\ all[i] = r
      BY <1>3, <1>4, <3>1
    <3> QED BY <1>4, <3>2 DEF ToRecords
  <2>4. CASE \A c \in pageCursor : Past(r, c)
    <3>1. r \in JoinFilters(pageCursor)
      BY <1>1, <2>4 DEF JoinFilters, Asked, FetchTypeOK
    <3>2. r \in ToRecords(rows) \/ (k >= PerPage /\ Past(r, rows[k]))
      BY <1>2, <2>1, <3>1
    <3>3. CASE r \in ToRecords(rows)
      <4>1. PICK i \in 1..k : r = rows[i]
        BY <1>3, <3>3 DEF ToRecords
      <4>2. n + i \in 1..n + k /\ all[n + i] = r
        BY <1>3, <1>4, <4>1
      <4> QED BY <1>4, <4>2 DEF ToRecords
    <3>4. CASE k >= PerPage /\ Past(r, rows[k])
      BY <1>3, <1>5, <3>4
    <3> QED BY <3>2, <3>3, <3>4
  <2> QED BY <2>2, <2>3, <2>4
<1>17. FullEnough'
  <2> SUFFICES ASSUME done, fetchMode = "full"
               PROVE  n + k > 0 /\ 2 * (n + k) >= tot.total
    BY <1>4, <1>5 DEF FullEnough
  <2>1. n + k > 0 /\ ~(2 * (n + k) < tot.total)
    BY <1>5 DEF ValidateFinishedFetch, Shrunk
  <2> QED BY <1>3, <1>10, <2>1
<1>18. Spread(collected)' /\ Rising(collected)'
  BY <1>5, <1>12, <1>13 DEF Spread, Rising, Past
<1> QED BY <1>11, <1>14, <1>15, <1>16, <1>17, <1>18 DEF CatalogueInv

\* Every step of a walk keeps its invariant.
LEMMA CatalogueStep == CatalogueInv /\ [CatalogueNext]_catalogueVars => CatalogueInv'
<1> SUFFICES ASSUME CatalogueInv, [CatalogueNext]_catalogueVars PROVE CatalogueInv'
  OBVIOUS
<1>1. CASE FetchFails
  <2>1. Refuse /\ fetchFaults \subseteq fetchFaults' /\ fetchAt = "walking"
    BY <1>1 DEF FetchFails
  <2> QED BY <2>1, RefusalKeeps
<1>2. ASSUME NEW page \in Pages, FetchPage(page) PROVE CatalogueInv'
  <2>1. CASE Refuse /\ fetchAt = "walking" /\ fetchFaults \subseteq fetchFaults'
    BY <2>1, RefusalKeeps
  <2>2. CASE \E tot : PageTaken(page, tot)
    <3>1. PICK tot : PageTaken(page, tot)
      BY <2>2
    <3> QED BY <1>2, <3>1, PageKeeps
  <2> QED BY <1>2, <2>1, <2>2, FetchPageDoes
<1>3. CASE \E r \in Record : Insert(r)
  BY <1>3, ChangesKeep
<1>4. CASE \E r \in upstream : Delete(r)
  <2>1. upstream \subseteq Record
    BY DEF CatalogueInv, FetchTypeOK
  <2> QED BY <1>4, <2>1, ChangesKeep
<1>5. CASE UNCHANGED catalogueVars
  <2>1. Weight(collected)' = Weight(collected)
    BY <1>5 DEF Weight, catalogueVars
  <2> QED BY <1>5, <2>1 DEF CatalogueInv, catalogueVars, FetchTypeOK, Distinct, Spread, Rising, Past,
                CursorFollows, WeightKept, NothingSkipped, Asked, ToRecords, FullEnough
<1> QED BY <1>1, <1>2, <1>3, <1>4, <1>5 DEF CatalogueNext

\* What an accepted walk holds follows from the invariant.
LEMMA CatalogueHolds == CatalogueInv => CatalogueWhole
<1> SUFFICES ASSUME CatalogueInv PROVE CatalogueWhole
  OBVIOUS
<1>1. collected \in Seq(Record) /\ Len(collected) \in Nat /\ MaxTotalWeight \in Nat
  BY FetchAssumption, LenProperties DEF CatalogueInv, FetchTypeOK
<1>2. Len(collected) = Cardinality(ToRecords(collected)) /\ Len(collected) = Cardinality(IdsOf(collected))
  BY <1>1, SpreadCounts DEF CatalogueInv
<1>3. \A i \in 2..Len(collected) : Past(collected[i], collected[i - 1])
  BY DEF CatalogueInv, Rising
<1>4. Weight(collected) <= MaxTotalWeight
  BY DEF CatalogueInv, WeightKept
<1>5. fetchAt = "accepted" /\ fetchFaults \cap {"cut", "unvouched"} = {} => Asked(upStanding) \subseteq ToRecords(collected)
  BY DEF CatalogueInv, NothingSkipped
<1>6. fetchAt = "accepted" /\ fetchMode = "full" => collected # <<>> /\ 2 * Len(collected) >= fetchTotals.total
  BY <1>1, LenProperties DEF CatalogueInv, FullEnough
<1> QED BY <1>2, <1>3, <1>4, <1>5, <1>6 DEF CatalogueWhole

(* However wrongly upstream serves a walk, it collects in order, and holds     *)
(* no entry twice; an accepted walk holds every record that stood, unless a    *)
(* page was cut short or vouched for nothing, fits the budgets and is never    *)
(* less than half of the collection (CatalogueWhole).                          *)
THEOREM CatalogueIsWhole == CatalogueSpec => []CatalogueWhole
<1>1. CatalogueSpec => []CatalogueInv
  BY CatalogueStarts, CatalogueStep, PTL DEF CatalogueSpec
<1> QED BY <1>1, CatalogueHolds, PTL

------------------------------------------------------------------------------
(* The AniList lookups.                                                        *)

\* What the memo may hold of an id.
MemoEntries == [media : SUBSET Medias, life : Nat, was : Medias \cup Missing]
MemoTrue == \A id \in DOMAIN memo : memo[id] \in MemoEntries

\* What a chunk's verdicts say of an id is what AniList says of it.
VerdictTrue(id) ==
  /\ id \in Ids /\ batchVerdicts[id].said = aniList[id]
  /\ batchVerdicts[id].verdict = "found" => Found(id)
  /\ batchVerdicts[id].verdict = "absent" => ~Found(id)
VerdictsTrue == \A id \in DOMAIN batchVerdicts : VerdictTrue(id)

\* The shape of the state.
LookupTypeOK ==
  /\ aniList \in [Ids -> Medias \cup Missing]
  /\ passAt \in {"idle", "batch", "apply", "entries", "done"}
  /\ passEntries \in SUBSET Ids /\ passTodo \in SUBSET passEntries
  /\ batchPending \in SUBSET Ids /\ batchLeft \in SUBSET Ids
  /\ passLive \in BOOLEAN
  /\ result.degraded \in BOOLEAN
  /\ result = [degraded |-> result.degraded, incomplete |-> result.incomplete, links |-> result.links]
  /\ gate \in [outage : SUBSET Ids, streak : 0..TransientFailureCap, tripped : BOOLEAN]
  /\ failureRun \in Nat

\* An entry matched has its answer, or is named incomplete; a link is one of an entry matched.
EntryServed(id) == NeedsLookup(id) => LiveEntry(id) \/ id \in result.incomplete
Matched ==
  /\ \A id \in passEntries \ passTodo : EntryServed(id)
  /\ result.incomplete # {} => result.degraded
  /\ DOMAIN result.links \subseteq passEntries \ passTodo
  /\ passAt # "entries" => DOMAIN result.links = {} /\ passTodo = passEntries

\* Titles the pass loaded it still has, but for an answer it was given since.
TitleHeld(id) ==
  memoBefore[id].media # {} =>
    /\ id \in DOMAIN memo
    /\ memo[id].media = {} => memo[id].life > 0 /\ memo[id].was = aniList[id] /\ aniList[id] \in Missing

Underway == passAt \in {"batch", "apply", "entries"}

\* A second batch follows a failed one only when the first learnt something.
BreakerHolds ==
  /\ ~gate.tripped => gate.streak < TransientFailureCap
  /\ passAt = "batch" => failureRun <= 1 /\ (DOMAIN batchVerdicts # {} => failureRun = 0)
  /\ passAt = "apply" => failureRun <= 2 /\ (DOMAIN batchVerdicts # {} => failureRun <= 1)
  /\ passAt = "entries" => failureRun <= gate.streak + 2
  /\ failureRun <= TransientFailureCap + 2

\* What every step of the lookups preserves.
LookupsInv ==
  /\ LookupTypeOK /\ MemoTrue /\ NegativesAreAnswers /\ VerdictsTrue /\ BreakerHolds
  /\ Underway => Matched /\ (\A id \in DOMAIN memoBefore : TitleHeld(id)) /\ LinksStand
  /\ passAt = "done" => NoSilentMiss /\ TitlesKept /\ LinksStand

\* What a memo is after answers were written into it.
WrittenWith(m, answers, next) ==
  /\ DOMAIN next = DOMAIN answers \cup DOMAIN m
  /\ \A id \in DOMAIN m \ DOMAIN answers : next[id] = m[id]
  /\ \A id \in DOMAIN answers : \E life \in Life : next[id] = Entry(answers[id], life)

\* Answers are written at their ids and nowhere else.
LEMMA AnsweredIs == \A m, answers : \A next \in Answered(m, answers) : WrittenWith(m, answers, next)
<1> SUFFICES ASSUME NEW m, NEW answers, NEW next \in Answered(m, answers)
             PROVE  WrittenWith(m, answers, next)
  OBVIOUS
<1>1. PICK ttl \in [DOMAIN answers -> Life] :
        next = [id \in DOMAIN answers \cup DOMAIN m |->
                  IF id \in DOMAIN answers THEN Entry(answers[id], ttl[id]) ELSE m[id]]
  BY DEF Answered
<1> QED BY <1>1 DEF WrittenWith

\* A fresh entry is live.
LEMMA LifeIs == Life \subseteq Nat /\ \A n \in Life : n > 0
BY LookupsAssumption DEF Life

\* A memo written with what AniList says of each id keeps the memo true, and every answer it had.
LEMMA AnswersKeep ==
  ASSUME LookupsInv, NEW answers, DOMAIN answers \subseteq Ids,
         \A id \in DOMAIN answers :
           /\ answers[id].said = aniList[id] /\ answers[id].verdict \in {"found", "absent"}
           /\ answers[id].verdict = "found" <=> Found(id),
         memo' \in Answered(memo, answers), aniList' = aniList, memoBefore' = memoBefore
  PROVE  /\ MemoTrue' /\ NegativesAreAnswers'
         /\ \A id \in DOMAIN answers : LiveEntry(id)'
         /\ \A id : LiveEntry(id) => LiveEntry(id)'
         /\ \A id \in DOMAIN memoBefore : TitleHeld(id) => TitleHeld(id)'
         /\ \A id : id \notin DOMAIN answers => StaleMedia(memo', id) = StaleMedia(memo, id)
<1>1. WrittenWith(memo, answers, memo')
  BY AnsweredIs
<1>2. \A id \in DOMAIN answers :
        \E life \in Life : memo'[id] = [media |-> IF Found(id) THEN {aniList[id]} ELSE {},
                                        life |-> life, was |-> aniList[id]]
  BY <1>1 DEF WrittenWith, Entry
<1>3. \A id \in DOMAIN answers :
        /\ memo'[id] \in MemoEntries /\ memo'[id].was = aniList[id] /\ memo'[id].life > 0
        /\ memo'[id].media = IF Found(id) THEN {aniList[id]} ELSE {}
        /\ ~Found(id) => aniList[id] \in Missing
  <2> SUFFICES ASSUME NEW id \in DOMAIN answers
               PROVE  /\ memo'[id] \in MemoEntries /\ memo'[id].was = aniList[id] /\ memo'[id].life > 0
                      /\ memo'[id].media = IF Found(id) THEN {aniList[id]} ELSE {}
                      /\ ~Found(id) => aniList[id] \in Missing
    OBVIOUS
  <2>1. PICK life \in Life : memo'[id] = [media |-> IF Found(id) THEN {aniList[id]} ELSE {},
                                          life |-> life, was |-> aniList[id]]
    BY <1>2
  <2>2. life \in Nat /\ life > 0
    BY LifeIs
  <2>3. aniList[id] \in Medias \cup Missing
    BY DEF LookupsInv, LookupTypeOK
  <2>4. PICK held : held = IF Found(id) THEN {aniList[id]} ELSE {}
    OBVIOUS
  <2>5. held \in SUBSET Medias /\ (~Found(id) => aniList[id] \in Missing)
    BY <2>3, <2>4 DEF Found
  <2> QED BY <2>1, <2>2, <2>3, <2>4, <2>5 DEF MemoEntries
<1> USE <1>3 DEF WrittenWith
<1>4. MemoTrue' /\ NegativesAreAnswers'
  BY <1>1 DEF LookupsInv, MemoTrue, NegativesAreAnswers, Missing
<1>5. /\ \A id \in DOMAIN answers : LiveEntry(id)'
      /\ \A id : LiveEntry(id) => LiveEntry(id)'
  BY <1>1 DEF LiveEntry
<1>6. \A id \in DOMAIN memoBefore : TitleHeld(id) => TitleHeld(id)'
  BY <1>1 DEF TitleHeld
<1>7. \A id : id \notin DOMAIN answers => StaleMedia(memo', id) = StaleMedia(memo, id)
  BY <1>1 DEF StaleMedia
<1> QED BY <1>4, <1>5, <1>6, <1>7

\* A pass begins with nothing matched, and with every title it loaded.
LEMMA BeginKeeps ==
  ASSUME LookupsInv, NEW kind, NEW entries \in SUBSET Ids, BeginPass(kind, entries)
  PROVE  LookupsInv'
<1>1. /\ DOMAIN memo' = DOMAIN memo
      /\ \A id \in DOMAIN memo : memo'[id] \in MemoEntries /\ memo'[id].media = memo[id].media
                                 /\ memo'[id].was = memo[id].was
  <2>1. PICK ttl \in [Skewed(memo) -> Life] :
          memo' = [id \in DOMAIN memo |-> IF id \in Skewed(memo) THEN [memo[id] EXCEPT !.life = ttl[id]] ELSE memo[id]]
    BY DEF BeginPass, Restamped
  <2> SUFFICES ASSUME NEW id \in DOMAIN memo
               PROVE  memo'[id] \in MemoEntries /\ memo'[id].media = memo[id].media /\ memo'[id].was = memo[id].was
    BY <2>1
  <2>2. memo[id] \in MemoEntries
    BY DEF LookupsInv, MemoTrue
  <2>3. id \in Skewed(memo) => ttl[id] \in Nat
    BY LifeIs
  <2> QED BY <2>1, <2>2, <2>3 DEF MemoEntries
<1>2. MemoTrue' /\ NegativesAreAnswers'
  BY <1>1 DEF LookupsInv, MemoTrue, NegativesAreAnswers
<1>3. DOMAIN <<>> = {}
  OBVIOUS
<1>4. /\ gate' = [outage |-> {}, streak |-> 0, tripped |-> FALSE]
      /\ failureRun' = 0 /\ batchVerdicts' = <<>> /\ passAt' \in {"entries", "batch"}
  BY DEF BeginPass, AskInBatches
<1>5. LookupTypeOK'
  BY <1>4, LookupsAssumption DEF LookupsInv, LookupTypeOK, BeginPass, AskInBatches, PendingAniListIDs
<1>6. VerdictsTrue' /\ BreakerHolds'
  BY <1>3, <1>4, LookupsAssumption DEF VerdictsTrue, BreakerHolds
<1>7. Matched' /\ LinksStand'
  BY <1>3 DEF Matched, LinksStand, BeginPass, AskInBatches
<1>8. \A id \in DOMAIN memoBefore' : TitleHeld(id)'
  BY <1>1 DEF TitleHeld, BeginPass
<1>9. passAt' # "done"
  BY DEF BeginPass, AskInBatches
<1> QED BY <1>2, <1>7, <1>8, <1>9, <1>5, <1>6 DEF LookupsInv

\* A chunk's verdicts are added to the batch's; nothing is matched before the batch is applied.
LEMMA BatchKeeps ==
  ASSUME LookupsInv,
         \/ \E poisoned \in SUBSET {id \in Chunk : Found(id)}, stray \in BOOLEAN : ChunkAnswers(poisoned, stray)
         \/ ChunkFails
  PROVE  LookupsInv'
<1>1. /\ UNCHANGED <<aniList, memo, memoBefore, passEntries, passTodo, passLive, batchPending, gate, result>>
      /\ passAt = "batch" /\ passAt' \in {"batch", "apply"}
  BY DEF ChunkAnswers, ChunkFails, passVars
<1>2. \A id \in DOMAIN memo : memo'[id] = memo[id]
  BY <1>1
<1>3. Matched' /\ LinksStand' /\ \A id \in DOMAIN memoBefore' : TitleHeld(id)'
  BY <1>1 DEF LookupsInv, Underway, Matched, LinksStand, TitleHeld, EntryServed, LiveEntry
<1>4. MemoTrue' /\ NegativesAreAnswers'
  BY <1>1 DEF LookupsInv, MemoTrue, NegativesAreAnswers
<1>5. CASE ChunkFails
  <2>1. LookupTypeOK'
    BY <1>1, <1>5 DEF LookupsInv, LookupTypeOK, ChunkFails
  <2>2. VerdictsTrue'
    BY <1>1, <1>5 DEF LookupsInv, VerdictsTrue, VerdictTrue, Found, ChunkFails
  <2>3. BreakerHolds'
    BY <1>1, <1>5, LookupsAssumption DEF LookupsInv, LookupTypeOK, BreakerHolds, ChunkFails
  <2> QED BY <1>1, <1>3, <1>4, <2>1, <2>2, <2>3 DEF LookupsInv
<1>6. ASSUME NEW poisoned \in SUBSET {id \in Chunk : Found(id)}, NEW stray \in BOOLEAN, ChunkAnswers(poisoned, stray)
      PROVE  LookupsInv'
  <2>1. /\ batchVerdicts' = [id \in Chunk \cup DOMAIN batchVerdicts |->
                               IF id \in Chunk THEN ChunkVerdicts(Chunk, poisoned, stray)[id] ELSE batchVerdicts[id]]
        /\ batchLeft' = batchLeft \ Chunk /\ failureRun' = 0
    BY <1>6 DEF ChunkAnswers
  <2>2. Chunk \subseteq Ids
    BY DEF Chunk, LookupsInv, LookupTypeOK
  <2>3. \A id \in Chunk : LET v == ChunkVerdicts(Chunk, poisoned, stray)[id] IN
          /\ v.said = aniList[id]
          /\ v.verdict = "found" => Found(id)
          /\ v.verdict = "absent" => ~Found(id)
    BY DEF ChunkVerdicts
  <2>4. VerdictsTrue'
    BY <1>1, <2>1, <2>2, <2>3 DEF LookupsInv, VerdictsTrue, VerdictTrue, Found
  <2>5. LookupTypeOK'
    BY <1>1, <2>1 DEF LookupsInv, LookupTypeOK
  <2>6. BreakerHolds'
    BY <1>1, <2>1, LookupsAssumption DEF LookupsInv, LookupTypeOK, BreakerHolds
  <2> QED BY <1>1, <1>3, <1>4, <2>4, <2>5, <2>6 DEF LookupsInv
<1> QED BY <1>5, <1>6

\* The verdicts that are answers go into the memo; then a second batch, or the entries.
LEMMA ApplyKeeps ==
  ASSUME LookupsInv, ApplyBatch
  PROVE  LookupsInv'
<1> DEFINE answers == Restrict(batchVerdicts, Definitive(batchVerdicts))
<1>1. /\ UNCHANGED <<aniList, memoBefore, passEntries, passTodo, passLive, result, failureRun>>
      /\ passAt = "apply" /\ memo' \in Answered(memo, answers)
  BY DEF ApplyBatch, passVars
<1>2. /\ DOMAIN answers \subseteq Ids
      /\ \A id \in DOMAIN answers :
           /\ answers[id].said = aniList[id] /\ answers[id].verdict \in {"found", "absent"}
           /\ answers[id].verdict = "found" <=> Found(id)
  BY DEF Restrict, Definitive, LookupsInv, VerdictsTrue, VerdictTrue
<1> HIDE DEF answers
<1>3. /\ MemoTrue' /\ NegativesAreAnswers'
      /\ \A id : LiveEntry(id) => LiveEntry(id)'
      /\ \A id \in DOMAIN memoBefore : TitleHeld(id) => TitleHeld(id)'
  BY <1>1, <1>2, AnswersKeep
<1>4. PICK retries \in BOOLEAN :
        /\ AskInBatches(IF retries THEN batchPending \ DOMAIN batchVerdicts ELSE {})
        /\ retries => batchPending \ DOMAIN batchVerdicts # batchPending
        /\ \E ids \in {batchPending, {}} : gate' = [gate EXCEPT !.outage = ids]
  BY Zenon DEF ApplyBatch
<1>5. /\ batchPending' \in SUBSET Ids /\ batchLeft' \in SUBSET Ids /\ batchVerdicts' = <<>>
      /\ passAt' \in {"batch", "entries"}
      /\ passAt' = "batch" => DOMAIN batchVerdicts # {}
  BY <1>4 DEF AskInBatches, LookupsInv, LookupTypeOK
<1>6. DOMAIN <<>> = {}
  OBVIOUS
<1>7. VerdictsTrue'
  BY <1>5, <1>6 DEF VerdictsTrue
<1>8. gate' \in [outage : SUBSET Ids, streak : 0..TransientFailureCap, tripped : BOOLEAN]
      /\ gate'.streak = gate.streak /\ gate'.tripped = gate.tripped
  BY <1>4 DEF LookupsInv, LookupTypeOK
<1>9. LookupTypeOK'
  BY <1>1, <1>5, <1>8 DEF LookupsInv, LookupTypeOK
<1>10. BreakerHolds'
  BY <1>1, <1>5, <1>6, <1>8 DEF LookupsInv, LookupTypeOK, BreakerHolds
<1>11. Matched' /\ LinksStand'
  BY <1>1, <1>3, <1>5 DEF LookupsInv, Underway, Matched, EntryServed, LinksStand
<1> QED BY <1>1, <1>3, <1>5, <1>7, <1>11, <1>9, <1>10 DEF LookupsInv, Underway

\* An entry that is next is one of those still to match.
LEMMA NextIsOne ==
  ASSUME LookupsInv, passTodo # {}
  PROVE  NextEntry \in passTodo /\ NextEntry \in passEntries /\ NextEntry \in Ids
<1>1. passTodo \in SUBSET Int /\ IsFiniteSet(passTodo)
  BY LookupsAssumption, FS_Subset DEF LookupsInv, LookupTypeOK
<1> QED BY <1>1, LeastOf DEF NextEntry, LookupsInv, LookupTypeOK

\* An entry matched on a memo that keeps its answers leaves the pass with its answer or its name,
\* and with the link that memo makes.
LEMMA MatchKeeps ==
  ASSUME LookupsInv, AtEntry, NEW m, NEW e, e = NextEntry, NEW incomplete \in {{}, {e}}, Matches(e, m, incomplete),
         MemoTrue', NegativesAreAnswers',
         \A id : LiveEntry(id) => LiveEntry(id)',
         \A id \in DOMAIN memoBefore : TitleHeld(id) => TitleHeld(id)',
         \A id : id # e => StaleMedia(m, id) = StaleMedia(memo, id),
         LiveEntry(e)' \/ e \in incomplete,
         passLive' \in BOOLEAN,
         gate' \in [outage : SUBSET Ids, streak : 0..TransientFailureCap, tripped : BOOLEAN],
         failureRun' \in Nat, failureRun' <= gate'.streak + 2,
         ~gate'.tripped => gate'.streak < TransientFailureCap
  PROVE  LookupsInv'
<1>1. /\ e \in passTodo /\ e \in passEntries
      /\ passAt = "entries" /\ passTodo' = passTodo \ {e} /\ memo' = m
      /\ UNCHANGED <<aniList, memoBefore, passKind, passEntries, passAt, batchPending, batchLeft, batchVerdicts>>
  BY NextIsOne DEF AtEntry, Matches, passVars, batchVars
<1>2. /\ result'.degraded = (result.degraded \/ incomplete # {})
      /\ result'.incomplete = result.incomplete \cup incomplete
      /\ result'.links = [other \in DOMAIN result.links \cup {e} |->
                            IF other = e THEN Linked(StaleMedia(m, e)) ELSE result.links[other]]
      /\ result' = [degraded |-> result'.degraded, incomplete |-> result'.incomplete, links |-> result'.links]
  BY DEF Matches
<1>3. LookupTypeOK'
  BY <1>1, <1>2 DEF LookupsInv, LookupTypeOK
<1>4. VerdictsTrue'
  BY <1>1 DEF LookupsInv, VerdictsTrue, VerdictTrue, Found
<1>5. BreakerHolds'
  BY <1>1, <1>3, LookupsAssumption DEF BreakerHolds, LookupTypeOK
<1>6. Matched /\ LinksStand /\ \A id \in DOMAIN memoBefore : TitleHeld(id)
  BY <1>1 DEF LookupsInv, Underway
<1>7. \A id \in passEntries' \ passTodo' : EntryServed(id)'
  BY <1>1, <1>2, <1>6 DEF Matched, EntryServed
<1>8. Matched'
  BY <1>1, <1>2, <1>6, <1>7 DEF Matched
<1>9. LinksStand'
  BY <1>1, <1>2, <1>6 DEF LinksStand
<1>10. \A id \in DOMAIN memoBefore' : TitleHeld(id)'
  BY <1>1, <1>6
<1> QED BY <1>1, <1>3, <1>4, <1>5, <1>8, <1>9, <1>10 DEF LookupsInv, Underway

\* A memo left as it is loses nothing.
LEMMA MemoStays ==
  ASSUME LookupsInv, memo' = memo, aniList' = aniList, memoBefore' = memoBefore
  PROVE  /\ MemoTrue' /\ NegativesAreAnswers'
         /\ \A id : LiveEntry(id)' <=> LiveEntry(id)
         /\ \A id \in DOMAIN memoBefore : TitleHeld(id) => TitleHeld(id)'
BY DEF LookupsInv, MemoTrue, NegativesAreAnswers, LiveEntry, TitleHeld

\* Each way the next entry is matched.
LEMMA EntryKeeps ==
  ASSUME LookupsInv,
         ServeMemo \/ ServeDown \/ FetchAnswers \/ FetchFailsTransiently \/ FetchCanceled
  PROVE  LookupsInv'
<1>1. /\ AtEntry /\ passAt = "entries" /\ UNCHANGED <<aniList, memoBefore>>
      /\ NextEntry \in Ids
  BY NextIsOne DEF ServeMemo, ServeDown, FetchAnswers, FetchFailsTransiently, FetchCanceled, Misses, AtEntry,
     Matches, passVars
<1>2. /\ failureRun \in Nat /\ failureRun <= gate.streak + 2 /\ passLive \in BOOLEAN
      /\ gate \in [outage : SUBSET Ids, streak : 0..TransientFailureCap, tripped : BOOLEAN]
      /\ ~gate.tripped => gate.streak < TransientFailureCap
  BY <1>1 DEF LookupsInv, LookupTypeOK, BreakerHolds
<1>3. PICK e : e = NextEntry
  OBVIOUS
<1>4. CASE ServeMemo
  <2>1. Matches(e, memo, {}) /\ memo' = memo /\ LiveEntry(e) /\ UNCHANGED <<passLive, gate, failureRun>>
    BY <1>3, <1>4 DEF ServeMemo, Matches
  <2> QED BY <1>3, <1>1, <1>2, <2>1, MemoStays, MatchKeeps
<1>5. CASE ServeDown
  <2>1. Matches(e, memo, {e}) /\ memo' = memo /\ UNCHANGED <<passLive, gate, failureRun>>
    BY <1>3, <1>5 DEF ServeDown, Matches
  <2> QED BY <1>3, <1>1, <1>2, <2>1, MemoStays, MatchKeeps
<1>6. CASE FetchCanceled
  <2>1. Matches(e, memo, {e}) /\ memo' = memo /\ UNCHANGED <<gate, failureRun>> /\ passLive' = FALSE
    BY <1>3, <1>6 DEF FetchCanceled, Matches
  <2> QED BY <1>3, <1>1, <1>2, <2>1, MemoStays, MatchKeeps
<1>7. CASE FetchFailsTransiently
  <2>1. Matches(e, memo, {e}) /\ memo' = memo /\ UNCHANGED passLive
    BY <1>3, <1>7 DEF FetchFailsTransiently, Matches
  <2>2. PICK full \in BOOLEAN : full <=> gate.streak + 1 = TransientFailureCap
    OBVIOUS
  <2>3. /\ failureRun' = failureRun + 1 /\ ~gate.tripped
        /\ gate' = [gate EXCEPT !.streak = @ + 1, !.tripped = full]
    BY <1>7, <2>2 DEF FetchFailsTransiently, Down
  <2>4. /\ gate'.streak = gate.streak + 1 /\ gate'.tripped = full
        /\ gate' \in [outage : SUBSET Ids, streak : 0..TransientFailureCap, tripped : BOOLEAN]
    <3>1. gate.streak + 1 \in 0..TransientFailureCap
      BY <1>2, <2>3, LookupsAssumption
    <3>2. PICK g : g = gate
      OBVIOUS
    <3>3. /\ g \in [outage : SUBSET Ids, streak : 0..TransientFailureCap, tripped : BOOLEAN]
          /\ gate' = [g EXCEPT !.streak = g.streak + 1, !.tripped = full] /\ g.streak + 1 \in 0..TransientFailureCap
      BY <1>2, <2>3, <3>1, <3>2
    <3> QED BY <3>2, <3>3
  <2>5. failureRun' <= gate'.streak + 2 /\ (~gate'.tripped => gate'.streak < TransientFailureCap)
    BY <1>2, <2>2, <2>3, <2>4, LookupsAssumption
  <2> QED BY <1>3, <1>1, <1>2, <2>1, <2>3, <2>4, <2>5, MemoStays, MatchKeeps
<1>8. CASE FetchAnswers
  <2> DEFINE answers == [id \in {e} |->
                           [said |-> aniList[id], verdict |-> IF Found(id) THEN "found" ELSE "absent"]]
  <2>1. /\ memo' \in Answered(memo, answers) /\ Matches(e, memo', {})
        /\ gate' = [gate EXCEPT !.streak = 0] /\ failureRun' = 0 /\ passLive' = passLive
    BY <1>3, <1>8 DEF FetchAnswers, Matches
  <2>2. /\ DOMAIN answers = {e}
        /\ \A id \in DOMAIN answers :
             /\ answers[id].said = aniList[id] /\ answers[id].verdict \in {"found", "absent"}
             /\ answers[id].verdict = "found" <=> Found(id)
    OBVIOUS
  <2> HIDE DEF answers
  <2>3. /\ MemoTrue' /\ NegativesAreAnswers' /\ LiveEntry(e)'
        /\ \A id : LiveEntry(id) => LiveEntry(id)'
        /\ \A id \in DOMAIN memoBefore : TitleHeld(id) => TitleHeld(id)'
        /\ \A id : id # e => StaleMedia(memo', id) = StaleMedia(memo, id)
    BY <1>3, <1>1, <2>1, <2>2, AnswersKeep
  <2>4. /\ gate' \in [outage : SUBSET Ids, streak : 0..TransientFailureCap, tripped : BOOLEAN]
        /\ gate'.streak = 0 /\ 0 < TransientFailureCap
    BY <1>2, <2>1, LookupsAssumption
  <2>5. failureRun' \in Nat /\ failureRun' <= gate'.streak + 2 /\ passLive' \in BOOLEAN
        /\ (~gate'.tripped => gate'.streak < TransientFailureCap)
    BY <1>2, <2>1, <2>4, LookupsAssumption
  <2>6. PICK m : m = memo'
    OBVIOUS
  <2> QED BY <1>3, <1>1, <2>1, <2>3, <2>4, <2>5, <2>6, MatchKeeps
<1> QED BY <1>4, <1>5, <1>6, <1>7, <1>8

\* An entry the map routes leaves the pass unasked.
LEMMA SkipKeeps ==
  ASSUME LookupsInv, SkipLookup
  PROVE  LookupsInv'
<1>1. PICK e : e = NextEntry
  OBVIOUS
<1>2. /\ e \in passTodo /\ e \in passEntries /\ ~NeedsLookup(e) /\ passAt = "entries"
      /\ passTodo' = passTodo \ {e}
      /\ UNCHANGED <<aniList, memo, memoBefore, passKind, passEntries, passAt, passLive, batchPending, batchLeft,
                     batchVerdicts, batchEnd, gate, result, failureRun>>
  BY <1>1, NextIsOne DEF SkipLookup, AtEntry, passVars, batchVars
<1>3. LookupTypeOK' /\ VerdictsTrue' /\ BreakerHolds'
  BY <1>2 DEF LookupsInv, LookupTypeOK, VerdictsTrue, VerdictTrue, Found, BreakerHolds
<1>4. Matched /\ LinksStand /\ \A id \in DOMAIN memoBefore : TitleHeld(id)
  BY <1>2 DEF LookupsInv, Underway
<1>5. Matched'
  BY <1>2, <1>4 DEF Matched, EntryServed, LiveEntry
<1>6. LinksStand'
  BY <1>2, <1>4 DEF LinksStand
<1> QED BY <1>2, <1>3, <1>4, <1>5, <1>6, MemoStays DEF LookupsInv

\* What pruning leaves, and what it takes.
LEMMA PrunedIs ==
  ASSUME LookupsInv, NEW next, next = PruneExpired(memo, passEntries)
  PROVE  /\ DOMAIN next \subseteq DOMAIN memo /\ \A id \in DOMAIN next : next[id] = memo[id]
         /\ \A id \in DOMAIN memo \ DOMAIN next :
              memo[id].life = 0 /\ (id \notin passEntries \/ memo[id].media = {})
<1>1. \A id \in DOMAIN memo : memo[id].life \in Nat
  BY DEF LookupsInv, MemoTrue, MemoEntries
<1> QED BY <1>1 DEF PruneExpired, Restrict

\* A pass ends with its answers and its links, whatever it prunes.
LEMMA EndKeeps ==
  ASSUME LookupsInv, EndPass
  PROVE  LookupsInv'
<1>1. /\ passAt = "entries" /\ passAt' = "done" /\ (passTodo = {} \/ ~passLive)
      /\ UNCHANGED <<aniList, memoBefore, passKind, passEntries, passTodo, passLive, batchPending, batchLeft,
                     batchVerdicts, batchEnd, gate, failureRun>>
  BY DEF EndPass, passVars, batchVars
<1>2. PICK degraded \in BOOLEAN :
        /\ degraded <=> result.degraded \/ ~passLive
        /\ result' = [result EXCEPT !.degraded = degraded]
        /\ memo' = IF passKind = "reconcile" /\ ~degraded THEN PruneExpired(memo, passEntries) ELSE memo
  BY DEF EndPass
<1>3. /\ result'.degraded = degraded /\ result'.incomplete = result.incomplete /\ result'.links = result.links
      /\ result' = [degraded |-> result'.degraded, incomplete |-> result'.incomplete, links |-> result'.links]
  <2>1. PICK r : r = result
    OBVIOUS
  <2>2. /\ r = [degraded |-> r.degraded, incomplete |-> r.incomplete, links |-> r.links]
        /\ result' = [r EXCEPT !.degraded = degraded]
    BY <1>2, <2>1 DEF LookupsInv, LookupTypeOK
  <2> QED BY <2>1, <2>2
<1>4. Matched /\ LinksStand /\ \A id \in DOMAIN memoBefore : TitleHeld(id)
  BY <1>1 DEF LookupsInv, Underway
<1>5. /\ DOMAIN memo' \subseteq DOMAIN memo /\ \A id \in DOMAIN memo' : memo'[id] = memo[id]
      /\ \A id \in DOMAIN memo \ DOMAIN memo' :
           /\ passKind = "reconcile" /\ ~degraded
           /\ memo[id].life = 0 /\ (id \notin passEntries \/ memo[id].media = {})
  BY <1>2, PrunedIs
<1>6. MemoTrue' /\ NegativesAreAnswers'
  BY <1>5 DEF LookupsInv, MemoTrue, NegativesAreAnswers
<1>7. \A id : LiveEntry(id) => LiveEntry(id)'
  BY <1>5 DEF LiveEntry
<1>8. NoSilentMiss'
  BY <1>1, <1>2, <1>3, <1>4, <1>7 DEF NoSilentMiss, Matched, EntryServed
<1>9. TitlesKept'
  BY <1>1, <1>3, <1>4, <1>5 DEF TitlesKept, TitleHeld
<1>10. \A id \in passEntries : StaleMedia(memo', id) = StaleMedia(memo, id)
  BY <1>5 DEF StaleMedia
<1>11. LinksStand'
  BY <1>3, <1>4, <1>10 DEF LinksStand, Matched
<1>12. LookupTypeOK' /\ VerdictsTrue' /\ BreakerHolds'
  BY <1>1, <1>3 DEF LookupsInv, LookupTypeOK, VerdictsTrue, VerdictTrue, Found, BreakerHolds
<1> QED BY <1>1, <1>6, <1>8, <1>9, <1>11, <1>12 DEF LookupsInv, Underway

\* The order to stop, and what happens between two passes.
LEMMA SurroundingsKeep ==
  ASSUME LookupsInv, Cancelled \/ Later
  PROVE  LookupsInv'
<1>1. CASE Cancelled
  <2>1. /\ UNCHANGED <<aniList, memo, memoBefore, passKind, passEntries, passAt, passTodo, batchPending, batchLeft,
                       batchVerdicts, batchEnd, gate, result, failureRun>>
        /\ passLive' = FALSE /\ passAt # "done"
    BY <1>1 DEF Cancelled, passVars, batchVars
  <2>2. LookupTypeOK' /\ VerdictsTrue' /\ BreakerHolds'
    BY <2>1 DEF LookupsInv, LookupTypeOK, VerdictsTrue, VerdictTrue, Found, BreakerHolds
  <2>3. Underway => Matched' /\ LinksStand' /\ \A id \in DOMAIN memoBefore' : TitleHeld(id)'
    BY <2>1, MemoStays DEF LookupsInv, Matched, EntryServed, LiveEntry, LinksStand
  <2> QED BY <2>1, <2>2, <2>3, MemoStays DEF LookupsInv, Underway
<1>2. CASE Later
  <2>1. /\ passAt' = "idle" /\ batchVerdicts' = <<>> /\ failureRun' = failureRun
        /\ memo' = [id \in DOMAIN memo |-> [memo[id] EXCEPT !.life = IF @ > 0 THEN @ - 1 ELSE 0]]
    BY <1>2 DEF Later
  <2>2. \A id \in DOMAIN memo : /\ memo'[id] \in MemoEntries /\ memo'[id].media = memo[id].media
                                /\ memo'[id].was = memo[id].was
    <3> SUFFICES ASSUME NEW id \in DOMAIN memo
                 PROVE  memo'[id] \in MemoEntries /\ memo'[id].media = memo[id].media /\ memo'[id].was = memo[id].was
      OBVIOUS
    <3>1. memo[id] \in MemoEntries
      BY DEF LookupsInv, MemoTrue
    <3>2. PICK left : left = IF memo[id].life > 0 THEN memo[id].life - 1 ELSE 0
      OBVIOUS
    <3>3. left \in Nat /\ memo'[id] = [memo[id] EXCEPT !.life = left]
      BY <2>1, <3>1, <3>2 DEF MemoEntries
    <3> QED BY <3>1, <3>3 DEF MemoEntries
  <2>3. MemoTrue' /\ NegativesAreAnswers'
    BY <2>1, <2>2 DEF LookupsInv, MemoTrue, NegativesAreAnswers
  <2>4. DOMAIN <<>> = {}
    OBVIOUS
  <2>5. VerdictsTrue'
    BY <2>1, <2>4 DEF VerdictsTrue
  <2>6. LookupTypeOK'
    BY <1>2, LookupsAssumption DEF LookupsInv, LookupTypeOK, Later, Missing
  <2>7. BreakerHolds'
    BY <1>2, <2>1, LookupsAssumption DEF LookupsInv, BreakerHolds, Later
  <2> QED BY <2>1, <2>3, <2>5, <2>6, <2>7 DEF LookupsInv, Underway
<1> QED BY <1>1, <1>2

\* A memo as it may be loaded is true.
LEMMA LookupsBegin == LookupsInit => LookupsInv
<1> SUFFICES ASSUME LookupsInit PROVE LookupsInv
  OBVIOUS
<1>1. DOMAIN <<>> = {}
  OBVIOUS
<1>2. MemoTrue /\ NegativesAreAnswers
  BY LookupsAssumption DEF LookupsInit, MemoTrue, NegativesAreAnswers, MemoEntries, Missing
<1>3. LookupTypeOK
  BY LookupsAssumption DEF LookupsInit, LookupTypeOK, Missing
<1>4. VerdictsTrue /\ BreakerHolds
  BY <1>1, LookupsAssumption DEF LookupsInit, VerdictsTrue, BreakerHolds
<1> QED BY <1>2, <1>3, <1>4 DEF LookupsInit, LookupsInv, Underway

\* Every step of the lookups preserves the invariant.
LEMMA LookupsStep == LookupsInv /\ LookupsNext => LookupsInv'
<1> SUFFICES ASSUME LookupsInv, LookupsNext PROVE LookupsInv'
  OBVIOUS
<1>1. CASE BeginPass("reconcile", Ids) \/ \E entries \in Windows : BeginPass("tick", entries)
  BY <1>1, LookupsAssumption, BeginKeeps
<1>2. CASE (\E poisoned \in SUBSET {id \in Chunk : Found(id)} : ChunkAnswers(poisoned, FALSE))
           \/ ChunkAnswers({}, TRUE) \/ ChunkFails
  <2>1. {} \in SUBSET {id \in Chunk : Found(id)}
    OBVIOUS
  <2> QED BY <1>2, <2>1, BatchKeeps
<1>3. CASE ServeMemo \/ ServeDown \/ FetchAnswers \/ FetchFailsTransiently \/ FetchCanceled
  BY <1>3, EntryKeeps
<1>4. CASE ApplyBatch \/ SkipLookup \/ EndPass \/ Cancelled \/ Later
  BY <1>4, ApplyKeeps, SkipKeeps, EndKeeps, SurroundingsKeep
<1> QED BY <1>1, <1>2, <1>3, <1>4 DEF LookupsNext

\* So does none at all.
LEMMA LookupsStutter == LookupsInv /\ UNCHANGED lookupVars => LookupsInv'
<1> SUFFICES ASSUME LookupsInv, UNCHANGED lookupVars PROVE LookupsInv'
  OBVIOUS
<1> USE DEF lookupVars
<1>1. LookupTypeOK' /\ VerdictsTrue' /\ BreakerHolds'
  BY DEF LookupsInv, LookupTypeOK, VerdictsTrue, VerdictTrue, Found, BreakerHolds
<1>2. Underway => Matched' /\ LinksStand' /\ \A id \in DOMAIN memoBefore' : TitleHeld(id)'
  BY MemoStays DEF LookupsInv, Matched, EntryServed, LiveEntry, LinksStand
<1>3. passAt = "done" => NoSilentMiss' /\ TitlesKept' /\ LinksStand'
  BY DEF LookupsInv, NoSilentMiss, LiveEntry, TitlesKept, LinksStand
<1> QED BY <1>1, <1>2, <1>3, MemoStays DEF LookupsInv, Underway

\* The invariant says what a pass promises.
LEMMA LookupsInvIsWhole == LookupsInv => LookupsWhole
BY DEF LookupsInv, LookupsWhole, BreakerHolds

(* A pass ends with an answer or a name for every id it needed, keeps the      *)
(* titles it loaded and the links it made, and asks a failing AniList no more  *)
(* than the breaker allows (LookupsWhole).                                     *)
THEOREM LookupsAreWhole == LookupsSpec => []LookupsWhole
<1>1. LookupsInv /\ [LookupsNext]_lookupVars => LookupsInv'
  BY LookupsStep, LookupsStutter
<1> QED BY <1>1, LookupsBegin, LookupsInvIsWhole, PTL DEF LookupsSpec

------------------------------------------------------------------------------
(* The title harvest.                                                          *)

\* A show on a tracker; a cursor may name none.
Groups == Nat \X Nat
Cursor == Groups \cup {NoCursor}

\* The groups stand in a line.
LEMMA BeforeIs ==
  /\ \A g \in Groups : ~Before(g, g)
  /\ \A g, h \in Groups : g # h => Before(g, h) \/ Before(h, g)
  /\ \A g, h, x \in Groups : Before(g, h) /\ Before(h, x) => Before(g, x)
BY DEF Groups, Before, Scope, Al

\* So they do seen from a cursor.
LEMMA AheadIs ==
  ASSUME NEW c \in Cursor
  PROVE  /\ \A g, h \in Groups : Ahead(c, g, h) => ~Ahead(c, h, g) /\ g # h
         /\ \A g, h, x \in Groups : Ahead(c, g, h) /\ Ahead(c, h, x) => Ahead(c, g, x)
BY BeforeIs DEF Ahead, PastCursor, Cursor

\* The cursor's own group is at the end.
LEMMA CursorIsLast ==
  ASSUME NEW g \in Groups, NEW x \in Groups, x # g
  PROVE  Ahead(g, x, g)
BY BeforeIs, HarvestAssumption DEF Ahead, PastCursor, Groups

\* What lies beyond a group keeps its order when the cursor moves to the group.
LEMMA OrderCarries ==
  ASSUME NEW c \in Cursor, NEW g \in Groups, NEW x \in Groups, NEW y \in Groups,
         Ahead(c, g, x), Ahead(c, g, y)
  PROVE  Ahead(c, x, y) <=> Ahead(g, x, y)
BY BeforeIs, HarvestAssumption DEF Ahead, PastCursor, Cursor, Groups

\* What lies before a cursor's goal still does once the cursor has moved up to something on the way.
LEMMA WayShortens ==
  ASSUME NEW c \in Cursor, NEW g \in Groups, NEW x \in Groups, NEW y \in Groups,
         Ahead(c, g, x), Ahead(c, x, y)
  PROVE  Ahead(g, x, y)
BY AheadIs, OrderCarries

\* Of some groups one comes first.
LEMMA FirstGroup ==
  ASSUME NEW S \in SUBSET Groups, S # {}
  PROVE  \E g \in S : \A h \in S \ {g} : Before(g, h)
<1> DEFINE Scopes == {Scope(g) : g \in S}
<1>1. Scopes \in SUBSET Nat /\ Scopes # {}
  BY DEF Groups, Scope
<1>2. PICK s \in Scopes : \A t \in Scopes : s <= t
  <2> HIDE DEF Scopes
  <2> QED BY <1>1, LeastNumber
<1> DEFINE Als == {Al(g) : g \in {h \in S : Scope(h) = s}}
<1>3. Als \in SUBSET Nat /\ Als # {}
  BY <1>2 DEF Groups, Al
<1>4. PICK a \in Als : \A b \in Als : a <= b
  <2> HIDE DEF Als
  <2> QED BY <1>3, LeastNumber
<1>5. PICK g \in S : Scope(g) = s /\ Al(g) = a
  BY <1>4
<1>6. ASSUME NEW h \in S, h # g PROVE Before(g, h)
  <2>1. s <= Scope(h) /\ (Scope(h) = s => a <= Al(h))
    BY <1>2, <1>4
  <2>2. g \in Groups /\ h \in Groups
    OBVIOUS
  <2> QED BY <1>5, <1>6, <2>1, <2>2 DEF Before, Groups, Scope, Al
<1> QED BY <1>6

\* The group a rebuild goes on with is ahead of all others it has left.
LEMMA NextIsFirst ==
  ASSUME rotation \in SUBSET Groups, rotation # {}, rotationFrom \in Cursor
  PROVE  NextGroup \in rotation /\ \A h \in rotation \ {NextGroup} : Ahead(rotationFrom, NextGroup, h)
<1> DEFINE Rest == {g \in rotation : PastCursor(rotationFrom, g)}
<1>1. \E g \in rotation : \A h \in rotation \ {g} : Ahead(rotationFrom, g, h)
  <2>1. CASE Rest # {}
    <3>1. PICK g \in Rest : \A h \in Rest \ {g} : Before(g, h)
      BY <2>1, FirstGroup
    <3> QED BY <3>1 DEF Ahead
  <2>2. CASE Rest = {}
    <3>1. PICK g \in rotation : \A h \in rotation \ {g} : Before(g, h)
      BY FirstGroup
    <3> QED BY <2>2, <3>1 DEF Ahead
  <2> QED BY <2>1, <2>2
<1> QED BY <1>1 DEF NextGroup

\* The latches of a scope.
Latch == [failed : BOOLEAN, malformed : Nat, rejected : Nat, fruitless : Nat]

\* A fruitless show is counted, and forgives no scope that was given up on.
LEMMA ChargedIs ==
  ASSUME NEW l \in Latch
  PROVE  Charged(l) \in Latch /\ (l.failed => Charged(l).failed)
<1>1. PICK n \in Nat : n = l.fruitless + 1
  BY DEF Latch
<1>2. PICK f \in BOOLEAN : f <=> l.failed \/ n >= FruitlessLatch
  OBVIOUS
<1>3. Charged(l) = [l EXCEPT !.fruitless = n, !.failed = f]
  BY <1>1, <1>2 DEF Charged, Latch
<1>4. [l EXCEPT !.fruitless = n, !.failed = f] \in Latch
      /\ [l EXCEPT !.fruitless = n, !.failed = f].failed = f
  BY DEF Latch
<1> QED BY <1>2, <1>3, <1>4

\* A show's outcome leaves the latches of its scope what they are, and takes none back in the rebuild.
LEMMA UpdateIs ==
  ASSUME NEW l \in Latch, NEW outcome, NEW contradicted
  PROVE  UpdateScope(l, outcome, contradicted) \in Latch
         /\ (l.failed => UpdateScope(l, outcome, contradicted).failed)
<1>1. CASE outcome = "scope"
  <2>1. [l EXCEPT !.failed = TRUE] \in Latch /\ [l EXCEPT !.failed = TRUE].failed
    BY DEF Latch
  <2> QED BY <1>1, <2>1, ChargedIs DEF UpdateScope
<1>2. CASE outcome = "malformed"
  <2>1. PICK n \in Nat : n = l.malformed + 1
    BY DEF Latch
  <2>2. PICK f \in BOOLEAN : f <=> l.failed \/ n >= MalformedLatch
    OBVIOUS
  <2>3. PICK u \in Latch : u = [l EXCEPT !.rejected = 0, !.malformed = n, !.failed = f]
    BY DEF Latch
  <2>4. u.failed = f
    BY <2>3 DEF Latch
  <2>5. UpdateScope(l, outcome, contradicted) = Charged(u)
    BY <1>2, <2>1, <2>2, <2>3 DEF UpdateScope, Latch
  <2> QED BY <2>2, <2>4, <2>5, ChargedIs
<1>3. CASE outcome = "rejected"
  <2>1. PICK n \in Nat : n = l.rejected + 1
    BY DEF Latch
  <2>2. PICK f \in BOOLEAN : f <=> l.failed \/ n >= RejectedLatch
    OBVIOUS
  <2>3. PICK u \in Latch : u = [l EXCEPT !.malformed = 0, !.rejected = n, !.failed = f]
    BY DEF Latch
  <2>4. u.failed = f
    BY <2>3 DEF Latch
  <2>5. UpdateScope(l, outcome, contradicted) = Charged(u)
    BY <1>3, <2>1, <2>2, <2>3 DEF UpdateScope, Latch
  <2> QED BY <2>2, <2>4, <2>5, ChargedIs
<1>4. CASE outcome = "ok" /\ contradicted
  <2>1. PICK u \in Latch : u = [l EXCEPT !.malformed = 0, !.rejected = 0]
    BY DEF Latch
  <2>2. u.failed = l.failed
    BY <2>1 DEF Latch
  <2>3. UpdateScope(l, outcome, contradicted) = Charged(u)
    BY <1>4, <2>1 DEF UpdateScope
  <2> QED BY <2>2, <2>3, ChargedIs
<1>5. CASE outcome \notin {"scope", "malformed", "rejected"} /\ ~(outcome = "ok" /\ contradicted)
  <2>1. PICK u \in Latch : u = [l EXCEPT !.malformed = 0, !.rejected = 0, !.fruitless = 0]
    BY DEF Latch
  <2>2. u.failed = l.failed
    BY <2>1 DEF Latch
  <2>3. UpdateScope(l, outcome, contradicted) = u
    BY <1>5, <2>1 DEF UpdateScope
  <2> QED BY <2>2, <2>3
<1> QED BY <1>1, <1>2, <1>3, <1>4, <1>5

\* Of the two groups watched, the one asked about and the one owed a query.
Asked1 == rotationWatch.group
Other == rotationWatch.other
Shows(g) == harvestAt = "show" /\ show.group = g
\* The groups this rebuild has not asked about to the end.
Left == rotation \cup {g \in {show.group} : harvestAt = "show"}
\* The other is due a query now; the first had one of its show.
OwedNow == Owed(journal, titled, latches)
AtWork == Shows(Asked1) /\ show.tried > 0

\* The shape of the state.
HarvestTypeOK ==
  /\ journal \in Journals
  /\ rotationCursor \in Cursor /\ rotationFrom \in Cursor /\ rotation \in SUBSET Groups
  /\ harvestAt \in {"idle", "rotate", "show"}
  /\ show \in [group : Cursor, tried : Nat, matched : BOOLEAN, refused : BOOLEAN]
  /\ harvestAt = "show" => show.group \in Groups \ rotation
  /\ rotationWatch \in [group : Groups, other : Groups, owed : {"no", "owed", "overtaken"}]
  /\ Asked1 # Other
  /\ \A s \in DOMAIN latches : latches[s] \in Latch
  /\ Scope(Other) \in DOMAIN latches

\* A title came from a result that claimed its key alone.
TitledOwn == \A key \in DOMAIN titled : titled[key] = {key}

\* A rebuild goes on from its cursor as it would from where it began.
OrderKept ==
  harvestAt # "idle" =>
    /\ \A g, h \in Left : Ahead(rotationFrom, g, h) <=> Ahead(rotationCursor, g, h)
    /\ harvestAt = "show" => \A g \in rotation : Ahead(rotationCursor, show.group, g)

\* A group owed a query that this rebuild is through with comes after all that is left.
OtherBehind ==
  harvestAt # "idle" /\ OwedNow /\ Other \notin Left => \A g \in Left : Ahead(rotationCursor, g, Other)

\* Once the first was asked about, the other comes first: in the order, and in the rebuild.
OtherFirst ==
  rotationWatch.owed = "owed" =>
    /\ OwedNow
    /\ AtWork \/ Ahead(rotationCursor, Other, Asked1)
    /\ harvestAt # "idle" /\ Asked1 \in Left => AtWork \/ Other \in Left
    /\ ~(Shows(Other) /\ show.tried > 0)

\* What every step of a harvest preserves: the second group's query is next once the first had its own.
HarvestInv ==
  /\ HarvestTypeOK /\ TitledOwn /\ OrderKept /\ OtherBehind /\ OtherFirst
  /\ rotationWatch.owed # "overtaken"
  /\ Shows(Asked1) /\ rotationWatch.owed = "owed" => show.tried > 0
\* The watch follows its two groups; what is owed is forgotten once it is not due.
LEMMA WatchIs ==
  ASSUME HarvestTypeOK, NEW o \in {"no", "owed", "overtaken"}, Watch(o)
  PROVE  /\ rotationWatch' \in [group : Groups, other : Groups, owed : {"no", "owed", "overtaken"}]
         /\ Asked1' = Asked1 /\ Other' = Other
         /\ rotationWatch'.owed = "owed" => o = "owed" /\ OwedNow'
         /\ rotationWatch'.owed = "overtaken" => o = "overtaken"
<1>1. PICK p \in {"no", "owed", "overtaken"} :
        /\ p = IF o = "owed" /\ ~Owed(journal', titled', latches') THEN "no" ELSE o
        /\ rotationWatch' = [rotationWatch EXCEPT !.owed = p]
  BY DEF Watch
<1>2. rotationWatch'.other = rotationWatch.other /\ rotationWatch'.owed = p
  BY <1>1 DEF HarvestTypeOK
<1>3. Owed(journal', titled', latches') <=> OwedNow'
  BY <1>2 DEF OwedNow, Owed
<1> QED BY <1>1, <1>2, <1>3 DEF HarvestTypeOK, Asked1, Other

\* What is owed now is what a rebuild would ask for.
LEMMA OwedIs == OwedNow <=> GroupPending(Other) /\ ~Blocked(Other)
BY DEF OwedNow, Owed, GroupPending, Blocked, Other

\* A query of the rebuild may settle what was owed, and makes nothing owed.
LEMMA OwedOnlyEnds ==
  ASSUME journal' = journal, Other' = Other, DOMAIN titled \subseteq DOMAIN titled',
         latches[Scope(Other)].failed => latches'[Scope(Other)].failed, OwedNow'
  PROVE  OwedNow
BY DEF OwedNow, Owed, GroupKeys, Queryable, Other

\* A rebuild begins with every group a query is owed to.
LEMMA BeginKeepsOrder ==
  ASSUME HarvestInv, NEW items \in Journals, BeginRebuild(items)
  PROVE  HarvestInv'
<1>1. /\ harvestAt = "idle" /\ harvestAt' = "rotate" /\ journal' = items
      /\ rotation' = GroupsOf(Pending(items)) /\ rotationFrom' = rotationCursor
      /\ latches' = [s \in DOMAIN latches |-> Fresh]
      /\ UNCHANGED <<titled, rotationCursor, show>> /\ Watch(rotationWatch.owed)
  BY DEF BeginRebuild
<1>2. HarvestTypeOK /\ rotationWatch.owed \in {"no", "owed", "overtaken"} /\ Other \in Groups
  BY DEF HarvestInv, HarvestTypeOK, Other
<1>3. /\ rotationWatch' \in [group : Groups, other : Groups, owed : {"no", "owed", "overtaken"}]
      /\ Asked1' = Asked1 /\ Other' = Other
      /\ rotationWatch'.owed = "owed" => rotationWatch.owed = "owed" /\ OwedNow'
      /\ rotationWatch'.owed = "overtaken" => rotationWatch.owed = "overtaken"
  BY <1>1, <1>2, WatchIs
<1>4. rotation' \in SUBSET Groups
  <2>1. \A it \in Pending(items) : Group(it.feed, it.al) \in Groups
    BY HarvestAssumption DEF Pending, Group, Groups
  <2> QED BY <1>1, <2>1 DEF GroupsOf
<1>5. Fresh \in Latch
  BY DEF Fresh, Latch
<1>6. OwedNow' => Other' \in rotation'
  <2> SUFFICES ASSUME OwedNow' PROVE Other' \in rotation'
    OBVIOUS
  <2>1. PICK key \in GroupKeys(items, Other) : key \notin DOMAIN titled
    BY <1>1, <1>3 DEF OwedNow, Owed, GroupKeys, Queryable, Other
  <2>2. PICK it \in items : Queryable(it) /\ it.feed = Scope(Other) /\ it.al = Al(Other) /\ it.key = key
    BY <2>1 DEF GroupKeys
  <2>3. it \in Pending(items) /\ Group(it.feed, it.al) = Other
    BY <1>2, <2>1, <2>2 DEF Pending, Group, Groups, Scope, Al
  <2> QED BY <1>1, <1>3, <2>3 DEF GroupsOf
<1>7. HarvestTypeOK'
  BY <1>1, <1>2, <1>3, <1>4, <1>5 DEF HarvestTypeOK
<1>8. TitledOwn' /\ OrderKept'
  BY <1>1 DEF HarvestInv, TitledOwn, OrderKept
<1>9. OtherBehind'
  BY <1>6 DEF OtherBehind, Left
<1>10. OtherFirst'
  BY <1>1, <1>3, <1>6 DEF HarvestInv, OtherFirst, AtWork, Shows, Left
<1> QED BY <1>1, <1>3, <1>7, <1>8, <1>9, <1>10 DEF HarvestInv, Shows

\* What is owed outlives the rebuild, whose latches go with it.
LEMMA EndKeepsOrder == HarvestInv /\ EndRebuild => HarvestInv'
<1> SUFFICES ASSUME HarvestInv, EndRebuild PROVE HarvestInv'
  OBVIOUS
<1>1. /\ harvestAt = "rotate" /\ harvestAt' = "idle" /\ rotation' = {} /\ rotationFrom' = NoCursor
      /\ latches' = [s \in DOMAIN latches |-> Fresh]
      /\ UNCHANGED <<journal, titled, rotationCursor, show, rotationWatch>>
  BY DEF EndRebuild
<1>2. Fresh \in Latch /\ ~Fresh.failed
  BY DEF Fresh, Latch
<1>3. HarvestTypeOK'
  BY <1>1, <1>2 DEF HarvestInv, HarvestTypeOK, Asked1, Other, Cursor
<1>4. OwedNow => OwedNow'
  BY <1>1, <1>2 DEF HarvestInv, HarvestTypeOK, OwedNow, Owed, Other, GroupKeys, Queryable
<1>5. OtherFirst'
  BY <1>1, <1>4 DEF HarvestInv, OtherFirst, AtWork, Shows, Asked1, Other
<1> QED BY <1>1, <1>3, <1>5 DEF HarvestInv, TitledOwn, OrderKept, OtherBehind, Shows

\* A group passed over is owed nothing.
LEMMA PassKeepsOrder == HarvestInv /\ PassGroup => HarvestInv'
<1> SUFFICES ASSUME HarvestInv, PassGroup PROVE HarvestInv'
  OBVIOUS
<1>1. PICK g \in rotation : g = NextGroup
  BY NextIsFirst DEF PassGroup, HarvestInv, HarvestTypeOK
<1>2. /\ harvestAt = "rotate" /\ rotation' = rotation \ {g} /\ (~GroupPending(g) \/ Blocked(g))
      /\ UNCHANGED <<journal, titled, rotationCursor, rotationFrom, harvestAt, show, latches, rotationWatch>>
  BY <1>1 DEF PassGroup
<1>3. (OwedNow' <=> OwedNow) /\ Asked1' = Asked1 /\ Other' = Other
  BY <1>2 DEF OwedNow, Owed, Other, Asked1, GroupKeys, Queryable
<1>4. OwedNow => g # Other
  BY <1>2, OwedIs
<1>5. HarvestTypeOK'
  BY <1>2 DEF HarvestInv, HarvestTypeOK, Asked1, Other
<1>6. Left = rotation /\ Left' = rotation \ {g}
  BY <1>2 DEF Left
<1>7. TitledOwn' /\ OrderKept'
  BY <1>2, <1>6 DEF HarvestInv, TitledOwn, OrderKept
<1>8. OtherBehind'
  BY <1>2, <1>3, <1>4, <1>6 DEF HarvestInv, OtherBehind
<1>9. OtherFirst'
  BY <1>2, <1>3, <1>4, <1>6 DEF HarvestInv, OtherFirst, AtWork, Shows
<1> QED BY <1>2, <1>5, <1>7, <1>8, <1>9 DEF HarvestInv, Shows

\* The first of two watched groups is not asked about while the other is owed a query.
LEMMA ShowKeepsOrder == HarvestInv /\ BeginShow => HarvestInv'
<1> SUFFICES ASSUME HarvestInv, BeginShow PROVE HarvestInv'
  OBVIOUS
<1>1. PICK g \in rotation : g = NextGroup /\ \A h \in rotation \ {g} : Ahead(rotationFrom, g, h)
  BY NextIsFirst DEF BeginShow, HarvestInv, HarvestTypeOK
<1>2. /\ harvestAt = "rotate" /\ harvestAt' = "show" /\ rotation' = rotation \ {g}
      /\ show' = [NoShow EXCEPT !.group = g]
      /\ UNCHANGED <<journal, titled, rotationCursor, rotationFrom, latches, rotationWatch>>
  BY <1>1 DEF BeginShow
<1>3. (OwedNow' <=> OwedNow) /\ Asked1' = Asked1 /\ Other' = Other
  BY <1>2 DEF OwedNow, Owed, Other, Asked1, GroupKeys, Queryable
<1>4. /\ show' \in [group : Cursor, tried : Nat, matched : BOOLEAN, refused : BOOLEAN]
      /\ show'.group = g /\ show'.tried = 0 /\ g \in Groups
  BY <1>2 DEF NoShow, Cursor, HarvestInv, HarvestTypeOK
<1>5. Left = rotation /\ Left' = rotation
  BY <1>2, <1>4 DEF Left
<1>6. \A h \in rotation \ {g} : Ahead(rotationCursor, g, h)
  BY <1>1, <1>2, <1>5 DEF HarvestInv, OrderKept
<1>7. HarvestTypeOK'
  BY <1>2, <1>4 DEF HarvestInv, HarvestTypeOK, Asked1, Other
<1>8. TitledOwn' /\ OtherBehind'
  BY <1>2, <1>3, <1>5 DEF HarvestInv, TitledOwn, OtherBehind
<1>9. OrderKept'
  BY <1>2, <1>4, <1>5, <1>6 DEF HarvestInv, OrderKept
<1>10. OtherFirst'
  BY <1>2, <1>3, <1>4, <1>5 DEF HarvestInv, OtherFirst, AtWork, Shows
<1>11. ~(Asked1 = g /\ rotationWatch.owed = "owed")
  <2> SUFFICES ASSUME Asked1 = g, rotationWatch.owed = "owed" PROVE FALSE
    OBVIOUS
  <2>1. Ahead(rotationCursor, Other, Asked1) /\ Other \in rotation /\ Other # Asked1
    BY <1>2, <1>5 DEF HarvestInv, HarvestTypeOK, OtherFirst, AtWork, Shows
  <2>2. Ahead(rotationCursor, Asked1, Other)
    BY <1>6, <2>1
  <2> QED BY <1>4, <2>1, <2>2, AheadIs DEF HarvestInv, HarvestTypeOK
<1> QED BY <1>2, <1>3, <1>4, <1>7, <1>8, <1>9, <1>10, <1>11 DEF HarvestInv, Shows

\* The end of a show: its latches are brought up to date, and no scope is forgiven.
LEMMA FinishIs ==
  ASSUME HarvestInv, harvestAt = "show", NEW outcome, NEW queries, NEW matched, NEW refused,
         FinishShow(outcome, queries, matched, refused)
  PROVE  /\ harvestAt' = "rotate" /\ show' = NoShow
         /\ rotationCursor' = IF queries > 0 THEN show.group ELSE rotationCursor
         /\ DOMAIN latches' = DOMAIN latches /\ \A s \in DOMAIN latches' : latches'[s] \in Latch
         /\ latches[Scope(Other)].failed => latches'[Scope(Other)].failed
         /\ show' \in [group : Cursor, tried : Nat, matched : BOOLEAN, refused : BOOLEAN]
<1>1. PICK judged, contradicted :
        latches' = [latches EXCEPT ![Scope(show.group)] = UpdateScope(@, judged, contradicted)]
  BY DEF FinishShow
<1>2. harvestAt' = "rotate" /\ show' = NoShow /\ rotationCursor' = IF queries > 0 THEN show.group ELSE rotationCursor
  BY DEF FinishShow
<1>3. \A s \in DOMAIN latches : latches[s] \in Latch
  BY DEF HarvestInv, HarvestTypeOK
<1>4. DOMAIN latches' = DOMAIN latches
  BY <1>1
<1>5. \A s \in DOMAIN latches :
        latches'[s] = latches[s] \/ latches'[s] = UpdateScope(latches[s], judged, contradicted)
  BY <1>1
<1>6. Scope(Other) \in DOMAIN latches
  BY DEF HarvestInv, HarvestTypeOK
<1>7. \A s \in DOMAIN latches : latches'[s] \in Latch /\ (latches[s].failed => latches'[s].failed)
  BY <1>3, <1>5, UpdateIs
<1> QED BY <1>2, <1>4, <1>6, <1>7 DEF NoShow, Cursor

\* Once a show was queried, the order goes on behind it, and it is not asked about before the other.
LEMMA QueriedKeepsOrder ==
  ASSUME HarvestInv, harvestAt = "show", harvestAt' = "rotate", show' = NoShow,
         rotationCursor' = show.group, rotation' = rotation \/ rotation' = {},
         rotationFrom' = rotationFrom, Asked1' = Asked1, Other' = Other,
         OwedNow' => OwedNow,
         rotationWatch'.owed = "owed" =>
           OwedNow' /\ show.group # Other /\ (show.group = Asked1 \/ rotationWatch.owed = "owed")
  PROVE  OrderKept' /\ OtherBehind' /\ OtherFirst'
<1>1. PICK c \in Cursor, g \in Groups, x \in Groups, y \in Groups :
        c = rotationCursor /\ g = show.group /\ x = Asked1 /\ y = Other
  BY DEF HarvestInv, HarvestTypeOK, Asked1, Other
<1>2. /\ Left = rotation \cup {g} /\ g \notin rotation /\ rotation \in SUBSET Groups /\ x # y
      /\ Left' = rotation'
  BY <1>1 DEF Left, HarvestInv, HarvestTypeOK
<1>3. /\ \A h \in rotation : Ahead(c, g, h)
      /\ \A h, k \in Left : Ahead(rotationFrom, h, k) <=> Ahead(c, h, k)
  BY <1>1 DEF HarvestInv, OrderKept
<1>4. OrderKept'
  <2>1. \A h, k \in rotation : Ahead(rotationFrom, h, k) <=> Ahead(g, h, k)
    BY <1>2, <1>3, OrderCarries
  <2> QED BY <1>1, <1>2, <2>1 DEF OrderKept
<1>5. ASSUME OwedNow, y # g PROVE Ahead(c, g, y)
  <2>1. CASE y \in rotation
    BY <1>3, <2>1
  <2>2. CASE y \notin rotation
    BY <1>1, <1>2, <1>5, <2>2 DEF HarvestInv, OtherBehind
  <2> QED BY <2>1, <2>2
<1>6. OtherBehind'
  <2>1. ASSUME OwedNow', y \notin rotation', NEW h \in rotation' PROVE Ahead(g, h, y)
    <3>1. h \in rotation /\ rotation' = rotation /\ h # g /\ h \in Groups
      BY <1>2, <2>1
    <3>2. CASE y = g
      BY <3>1, <3>2, CursorIsLast
    <3>3. CASE y # g
      <4>1. Ahead(c, g, h)
        BY <1>3, <3>1
      <4>2. Ahead(c, h, y)
        BY <1>1, <1>2, <2>1, <3>1, <3>3 DEF HarvestInv, OtherBehind
      <4> QED BY <3>1, <4>1, <4>2, WayShortens
    <3> QED BY <3>2, <3>3
  <2> QED BY <1>1, <1>2, <2>1 DEF OtherBehind
<1>7. OtherFirst'
  <2>1. ASSUME rotationWatch'.owed = "owed" PROVE Ahead(g, y, x) /\ (x \in rotation' => y \in rotation')
    <3>1. OwedNow' /\ OwedNow /\ g # y /\ (g = x \/ rotationWatch.owed = "owed")
      BY <1>1, <2>1
    <3>2. CASE g = x
      BY <1>2, <3>1, <3>2, CursorIsLast
    <3>3. CASE g # x
      <4>1. ~AtWork /\ rotationWatch.owed = "owed"
        BY <1>1, <3>1, <3>3 DEF AtWork, Shows
      <4>2. Ahead(c, y, x) /\ (x \in Left => y \in Left)
        BY <1>1, <4>1 DEF HarvestInv, OtherFirst
      <4>3. Ahead(c, g, y)
        BY <1>5, <3>1
      <4>4. Ahead(g, y, x)
        BY <4>2, <4>3, WayShortens
      <4> QED BY <1>2, <3>1, <4>2, <4>4
    <3> QED BY <3>2, <3>3
  <2> QED BY <1>1, <1>2, <2>1 DEF OtherFirst, AtWork, Shows
<1> QED BY <1>4, <1>6, <1>7

\* A query asks about the group it shows, and no other.
LEMMA QueriedIs ==
  ASSUME HarvestInv, harvestAt = "show", Queried(show.group)
  PROVE  /\ rotationWatch' \in [group : Groups, other : Groups, owed : {"no", "owed", "overtaken"}]
         /\ Asked1' = Asked1 /\ Other' = Other
         /\ rotationWatch'.owed # "overtaken"
         /\ rotationWatch'.owed = "owed" =>
              OwedNow' /\ show.group # Other /\ (show.group = Asked1 \/ rotationWatch.owed = "owed")
<1>1. PICK o \in {"no", "owed", "overtaken"} :
        /\ o = IF show.group = rotationWatch.other THEN "no"
               ELSE IF show.group # rotationWatch.group \/ show.tried > 0 THEN rotationWatch.owed
               ELSE IF rotationWatch.owed = "no" THEN "owed" ELSE "overtaken"
        /\ Watch(o)
  <2>1. rotationWatch.owed \in {"no", "owed", "overtaken"}
    BY DEF HarvestInv, HarvestTypeOK
  <2> QED BY <2>1 DEF Queried
<1>2. HarvestTypeOK
  BY DEF HarvestInv
<1>3. o # "overtaken"
  BY <1>1, <1>2 DEF HarvestInv, HarvestTypeOK, Shows, Asked1
<1>4. o = "owed" => show.group # Other /\ (show.group = Asked1 \/ rotationWatch.owed = "owed")
  BY <1>1 DEF Other, Asked1
<1> QED BY <1>1, <1>2, <1>3, <1>4, WatchIs

\* A show that was asked about ends: whoever is owed a query still is, and is next.
LEMMA FinishKeepsOrder ==
  ASSUME HarvestInv, harvestAt = "show", NEW outcome, NEW queries, NEW matched, NEW refused,
         FinishShow(outcome, queries, matched, refused), queries > 0,
         journal' = journal, DOMAIN titled \subseteq DOMAIN titled', TitledOwn',
         rotation' = rotation \/ rotation' = {}, rotationFrom' = rotationFrom,
         rotationWatch' \in [group : Groups, other : Groups, owed : {"no", "owed", "overtaken"}],
         Asked1' = Asked1, Other' = Other, rotationWatch'.owed # "overtaken",
         rotationWatch'.owed = "owed" =>
           OwedNow' /\ show.group # Other /\ (show.group = Asked1 \/ rotationWatch.owed = "owed")
  PROVE  HarvestInv'
<1>1. /\ harvestAt' = "rotate" /\ show' = NoShow /\ rotationCursor' = show.group
      /\ DOMAIN latches' = DOMAIN latches /\ \A s \in DOMAIN latches' : latches'[s] \in Latch
      /\ latches[Scope(Other)].failed => latches'[Scope(Other)].failed
      /\ show' \in [group : Cursor, tried : Nat, matched : BOOLEAN, refused : BOOLEAN]
  BY FinishIs
<1>2. OwedNow' => OwedNow
  BY <1>1, OwedOnlyEnds
<1>3. OrderKept' /\ OtherBehind' /\ OtherFirst'
  BY <1>1, <1>2, QueriedKeepsOrder
<1>4. HarvestTypeOK'
  <2>1. show.group \in Cursor /\ rotation' \in SUBSET Groups
    BY DEF HarvestInv, HarvestTypeOK
  <2>2. Asked1' # Other' /\ Scope(Other') \in DOMAIN latches'
    BY <1>1 DEF HarvestInv, HarvestTypeOK
  <2> QED BY <1>1, <2>1, <2>2 DEF HarvestInv, HarvestTypeOK
<1> QED BY <1>1, <1>3, <1>4 DEF HarvestInv, Shows

\* A page titles an item with its own identities only.
LEMMA TitlingIs ==
  ASSUME NEW page, NEW scope, NEW found \in Titling(page, scope), NEW key \in DOMAIN found
  PROVE  found[key] = {key}
<1> DEFINE usable == {r \in page : r.fit}
           keys == {k \in UNION {ResolveKey(r) : r \in usable} : KeyInScope(k, scope) /\ k \notin DOMAIN titled}
<1>1. PICK f \in [keys -> usable] :
        (\A k \in keys : ResolveKey(f[k]) = {k}) /\ found = [k \in keys |-> Claims(f[k])]
  BY Zenon DEF Titling
<1> HIDE DEF keys
<1>2. key \in keys
  BY <1>1
<1>3. ResolveKey(f[key]) = {key} /\ found[key] = Claims(f[key])
  BY <1>1, <1>2
<1> QED BY <1>3 DEF ResolveKey

\* A query that ends no show leaves the order as it is.
LEMMA AnswerKeepsOrder ==
  ASSUME HarvestInv, NEW page, QueryAnswers(page)
  PROVE  HarvestInv'
<1>1. PICK g \in Groups : g = show.group
  BY DEF QueryAnswers, HarvestInv, HarvestTypeOK
<1>2. PICK found \in Titling(page, Scope(g)) :
        LET titles == [key \in DOMAIN found \cup DOMAIN titled |->
                         IF key \in DOMAIN found THEN found[key] ELSE titled[key]]
            matched == show.matched \/ DOMAIN found # {}
            refused == show.refused \/ RefusesOwn(page, g, titles)
        IN /\ titled' = titles
           /\ IF GroupKeys(journal, g) \subseteq DOMAIN titles \/ show.tried + 1 = Wordings[Al(g)]
                THEN FinishShow("ok", show.tried + 1, matched, refused)
                ELSE /\ show' = [show EXCEPT !.tried = show.tried + 1, !.matched = matched, !.refused = refused]
                     /\ UNCHANGED <<rotationCursor, harvestAt, latches>>
  BY <1>1, Zenon DEF QueryAnswers
<1>3. PICK matched \in BOOLEAN, refused \in BOOLEAN, tried \in Nat :
        /\ tried = show.tried + 1
        /\ \/ FinishShow("ok", tried, matched, refused)
           \/ /\ show' = [show EXCEPT !.tried = tried, !.matched = matched, !.refused = refused]
              /\ UNCHANGED <<rotationCursor, harvestAt, latches>>
  <2>1. PICK matched \in BOOLEAN, refused \in BOOLEAN :
          /\ matched <=> (show.matched \/ DOMAIN found # {})
          /\ refused <=> (show.refused \/ RefusesOwn(page, g, titled'))
    OBVIOUS
  <2>2. show.tried + 1 \in Nat
    BY DEF HarvestInv, HarvestTypeOK
  <2> QED BY <1>2, <2>1, <2>2
<1>4. harvestAt = "show" /\ UNCHANGED <<journal, rotationFrom, rotation>> /\ Queried(show.group)
  BY DEF QueryAnswers
<1>5. DOMAIN titled \subseteq DOMAIN titled' /\ TitledOwn'
  <2>1. \A key \in DOMAIN found : found[key] = {key}
    BY TitlingIs
  <2>2. TitledOwn
    BY DEF HarvestInv
  <2>3. titled' = [key \in DOMAIN found \cup DOMAIN titled |->
                     IF key \in DOMAIN found THEN found[key] ELSE titled[key]]
    BY <1>2, Zenon
  <2> QED BY <2>1, <2>2, <2>3 DEF TitledOwn
<1>6. tried > 0
  BY <1>3 DEF HarvestInv, HarvestTypeOK
<1>7. /\ rotationWatch' \in [group : Groups, other : Groups, owed : {"no", "owed", "overtaken"}]
      /\ Asked1' = Asked1 /\ Other' = Other
      /\ rotationWatch'.owed # "overtaken"
      /\ rotationWatch'.owed = "owed" =>
           OwedNow' /\ show.group # Other /\ (show.group = Asked1 \/ rotationWatch.owed = "owed")
  BY <1>4, QueriedIs
<1>8. CASE FinishShow("ok", tried, matched, refused)
  BY <1>4, <1>5, <1>6, <1>7, <1>8, FinishKeepsOrder
<1>9. CASE /\ show' = [show EXCEPT !.tried = tried, !.matched = matched, !.refused = refused]
           /\ UNCHANGED <<rotationCursor, harvestAt, latches>>
  <2>1. /\ show' \in [group : Cursor, tried : Nat, matched : BOOLEAN, refused : BOOLEAN]
        /\ show'.group = show.group /\ show'.tried = tried
    BY <1>9 DEF HarvestInv, HarvestTypeOK
  <2>2. OwedNow' => OwedNow
    BY <1>4, <1>5, <1>7, <1>9, OwedOnlyEnds
  <2>3. Left' = Left
    BY <1>4, <1>9, <2>1 DEF Left
  <2>4. HarvestTypeOK'
    BY <1>4, <1>7, <1>9, <2>1 DEF HarvestInv, HarvestTypeOK
  <2>5. OrderKept' /\ OtherBehind'
    BY <1>4, <1>7, <1>9, <2>1, <2>2, <2>3 DEF HarvestInv, OrderKept, OtherBehind
  <2>6. OtherFirst'
    <3>1. show.group = Asked1 => AtWork'
      BY <1>4, <1>6, <1>7, <1>9, <2>1 DEF AtWork, Shows
    <3>2. show.group # Asked1 => ~AtWork
      BY DEF AtWork, Shows
    <3>3. show.group # Other => ~(Shows(Other))'
      BY <1>7, <2>1 DEF Shows
    <3> QED BY <1>4, <1>7, <1>9, <2>3, <3>1, <3>2, <3>3 DEF HarvestInv, OtherFirst
  <2> QED BY <1>5, <1>6, <1>7, <2>1, <2>4, <2>5, <2>6 DEF HarvestInv, Shows
<1> QED BY <1>3, <1>8, <1>9

\* A query that fails ends its show.
LEMMA FailureKeepsOrder ==
  ASSUME HarvestInv, NEW outcome, QueryFails(outcome)
  PROVE  HarvestInv'
<1>1. harvestAt = "show" /\ UNCHANGED <<journal, titled, rotationFrom, rotation>> /\ Queried(show.group)
  BY DEF QueryFails
<1>2. FinishShow(outcome, show.tried + 1, show.matched, show.refused) /\ show.tried + 1 > 0
  BY DEF QueryFails, HarvestInv, HarvestTypeOK
<1>3. TitledOwn'
  BY <1>1 DEF HarvestInv, TitledOwn
<1>4. /\ rotationWatch' \in [group : Groups, other : Groups, owed : {"no", "owed", "overtaken"}]
      /\ Asked1' = Asked1 /\ Other' = Other
      /\ rotationWatch'.owed # "overtaken"
      /\ rotationWatch'.owed = "owed" =>
           OwedNow' /\ show.group # Other /\ (show.group = Asked1 \/ rotationWatch.owed = "owed")
  BY <1>1, QueriedIs
<1> QED BY <1>1, <1>2, <1>3, <1>4, FinishKeepsOrder

\* A slice that ends between two queries leaves the order behind what was asked about.
LEMMA SliceKeepsOrder == HarvestInv /\ SliceEnds => HarvestInv'
<1> SUFFICES ASSUME HarvestInv, SliceEnds PROVE HarvestInv'
  OBVIOUS
<1>1. /\ harvestAt = "show" /\ rotation' = {} /\ UNCHANGED <<journal, titled, rotationFrom>>
      /\ FinishShow("ok", show.tried, show.matched, show.refused) /\ Watch(rotationWatch.owed)
  BY DEF SliceEnds
<1>2. HarvestTypeOK /\ rotationWatch.owed \in {"no", "owed", "overtaken"} /\ show.tried \in Nat
  BY DEF HarvestInv, HarvestTypeOK
<1>3. /\ rotationWatch' \in [group : Groups, other : Groups, owed : {"no", "owed", "overtaken"}]
      /\ Asked1' = Asked1 /\ Other' = Other
      /\ rotationWatch'.owed = "owed" => rotationWatch.owed = "owed" /\ OwedNow'
      /\ rotationWatch'.owed # "overtaken"
  BY <1>1, <1>2, WatchIs DEF HarvestInv
<1>4. TitledOwn'
  BY <1>1 DEF HarvestInv, TitledOwn
<1>5. CASE show.tried > 0
  <2>1. rotationWatch.owed = "owed" => show.group # Other
    BY <1>1, <1>5 DEF HarvestInv, OtherFirst, Shows
  <2> QED BY <1>1, <1>3, <1>4, <1>5, <2>1, FinishKeepsOrder
<1>6. CASE show.tried = 0
  <2>1. /\ harvestAt' = "rotate" /\ show' = NoShow /\ rotationCursor' = rotationCursor
        /\ DOMAIN latches' = DOMAIN latches /\ \A s \in DOMAIN latches' : latches'[s] \in Latch
        /\ show' \in [group : Cursor, tried : Nat, matched : BOOLEAN, refused : BOOLEAN]
    BY <1>1, <1>6, FinishIs
  <2>2. Left' = {}
    BY <1>1, <2>1 DEF Left
  <2>3. HarvestTypeOK'
    BY <1>1, <1>2, <1>3, <2>1 DEF HarvestTypeOK
  <2>4. OrderKept' /\ OtherBehind'
    BY <1>1, <2>1, <2>2 DEF OrderKept, OtherBehind
  <2>5. ~AtWork
    BY <1>6 DEF AtWork
  <2>6. OtherFirst'
    BY <1>3, <2>1, <2>2, <2>5 DEF HarvestInv, OtherFirst, Shows
  <2> QED BY <1>3, <1>4, <2>1, <2>3, <2>4, <2>6 DEF HarvestInv, Shows
<1> QED BY <1>2, <1>5, <1>6

\* Nothing was asked about before the first rebuild.
LEMMA HarvestBegins == HarvestInit => HarvestInv
<1> SUFFICES ASSUME HarvestInit PROVE HarvestInv
  OBVIOUS
<1>1. \A items \in Journals : \A g \in GroupsOf(items) :
        g \in Groups /\ Scope(g) \in UNION {{it.feed : it \in js} : js \in Journals}
  BY HarvestAssumption DEF GroupsOf, Group, Groups, Scope
<1>2. PICK g \in UNION {GroupsOf(items) : items \in Journals}, h \in UNION {GroupsOf(items) : items \in Journals} :
        g # h /\ rotationWatch = [group |-> g, other |-> h, owed |-> "no"]
  BY DEF HarvestInit, Watches
<1>3. g \in Groups /\ h \in Groups /\ Scope(h) \in DOMAIN latches
  BY <1>1 DEF HarvestInit
<1>4. \A s \in DOMAIN latches : latches[s] \in Latch
  BY DEF HarvestInit, Fresh, Latch
<1>5. show \in [group : Cursor, tried : Nat, matched : BOOLEAN, refused : BOOLEAN]
  BY DEF HarvestInit, NoShow, Cursor
<1>6. rotationCursor \in Cursor
  BY HarvestAssumption DEF HarvestInit, Cursor, Groups
<1>7. HarvestTypeOK
  BY <1>2, <1>3, <1>4, <1>5, <1>6 DEF HarvestInit, HarvestTypeOK, Asked1, Other, Cursor
<1>8. TitledOwn
  <2>1. DOMAIN titled = {}
    BY DEF HarvestInit
  <2> QED BY <2>1 DEF TitledOwn
<1> QED BY <1>2, <1>7, <1>8 DEF HarvestInit, HarvestInv, OrderKept, OtherBehind, OtherFirst, Shows

\* Every step of a harvest keeps the order.
LEMMA HarvestStep == HarvestInv /\ [HarvestNext]_harvestVars => HarvestInv'
<1>1. HarvestInv /\ UNCHANGED harvestVars => HarvestInv'
  BY DEF harvestVars, HarvestInv, HarvestTypeOK, TitledOwn, OrderKept, OtherBehind, OtherFirst, Left, OwedNow, Owed,
     AtWork, Shows, Asked1, Other, GroupKeys, Queryable
<1> QED BY <1>1, BeginKeepsOrder, EndKeepsOrder, PassKeepsOrder, ShowKeepsOrder, AnswerKeepsOrder,
           FailureKeepsOrder, SliceKeepsOrder DEF HarvestNext

\* The invariant says that nobody is overtaken.
LEMMA HarvestInvIsWhole == HarvestInv => HarvestWhole
BY DEF HarvestInv, TitledOwn, HarvestWhole

(* No show is asked about twice while another that could be asked about all    *)
(* along was not once, and titles come from unambiguous results (HarvestWhole).*)
THEOREM HarvestsFairly == HarvestSpec => []HarvestWhole
BY HarvestBegins, HarvestStep, HarvestInvIsWhole, PTL DEF HarvestSpec

------------------------------------------------------------------------------
(* Inside a pass.                                                              *)

\* The part at work stays the one at work; what it moves it moves as its component.
LEMMA PartStep ==
  [PartsNext]_partsVars =>
    /\ part' = part /\ [LoaderNext]_loaderVars /\ [VerdictsNext]_verdictVars
    /\ part = "library" => [WalkNext]_walkVars
    /\ part = "catalogue" => [CatalogueNext]_catalogueVars
    /\ part = "lookups" => [LookupsNext]_lookupVars
    /\ part = "harvest" => [HarvestNext]_harvestVars
BY DEF PartsNext, LoadsMap, WalksLibrary, FetchesCatalogue, LooksUp, HarvestsTitles, Judges, OthersRest, partsVars

(* Inside a pass too, no walk publishes a snapshot without a series the list   *)
(* kept, or clean orders after a read that failed.                             *)
THEOREM WalksSound == PartsSpec => []WalkSound
<1> DEFINE Inv == part = "library" => WalkInv
<1>1. PartsInit => Inv
  BY WalkBegins DEF PartsInit
<1>2. Inv /\ [PartsNext]_partsVars => Inv'
  BY PartStep, WalkStep
<1>3. Inv => WalkSound
  BY InvIsWhole DEF WalkSound
<1> HIDE DEF Inv
<1> QED BY <1>1, <1>2, <1>3, PTL DEF PartsSpec

(* Inside a pass too, an accepted walk of SeaDex lost no record that stood    *)
(* throughout, and no walk holds an entry twice or out of order.               *)
THEOREM CatalogueKept == PartsSpec => []CatalogueSound
<1> DEFINE Inv == part = "catalogue" => CatalogueInv
<1>1. PartsInit => Inv
  BY CatalogueStarts DEF PartsInit
<1>2. Inv /\ [PartsNext]_partsVars => Inv'
  BY PartStep, CatalogueStep
<1>3. Inv => CatalogueSound
  BY CatalogueHolds DEF CatalogueSound
<1> HIDE DEF Inv
<1> QED BY <1>1, <1>2, <1>3, PTL DEF PartsSpec

(* Inside a pass too, the lookups miss no id in silence, lose no title, and    *)
(* press a failing AniList no further than the breaker.                        *)
THEOREM LookupsHold == PartsSpec => []LookupsSound
<1> DEFINE Inv == part = "lookups" => LookupsInv
<1>1. PartsInit => Inv
  BY LookupsBegin DEF PartsInit
<1>2. Inv /\ [PartsNext]_partsVars => Inv'
  BY PartStep, LookupsStep, LookupsStutter
<1>3. Inv => LookupsSound
  BY LookupsInvIsWhole DEF LookupsSound
<1> HIDE DEF Inv
<1> QED BY <1>1, <1>2, <1>3, PTL DEF PartsSpec

(* Inside a pass too, no show is overtaken, and no title comes from a result   *)
(* whose identities disagree.                                                  *)
THEOREM HarvestsHold == PartsSpec => []HarvestSound
<1> DEFINE Inv == part = "harvest" => HarvestInv
<1>1. PartsInit => Inv
  BY HarvestBegins DEF PartsInit
<1>2. Inv /\ [PartsNext]_partsVars => Inv'
  BY PartStep, HarvestStep
<1>3. Inv => HarvestSound
  BY HarvestInvIsWhole DEF HarvestSound
<1> HIDE DEF Inv
<1> QED BY <1>1, <1>2, <1>3, PTL DEF PartsSpec

(* Inside a pass too, an entry is read for no more than the map states.        *)
THEOREM EntriesReadInside == PartsSpec => []EntryFactsSound
<1>1. PartsInit => AskedInv
  BY AskedStarts DEF PartsInit
<1>2. AskedInv /\ [PartsNext]_partsVars => AskedInv'
  BY PartStep, AskedStep
<1> QED BY <1>1, <1>2, AskedIsSound, PTL DEF PartsSpec

\* The map is a loader's, at rest or at work.
LEMMA PartsLoad == PartsSpec => LoaderSpec
BY PartStep, PTL DEF PartsSpec, PartsInit, LoaderSpec

(* Inside a pass too, a copy is judged only on what its files show.            *)
THEOREM DecisionsInside == PartsSpec => []DecisionSound
<1>1. PartsInit => AskedInv
  BY AskedStarts DEF PartsInit
<1>2. AskedInv /\ [PartsNext]_partsVars => AskedInv'
  BY PartStep, AskedStep
<1> QED BY <1>1, <1>2, DecidedIsSound, PTL DEF PartsSpec

(* Inside a pass too, a finding recommends only what can be used and is not    *)
(* held, and overstates no bytes.                                              *)
THEOREM ComparesInside == PartsSpec => []FindingsSound
<1>1. PartsInit => AskedInv
  BY AskedStarts DEF PartsInit
<1>2. AskedInv /\ [PartsNext]_partsVars => AskedInv'
  BY PartStep, AskedStep
<1> QED BY <1>1, <1>2, ComparedIsSound, PTL DEF PartsSpec

(* Inside a pass too, what the loader keeps set aside it still refuses, and an *)
(* index it serves counts the sibling seasons right.                           *)
THEOREM MapsSound == PartsSpec => []MapSound
<1>1. LoaderInv => MapSound
  BY DEF MapSound
<1> QED BY <1>1, PartsLoad, LoaderSound, PTL

(* Inside a pass too, a load loses no arr, no half and no fact of the map.     *)
THEOREM PassKeepsMap == PartsSpec => LoaderKeepsMap
BY PartsLoad, KeepsItsMap, PTL
=============================================================================
