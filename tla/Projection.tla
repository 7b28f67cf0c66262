------------------------------ MODULE Projection ------------------------------
(* How one animap entry is read (internal/mapping/animap.go): its Record's     *)
(* TVDB season and the episode facts the comparison may rest on. An entry is   *)
(* the sequence of its episodes as mapread reads each on the entry's one TVDB  *)
(* series: it lands on some placements, each stated or only a default, or the  *)
(* map states nothing, or it lands nowhere, listed there or not.               *)
EXTENDS Naturals, FiniteSets, Sequences, FiniteSetsExt

CONSTANTS TvdbSeasons, Targets

Placements == [season : TvdbSeasons, episode : Targets, default : BOOLEAN]
LandsOn(ps) == [kind |-> "lands", on |-> ps]
Reading(kind) == [kind |-> kind, on |-> {}]
NoLanding == {Reading("unstated"), Reading("listed"), Reading("implicit")}
Readings == {LandsOn(ps) : ps \in (SUBSET Placements) \ {{}}} \cup NoLanding

ASSUME ProjectionAssumption ==
  /\ TvdbSeasons \subseteq Nat /\ Targets \subseteq Nat
  /\ IsFiniteSet(TvdbSeasons) /\ IsFiniteSet(Targets)

Count(entry, kinds) == Cardinality({i \in DOMAIN entry : entry[i].kind \in kinds})
Unstated(entry) == Count(entry, {"unstated"})
Nowhere(entry) == Count(entry, {"listed", "implicit"})
Landings(entry) == UNION {entry[i].on : i \in DOMAIN entry}
Defaulted(entry) == \E p \in Landings(entry) : p.default
OnZero(entry) == \E p \in Landings(entry) : p.season = 0
PositiveSeasons(entry) == {p.season : p \in Landings(entry)} \ {0}

\* tvdbView.fullyStated: no default, nothing unstated, nothing nowhere but what is listed there.
FullyStated(entry) ==
  Len(entry) > 0 /\ ~Defaulted(entry) /\ Count(entry, {"unstated", "implicit"}) = 0

\* tvdbView.season
SeasonScope(entry) ==
  LET positive == PositiveSeasons(entry)
  IN IF Len(entry) = 0 \/ Unstated(entry) > 0 \/ Cardinality(positive) > 1
       THEN [kind |-> "absent", season |-> 0]
     ELSE [kind |-> "present", season |-> IF positive = {} THEN 0 ELSE CHOOSE s \in positive : TRUE]

Lands(entry, i, s) == \E p \in entry[i].on : p.season = s
Run(s, first, last) == [season |-> s, first |-> first, last |-> last]
\* Mutant: a run goes on over an episode that lands elsewhere.
RunsBridged(s, entry) ==
  LET on == {i \in DOMAIN entry : Lands(entry, i, s)}
  IN IF on = {} THEN {} ELSE {Run(s, Min(on), Max(on))}
\* An episode landing on the season grows the run it follows on, or opens one.
Grown(s, runs, i) ==
  IF \E r \in runs : r.last = i - 1
    THEN {IF r.last = i - 1 THEN Run(s, r.first, i) ELSE r : r \in runs}
  ELSE runs \cup {Run(s, i, i)}
\* ranges, episode by episode.
Runs(s, entry) ==
  LET after[i \in 0..Len(entry)] ==
        IF i = 0 THEN {}
        ELSE IF Lands(entry, i, s) THEN Grown(s, after[i - 1], i) ELSE after[i - 1]
  IN after[Len(entry)]
SeasonRanges(entry) == UNION {Runs(s, entry) : s \in PositiveSeasons(entry)}

\* tvdbView.targets
TargetsOf(entry, s) == {p.episode : p \in {q \in Landings(entry) : q.season = s}}
SomeStated(entry, s) == \E p \in Landings(entry) : p.season = s /\ ~p.default

NoFacts == [seasons |-> {}, specials |-> {}, specialsEpisodes |-> 0, special |-> 0, episodes |-> {}]

\* tvdbView.mapping
MappingOf(entry) ==
  LET facts == [NoFacts EXCEPT !.seasons = SeasonRanges(entry)]
      positive == PositiveSeasons(entry)
      specials == positive = {} /\ OnZero(entry)
      targets == TargetsOf(entry, 0)
  IN IF Unstated(entry) > 0 THEN facts
     ELSE IF specials /\ ~Defaulted(entry)
       THEN [facts EXCEPT !.specials = targets,
                          !.specialsEpisodes = IF Nowhere(entry) = 0 THEN Len(entry) ELSE 0]
     ELSE IF specials /\ Nowhere(entry) = 0 /\ Cardinality(targets) = 1 /\ SomeStated(entry, 0)
       THEN [facts EXCEPT !.special = CHOOSE t \in targets : TRUE]
     ELSE IF Cardinality(positive) = 1 /\ ~OnZero(entry) /\ Nowhere(entry) = 0 /\ ~Defaulted(entry)
       THEN [facts EXCEPT !.episodes = TargetsOf(entry, CHOOSE s \in positive : TRUE)]
     ELSE facts

\* Mapping.SpecialRun
SpecialRun(facts) ==
  IF facts.specials # {} /\ facts.specialsEpisodes > 0
    THEN [episodes |-> facts.specials, answers |-> facts.specialsEpisodes]
  ELSE IF facts.special > 0 THEN [episodes |-> {facts.special}, answers |-> 0]
  ELSE [episodes |-> {}, answers |-> 0]

\* entryFacts: series and facts only for an entry reaching exactly one TVDB series.
EntryFacts(tvdb, movies, whole, entry) ==
  LET one == Cardinality(tvdb) = 1
      scope == SeasonScope(entry)
  IN [tvdb |-> IF one THEN CHOOSE t \in tvdb : TRUE ELSE 0,
      movies |-> movies, anidb |-> whole,
      kind |-> IF one THEN scope.kind ELSE "absent",
      season |-> IF one THEN scope.season ELSE 0,
      facts |-> IF one THEN MappingOf(entry) ELSE NoFacts,
      stated |-> one /\ FullyStated(entry)]
------------------------------------------------------------------------------
(* Reference: what a placement claims, said episode by episode.                *)

\* The ranges are the maximal runs: each landing in exactly one, no other episode in any.
RangesExact(entry, ranges) ==
  /\ \A r \in ranges : /\ r.season > 0
                       /\ \A i \in r.first..r.last : i \in DOMAIN entry /\ Lands(entry, i, r.season)
  /\ \A i \in DOMAIN entry : \A s \in TvdbSeasons \ {0} : Lands(entry, i, s) =>
       Cardinality({r \in ranges : r.season = s /\ i \in r.first..r.last}) = 1
  /\ \A r, q \in ranges : r.season = q.season /\ r # q => r.last + 1 # q.first

StatedOn(entry, i, s, eps) ==
  /\ entry[i].on # {}
  /\ \A p \in entry[i].on : p.season = s /\ ~p.default /\ p.episode \in eps

(* The facts never claim more than the map says of every episode: a season     *)
(* scope covers every landing, a run of specials that answers a count answers  *)
(* each episode, a season's episodes are all stated there, one claim at most.  *)
ProjectionSound(entry, rec) ==
  LET f == rec.facts run == SpecialRun(f)
  IN rec.tvdb > 0 =>
       /\ RangesExact(entry, f.seasons)
       /\ rec.kind = "present" => \A i \in DOMAIN entry :
            /\ entry[i].kind # "unstated"
            /\ \A p \in entry[i].on : p.season \in {0, rec.season}
       /\ f.specials # {} => \A i \in DOMAIN entry :
            StatedOn(entry, i, 0, f.specials) \/ entry[i].kind \in {"listed", "implicit"}
       /\ run.episodes # {} => \A i \in DOMAIN entry :
            entry[i].on # {} /\ \A p \in entry[i].on : p.season = 0 /\ p.episode \in run.episodes
       /\ f.episodes # {} => \A i \in DOMAIN entry : StatedOn(entry, i, rec.season, f.episodes)
       /\ Cardinality({x \in {f.specials, f.episodes} : x # {}}) + (IF f.special > 0 THEN 1 ELSE 0) <= 1
       /\ rec.stated => \A i \in DOMAIN entry :
            entry[i].kind = "listed" \/ (entry[i].on # {} /\ \A p \in entry[i].on : ~p.default)
=============================================================================
