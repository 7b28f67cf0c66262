------------------------------ MODULE Alignment ------------------------------
(* Whether a library item matches what SeaDex lists for an entry: the item the *)
(* walk builds from one series' or movie's files and episode list              *)
(* (internal/arrwalk), the revisions it reads (internal/release), the scope an *)
(* entry claims in it and the decision (internal/align). Groups are their      *)
(* normalized names, NoGroup the token every spelling of "no group" gets.      *)
EXTENDS Integers, FiniteSets, Sequences

CONSTANTS NoGroup

At(f, k, default) == IF k \in DOMAIN f THEN f[k] ELSE default
------------------------------------------------------------------------------
(* Revisions: a version and the marker that states it, the markers ordered.    *)

Marker == [unknown |-> 0, none |-> 1, version |-> 2, repack |-> 3, proper |-> 4]
Rev(v, name) == [version |-> v, marker |-> Marker[name]]
RevisionUnknown == Rev(0, "unknown")
Revisions == [version : Nat, marker : 0..Marker.proper]
KnownRevision(r) == r.marker # Marker.unknown
Explicit(r) == r.marker \in {Marker.version, Marker.repack, Marker.proper}
NewerRevision(a, b) == a.version > b.version \/ (a.version = b.version /\ a.marker > b.marker)

\* A name is what its tokens say: empty, its version digit (or -1), proper, repack.
ParseTitleRevision(name) ==
  LET bumped == IF name.token >= 0 THEN name.token + 1 ELSE 2
  IN IF name.empty THEN RevisionUnknown
     ELSE IF name.repack THEN Rev(bumped, "repack")
     ELSE IF name.proper THEN Rev(bumped, "proper")
     ELSE IF name.token >= 0 THEN Rev(name.token, "version")
     ELSE Rev(1, "none")

ArrRevision(version, isRepack) ==
  IF version < 0 THEN RevisionUnknown
  ELSE IF isRepack THEN Rev(version, "repack")
  ELSE IF version = 1 THEN Rev(1, "none")
  ELSE Rev(version, "version")

Greatest(revs) == CHOOSE r \in revs : \A q \in revs : ~NewerRevision(q, r)
ExplicitRevision(names) ==
  LET said == {r \in {ParseTitleRevision(n) : n \in names} : Explicit(r)}
  IN IF said = {} THEN RevisionUnknown ELSE Greatest(said)

\* The arr's own revision object first (stated = {} when it sends none), else the file's names.
FileRevision(stated, names) ==
  IF stated # {} THEN LET r == CHOOSE x \in stated : TRUE IN ArrRevision(r.version, r.isRepack)
  ELSE ExplicitRevision(names)

\* Mutant: an unread revision is passed over.
NewestKnown(revs) ==
  LET known == {r \in revs : KnownRevision(r)} IN IF known = {} THEN RevisionUnknown ELSE Greatest(known)
\* One unknown reading leaves the whole unit unknown.
NewestRevision(revs) ==
  IF revs = {} \/ \E r \in revs : ~KnownRevision(r) THEN RevisionUnknown ELSE Greatest(revs)
RevisionBehind(held, listed) == KnownRevision(held) /\ Explicit(listed) /\ held.version < listed.version

GroupsOverlap(a, b) ==
  IF a \cap b # {} THEN "known"
  ELSE IF (NoGroup \in a /\ b # {}) \/ (NoGroup \in b /\ a # {}) THEN "unknown"
  ELSE "none"
------------------------------------------------------------------------------
(* The item of one series. A file is an id, its season, group and revision; an *)
(* episode its season, number, absolute number, file id (0 for none) and the   *)
(* flag that claims a file.                                                    *)

GroupsIn(files) == {f.group : f \in files}
NewestPerGroup(files) ==
  [g \in GroupsIn(files) |-> NewestRevision({f.rev : f \in {x \in files : x.group = g}})]
InSeason(files, s) == {f \in files : f.season = s}
PerSeason(files, Of(_)) == [s \in {f.season : f \in files} |-> Of(InSeason(files, s))]

NoItem ==
  [arr |-> "sonarr", failed |-> FALSE, order |-> FALSE, aniListIDs |-> {}, hasFile |-> FALSE,
   groups |-> {}, revisions |-> <<>>, seasonGroups |-> <<>>, seasonRevisions |-> <<>>,
   bytes |-> <<>>, specials |-> <<>>, listed |-> <<>>, seasonEpisodes |-> <<>>,
   specialsFileUnknown |-> FALSE]

SeriesItem(series, files) ==
  [NoItem EXCEPT !.seasonGroups = PerSeason(files, GroupsIn),
                 !.seasonRevisions = PerSeason(files, NewestPerGroup),
                 !.revisions = NewestPerGroup(files), !.groups = GroupsIn(files),
                 !.bytes = [id \in {f.id : f \in files} |->
                              (CHOOSE f \in files : f.id = id).size],
                 !.aniListIDs = series.aniListIDs, !.order = series.order,
                 !.hasFile = files # {}]

\* episodeFile: whether the list places the episode's file, and which file that is.
FileOf(ep, files) == {f \in files : ep.file > 0 /\ f.id = ep.file}
Placed(ep, files) == IF ep.file > 0 THEN FileOf(ep, files) # {} ELSE ~ep.hasFile
ListedEpisode(ep, files) ==
  LET held == FileOf(ep, files)
  IN IF held = {} THEN [has |-> FALSE, group |-> NoGroup, rev |-> RevisionUnknown]
     ELSE LET f == CHOOSE x \in held : TRUE IN [has |-> TRUE, group |-> f.group, rev |-> f.rev]

Numbered(eps, s) == {ep \in eps : ep.season = s /\ ep.number > 0}
ByNumber(eps, Of(_)) ==
  [n \in {ep.number : ep \in eps} |-> Of(CHOOSE ep \in eps : ep.number = n)]

SpecialsKnown(eps, files) == \A ep \in Numbered(eps, 0) : Placed(ep, files)
ListedEpisodes(eps, files) ==
  LET seasons == {ep.season : ep \in {x \in eps : x.season > 0 /\ x.number > 0}}
      whole == {s \in seasons : \A ep \in Numbered(eps, s) : Placed(ep, files)}
  IN [s \in whole |-> ByNumber(Numbered(eps, s), LAMBDA ep : ListedEpisode(ep, files))]

EpisodeFiles(eps, files) ==
  LET held == {ep \in eps : FileOf(ep, files) # {}}
  IN IF \E ep \in eps : ~Placed(ep, files) \/ (ep \in held /\ ep.number <= 0) THEN <<>>
     ELSE [s \in {ep.season : ep \in held} |->
             ByNumber(Numbered(held, s),
                      LAMBDA ep : [file |-> ep.file, absolute |-> IF ep.absolute > 0 THEN ep.absolute ELSE 0])]

(* The lists Sonarr sends: an id names one file, a season and number one row.  *)
ListedOnce(series) ==
  /\ IsFiniteSet(series.files) /\ \A f \in series.files : f.rev \in Revisions
  /\ \A f, g \in series.files : f.id = g.id => f = g
  /\ \A a, b \in series.episodes :
       a.number > 0 /\ a.season = b.season /\ a.number = b.number => a = b

\* addEpisodes, and fetchSeriesItem's placeholder when the file list was not read.
ItemOf(series) ==
  LET item == SeriesItem(series, series.files)
      known == SpecialsKnown(series.episodes, series.files)
  IN IF series.read = "none" THEN [SeriesItem(series, {}) EXCEPT !.failed = TRUE]
     ELSE IF series.read = "files" THEN item
     ELSE [item EXCEPT !.seasonEpisodes = EpisodeFiles(series.episodes, series.files),
                       !.listed = ListedEpisodes(series.episodes, series.files),
                       !.specialsFileUnknown = ~known,
                       !.specials = IF known /\ InSeason(series.files, 0) # {}
                                    THEN ByNumber(Numbered(series.episodes, 0),
                                                  LAMBDA ep : ListedEpisode(ep, series.files))
                                    ELSE <<>>]

\* movieItem; a movie that claims a file but sends none is a placeholder.
MovieItem(movie) ==
  [NoItem EXCEPT !.arr = "radarr", !.failed = movie.claims /\ movie.files = {},
                 !.hasFile = movie.claims /\ movie.files # {},
                 !.groups = IF movie.claims THEN GroupsIn(movie.files) ELSE {},
                 !.revisions = IF movie.claims THEN NewestPerGroup(movie.files) ELSE <<>>,
                 !.bytes = IF movie.claims THEN [id \in {f.id : f \in movie.files} |->
                                                   (CHOOSE f \in movie.files : TRUE).size] ELSE <<>>]

Comparable(item) == ~item.failed
SpecialsUnknown(item) ==
  item.specialsFileUnknown \/ (item.specials = <<>> /\ At(item.seasonGroups, 0, {}) # {})
------------------------------------------------------------------------------
(* The scope an entry claims. An entry is its record (season presence, season, *)
(* whether it routes to Radarr) and what the map and its siblings say of it.   *)

RecordSeason(rec) ==
  IF rec.kind = "present" /\ rec.season = 0 THEN "offered"
  ELSE IF rec.season > 0 /\ rec.kind # "absent" THEN "season"
  ELSE "series"

\* matchRun.mapped: specials place an entry offered the series' specials, episodes one of a season.
Mapped(e) == /\ e.specials # {} => RecordSeason(e.rec) = "offered"
             /\ e.episodes # {} => RecordSeason(e.rec) = "season"

ScopeAt(kind, season, groups, revisions) ==
  [kind |-> kind, season |-> season, groups |-> groups, revisions |-> revisions,
   hasFile |-> groups # {}, approx |-> FALSE, missing |-> {}]

\* episodesScope, for placed episodes the list names.
EpisodesScope(known, season, placed) ==
  LET held == {ep \in placed : known[ep].has}
      groups == {known[ep].group : ep \in held}
  IN [ScopeAt("episodes", season, groups,
            [g \in groups |-> NewestRevision({known[ep].rev : ep \in {e \in held : known[e].group = g}})])
        EXCEPT !.missing = placed \ held]
IsPlaced(known, placed) == placed # {} /\ placed \subseteq DOMAIN known

\* partOfSeason: a proper part of the season's listed episodes.
PartOfSeason(item, season, episodes) ==
  LET listed == At(item.listed, season, <<>>)
  IN IsPlaced(listed, episodes) /\ Cardinality(episodes) < Cardinality(DOMAIN listed)

ScopeOf(item, rec, specials, episodes) ==
  LET kind == RecordSeason(rec)
      season == IF kind = "season" THEN rec.season ELSE 0
      groups == At(item.seasonGroups, season, {})
  IN IF item.arr = "radarr"
       THEN [ScopeAt("movie", 0, item.groups, item.revisions) EXCEPT !.hasFile = item.hasFile]
     ELSE IF kind = "season"
       THEN IF PartOfSeason(item, season, episodes)
              THEN EpisodesScope(item.listed[season], season, episodes)
            ELSE ScopeAt("season", season, groups, At(item.seasonRevisions, season, <<>>))
     ELSE IF kind = "offered"
       THEN IF IsPlaced(item.specials, specials)
              THEN EpisodesScope(item.specials, 0, specials)
            ELSE [ScopeAt("offered", 0, groups, <<>>) EXCEPT !.approx = groups # {}]
     ELSE ScopeAt("series", 0, {}, <<>>)

ClaimsCoverage(item, rec) == ScopeOf(item, rec, {}, {}).kind # "offered"
ItemKind(item) == ScopeOf(item, [kind |-> "absent", season |-> 0, radarr |-> FALSE], {}, {}).kind

PlacedInSeries(e) ==
  LET kind == RecordSeason(e.rec)
  IN /\ kind = "offered" => e.specials # {}
     /\ kind = "series" => ~e.rec.radarr \/ e.seasons # {}

AniListExcludes(item, id) == item.aniListIDs # {} /\ id \notin item.aniListIDs
Withholding(item, e) ==
  LET kind == ScopeOf(item, e.rec, e.specials, e.episodes).kind
  IN IF item.order THEN "order"
     ELSE IF AniListExcludes(item, e.aniListID)
               /\ (kind = "series" \/ (kind = "season" /\ (Comparable(item) \/ e.episodes = {})))
       THEN "anilist"
     ELSE "none"
------------------------------------------------------------------------------
(* Standings. A listing is its best groups with their revisions, and its alts. *)

GroupLadder(current, listing) ==
  LET best == GroupsOverlap(current, listing.best)
      alt == GroupsOverlap(current, listing.alt)
  IN IF best = "known" THEN "best"
     ELSE IF best = "unknown" \/ alt = "unknown" THEN "unverified"
     ELSE IF alt = "known" THEN "alt"
     ELSE "unlisted"

\* supersededGroups: the held best groups, when every one of them is behind its listing.
SupersededGroups(current, held, listing) ==
  LET best == (current \cap listing.best) \ {NoGroup}
  IN IF \A g \in best : RevisionBehind(At(held, g, RevisionUnknown), At(listing.revs, g, RevisionUnknown))
     THEN best ELSE {}

UnitStanding(scoped, listing) ==
  LET ladder == GroupLadder(scoped.groups, listing)
      behind == SupersededGroups(scoped.groups, scoped.revisions, listing)
  IN IF ~scoped.hasFile THEN [standing |-> "no_file", behind |-> {}]
     ELSE IF scoped.groups = {} THEN [standing |-> "unverified", behind |-> {}]
     ELSE IF ladder = "best" /\ behind # {} THEN [standing |-> "superseded", behind |-> behind]
     ELSE [standing |-> ladder, behind |-> {}]

\* ownSeason: the entry's own ranges where the map states them, else what no sibling maps.
OwnSeason(season, siblings, seasons) ==
  IF seasons # {} THEN season \in seasons ELSE season \notin siblings

OwnSeasons(item, e) ==
  {s \in DOMAIN item.seasonGroups : s # 0 /\ OwnSeason(s, e.siblings, e.seasons)}

SummarizeWholeSeries(item, listing, e) ==
  LET own == OwnSeasons(item, e)
      on(ladder) == {s \in own : GroupLadder(item.seasonGroups[s], listing) = ladder}
      groups(seasons) == UNION {item.seasonGroups[s] : s \in seasons}
      best == groups(on("best"))
      held == [g \in best |-> NewestRevision(
                 {item.seasonRevisions[s][g] : s \in {x \in on("best") : g \in item.seasonGroups[x]}})]
      behind == SupersededGroups(best, held, listing)
  IN [seasons |-> Cardinality(own), groups |-> groups(own), held |-> held, behind |-> behind,
      standing |-> IF own = {} THEN "no_file"
                   ELSE IF on("unlisted") # {} THEN "unlisted"
                   ELSE IF on("alt") # {} THEN "alt"
                   ELSE IF behind # {} THEN "superseded"
                   ELSE IF on("unverified") # {} THEN "unverified"
                   ELSE "best"]

OutcomeOf(standing, groupCount, noBest) ==
  IF standing = "no_file" THEN "no_file"
  ELSE IF noBest THEN "no_best"
  ELSE IF standing = "best" THEN "aligned"
  ELSE IF standing = "superseded" THEN "superseded"
  ELSE IF standing \in {"alt", "unlisted"} THEN IF groupCount > 1 THEN "mixed" ELSE "diverged"
  ELSE "unverifiable"

NoDecision ==
  [kind |-> "series", season |-> 0, outcome |-> "no_file", standing |-> "no_file", groups |-> {},
   behind |-> {}, heldRevision |-> RevisionUnknown, listedRevision |-> RevisionUnknown,
   withheld |-> "none", missing |-> {}, approx |-> FALSE]
Decision(kind, season, standing, groups, listing) ==
  [NoDecision EXCEPT !.kind = kind, !.season = season, !.standing = standing, !.groups = groups,
                     !.outcome = OutcomeOf(standing, Cardinality(groups), listing.best = {})]
\* The revisions a superseded decision states: of the groups behind, held and listed.
Ruled(d, behind, held, listing) ==
  [d EXCEPT !.behind = behind,
            !.heldRevision = NewestRevision({At(held, g, RevisionUnknown) : g \in behind}),
            !.listedRevision = NewestRevision({At(listing.revs, g, RevisionUnknown) : g \in behind})]

\* Over one unit, or over a whole series.
DecideUnit(item, scoped, unit, listing) ==
  LET standing == IF ~Comparable(item) THEN "unverified"
                  ELSE IF scoped.kind = "offered" THEN IF scoped.hasFile THEN "unverified" ELSE "no_file"
                  ELSE unit.standing
      groups == IF Comparable(item) THEN scoped.groups ELSE {}
      behind == IF standing = "superseded" THEN unit.behind ELSE {}
  IN [Ruled(Decision(scoped.kind, scoped.season, standing, groups, listing), behind, scoped.revisions, listing)
        EXCEPT !.missing = scoped.missing, !.approx = Comparable(item) /\ scoped.approx]
DecideSeries(item, whole, listing) ==
  LET standing == IF Comparable(item) THEN whole.standing ELSE "unverified"
      groups == IF Comparable(item) THEN whole.groups ELSE {}
      behind == IF standing = "superseded" THEN whole.behind ELSE {}
  IN [Ruled(Decision("series", 0, standing, groups, listing), behind, whole.held, listing)
        EXCEPT !.approx = Comparable(item) /\ (whole.seasons > 1 \/ Cardinality(whole.groups) > 1)]
DecideScope(item, e, listing, scoped) ==
  IF scoped.kind = "series" THEN DecideSeries(item, SummarizeWholeSeries(item, listing, e), listing)
  ELSE DecideUnit(item, scoped, UnitStanding(scoped, listing), listing)
Withheld(rec, reason) ==
  [NoDecision EXCEPT !.kind = RecordSeason(rec), !.season = IF RecordSeason(rec) = "season" THEN rec.season ELSE 0,
                     !.outcome = "withheld", !.withheld = reason]

Decide(item, e, listing) ==
  IF Withholding(item, e) # "none" THEN Withheld(e.rec, Withholding(item, e))
  ELSE DecideScope(item, e, listing, ScopeOf(item, e.rec, e.specials, e.episodes))

\* HoldsFile: whether the entry's own part of the item may hold a file.
HoldsFile(item, e) ==
  LET scoped == ScopeOf(item, e.rec, {}, e.episodes)
  IN IF ~Comparable(item) \/ Withholding(item, e) # "none" THEN TRUE
     ELSE IF item.arr = "radarr" THEN item.hasFile
     ELSE IF ~PlacedInSeries(e) THEN FALSE
     ELSE IF e.specials # {}
       THEN SpecialsUnknown(item) \/ \E ep \in e.specials : ep \in DOMAIN item.specials /\ item.specials[ep].has
     ELSE IF scoped.kind # "series" THEN scoped.hasFile
     ELSE OwnSeasons(item, e) # {}
------------------------------------------------------------------------------
(* Reference: the decision read off the files themselves.                      *)

FilesOf(series, season, numbers) ==
  {f \in series.files : \E ep \in series.episodes :
     ep.season = season /\ ep.number \in numbers /\ FileOf(ep, {f}) # {}}

\* The nonempty units of the entry's scope, each the files judged together.
Units(series, e, d) ==
  LET own == {f.season : f \in {x \in series.files : OwnSeason(x.season, e.siblings, e.seasons)}} \ {0}
  IN (CASE d.kind = "season" -> {InSeason(series.files, d.season)}
        [] d.kind = "episodes" -> {FilesOf(series, d.season, IF d.season = 0 THEN e.specials ELSE e.episodes)}
        [] d.kind = "series" -> {InSeason(series.files, s) : s \in own}
        [] OTHER -> {}) \ {{}}

Behind(f, listing) == RevisionBehind(f.rev, At(listing.revs, f.group, RevisionUnknown))

(* An asserted outcome never rests on evidence the files do not give. Aligned: *)
(* every unit holds a best group, and of the best groups held some file is not *)
(* behind what SeaDex lists. Superseded: every file of every held best group   *)
(* is readably behind. Mixed and diverged: some unit holds neither a best      *)
(* group nor a file whose group is unknown. No file, or HoldsFile's refusal:   *)
(* the entry's own part holds none.                                            *)
AlignmentSound(series, e, listing, d) ==
  LET units == Units(series, e, d)
      best == {f \in UNION units : f.group \in listing.best}
      named == {f \in best : f.group # NoGroup}
      holds(u) == \E f \in u : f.group \in listing.best
      nameless(u) == \E f \in u : f.group = NoGroup
      bad(u) == ~holds(u) /\ ~nameless(u) /\ NoGroup \notin listing.best
  IN /\ ~HoldsFile(ItemOf(series), e) /\ PlacedInSeries(e) => units = {}
     /\ (series.read # "none" /\ d.outcome # "withheld" /\ d.kind # "offered") =>
          /\ d.outcome = "no_file" <=> units = {}
          /\ d.outcome = "aligned" =>
               /\ \A u \in units : holds(u)
               /\ named # {} => \E f \in named : ~Behind(f, listing)
          /\ d.outcome = "superseded" =>
               /\ named # {} /\ \A f \in named : Behind(f, listing)
               /\ d.heldRevision.version < d.listedRevision.version
          /\ d.outcome \in {"mixed", "diverged"} => \E u \in units : bad(u)
          /\ d.outcome = "unverifiable" =>
               \E u \in units : ~holds(u) /\ (nameless(u) \/ NoGroup \in listing.best \cup listing.alt)
=============================================================================
