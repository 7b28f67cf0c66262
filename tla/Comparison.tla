----------------------------- MODULE Comparison -----------------------------
(* From one judged match to at most one finding (internal/compare), over the   *)
(* releases its entry lists: which of them are recommended (classify, filter,  *)
(* tagfilter), what their payload files say (internal/payload), the status and *)
(* pool of the finding, and the two sizes it states. A torrent is its facts    *)
(* after release.Classify read its names; a file its length, its revision, and *)
(* the episode token its name carries.                                         *)
EXTENDS Alignment, FiniteSetsExt, SequencesExt

CONSTANTS MaxBytes,   \* math.MaxInt64
          MaxSpan,    \* maxSpanEpisodes
          NoLink, NoId, AnimeBytes
------------------------------------------------------------------------------
(* Payload: a file is [name, media, length, rev, token], media telling a video *)
(* that is no creditless extra or sample, "" an empty name.                    *)

EligiblePool(files) ==
  LET named == {f \in files : f.name # ""}
      media == {f \in named : f.media}
  IN IF media # {} THEN media ELSE named
HalfFloor(n) == (n + 1) \div 2
KeepAtLeast(pool, floor) == {f \in pool : floor <= 0 \/ f.length >= floor}
PrimaryFiles(files) ==
  LET pool == EligiblePool(files) IN KeepAtLeast(pool, HalfFloor(Max({f.length : f \in pool} \cup {0})))
MedianLength(pool) ==
  LET sorted == SortSeq(SetToSeq(pool), LAMBDA a, b : a.length < b.length)
      middle == sorted[(Len(sorted) - 1) \div 2 + 1].length
  IN IF pool = {} \/ middle < 0 THEN 0 ELSE middle
Population(files) == LET pool == EligiblePool(files) IN KeepAtLeast(pool, HalfFloor(MedianLength(pool)))
PayloadRevision(files) == NewestRevision({f.rev : f \in Population(files)})

\* The media files of the population; with no media the pool holds none of them.
Census(files) == {f \in Population(files) : f.media}
NoToken == [season |-> 0, first |-> 0, last |-> 0, qualifier |-> ""]
AbsoluteSeason == -1
DistinctEpisodes(files) == Cardinality({f.token : f \in {x \in files : x.token # NoToken}})
SpanOK(token) ==
  /\ token # NoToken /\ token.qualifier = ""
  /\ token.first > 0 /\ token.last >= token.first /\ token.last - token.first < MaxSpan
SpansKnown(files) == \A f \in files : SpanOK(f.token)

\* A total over a set; 0 when a size is negative or the sum would overflow.
Total(S, Size(_)) ==
  LET sum == MapThenSumSet(Size, S)
  IN IF (\E x \in S : Size(x) < 0) \/ sum > MaxBytes THEN 0 ELSE sum
TotalSize(files) == Total(files, LAMBDA f : f.length)
------------------------------------------------------------------------------
(* The releases of an entry *)

KeepNonTracker(t, opts) ==
  /\ ~(t.kind = "remux" /\ opts.excludeRemux)
  /\ opts.requireDualAudio => t.dualAudio

ABVisible(t, animeBytes) == animeBytes \/ t.ab = "none"
Obtainable(t, animeBytes) ==
  /\ t.link # NoLink
  /\ t.type = "public" \/ (t.type = "private" /\ t.tracker = AnimeBytes)
  /\ ABVisible(t, animeBytes)

Recommended(entry, opts) ==
  {t \in entry.torrents : t.best /\ ~t.excluded /\ KeepNonTracker(t, opts) /\ Obtainable(t, opts.animeBytes)}

GroupSet(pool) == {t.group : t \in pool}

\* BestRevisions: over every best torrent, whether it is recommended or not.
BestRevisions(entry) ==
  LET best == {t \in entry.torrents : t.best}
  IN [g \in GroupSet(best) |-> NewestRevision({PayloadRevision(t.files) : t \in {x \in best : x.group = g}})]

ListedTorrents(entry, opts) == {t \in entry.torrents : opts.animeBytes \/ t.ab # "definite"}
ListedGroups(entry, opts) == GroupSet(ListedTorrents(entry, opts))
AltGroups(entry, opts) ==
  ListedGroups(entry, opts) \ GroupSet({t \in ListedTorrents(entry, opts) : t.best})

Fallback(entry) ==
  IF entry.theoretical THEN "theoretical" ELSE IF entry.incomplete THEN "incomplete" ELSE "none"

(* What the lists give: the size of a file, in the season of its episodes, and *)
(* their numbers; the torrents of an entry, their payloads' files and spans.   *)
FilesStated(series) ==
  /\ \A ep \in series.episodes : ep.number \in Int
  /\ \A f \in series.files : /\ f.size \in Nat
                              /\ \A ep \in series.episodes : FileOf(ep, {f}) # {} => ep.season = f.season
PayloadStated(files) ==
  IsFiniteSet(files) /\ \A f \in files : f.rev \in Revisions /\ f.token.first \in Int /\ f.token.last \in Int
TorrentsStated(torrents) ==
  /\ IsFiniteSet(torrents)
  /\ \A t \in torrents : t.resolution \in Int /\ t.key \in Int /\ PayloadStated(t.files)

\* betterCandidate: resolution, then public, then the stable key (a number here).
BetterCandidate(a, b) ==
  \/ a.resolution > b.resolution
  \/ /\ a.resolution = b.resolution
     /\ \/ a.type = "public" /\ b.type # "public"
        \/ (a.type = "public") = (b.type = "public") /\ a.key < b.key
Representative(pool) == CHOOSE t \in pool : \A u \in pool : ~BetterCandidate(u, t)

\* One link per tracker and URL, headlined when the representative's group publishes it.
ObtainableLinks(pool) ==
  LET headline == Representative(pool).group
      sources == {t \in pool : t.link # NoLink}
      same(t) == {u \in sources : u.tracker = t.tracker /\ u.link = t.link}
  IN {[tracker |-> t.tracker, link |-> t.link, headline |-> headline \in GroupSet(same(t))] : t \in sources}
------------------------------------------------------------------------------
(* The sizes *)

Family(t) == <<t.group, t.tracker, t.resolution, t.codec, t.kind, t.dualAudio>>
FileClaims(f) == {<<f.token.season, n>> : n \in f.token.first..f.token.last}
ClaimsOf(files) == UNION {FileClaims(f) : f \in files}

\* claim: no episode twice, and one numbering over the whole set.
ClaimsDisjoint(set) ==
  LET files == {<<t, f>> : t \in set, f \in UNION {Census(x.files) : x \in set}}
      own == {p \in files : p[2] \in Census(p[1].files)}
  IN /\ \A p, q \in own : p # q => FileClaims(p[2]) \cap FileClaims(q[2]) = {}
     /\ \A p, q \in own : p[2].token.season = q[2].token.season

NoSet == {}
DownloadSet(pool) ==
  LET head == Representative(pool)
      family == {t \in pool : Family(t) = Family(head)}
      single(t) == DistinctEpisodes(Census(t.files)) = 1
  IN IF ~single(head) THEN {head}
     ELSE IF (\A t \in family : single(t) /\ SpansKnown(Census(t.files))) /\ ClaimsDisjoint(family)
       THEN family
     ELSE NoSet

DownloadBytes(set) ==
  IF set = NoSet \/ (\E t \in set : TotalSize(t.files) <= 0 \/ t.id = NoId)
       \/ Cardinality({t.id : t \in set}) < Cardinality(set)
    THEN 0 ELSE Total(set, LAMBDA t : TotalSize(t.files))

Episodes(item) == {<<s, n>> : s \in DOMAIN item.seasonEpisodes, n \in UNION {DOMAIN item.seasonEpisodes[s] : s \in DOMAIN item.seasonEpisodes}}
Held(item) == {p \in Episodes(item) : p[2] \in DOMAIN item.seasonEpisodes[p[1]]}
EpisodeAt(item, p) == item.seasonEpisodes[p[1]][p[2]]

\* absoluteEpisode: the season's one episode of that absolute number, none of another season.
AbsoluteEpisode(item, season, n) ==
  LET found == {p \in Held(item) : EpisodeAt(item, p).absolute = n}
  IN IF Cardinality(found) = 1 /\ \A p \in found : p[1] = season THEN found ELSE {}
\* The held episodes a claimed number stands for, {} when none or it is ambiguous.
Standing(item, season, c) ==
  IF c[1] = AbsoluteSeason THEN AbsoluteEpisode(item, season, c[2])
  ELSE {p \in Held(item) : p = c /\ c[1] = season}

FilesAt(item, episodes) == {EpisodeAt(item, p).file : p \in episodes}
\* Mutant: a file the download holds one episode of counts as replaced.
CoveredFilesTouched(item, season, set) ==
  LET claims == ClaimsOf(UNION {Census(t.files) : t \in set})
  IN FilesAt(item, UNION {Standing(item, season, c) : c \in claims})
\* coveredFiles: the files whose every episode, in any season, the download holds.
CoveredFiles(item, season, set) ==
  LET claims == ClaimsOf(UNION {Census(t.files) : t \in set})
      covered == UNION {Standing(item, season, c) : c \in claims}
  IN IF ~(\A t \in set : SpansKnown(Census(t.files))) \/ (\E c \in claims : Standing(item, season, c) = {})
       THEN {}
     ELSE {file \in FilesAt(item, covered) :
             \A p \in Held(item) : EpisodeAt(item, p).file = file => p \in covered}

ReplacedBytes(item, e, d, set) ==
  LET files == IF d.kind = "movie" THEN DOMAIN item.bytes
               ELSE IF d.kind = "season" /\ d.season \notin e.siblings /\ d.season \in DOMAIN item.seasonEpisodes
                 THEN CoveredFiles(item, d.season, set)
               ELSE {}
      size(id) == At(item.bytes, id, 0)
  IN IF \E id \in files : size(id) <= 0 THEN 0 ELSE Total(files, size)

Sized(item, e, d, pool, f) ==
  LET set == DownloadSet(pool)
      total == DownloadBytes(set)
  IN IF f.status \notin {"better_release", "newer_revision"} \/ total = 0 THEN f
     ELSE [f EXCEPT !.releaseBytes = total, !.currentBytes = ReplacedBytes(item, e, d, set)]
------------------------------------------------------------------------------
(* The finding *)

NoFinding == [status |-> "none"]
FindingOf(d, status, pool, recommendedGroups, alt) ==
  [status |-> status, kind |-> d.kind, groups |-> d.groups, pool |-> pool,
   recommendedGroups |-> recommendedGroups, alt |-> alt, tier |-> "none",
   releaseBytes |-> 0, currentBytes |-> 0]

\* A group's releases at its listed revision where it has one there, else all it has.
SupersededPool(d, recommended, listed) ==
  LET atListed == {t.group : t \in {x \in recommended : PayloadRevision(x.files) = listed[x.group]}}
  IN [pool |-> {t \in recommended : /\ t.group \in d.behind
                                    /\ t.group \in atListed => PayloadRevision(t.files) = listed[t.group]},
      exact |-> d.behind \subseteq atListed]

TierOf(item, e, recommended, listed) ==
  LET standing == Decide(item, e, [best |-> GroupSet(recommended), alt |-> listed, revs |-> <<>>]).standing
  IN IF standing \in {"alt", "unlisted"} THEN standing ELSE "none"

\* What compareOne decides on: the recommended groups, whatever their alternatives.
DecisionOf(item, e, entry, opts) ==
  Decide(item, e, [best |-> GroupSet(Recommended(entry, opts)), alt |-> {}, revs |-> BestRevisions(entry)])

\* No best release is obtainable.
NoBest(entry, d, alt) ==
  CASE Fallback(entry) = "theoretical" -> FindingOf(d, "theoretical_best", {}, {}, alt)
    [] Fallback(entry) = "incomplete" -> FindingOf(d, "incomplete", {}, {}, alt)
    [] OTHER -> NoFinding
Superseded(entry, d, superseded, alt) ==
  FindingOf(d, IF entry.incomplete THEN "incomplete" ELSE "newer_revision",
            superseded.pool, GroupSet(superseded.pool), alt)
Diverged(item, e, entry, d, recommended, alt, opts) ==
  IF entry.incomplete THEN FindingOf(d, "incomplete", recommended, GroupSet(recommended), alt)
  ELSE [FindingOf(d, "better_release", recommended, GroupSet(recommended), alt)
          EXCEPT !.tier = TierOf(item, e, recommended, ListedGroups(entry, opts))]

CompareOn(item, e, entry, opts, d, recommended, superseded, alt) ==
  IF d.kind = "offered" \/ d.outcome \in {"no_file", "withheld", "aligned"} THEN NoFinding
  ELSE IF d.outcome = "no_best" THEN NoBest(entry, d, alt)
  ELSE IF d.outcome = "mixed"
    THEN FindingOf(d, "mixed_group_manual", recommended, GroupSet(recommended), alt)
  ELSE IF d.outcome = "unverifiable"
    THEN FindingOf(d, "unverifiable", recommended, GroupSet(recommended), alt)
  ELSE IF d.outcome = "superseded" /\ ~superseded.exact THEN Superseded(entry, d, superseded, alt)
  ELSE LET pool == IF d.outcome = "superseded" THEN superseded.pool ELSE recommended
       IN Sized(item, e, d, pool,
                IF d.outcome = "superseded" THEN Superseded(entry, d, superseded, alt)
                ELSE Diverged(item, e, entry, d, recommended, alt, opts))

CompareJudged(item, e, entry, opts, d, recommended) ==
  CompareOn(item, e, entry, opts, d, recommended,
            SupersededPool(d, recommended, BestRevisions(entry)), AltGroups(entry, opts))
CompareOne(item, e, entry, opts) ==
  CompareJudged(item, e, entry, opts, DecisionOf(item, e, entry, opts), Recommended(entry, opts))
------------------------------------------------------------------------------
(* A finding that recommends something always has a release to recommend, one  *)
(* the operator can use, from every group it names and none held on the files  *)
(* judged; its headline is one of its own links. The bytes it says a download  *)
(* replaces are those of files every one of whose episodes the download holds, *)
(* and never of a season another entry shares.                                 *)
ReplacedWhole(series, e, f, d) ==
  LET pooled == UNION {Census(t.files) : t \in f.pool}
      spans(ep) == \E x \in pooled : SpanOK(x.token) /\
                     IF x.token.season = AbsoluteSeason THEN ep.absolute \in x.token.first..x.token.last
                     ELSE ep.season = x.token.season /\ ep.number \in x.token.first..x.token.last
      whole == {x \in InSeason(series.files, d.season) :
                  \A ep \in series.episodes : ep.file = x.id => spans(ep)}
  IN f.currentBytes > 0 /\ d.kind = "season" =>
       /\ d.season \notin e.siblings
       /\ f.currentBytes <= MapThenSumSet(LAMBDA x : x.size, whole)

FindingHolds(series, e, entry, opts, f, d, units) ==
  /\ f.pool # {} /\ f.recommendedGroups = GroupSet(f.pool)
  /\ \A t \in f.pool : t.best /\ Obtainable(t, opts.animeBytes)
  /\ d.outcome = "diverged" => \E u \in units : GroupsIn(u) \cap f.recommendedGroups = {}
  /\ d.outcome = "superseded" =>
       \A t \in f.pool : \A x \in UNION units : x.group = t.group =>
         RevisionBehind(x.rev, BestRevisions(entry)[t.group])
  /\ \E l \in ObtainableLinks(f.pool) : l.headline
  /\ ReplacedWhole(series, e, f, d)

FindingSound(series, e, entry, opts, f) ==
  \A d \in {DecisionOf(ItemOf(series), e, entry, opts)} :
    f # NoFinding /\ d.outcome # "no_best" =>
      FindingHolds(series, e, entry, opts, f, d, Units(series, e, d))
=============================================================================
