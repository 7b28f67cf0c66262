----------------------------- MODULE MCVerdicts -----------------------------
EXTENDS Verdicts

\* Entries of up to three episodes, landing on one or two placements of three seasons.
Ps == Placements
MCReadings == {LandsOn({p}) : p \in Ps} \cup NoLanding
              \cup {LandsOn({p, q}) : p \in {x \in Ps : x.season = 1 /\ ~x.default},
                                      q \in {x \in Ps : x.season # 1}}
Wide == UNION {[1..n -> MCReadings] : n \in 0..2}
Long == [1..3 -> {LandsOn({p}) : p \in {x \in Ps : x.episode = 1 \/ ~x.default}} \cup NoLanding]
MCMapEntries == [tvdb : {{10}}, entry : Wide \cup Long] \cup [tvdb : {{}, {10, 20}}, entry : [1..1 -> MCReadings]]

\* Series of up to two files over seasons 0 to 2, beside lists that place them, or not.
Revs == {RevisionUnknown, ArrRevision(1, FALSE), ArrRevision(2, TRUE)}
File(id, s, g, r) == [id |-> id, season |-> s, group |-> g, rev |-> r, size |-> id]
Ep(s, n, file, has) == [season |-> s, number |-> n, absolute |-> 0, file |-> file, hasFile |-> has]
FirstFile == {File(1, s, g, r) : s \in {0, 1}, g \in {"a", "b", NoGroup}, r \in Revs}
SecondFile == {File(2, s, g, r) : s \in 0..2, g \in {"a", "b", NoGroup}, r \in Revs}
FilesSets == {{}} \cup {{f} : f \in FirstFile} \cup {{f, g} : f \in FirstFile, g \in SecondFile}
Lists(files) ==
  LET own == {Ep(f.season, f.id, f.id, TRUE) : f \in files}
  IN {own, own \cup {Ep(1, 3, 0, FALSE)}, own \cup {Ep(1, 3, 0, TRUE), Ep(0, 4, 0, TRUE)}}
SeriesOf(files, eps, read) ==
  [files |-> files, episodes |-> eps, read |-> read, order |-> FALSE, aniListIDs |-> {}]
MCSeries ==
  UNION {{SeriesOf(files, eps, "all") : eps \in Lists(files)} : files \in FilesSets}
  \cup {SeriesOf(files, {}, read) : files \in FilesSets, read \in {"none", "files"}}
RecordOf(kind, season, radarr) == [kind |-> kind, season |-> season, radarr |-> radarr]
EntryFor(rec, specials, episodes, siblings, seasons) ==
  [rec |-> rec, specials |-> specials, episodes |-> episodes, siblings |-> siblings,
   seasons |-> seasons, aniListID |-> 7]
MCEntries ==
  {EntryFor(RecordOf("present", 1, FALSE), {}, {}, {}, {}), EntryFor(RecordOf("present", 1, FALSE), {}, {1}, {}, {}),
   EntryFor(RecordOf("present", 0, TRUE), {1}, {}, {}, {}), EntryFor(RecordOf("present", 0, FALSE), {1, 2}, {}, {}, {}),
   EntryFor(RecordOf("absent", 0, FALSE), {}, {}, {2}, {}), EntryFor(RecordOf("absent", 0, TRUE), {}, {}, {}, {1, 2}),
   EntryFor(RecordOf("unknown", 0, FALSE), {}, {}, {}, {})}
Listing(best, alt, r) == [best |-> best, alt |-> alt, revs |-> [g \in best |-> r]]
MCListings ==
  {Listing(best, {"b"}, ArrRevision(2, FALSE)) : best \in {{}, {"a"}, {"a", "b"}}}
  \cup {Listing({NoGroup}, {}, ArrRevision(2, FALSE))}
Narrow == {s \in MCSeries : \A f \in s.files : f.rev # RevisionUnknown}
MCAlignments ==
  [series : MCSeries, entry : {e \in MCEntries : e.rec.kind # "unknown" /\ e.seasons = {}},
   listing : {Listing({"a"}, {"b"}, ArrRevision(2, FALSE)), Listing({"a", NoGroup}, {}, ArrRevision(2, FALSE))}]
  \cup [series : {[s EXCEPT !.order = TRUE] : s \in Narrow} \cup {[s EXCEPT !.aniListIDs = {8}] : s \in Narrow},
        entry : {EntryFor(RecordOf("present", 1, FALSE), {}, {1}, {}, {})}, listing : {Listing({"a"}, {}, ArrRevision(2, FALSE))}]
  \cup [series : Narrow, entry : MCEntries, listing : MCListings]

\* Matches over a season of two or three files, one of them a double episode.
Ab(s, n, abs, file) == [Ep(s, n, file, TRUE) EXCEPT !.absolute = abs]
Shelf == {SeriesOf({File(1, 1, g, r), File(2, s, h, r)}, eps, "all") :
            g \in {"a", "b"}, h \in {"b", NoGroup}, r \in Revs, s \in {1, 2},
            eps \in {{Ab(1, 1, 1, 1), Ab(1, 2, 2, 1), Ab(1, 3, 3, 2)}, {Ab(1, 1, 1, 1), Ab(1, 2, 2, 2)}}}
MCShelf == {x \in Shelf : \A ep \in x.episodes : \E f \in x.files : f.id = ep.file /\ f.season = ep.season}
Token(s, a, b) == [season |-> s, first |-> a, last |-> b, qualifier |-> ""]
Pay(name, len, r, token) == [name |-> name, media |-> TRUE, length |-> len, rev |-> r, token |-> token]
Torrent(key, g, best, link, res, files) ==
  [key |-> key, group |-> g, best |-> best, excluded |-> FALSE, kind |-> "encode", dualAudio |-> FALSE,
   type |-> "public", tracker |-> "nyaa", ab |-> "none", link |-> link, resolution |-> res,
   codec |-> "x265", id |-> link, files |-> files]
V1 == ArrRevision(1, FALSE)
V2 == ArrRevision(2, FALSE)
Payloads == {{Pay("e1", 4, V2, Token(1, 1, 1))}, {Pay("e2", 4, V2, Token(1, 2, 2))}, {Pay("e1", 4, V1, Token(1, 1, 2))},
             {Pay("a2", 4, V2, Token(-1, 2, 2)), Pay("tiny", 1, V1, Token(1, 9, 9))},
             {Pay("e1", 4, V2, Token(1, 1, 1)), Pay("e2", 4, V1, Token(1, 2, 2)), Pay("e3", 8, V2, Token(1, 3, 3))},
             {Pay("x", -1, RevisionUnknown, NoToken)}}
Firsts == {Torrent(1, g, TRUE, "l1", 1080, files) : g \in {"a", "c"}, files \in Payloads}
Hidden == {[t EXCEPT !.excluded = TRUE] : t \in Firsts}
          \cup {[t EXCEPT !.type = "private", !.tracker = AnimeBytes, !.ab = "definite"] : t \in Firsts}
Seconds == {Torrent(2, "a", TRUE, link, res, files) : link \in {"l1", "l2", NoLink}, res \in {720, 1080}, files \in Payloads}
           \cup {Torrent(2, "b", FALSE, "l2", 1080, files) : files \in Payloads}
Opts(remux, dual, ab) == [excludeRemux |-> remux, requireDualAudio |-> dual, animeBytes |-> ab]
ListedOf(torrents, incomplete, theoretical) ==
  [torrents |-> torrents, incomplete |-> incomplete, theoretical |-> theoretical]
MCComparisons ==
  [series : MCShelf, entry : {EntryFor(RecordOf("present", 1, FALSE), {}, {}, {}, {})},
   listed : {ListedOf({t, u}, FALSE, FALSE) : t \in Firsts \cup Hidden, u \in Seconds},
   opts : {Opts(FALSE, FALSE, FALSE)}]
  \cup [series : MCShelf, entry : {e \in MCEntries : e.rec.kind # "unknown" /\ e.siblings = {} /\ e.seasons = {}},
        listed : {ListedOf({t}, i, th) : t \in Firsts \cup Hidden, i \in BOOLEAN, th \in BOOLEAN},
        opts : {Opts(TRUE, FALSE, TRUE), Opts(FALSE, TRUE, FALSE), Opts(FALSE, FALSE, FALSE)}]
=============================================================================
