-------------------------- MODULE MCMappingLoader --------------------------
EXTENDS MappingLoader, TLC

CONSTANTS v1, v2, v3, v4, v5
Rec(al, tvdb, movies, anidb, season, kind) ==
  [al |-> al, tvdb |-> tvdb, movies |-> movies, anidb |-> anidb, season |-> season, kind |-> kind]
Row(al, tvdb, kind, typed, retired) ==
  [al |-> al, tvdb |-> tvdb, movies |-> {}, anidb |-> 0, season |-> 0, kind |-> kind,
   typed |-> typed, retired |-> retired]
Fact(noun, tvdb) == [noun |-> noun, tvdb |-> tvdb, season |-> 1]
Doc(readable, recs, facts, alFacts, stated) ==
  [readable |-> readable, recs |-> recs, facts |-> facts, alFacts |-> alFacts,
   stated |-> stated, alStated |-> {}]

One == Rec(1, 10, {}, 7, 1, "present")
Two == Rec(2, 10, {}, 0, 2, "present")
Film == Rec(3, 0, {5}, 0, 0, "absent")
Bare == Rec(4, 0, {}, 0, 0, "absent")
Ranges == 7 :> {Fact("season-range", 10)}

\* A full document, one that lost the films, a fourth of it, one that lost a fact, one unreadable.
Releases ==
  v1 :> Doc(TRUE, <<One, Two, Film, Bare>>, Ranges, 2 :> {Fact("special", 10)}, {}) @@
  v2 :> Doc(TRUE, <<One, Two, Bare>>, Ranges, 2 :> {Fact("special", 10)}, {}) @@
  v3 :> Doc(TRUE, <<Rec(5, 10, {5}, 0, 0, "absent")>>, <<>>, 2 :> {Fact("special", 10)}, {7}) @@
  v4 :> Doc(TRUE, <<One, Two, Film>>, <<>>, 2 :> {Fact("special", 10)}, {7}) @@
  v5 :> Doc(FALSE, <<>>, <<>>, <<>>, {})

Empty == [age |-> 0, tag |-> NoTag, refused |-> NoTag, streak |-> 0, recs |-> <<>>, facts |-> <<>>, alFacts |-> <<>>]
\* No state file; one from the future; one whose records were damaged.
Caches == {Empty,
           [Empty EXCEPT !.age = -1, !.tag = v1, !.recs = Releases[v1].recs, !.facts = Ranges],
           [Empty EXCEPT !.tag = v1, !.recs = <<Rec(1, -4, {-1}, 0, 0, "odd"), Bare>>]}
Files == {NoFile,
          <<Row(1, 10, "absent", FALSE, FALSE)>>,
          <<Row(2, 10, "odd", TRUE, FALSE)>>,
          <<Row(0, 10, "odd", TRUE, FALSE), Row(4, 30, "present", FALSE, FALSE), Row(4, 10, "absent", FALSE, FALSE)>>,
          <<Row(3, 20, "present", FALSE, TRUE)>>}
=============================================================================
