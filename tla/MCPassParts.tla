------------------------------ MODULE MCPassParts ------------------------------
EXTENDS PassParts, MCMappingLoader, MCVerdicts

CONSTANTS h1, h3

(* SeaDex: entries created in one instant, an id a stray record repeats. *)
Row3(created, id, al, weight, fresh) ==
  [created |-> created, id |-> id, al |-> al, weight |-> weight, fresh |-> fresh]
Records == {Row3(1, 1, 1, 1, TRUE), Row3(1, 2, 2, 1, FALSE), Row3(1, 3, 3, 2, TRUE), Row3(2, 1, 4, 1, TRUE),
            Row3(2, 2, 1, 1, TRUE), Row3(3, 1, 0, 1, TRUE), Row3(2, 3, 5, 1, FALSE)}

(* AniList: everything known; some gone or unusable; nothing. *)
Media(titles, year, arr) == [titles |-> titles, year |-> year, arr |-> arr]
Dated == Media({"a"}, 1, "sonarr")
Undated == Media({"b"}, 0, "any")
BothMedias == {Dated, Undated}
SomeAniLists == {[[i \in Ids |-> Dated] EXCEPT ![2] = Undated],
                 [[i \in Ids |-> Dated] EXCEPT ![1] = Unusable, ![4] = Absent],
                 [i \in Ids |-> Absent]}
Items3 == {Media({"a"}, 0, "sonarr"), Media({"a", "b"}, 2, "sonarr"), Media({"c"}, 1, "radarr")}
Cached(life) == [media |-> {Dated}, life |-> life, was |-> Dated]
NotFound(life) == [media |-> {}, life |-> life, was |-> Absent]
\* Expired titles of a routed entry and of one no longer curated, a clock that was wrong.
SomeMemos == {<<>>, (1 :> Cached(0) @@ 3 :> Cached(0) @@ 4 :> NotFound(5) @@ 9 :> Cached(0)), 4 :> NotFound(0)}
SomeWindows == {{1, 3}}

(* The journal: the same bytes on two trackers, a key of the other tracker, an untitled show. *)
Item(feed, n, al, hash) == [feed |-> feed, key |-> <<feed, n>>, al |-> al, hash |-> hash]
Older == {Item(1, 1, 1, h1), Item(1, 2, 2, NoHash), Item(1, 3, 3, h3), Item(2, 1, 1, h1)}
Newer == (Older \ {Item(1, 2, 2, NoHash)})
           \cup {Item(1, 4, 4, NoHash), Item(1, 5, 5, NoHash), [Item(1, 6, 3, NoHash) EXCEPT !.key = <<2, 6>>],
                 Item(1, 7, 9, NoHash)}
SomeJournals == {Older, Newer}
Hit(info, guid, hash, fit) == [info |-> info, guid |-> guid, hash |-> hash, fit |-> fit]
SomeReplies == {{Hit(<<1, 1>>, NoKey, h1, TRUE)},
                {Hit(NoKey, NoKey, h3, TRUE), Hit(<<1, 3>>, <<1, 3>>, NoHash, TRUE)},
                {Hit(<<1, 3>>, <<1, 2>>, NoHash, TRUE)}, {Hit(<<2, 1>>, NoKey, h3, TRUE)},
                {Hit(<<1, 2>>, NoKey, NoHash, FALSE)}, {Hit(NoKey, NoKey, h1, TRUE)}, {Hit(<<3, 3>>, NoKey, h3, TRUE)}}
SomeWordings == [al \in 1..5 |-> IF al = 3 THEN 2 ELSE 1]
SomeCursors == {NoCursor, <<1, 2>>}
=============================================================================
