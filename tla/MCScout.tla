------------------------------ MODULE MCScout ------------------------------
(* Instances of Scout: one arr, and an item count of 1 is less than half of 3. *)
(* Each run allows the faults its properties are about.                        *)
EXTENDS Scout

UpstreamFaults == {{"sea", "oversize", "walk", "shrunk", "anilist"}}
StoreFaults == {{"mapping", "load", "save"}, {"sea", "load"}, {"sea", "save"}, {"sea", "mapping"}}
LibraryOrStoreFaults == {{"walk", "shrunk", "partial", "load"}} \cup StoreFaults
WindowFaults == {{"sea", "oversize"}}
NoTicks == {1, 3}
Looped == {3}
WithPoll == {0, 3}
=============================================================================
