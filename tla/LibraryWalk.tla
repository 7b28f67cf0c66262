----------------------------- MODULE LibraryWalk -----------------------------
(* One walk of the arr libraries (internal/arrwalk): the series list pins one  *)
(* Sonarr version, a bounded fan-out reads each kept series' files and episode *)
(* list, and the walk publishes a snapshot or an error. A read may fail, the   *)
(* process may be told to stop, Sonarr may change version under the walk.      *)
EXTENDS Naturals, FiniteSets

CONSTANTS
  Series,              \* the ids Sonarr lists, fed to the fan-out in order
  Filtered,            \* those arr_tags leaves out
  Unofficial,          \* those in a non-aired episode order
  EpisodeConcurrency,  \* the fan-out's slots
  FailureBudget,       \* episodeFailureBudget
  Untagged             \* whether no arr_tags are set

ASSUME WalkAssumption ==
  /\ Series \subseteq Nat /\ IsFiniteSet(Series)
  /\ Filtered \subseteq Series /\ Unofficial \subseteq Series
  /\ {EpisodeConcurrency, FailureBudget} \subseteq Nat \ {0}
  /\ Untagged \in BOOLEAN /\ (Untagged => Filtered = {})

VARIABLES
  walkAt,      \* where Walk is, or how it ended
  walkStep,    \* series -> its goroutine's progress, or its result
  walkStop,    \* why the fan-out's context ended, the first cause
  walkFailed,  \* the failures counter
  walkMissed,  \* watchedPass.failed: some read of the pass failed
  walkOrders,  \* the SonarrOrders so far
  walkLive,    \* the parent context is live
  walkChanged  \* Sonarr no longer runs the pinned version

walkVars == <<walkAt, walkStep, walkStop, walkFailed, walkMissed, walkOrders, walkLive, walkChanged>>
fanVars == <<walkStep, walkStop, walkFailed, walkMissed>>
------------------------------------------------------------------------------
Kept == Series \ Filtered
NoOrders == [nonAired |-> {}, aired |-> {}, clean |-> FALSE]
ListedOrders == [nonAired |-> Unofficial, aired |-> Series \ Unofficial, clean |-> FALSE]

Running == {s \in Kept : walkStep[s] \in {"files", "episodes"}}
Results == {"item", "listed", "placeholder"}
Unfed == {s \in Kept : walkStep[s] = "unfed"}
FanLive == walkStop = "none" /\ walkLive
FanCause == IF walkStop = "none" /\ ~walkLive THEN "shutdown" ELSE walkStop

\* The walk returns an error, keeping the orders it read.
Fails == walkAt' = "failed" /\ UNCHANGED <<fanVars, walkOrders, walkLive, walkChanged>>
MovesTo(at) == walkAt' = at /\ UNCHANGED <<fanVars, walkOrders, walkLive, walkChanged>>

\* listSonarr: the pin and the list on it.
ListSonarr ==
  /\ walkAt = "list"
  /\ \/ Fails
     \/ /\ walkLive
        /\ walkAt' = IF Untagged THEN "fan" ELSE "tags"
        /\ walkOrders' = ListedOrders
        /\ UNCHANGED <<fanVars, walkLive, walkChanged>>

ResolveTags == walkAt = "tags" /\ (Fails \/ (walkLive /\ MovesTo("fan")))

\* The next series, in order, while the fan-out's context is live and a slot is free.
FeedSeries ==
  /\ walkAt = "fan" /\ FanLive /\ Cardinality(Running) < EpisodeConcurrency
  /\ \E s \in Unfed : /\ \A t \in Unfed : s <= t
                      /\ walkStep' = [walkStep EXCEPT ![s] = "files"]
  /\ UNCHANGED <<walkAt, walkStop, walkFailed, walkMissed, walkOrders, walkLive, walkChanged>>

Ends(s, result) == walkStep' = [walkStep EXCEPT ![s] = result]
Stops(cause) == walkStop' = IF FanLive THEN cause ELSE FanCause

\* Its goroutine finds the fan-out over and reads nothing.
SkipSeries(s) ==
  /\ walkStep[s] = "files" /\ ~FanLive
  /\ Ends(s, "nothing")
  /\ UNCHANGED <<walkAt, walkStop, walkFailed, walkMissed, walkOrders, walkLive, walkChanged>>

\* A read answers in the version it was pinned to, whatever became of the context meanwhile.
FilesRead(s) ==
  /\ walkStep[s] = "files" /\ ~walkChanged
  /\ Ends(s, "episodes")
  /\ UNCHANGED <<walkAt, walkStop, walkFailed, walkMissed, walkOrders, walkLive, walkChanged>>

\* A failed read of a live fan-out is a placeholder; the budget's last one stops the fan-out.
FilesFailed(s) ==
  /\ walkStep[s] = "files"
  /\ walkMissed' = TRUE
  /\ IF FanLive
       THEN /\ Ends(s, "placeholder") /\ walkFailed' = walkFailed + 1
            /\ walkStop' = IF walkFailed + 1 >= FailureBudget THEN "budget" ELSE walkStop
       ELSE Ends(s, "nothing") /\ walkStop' = FanCause /\ UNCHANGED walkFailed
  /\ UNCHANGED <<walkAt, walkOrders, walkLive, walkChanged>>

\* watchedPass: a reply of another version ends the fan-out before the error is looked at.
FilesOfOther(s) ==
  /\ walkStep[s] = "files" /\ walkChanged
  /\ walkMissed' = TRUE /\ Stops("changed") /\ Ends(s, "nothing")
  /\ UNCHANGED <<walkAt, walkFailed, walkOrders, walkLive, walkChanged>>

EpisodesRead(s) ==
  /\ walkStep[s] = "episodes" /\ ~walkChanged
  /\ Ends(s, "listed")
  /\ UNCHANGED <<walkAt, walkStop, walkFailed, walkMissed, walkOrders, walkLive, walkChanged>>

\* addEpisodes: a failed list leaves the item without one; another version stops the fan-out.
EpisodesFailed(s) ==
  /\ walkStep[s] = "episodes"
  /\ walkMissed' = TRUE /\ Ends(s, "item")
  /\ \/ walkStop' = FanCause
     \/ walkChanged /\ Stops("changed")
  /\ UNCHANGED <<walkAt, walkFailed, walkOrders, walkLive, walkChanged>>

FanDone == walkAt = "fan" /\ Running = {} /\ (Unfed = {} \/ ~FanLive)

\* Mutant: only a walk whose every series failed is an error.
FetchErrorAll == ~walkLive \/ (Kept # {} /\ walkFailed = Cardinality(Kept))
\* episodeFetchError
FetchError == \/ ~walkLive
              \/ walkFailed >= FailureBudget
              \/ Kept # {} /\ walkFailed = Cardinality(Kept)

\* walkSonarr after the fan-out, then walkRadarr: a movie list, tags and the stop check.
JoinFan ==
  /\ FanDone
  /\ IF FetchError \/ FanCause = "changed" THEN Fails ELSE MovesTo("radarr")

WalkRadarr == walkAt = "radarr" /\ (Fails \/ (walkLive /\ MovesTo("publish")))

\* Walk's end: a last look at the context, then the snapshot with its orders.
PublishSnapshot ==
  /\ walkAt = "publish"
  /\ IF ~walkLive THEN Fails
     ELSE /\ walkAt' = "snapshot"
          /\ walkOrders' = [walkOrders EXCEPT !.clean = ~walkMissed]
          /\ UNCHANGED <<fanVars, walkLive, walkChanged>>

\* The surroundings: the process is told to stop, Sonarr is upgraded.
WalkOver == walkAt \in {"snapshot", "failed"}
Cancel == /\ walkLive /\ ~WalkOver /\ walkLive' = FALSE
          /\ UNCHANGED <<walkAt, fanVars, walkOrders, walkChanged>>
Upgrade == /\ ~walkChanged /\ walkAt # "list" /\ ~WalkOver /\ walkChanged' = TRUE
           /\ UNCHANGED <<walkAt, fanVars, walkOrders, walkLive>>

FetchSeries == \E s \in Kept : \/ SkipSeries(s) \/ FilesRead(s) \/ FilesFailed(s) \/ FilesOfOther(s)
                               \/ EpisodesRead(s) \/ EpisodesFailed(s)
Walk == ListSonarr \/ ResolveTags \/ FeedSeries \/ FetchSeries \/ JoinFan \/ WalkRadarr \/ PublishSnapshot

WalkInit ==
  /\ walkAt = "list" /\ walkStep = [s \in Kept |-> "unfed"]
  /\ walkStop = "none" /\ walkFailed = 0 /\ walkMissed = FALSE
  /\ walkOrders = NoOrders /\ walkLive = TRUE /\ walkChanged = FALSE
WalkNext == Walk \/ Cancel \/ Upgrade
WalkSpec == WalkInit /\ [][WalkNext]_walkVars
------------------------------------------------------------------------------
(* The snapshot's items, and whether it says it is partial (walkTotals.add).   *)
Items == {s \in Kept : walkStep[s] \in Results}
Partial == walkFailed > 0

(* A published snapshot leaves out no series the list kept: one the fan-out    *)
(* skipped or gave up on would read as removed. It is partial exactly when it  *)
(* holds placeholders, some series of it was read, and no read met another     *)
(* version. Clean orders, which alone release a held series, mean no read of   *)
(* the walk failed, and the orders are those of the whole list.                *)
WalkWhole ==
  /\ walkAt = "snapshot" =>
       /\ Items = Kept
       /\ Partial <=> \E s \in Kept : walkStep[s] = "placeholder"
       /\ Kept # {} => \E s \in Kept : walkStep[s] # "placeholder"
       /\ FanCause # "changed"
       /\ walkOrders.clean <=> \A s \in Kept : walkStep[s] = "listed"
  /\ walkOrders.clean => walkAt = "snapshot" /\ walkOrders.nonAired \cup walkOrders.aired = Series
  /\ walkFailed = Cardinality({s \in Kept : walkStep[s] = "placeholder"})
  /\ walkAt \in {"radarr", "publish", "snapshot"} => Running = {}
=============================================================================
