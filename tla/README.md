# A TLA+ model of seadex-scout

seadex-scout compares a Sonarr and a Radarr anime library with the releases
SeaDex recommends, keeps the differences as a set of findings it states in its
log, and serves the recommended releases as a Torznab feed. This directory
models the parts of it whose correctness depends on the order in which things
happen: passes that fail half way, processes that stop and start, files that
change underneath, and clients that read while a pass writes.

Run the checks with `tlc -config X.cfg MCModule` and the proofs with
`tlapm ModuleProofs.tla`.

## 1. The system

| Part | Source | State | Operations |
| --- | --- | --- | --- |
| pass scheduler | `internal/scout`, `internal/degradation` | loop counter, ready flag, retry count, tick streaks, standing conditions | `Cycle`: a reconcile or a tick; the gates, the saves, the completion lines |
| state store | `internal/state` | `state.json`; per process a save block and a newer-schema mark | `Load` (classify, quarantine), `Save` |
| finding set | `internal/notify` | the current rows, when each appeared | `Report`, `ReportScoped`, `Reemit` |
| matcher, memo | `internal/match`, `internal/anilist` | the AniList memo with its expiries | `Match`, `PruneMemo` |
| comparison | `internal/compare`, `align`, `release`, `classify`, `filter`, `tagfilter` | none | pure functions |
| feed journal | `internal/indexer` (`pass.go`, `journal.go`, `writer.go`) | `feed.json`: items, publication log, titles, owners | `Rebuild`, `Advance`, `persist` |
| title harvest | `internal/indexer/harvest.go` | rotation cursor, latches | `harvestTitles` |
| served snapshot | `internal/indexer/reload.go` | the snapshot, its file identity, fault flags | `refresh`, `publishSnapshot`, `unavailable` |
| feed server | `internal/indexer` (`server.go`, `query.go`, ...) | rate limiter, listener | requests, supervised restarts |
| mapping loader | `internal/mapping` | the cached release, its refusal streak | `Load` |
| library walk | `internal/arrwalk`, `library` | none across walks | `Walk` |
| SeaDex client | `internal/seadexapi` | none | `CountWindow`, `FetchEntries` |
| cycle lock, marker, watchdog | `internal/cycle`, `main.go` | lock and queue files, health marker | `RunOnce`, `RunLoop`, the watchdog |
| report | `internal/audit`, `reportfs` | none (read-only) | `Report` |
| configuration, names, wiring | the rest | none after start | parsing, rendering, exit codes |

How they interact. One goroutine of the daemon runs `Scout.Cycle` on a timer,
under a lock file that a `poll` in another process also takes. A **reconcile**
loads the state, walks the arrs, loads the mapping, fetches the catalogue,
rebuilds the feed, matches, compares, replaces the finding set and saves. A
**tick** probes SeaDex for recent changes and, when there are some, does the
same over that window and the cached library, with authority over those entries
only. In the same process the feed server's loader goroutine re-reads
`feed.json` while passes write it and hand the snapshot over directly, and
request goroutines read the snapshot.

What is hard about it: a pass can end in thirteen ways, each of which must save
what was learnt, advance the right streaks and log the right lines; a shutdown
can cancel every await; the process can die between any two steps and start
again, with another configuration or as another image; both cadences act on the
same conditions; two producers install snapshots; and several rules conclude
something from *absence* (a row that is not found again, an item not listed,
a series not walked), which a partial read must never be allowed to trigger.
`PROJECT.json` lists these hazards at their lines.

## 2. Plan

Written so far, the most important behaviour first:

1. `StateStore`, `StateStoreProofs`: no pass replaces a file it should have
   preserved.
2. `ServedFeed` (abstract), `SnapshotCache`, `SnapshotCacheProofs`: two
   producers, one served snapshot; a refinement.
3. `AtMostOnceFeed` (abstract), `FeedJournal`, `FeedJournalProofs`: a release
   is announced at most once; a refinement.
4. `Scout`, `ScoutProofs`: the scheduler that calls all of them.
5. `Findings`, `FindingsProofs`: what a full and a scoped pass may delete from
   the finding set, and what they must.
6. The parts a pass calls: `MappingLoader`, `LibraryWalk`, `CatalogueFetch`,
   `Lookups`, `TitleHarvest`, and the pure algorithms `Projection`, `Alignment`
   and `Comparison`, which `Verdicts` asks questions. `PassParts` composes them;
   `VerdictsProofs` proves what the algorithms answer, `PassPartsProofs` the
   other parts and the composition.
7. `CycleLock`, `CycleLockProofs`: the lock, the one-place queue of `poll`, the
   health marker and the watchdog.

Next, in this order:

8. `CycleLock` composed with `StateStore`, whose lock it implements.
9. `OwnerIndex`: the ownership index between rebuilds and windows, agreeing
    with what a full rebuild would give.
10. `Torznab`: query limits and paging; `Supervise`: the listener's restarts and
    the shutdown order.

## 3. What is modelled

### StateStore

State: what the file at the live path is (`absent`, `ok`, `newer`, `corrupt`),
whether bytes are kept in `.corrupt`, the faults present, who holds the cycle
lock, and per process its place in the pass, `Store.loadFailed`,
`Store.unsupportedVersion` and whether the standing set is dirty. One action per
way `Load` classifies what it finds, one for each save, one for
`persistStanding`'s own load and save, and the process's start, cancellation and
death. The history variable `based` says that the state in memory comes from
the bytes now at the live path.

* `SavesKeepLineage`: a save replaces a readable state only by one derived from
  it. A pass that could not read the file starts with an empty state; without
  the save block its save would destroy the memo, the snapshot and the streaks.
* `NewerFileSurvives`: through any sequence of failed reads and restores no
  pass replaces a file of a newer schema.
* `EvidencePreserved`: corrupt bytes leave the live path only by the rename.
* `SaveBlockClears` (liveness): once reads work, a process may save again.

`StateStore.cfg` uses two processes, the daemon and a
poll: the lock makes passes of a third indistinguishable from theirs. Fairness:
a pass under way finishes (each call in it is bounded by a timeout); `BeginPass`
and `LoadState` are strongly fair, because the scheduler tries for the lock at
every interval and every `reconcileEvery`-th pass loads. Not modelled: the
sweep of leftover temporary files and the read-only store of `report`. The file
changes by other hands only between passes.

### SnapshotCache implements ServedFeed

State: the file (generation of the last write, what reading it yields,
present, faulty), the `snapshotCache` fields, the loader's local variables
between its unlocked steps, the pass between write, stat and hand-over, and
each request between the read lock, the pending check and the write lock.

* `ImplementsServedFeed`: the served feed only moves to newer writes until the
  process restarts (the abstract module `ServedFeed`).
* `UnchangedMeansLoaded`: a refresh skipped as already loaded was of the
  snapshot being served.
* `HonestAnswers`: a startup fault is not answered with an empty feed, and a
  request that began after an install is not refused.
* `EventuallyFresh` (liveness): once the file stays readable and unchanged, it
  is what is served. Fairness: the ticker fires, a started load returns, a pass
  that wrote goes on to publish. A wedged load, which the code only warns
  about, is outside that assumption.

Three writes are enough for an old load to overlap a publish that itself
supersedes another. Not modelled: a cancelled read and the rebuilding of
passkeys in items. The constant `OperatorMidPass` says whether a file may be
put in place while a pass is between its write and its stat; the passing run
and the proofs assume not, and `SnapshotCacheRestore.cfg` shows what happens
when it may: the snapshot just published is recorded under the identity of the
other file, and that file is never loaded.

### FeedJournal implements AtMostOnceFeed

State: what SeaDex says of each listing, which entries a window holds, the
configuration, `feed.json` (journal and publication log) and the pass in
progress: its evidence, the log it started from, what it publishes, the journal
so far and the listings still to look at. Actions follow `FeedWriter.run`: a
baseline start, a start that carries the journal, one step per listing
(`journalIfNew`: already known, disabled, unservable, new), and a commit, or an
abandon wherever the code can stop. The world edits listings, steps the clock
forward and back, changes the configuration, and loses or damages the file.

* `NoRebroadcast`, `AnnouncedAtMostOnce`: nothing announced or forfeited is
  announced again, across configurations, tracker outages and lost writes.
  `NoRebroadcast` has one exception, which the checker found: when two listings
  of a new key disagree about showing their hash, the key may be announced
  although another key carried the same bytes.
* `UnservedStaysNew`: what nothing could serve yet is not consumed.
* `DropsOnEvidence`: a full pass drops everything whose bytes are excluded
  anywhere; a window drops nothing because it is absent.
* `NeverRedated`: no pass makes an item younger.

Four listings of three keys on two trackers with one shared hash cover a
redacted duplicate, a re-upload and a cross-tracker twin; a log cap of four is
reached; ages run to one past the limit. `FeedJournalWindow.cfg` shows that a
window pass announces a release whose excluded twin lies in an entry outside
the window, against the comment that says the closure prevents it. Not
modelled: titles (their harvest is `TitleHarvest`), ownership votes, the gates
on GUIDs and scope mismatches, an older file put back. The order in which listings are
looked at is left open (the code's is that of the catalogue) and the rendered
choice among listings is any of them.

### Scout

State: `state.json` as the passes see it, the process's fields, the standing
set with what this pass observed and stated, and the running pass with its
place in the code. Each action is the code between two awaits: load, walk,
mapping, fetch, the streak, the library gate and the shrink guard, the upstream
gate, the match, and the tail of `Cycle`, which re-states and persists the
standing set; a tick is its probe, its load, its window fetch and its match.
`Cancel` may come between any two, `Restart` at any time.

* `ClosesOnce`: each finished pass logs one completion line and states the
  finding set exactly with it, once there is one; a cancelled pass does neither
  or both.
* `PassInv`: types, and `ConditionsStated`: no standing condition misses a
  pass's log.
* `StandingPersisted`: `state.json` holds the standing set after every pass.
* `EscalatesInTime`: two finished reconciles in a row without a catalogue leave
  the condition standing, whichever gate closed them.
* `EndsOnEvidence`: a condition goes only in a pass that saw it end. Checked
  with `state.json` readable: when it is not, the streaks start again, and
  `TestStandingConditionFollowsTheStreakItObserves` states that a failing fetch
  below the threshold then ends the condition.
* `ShrinkGuarded`, `OrdersReleased`: a library side and a non-aired order are
  given up only on the evidence the guards ask for.
* `Settles` (liveness): when faults stop, the process gets its finding set and
  every condition clears, a library that stays small included. Fairness: a pass
  that may take a step takes one. The loop's timer starts passes and each call
  is bounded by a timeout.

The faults that may go wrong together are a constant, `Troubles`, and a
behaviour draws one set of them, since all at once exceed the checker's reach:
in `Scout.cfg` failing upstreams and AniList and a shrinking library, with a
`poll` that has no loop as well as the daemon; in `ScoutLibrary.cfg` every way a
walk can fall short, or failing stores with mappings, or a failing fetch with
loads, saves or mappings. Bounds: thresholds of two or three keep the
order `ReconcileEscalation < ShrunkAccept`; streaks saturate at the threshold
they are compared with, and the loop counter is kept modulo `reconcileEvery`
(three: a reconcile and two ticks). Sizes 3 and 1 are the smallest on both
sides of the half. Abstracted: the memo to whether a pass learnt something; the
results of matching and comparing; a failing feed write, which no pass reacts
to. Not modelled: a panic in a cycle, which the loop recovers.

`ScoutLongInterval.cfg` shows a disagreement with `restoreStanding`'s comment:
`observes` looks at whether there is an interval, but above twelve hours every
pass is a reconcile, nothing probes, and a restored window-oversize condition
stands, and is logged as an error, for as long as the process lives.

### Findings

State: the notifier's current rows, whether a pass has reported, the saved
library, the mapping, and the running pass with what it has read so far. A
reconcile walks, loads the mapping, fetches, matches and reports; a tick starts
from the saved library and a window of the entries. Which copies are judged
(`JudgedArrs`: the specials switch, the placement gate, the choice between a
film's two copies), which rows are preserved and which entries a tick may
resolve follow the code; a row stands for the tuple `dedupeKey` encodes: the
entry, the arr, what the copy holds, what is recommended. What a walk returns
carries both what a copy holds and how much of it was read, so that properties
can compare what a pass did with what it would have done had every read and
lookup succeeded (`Truth`).

* `NoFalseResolve`: a row leaves only if it does not hold of what was there to
  be read, and in a tick only if the tick fetched its entry. The hard case is
  a film with a copy in each arr: whether one of them is judged depends on
  whether the other was read.
* `RowsHaveEvidence`: the converse. A row that does not hold survives only
  where the pass lacked the evidence, for one of four named reasons.
* `Converges` (liveness): once the world is at rest, the rows become exactly
  the differences it holds. Fairness: a pass under way ends; `Walk` is strongly
  fair because every `reconcileEvery`-th pass is a reconcile. Rest includes a
  library that can be read in full and a catalogue that lists something, since
  the code treats an empty one as a fault.

Two entries, a film routed to both arrs and a series found by its ids, or by
its title when the mapping lacks them, and two releases; twenty-four libraries
cover the readings of each copy, with the film's series placed on its specials
or on nothing, or not routed. Entries meet only in a tick's window, so a third
adds nothing the second does not. `ExcludeSpecials` is false in the run, which
leaves the choice between two copies to be made; with it the Sonarr copy goes
before the choice, as an unplaced one does here, and the theorems cover both.
Abstracted: the comparison to "holds another release than the recommended one";
the two reasons to withhold a comparison to one, known from series metadata; a
lookup's memo to "may fail". A mapping takes effect when loaded rather than
when saved. Not modelled: the ignore list, first-seen times, `Reemit`, and a
title-linked entry with a placement of its own. A tick's authority is over all
copies of an entry it evaluated, as in the code: with the film in one arr only
at that moment, the row of the other copy goes too.

### MappingLoader

State: the `mapping.Cache` the next `Load` is handed, the one `state.json`
holds, how the last load ended, and upstream's latest release. A load copies the
cache and reads its records again (`Canonicalize`), leaves a fresh one alone,
and otherwise ends in one of six ways: the tag is the cached one, the tag is the
one refused before, the download fails, is refused, or is accepted whole, or the
check for a release fails. The acceptance guards are those of `acceptRelease`:
coverage, extinction and collapse of each arr's records and of each kind of
episode fact, and the halving of the whole. `Served` is the index over the cache
and an overrides file, with the rows `applyRecord` refuses.

* `LoaderInv` (`MapSound` in a pass): a release set aside by its tag is one the
  loader still refuses, unreadable or against the very map in force, so that
  skipping its download never freezes the map on a release it could accept; and
  on a series no override touches the siblings' seasons are right.
* `LoaderKeepsMap`: no load takes a usable map to an unusable one, to less than
  half, or to one without an arr or without a kind of fact it had, through
  stale caches, damaged records, clocks that were wrong and withdrawn releases.
* `LoaderConverges` (liveness): once upstream answers and settles, the map
  becomes the latest release, or the cache names it as refused. Fairness: the
  pass keeps loading and time passes, from then on.

That an unreadable download is unreadable again is assumed: it is a property of
the release, and transient faults are outcomes of their own. The five releases
are a full document, one without the films, a fourth of it, one without a fact,
and an unreadable one; the coverage floor's hundredth is a half here, so that
four records meet it. `MappingSiblings.cfg` shows a disagreement with
`SiblingSeasons`' comment: the counts are taken before the overrides are laid
over, so an override that moves a season's only entry off it leaves the season
offered as a sibling's, and one onto a sibling's season hides it. Abstracted: an
episode fact to its kind, series and season; the decoding of both documents to
the records they yield or their refusal.

### LibraryWalk

State: where the walk is, each kept series' progress or result, why the
fan-out's context ended, the failure count, and the orders read. Series are
fed in list order to the fan-out's slots; each reads its files, then its
episodes; a failed read leaves a placeholder and counts against the budget; a
read that meets another Sonarr version, or the process being told to stop, ends
the walk. `WalkWhole`: a published snapshot leaves out no series the list kept,
is partial exactly when it holds placeholders, and calls its orders clean only
when no read failed, which is what later lets a held series go. Four series (one
filtered, two in a non-aired order), two slots and a budget of two reach the
budget with reads in flight. A configuration with Radarr alone, where there is
no fan-out, is left out.

### CatalogueFetch

State: the records SeaDex holds, those it has held since the walk began, the
cursor, what was read, the totals and the budgets spent. Each step is a page:
as it should be, or cut short, unsorted, from the top again, or with a total
that vouches for nothing; between two pages upstream may gain or lose a record.
`CatalogueWhole`: what an accepted walk returns holds every record that stood
throughout, those created in one instant included, unless a page was cut or
vouched for nothing, and even then a full walk is neither empty nor below half
of the largest total reported. Two records to a page and three pages put records
of one instant on both sides of a page break. Left to `Scout`: `CountWindow`,
whose result is its tick's probe.

### Lookups

State: AniList's answers, the memo with the life left of each entry, and the
running pass: the batch with its chunks and verdicts, the breaker (`lookupGate`),
the entries still to match, and its result. A batch asks for what the memo
lacks, chunk by chunk; a chunk that fails ends it, and what it had not asked for
is asked for in a second batch, unless nothing was answered at all; ids no batch
settled fall back to single lookups behind the breaker; a reconcile prunes.
`LookupsWhole`: an undegraded pass has an answer for every id it needed, a
degraded one names each id asked in vain; neither loses the titles of an entry
still curated, expired ones included, except to an answer; every link made is
the one the memo left behind would make again; and an AniList that stays down
costs a bounded run of requests. A request stands for its retries, and a pass
runs at one instant: entries expire between passes.

### TitleHarvest

State: the feeds' items, the titles found, the rotation's checkpoint and what is
left of it, the show being asked about, and the latches of each tracker. A
rebuild brings a journal; its time slice may end at any query. `HarvestWhole`:
no show is asked about twice while another, pending and askable all along,
waits; and no title comes from a result one of whose identities names another
pending item. A ghost watches the first of these for one pair of shows, any. A
show on a tracker this rebuild has latched is exempt: a tracker whose first shows
fail in every rebuild can keep its last ones waiting. The wording of a query and the choice
among several titles of one item are abstracted.

### Projection, Alignment, Comparison and Verdicts

The pure algorithms of a pass, as operators: how an animap entry is read
(`animap.go`), whether a copy's files match what an entry lists (`arrwalk` items,
`release` revisions, `align`), and the finding a match yields (`compare`,
`classify`, `filter`, `tagfilter`, `payload`). `Verdicts` takes a question and
answers it, and three invariants hold the answer against the raw input:

* `EntryFactsSound`: what is read of an animap entry claims no more than the map
  says of each episode: a season scope covers every landing exactly, a run of
  specials answers each episode, a season's episodes are all stated there and
  not by default, and at most one claim is made.
* `DecisionSound`: a standing rests on what the files give. A copy is aligned
  only if every unit of it holds a best group and not all of those are behind
  what SeaDex lists, superseded only if all are readably behind, mixed or
  diverged only if a unit holds neither a best group nor an unknown one.
* `FindingsSound`: a finding recommends releases that are best, can be obtained
  and are not held, and the bytes it says a download replaces are of files every
  episode of which the download holds.

The inputs (`MCVerdicts`) are some hundred thousand combinations of few
episodes, files and releases, chosen so that each branch of the algorithms is
taken. They assume that a file's season is that of its episodes, and that a
series lists one row per season and number, as Sonarr's API does. The parsing
of names into groups, revisions and episode tokens is not modelled.

### CycleLock

State: who holds `cycle.lock`, whether a rerun request is on file, per process
where it is in `run`, `RunLoop` or `RunOnce`, whether its context is cancelled,
what its run returned, `executeRuns`' outcome and first error, a poll's exit
code, the health marker with its age, and the watchdog's goroutine with its
latch. The daemon boots, ticks in skip mode and exits; a poll asks, runs or
leaves its demand to the holder, serves what others left, and returns; every run
ends in a verdict committed inside the lock (`RecordTick`, `RecordPoll`), which
may fail to be written. Any process may be signalled at any time; a poll, or the
container with all in it, may be killed; the lock and queue files may fail; a
cycle nobody cancels may hang. History variables say which polls were told that
their demand stands, whether the process that was to serve it was shut down,
killed or lost the file, and whose run began last.

* `VerdictsTrue`: no verdict replaces that of a cycle that began later, and no
  run withdraws the marker for a shutdown.
* `DemandStands`: a poll told its demand stands is right, for as long as nobody
  is told to stop: some process will look at the queue before it leaves.
* `ExitZeroIsEarned`: exit 0 rests on the poll's own published healthy verdict
  or on accepted demand, through queue failures, reruns and shutdowns.
* `WedgesReported`: a wedge is logged although the latch
  of an earlier one may have outlived it, and reported within lease and a period.
* `ShutdownEnds` (liveness): a process told to stop stops, though others go on
  queueing reruns for it. Fairness: each process runs on, and a cycle returns
  once its context is cancelled, since all it waits for is bound to that context
  or to a deadline. No tick, poll, signal or kill is promised.

`scheduler.Exclusive` and `health.Marker` are libraries; they are modelled from
how `internal/cycle` uses them and what its tests show. That the lock found
taken and the request put on file are one step is the library's promise, and so
is a holder's look at the queue after its run. A tick that is skipped or refused
changes nothing. Time passes in periods of the watchdog's ticker; a period is
half an hour or more, so a check is over before the next. `CycleLock.cfg` has
the daemon and a poll that may be started again and again, so that either can
hold the lock, find it taken or meet a request left on file; the theorems cover
any number of polls. A lease of two periods leaves room for a refresh inside a
lease; ages count to two past it. No symmetry is used.

The model has one step the code does not guard against: `checkMarkerAge` reads
the age, logs, and withdraws the marker without looking again and outside the
lock. A pass that commits its verdict in between loses it, and the container
reads unhealthy until another pass completes. `WedgesReported` is about the age
that was read, so it holds; no property says that a withdrawn marker is a stale
one, because that is not so.

### PassParts

A pass calls its parts one after the other and hands values between them; they
share no state. So `PassParts` composes them with one at work while the others
rest in an initial state of theirs: all interleavings across parts would only
multiply the states of one by those of another. What passes from one part to the
next is in `Scout` and `Findings`, where each call is an outcome. One run,
`PassParts.cfg`, checks all eight invariants, the loader's action property and
its liveness.

## 4. What is proved

For every value of the constants, with TLAPS. The inductive invariants `IInv`,
which carry the types, are proved; of them TLC checks in a run the one of
`FeedJournal`, whose bounds on the log are a property of their own.

* `StateStoreProofs`: `IInv` is inductive. Its core, `SaveIsSafe`, says that
  while a pass may save, the live path is empty or holds the state the pass has
  in memory; `LockHeld` keeps other processes from changing that. The three
  action properties follow from it: `LineageKept`, `NewerKept`, `EvidenceKept`.
* `SnapshotCacheProofs`: `IInv` is inductive, under `OperatorMidPass = FALSE`.
  Its core, `LoadIsCurrent`, says that a load which no install overtook since it
  began holds a generation not older than the served one: `installLoaded`'s
  sequence check is what makes that so. `UnchangedIsLoaded` and `Refinement`
  follow. `AnswersHonest` needs no such assumption and an invariant of its own,
  `AnswersInv`: whatever may be installed next holds a written generation
  (`InstallsWritten`), so an install is never undone within a process; a fault
  is held only while nothing is installed (`FaultMeansNothing`); and a request
  that saw a snapshot when it began gets no further than its first look
  (`EarlySawServed`).
* `FeedJournalProofs`: `IInv` is inductive: the log covers what the journal
  lists and everything that is no news any more, a pass's log covers its journal
  so far, and no log over its cap is written. `NeverRebroadcast` and
  `Refinement` follow. What a pass drops and keeps takes a second invariant
  beside it, `EvidenceInv`: the pass still acts on the listings it fetched, its
  journal ages with the file's and in a window pass carries all of it that no
  evidence removed (`AgesKept`, `WindowCarries`), nothing excluded is in a
  catalogue pass's journal (`CatalogueClean`), and each signal in a log is that
  of a key in the same log (`LogsNamed`). `NeverYounger`, `DropsFollowEvidence` and
  `UnservedIsNew` follow.
* `FindingsProofs`: `TypeCorrect`; then `NoFalseResolution` and
  `SurvivorsLackEvidence`, for any entries, releases, walks, catalogues and
  mappings. Both rest on comparing a pass with one that read everything. A copy
  judged then and holding a file is judged now (`JudgedThenJudged`), because an
  unread copy counts as holding one; and a copy judged now and read is judged
  then (`JudgedReadThenJudged`), because the other copy is discounted only when
  it was read. So every true row is found or preserved
  (`TrueIsFoundOrPreserved`), and every found row is true (`FoundIsTrue`).

* `PassPartsProofs` has a section for each part of a pass, and a last one for
  the pass. A pass moves a component as its own specification does and otherwise
  leaves it at rest (`PartStep`), so what holds of a part holds of the
  composition: `WalksSound`, `CatalogueKept`, `LookupsHold`, `HarvestsHold`,
  `EntriesReadInside`, `DecisionsInside`, `ComparesInside`, `MapsSound` and
  `PassKeepsMap`.
  * The map loader: `CachesInv` is inductive: both caches have their types,
    and a release either of them sets aside is still refused. It survives because
    every way a load ends hands back the map it had (`KeptMap`), under which a
    refusal stands (`StandsOnMap`: the guards look at nothing else of a cache, and
    reading records twice is reading them once), or a release the guards let
    through (`Accepted`), with nothing set aside. `LoaderSound` adds the index:
    an AniList id has one effective record, so counting the holders of a season
    and listing the others come to the same (`SiblingsAgree`). `KeepsItsMap` reads
    the guards backwards, for any releases: records and facts are finite, so what
    was not lost by count is not lost. Assumed: documents have their types, and
    `state.json` holds what an earlier process saved (`MapAssumption`).
  * The library walk: `WalkInv` is inductive. Its core is that a series without
    a result stops the fan-out (`LossStops`), that a stop has a true cause
    (`CauseTrue`, for which the failures must be counted exactly:
    `FailuresCounted`), and that a missed read leaves a trace in the results
    (`MissesKnown`); a walk that joins its fan-out with its context alive then
    has every series (`FanJoined`), and clean orders only if nothing was missed
    (`OrdersWhole`). `WalkWhole` does not say any of this of a walk under way, so
    it is not inductive by itself. `WalksWhole` follows.
  * The SeaDex client: `CatalogueInv` is inductive, for any finite set of records
    and any budgets. Its core is `NothingSkipped`: a standing record the walk
    asks for has been read or lies past the cursor. `PagesAre` says why an
    honest or reversed page, one from the top or one with totals that cannot be
    keeps that: if the page advances past the cursor, whatever it leaves out lies
    past its last record, and a page that is not full leaves out nothing. The
    rest ties the cursor to the last record read (`CursorFollows`), the weight
    to the records (`WeightKept`), and an accepted walk to its totals
    (`FullEnough`). `CatalogueIsWhole` follows. No assumption on what upstream
    adds or removes is needed.
  * The lookups: `LookupsInv` is inductive, for any ids, lifetimes, chunk size
    and cap. While a pass is under way every entry behind it has its answer or is
    named incomplete (`Matched`), every title it loaded is there but for an
    answer given in this pass (`TitleHeld`), and a second batch follows a failed
    one only if the first learnt something (`BreakerHolds`), which is what
    bounds the requests. `LookupsAreWhole` follows; that pruning takes nothing
    from under a link is `EndKeeps`.
  * The title harvest: `HarvestInv` is inductive, for any journals, replies and
    latches. A rebuild goes through its groups from where it began, while the
    checkpoint moves behind it; `OrderKept` says that both give the same order to
    what is left. A second show owed a query stays first in that order until it
    has one (`OtherFirst`), and one this rebuild is through with comes after all
    that is left (`OtherBehind`). `HarvestsFairly` follows.
* `VerdictsProofs` proves what the pure algorithms answer; `AskedInv` says that
  an answer given is the one the code computes.
  * An animap entry: `EntriesRead`, for entries of any length, from
    `EntryFactsAre`. The loop over the episodes keeps `RunsTo`: the runs so far
    are the maximal ones over the episodes so far (`GrownIs`); what else an entry
    states follows from its landings (`FactsAre`).
  * A decision: `Decides`, for any files, entry and listing, from `DecideIs`. The
    code judges a summary, the newest revision of each group; the property speaks
    of files. `Weighs` connects them: a summary has the groups of the files
    judged, and a group's revision is behind a listed one exactly when that of
    each of its files is (`NewestOfBehind`, `NewestWeighs`). It is shown of each
    summary the code builds, of a season, a run of episodes and a whole series
    (`SeasonWeighs`, `EpisodesWeigh`, `SeasonsWeigh`), through the rows of
    `addEpisodes` (`ItemIs`, `RowStates`); `RuledIs` then takes each
    rung of the ladder in turn, and `UnitSound` and `SeriesSound` say what the
    outcome of a unit, and of all units of a series, shows. `RefusalIs` covers an entry
    placed in a series that holds no file of it.
  * A finding: `Compares`, for any torrents and options, from `FindingIs`. That the
    copy holds no group it recommends, or only revisions behind those, is `DecideIs`
    of the listing `compareOne` builds; a superseded pool is not empty because
    every group behind is recommended in some release (`SupersededPoolIs`), and a
    pool has a headline because its best member under `betterCandidate` exists
    (`RepresentativeIs`). For the bytes replaced, `CoveredIs` follows a covered file
    back to its rows: each of its episodes, numbered by season or absolutely, is
    in the span of some file of the download. The sums are then compared without
    induction over sets: a sum counts as many grains as each element weighs
    (`AddsIs`, of whatever function adds the weights up one by one), so a sum over
    fewer files is an injection between grains (`SizesCover`).
* `ScoutProofs`: all seven safety properties of the scheduler, for any arrs,
  sizes, cadences and thresholds, in three layers. `CoreInv` holds whatever
  fails: types (with a streak that never reaches acceptance, which needs the
  guard's arithmetic), each stage with its kind of pass, what was observed was
  logged, lines counted; `PassHolds` and `LinesHold` follow. `GuardInv` holds
  whatever fails too: a pass that may write still has the disk's library and
  streaks until its merge, what it then carries was let through by the guard
  (`GuardHeld`), and ids have left its order set only on a clean walk beside no
  suspect arr (`OrdersHeld`). `LibraryStep` says that only the save of such a
  pass moves the saved library, so `LibraryGuarded` and `OrdersGuarded` follow.
  `StoreInv` adds the standing set: a condition that stands has its streak at
  the threshold, both on disk and in what the pass under way would save
  (`StandingBacked`), a tick's condition its run at the latch (`WindowBacked`),
  and the saved streak keeps up with the fetches that failed (`OutageCounted`).
  So a failure of the same kind cannot clear a condition, because a streak at
  its threshold stays there: `StandingKept`, `OutageEscalates` and `EndsSeen`.
  These three assume `StoreReliable`, that no load and no save of `state.json`
  fails, as `Scout.cfg` has it: a state that cannot be read takes its streaks
  with it, and then the first failing fetch does end the condition. Shutdowns,
  crashes and every other fault are allowed.

* `CycleLockProofs`: `IInv` is inductive, for any number of polls and any lease.
  `LockCoversRun` says that a process between the start of its run and the
  commit of its verdict holds the lock and began last, and `ResultsKnown` that only
  a cancelled context yields a cycle cut short (`VerdictsAreTrue`); `NilIsEarned`, that a first run's nil came with
  its verdict written (`ExitIsEarned`); `LatchIsBrief` and `AgeBounded`, that a
  latch left set meets a fresh marker once before that can be stale
  (`WedgesAreReported`). `AcceptedDemandStands` needs the lock besides: a process
  leaves a request on file only to one that holds it.

What a loop computes is stated of every length without induction over an
operator, which the prover does not offer: the loop is a recursive function, and
`Climb` (from `LeastNumber`, a set of numbers has a least member) carries a fact
from each place to the next. So are proved the runs of an entry (`RunsAre`), the
weight of a page (`WeightAdds`) and the order of a page (`SortedIs`).

Beyond those above, the assumptions on constants are these. SeaDex holds finitely
many records (`FetchAssumption`); TVDB numbers seasons and episodes with naturals,
finitely many of each (`ProjectionAssumption`). `VerdictsAssumption` says what the
three questions are asked of: an animap entry's episodes are a finite sequence of
the readings `mapread` distinguishes; Sonarr lists finitely many files, each id
once, a season's number at one episode (`ListedOnce`), and for a comparison
natural sizes and each file in the season of its episodes (`FilesStated`); SeaDex
lists finitely many torrents, each with finitely many files (`TorrentsStated`); an
entry has specials or episodes only where `matchRun.mapped` gives it some
(`Mapped`); and revisions are those the parsers yield (`Revisions`). Ids,
lifetimes, budgets and latches are numbers of the kind the code declares
(`LookupsAssumption`, `HarvestAssumption`), and a memo loaded from `state.json`
calls an id not found only when it was (`LookupsAssumption`).

Every safety property the runs check is proved, the invariants and the action
properties. Only model-checked are the liveness properties (`SaveBlockClears`,
`EventuallyFresh`, `Settles`, `Converges`, `LoaderConverges`, `ShutdownEnds`): the
prover does not treat fairness.

## 5. Not modelled

The ownership index and the feed server's requests: planned. `report` is a
read-only pass whose rendering has no state; the lock that keeps two of them
apart (`TryReportLock`) is one call. Of the marker, a file that cannot be read:
the watchdog then does nothing. Inside the libraries, what a lock or queue file
does between two system calls. Configuration, names, links and wiring are
parsing, rendering and construction; their results are constants and model
values here.
