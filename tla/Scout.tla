-------------------------------- MODULE Scout --------------------------------
(* The daemon's scheduler of passes (internal/scout): a loop of reconciles     *)
(* (whole catalogue, library walk, compare) and ticks (a recent-changes window *)
(* over the cached library), the persisted degradation streaks, the conditions *)
(* that stay standing across passes and restarts, the per-arr shrink guard and *)
(* what each exit saves, re-states and logs. A pass is cut into the steps      *)
(* between which a shutdown may cancel it and a crash may end the process.     *)
EXTENDS Naturals, FiniteSets, FiniteSetsExt

CONSTANTS
  Arrs,          \* the enabled arrs
  Sizes,         \* the item counts a walk of an arr may return
  OrderIds,      \* TVDB ids whose episode order the walk reads
  HasFeed,       \* a Torznab feed is configured
  Cadences,      \* reconcileEvery of the configured interval; 0: poll_interval off
  RetryLatch,    \* reconcileRetryLatch
  LatchTicks,    \* latchTicks of the configured interval
  TickEscalation, ReconcileEscalation, ShrunkAccept, \* internal/degradation
  Troubles       \* the sets of faults that may go wrong together around the process

ASSUME CadencesAssumption == Cadences # {} /\ Cadences \subseteq Nat
ASSUME SizesAssumption == Sizes \subseteq Nat /\ \E most \in Sizes : \A n \in Sizes : n <= most
ASSUME ThresholdsAssumption ==
  /\ {RetryLatch, LatchTicks, TickEscalation, ReconcileEscalation} \subseteq Nat \ {0}
  /\ ShrunkAccept \in Nat /\ ShrunkAccept > ReconcileEscalation

Unreachable == <<"seadex-unreachable", "">>
Oversize    == <<"seadex-window-oversize", "">>
Catalogue   == <<"seadex-catalogue-fetch-failing", "">>
MappingRej  == <<"mapping-refresh-rejected", "">>
AniList     == <<"anilist-lookups-failing", "">>
Partial     == <<"library-walk-partial", "">>
ShrunkOf(a) == <<"library-walk-shrunk", a>>
TickKeys == {Unreachable, Oversize}
Keys == TickKeys \cup {Catalogue, MappingRej, AniList, Partial} \cup {ShrunkOf(a) : a \in Arrs}

VARIABLES
  disk,              \* state.json: streaks, library, mapping, standing set
  every, iterations, \* the cadence and the loop counter, modulo it
  ready, restored, retries, unreachableRun, oversizeRun, persistedStanding,
  cond,              \* the standing set: what stands, what this pass observed, what it logged
  pass,              \* the running pass
  live,              \* the run context is not cancelled
  weather,           \* whether the world still misbehaves
  outage             \* history: consecutive failed catalogue fetches of finished passes

process == <<every, ready, restored, retries, unreachableRun, oversizeRun>>
vars == <<disk, process, iterations, persistedStanding, cond, pass, live, weather, outage>>

EmptyState ==
  [lib |-> [a \in Arrs |-> 0], shrunk |-> [a \in Arrs |-> 0], orders |-> {},
   seadexFailures |-> 0, aniListDegraded |-> 0, partialWalks |-> 0,
   rejected |-> 0, usable |-> FALSE, standing |-> {}]
NoPass ==
  [pc |-> "idle", kind |-> "none", st |-> EmptyState, blocked |-> FALSE,
   walkErr |-> FALSE, snap |-> [a \in Arrs |-> 0], partial |-> FALSE, suspects |-> {},
   aired |-> {},
   mapErr |-> "none", rejected |-> 0, usable |-> FALSE, fresh |-> FALSE,
   sea |-> "none", lines |-> 0, emitted |-> 0, ended |-> {}]
NoConds == [standing |-> {}, observed |-> {}, stated |-> {}]
AllSizes(n) == [a \in Arrs |-> n]

Looping == every > 0
ReconcileEvery == Max({1, every})
FaultNow(f) == ~weather.calm /\ f \in weather.faults
Count(n, cap) == Min({n + 1, cap}) \* a streak is only ever compared with its threshold

-----------------------------------------------------------------------------
(* The standing set and the two rules that move a condition. *)

Observe(c, k) == [standing |-> c.standing \cup {k}, observed |-> c.observed \cup {k},
                  stated |-> c.stated \cup {k}]
Clear(c, k) == [c EXCEPT !.standing = @ \ {k}, !.observed = @ \ {k}]
Escalate(c, k, streak, threshold) == IF streak >= threshold THEN Observe(c, k) ELSE Clear(c, k)

Observes(k) == k \in TickKeys => Looping

(* What a load of state.json gives: its contents; on a read fault an empty     *)
(* state whose save the store refuses; on corrupt bytes an empty state over a  *)
(* live path the quarantine has emptied.                                       *)
LoadState(st, blocked) ==
  \/ st = disk /\ ~blocked /\ UNCHANGED disk
  \/ (FaultNow("load") \/ ~live) /\ st = EmptyState /\ blocked /\ UNCHANGED disk
  \/ FaultNow("load") /\ st = EmptyState /\ ~blocked /\ disk' = EmptyState
SaveDone(st, standing) ==
  disk' = [st EXCEPT !.standing = standing] /\ persistedStanding' = standing
Save(st, standing, blocked) ==
  \/ ~blocked /\ SaveDone(st, standing)
  \/ (blocked \/ FaultNow("save")) /\ UNCHANGED <<disk, persistedStanding>>

WithMapping(st) == [st EXCEPT !.rejected = pass.rejected, !.usable = pass.usable]
WithWalk(st) == [WithMapping(st) EXCEPT !.lib = pass.snap]

\* Mutant: every exit re-states the findings, the ready gate ignored.
CloseAlways(p, says) == [p EXCEPT !.pc = "end", !.lines = @ + 1, !.emitted = @ + 1]
Close(p, says) == [p EXCEPT !.pc = "end", !.lines = @ + 1, !.emitted = @ + (IF says THEN 1 ELSE 0)]
Interrupt(p) == [p EXCEPT !.pc = "end"]
Ended(p, ks) == [p EXCEPT !.ended = @ \cup ks]

-----------------------------------------------------------------------------
(* Scout.Cycle: which pass this iteration runs. *)

Due == iterations = 0 \/ (~ready /\ retries < RetryLatch)
Begin ==
  /\ pass.pc = "idle" /\ live
  /\ iterations' = (iterations + 1) % ReconcileEvery
  /\ cond' = [cond EXCEPT !.observed = {}, !.stated = {}]
  /\ pass' = IF Due THEN [NoPass EXCEPT !.pc = "load", !.kind = "reconcile"]
             ELSE [NoPass EXCEPT !.pc = IF ready THEN "probe" ELSE "settle", !.kind = "tick"]
  /\ UNCHANGED <<disk, process, persistedStanding, live, weather, outage>>

\* Mutant: a restored condition's streak starts again from nothing.
OversizeFromZero(kept) == oversizeRun
ResumedOversize(kept) == IF Oversize \in kept THEN LatchTicks ELSE oversizeRun
RestoreStanding(persisted) ==
  LET kept == {k \in persisted : Observes(k)} IN
  /\ persistedStanding' = persisted
  /\ cond' = [standing |-> cond.standing \cup kept, observed |-> cond.observed \cup kept,
              stated |-> cond.stated \cup kept]
  /\ oversizeRun' = ResumedOversize(kept)

ReconcileLoad ==
  /\ pass.pc = "load"
  /\ \E st \in {disk, EmptyState}, blocked \in BOOLEAN :
       /\ LoadState(st, blocked)
       /\ pass' = [pass EXCEPT !.pc = "walk", !.st = st, !.blocked = blocked]
       /\ restored' = TRUE
       /\ IF restored THEN UNCHANGED <<persistedStanding, cond, oversizeRun>>
          ELSE RestoreStanding(st.standing)
  /\ UNCHANGED <<every, ready, retries, unreachableRun, iterations, live, weather, outage>>

(* The shrink guard's verdict on one arr of a walk. *)
SuspectWalk(count, prior) == prior # 0 /\ count * 2 < prior
ShrinkStreak(st, snap, a) == IF SuspectWalk(snap[a], st.lib[a]) THEN st.shrunk[a] + 1 ELSE 0
Suspects(st, snap) == {a \in Arrs : ShrinkStreak(st, snap, a) \in 1..(ShrunkAccept - 1)}

Joined(prior, nonAired) == prior \cup nonAired
Released(prior, nonAired, aired) == (prior \ aired) \cup nonAired
\* Mutant: an arr that read everything but lost its items releases ids.
OrderSetIfClean(st, snap, nonAired, aired, clean) ==
  IF ~clean THEN Joined(st.orders, nonAired) ELSE Released(st.orders, nonAired, aired)
NextOrderSet(st, snap, nonAired, aired, clean) ==
  IF ~clean \/ Suspects(st, snap) # {} THEN Joined(st.orders, nonAired)
  ELSE Released(st.orders, nonAired, aired)

WalkSizes == IF weather.calm THEN {weather.sizes} ELSE
             IF "shrunk" \in weather.faults THEN [Arrs -> Sizes] ELSE {AllSizes(Max(Sizes))}
WalkInterrupted ==
  /\ pass.pc = "walk" /\ ~live
  /\ \E nonAired \in SUBSET OrderIds :
       LET joined == Joined(pass.st.orders, nonAired) IN
       IF joined = pass.st.orders THEN UNCHANGED <<disk, persistedStanding>>
       ELSE Save([pass.st EXCEPT !.orders = joined], cond.standing, pass.blocked)
  /\ pass' = Interrupt(pass)
  /\ UNCHANGED <<process, iterations, cond, live, weather, outage>>
Walk ==
  /\ pass.pc = "walk" /\ live
  /\ \E snap \in WalkSizes, partial \in BOOLEAN, clean \in BOOLEAN,
        nonAired \in SUBSET OrderIds, aired \in SUBSET OrderIds :
       /\ (partial \/ ~clean) => FaultNow("partial")
       /\ pass' = [pass EXCEPT !.pc = "mapping", !.snap = snap, !.partial = partial,
                     !.aired = IF clean THEN aired ELSE {},
                     !.st.orders = NextOrderSet(pass.st, snap, nonAired, aired, clean)]
  /\ UNCHANGED <<disk, persistedStanding, process, iterations, cond, live, weather, outage>>
WalkFailed ==
  /\ pass.pc = "walk" /\ live /\ FaultNow("walk")
  /\ \E nonAired \in SUBSET OrderIds :
       LET st == [pass.st EXCEPT !.orders = Joined(pass.st.orders, nonAired)]
           p  == [pass EXCEPT !.walkErr = TRUE, !.st = st] IN
       IF HasFeed THEN pass' = [p EXCEPT !.pc = "mapping"] /\ UNCHANGED <<disk, persistedStanding>>
       ELSE pass' = Close(p, ready) /\ Save(st, cond.standing, pass.blocked)
  /\ UNCHANGED <<process, iterations, cond, live, weather, outage>>

(* mapping.Loader.Load and the scout's one log site over it, in both passes. *)
MappingOk ==
  /\ pass.pc = "mapping"
  /\ \E fresh \in BOOLEAN :
       pass' = Ended([pass EXCEPT !.pc = "fetch", !.rejected = 0, !.usable = TRUE, !.fresh = fresh],
                     {MappingRej})
  /\ cond' = Clear(cond, MappingRej)
  /\ UNCHANGED <<disk, persistedStanding, process, iterations, live, weather, outage>>
MappingFails ==
  /\ pass.pc = "mapping" /\ (FaultNow("mapping") \/ ~live)
  /\ \E rejected \in {pass.st.rejected, Count(pass.st.rejected, TickEscalation)} :
       /\ pass' = [pass EXCEPT !.pc = "fetch", !.rejected = rejected, !.usable = pass.st.usable,
                     !.mapErr = IF pass.st.usable THEN "stale" ELSE "unusable"]
       /\ cond' = IF live THEN Escalate(cond, MappingRej, rejected, TickEscalation) ELSE cond
  /\ UNCHANGED <<disk, persistedStanding, process, iterations, live, weather, outage>>
MapUsable == pass.mapErr # "unusable"

(* rebuildFeed and advanceFeed follow the fetches: they write the feed file     *)
(* alone, which FeedJournal models.                                            *)
Fetch ==
  /\ pass.pc = "fetch" /\ pass.kind = "reconcile"
  /\ \E sea \in {"ok", "empty", "failed"} :
       /\ sea = "ok" \/ FaultNow("sea") \/ (sea = "failed" /\ ~live)
       /\ pass' = [pass EXCEPT !.pc = "record", !.sea = sea]
  /\ UNCHANGED <<disk, persistedStanding, process, iterations, cond, live, weather, outage>>

RecordFetchOk(p) ==
  /\ p.sea # "failed"
  /\ pass' = Ended([p EXCEPT !.pc = "gate", !.st.seadexFailures = 0], {Catalogue, Unreachable})
  /\ cond' = Clear(Clear(cond, Catalogue), Unreachable)
  /\ unreachableRun' = 0 /\ outage' = 0
\* Mutant: a pass the library gate closes does not count the fetch.
FailuresUnlessGated(p) ==
  IF p.walkErr THEN p.st.seadexFailures ELSE Count(p.st.seadexFailures, ReconcileEscalation)
FailuresWithThis(p) == Count(p.st.seadexFailures, ReconcileEscalation)
RecordFetchFailed(p) ==
  /\ p.sea = "failed"
  /\ LET n == FailuresWithThis(p) IN
     IF live THEN /\ pass' = [p EXCEPT !.pc = "gate", !.st.seadexFailures = n]
                  /\ cond' = Escalate(cond, Catalogue, n, ReconcileEscalation)
     ELSE pass' = [p EXCEPT !.pc = "gate", !.sea = "cancelled"] /\ UNCHANGED cond
  /\ UNCHANGED <<unreachableRun, outage>>
RecordSeaDexFetch ==
  /\ pass.pc = "record"
  /\ RecordFetchOk(pass) \/ RecordFetchFailed(pass)
  /\ UNCHANGED <<disk, persistedStanding, every, ready, restored, retries, oversizeRun, iterations,
                 live, weather>>

LibraryGate ==
  /\ pass.pc = "gate" /\ pass.walkErr
  /\ Save(WithMapping(pass.st), cond.standing, pass.blocked)
  /\ pass' = IF live THEN Close(pass, ready) ELSE Interrupt(pass)
  /\ UNCHANGED <<process, iterations, cond, live, weather, outage>>

\* Mutant: the suspect arr's fresh items are saved.
CarryNothing(fresh, prior, suspects) == fresh
CarryPriorItems(fresh, prior, suspects) == [a \in Arrs |-> IF a \in suspects THEN prior[a] ELSE fresh[a]]
MergeShrunkSides ==
  /\ pass.pc = "gate" /\ ~pass.walkErr
  /\ LET suspects  == Suspects(pass.st, pass.snap)
         streak(a) == ShrinkStreak(pass.st, pass.snap, a)
         stands    == {ShrunkOf(a) : a \in {b \in suspects : streak(b) >= ReconcileEscalation}}
         ends      == {ShrunkOf(a) : a \in Arrs} \ stands IN
     /\ pass' = Ended([pass EXCEPT !.pc = "upstream", !.suspects = suspects,
                         !.snap = CarryPriorItems(@, pass.st.lib, suspects),
                         !.st.shrunk = [a \in Arrs |-> IF a \in suspects THEN streak(a) ELSE 0]],
                      {ShrunkOf(a) : a \in Arrs \ suspects})
     /\ cond' = [standing |-> (cond.standing \ ends) \cup stands,
                 observed |-> (cond.observed \ ends) \cup stands,
                 stated   |-> cond.stated \cup stands]
  /\ UNCHANGED <<disk, persistedStanding, process, iterations, live, weather, outage>>

Shutdown == ~live /\ (pass.mapErr # "none" \/ pass.sea \in {"failed", "cancelled"})
UpstreamGate ==
  /\ pass.pc = "upstream"
  /\ IF Shutdown \/ ~MapUsable \/ pass.sea # "ok"
     THEN /\ Save(WithWalk(pass.st), cond.standing, pass.blocked)
          /\ pass' = IF Shutdown \/ (~live /\ MapUsable /\ pass.sea = "empty")
                     THEN Interrupt(pass) ELSE Close(pass, ready)
     ELSE pass' = [pass EXCEPT !.pc = "match"] /\ UNCHANGED <<disk, persistedStanding>>
  /\ UNCHANGED <<process, iterations, cond, live, weather, outage>>

FinishInterruptedMatch ==
  /\ pass.pc = "match" /\ ~live /\ pass.kind = "reconcile"
  /\ Save(WithWalk(pass.st), cond.standing, pass.blocked)
  /\ pass' = Interrupt(pass)
  /\ UNCHANGED <<process, iterations, cond, live, weather, outage>>

Advance(n, degraded) == IF degraded THEN Count(n, ReconcileEscalation) ELSE 0
FinishCompletedCycle ==
  /\ pass.pc = "match" /\ live /\ pass.kind = "reconcile"
  /\ \E degraded \in BOOLEAN :
       LET ani  == Advance(pass.st.aniListDegraded, degraded)
           part == Advance(pass.st.partialWalks, pass.partial)
           c    == Escalate(Escalate(cond, AniList, ani, ReconcileEscalation),
                            Partial, part, ReconcileEscalation)
           st   == [WithWalk(pass.st) EXCEPT !.aniListDegraded = ani, !.partialWalks = part] IN
       /\ degraded => FaultNow("anilist")
       /\ cond' = c
       /\ pass' = Ended(Close(pass, TRUE), (IF degraded THEN {} ELSE {AniList}) \cup
                                           (IF pass.partial THEN {} ELSE {Partial}))
       /\ Save(st, c.standing, pass.blocked)
  /\ ready' = TRUE
  /\ UNCHANGED <<every, restored, retries, unreachableRun, oversizeRun, iterations, live, weather, outage>>

-----------------------------------------------------------------------------
(* Scout.tick. *)

ResetUnreachable(c) == Clear(c, Unreachable)
\* Mutant: a quiet probe leaves the oversize condition standing.
ResetReachableOnly(c) == ResetUnreachable(c)
ResetBoth(c) == Clear(ResetUnreachable(c), Oversize)
SettleRestored ==
  /\ pass.pc = "settle"
  /\ \E probe \in {"failed", "small", "big"} :
       /\ probe = "failed" => ~live \/ FaultNow("sea") \/ cond.standing \cap TickKeys = {}
       /\ probe = "big" => FaultNow("oversize")
       /\ IF probe = "failed" THEN /\ UNCHANGED <<cond, unreachableRun, oversizeRun>>
                                   /\ pass' = Close(pass, FALSE)
          ELSE /\ unreachableRun' = 0
               /\ oversizeRun' = IF probe = "small" THEN 0 ELSE oversizeRun
               /\ cond' = IF probe = "small" THEN ResetBoth(cond)
                          ELSE ResetUnreachable(cond)
               /\ pass' = Ended(Close(pass, FALSE),
                                IF probe = "small" THEN TickKeys ELSE {Unreachable})
  /\ UNCHANGED <<disk, persistedStanding, every, ready, restored, retries, iterations, live, weather, outage>>

TickUnreadable ==
  LET n == Count(unreachableRun, LatchTicks) IN
  /\ unreachableRun' = n
  /\ cond' = Escalate(cond, Unreachable, n, LatchTicks)
  /\ pass' = Close(pass, TRUE)

ProbeFails ==
  /\ pass.pc = "probe" /\ (FaultNow("sea") \/ ~live)
  /\ IF live THEN TickUnreadable ELSE pass' = Interrupt(pass) /\ UNCHANGED <<cond, unreachableRun>>
  /\ UNCHANGED <<disk, persistedStanding, every, ready, restored, retries, oversizeRun, iterations,
                 live, weather, outage>>
ProbeEmpty ==
  /\ pass.pc = "probe"
  /\ unreachableRun' = 0 /\ oversizeRun' = 0
  /\ cond' = ResetBoth(cond)
  /\ pass' = Ended(Close(pass, TRUE), TickKeys)
  /\ UNCHANGED <<disk, persistedStanding, every, ready, restored, retries, iterations, live, weather, outage>>
ProbeOversize ==
  /\ pass.pc = "probe" /\ FaultNow("oversize")
  /\ unreachableRun' = 0 /\ oversizeRun' = Count(oversizeRun, LatchTicks)
  /\ cond' = Escalate(ResetUnreachable(cond), Oversize, oversizeRun', LatchTicks)
  /\ pass' = Ended(Close(pass, TRUE), {Unreachable})
  /\ UNCHANGED <<disk, persistedStanding, every, ready, restored, retries, iterations, live, weather, outage>>
ProbeChanged ==
  /\ pass.pc = "probe"
  /\ oversizeRun' = 0
  /\ cond' = Clear(cond, Oversize)
  /\ pass' = Ended([pass EXCEPT !.pc = "tickload"], {Oversize})
  /\ UNCHANGED <<disk, persistedStanding, every, ready, restored, retries, unreachableRun, iterations,
                 live, weather, outage>>

TickLoad ==
  /\ pass.pc = "tickload"
  /\ \E st \in {disk, EmptyState}, blocked \in BOOLEAN :
       LoadState(st, blocked) /\ pass' = [pass EXCEPT !.pc = "mapping", !.st = st, !.blocked = blocked]
  /\ UNCHANGED <<persistedStanding, process, iterations, cond, live, weather, outage>>

(* A tick writes only when it renewed a lookup or the mapping moved. *)
MappingWorthPersisting == pass.fresh \/ pass.rejected # pass.st.rejected
SaveTick(memo, standing) ==
  IF memo \/ MappingWorthPersisting THEN Save(WithMapping(pass.st), standing, pass.blocked)
  ELSE UNCHANGED <<disk, persistedStanding>>

WindowFetchFails ==
  /\ pass.pc = "fetch" /\ pass.kind = "tick" /\ (FaultNow("sea") \/ ~live)
  /\ IF live THEN TickUnreadable ELSE pass' = Interrupt(pass) /\ UNCHANGED <<cond, unreachableRun>>
  /\ SaveTick(FALSE, cond'.standing)
  /\ UNCHANGED <<every, ready, restored, retries, oversizeRun, iterations, live, weather, outage>>
WindowFetch ==
  /\ pass.pc = "fetch" /\ pass.kind = "tick"
  /\ unreachableRun' = 0
  /\ cond' = ResetUnreachable(cond)
  /\ LET p == Ended(pass, {Unreachable}) IN
     IF MapUsable THEN /\ pass' = [p EXCEPT !.pc = "match"]
                       /\ UNCHANGED <<disk, persistedStanding>>
     ELSE pass' = Close(p, TRUE) /\ SaveTick(FALSE, cond'.standing)
  /\ UNCHANGED <<every, ready, restored, retries, oversizeRun, iterations, live, weather, outage>>
TickMatch ==
  /\ pass.pc = "match" /\ pass.kind = "tick"
  /\ \E memo \in BOOLEAN : SaveTick(memo, cond.standing)
  /\ pass' = IF live THEN Close(pass, TRUE) ELSE Interrupt(pass)
  /\ UNCHANGED <<process, iterations, cond, live, weather, outage>>

-----------------------------------------------------------------------------
(* The tail of Scout.Cycle, and the process around it. *)

\* Mutant: what the pass observed is logged again and the rest is not.
RestateObserved(c) == [c EXCEPT !.stated = @ \cup (c.standing \cap c.observed)]
Restate(c) == [c EXCEPT !.stated = @ \cup (c.standing \ c.observed)]
\* Mutant: only a condition that came is worth a write, not one that went.
PersistAdditions ==
  IF cond.standing \subseteq persistedStanding THEN UNCHANGED <<disk, persistedStanding>>
  ELSE SaveDone(disk, cond.standing)
PersistStanding ==
  IF cond.standing = persistedStanding THEN UNCHANGED <<disk, persistedStanding>>
  ELSE \/ SaveDone(disk, cond.standing)
       \/ FaultNow("load") /\ SaveDone(EmptyState, cond.standing)
       \/ (FaultNow("load") \/ FaultNow("save")) /\ UNCHANGED <<disk, persistedStanding>>
End ==
  /\ pass.pc = "end"
  /\ retries' = IF pass.kind = "reconcile" /\ ~ready THEN Count(retries, RetryLatch) ELSE retries
  /\ IF live THEN cond' = Restate(cond) /\ PersistStanding
     ELSE UNCHANGED <<cond, disk, persistedStanding>>
  /\ pass' = [pass EXCEPT !.pc = "done"]
  /\ outage' = IF pass.sea = "failed" THEN Count(outage, ReconcileEscalation) ELSE outage
  /\ UNCHANGED <<every, ready, restored, unreachableRun, oversizeRun, iterations, live, weather>>
Rest ==
  /\ pass.pc = "done"
  /\ pass' = NoPass
  /\ cond' = [cond EXCEPT !.observed = {}, !.stated = {}]
  /\ UNCHANGED <<disk, persistedStanding, process, iterations, live, weather, outage>>

Cancel ==
  /\ live /\ ~weather.calm /\ pass.pc # "idle"
  /\ live' = FALSE
  /\ UNCHANGED <<disk, persistedStanding, process, iterations, cond, pass, weather, outage>>
(* The process ends, at a shutdown or a crash, and another starts, possibly    *)
(* with another poll_interval.                                                 *)
NewProcess ==
  /\ every \in Cadences /\ iterations = 0 /\ retries = 0 /\ unreachableRun = 0 /\ oversizeRun = 0
  /\ ready = FALSE /\ restored = FALSE /\ persistedStanding = {} /\ cond = NoConds
  /\ pass = NoPass /\ live = TRUE
Restart ==
  /\ ~weather.calm
  /\ every' \in Cadences /\ iterations' = 0 /\ retries' = 0 /\ unreachableRun' = 0 /\ oversizeRun' = 0
  /\ ready' = FALSE /\ restored' = FALSE /\ persistedStanding' = {} /\ cond' = NoConds
  /\ pass' = NoPass /\ live' = TRUE
  /\ UNCHANGED <<disk, weather, outage>>
(* From here on nothing fails and the library keeps its size. *)
CalmDown ==
  /\ ~weather.calm /\ live /\ pass.pc = "idle"
  /\ \E sizes \in [Arrs -> Sizes] : weather' = [weather EXCEPT !.calm = TRUE, !.sizes = sizes]
  /\ UNCHANGED <<disk, persistedStanding, process, iterations, cond, pass, live, outage>>

Init ==
  /\ NewProcess
  /\ disk = EmptyState
  /\ \E faults \in Troubles :
       weather = [calm |-> FALSE, sizes |-> AllSizes(Max(Sizes)), faults |-> faults]
  /\ outage = 0

Reconcile ==
  \/ ReconcileLoad \/ Walk \/ WalkFailed \/ WalkInterrupted \/ Fetch \/ RecordSeaDexFetch
  \/ LibraryGate \/ MergeShrunkSides \/ UpstreamGate \/ FinishInterruptedMatch \/ FinishCompletedCycle
Tick ==
  \/ SettleRestored \/ ProbeFails \/ ProbeEmpty \/ ProbeOversize \/ ProbeChanged \/ TickLoad
  \/ WindowFetchFails \/ WindowFetch \/ TickMatch
Step == Begin \/ Reconcile \/ Tick \/ MappingOk \/ MappingFails \/ End \/ Rest
Next == Step \/ Cancel \/ Restart \/ CalmDown
Spec == Init /\ [][Next]_vars
(* The loop's timer runs a pass each interval and every call in it is bounded  *)
(* by a timeout, so a pass that may take a step takes one.                     *)
FairSpec == Spec /\ WF_vars(Step)

-----------------------------------------------------------------------------
(* Properties. *)

States ==
  [lib : [Arrs -> Sizes \cup {0}], shrunk : [Arrs -> 0..(ShrunkAccept - 1)], orders : SUBSET OrderIds,
   seadexFailures : 0..ReconcileEscalation, aniListDegraded : 0..ReconcileEscalation,
   partialWalks : 0..ReconcileEscalation, rejected : 0..TickEscalation, usable : BOOLEAN,
   standing : SUBSET Keys]
Passes ==
  [pc : {"idle", "load", "walk", "mapping", "fetch", "record", "gate", "upstream", "match",
         "settle", "probe", "tickload", "end", "done"},
   kind : {"none", "reconcile", "tick"}, st : States, blocked : BOOLEAN, walkErr : BOOLEAN,
   snap : [Arrs -> Sizes \cup {0}], partial : BOOLEAN, suspects : SUBSET Arrs,
   aired : SUBSET OrderIds, mapErr : {"none", "stale", "unusable"},
   rejected : 0..TickEscalation, usable : BOOLEAN, fresh : BOOLEAN,
   sea : {"none", "ok", "empty", "failed", "cancelled"}, lines : 0..1, emitted : 0..1,
   ended : SUBSET Keys]
(* Every variable has its type; no streak the guard still withholds a side on  *)
(* reaches the acceptance threshold, and no pass closes twice.                 *)
TypeOK ==
  /\ disk \in States /\ pass \in Passes
  /\ every \in Cadences /\ iterations \in 0..(ReconcileEvery - 1)
  /\ {ready, restored, live} \subseteq BOOLEAN
  /\ retries \in 0..RetryLatch /\ {unreachableRun, oversizeRun} \subseteq 0..LatchTicks
  /\ cond \in [standing : SUBSET Keys, observed : SUBSET Keys, stated : SUBSET Keys]
  /\ persistedStanding \in SUBSET Keys
  /\ weather \in [calm : BOOLEAN, sizes : [Arrs -> Sizes], faults : Troubles] /\ outage \in 0..ReconcileEscalation

(* A pass no shutdown cut short has logged every condition that stands,        *)
(* whichever cadence observes it, so the alert's one-pass lookback never sees  *)
(* a standing condition go silent.                                             *)
ConditionsStated == pass.pc = "done" /\ live => cond.standing \subseteq cond.stated

(* What holds whatever store, library or upstream fails: the variables keep    *)
(* their types and no standing condition misses a pass's log.                  *)
PassInv == TypeOK /\ ConditionsStated

(* Every finished pass logs one completion line; once the process has a        *)
(* finding set, the line and the re-statement of the whole set come together   *)
(* or not at all, and before that nothing is published.                        *)
ClosesOnce == pass.pc = "done" =>
  /\ live => pass.lines = 1
  /\ ready => pass.emitted = pass.lines
  /\ ~ready => pass.emitted = 0

(* After a pass no shutdown cut short, state.json holds the standing set: a    *)
(* restart between passes loses and revives nothing.                           *)
StandingPersisted == pass.pc = "done" /\ live => disk.standing = cond.standing

(* Two finished reconciles in a row that could not read the catalogue leave    *)
(* the condition standing, whichever gate closed them and however many         *)
(* shutdowns or restarts came between.                                         *)
EscalatesInTime ==
  pass.pc \in {"idle", "done"} /\ live /\ restored /\ outage >= ReconcileEscalation
    => Catalogue \in cond.standing

(* A condition leaves the standing set of a running process only in a pass     *)
(* that saw it end: no failed read and no restored streak ends one.            *)
EndsOnEvidence ==
  [][\A k \in cond.standing \ cond'.standing : k \in pass'.ended \/ ~restored']_vars

StateLost == disk' = [EmptyState EXCEPT !.standing = disk'.standing]
(* The saved library of an arr loses more than half its items only once the    *)
(* saved streak stands one short of acceptance, or state.json itself is lost.  *)
ShrinkGuarded ==
  [][\A a \in Arrs : SuspectWalk(disk'.lib[a], disk.lib[a])
                       => disk.shrunk[a] + 1 >= ShrunkAccept \/ StateLost]_vars

(* A series leaves the saved non-aired order set only on a walk that read      *)
(* everything, listed it in aired order, and whose library no guard replaced.  *)
OrdersReleased ==
  [][disk.orders \ disk'.orders # {} =>
       (pass.suspects = {} /\ disk.orders \ disk'.orders \subseteq pass.aired) \/ StateLost]_vars

(* Once nothing fails any more, the process comes to hold a finding set and    *)
(* every condition is cleared for good; a library that stays small is taken.   *)
Settles == weather.calm ~> [](cond.standing = {} /\ ready)

(* "It drops a condition this process has no observer to clear: the tick ones  *)
(* when no tick runs" (restoreStanding): where every pass is a reconcile no    *)
(* restored window condition stands.                                           *)
TickConditionsDropped ==
  restored /\ ReconcileEvery = 1 /\ pass.pc = "idle" => Oversize \notin cond.standing
=============================================================================
