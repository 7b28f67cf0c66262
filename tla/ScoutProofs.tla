----------------------------- MODULE ScoutProofs -----------------------------
(* The scheduler's safety for any arrs, library sizes, cadences, thresholds    *)
(* and faults: what every exit of a pass logs, saves and keeps standing.       *)
EXTENDS Scout, TLAPS

USE CadencesAssumption, SizesAssumption, ThresholdsAssumption

Conds == [standing : SUBSET Keys, observed : SUBSET Keys, stated : SUBSET Keys]

-----------------------------------------------------------------------------
(* What every pass preserves, whatever fails.                                  *)

(* A reconcile and a tick go through stages of their own; a tick settles what  *)
(* a restart restored until a reconcile has made a finding set.                *)
StagesKinds ==
  /\ pass.pc \in {"settle", "probe", "tickload"} => pass.kind = "tick"
  /\ pass.pc \in {"load", "walk", "record", "gate", "upstream"} => pass.kind = "reconcile"
  /\ pass.pc # "idle" => pass.kind # "none"
  /\ pass.kind = "tick" =>
       /\ pass.pc = "settle" => ~ready
       /\ pass.pc \in {"probe", "tickload", "mapping", "fetch", "match"} => ready

ObservedStated == cond.observed \subseteq cond.stated

Closed == pass.pc \in {"end", "done"}
LinesCounted ==
  /\ ~Closed => pass.lines = 0 /\ pass.emitted = 0
  /\ Closed => /\ live => pass.lines = 1
               /\ ready => pass.emitted = pass.lines
               /\ ~ready => pass.emitted = 0

CoreInv == TypeOK /\ StagesKinds /\ ObservedStated /\ ConditionsStated /\ LinesCounted

-----------------------------------------------------------------------------
(* What a pass that may write holds of the library on disk.                    *)

Settled == {"idle", "load", "settle", "probe", "tickload", "end", "done"}
Working == ~pass.blocked /\ pass.pc \in {"walk", "mapping", "fetch", "record", "gate", "upstream", "match"}
Merged == pass.kind = "reconcile" /\ pass.pc \in {"upstream", "match"}
Walked == pass.kind = "reconcile" /\ pass.pc # "walk"

\* A pass starts with nothing read and no arr suspected.
WalkFresh ==
  /\ pass.pc \in {"load", "walk"} => ~pass.walkErr
  /\ pass.kind = "reconcile" /\ pass.pc \in {"load", "walk", "mapping", "fetch", "record", "gate"}
       => pass.suspects = {}

LibraryRead == Working =>
  /\ pass.st.lib = disk.lib
  /\ ~Merged => pass.st.shrunk = disk.shrunk
  /\ ~Walked => pass.st.orders = disk.orders

\* What the walk brought is taken only from arrs the guard does not withhold.
GuardHeld == Working /\ Merged =>
  \A a \in Arrs : SuspectWalk(pass.snap[a], disk.lib[a]) => disk.shrunk[a] + 1 >= ShrunkAccept

\* Ids leave the order set on aired evidence, and none does beside a suspect arr.
OrdersHeld == Working /\ Walked =>
  /\ disk.orders \ pass.st.orders \subseteq pass.aired
  /\ pass.walkErr => disk.orders \subseteq pass.st.orders
  /\ ~Merged /\ ~pass.walkErr /\ Suspects(pass.st, pass.snap) # {} => disk.orders \subseteq pass.st.orders
  /\ Merged /\ pass.suspects # {} => disk.orders \subseteq pass.st.orders

GuardInv == WalkFresh /\ LibraryRead /\ GuardHeld /\ OrdersHeld

-----------------------------------------------------------------------------
(* What holds besides while state.json can be read and written.                *)

StoreReliable == \A faults \in Troubles : faults \cap {"load", "save"} = {}

\* A process restores the standing set before anything else.
RestoredFirst ==
  /\ ~restored => ~ready /\ pass.pc \in {"idle", "load"} /\ cond.standing = {}
  /\ ~restored /\ pass.pc = "idle" => iterations = 0

\* Only a pass told to stop works on a state it could not read, a reconcile not
\* past its walk.
BlockedStops ==
  /\ live => ~pass.blocked
  /\ pass.pc \in {"idle", "load", "settle", "probe", "tickload"} => ~pass.blocked
  /\ pass.kind = "reconcile" /\ pass.blocked => pass.pc \in {"walk", "end", "done"}

\* What a pass knows of the catalogue, it fetched.
SeaKnown ==
  /\ pass.kind = "tick" \/ pass.pc \in {"idle", "load", "walk", "mapping", "fetch"} => pass.sea = "none"
  /\ pass.kind = "reconcile" /\ pass.pc = "match" => pass.sea = "ok"

DiskKnown == live /\ restored => persistedStanding = disk.standing

(* A standing condition has its streak at the threshold, so a failure of the   *)
(* same kind cannot clear it; a catalogue streak there has its condition.      *)
Backed(standing, s) ==
  /\ Catalogue \in standing <=> s.seadexFailures >= ReconcileEscalation
  /\ AniList \in standing => s.aniListDegraded >= ReconcileEscalation
  /\ Partial \in standing => s.partialWalks >= ReconcileEscalation
  /\ MappingRej \in standing => s.rejected >= TickEscalation
  /\ \A a \in Arrs : ShrunkOf(a) \in standing => s.shrunk[a] >= ReconcileEscalation

Watching == restored /\ ~pass.blocked /\ (live \/ pass.pc # "idle")
Held == IF pass.pc \in Settled THEN disk
        ELSE IF pass.pc \in {"walk", "mapping"} THEN pass.st ELSE WithMapping(pass.st)
StandingBacked == Backed(disk.standing, disk) /\ (Watching => Backed(cond.standing, Held))

\* Until the fetch is recorded, and throughout a tick, the streaks are the disk's.
StreaksRead == Working /\ (pass.kind = "tick" \/ pass.pc \in {"walk", "mapping", "fetch", "record"}) =>
  /\ pass.st.seadexFailures = disk.seadexFailures
  /\ pass.st.aniListDegraded = disk.aniListDegraded
  /\ pass.st.partialWalks = disk.partialWalks
  /\ pass.st.rejected = disk.rejected

\* The saved streak of failed fetches never falls behind the fetches that failed.
OutageCounted ==
  /\ outage <= disk.seadexFailures
  /\ pass.pc = "end" /\ pass.sea = "failed" => Count(outage, ReconcileEscalation) <= disk.seadexFailures
  /\ pass.kind = "reconcile" /\ pass.pc \in {"gate", "upstream", "match"} =>
       /\ outage <= pass.st.seadexFailures
       /\ pass.sea = "failed" => Count(outage, ReconcileEscalation) <= pass.st.seadexFailures

\* The tick's own conditions: a standing one has its run at the latch, and the
\* first reconcile that reads the catalogue ends what a restart restored.
WindowBacked ==
  /\ Oversize \in cond.standing => oversizeRun = LatchTicks
  /\ ready /\ Unreachable \in cond.standing => unreachableRun = LatchTicks
  /\ pass.kind = "reconcile" /\ pass.pc \in {"gate", "upstream", "match"} /\ pass.sea \in {"ok", "empty"}
       => Unreachable \notin cond.standing

StandsInv == /\ DiskKnown /\ StandingBacked /\ StreaksRead /\ OutageCounted /\ WindowBacked
             /\ StandingPersisted
StoreInv == RestoredFirst /\ BlockedStops /\ SeaKnown /\ StandsInv

-----------------------------------------------------------------------------
(* Streaks, cadences and conditions.                                           *)

\* A streak stays within its threshold, and only grows until it reaches it.
LEMMA CountIs ==
  ASSUME NEW cap \in Nat, NEW n \in 0..cap
  PROVE  /\ Count(n, cap) \in 0..cap
         /\ Count(n, cap) = IF n = cap THEN cap ELSE n + 1
<1>1. Min({n + 1, cap}) \in {n + 1, cap} /\ \A y \in {n + 1, cap} : Min({n + 1, cap}) <= y
  <2>1. \E x \in {n + 1, cap} : \A y \in {n + 1, cap} : x <= y
    BY SMT
  <2> QED BY <2>1 DEF Min
<1> QED BY <1>1 DEF Count

\* Counting is monotone.
LEMMA CountGrows ==
  ASSUME NEW cap \in Nat, NEW m \in 0..cap, NEW n \in 0..cap
  PROVE  Count(n, cap) >= n /\ (m <= n => Count(m, cap) <= Count(n, cap))
<1>1. Count(n, cap) = (IF n = cap THEN cap ELSE n + 1) /\ Count(m, cap) = (IF m = cap THEN cap ELSE m + 1)
  BY CountIs
<1> QED BY <1>1

\* A cadence is at least one pass.
LEMMA EveryIs ==
  ASSUME NEW n \in Nat
  PROVE  Max({1, n}) \in Nat \ {0}
<1>1. \E x \in {1, n} : \A y \in {1, n} : x >= y
  OBVIOUS
<1> QED BY <1>1 DEF Max

\* The largest size is one.
LEMMA MaxSize == Max(Sizes) \in Sizes
<1>1. \E x \in Sizes : \A y \in Sizes : x >= y
  OBVIOUS
<1> QED BY <1>1 DEF Max

\* The keys.
LEMMA KeysIs ==
  /\ {Unreachable, Oversize, Catalogue, MappingRej, AniList, Partial} \subseteq Keys
  /\ \A a \in Arrs : ShrunkOf(a) \in Keys
BY DEF Keys, TickKeys

\* An empty state, no pass and no condition have their types.
LEMMA EmptyTypes == EmptyState \in States /\ NoPass \in Passes /\ NoConds \in Conds
<1>1. EmptyState \in States
  BY DEF EmptyState, States
<1>2. NoPass \in Passes
  BY <1>1 DEF NoPass, Passes
<1> QED BY <1>1, <1>2 DEF NoConds, Conds

\* Observing, clearing and escalating move conditions among the keys.
LEMMA CondTypes ==
  ASSUME NEW c \in Conds, NEW k \in Keys
  PROVE  /\ Observe(c, k) \in Conds /\ Clear(c, k) \in Conds
         /\ \A n, t : Escalate(c, k, n, t) \in Conds
BY DEF Observe, Clear, Escalate, Conds

\* A load gives a state and leaves one.
LEMMA LoadTypes ==
  ASSUME disk \in States, NEW st, NEW blocked \in BOOLEAN, LoadState(st, blocked)
  PROVE  st \in States /\ disk' \in States
BY EmptyTypes DEF LoadState

\* A save leaves a state and a standing set.
LEMMA SaveTypes ==
  ASSUME TypeOK, NEW st \in States, NEW standing \in SUBSET Keys, NEW blocked,
         Save(st, standing, blocked)
  PROVE  disk' \in States /\ persistedStanding' \in SUBSET Keys
<1>1. [st EXCEPT !.standing = standing] \in States
  BY DEF States
<1> QED BY <1>1 DEF Save, SaveDone, TypeOK

\* What a pass learned fits the state it saves.
LEMMA WithTypes ==
  ASSUME TypeOK
  PROVE  WithMapping(pass.st) \in States /\ WithWalk(pass.st) \in States
<1>1. /\ pass.st \in States /\ pass.rejected \in 0..TickEscalation /\ pass.usable \in BOOLEAN
      /\ pass.snap \in [Arrs -> Sizes \cup {0}]
  BY DEF TypeOK, Passes
<1>2. WithMapping(pass.st) \in States
  BY <1>1 DEF WithMapping, States
<1> QED BY <1>1, <1>2 DEF WithWalk, States

-----------------------------------------------------------------------------
(* Types.                                                                      *)

TroublesKnown == weather \in [calm : BOOLEAN, sizes : [Arrs -> Sizes], faults : Troubles]
Rhythm == every \in Cadences /\ iterations \in 0..(ReconcileEvery - 1)
Runs == /\ {ready, restored, live} \subseteq BOOLEAN
        /\ retries \in 0..RetryLatch /\ unreachableRun \in 0..LatchTicks
        /\ oversizeRun \in 0..LatchTicks /\ outage \in 0..ReconcileEscalation
Stands == cond \in Conds /\ persistedStanding \in SUBSET Keys

\* The types, part by part.
LEMMA TypeIs == TypeOK <=> disk \in States /\ pass \in Passes /\ Rhythm /\ Runs /\ Stands /\ TroublesKnown
BY DEF TypeOK, Rhythm, Runs, Stands, TroublesKnown, Conds

\* The types after a step, part by part.
LEMMA TypeNext ==
  ASSUME disk' \in States, pass' \in Passes, Rhythm', Runs', Stands', TroublesKnown'
  PROVE  TypeOK'
BY DEF TypeOK, Rhythm, Runs, Stands, TroublesKnown, Conds

\* A pass's fields have their types.
LEMMA PassFields ==
  ASSUME NEW p \in Passes
  PROVE  /\ p.st \in States /\ p.kind \in {"none", "reconcile", "tick"}
         /\ {p.blocked, p.walkErr, p.partial, p.usable, p.fresh} \subseteq BOOLEAN
         /\ p.snap \in [Arrs -> Sizes \cup {0}] /\ p.suspects \in SUBSET Arrs
         /\ p.aired \in SUBSET OrderIds /\ p.mapErr \in {"none", "stale", "unusable"}
         /\ p.rejected \in 0..TickEscalation
         /\ p.sea \in {"none", "ok", "empty", "failed", "cancelled"}
         /\ p.lines \in 0..1 /\ p.emitted \in 0..1 /\ p.ended \in SUBSET Keys
BY DEF Passes

\* The loop's rhythm stands while neither the cadence nor the counter moves.
LEMMA RhythmKept ==
  ASSUME Rhythm, UNCHANGED <<every, iterations>>
  PROVE  Rhythm'
BY DEF Rhythm, ReconcileEvery

\* Every step keeps the loop's rhythm.
LEMMA RhythmStep ==
  ASSUME TypeOK, Next
  PROVE  Rhythm'
<1>0. Rhythm /\ every \in Nat
  BY TypeIs DEF Rhythm
<1>1. CASE Begin
  <2>1. ReconcileEvery \in Nat \ {0} /\ every' = every /\ ReconcileEvery' = ReconcileEvery
    BY <1>0, <1>1, EveryIs DEF ReconcileEvery, Begin, process
  <2>2. iterations' = (iterations + 1) % ReconcileEvery /\ iterations \in Nat
    BY <1>0, <1>1, <2>1 DEF Begin, Rhythm
  <2> QED BY <1>0, <2>1, <2>2 DEF Rhythm
<1>2. CASE Restart
  <2>1. every' \in Cadences /\ iterations' = 0
    BY <1>2 DEF Restart
  <2>2. 0 \in 0..(Max({1, every'}) - 1)
    BY <2>1, EveryIs
  <2> QED BY <2>1, <2>2 DEF Rhythm, ReconcileEvery
<1>3. CASE Reconcile
  BY <1>0, <1>3, RhythmKept DEF Reconcile, process, ReconcileLoad, Walk, WalkFailed, WalkInterrupted, Fetch,
     RecordSeaDexFetch, LibraryGate, MergeShrunkSides, UpstreamGate, FinishInterruptedMatch,
     FinishCompletedCycle
<1>4. CASE Tick
  BY <1>0, <1>4, RhythmKept DEF Tick, process, SettleRestored, ProbeFails, ProbeEmpty, ProbeOversize,
     ProbeChanged, TickLoad, WindowFetchFails, WindowFetch, TickMatch
<1>5. CASE MappingOk \/ MappingFails \/ End \/ Rest \/ Cancel \/ CalmDown
  BY <1>0, <1>5, RhythmKept DEF process, MappingOk, MappingFails, End, Rest, Cancel, CalmDown
<1> QED BY <1>1, <1>2, <1>3, <1>4, <1>5 DEF Next, Step

\* Every step keeps the runs, the streaks and the flags in their ranges.
LEMMA RunsStep ==
  ASSUME TypeOK, Next
  PROVE  Runs'
<1> USE DEF process, Runs
<1>0. Runs /\ pass \in Passes /\ disk \in States /\ Stands
  BY TypeIs
<1>1. /\ Count(unreachableRun, LatchTicks) \in 0..LatchTicks
      /\ Count(oversizeRun, LatchTicks) \in 0..LatchTicks
      /\ Count(outage, ReconcileEscalation) \in 0..ReconcileEscalation
      /\ Count(retries, RetryLatch) \in 0..RetryLatch
      /\ 0 \in 0..LatchTicks /\ 0 \in 0..RetryLatch /\ 0 \in 0..ReconcileEscalation
  BY <1>0, CountIs
<1>2. CASE ReconcileLoad
  BY <1>0, <1>1, <1>2 DEF ReconcileLoad, RestoreStanding, ResumedOversize
<1>3. CASE RecordSeaDexFetch
  BY <1>0, <1>1, <1>3 DEF RecordSeaDexFetch, RecordFetchOk, RecordFetchFailed
<1>4. CASE Walk \/ WalkFailed \/ WalkInterrupted \/ Fetch \/ LibraryGate \/ MergeShrunkSides
             \/ UpstreamGate \/ FinishInterruptedMatch \/ FinishCompletedCycle
  BY <1>0, <1>1, <1>4 DEF Walk, WalkFailed, WalkInterrupted, Fetch, LibraryGate, MergeShrunkSides,
     UpstreamGate, FinishInterruptedMatch, FinishCompletedCycle
<1>5. CASE SettleRestored \/ ProbeEmpty \/ ProbeOversize \/ ProbeChanged \/ TickLoad
             \/ WindowFetch \/ TickMatch
  <2>1. CASE SettleRestored
    BY <1>0, <1>1, <2>1 DEF SettleRestored
  <2>2. CASE ProbeEmpty \/ ProbeChanged
    BY <1>0, <1>1, <2>2 DEF ProbeEmpty, ProbeChanged
  <2>3. CASE ProbeOversize
    BY <1>0, <1>1, <2>3 DEF ProbeOversize
  <2>4. CASE TickLoad \/ WindowFetch \/ TickMatch
    BY <1>0, <1>1, <2>4 DEF TickLoad, WindowFetch, TickMatch
  <2> QED BY <1>5, <2>1, <2>2, <2>3, <2>4
<1>6. CASE ProbeFails \/ WindowFetchFails
  BY <1>0, <1>1, <1>6 DEF ProbeFails, WindowFetchFails, TickUnreadable
<1>7. CASE Begin \/ MappingOk \/ MappingFails \/ End \/ Rest \/ Cancel \/ Restart \/ CalmDown
  <2>1. CASE Begin \/ MappingOk \/ MappingFails \/ Rest \/ CalmDown
    BY <1>0, <1>1, <2>1 DEF Begin, MappingOk, MappingFails, Rest, CalmDown
  <2>2. CASE End
    BY <1>0, <1>1, <2>2 DEF End
  <2>3. CASE Cancel
    BY <1>0, <1>1, <2>3 DEF Cancel
  <2>4. CASE Restart
    BY <1>0, <1>1, <2>4 DEF Restart
  <2> QED BY <1>7, <2>1, <2>2, <2>3, <2>4
<1> QED BY <1>2, <1>3, <1>4, <1>5, <1>6, <1>7 DEF Next, Step, Reconcile, Tick

\* Ids joined or released are ids whose order the walk reads.
LEMMA OrdersTyped ==
  ASSUME NEW st \in States, NEW snap, NEW nonAired \in SUBSET OrderIds, NEW aired, NEW clean
  PROVE  /\ Joined(st.orders, nonAired) \in SUBSET OrderIds
         /\ NextOrderSet(st, snap, nonAired, aired, clean) \in SUBSET OrderIds
BY DEF NextOrderSet, Joined, Released, States

\* A suspect arr's streak is short of acceptance.
LEMMA SuspectStreaks ==
  ASSUME NEW st, NEW snap, NEW a \in Suspects(st, snap)
  PROVE  a \in Arrs /\ ShrinkStreak(st, snap, a) \in 1..(ShrunkAccept - 1)
BY DEF Suspects

\* Closing, leaving off and noting what ended keep a pass's type.
LEMMA ExitTypes ==
  ASSUME NEW p \in Passes, NEW says, NEW ks \in SUBSET Keys
  PROVE  /\ Interrupt(p) \in Passes /\ Ended(p, ks) \in Passes
         /\ p.lines = 0 /\ p.emitted = 0 => Close(p, says) \in Passes
<1>1. Interrupt(p) \in Passes
  BY DEF Passes, Interrupt
<1>2. Ended(p, ks) \in Passes
  BY DEF Passes, Ended
<1>3. ASSUME p.lines = 0, p.emitted = 0
      PROVE  Close(p, says) \in Passes
  <2>1. p.lines + 1 \in 0..1 /\ (p.emitted + (IF says THEN 1 ELSE 0)) \in 0..1
    BY <1>3
  <2> QED BY <2>1 DEF Passes, Close
<1> QED BY <1>1, <1>2, <1>3

\* The steps of a reconcile keep a pass's type.
LEMMA ReconcilePass ==
  ASSUME TypeOK, LinesCounted, Reconcile
  PROVE  pass' \in Passes
<1>0. pass \in Passes /\ disk \in States /\ pass.st \in States /\ Runs /\ TroublesKnown
  BY TypeIs, PassFields
<1>1. CASE ReconcileLoad
  <2>1. PICK st \in {disk, EmptyState}, blocked \in BOOLEAN :
          LoadState(st, blocked) /\ pass' = [pass EXCEPT !.pc = "walk", !.st = st, !.blocked = blocked]
    BY <1>1 DEF ReconcileLoad
  <2>2. st \in States
    BY <1>0, <2>1, LoadTypes
  <2> QED BY <1>0, <2>1, <2>2 DEF Passes
<1>2. CASE Walk
  <2>1. PICK snap \in WalkSizes, partial \in BOOLEAN, clean \in BOOLEAN,
             nonAired \in SUBSET OrderIds, aired \in SUBSET OrderIds :
          /\ (partial \/ ~clean) => FaultNow("partial")
          /\ pass' = [pass EXCEPT !.pc = "mapping", !.snap = snap, !.partial = partial,
                        !.aired = IF clean THEN aired ELSE {},
                        !.st.orders = NextOrderSet(pass.st, snap, nonAired, aired, clean)]
    BY <1>2, Zenon DEF Walk
  <2>2. snap \in [Arrs -> Sizes \cup {0}]
    BY <1>0, MaxSize DEF TroublesKnown, WalkSizes, AllSizes
  <2>3. PICK orders : orders = NextOrderSet(pass.st, snap, nonAired, aired, clean)
    OBVIOUS
  <2>4. [pass.st EXCEPT !.orders = orders] \in States
    BY <1>0, <2>3, OrdersTyped DEF States
  <2>5. PICK seen \in SUBSET OrderIds : seen = IF clean THEN aired ELSE {}
    OBVIOUS
  <2>6. pass' = [pass EXCEPT !.pc = "mapping", !.snap = snap, !.partial = partial,
                   !.aired = seen, !.st.orders = orders]
    BY <2>1, <2>3, <2>5
  <2> QED BY <1>0, <2>2, <2>4, <2>6 DEF Passes
<1>3. CASE WalkFailed
  <2>1. PICK nonAired \in SUBSET OrderIds :
          LET st == [pass.st EXCEPT !.orders = Joined(pass.st.orders, nonAired)]
              p  == [pass EXCEPT !.walkErr = TRUE, !.st = st] IN
          pass' = [p EXCEPT !.pc = "mapping"] \/ pass' = Close(p, ready)
    BY <1>3 DEF WalkFailed
  <2> DEFINE st == [pass.st EXCEPT !.orders = Joined(pass.st.orders, nonAired)]
             p  == [pass EXCEPT !.walkErr = TRUE, !.st = st]
  <2>2. st \in States
    BY <1>0, OrdersTyped DEF States
  <2>3. p \in Passes /\ p.lines = 0 /\ p.emitted = 0
    BY <1>0, <1>3, <2>2 DEF Passes, LinesCounted, Closed, WalkFailed
  <2>4. pass' = [p EXCEPT !.pc = "mapping"] \/ pass' = Close(p, ready)
    BY <2>1
  <2> HIDE DEF p
  <2> QED BY <2>3, <2>4, ExitTypes DEF Passes
<1>4. CASE WalkInterrupted \/ FinishInterruptedMatch
  BY <1>0, <1>4 DEF Passes, WalkInterrupted, FinishInterruptedMatch, Interrupt
<1>5. CASE Fetch
  <2>1. PICK sea \in {"ok", "empty", "failed"} : pass' = [pass EXCEPT !.pc = "record", !.sea = sea]
    BY <1>5 DEF Fetch
  <2> QED BY <1>0, <2>1 DEF Passes
<1>6. CASE RecordSeaDexFetch
  <2>1. PICK n \in 0..ReconcileEscalation : n = FailuresWithThis(pass)
    BY <1>0, CountIs DEF States, FailuresWithThis
  <2>2. [pass.st EXCEPT !.seadexFailures = 0] \in States /\ [pass.st EXCEPT !.seadexFailures = n] \in States
    BY <1>0 DEF States
  <2>3. \/ pass' = Ended([pass EXCEPT !.pc = "gate", !.st.seadexFailures = 0], {Catalogue, Unreachable})
        \/ pass' = [pass EXCEPT !.pc = "gate", !.st.seadexFailures = n]
        \/ pass' = [pass EXCEPT !.pc = "gate", !.sea = "cancelled"]
    BY <1>6, <2>1 DEF RecordSeaDexFetch, RecordFetchOk, RecordFetchFailed
  <2>4. CASE pass' = Ended([pass EXCEPT !.pc = "gate", !.st.seadexFailures = 0], {Catalogue, Unreachable})
    <3>1. [pass EXCEPT !.pc = "gate", !.st.seadexFailures = 0] \in Passes
      BY <1>0, <2>2 DEF Passes
    <3> QED BY <2>4, <3>1, KeysIs, ExitTypes
  <2>5. CASE pass' = [pass EXCEPT !.pc = "gate", !.st.seadexFailures = n]
    BY <1>0, <2>2, <2>5 DEF Passes
  <2>6. CASE pass' = [pass EXCEPT !.pc = "gate", !.sea = "cancelled"]
    BY <1>0, <2>6 DEF Passes
  <2> QED BY <2>3, <2>4, <2>5, <2>6
<1>7. CASE LibraryGate
  BY <1>0, <1>7, ExitTypes DEF LibraryGate, LinesCounted, Closed
<1>8. CASE MergeShrunkSides
  <2> DEFINE suspects  == Suspects(pass.st, pass.snap)
             streak(a) == ShrinkStreak(pass.st, pass.snap, a)
             shrunk    == [a \in Arrs |-> IF a \in suspects THEN streak(a) ELSE 0]
             snap      == CarryPriorItems(pass.snap, pass.st.lib, suspects)
             ended     == {ShrunkOf(a) : a \in Arrs \ suspects}
  <2>1. pass' = Ended([pass EXCEPT !.pc = "upstream", !.suspects = suspects,
                         !.snap = snap, !.st.shrunk = shrunk], ended)
    BY <1>8 DEF MergeShrunkSides
  <2>2. shrunk \in [Arrs -> 0..(ShrunkAccept - 1)]
    BY SuspectStreaks
  <2>3. snap \in [Arrs -> Sizes \cup {0}]
    BY <1>0, PassFields DEF CarryPriorItems, States
  <2>4. ended \in SUBSET Keys /\ suspects \in SUBSET Arrs
    BY KeysIs DEF Suspects
  <2> HIDE DEF suspects, shrunk, snap, ended
  <2>5. [pass.st EXCEPT !.shrunk = shrunk] \in States
    BY <1>0, <2>2 DEF States
  <2> QED BY <1>0, <2>1, <2>3, <2>4, <2>5 DEF Passes, Ended
<1>9. CASE UpstreamGate
  <2>1. pass' = [pass EXCEPT !.pc = "match"] \/ pass' = Interrupt(pass) \/ pass' = Close(pass, ready)
    BY <1>9 DEF UpstreamGate
  <2>2. [pass EXCEPT !.pc = "match"] \in Passes
    BY <1>0 DEF Passes
  <2> QED BY <1>0, <1>9, <2>1, <2>2, ExitTypes DEF UpstreamGate, LinesCounted, Closed
<1>10. CASE FinishCompletedCycle
  <2>1. PICK degraded \in BOOLEAN :
          pass' = Ended(Close(pass, TRUE), (IF degraded THEN {} ELSE {AniList}) \cup
                                           (IF pass.partial THEN {} ELSE {Partial}))
    BY <1>10 DEF FinishCompletedCycle
  <2>2. (IF degraded THEN {} ELSE {AniList}) \cup (IF pass.partial THEN {} ELSE {Partial}) \in SUBSET Keys
    BY KeysIs
  <2>3. Close(pass, TRUE) \in Passes
    BY <1>0, <1>10, ExitTypes DEF FinishCompletedCycle, LinesCounted, Closed
  <2> QED BY <2>1, <2>2, <2>3, ExitTypes
<1> QED BY <1>1, <1>2, <1>3, <1>4, <1>5, <1>6, <1>7, <1>8, <1>9, <1>10 DEF Reconcile

\* The steps of a tick keep a pass's type.
LEMMA TickPass ==
  ASSUME TypeOK, LinesCounted, Tick
  PROVE  pass' \in Passes
<1>0. pass \in Passes /\ disk \in States /\ pass.st \in States
  BY TypeIs, PassFields
<1>1. ~Closed => /\ Close(pass, TRUE) \in Passes /\ Close(pass, FALSE) \in Passes
  BY <1>0, ExitTypes DEF LinesCounted
<1>2. {Unreachable} \in SUBSET Keys /\ {Oversize} \in SUBSET Keys /\ TickKeys \in SUBSET Keys
  BY KeysIs DEF TickKeys
<1>3. Interrupt(pass) \in Passes
  BY <1>0, ExitTypes
<1>4. CASE SettleRestored
  <2>1. PICK probe \in {"failed", "small", "big"} :
          \/ pass' = Close(pass, FALSE)
          \/ pass' = Ended(Close(pass, FALSE), IF probe = "small" THEN TickKeys ELSE {Unreachable})
    BY <1>4 DEF SettleRestored
  <2> QED BY <1>1, <1>2, <1>4, <2>1, ExitTypes DEF SettleRestored, Closed
<1>5. CASE ProbeFails \/ WindowFetchFails
  BY <1>1, <1>3, <1>5 DEF ProbeFails, WindowFetchFails, TickUnreadable, Closed
<1>6. CASE ProbeEmpty \/ ProbeOversize
  BY <1>1, <1>2, <1>6, ExitTypes DEF ProbeEmpty, ProbeOversize, Closed
<1>7. CASE ProbeChanged
  <2>1. [pass EXCEPT !.pc = "tickload"] \in Passes
    BY <1>0 DEF Passes
  <2> QED BY <1>2, <1>7, <2>1, ExitTypes DEF ProbeChanged
<1>8. CASE TickLoad
  <2>1. PICK st \in {disk, EmptyState}, blocked \in BOOLEAN :
          LoadState(st, blocked) /\ pass' = [pass EXCEPT !.pc = "mapping", !.st = st, !.blocked = blocked]
    BY <1>8 DEF TickLoad
  <2>2. st \in States
    BY <1>0, <2>1, LoadTypes
  <2> QED BY <1>0, <2>1, <2>2 DEF Passes
<1>9. CASE WindowFetch
  <2> DEFINE p == Ended(pass, {Unreachable})
  <2>1. p \in Passes /\ p.lines = 0 /\ p.emitted = 0
    BY <1>0, <1>2, <1>9, ExitTypes DEF WindowFetch, LinesCounted, Closed, Ended, Passes
  <2>2. pass' = [p EXCEPT !.pc = "match"] \/ pass' = Close(p, TRUE)
    BY <1>9 DEF WindowFetch
  <2> HIDE DEF p
  <2>3. [p EXCEPT !.pc = "match"] \in Passes
    BY <2>1 DEF Passes
  <2> QED BY <2>1, <2>2, <2>3, ExitTypes
<1>10. CASE TickMatch
  BY <1>1, <1>3, <1>10 DEF TickMatch, Closed
<1> QED BY <1>4, <1>5, <1>6, <1>7, <1>8, <1>9, <1>10 DEF Tick

\* Every step keeps a pass's type.
LEMMA PassStep ==
  ASSUME TypeOK, LinesCounted, Next
  PROVE  pass' \in Passes
<1>0. pass \in Passes /\ disk \in States /\ pass.st \in States /\ NoPass \in Passes
  BY TypeIs, PassFields, EmptyTypes
<1>1. CASE Begin
  BY <1>0, <1>1 DEF Begin, Passes
<1>2. CASE MappingOk
  <2>1. PICK fresh \in BOOLEAN :
          pass' = Ended([pass EXCEPT !.pc = "fetch", !.rejected = 0, !.usable = TRUE, !.fresh = fresh],
                        {MappingRej})
    BY <1>2 DEF MappingOk
  <2>2. 0 \in 0..TickEscalation
    OBVIOUS
  <2>3. [pass EXCEPT !.pc = "fetch", !.rejected = 0, !.usable = TRUE, !.fresh = fresh] \in Passes
    BY <1>0, <2>2 DEF Passes
  <2> QED BY <2>1, <2>3, ExitTypes, KeysIs
<1>3. CASE MappingFails
  <2>1. PICK rejected \in {pass.st.rejected, Count(pass.st.rejected, TickEscalation)} :
          pass' = [pass EXCEPT !.pc = "fetch", !.rejected = rejected, !.usable = pass.st.usable,
                     !.mapErr = IF pass.st.usable THEN "stale" ELSE "unusable"]
    BY <1>3 DEF MappingFails
  <2>2. pass.st.rejected \in 0..TickEscalation /\ pass.st.usable \in BOOLEAN
    BY <1>0 DEF States
  <2>3. rejected \in 0..TickEscalation
    BY <2>2, CountIs
  <2> QED BY <1>0, <2>1, <2>2, <2>3 DEF Passes
<1>4. CASE End
  BY <1>0, <1>4 DEF End, Passes
<1>5. CASE Rest \/ Restart \/ Cancel \/ CalmDown
  BY <1>0, <1>5 DEF Rest, Restart, Cancel, CalmDown
<1> QED BY <1>1, <1>2, <1>3, <1>4, <1>5, ReconcilePass, TickPass DEF Next, Step

\* Every step keeps the types of state.json and of the standing sets.
LEMMA StoreStep ==
  ASSUME TypeOK, Next
  PROVE  disk' \in States /\ persistedStanding' \in SUBSET Keys
<1>0. /\ pass \in Passes /\ disk \in States /\ pass.st \in States /\ Stands
      /\ cond \in Conds /\ cond.standing \in SUBSET Keys /\ persistedStanding \in SUBSET Keys
  BY TypeIs, PassFields DEF Stands, Conds
<1>1. /\ WithMapping(pass.st) \in States /\ WithWalk(pass.st) \in States
      /\ \A orders \in SUBSET OrderIds : [pass.st EXCEPT !.orders = orders] \in States
  BY <1>0, WithTypes DEF States
<1>2. CASE ReconcileLoad
  <2>1. PICK st \in {disk, EmptyState}, blocked \in BOOLEAN :
          /\ LoadState(st, blocked)
          /\ IF restored THEN UNCHANGED <<persistedStanding, cond, oversizeRun>>
             ELSE RestoreStanding(st.standing)
    BY <1>2 DEF ReconcileLoad
  <2>2. st \in States /\ disk' \in States
    BY <1>0, <2>1, LoadTypes
  <2>3. st.standing \in SUBSET Keys
    BY <2>2 DEF States
  <2> QED BY <1>0, <2>1, <2>2, <2>3 DEF RestoreStanding
<1>3. CASE WalkInterrupted
  <2>1. PICK nonAired \in SUBSET OrderIds :
          LET joined == Joined(pass.st.orders, nonAired) IN
          IF joined = pass.st.orders THEN UNCHANGED <<disk, persistedStanding>>
          ELSE Save([pass.st EXCEPT !.orders = joined], cond.standing, pass.blocked)
    BY <1>3 DEF WalkInterrupted
  <2>2. [pass.st EXCEPT !.orders = Joined(pass.st.orders, nonAired)] \in States
    BY <1>0, <1>1, OrdersTyped
  <2> QED BY <1>0, <2>1, <2>2, SaveTypes
<1>4. CASE WalkFailed
  <2>1. PICK nonAired \in SUBSET OrderIds :
          \/ UNCHANGED <<disk, persistedStanding>>
          \/ Save([pass.st EXCEPT !.orders = Joined(pass.st.orders, nonAired)], cond.standing, pass.blocked)
    BY <1>4 DEF WalkFailed
  <2>2. [pass.st EXCEPT !.orders = Joined(pass.st.orders, nonAired)] \in States
    BY <1>0, <1>1, OrdersTyped
  <2> QED BY <1>0, <2>1, <2>2, SaveTypes
<1>5. CASE LibraryGate \/ UpstreamGate \/ FinishInterruptedMatch
  BY <1>0, <1>1, <1>5, SaveTypes DEF LibraryGate, UpstreamGate, FinishInterruptedMatch
<1>6. CASE FinishCompletedCycle
  <2>0. PICK degraded \in BOOLEAN : \E ani, part, c :
          /\ ani = Advance(pass.st.aniListDegraded, degraded)
          /\ part = Advance(pass.st.partialWalks, pass.partial)
          /\ c = Escalate(Escalate(cond, AniList, ani, ReconcileEscalation),
                          Partial, part, ReconcileEscalation)
          /\ Save([WithWalk(pass.st) EXCEPT !.aniListDegraded = ani, !.partialWalks = part],
                  c.standing, pass.blocked)
    BY <1>6, Zenon DEF FinishCompletedCycle
  <2>1. PICK ani, part, c :
          /\ ani = Advance(pass.st.aniListDegraded, degraded)
          /\ part = Advance(pass.st.partialWalks, pass.partial)
          /\ c = Escalate(Escalate(cond, AniList, ani, ReconcileEscalation),
                          Partial, part, ReconcileEscalation)
          /\ Save([WithWalk(pass.st) EXCEPT !.aniListDegraded = ani, !.partialWalks = part],
                  c.standing, pass.blocked)
    BY <2>0, Zenon
  <2>2. ani \in 0..ReconcileEscalation /\ part \in 0..ReconcileEscalation
    BY <1>0, <2>1, CountIs DEF Advance, States
  <2>3. [WithWalk(pass.st) EXCEPT !.aniListDegraded = ani, !.partialWalks = part] \in States
    BY <1>1, <2>2 DEF States
  <2>4. c.standing \in SUBSET Keys
    BY <1>0, <2>1, CondTypes, KeysIs DEF Conds
  <2> QED BY <2>1, <2>3, <2>4, SaveTypes
<1>7. CASE TickLoad
  BY <1>0, <1>7, LoadTypes DEF TickLoad
<1>8. CASE TickMatch
  BY <1>0, <1>1, <1>8, SaveTypes DEF TickMatch, SaveTick
<1>9. CASE WindowFetchFails \/ WindowFetch
  <2>1. cond'.standing \in SUBSET Keys
    BY <1>0, <1>9, CondTypes, KeysIs DEF WindowFetchFails, WindowFetch, TickUnreadable, ResetUnreachable, Conds
  <2>2. SaveTick(FALSE, cond'.standing) \/ UNCHANGED <<disk, persistedStanding>>
    BY <1>9 DEF WindowFetchFails, WindowFetch
  <2> QED BY <1>0, <1>1, <2>1, <2>2, SaveTypes DEF SaveTick
<1>10. CASE End
  <2>1. /\ [disk EXCEPT !.standing = cond.standing] \in States
        /\ [EmptyState EXCEPT !.standing = cond.standing] \in States
    BY <1>0, EmptyTypes DEF States
  <2> QED BY <1>0, <1>10, <2>1 DEF End, PersistStanding, SaveDone
<1>11. CASE \/ Begin \/ Walk \/ Fetch \/ RecordSeaDexFetch \/ MergeShrunkSides
            \/ SettleRestored \/ ProbeFails \/ ProbeEmpty \/ ProbeOversize \/ ProbeChanged
            \/ MappingOk \/ MappingFails \/ Rest \/ Cancel \/ CalmDown
  BY <1>0, <1>11 DEF Begin, Walk, Fetch, RecordSeaDexFetch, MergeShrunkSides, SettleRestored,
     ProbeFails, ProbeEmpty, ProbeOversize, ProbeChanged, MappingOk, MappingFails, Rest, Cancel, CalmDown
<1>12. CASE Restart
  BY <1>0, <1>12 DEF Restart
<1> QED BY <1>2, <1>3, <1>4, <1>5, <1>6, <1>7, <1>8, <1>9, <1>10, <1>11, <1>12 DEF Next, Step, Reconcile, Tick

\* Every step moves conditions among the keys.
LEMMA CondStep ==
  ASSUME TypeOK, Next
  PROVE  cond' \in Conds
<1>0. /\ pass \in Passes /\ disk \in States /\ pass.st \in States
      /\ cond \in Conds /\ NoConds \in Conds
  BY TypeIs, PassFields, EmptyTypes DEF Stands
<1>1. CASE ReconcileLoad
  <2>1. PICK st \in {disk, EmptyState}, blocked \in BOOLEAN :
          /\ LoadState(st, blocked)
          /\ IF restored THEN UNCHANGED <<persistedStanding, cond, oversizeRun>>
             ELSE RestoreStanding(st.standing)
    BY <1>1 DEF ReconcileLoad
  <2>2. st.standing \in SUBSET Keys
    BY <1>0, <2>1, LoadTypes DEF States
  <2> QED BY <1>0, <2>1, <2>2 DEF RestoreStanding, Conds
<1>2. CASE RecordSeaDexFetch
  <2>1. PICK n : \/ cond' = Clear(Clear(cond, Catalogue), Unreachable)
                 \/ cond' = Escalate(cond, Catalogue, n, ReconcileEscalation)
                 \/ cond' = cond
    BY <1>2 DEF RecordSeaDexFetch, RecordFetchOk, RecordFetchFailed
  <2> QED BY <1>0, <2>1, CondTypes, KeysIs
<1>3. CASE MergeShrunkSides
  <2>1. PICK ends, stands \in SUBSET Keys :
          cond' = [standing |-> (cond.standing \ ends) \cup stands,
                   observed |-> (cond.observed \ ends) \cup stands,
                   stated   |-> cond.stated \cup stands]
    <3> DEFINE suspects == Suspects(pass.st, pass.snap)
               stands   == {ShrunkOf(a) : a \in {b \in suspects :
                              ShrinkStreak(pass.st, pass.snap, b) >= ReconcileEscalation}}
               ends     == {ShrunkOf(a) : a \in Arrs} \ stands
    <3>1. stands \in SUBSET Keys /\ ends \in SUBSET Keys
      BY KeysIs DEF Suspects
    <3>2. cond' = [standing |-> (cond.standing \ ends) \cup stands,
                   observed |-> (cond.observed \ ends) \cup stands,
                   stated   |-> cond.stated \cup stands]
      BY <1>3, Zenon DEF MergeShrunkSides
    <3> HIDE DEF stands, ends
    <3> QED BY <3>1, <3>2
  <2> QED BY <1>0, <2>1 DEF Conds
<1>4. CASE FinishCompletedCycle
  <2>1. PICK ani, part : cond' = Escalate(Escalate(cond, AniList, ani, ReconcileEscalation),
                                          Partial, part, ReconcileEscalation)
    BY <1>4, Zenon DEF FinishCompletedCycle
  <2> QED BY <1>0, <2>1, CondTypes, KeysIs
<1>5. CASE SettleRestored
  <2>1. cond' \in {cond, ResetBoth(cond), ResetUnreachable(cond)}
    BY <1>5 DEF SettleRestored
  <2> QED BY <1>0, <2>1, CondTypes, KeysIs DEF ResetBoth, ResetUnreachable
<1>6. CASE ProbeFails \/ ProbeEmpty \/ ProbeOversize \/ ProbeChanged \/ WindowFetchFails \/ WindowFetch
  <2>1. PICK n : \/ cond' = cond
                 \/ cond' = Escalate(cond, Unreachable, n, LatchTicks)
                 \/ cond' = Escalate(Clear(cond, Unreachable), Oversize, n, LatchTicks)
                 \/ cond' = Clear(Clear(cond, Unreachable), Oversize)
                 \/ cond' = Clear(cond, Unreachable) \/ cond' = Clear(cond, Oversize)
    BY <1>6 DEF ProbeFails, ProbeEmpty, ProbeOversize, ProbeChanged, WindowFetchFails, WindowFetch,
       TickUnreadable, ResetBoth, ResetUnreachable
  <2>2. \A c \in Conds : \A m :
          /\ Escalate(c, Unreachable, m, LatchTicks) \in Conds
          /\ Escalate(c, Oversize, m, LatchTicks) \in Conds
          /\ Clear(c, Unreachable) \in Conds /\ Clear(c, Oversize) \in Conds
    BY CondTypes, KeysIs
  <2> QED BY <1>0, <2>1, <2>2
<1>7. CASE MappingOk
  BY <1>0, <1>7, CondTypes, KeysIs DEF MappingOk
<1>8. CASE MappingFails
  <2>1. PICK rejected : cond' = IF live THEN Escalate(cond, MappingRej, rejected, TickEscalation) ELSE cond
    BY <1>8 DEF MappingFails
  <2> QED BY <1>0, <2>1, CondTypes, KeysIs
<1>9. CASE Begin \/ End \/ Rest \/ Restart
  BY <1>0, <1>9 DEF Begin, End, Rest, Restart, Restate, Conds
<1>10. CASE \/ Walk \/ WalkFailed \/ WalkInterrupted \/ Fetch \/ LibraryGate \/ UpstreamGate
            \/ FinishInterruptedMatch \/ TickLoad \/ TickMatch \/ Cancel \/ CalmDown
  BY <1>0, <1>10 DEF Walk, WalkFailed, WalkInterrupted, Fetch, LibraryGate, UpstreamGate,
     FinishInterruptedMatch, TickLoad, TickMatch, Cancel, CalmDown
<1> QED BY <1>1, <1>2, <1>3, <1>4, <1>5, <1>6, <1>7, <1>8, <1>9, <1>10 DEF Next, Step, Reconcile, Tick

\* Every step keeps what the world may do among the troubles.
LEMMA TroublesStep ==
  ASSUME TypeOK, Next
  PROVE  TroublesKnown'
<1>0. TroublesKnown
  BY TypeIs
<1>1. CASE CalmDown
  BY <1>0, <1>1 DEF CalmDown, TroublesKnown
<1>2. weather' = weather => TroublesKnown'
  BY <1>0 DEF TroublesKnown
<1>3. CASE Begin \/ Reconcile \/ Tick
  BY <1>2, <1>3 DEF Begin, Reconcile, Tick, ReconcileLoad, Walk, WalkFailed, WalkInterrupted, Fetch,
     RecordSeaDexFetch, LibraryGate, MergeShrunkSides, UpstreamGate, FinishInterruptedMatch,
     FinishCompletedCycle, SettleRestored, ProbeFails, ProbeEmpty, ProbeOversize, ProbeChanged,
     TickLoad, WindowFetchFails, WindowFetch, TickMatch
<1>4. CASE MappingOk \/ MappingFails \/ End \/ Rest \/ Cancel \/ Restart
  BY <1>2, <1>4 DEF MappingOk, MappingFails, End, Rest, Cancel, Restart
<1> QED BY <1>1, <1>3, <1>4 DEF Next, Step

\* Every step keeps the types.
LEMMA TypeStep ==
  ASSUME TypeOK, LinesCounted, [Next]_vars
  PROVE  TypeOK'
<1>1. CASE Next
  BY <1>1, TypeNext, PassStep, RhythmStep, RunsStep, StoreStep, CondStep, TroublesStep DEF Stands
<1>2. CASE UNCHANGED vars
  BY <1>2 DEF vars, process, TypeOK, ReconcileEvery
<1> QED BY <1>1, <1>2

\* The first process starts with the types.
LEMMA TypeStart == Init => TypeOK
<1> SUFFICES ASSUME Init PROVE TypeOK
  OBVIOUS
<1>1. disk \in States /\ pass \in Passes /\ cond \in Conds
  BY EmptyTypes DEF Init, NewProcess
<1>2. Rhythm
  <2>1. every \in Cadences /\ iterations = 0
    BY DEF Init, NewProcess
  <2>2. 0 \in 0..(Max({1, every}) - 1)
    BY <2>1, EveryIs
  <2> QED BY <2>1, <2>2 DEF Rhythm, ReconcileEvery
<1>3. Runs
  <2>1. /\ 0 \in 0..LatchTicks /\ 0 \in 0..RetryLatch /\ 0 \in 0..ReconcileEscalation
    OBVIOUS
  <2> QED BY <2>1 DEF Runs, Init, NewProcess
<1>4. TroublesKnown
  BY MaxSize DEF Init, TroublesKnown, AllSizes
<1> QED BY <1>1, <1>2, <1>3, <1>4, TypeIs DEF Init, NewProcess, Stands

-----------------------------------------------------------------------------
(* Completion lines and logged conditions.                                     *)

\* What an exit changes of a pass, and what it leaves.
LEMMA ExitFields ==
  ASSUME NEW p \in Passes, NEW says, NEW ks
  PROVE  /\ LET q == Close(p, says) IN
            /\ q.pc = "end" /\ q.lines = p.lines + 1 /\ (says => q.emitted = p.emitted + 1)
            /\ (~says => q.emitted = p.emitted)
            /\ q.kind = p.kind /\ q.blocked = p.blocked /\ q.sea = p.sea /\ q.ended = p.ended
         /\ LET q == Interrupt(p) IN
            /\ q.pc = "end" /\ q.lines = p.lines /\ q.emitted = p.emitted
            /\ q.kind = p.kind /\ q.blocked = p.blocked /\ q.sea = p.sea /\ q.ended = p.ended
         /\ LET q == Ended(p, ks) IN
            /\ q.pc = p.pc /\ q.lines = p.lines /\ q.emitted = p.emitted /\ q.kind = p.kind
            /\ q.blocked = p.blocked /\ q.sea = p.sea /\ q.ended = p.ended \cup ks
            /\ q.st = p.st /\ q.snap = p.snap /\ q.walkErr = p.walkErr /\ q.suspects = p.suspects
            /\ q.aired = p.aired /\ q.rejected = p.rejected /\ q.usable = p.usable /\ q.partial = p.partial
<1>1. ASSUME NEW q, q = Close(p, says)
      PROVE  /\ q.pc = "end" /\ q.lines = p.lines + 1
             /\ q.emitted = p.emitted + (IF says THEN 1 ELSE 0)
             /\ q.kind = p.kind /\ q.blocked = p.blocked /\ q.sea = p.sea /\ q.ended = p.ended
  BY <1>1 DEF Passes, Close
<1>2. p.emitted + 0 = p.emitted
  BY PassFields
<1> QED BY <1>1, <1>2 DEF Passes, Interrupt, Ended

\* A stage of a pass that has not closed leads on, or closes it with its line.
Leads(p, q, says) ==
  \/ q.pc \notin {"end", "done"} /\ q.lines = p.lines /\ q.emitted = p.emitted
  \/ q.pc = "end" /\ q.lines = p.lines + 1
     /\ (says => q.emitted = p.emitted + 1) /\ (~says => q.emitted = p.emitted)
  \/ q.pc = "end" /\ q.lines = p.lines /\ q.emitted = p.emitted /\ ~live

\* Where a reconcile's steps lead.
LEMMA ReconcileLeads ==
  ASSUME TypeOK, StagesKinds, Reconcile
  PROVE  /\ ~Closed /\ pass.kind = "reconcile" /\ pass'.kind = "reconcile"
         /\ Leads(pass, pass', ready')
         /\ pass'.pc \in {"walk", "mapping", "record", "gate", "upstream", "match", "end"}
         /\ live' = live /\ (pass'.pc # "end" => ready' = ready)
<1> USE DEF process
<1>0. pass \in Passes
  BY TypeIs
<1>1. CASE ReconcileLoad
  BY <1>0, <1>1 DEF ReconcileLoad, Leads, Passes, StagesKinds, Closed
<1>2. CASE Walk
  BY <1>0, <1>2 DEF Walk, Leads, Passes, StagesKinds, Closed
<1>3. CASE WalkFailed
  <2>1. PICK st : LET p == [pass EXCEPT !.walkErr = TRUE, !.st = st] IN
                  pass' = [p EXCEPT !.pc = "mapping"] \/ pass' = Close(p, ready)
    BY <1>3 DEF WalkFailed
  <2>2. /\ pass'.kind = pass.kind
        /\ \/ pass'.pc = "mapping" /\ pass'.lines = pass.lines /\ pass'.emitted = pass.emitted
           \/ pass'.pc = "end" /\ pass'.lines = pass.lines + 1
              /\ (ready => pass'.emitted = pass.emitted + 1)
              /\ (~ready => pass'.emitted = pass.emitted)
    <3> DEFINE p == [pass EXCEPT !.walkErr = TRUE, !.st = st]
    <3>1. /\ p.kind = pass.kind /\ p.lines = pass.lines /\ p.emitted = pass.emitted
          /\ [p EXCEPT !.pc = "mapping"].pc = "mapping" /\ [p EXCEPT !.pc = "mapping"].kind = pass.kind
          /\ [p EXCEPT !.pc = "mapping"].lines = pass.lines /\ [p EXCEPT !.pc = "mapping"].emitted = pass.emitted
          /\ Close(p, ready).pc = "end" /\ Close(p, ready).kind = pass.kind
          /\ Close(p, ready).lines = pass.lines + 1
          /\ Close(p, ready).emitted = pass.emitted + (IF ready THEN 1 ELSE 0)
      BY <1>0 DEF Passes, Close
    <3>2. pass.emitted + 0 = pass.emitted
      BY <1>0, PassFields
    <3> QED BY <2>1, <3>1, <3>2
  <2> QED BY <1>3, <2>2 DEF WalkFailed, StagesKinds, Closed, Leads
<1>4. CASE WalkInterrupted \/ FinishInterruptedMatch
  BY <1>0, <1>4, ExitFields DEF WalkInterrupted, FinishInterruptedMatch, Leads, StagesKinds, Closed
<1>5. CASE Fetch
  BY <1>0, <1>5 DEF Fetch, Leads, Passes, StagesKinds, Closed
<1>6. CASE RecordSeaDexFetch
  BY <1>0, <1>6 DEF RecordSeaDexFetch, RecordFetchOk, RecordFetchFailed, Ended, Leads, Passes, StagesKinds, Closed
<1>7. CASE LibraryGate
  BY <1>0, <1>7, ExitFields DEF LibraryGate, Leads, StagesKinds, Closed
<1>8. CASE MergeShrunkSides
  BY <1>0, <1>8 DEF MergeShrunkSides, Ended, Leads, Passes, StagesKinds, Closed
<1>9. CASE UpstreamGate
  <2>1. \/ pass' = [pass EXCEPT !.pc = "match"]
        \/ pass' = Interrupt(pass) /\ ~live
        \/ pass' = Close(pass, ready)
    BY <1>9 DEF UpstreamGate, Shutdown
  <2>2. CASE pass' = [pass EXCEPT !.pc = "match"]
    BY <1>0, <1>9, <2>2 DEF UpstreamGate, Leads, Passes, StagesKinds, Closed
  <2>3. CASE pass' = Interrupt(pass) /\ ~live
    BY <1>0, <1>9, <2>3, ExitFields DEF UpstreamGate, Leads, StagesKinds, Closed
  <2>4. CASE pass' = Close(pass, ready)
    <3>1. pass.kind = "reconcile" /\ pass.pc = "upstream" /\ ready' = ready /\ live' = live
      BY <1>9 DEF UpstreamGate, StagesKinds
    <3> QED BY <1>0, <2>4, <3>1, ExitFields DEF Leads, Closed
  <2> QED BY <2>1, <2>2, <2>3, <2>4
<1>10. CASE FinishCompletedCycle
  BY <1>0, <1>10 DEF FinishCompletedCycle, Leads, Passes, StagesKinds, Closed, Ended, Close
<1> QED BY <1>1, <1>2, <1>3, <1>4, <1>5, <1>6, <1>7, <1>8, <1>9, <1>10 DEF Reconcile

\* Where a tick's steps lead.
LEMMA TickLeads ==
  ASSUME TypeOK, StagesKinds, Tick
  PROVE  /\ ~Closed /\ pass.kind = "tick" /\ pass'.kind = "tick"
         /\ Leads(pass, pass', ready)
         /\ pass'.pc \in {"tickload", "mapping", "match", "end"}
         /\ live' = live /\ ready' = ready
         /\ pass'.pc # "end" => ready
<1> USE DEF process
<1>0. pass \in Passes
  BY TypeIs
<1>1. CASE SettleRestored
  <2>1. PICK ks : pass' = Close(pass, FALSE) \/ pass' = Ended(Close(pass, FALSE), ks)
    BY <1>1 DEF SettleRestored
  <2>2. pass'.pc = "end" /\ pass'.lines = pass.lines + 1 /\ pass'.kind = pass.kind /\ pass'.emitted = pass.emitted + 0
    BY <1>0, <2>1 DEF Passes, Close, Ended
  <2>3. pass.emitted + 0 = pass.emitted
    BY <1>0, PassFields
  <2> QED BY <1>1, <2>2, <2>3 DEF SettleRestored, Leads, StagesKinds, Closed
<1>2. CASE ProbeFails
  BY <1>0, <1>2 DEF ProbeFails, TickUnreadable, Close, Interrupt, Leads, Passes, StagesKinds, Closed
<1>3. CASE ProbeEmpty \/ ProbeOversize
  BY <1>0, <1>3 DEF ProbeEmpty, ProbeOversize, Ended, Close, Leads, Passes, StagesKinds, Closed
<1>4. CASE ProbeChanged
  BY <1>0, <1>4 DEF ProbeChanged, Ended, Leads, Passes, StagesKinds, Closed
<1>5. CASE TickLoad
  BY <1>0, <1>5 DEF TickLoad, Leads, Passes, StagesKinds, Closed
<1>6. CASE WindowFetchFails
  BY <1>0, <1>6 DEF WindowFetchFails, TickUnreadable, Close, Interrupt, Leads, Passes, StagesKinds, Closed
<1>7. CASE WindowFetch
  BY <1>0, <1>7 DEF WindowFetch, Ended, Close, Leads, Passes, StagesKinds, Closed
<1>8. CASE TickMatch
  BY <1>0, <1>8 DEF TickMatch, Close, Interrupt, Leads, Passes, StagesKinds, Closed
<1> QED BY <1>1, <1>2, <1>3, <1>4, <1>5, <1>6, <1>7, <1>8 DEF Tick

\* Every step keeps the stages to their kind of pass and the lines counted.
LEMMA LinesStep ==
  ASSUME TypeOK, StagesKinds, LinesCounted, Next
  PROVE  StagesKinds' /\ LinesCounted'
<1> USE DEF process
<1>0. pass \in Passes
  BY TypeIs
<1>1. CASE Reconcile
  BY <1>1, ReconcileLeads DEF Leads, StagesKinds, LinesCounted, Closed
<1>2. CASE Tick
  BY <1>2, TickLeads DEF Leads, StagesKinds, LinesCounted, Closed
<1>3. CASE Begin
  BY <1>3 DEF Begin, NoPass, StagesKinds, LinesCounted, Closed
<1>4. CASE MappingOk
  BY <1>0, <1>4 DEF MappingOk, Ended, Passes, StagesKinds, LinesCounted, Closed
<1>5. CASE MappingFails
  BY <1>0, <1>5 DEF MappingFails, Passes, StagesKinds, LinesCounted, Closed
<1>6. CASE End
  BY <1>0, <1>6 DEF End, Passes, StagesKinds, LinesCounted, Closed
<1>7. CASE Rest \/ Restart
  BY <1>7 DEF Rest, Restart, NoPass, StagesKinds, LinesCounted, Closed
<1>8. CASE Cancel \/ CalmDown
  <2>1. CASE Cancel
    <3>1. pass' = pass /\ ready' = ready /\ ~live'
      BY <2>1 DEF Cancel
    <3> QED BY <3>1 DEF StagesKinds, LinesCounted, Closed
  <2>2. CASE CalmDown
    <3>1. pass' = pass /\ ready' = ready /\ live' = live
      BY <2>2 DEF CalmDown
    <3> QED BY <3>1 DEF StagesKinds, LinesCounted, Closed
  <2> QED BY <1>8, <2>1, <2>2
<1> QED BY <1>1, <1>2, <1>3, <1>4, <1>5, <1>6, <1>7, <1>8 DEF Next, Step

\* Observing, clearing and escalating leave no observed condition unlogged.
LEMMA CondsStated ==
  ASSUME NEW c \in Conds, c.observed \subseteq c.stated, NEW k
  PROVE  /\ Clear(c, k).observed \subseteq Clear(c, k).stated
         /\ Observe(c, k).observed \subseteq Observe(c, k).stated
         /\ \A n, t : Escalate(c, k, n, t).observed \subseteq Escalate(c, k, n, t).stated
BY DEF Conds, Clear, Observe, Escalate

\* Every step logs what it observes.
LEMMA ObservedStep ==
  ASSUME TypeOK, ObservedStated, Next
  PROVE  ObservedStated'
<1> USE DEF ObservedStated
<1>0. cond \in Conds
  BY TypeIs DEF Stands
<1>1. CASE ReconcileLoad
  BY <1>0, <1>1 DEF ReconcileLoad, RestoreStanding, Conds
<1>2. CASE RecordSeaDexFetch
  <2>1. PICK n : \/ cond' = Clear(Clear(cond, Catalogue), Unreachable)
                 \/ cond' = Escalate(cond, Catalogue, n, ReconcileEscalation)
                 \/ cond' = cond
    BY <1>2 DEF RecordSeaDexFetch, RecordFetchOk, RecordFetchFailed
  <2> QED BY <1>0, <2>1, CondTypes, CondsStated, KeysIs
<1>3. CASE MergeShrunkSides
  <2>1. PICK ends, stands :
          cond' = [standing |-> (cond.standing \ ends) \cup stands,
                   observed |-> (cond.observed \ ends) \cup stands,
                   stated   |-> cond.stated \cup stands]
    BY <1>3, Zenon DEF MergeShrunkSides
  <2> QED BY <1>0, <2>1 DEF Conds
<1>4. CASE FinishCompletedCycle
  <2>1. PICK ani, part : cond' = Escalate(Escalate(cond, AniList, ani, ReconcileEscalation),
                                          Partial, part, ReconcileEscalation)
    BY <1>4, Zenon DEF FinishCompletedCycle
  <2> QED BY <1>0, <2>1, CondTypes, CondsStated, KeysIs
<1>5. CASE SettleRestored
  <2>1. cond' \in {cond, ResetBoth(cond), ResetUnreachable(cond)}
    BY <1>5 DEF SettleRestored
  <2> QED BY <1>0, <2>1, CondTypes, CondsStated, KeysIs DEF ResetBoth, ResetUnreachable
<1>6. CASE ProbeFails \/ ProbeEmpty \/ ProbeOversize \/ ProbeChanged \/ WindowFetchFails \/ WindowFetch
  <2>1. PICK n : \/ cond' = cond
                 \/ cond' = Escalate(cond, Unreachable, n, LatchTicks)
                 \/ cond' = Escalate(Clear(cond, Unreachable), Oversize, n, LatchTicks)
                 \/ cond' = Clear(Clear(cond, Unreachable), Oversize)
                 \/ cond' = Clear(cond, Unreachable) \/ cond' = Clear(cond, Oversize)
    BY <1>6 DEF ProbeFails, ProbeEmpty, ProbeOversize, ProbeChanged, WindowFetchFails, WindowFetch,
       TickUnreadable, ResetBoth, ResetUnreachable
  <2> QED BY <1>0, <2>1, CondTypes, CondsStated, KeysIs
<1>7. CASE MappingOk
  BY <1>0, <1>7, CondsStated DEF MappingOk
<1>8. CASE MappingFails
  <2>1. PICK rejected : cond' = Escalate(cond, MappingRej, rejected, TickEscalation) \/ cond' = cond
    BY <1>8 DEF MappingFails
  <2> QED BY <1>0, <2>1, CondsStated
<1>9. CASE Begin \/ End \/ Rest \/ Restart
  <2>1. CASE Begin \/ Rest
    BY <1>0, <2>1 DEF Begin, Rest, Conds
  <2>2. CASE End
    BY <1>0, <2>2 DEF End, Restate, Conds
  <2>3. CASE Restart
    BY <2>3 DEF Restart, NoConds
  <2> QED BY <1>9, <2>1, <2>2, <2>3
<1>10. CASE \/ Walk \/ WalkFailed \/ WalkInterrupted \/ Fetch \/ LibraryGate \/ UpstreamGate
            \/ FinishInterruptedMatch \/ TickLoad \/ TickMatch \/ Cancel \/ CalmDown
  BY <1>0, <1>10 DEF Walk, WalkFailed, WalkInterrupted, Fetch, LibraryGate, UpstreamGate,
     FinishInterruptedMatch, TickLoad, TickMatch, Cancel, CalmDown
<1> QED BY <1>1, <1>2, <1>3, <1>4, <1>5, <1>6, <1>7, <1>8, <1>9, <1>10 DEF Next, Step, Reconcile, Tick

\* What ends a pass logs whatever stands, and no other step ends one.
LEMMA StatedStep ==
  ASSUME TypeOK, StagesKinds, ObservedStated, ConditionsStated, Next
  PROVE  ConditionsStated'
<1>0. pass \in Passes /\ cond \in Conds
  BY TypeIs DEF Stands
<1>1. CASE End
  BY <1>0, <1>1 DEF End, Restate, Conds, Passes, ObservedStated, ConditionsStated
<1>2. CASE Cancel
  BY <1>2 DEF Cancel, ConditionsStated
<1>3. CASE CalmDown
  BY <1>3 DEF CalmDown, ConditionsStated
<1>4. CASE Reconcile
  BY <1>4, ReconcileLeads DEF ConditionsStated
<1>5. CASE Tick
  BY <1>5, TickLeads DEF ConditionsStated
<1>6. CASE Begin \/ Rest \/ Restart
  <2>1. CASE Begin
    BY <2>1 DEF Begin, NoPass, ConditionsStated
  <2>2. CASE Rest \/ Restart
    <3>1. pass'.pc = "idle"
      BY <2>2 DEF Rest, Restart, NoPass
    <3> QED BY <3>1 DEF ConditionsStated
  <2> QED BY <1>6, <2>1, <2>2
<1>7. CASE MappingOk
  BY <1>0, <1>7 DEF MappingOk, Ended, Passes, ConditionsStated
<1>8. CASE MappingFails
  BY <1>0, <1>8 DEF MappingFails, Passes, ConditionsStated
<1> QED BY <1>1, <1>2, <1>3, <1>4, <1>5, <1>6, <1>7, <1>8 DEF Next, Step

\* What every pass preserves, whatever fails, is inductive.
LEMMA CoreStart == Init => CoreInv
<1> SUFFICES ASSUME Init PROVE CoreInv
  OBVIOUS
<1>1. /\ pass.pc = "idle" /\ pass.lines = 0 /\ pass.emitted = 0 /\ pass.kind = "none"
      /\ cond.observed = {} /\ cond.stated = {}
  BY DEF Init, NewProcess, NoPass, NoConds
<1> QED BY <1>1, TypeStart DEF CoreInv, StagesKinds, ObservedStated, ConditionsStated, LinesCounted, Closed

\* Every step preserves it.
LEMMA CoreStep == CoreInv /\ [Next]_vars => CoreInv'
<1> SUFFICES ASSUME CoreInv, [Next]_vars PROVE CoreInv'
  OBVIOUS
<1>1. CASE Next
  BY <1>1, TypeStep, LinesStep, ObservedStep, StatedStep DEF CoreInv
<1>2. CASE UNCHANGED vars
  <2>1. pass' = pass /\ cond' = cond /\ ready' = ready /\ live' = live
    BY <1>2 DEF vars, process
  <2> QED BY <2>1, TypeStep DEF CoreInv, StagesKinds, ObservedStated, ConditionsStated, LinesCounted, Closed
<1> QED BY <1>1, <1>2

(* Whatever the store, the library or the upstream does, the scheduler's state *)
(* keeps its types - no suspect's streak reaches acceptance, no pass closes    *)
(* twice - its stages stay with their kind of pass and its lines are counted.  *)
THEOREM CoreHolds == Spec => []CoreInv
<1> QED BY CoreStart, CoreStep, PTL DEF Spec

(* A pass no shutdown cut short has logged every condition that stands,        *)
(* whichever cadence observes it and whatever failed: the property of the      *)
(* log-based alert's one-pass lookback.                                        *)
THEOREM PassHolds == Spec => []PassInv
<1>1. CoreInv => PassInv
  BY DEF CoreInv, PassInv
<1> QED BY <1>1, CoreHolds, PTL

(* Every finished pass logs one completion line, with the whole finding set    *)
(* re-stated beside it exactly when the process has made one.                  *)
THEOREM LinesHold == Spec => []ClosesOnce
<1>1. CoreInv => ClosesOnce
  BY DEF CoreInv, LinesCounted, Closed, ClosesOnce
<1> QED BY <1>1, CoreHolds, PTL

-----------------------------------------------------------------------------
(* The shrink guard and the order set.                                         *)

\* A suspect arr is one whose saved library and streak say so.
LEMMA SuspectsSame ==
  ASSUME NEW s, NEW t, NEW snap, s.lib = t.lib, s.shrunk = t.shrunk
  PROVE  Suspects(s, snap) = Suspects(t, snap)
BY DEF Suspects, ShrinkStreak

\* A pass that is not at work holds nothing of the library.
LEMMA GuardSettled ==
  ASSUME pass'.pc \in Settled, pass'.pc = "load" => ~pass'.walkErr /\ pass'.suspects = {}
  PROVE  GuardInv'
BY DEF Settled, GuardInv, WalkFresh, LibraryRead, GuardHeld, OrdersHeld, Working

\* Nor is it touched by a step that leaves alone what the guard looks at.
GuardSees(p) == <<p.kind, p.blocked, p.walkErr, p.snap, p.suspects, p.aired, p.st.lib, p.st.shrunk, p.st.orders>>

\* A step that changes none of what the guard sees keeps what the pass holds.
LEMMA GuardKept ==
  ASSUME CoreInv, GuardInv, disk' = disk, GuardSees(pass') = GuardSees(pass),
         Working' => Working, pass'.pc = "walk" <=> pass.pc = "walk", Merged' <=> Merged,
         pass'.pc = "load" <=> pass.pc = "load",
         pass'.pc \in {"mapping", "fetch", "record", "gate"} => pass.pc \in {"mapping", "fetch", "record", "gate"}
  PROVE  GuardInv'
<1> USE DEF GuardInv, GuardSees
<1>1. Suspects(pass'.st, pass'.snap) = Suspects(pass.st, pass.snap)
  BY DEF Suspects, ShrinkStreak
<1>2. Walked' <=> Walked
  BY DEF Walked
<1>3. WalkFresh'
  BY DEF WalkFresh
<1>4. LibraryRead'
  BY <1>2 DEF LibraryRead
<1>5. GuardHeld'
  BY DEF GuardHeld
<1>6. OrdersHeld'
  BY <1>1, <1>2 DEF OrdersHeld
<1> QED BY <1>3, <1>4, <1>5, <1>6

\* What the passes' loads, walks and merges bring.
LEMMA GuardLoad ==
  ASSUME CoreInv, GuardInv, ReconcileLoad \/ TickLoad
  PROVE  GuardInv'
<1>0. pass \in Passes /\ StagesKinds
  BY TypeIs DEF CoreInv
<1>1. PICK st \in {disk, EmptyState}, blocked \in BOOLEAN :
        /\ LoadState(st, blocked)
        /\ \/ pass.pc = "load" /\ pass' = [pass EXCEPT !.pc = "walk", !.st = st, !.blocked = blocked]
           \/ pass.pc = "tickload" /\ pass' = [pass EXCEPT !.pc = "mapping", !.st = st, !.blocked = blocked]
  BY DEF ReconcileLoad, TickLoad
<1>2. ~blocked => st = disk'
  BY <1>1 DEF LoadState
<1>3. /\ pass'.st = st /\ pass'.blocked = blocked /\ pass'.kind = pass.kind
      /\ pass'.walkErr = pass.walkErr /\ pass'.suspects = pass.suspects
      /\ pass.kind = "reconcile" => pass.pc = "load"
      /\ pass.pc = "load" <=> pass'.pc = "walk"
      /\ pass'.pc \in {"walk", "mapping"}
  BY <1>0, <1>1 DEF Passes, StagesKinds
<1>4. ~Merged' /\ ~Walked'
  BY <1>3 DEF Merged, Walked
<1>5. WalkFresh'
  <2>1. CASE pass.pc = "load"
    BY <1>3, <2>1 DEF GuardInv, WalkFresh
  <2>2. CASE pass.pc # "load"
    BY <1>1, <1>3, <2>2 DEF GuardInv, WalkFresh
  <2> QED BY <2>1, <2>2
<1> QED BY <1>2, <1>3, <1>4, <1>5 DEF GuardInv, LibraryRead, GuardHeld, OrdersHeld, Working

\* A walk drops ids only when it read everything and found no arr suspect.
LEMMA GuardWalk ==
  ASSUME CoreInv, GuardInv, Walk
  PROVE  GuardInv'
<1>0. pass \in Passes /\ pass.st \in States /\ StagesKinds
  BY TypeIs, PassFields DEF CoreInv
<1>1. PICK snap \in WalkSizes, partial \in BOOLEAN, clean \in BOOLEAN,
           nonAired \in SUBSET OrderIds, aired \in SUBSET OrderIds :
        /\ (partial \/ ~clean) => FaultNow("partial")
        /\ pass' = [pass EXCEPT !.pc = "mapping", !.snap = snap, !.partial = partial,
                      !.aired = IF clean THEN aired ELSE {},
                      !.st.orders = NextOrderSet(pass.st, snap, nonAired, aired, clean)]
  BY Zenon DEF Walk
<1>2. PICK orders, seen : orders = NextOrderSet(pass.st, snap, nonAired, aired, clean)
                          /\ seen = (IF clean THEN aired ELSE {})
  OBVIOUS
<1>3. pass' = [pass EXCEPT !.pc = "mapping", !.snap = snap, !.partial = partial,
                 !.aired = seen, !.st.orders = orders]
  BY <1>1, <1>2
<1>4. /\ pass'.pc = "mapping" /\ pass'.kind = "reconcile" /\ pass'.blocked = pass.blocked
      /\ pass'.walkErr = FALSE /\ pass'.suspects = {} /\ pass'.aired = seen /\ pass'.snap = snap
      /\ pass'.st.lib = pass.st.lib /\ pass'.st.shrunk = pass.st.shrunk /\ pass'.st.orders = orders
      /\ disk' = disk /\ pass.pc = "walk" /\ pass.kind = "reconcile"
  BY <1>0, <1>3 DEF Passes, States, StagesKinds, GuardInv, WalkFresh, Walk
<1>5. ~pass.blocked => pass.st.lib = disk.lib /\ pass.st.shrunk = disk.shrunk /\ pass.st.orders = disk.orders
  BY <1>4 DEF GuardInv, LibraryRead, Working, Merged, Walked
<1>6. /\ pass.st.orders \ orders \subseteq seen
      /\ Suspects(pass.st, snap) # {} => pass.st.orders \subseteq orders
  BY <1>2 DEF NextOrderSet, Joined, Released
<1>7. Suspects(pass'.st, pass'.snap) = Suspects(pass.st, snap)
  BY <1>4, SuspectsSame
<1>8. ~Merged' /\ Walked' /\ (Working' => ~pass.blocked)
  BY <1>4 DEF Merged, Walked, Working
<1> QED BY <1>4, <1>5, <1>6, <1>7, <1>8 DEF GuardInv, WalkFresh, LibraryRead, GuardHeld, OrdersHeld

\* A walk that failed or was cut short only adds ids.
LEMMA GuardWalkFailed ==
  ASSUME CoreInv, GuardInv, WalkFailed
  PROVE  GuardInv'
<1>0. pass \in Passes /\ pass.st \in States /\ StagesKinds
  BY TypeIs, PassFields DEF CoreInv
<1>1. PICK nonAired \in SUBSET OrderIds :
        LET st == [pass.st EXCEPT !.orders = Joined(pass.st.orders, nonAired)]
            p  == [pass EXCEPT !.walkErr = TRUE, !.st = st] IN
        \/ pass' = [p EXCEPT !.pc = "mapping"] /\ UNCHANGED <<disk, persistedStanding>>
        \/ pass' = Close(p, ready)
  BY DEF WalkFailed
<1> DEFINE st == [pass.st EXCEPT !.orders = Joined(pass.st.orders, nonAired)]
           p  == [pass EXCEPT !.walkErr = TRUE, !.st = st]
<1>2. /\ st.lib = pass.st.lib /\ st.shrunk = pass.st.shrunk /\ pass.st.orders \subseteq st.orders
  BY <1>0 DEF States, Joined
<1> HIDE DEF st
<1>3. CASE pass' = Close(p, ready)
  <2>1. pass'.pc = "end"
    BY <1>0, <1>3 DEF Close, Passes
  <2> QED BY <2>1, GuardSettled DEF Settled
<1>4. CASE pass' = [p EXCEPT !.pc = "mapping"] /\ disk' = disk
  <2>1. /\ pass'.pc = "mapping" /\ pass'.kind = "reconcile" /\ pass'.blocked = pass.blocked
        /\ pass'.walkErr = TRUE /\ pass'.suspects = {} /\ pass'.st = st
        /\ pass.pc = "walk" /\ pass.kind = "reconcile"
    BY <1>0, <1>4 DEF Passes, StagesKinds, GuardInv, WalkFresh, WalkFailed
  <2>2. ~pass.blocked => pass.st.lib = disk.lib /\ pass.st.shrunk = disk.shrunk /\ pass.st.orders = disk.orders
    BY <2>1 DEF GuardInv, LibraryRead, Working, Merged, Walked
  <2>3. ~Merged' /\ Walked' /\ (Working' => ~pass.blocked)
    BY <2>1 DEF Merged, Walked, Working
  <2> QED BY <1>2, <1>4, <2>1, <2>2, <2>3 DEF GuardInv, WalkFresh, LibraryRead, GuardHeld, OrdersHeld
<1> QED BY <1>1, <1>3, <1>4 DEF st

\* What a merge takes is what the guard lets through.
LEMMA GuardMerge ==
  ASSUME CoreInv, GuardInv, MergeShrunkSides
  PROVE  GuardInv'
<1>0. pass \in Passes /\ pass.st \in States /\ StagesKinds
  BY TypeIs, PassFields DEF CoreInv
<1> DEFINE suspects == Suspects(pass.st, pass.snap)
           shrunk   == [a \in Arrs |-> IF a \in suspects THEN ShrinkStreak(pass.st, pass.snap, a) ELSE 0]
           snap     == CarryPriorItems(pass.snap, pass.st.lib, suspects)
           ended    == {ShrunkOf(a) : a \in Arrs \ suspects}
<1>1. pass' = Ended([pass EXCEPT !.pc = "upstream", !.suspects = suspects,
                       !.snap = snap, !.st.shrunk = shrunk], ended)
  BY DEF MergeShrunkSides
<1> HIDE DEF suspects, shrunk, snap, ended
<1>2. /\ pass'.pc = "upstream" /\ pass'.kind = "reconcile" /\ pass'.blocked = pass.blocked
      /\ ~pass'.walkErr /\ pass'.suspects = suspects /\ pass'.aired = pass.aired /\ pass'.snap = snap
      /\ pass'.st.lib = pass.st.lib /\ pass'.st.orders = pass.st.orders
      /\ disk' = disk /\ pass.pc = "gate" /\ pass.kind = "reconcile" /\ ~pass.walkErr
  <2>1. disk' = disk /\ pass.pc = "gate" /\ pass.kind = "reconcile" /\ ~pass.walkErr
    BY <1>0 DEF MergeShrunkSides, StagesKinds
  <2>2. PICK st : st = [pass.st EXCEPT !.shrunk = shrunk]
    OBVIOUS
  <2>3. pass' = Ended([pass EXCEPT !.pc = "upstream", !.suspects = suspects, !.snap = snap, !.st = st], ended)
    BY <1>1, <2>2
  <2>4. st.lib = pass.st.lib /\ st.orders = pass.st.orders
    BY <1>0, <2>2 DEF States
  <2> QED BY <1>0, <2>1, <2>3, <2>4 DEF Passes, Ended
<1>3. ~pass.blocked => /\ pass.st.lib = disk.lib /\ pass.st.shrunk = disk.shrunk
                       /\ disk.orders \ pass.st.orders \subseteq pass.aired
                       /\ suspects # {} => disk.orders \subseteq pass.st.orders
  BY <1>2 DEF GuardInv, LibraryRead, OrdersHeld, Working, Merged, Walked, suspects
<1>4. ASSUME NEW a \in Arrs, SuspectWalk(snap[a], pass.st.lib[a])
      PROVE  pass.st.shrunk[a] + 1 >= ShrunkAccept
  <2>1. pass.st.lib[a] \in Nat /\ pass.st.shrunk[a] \in Nat
    <3>1. pass.st.lib \in [Arrs -> Sizes \cup {0}] /\ pass.st.shrunk \in [Arrs -> 0..(ShrunkAccept - 1)]
      BY <1>0 DEF States
    <3>2. pass.st.lib[a] \in Sizes \cup {0} /\ pass.st.shrunk[a] \in 0..(ShrunkAccept - 1)
      BY <3>1
    <3>3. 0..(ShrunkAccept - 1) \subseteq Nat /\ Sizes \cup {0} \subseteq Nat
      OBVIOUS
    <3> QED BY <3>2, <3>3
  <2>2. snap[a] = IF a \in suspects THEN pass.st.lib[a] ELSE pass.snap[a]
    BY DEF snap, CarryPriorItems
  <2>3. a \notin suspects
    BY <1>4, <2>1, <2>2 DEF SuspectWalk
  <2>4. pass.st.shrunk[a] + 1 \notin 1..(ShrunkAccept - 1)
    BY <1>4, <2>2, <2>3 DEF suspects, Suspects, ShrinkStreak
  <2> QED BY <2>1, <2>4
<1>5. Merged' /\ Walked' /\ (Working' => ~pass.blocked)
  BY <1>2 DEF Merged, Walked, Working
<1> QED BY <1>2, <1>3, <1>4, <1>5 DEF GuardInv, WalkFresh, LibraryRead, GuardHeld, OrdersHeld

\* No step lets the pass at work take of the library what the guard withholds.
LEMMA GuardStep ==
  ASSUME CoreInv, GuardInv, Next
  PROVE  GuardInv'
<1> USE DEF GuardSees
<1>0. pass \in Passes /\ pass.st \in States /\ StagesKinds /\ TypeOK
  BY TypeIs, PassFields DEF CoreInv
<1>1. CASE Begin
  <2>1. pass'.pc \in {"load", "probe", "settle"} /\ ~pass'.walkErr /\ pass'.suspects = {}
    BY <1>1 DEF Begin, NoPass
  <2> QED BY <2>1, GuardSettled DEF Settled
<1>2. CASE WalkInterrupted \/ LibraryGate \/ FinishInterruptedMatch \/ FinishCompletedCycle
             \/ SettleRestored \/ ProbeFails \/ ProbeEmpty \/ ProbeOversize \/ ProbeChanged
             \/ WindowFetchFails \/ TickMatch \/ End \/ Rest \/ Restart
  <2>1. pass'.pc \in {"end", "tickload", "done", "idle"}
    <3>1. CASE WalkInterrupted \/ LibraryGate \/ FinishInterruptedMatch
      BY <1>0, <3>1 DEF WalkInterrupted, LibraryGate, FinishInterruptedMatch, Close, Interrupt, Passes
    <3>2. CASE FinishCompletedCycle
      BY <1>0, <3>2 DEF FinishCompletedCycle, Ended, Close, Passes
    <3>3. CASE SettleRestored
      BY <1>0, <3>3 DEF SettleRestored, Ended, Close, Passes
    <3>4. CASE ProbeFails \/ WindowFetchFails \/ TickMatch
      BY <1>0, <3>4 DEF ProbeFails, WindowFetchFails, TickMatch, TickUnreadable, Close, Interrupt, Passes
    <3>5. CASE ProbeEmpty \/ ProbeOversize \/ ProbeChanged
      BY <1>0, <3>5 DEF ProbeEmpty, ProbeOversize, ProbeChanged, Ended, Close, Passes
    <3>6. CASE End \/ Rest \/ Restart
      BY <1>0, <3>6 DEF End, Rest, Restart, NoPass, Passes
    <3> QED BY <1>2, <3>1, <3>2, <3>3, <3>4, <3>5, <3>6
  <2> QED BY <2>1, GuardSettled DEF Settled
<1>3. CASE MappingOk
  <2>1. /\ GuardSees(pass') = GuardSees(pass) /\ pass'.pc = "fetch" /\ pass.pc = "mapping" /\ disk' = disk
    BY <1>0, <1>3 DEF MappingOk, Ended, Passes
  <2> QED BY <2>1, GuardKept DEF Working, Merged
<1>4. CASE MappingFails
  <2>1. /\ GuardSees(pass') = GuardSees(pass) /\ pass'.pc = "fetch" /\ pass.pc = "mapping" /\ disk' = disk
    BY <1>0, <1>4 DEF MappingFails, Passes
  <2> QED BY <2>1, GuardKept DEF Working, Merged
<1>5. CASE Fetch
  <2>1. /\ GuardSees(pass') = GuardSees(pass) /\ pass'.pc = "record" /\ pass.pc = "fetch" /\ disk' = disk
    BY <1>0, <1>5 DEF Fetch, Passes
  <2> QED BY <2>1, GuardKept DEF Working, Merged
<1>6. CASE RecordSeaDexFetch
  <2>1. PICK n : \/ pass' = Ended([pass EXCEPT !.pc = "gate", !.st.seadexFailures = n], {Catalogue, Unreachable})
                 \/ pass' = [pass EXCEPT !.pc = "gate", !.st.seadexFailures = n]
                 \/ pass' = [pass EXCEPT !.pc = "gate", !.sea = "cancelled"]
    BY <1>6 DEF RecordSeaDexFetch, RecordFetchOk, RecordFetchFailed
  <2>2. /\ GuardSees(pass') = GuardSees(pass) /\ pass'.pc = "gate" /\ pass.pc = "record" /\ disk' = disk
    <3>1. PICK st : st = [pass.st EXCEPT !.seadexFailures = n]
      OBVIOUS
    <3>2. \/ pass' = Ended([pass EXCEPT !.pc = "gate", !.st = st], {Catalogue, Unreachable})
          \/ pass' = [pass EXCEPT !.pc = "gate", !.st = st]
          \/ pass' = [pass EXCEPT !.pc = "gate", !.sea = "cancelled"]
      BY <2>1, <3>1
    <3>3. st.lib = pass.st.lib /\ st.shrunk = pass.st.shrunk /\ st.orders = pass.st.orders
      BY <1>0, <3>1 DEF States
    <3>4. pass.pc = "record" /\ disk' = disk
      BY <1>6 DEF RecordSeaDexFetch
    <3> QED BY <1>0, <3>2, <3>3, <3>4 DEF Ended, Passes
  <2> QED BY <2>2, GuardKept DEF Working, Merged
<1>7. CASE UpstreamGate
  <2>1. \/ pass' = [pass EXCEPT !.pc = "match"] /\ disk' = disk
        \/ pass' = Interrupt(pass) \/ pass' = Close(pass, ready)
    BY <1>7 DEF UpstreamGate
  <2>2. CASE pass' = [pass EXCEPT !.pc = "match"] /\ disk' = disk
    <3>1. /\ GuardSees(pass') = GuardSees(pass) /\ pass'.pc = "match" /\ pass.pc = "upstream" /\ disk' = disk
      BY <1>0, <1>7, <2>2 DEF UpstreamGate, Passes
    <3> QED BY <3>1, GuardKept DEF Working, Merged
  <2>3. CASE pass' = Interrupt(pass) \/ pass' = Close(pass, ready)
    BY <1>0, <2>3, ExitFields, GuardSettled DEF Settled
  <2> QED BY <2>1, <2>2, <2>3
<1>8. CASE WindowFetch
  <2>1. \/ pass' = [Ended(pass, {Unreachable}) EXCEPT !.pc = "match"] /\ disk' = disk
        \/ pass'.pc = "end"
    <3>1. \/ pass' = [Ended(pass, {Unreachable}) EXCEPT !.pc = "match"] /\ disk' = disk
          \/ pass' = Close(Ended(pass, {Unreachable}), TRUE)
      BY <1>8 DEF WindowFetch
    <3> QED BY <1>0, <3>1 DEF Close, Ended, Passes
  <2>2. CASE pass'.pc = "end"
    BY <2>2, GuardSettled DEF Settled
  <2>3. CASE pass' = [Ended(pass, {Unreachable}) EXCEPT !.pc = "match"] /\ disk' = disk
    <3>1. /\ GuardSees(pass') = GuardSees(pass) /\ pass'.pc = "match" /\ pass.pc = "fetch" /\ disk' = disk
          /\ pass.kind = "tick" /\ pass'.kind = "tick"
      BY <1>0, <1>8, <2>3 DEF WindowFetch, Ended, Passes
    <3> QED BY <3>1, GuardKept DEF Working, Merged
  <2> QED BY <2>1, <2>2, <2>3
<1>9. CASE Cancel \/ CalmDown
  BY <1>9, GuardKept DEF Cancel, CalmDown, Working, Merged
<1> QED BY <1>1, <1>2, <1>3, <1>4, <1>5, <1>6, <1>7, <1>8, <1>9, GuardLoad, GuardWalk, GuardWalkFailed,
           GuardMerge DEF Next, Step, Reconcile, Tick

\* What a save leaves of the library and the order set.
LEMMA SaveLeaves ==
  ASSUME NEW st \in States, NEW standing, NEW blocked, Save(st, standing, blocked)
  PROVE  disk' = disk \/ (~blocked /\ disk'.lib = st.lib /\ disk'.orders = st.orders)
<1>1. [st EXCEPT !.standing = standing].lib = st.lib /\ [st EXCEPT !.standing = standing].orders = st.orders
  BY DEF States
<1> QED BY <1>1 DEF Save, SaveDone

\* The saved library moves when state.json is lost or by a merged walk's save.
LibraryMoves ==
  \/ StateLost
  \/ disk'.lib = disk.lib /\ disk.orders \subseteq disk'.orders
  \/ Working /\ Merged /\ disk'.lib = pass.snap /\ disk'.orders = pass.st.orders

\* No step moves the saved library or order set but the save of a merged reconcile, which takes its walk.
LEMMA LibraryStep ==
  ASSUME CoreInv, GuardInv, [Next]_vars
  PROVE  LibraryMoves
<1>0. /\ pass \in Passes /\ pass.st \in States /\ disk \in States /\ StagesKinds /\ TypeOK
      /\ WithMapping(pass.st) \in States /\ WithWalk(pass.st) \in States
  BY TypeIs, PassFields, WithTypes DEF CoreInv
<1>1. disk' = disk => LibraryMoves
  BY DEF LibraryMoves
<1>2. disk' = EmptyState => LibraryMoves
  BY EmptyTypes DEF LibraryMoves, StateLost, States, EmptyState
<1>3. /\ WithMapping(pass.st).lib = pass.st.lib /\ WithMapping(pass.st).orders = pass.st.orders
      /\ WithWalk(pass.st).lib = pass.snap /\ WithWalk(pass.st).orders = pass.st.orders
  BY <1>0 DEF WithMapping, WithWalk, States
<1>4. CASE ReconcileLoad \/ TickLoad
  BY <1>1, <1>2, <1>4 DEF ReconcileLoad, TickLoad, LoadState
<1>5. CASE WalkInterrupted \/ WalkFailed
  <2>1. PICK nonAired \in SUBSET OrderIds :
          \/ UNCHANGED <<disk, persistedStanding>>
          \/ Save([pass.st EXCEPT !.orders = Joined(pass.st.orders, nonAired)], cond.standing, pass.blocked)
    BY <1>5 DEF WalkInterrupted, WalkFailed
  <2> DEFINE st == [pass.st EXCEPT !.orders = Joined(pass.st.orders, nonAired)]
  <2>2. st \in States /\ st.lib = pass.st.lib /\ pass.st.orders \subseteq st.orders
    BY <1>0, OrdersTyped DEF States, Joined
  <2>3. ~pass.blocked => pass.st.lib = disk.lib /\ pass.st.orders = disk.orders
    BY <1>5 DEF WalkInterrupted, WalkFailed, GuardInv, LibraryRead, Working, Walked
  <2> HIDE DEF st
  <2>4. UNCHANGED disk \/ Save(st, cond.standing, pass.blocked)
    BY <2>1 DEF st
  <2>5. disk' = disk \/ (~pass.blocked /\ disk'.lib = st.lib /\ disk'.orders = st.orders)
    BY <2>2, <2>4, SaveLeaves
  <2> QED BY <1>1, <2>2, <2>3, <2>5 DEF LibraryMoves
<1>6. CASE LibraryGate
  <2>1. Save(WithMapping(pass.st), cond.standing, pass.blocked) /\ pass.pc = "gate" /\ pass.walkErr
    BY <1>6 DEF LibraryGate
  <2>2. disk' = disk \/ (~pass.blocked /\ disk'.lib = pass.st.lib /\ disk'.orders = pass.st.orders)
    BY <1>0, <1>3, <2>1, SaveLeaves
  <2>3. ~pass.blocked => pass.st.lib = disk.lib /\ disk.orders \subseteq pass.st.orders
    BY <1>0, <2>1 DEF GuardInv, LibraryRead, OrdersHeld, Working, Walked, StagesKinds
  <2> QED BY <1>1, <2>2, <2>3 DEF LibraryMoves
<1>7. CASE UpstreamGate \/ FinishInterruptedMatch
  <2>1. /\ disk' = disk \/ Save(WithWalk(pass.st), cond.standing, pass.blocked)
        /\ pass.pc \in {"upstream", "match"} /\ pass.kind = "reconcile"
    BY <1>0, <1>7 DEF UpstreamGate, FinishInterruptedMatch, StagesKinds
  <2>2. disk' = disk \/ (~pass.blocked /\ disk'.lib = pass.snap /\ disk'.orders = pass.st.orders)
    BY <1>0, <1>3, <2>1, SaveLeaves
  <2> QED BY <1>1, <2>1, <2>2 DEF LibraryMoves, Working, Merged
<1>8. CASE FinishCompletedCycle
  <2>1. PICK ani, part, standing :
          Save([WithWalk(pass.st) EXCEPT !.aniListDegraded = ani, !.partialWalks = part], standing, pass.blocked)
    BY <1>8, Zenon DEF FinishCompletedCycle
  <2>2. PICK st : /\ st = [WithWalk(pass.st) EXCEPT !.aniListDegraded = ani, !.partialWalks = part]
                  /\ Save(st, standing, pass.blocked)
    BY <2>1
  <2>3. pass.pc = "match" /\ pass.kind = "reconcile"
    BY <1>8 DEF FinishCompletedCycle
  <2>4. [st EXCEPT !.standing = standing].lib = pass.snap /\ [st EXCEPT !.standing = standing].orders = pass.st.orders
    BY <1>0, <1>3, <2>2 DEF States
  <2> QED BY <1>1, <2>2, <2>3, <2>4 DEF LibraryMoves, Working, Merged, Save, SaveDone
<1>9. CASE WindowFetchFails \/ WindowFetch \/ TickMatch
  <2>1. PICK standing : disk' = disk \/ Save(WithMapping(pass.st), standing, pass.blocked)
    BY <1>9 DEF WindowFetchFails, WindowFetch, TickMatch, SaveTick
  <2>2. disk' = disk \/ (~pass.blocked /\ disk'.lib = pass.st.lib /\ disk'.orders = pass.st.orders)
    BY <1>0, <1>3, <2>1, SaveLeaves
  <2>3. ~pass.blocked => pass.st.lib = disk.lib /\ pass.st.orders = disk.orders
    BY <1>9 DEF WindowFetchFails, WindowFetch, TickMatch, GuardInv, LibraryRead, Working, Walked
  <2> QED BY <1>1, <2>2, <2>3 DEF LibraryMoves
<1>10. CASE End
  <2>1. \/ disk' = disk \/ disk' = [disk EXCEPT !.standing = cond.standing]
        \/ disk' = [EmptyState EXCEPT !.standing = cond.standing]
    BY <1>10 DEF End, PersistStanding, SaveDone
  <2>2. CASE disk' = [disk EXCEPT !.standing = cond.standing]
    <3>1. disk'.lib = disk.lib /\ disk'.orders = disk.orders
      BY <1>0, <2>2 DEF States
    <3> QED BY <3>1 DEF LibraryMoves
  <2>3. CASE disk' = [EmptyState EXCEPT !.standing = cond.standing]
    <3>1. disk'.standing = cond.standing
      BY <2>3, EmptyTypes DEF States
    <3> QED BY <2>3, <3>1 DEF LibraryMoves, StateLost
  <2> QED BY <1>1, <2>1, <2>2, <2>3
<1>11. CASE \/ Begin \/ Walk \/ Fetch \/ RecordSeaDexFetch \/ MergeShrunkSides
            \/ SettleRestored \/ ProbeFails \/ ProbeEmpty \/ ProbeOversize \/ ProbeChanged
            \/ MappingOk \/ MappingFails \/ Rest \/ Restart \/ Cancel \/ CalmDown \/ UNCHANGED vars
  BY <1>1, <1>11 DEF Begin, Walk, Fetch, RecordSeaDexFetch, MergeShrunkSides, SettleRestored,
     ProbeFails, ProbeEmpty, ProbeOversize, ProbeChanged, MappingOk, MappingFails, Rest, Restart,
     Cancel, CalmDown, vars
<1> QED BY <1>4, <1>5, <1>6, <1>7, <1>8, <1>9, <1>10, <1>11 DEF Next, Step, Reconcile, Tick

\* What a pass at work holds of the library is inductive.
LEMMA GuardStart == Init => GuardInv
<1> SUFFICES ASSUME Init PROVE GuardInv
  OBVIOUS
<1>1. pass.pc = "idle"
  BY DEF Init, NewProcess, NoPass
<1> QED BY <1>1 DEF GuardInv, WalkFresh, LibraryRead, GuardHeld, OrdersHeld, Working

\* Every step preserves it.
LEMMA GuardNext == CoreInv /\ GuardInv /\ [Next]_vars => GuardInv'
<1> SUFFICES ASSUME CoreInv, GuardInv, [Next]_vars PROVE GuardInv'
  OBVIOUS
<1>1. CASE UNCHANGED vars
  BY <1>1, GuardKept DEF vars, Working, Merged
<1> QED BY <1>1, GuardStep

\* In every behaviour, what the pass at work took of the library the guard let through.
LEMMA GuardHolds == Spec => [](CoreInv /\ GuardInv)
<1> QED BY GuardStart, GuardNext, CoreStart, CoreStep, PTL DEF Spec

(* The saved library of an arr loses more than half its items only once the    *)
(* saved streak stands one short of acceptance, or state.json itself is lost:  *)
(* for any arrs, sizes and thresholds, and whatever fails in between.          *)
THEOREM LibraryGuarded == Spec => ShrinkGuarded
<1>1. CoreInv /\ GuardInv /\ [Next]_vars =>
        [\A a \in Arrs : SuspectWalk(disk'.lib[a], disk.lib[a])
                           => disk.shrunk[a] + 1 >= ShrunkAccept \/ StateLost]_vars
  <2> SUFFICES ASSUME CoreInv, GuardInv, [Next]_vars, NEW a \in Arrs,
                      SuspectWalk(disk'.lib[a], disk.lib[a]), ~StateLost
               PROVE  disk.shrunk[a] + 1 >= ShrunkAccept
    OBVIOUS
  <2>1. disk.lib[a] \in Nat
    <3>1. disk.lib \in [Arrs -> Sizes \cup {0}] /\ Sizes \cup {0} \subseteq Nat
      BY TypeIs DEF CoreInv, States
    <3> QED BY <3>1
  <2>2. ~SuspectWalk(disk.lib[a], disk.lib[a])
    BY <2>1 DEF SuspectWalk
  <2>3. Working /\ Merged /\ disk'.lib = pass.snap
    BY <2>2, LibraryStep DEF LibraryMoves
  <2> QED BY <2>3 DEF GuardInv, GuardHeld
<1> QED BY <1>1, GuardHolds, PTL DEF Spec, ShrinkGuarded

(* A series leaves the saved order set only on a walk that read everything,    *)
(* listed it in aired order, and whose library no guard replaced, or with      *)
(* state.json itself.                                                          *)
THEOREM OrdersGuarded == Spec => OrdersReleased
<1>1. CoreInv /\ GuardInv /\ [Next]_vars =>
        [disk.orders \ disk'.orders # {} =>
           (pass.suspects = {} /\ disk.orders \ disk'.orders \subseteq pass.aired) \/ StateLost]_vars
  <2> SUFFICES ASSUME CoreInv, GuardInv, [Next]_vars, disk.orders \ disk'.orders # {}, ~StateLost
               PROVE  pass.suspects = {} /\ disk.orders \ disk'.orders \subseteq pass.aired
    OBVIOUS
  <2>1. Working /\ Merged /\ disk'.orders = pass.st.orders
    BY LibraryStep DEF LibraryMoves
  <2> QED BY <2>1 DEF GuardInv, OrdersHeld, Merged, Walked
<1> QED BY <1>1, GuardHolds, PTL DEF Spec, OrdersReleased

-----------------------------------------------------------------------------
(* Standing conditions and streaks, while the store can be read and written.   *)

Streaks(s) == <<s.seadexFailures, s.aniListDegraded, s.partialWalks, s.rejected, s.shrunk>>

\* A reliable store fails no load and no save.
LEMMA NoStoreFault ==
  ASSUME StoreReliable, TypeOK
  PROVE  ~FaultNow("load") /\ ~FaultNow("save")
<1>1. weather.faults \in Troubles
  BY TypeIs DEF TroublesKnown
<1> QED BY <1>1 DEF StoreReliable, FaultNow

\* What a reliable store loads and saves.
LEMMA LoadGives ==
  ASSUME StoreReliable, TypeOK, NEW st, NEW blocked, LoadState(st, blocked)
  PROVE  disk' = disk /\ (~blocked => st = disk) /\ (blocked => ~live)
BY NoStoreFault DEF LoadState

\* A reliable save stores the streaks and the standing set it is given, or is refused a blocked pass.
LEMMA SaveGives ==
  ASSUME StoreReliable, TypeOK, NEW st \in States, NEW standing \in SUBSET Keys, NEW blocked,
         Save(st, standing, blocked)
  PROVE  /\ blocked => disk' = disk /\ persistedStanding' = persistedStanding
         /\ ~blocked => /\ Streaks(disk') = Streaks(st) /\ disk'.standing = standing
                        /\ persistedStanding' = standing
<1>1. Streaks([st EXCEPT !.standing = standing]) = Streaks(st) /\ [st EXCEPT !.standing = standing].standing = standing
  BY DEF States, Streaks
<1> QED BY <1>1, NoStoreFault DEF Save, SaveDone

\* The keys of the conditions differ.
LEMMA KeysApart ==
  /\ Unreachable # Oversize
  /\ TickKeys \cap {Catalogue, MappingRej, AniList, Partial} = {}
  /\ Catalogue # MappingRej /\ Catalogue # AniList /\ Catalogue # Partial
  /\ MappingRej # AniList /\ MappingRej # Partial /\ AniList # Partial
  /\ \A a \in Arrs : /\ ShrunkOf(a) \notin TickKeys
                     /\ ShrunkOf(a) \notin {Catalogue, MappingRej, AniList, Partial}
                     /\ \A b \in Arrs : ShrunkOf(a) = ShrunkOf(b) => a = b
BY DEF Unreachable, Oversize, TickKeys, Catalogue, MappingRej, AniList, Partial, ShrunkOf

\* Window conditions rest on no saved streak.
LEMMA BackedSame ==
  ASSUME NEW S, NEW T, NEW s, NEW t, Backed(S, s), T \ TickKeys = S \ TickKeys, Streaks(t) = Streaks(s)
  PROVE  Backed(T, t)
<1>1. \A k : k \notin TickKeys => (k \in T <=> k \in S)
  OBVIOUS
<1>2. \A k \in {Catalogue, MappingRej, AniList, Partial} \cup {ShrunkOf(a) : a \in Arrs} : k \in T <=> k \in S
  BY <1>1, KeysApart
<1> QED BY <1>2 DEF Backed, Streaks

\* Where a load leaves a pass.
LEMMA LoadLeaves ==
  ASSUME StoreReliable, TypeOK, StagesKinds, ReconcileLoad \/ TickLoad
  PROVE  \E st \in {disk, EmptyState} :
           /\ pass'.st = st /\ (~pass'.blocked => st = disk) /\ (pass'.blocked => ~live) /\ disk' = disk
           /\ pass'.kind = pass.kind /\ pass'.sea = pass.sea /\ pass'.ended = pass.ended /\ live' = live
           /\ \/ ReconcileLoad /\ pass.pc = "load" /\ pass'.pc = "walk" /\ pass.kind = "reconcile"
              \/ TickLoad /\ pass.pc = "tickload" /\ pass'.pc = "mapping" /\ pass.kind = "tick"
<1>0. pass \in Passes
  BY TypeIs
<1>1. PICK st \in {disk, EmptyState}, blocked \in BOOLEAN :
        /\ LoadState(st, blocked)
        /\ \/ ReconcileLoad /\ pass.pc = "load" /\ pass' = [pass EXCEPT !.pc = "walk", !.st = st, !.blocked = blocked]
           \/ TickLoad /\ pass.pc = "tickload" /\ pass' = [pass EXCEPT !.pc = "mapping", !.st = st, !.blocked = blocked]
  BY DEF ReconcileLoad, TickLoad
<1>2. /\ pass'.st = st /\ pass'.blocked = blocked /\ pass'.kind = pass.kind /\ pass'.sea = pass.sea
      /\ pass'.ended = pass.ended
      /\ \/ ReconcileLoad /\ pass.pc = "load" /\ pass'.pc = "walk" /\ pass.kind = "reconcile"
         \/ TickLoad /\ pass.pc = "tickload" /\ pass'.pc = "mapping" /\ pass.kind = "tick"
  BY <1>0, <1>1 DEF Passes, StagesKinds
<1>3. disk' = disk /\ (~blocked => st = disk) /\ (blocked => ~live)
  BY <1>1, LoadGives
<1>4. live' = live
  BY DEF ReconcileLoad, TickLoad
<1> QED BY <1>2, <1>3, <1>4

\* No step of a pass but its load blocks or unblocks it.
LEMMA BlockedKept ==
  ASSUME TypeOK, Reconcile \/ Tick \/ MappingOk \/ MappingFails \/ End \/ Cancel \/ CalmDown,
         ~ReconcileLoad, ~TickLoad
  PROVE  pass'.blocked = pass.blocked /\ pass'.kind = pass.kind
<1>0. pass \in Passes
  BY TypeIs
<1>1. CASE Walk \/ Fetch \/ MappingFails \/ End \/ Cancel \/ CalmDown
  BY <1>0, <1>1 DEF Walk, Fetch, MappingFails, End, Cancel, CalmDown, Passes
<1>2. CASE WalkFailed \/ UpstreamGate \/ LibraryGate \/ ProbeFails \/ WindowFetchFails \/ TickMatch
  BY <1>0, <1>2 DEF WalkFailed, UpstreamGate, LibraryGate, ProbeFails, WindowFetchFails, TickMatch,
     TickUnreadable, Close, Interrupt, Passes
<1>3. CASE WalkInterrupted \/ FinishInterruptedMatch
  BY <1>0, <1>3 DEF WalkInterrupted, FinishInterruptedMatch, Interrupt, Passes
<1>4. CASE RecordSeaDexFetch \/ MergeShrunkSides \/ MappingOk \/ ProbeChanged
  BY <1>0, <1>4 DEF RecordSeaDexFetch, RecordFetchOk, RecordFetchFailed, MergeShrunkSides, MappingOk,
     ProbeChanged, Ended, Passes
<1>5. CASE FinishCompletedCycle \/ SettleRestored \/ ProbeEmpty \/ ProbeOversize \/ WindowFetch
  BY <1>0, <1>5 DEF FinishCompletedCycle, SettleRestored, ProbeEmpty, ProbeOversize, WindowFetch,
     Ended, Close, Passes
<1> QED BY <1>1, <1>2, <1>3, <1>4, <1>5 DEF Reconcile, Tick

\* Only the fetch and its record say anything of the catalogue.
LEMMA SeaKept ==
  ASSUME TypeOK, Reconcile \/ Tick \/ MappingOk \/ MappingFails \/ End \/ Cancel \/ CalmDown,
         ~Fetch, ~RecordSeaDexFetch
  PROVE  pass'.sea = pass.sea
<1>0. pass \in Passes
  BY TypeIs
<1>1. CASE Walk \/ MappingFails \/ End \/ Cancel \/ CalmDown \/ ReconcileLoad \/ TickLoad
  BY <1>0, <1>1 DEF Walk, MappingFails, End, Cancel, CalmDown, ReconcileLoad, TickLoad, Passes
<1>2. CASE WalkFailed \/ UpstreamGate \/ LibraryGate \/ ProbeFails \/ WindowFetchFails \/ TickMatch
  BY <1>0, <1>2 DEF WalkFailed, UpstreamGate, LibraryGate, ProbeFails, WindowFetchFails, TickMatch,
     TickUnreadable, Close, Interrupt, Passes
<1>3. CASE WalkInterrupted \/ FinishInterruptedMatch
  BY <1>0, <1>3 DEF WalkInterrupted, FinishInterruptedMatch, Interrupt, Passes
<1>4. CASE MergeShrunkSides \/ MappingOk \/ ProbeChanged
  BY <1>0, <1>4 DEF MergeShrunkSides, MappingOk, ProbeChanged, Ended, Passes
<1>5. CASE FinishCompletedCycle \/ SettleRestored \/ ProbeEmpty \/ ProbeOversize \/ WindowFetch
  BY <1>0, <1>5 DEF FinishCompletedCycle, SettleRestored, ProbeEmpty, ProbeOversize, WindowFetch,
     Ended, Close, Passes
<1> QED BY <1>1, <1>2, <1>3, <1>4, <1>5 DEF Reconcile, Tick

\* A process restores first, and a blocked pass does no more than stop.
LEMMA StagesStep ==
  ASSUME StoreReliable, CoreInv, RestoredFirst, BlockedStops, SeaKnown, Next
  PROVE  RestoredFirst' /\ BlockedStops' /\ SeaKnown'
<1> USE DEF process, RestoredFirst, BlockedStops, SeaKnown
<1>0. pass \in Passes /\ cond \in Conds /\ TypeOK /\ StagesKinds
  BY TypeIs DEF CoreInv, Stands
<1>1. CASE ReconcileLoad \/ TickLoad
  <2>1. pass.pc = "load" => restored'
    BY <1>1 DEF ReconcileLoad, TickLoad
  <2>2. pass.pc # "load" => restored' = restored
    BY <1>1 DEF ReconcileLoad, TickLoad
  <2> QED BY <1>0, <1>1, <2>1, <2>2, LoadLeaves DEF StagesKinds
<1>2. CASE Begin
  <2>1. /\ pass'.blocked = FALSE /\ pass'.sea = "none"
        /\ pass'.pc = IF Due THEN "load" ELSE IF ready THEN "probe" ELSE "settle"
        /\ pass'.kind = IF Due THEN "reconcile" ELSE "tick"
        /\ restored' = restored /\ ready' = ready /\ cond'.standing = cond.standing /\ pass.pc = "idle"
    BY <1>0, <1>2 DEF Begin, NoPass, Conds
  <2>2. ~restored => Due
    BY <2>1 DEF Due
  <2> QED BY <2>1, <2>2
<1>3. CASE Rest \/ Restart
  <2>1. /\ pass'.pc = "idle" /\ pass'.blocked = FALSE /\ pass'.sea = "none" /\ pass'.kind = "none"
    BY <1>3 DEF Rest, Restart, NoPass
  <2>2. CASE Rest
    <3>1. restored' = restored /\ pass.pc = "done"
      BY <2>2 DEF Rest
    <3> QED BY <2>1, <3>1
  <2>3. CASE Restart
    <3>1. cond'.standing = {} /\ iterations' = 0 /\ ~ready'
      BY <2>3 DEF Restart, NoConds
    <3> QED BY <2>1, <3>1
  <2> QED BY <1>3, <2>2, <2>3
<1>4. CASE End
  <2>1. /\ pass'.pc = "done" /\ pass'.kind = pass.kind /\ pass'.sea = pass.sea /\ pass'.blocked = pass.blocked
        /\ pass.pc = "end" /\ restored' = restored /\ live' = live
    BY <1>0, <1>4 DEF End, Passes
  <2> QED BY <2>1
<1>5. CASE Cancel
  BY <1>5 DEF Cancel
<1>6. CASE CalmDown
  BY <1>6 DEF CalmDown
<1>7. CASE MappingOk \/ MappingFails
  <2>1. /\ pass'.pc = "fetch" /\ pass'.kind = pass.kind /\ pass'.sea = pass.sea /\ pass'.blocked = pass.blocked
        /\ pass.pc = "mapping" /\ restored' = restored /\ live' = live
    BY <1>0, <1>7 DEF MappingOk, MappingFails, Ended, Passes
  <2> QED BY <2>1
<1>8. CASE Tick /\ ~TickLoad
  <2>1. /\ pass.kind = "tick" /\ pass'.kind = "tick" /\ pass'.pc \in {"tickload", "mapping", "match", "end"}
        /\ live' = live
    BY <1>0, <1>8, TickLeads
  <2>2. ~ReconcileLoad /\ ~Fetch /\ ~RecordSeaDexFetch
    BY <1>0, <2>1 DEF StagesKinds, ReconcileLoad, Fetch, RecordSeaDexFetch
  <2>3. pass'.blocked = pass.blocked /\ pass'.sea = pass.sea
    BY <1>0, <1>8, <2>2, BlockedKept, SeaKept
  <2>4. restored' = restored /\ pass.pc # "idle" /\ pass.pc # "load"
    BY <1>0, <1>8, <2>1 DEF Tick, SettleRestored, ProbeFails, ProbeEmpty, ProbeOversize, ProbeChanged,
       WindowFetchFails, WindowFetch, TickMatch
  <2>5. pass'.pc = "tickload" => ~pass.blocked
    <3>1. CASE SettleRestored \/ ProbeFails \/ ProbeEmpty \/ ProbeOversize \/ ProbeChanged
      BY <3>1 DEF SettleRestored, ProbeFails, ProbeEmpty, ProbeOversize, ProbeChanged
    <3>2. CASE WindowFetchFails \/ WindowFetch \/ TickMatch
      <4>1. pass'.pc \in {"match", "end"}
        BY <1>0, <3>2 DEF WindowFetchFails, WindowFetch, TickMatch, TickUnreadable, Ended, Close, Interrupt, Passes
      <4> QED BY <4>1
    <3> QED BY <1>8, <3>1, <3>2 DEF Tick
  <2> QED BY <2>1, <2>3, <2>4, <2>5
<1>9. CASE Reconcile /\ ~ReconcileLoad
  <2>1. /\ pass.kind = "reconcile" /\ pass'.kind = "reconcile" /\ live' = live
        /\ pass'.pc \in {"walk", "mapping", "record", "gate", "upstream", "match", "end"}
    BY <1>0, <1>9, ReconcileLeads
  <2>2. ~TickLoad /\ pass.pc # "load" /\ pass.pc # "idle" /\ restored' = restored
    BY <1>0, <1>9 DEF StagesKinds, TickLoad, Reconcile, Walk, WalkFailed, WalkInterrupted, Fetch,
       RecordSeaDexFetch, LibraryGate, MergeShrunkSides, UpstreamGate, FinishInterruptedMatch,
       FinishCompletedCycle
  <2>3. pass'.blocked = pass.blocked
    BY <1>0, <1>9, <2>2, BlockedKept
  <2>4. CASE Walk \/ WalkFailed
    <3>1. pass'.sea = pass.sea /\ pass.pc = "walk" /\ live /\ ~Fetch /\ ~RecordSeaDexFetch
      BY <1>0, <1>9, <2>4, SeaKept DEF Walk, WalkFailed, Fetch, RecordSeaDexFetch
    <3>2. pass'.pc \in {"mapping", "end"}
      BY <1>0, <2>4 DEF Walk, WalkFailed, Close, Passes
    <3> QED BY <2>1, <2>2, <2>3, <3>1, <3>2
  <2>5. CASE WalkInterrupted \/ LibraryGate \/ FinishInterruptedMatch \/ FinishCompletedCycle
    <3>1. pass'.pc = "end"
      BY <1>0, <2>5 DEF WalkInterrupted, LibraryGate, FinishInterruptedMatch, FinishCompletedCycle,
         Interrupt, Close, Ended, Passes
    <3> QED BY <2>1, <2>2, <2>3, <3>1
  <2>6. CASE Fetch
    <3>1. pass'.pc = "record" /\ pass.pc = "fetch"
      BY <1>0, <2>6 DEF Fetch, Passes
    <3> QED BY <2>1, <2>2, <2>3, <3>1
  <2>7. CASE RecordSeaDexFetch
    <3>1. pass'.pc = "gate" /\ pass.pc = "record"
      BY <1>0, <2>7 DEF RecordSeaDexFetch, RecordFetchOk, RecordFetchFailed, Ended, Passes
    <3> QED BY <2>1, <2>2, <2>3, <3>1
  <2>8. CASE MergeShrunkSides
    <3>1. pass'.pc = "upstream" /\ pass.pc = "gate"
      BY <1>0, <2>8 DEF MergeShrunkSides, Ended, Passes
    <3> QED BY <2>1, <2>2, <2>3, <3>1
  <2>9. CASE UpstreamGate
    <3>1. pass.pc = "upstream" /\ (pass'.pc = "end" \/ (pass'.pc = "match" /\ pass.sea = "ok" /\ pass'.sea = pass.sea))
      BY <1>0, <2>9 DEF UpstreamGate, Close, Interrupt, Passes
    <3> QED BY <2>1, <2>2, <2>3, <3>1
  <2> QED BY <1>9, <2>4, <2>5, <2>6, <2>7, <2>8, <2>9 DEF Reconcile
<1> QED BY <1>1, <1>2, <1>3, <1>4, <1>5, <1>6, <1>7, <1>8, <1>9 DEF Next, Step

\* A pass sees a condition off: it says so, or the process is a new one.
SeenOff == \A k \in cond.standing \ cond'.standing : k \in pass'.ended \/ ~restored'

\* The streaks a pass would save.
LEMMA StreaksOf ==
  ASSUME TypeOK
  PROVE  /\ Streaks(WithMapping(pass.st)) = Streaks(WithWalk(pass.st))
         /\ Streaks(WithMapping(pass.st)) =
              <<pass.st.seadexFailures, pass.st.aniListDegraded, pass.st.partialWalks, pass.rejected, pass.st.shrunk>>
         /\ \A orders \in SUBSET OrderIds : Streaks([pass.st EXCEPT !.orders = orders]) = Streaks(pass.st)
<1>1. pass.st \in States
  BY TypeIs, PassFields
<1> QED BY <1>1 DEF States, Streaks, WithMapping, WithWalk

\* The streaks of a pass that may only have walked, or of a tick, are the disk's.
LEMMA StreaksStill ==
  ASSUME CoreInv, GuardInv, StoreInv, ~pass.blocked,
         \/ pass.pc = "walk"
         \/ pass.pc \in {"mapping", "fetch", "match"} /\ pass.kind = "tick"
  PROVE  Streaks(pass.st) = Streaks(disk)
<1>1. pass.st.shrunk = disk.shrunk
  BY DEF GuardInv, LibraryRead, Working, Merged
<1> QED BY <1>1 DEF StoreInv, StandsInv, StreaksRead, Working, Streaks

\* An exit that saves what the pass holds, beside the conditions that stand.
LEMMA ExitSaved ==
  ASSUME StoreReliable, CoreInv, GuardInv, StoreInv, pass.pc \notin Settled \cup {"record"},
         NEW st \in States, Streaks(st) = Streaks(Held), cond' \in Conds,
         Save(st, cond'.standing, pass.blocked), cond'.standing \ TickKeys = cond.standing \ TickKeys,
         pass'.pc = "end", pass'.blocked = pass.blocked, pass'.kind = pass.kind, pass'.sea = pass.sea,
         restored' = restored, live' = live, outage' = outage
  PROVE  DiskKnown' /\ StandingBacked' /\ StreaksRead' /\ OutageCounted' /\ StandingPersisted'
<1> USE DEF StoreInv, StandsInv
<1>0. TypeOK /\ StagesKinds /\ cond'.standing \in SUBSET Keys /\ pass \in Passes
  BY TypeIs DEF CoreInv, Conds
<1>1. /\ pass.blocked => disk' = disk /\ persistedStanding' = persistedStanding
      /\ ~pass.blocked => /\ Streaks(disk') = Streaks(st) /\ disk'.standing = cond'.standing
                          /\ persistedStanding' = cond'.standing
  BY <1>0, SaveGives
<1>2. DiskKnown'
  BY <1>1 DEF DiskKnown, BlockedStops
<1>3. StandingBacked'
  <2>1. CASE pass.blocked
    BY <1>1, <2>1 DEF StandingBacked, Watching
  <2>2. CASE ~pass.blocked
    <3>1. Watching /\ Held' = disk'
      BY <2>2 DEF Watching, Held, RestoredFirst, Settled
    <3>2. Backed(cond'.standing, disk')
      BY <1>1, <2>2, <3>1, BackedSame DEF StandingBacked
    <3> QED BY <1>1, <2>2, <3>1, <3>2 DEF StandingBacked
  <2> QED BY <2>1, <2>2
<1>4. StreaksRead' /\ StandingPersisted'
  BY DEF StreaksRead, StandingPersisted, Working
<1>5. OutageCounted'
  <2>1. CASE pass.blocked
    <3>1. pass.sea = "none"
      BY <1>0, <2>1 DEF BlockedStops, SeaKnown, Settled, Passes, StagesKinds
    <3> QED BY <1>1, <2>1, <3>1 DEF OutageCounted
  <2>2. CASE ~pass.blocked
    <3>1. disk'.seadexFailures = pass.st.seadexFailures
      BY <1>0, <1>1, <2>2, StreaksOf DEF Held, Streaks
    <3>2. pass.sea # "none" => pass.kind = "reconcile" /\ pass.pc \in {"gate", "upstream", "match"}
      BY <1>0 DEF SeaKnown, Settled, Passes, StagesKinds
    <3>3. /\ outage <= pass.st.seadexFailures
          /\ pass.sea = "failed" => Count(outage, ReconcileEscalation) <= pass.st.seadexFailures
      <4>1. CASE pass.kind = "reconcile" /\ pass.pc \in {"gate", "upstream", "match"}
        BY <4>1 DEF OutageCounted
      <4>2. CASE ~(pass.kind = "reconcile" /\ pass.pc \in {"gate", "upstream", "match"})
        <5>1. Working /\ (pass.kind = "tick" \/ pass.pc \in {"walk", "mapping", "fetch", "record"})
          BY <1>0, <2>2, <4>2 DEF Working, Passes, Settled, StagesKinds
        <5> QED BY <3>2, <4>2, <5>1 DEF StreaksRead, OutageCounted
      <4> QED BY <4>1, <4>2
    <3> QED BY <3>1, <3>3 DEF OutageCounted
  <2> QED BY <2>1, <2>2
<1> QED BY <1>2, <1>3, <1>4, <1>5

\* A step that moves neither a condition, a streak nor a run.
LEMMA QuietKeeps ==
  ASSUME StoreInv, UNCHANGED <<disk, persistedStanding, outage, oversizeRun, unreachableRun, ready>>,
         cond'.standing = cond.standing, live' => live, restored' = restored,
         Watching' => Watching /\ Streaks(Held') = Streaks(Held),
         StreaksRead', pass'.pc = "done" => pass.pc = "done", pass'.pc = "end" => pass.pc = "end",
         pass'.sea = "failed" => pass.sea = "failed" \/ pass'.pc \notin {"gate", "upstream", "match", "end"},
         pass'.kind = "reconcile" /\ pass'.pc \in {"gate", "upstream", "match"} =>
           /\ pass.kind = "reconcile" /\ pass.pc \in {"gate", "upstream", "match"}
           /\ pass'.sea = pass.sea /\ pass'.st.seadexFailures = pass.st.seadexFailures
  PROVE  StandsInv' /\ SeenOff
<1> USE DEF StoreInv, StandsInv
<1>1. DiskKnown' /\ WindowBacked' /\ StandingPersisted' /\ SeenOff
  BY DEF DiskKnown, WindowBacked, StandingPersisted, SeenOff
<1>2. OutageCounted'
  BY DEF OutageCounted
<1>3. StandingBacked'
  BY BackedSame DEF StandingBacked
<1> QED BY <1>1, <1>2, <1>3

\* The steps between passes, and those of the world around the process, move no condition.
LEMMA StandsQuiet ==
  ASSUME StoreReliable, CoreInv, GuardInv, StoreInv, StagesKinds', BlockedStops',
         Begin \/ Rest \/ Cancel \/ CalmDown \/ UNCHANGED vars
  PROVE  StandsInv' /\ SeenOff
<1> USE DEF process
<1>0. pass \in Passes /\ TypeOK /\ cond \in Conds
  BY TypeIs DEF CoreInv, Stands
<1>1. CASE Begin
  <2>1. /\ pass'.pc \in {"load", "probe", "settle"} /\ pass'.sea = "none" /\ pass.pc = "idle"
        /\ cond'.standing = cond.standing
    BY <1>0, <1>1 DEF Begin, NoPass, Conds
  <2>2. /\ UNCHANGED <<disk, persistedStanding, outage, oversizeRun, unreachableRun, ready, restored>> /\ live' = live /\ live
    BY <1>1 DEF Begin
  <2>3. Watching' => Watching /\ Held' = disk' /\ Held = disk
    BY <2>1, <2>2 DEF Watching, Held, Settled, StoreInv, BlockedStops
  <2>4. StreaksRead'
    BY <2>1 DEF StreaksRead, Working
  <2> QED BY <2>1, <2>2, <2>3, <2>4, QuietKeeps
<1>2. CASE Rest
  <2>1. /\ pass'.pc = "idle" /\ pass'.sea = "none" /\ pass.pc = "done" /\ cond'.standing = cond.standing
        /\ pass'.blocked = FALSE
    BY <1>0, <1>2 DEF Rest, NoPass, Conds
  <2>2. /\ UNCHANGED <<disk, persistedStanding, outage, oversizeRun, unreachableRun, ready, restored>> /\ live' = live
    BY <1>2 DEF Rest
  <2>3. Watching' => Watching /\ Held' = disk' /\ Held = disk
    BY <2>1, <2>2 DEF Watching, Held, Settled, StoreInv, BlockedStops
  <2>4. StreaksRead'
    BY <2>1 DEF StreaksRead, Working
  <2> QED BY <2>1, <2>2, <2>3, <2>4, QuietKeeps
<1>3. CASE Cancel \/ CalmDown \/ UNCHANGED vars
  <2>1. /\ UNCHANGED <<disk, persistedStanding, outage, oversizeRun, unreachableRun, ready, restored, pass, cond>>
        /\ live' => live
    <3>1. CASE Cancel
      BY <3>1 DEF Cancel
    <3>2. CASE CalmDown
      BY <3>2 DEF CalmDown
    <3>3. CASE UNCHANGED vars
      BY <3>3 DEF vars
    <3> QED BY <1>3, <3>1, <3>2, <3>3
  <2>2. Watching' => Watching
    <3>1. CASE Cancel
      BY <2>1, <3>1 DEF Cancel, Watching
    <3>2. CASE ~Cancel
      BY <1>3, <2>1, <3>2 DEF CalmDown, Watching, vars
    <3> QED BY <3>1, <3>2
  <2>3. Held' = Held
    BY <2>1 DEF Held, WithMapping
  <2>4. StreaksRead'
    BY <2>1 DEF StreaksRead, Working, StoreInv, StandsInv
  <2> QED BY <2>1, <2>2, <2>3, <2>4, QuietKeeps
<1> QED BY <1>1, <1>2, <1>3

\* A walk and a fetch move no condition either.
LEMMA StandsWalk ==
  ASSUME StoreReliable, CoreInv, GuardInv, StoreInv, Walk \/ Fetch
  PROVE  StandsInv' /\ SeenOff
<1> USE DEF process
<1>0. pass \in Passes /\ TypeOK /\ cond \in Conds /\ StagesKinds /\ pass.st \in States
  BY TypeIs, PassFields DEF CoreInv, Stands
<1>1. UNCHANGED <<disk, persistedStanding, outage, oversizeRun, unreachableRun, ready, restored, cond, live>>
  BY DEF Walk, Fetch
<1>2. CASE Walk
  <2>1. PICK snap \in WalkSizes, partial \in BOOLEAN, clean \in BOOLEAN,
             nonAired \in SUBSET OrderIds, aired \in SUBSET OrderIds :
          /\ (partial \/ ~clean) => FaultNow("partial")
          /\ pass' = [pass EXCEPT !.pc = "mapping", !.snap = snap, !.partial = partial,
                        !.aired = IF clean THEN aired ELSE {},
                        !.st.orders = NextOrderSet(pass.st, snap, nonAired, aired, clean)]
    BY <1>2, Zenon DEF Walk
  <2>2. PICK orders \in SUBSET OrderIds : orders = NextOrderSet(pass.st, snap, nonAired, aired, clean)
    BY <1>0, OrdersTyped
  <2>3. PICK st : st = [pass.st EXCEPT !.orders = orders]
    OBVIOUS
  <2>4. /\ pass'.st = st /\ pass'.pc = "mapping" /\ pass'.sea = pass.sea /\ pass'.kind = pass.kind
        /\ pass'.blocked = pass.blocked
    BY <1>0, <2>1, <2>2, <2>3 DEF Passes
  <2>5. Streaks(st) = Streaks(pass.st)
    BY <1>0, <2>3, StreaksOf
  <2>6. pass.pc = "walk"
    BY <1>2 DEF Walk
  <2>7. Watching' => Watching /\ Streaks(Held') = Streaks(Held)
    BY <1>1, <2>4, <2>5, <2>6 DEF Watching, Held, Settled
  <2>8. StreaksRead'
    BY <1>1, <2>4, <2>5, <2>6 DEF StreaksRead, Working, StoreInv, StandsInv, Streaks
  <2> QED BY <1>0, <1>1, <2>4, <2>6, <2>7, <2>8, QuietKeeps DEF StagesKinds, StoreInv, SeaKnown
<1>3. CASE Fetch
  <2>1. /\ pass'.st = pass.st /\ pass'.pc = "record" /\ pass'.kind = pass.kind /\ pass'.blocked = pass.blocked
        /\ pass'.rejected = pass.rejected /\ pass'.usable = pass.usable /\ pass.pc = "fetch"
    BY <1>0, <1>3 DEF Fetch, Passes
  <2>2. Watching' => Watching /\ Held' = Held
    BY <1>1, <2>1 DEF Watching, Held, Settled, WithMapping
  <2>3. StreaksRead'
    BY <1>1, <2>1 DEF StreaksRead, Working, StoreInv, StandsInv
  <2> QED BY <1>1, <2>1, <2>2, <2>3, QuietKeeps
<1> QED BY <1>2, <1>3

\* A load of a reliable store brings back the conditions with the streaks that back them.
LEMMA StandsLoad ==
  ASSUME StoreReliable, CoreInv, GuardInv, StoreInv, ReconcileLoad \/ TickLoad
  PROVE  StandsInv' /\ SeenOff
<1> USE DEF process, StoreInv, StandsInv
<1>0. pass \in Passes /\ TypeOK /\ cond \in Conds /\ StagesKinds
  BY TypeIs DEF CoreInv, Stands
<1>1. PICK st \in {disk, EmptyState} :
        /\ pass'.st = st /\ (~pass'.blocked => st = disk) /\ (pass'.blocked => ~live) /\ disk' = disk
        /\ pass'.kind = pass.kind /\ pass'.sea = pass.sea /\ live' = live
        /\ \/ ReconcileLoad /\ pass.pc = "load" /\ pass'.pc = "walk" /\ pass.kind = "reconcile"
           \/ TickLoad /\ pass.pc = "tickload" /\ pass'.pc = "mapping" /\ pass.kind = "tick"
  BY <1>0, LoadLeaves
<1>2. outage' = outage /\ unreachableRun' = unreachableRun /\ ready' = ready /\ restored'
  BY <1>0 DEF ReconcileLoad, TickLoad, RestoredFirst
<1>3. \/ restored /\ UNCHANGED <<persistedStanding, cond, oversizeRun>>
      \/ ~restored /\ RestoreStanding(pass'.st.standing)
  <2>1. CASE ReconcileLoad
    <3>1. PICK s \in {disk, EmptyState}, blocked \in BOOLEAN :
            /\ LoadState(s, blocked)
            /\ pass' = [pass EXCEPT !.pc = "walk", !.st = s, !.blocked = blocked]
            /\ IF restored THEN UNCHANGED <<persistedStanding, cond, oversizeRun>>
               ELSE RestoreStanding(s.standing)
      BY <2>1 DEF ReconcileLoad
    <3>2. pass'.st = s
      BY <1>0, <3>1 DEF Passes
    <3> QED BY <3>1, <3>2
  <2>2. CASE TickLoad
    BY <2>2 DEF TickLoad, RestoredFirst
  <2> QED BY <2>1, <2>2
<1>4. StreaksRead' /\ StandingPersisted' /\ OutageCounted'
  BY <1>1, <1>2 DEF StreaksRead, StandingPersisted, OutageCounted, Working
<1>5. CASE restored /\ UNCHANGED <<persistedStanding, cond, oversizeRun>>
  <2>1. DiskKnown' /\ WindowBacked' /\ SeenOff
    BY <1>1, <1>2, <1>5 DEF DiskKnown, WindowBacked, SeenOff
  <2>2. StandingBacked'
    <3>1. Watching' => Watching /\ Held = disk /\ Held' = disk'
      BY <1>1, <1>5 DEF Watching, Held, Settled, BlockedStops
    <3> QED BY <1>1, <1>5, <3>1 DEF StandingBacked
  <2> QED BY <1>4, <2>1, <2>2
<1>6. CASE ~restored /\ RestoreStanding(pass'.st.standing)
  <2> DEFINE kept == {k \in pass'.st.standing : Observes(k)}
  <2>1. /\ persistedStanding' = pass'.st.standing /\ cond'.standing = cond.standing \cup kept
        /\ oversizeRun' = ResumedOversize(kept)
    BY <1>6 DEF RestoreStanding
  <2>2. cond.standing = {} /\ ~ready
    BY <1>6 DEF RestoredFirst
  <2>3. cond'.standing = kept
    BY <2>1, <2>2
  <2>4. DiskKnown'
    BY <1>1, <2>1 DEF DiskKnown
  <2>5. WindowBacked'
    <3>1. Oversize \in cond'.standing => oversizeRun' = LatchTicks
      BY <2>1, <2>3 DEF ResumedOversize
    <3> QED BY <1>1, <1>2, <2>2, <3>1 DEF WindowBacked
  <2>6. StandingBacked'
    <3>1. CASE pass'.blocked
      BY <1>1, <3>1 DEF StandingBacked, Watching
    <3>2. CASE ~pass'.blocked
      <4>1. cond'.standing \ TickKeys = disk.standing \ TickKeys
        BY <1>1, <2>3, <3>2 DEF Observes
      <4>2. Backed(cond'.standing, disk)
        BY <4>1, BackedSame DEF StandingBacked
      <4>3. Held' = disk'
        BY <1>1, <3>2 DEF Held, Settled
      <4> QED BY <1>1, <4>2, <4>3 DEF StandingBacked
    <3> QED BY <3>1, <3>2
  <2>7. SeenOff
    BY <2>2 DEF SeenOff
  <2> QED BY <1>4, <2>4, <2>5, <2>6, <2>7
<1> QED BY <1>3, <1>5, <1>6

\* A walk that could not be finished saves the orders it read, at most.
LEMMA StandsWalkFailed ==
  ASSUME StoreReliable, CoreInv, GuardInv, StoreInv, WalkFailed \/ WalkInterrupted
  PROVE  StandsInv' /\ SeenOff
<1> USE DEF process, StoreInv, StandsInv
<1>0. pass \in Passes /\ TypeOK /\ cond \in Conds /\ StagesKinds /\ pass.st \in States
  BY TypeIs, PassFields DEF CoreInv, Stands
<1>1. /\ UNCHANGED <<outage, oversizeRun, unreachableRun, ready, restored, cond, live>>
      /\ pass.pc = "walk" /\ pass.kind = "reconcile" /\ pass.sea = "none"
  BY <1>0 DEF WalkFailed, WalkInterrupted, StagesKinds, SeaKnown
<1>2. Held = pass.st
  BY <1>1 DEF Held, Settled
<1>3. PICK st \in States :
        /\ Streaks(st) = Streaks(pass.st)
        /\ \/ /\ pass'.pc = "mapping" /\ pass'.st = st /\ disk' = disk /\ persistedStanding' = persistedStanding
           \/ /\ pass'.pc = "end"
              /\ \/ Save(st, cond.standing, pass.blocked)
                 \/ disk' = disk /\ persistedStanding' = persistedStanding
        /\ pass'.kind = pass.kind /\ pass'.sea = pass.sea /\ pass'.blocked = pass.blocked
  <2>1. PICK nonAired \in SUBSET OrderIds :
          LET st == [pass.st EXCEPT !.orders = Joined(pass.st.orders, nonAired)]
              p  == [pass EXCEPT !.walkErr = TRUE, !.st = st] IN
          \/ pass' = [p EXCEPT !.pc = "mapping"] /\ UNCHANGED <<disk, persistedStanding>>
          \/ pass' = Close(p, ready) /\ Save(st, cond.standing, pass.blocked)
          \/ /\ pass' = Interrupt(pass)
             /\ \/ UNCHANGED <<disk, persistedStanding>>
                \/ Save(st, cond.standing, pass.blocked)
    BY DEF WalkFailed, WalkInterrupted
  <2> DEFINE st == [pass.st EXCEPT !.orders = Joined(pass.st.orders, nonAired)]
             p  == [pass EXCEPT !.walkErr = TRUE, !.st = st]
  <2>2. st \in States /\ Streaks(st) = Streaks(pass.st)
    <3>1. Joined(pass.st.orders, nonAired) \in SUBSET OrderIds
      BY <1>0, OrdersTyped
    <3>2. st \in States
      BY <1>0, <3>1 DEF States
    <3> QED BY <1>0, <3>1, <3>2, StreaksOf
  <2> HIDE DEF st
  <2>3. /\ [p EXCEPT !.pc = "mapping"].pc = "mapping" /\ [p EXCEPT !.pc = "mapping"].st = st
        /\ \A q \in {[p EXCEPT !.pc = "mapping"], Close(p, ready), Interrupt(pass)} :
             q.kind = pass.kind /\ q.sea = pass.sea /\ q.blocked = pass.blocked
        /\ Close(p, ready).pc = "end" /\ Interrupt(pass).pc = "end"
    BY <1>0 DEF Close, Interrupt, Passes
  <2>4. \/ pass' = [p EXCEPT !.pc = "mapping"] /\ UNCHANGED <<disk, persistedStanding>>
        \/ pass' = Close(p, ready) /\ Save(st, cond.standing, pass.blocked)
        \/ /\ pass' = Interrupt(pass)
           /\ \/ UNCHANGED <<disk, persistedStanding>>
              \/ Save(st, cond.standing, pass.blocked)
    BY <2>1 DEF st
  <2> HIDE DEF p
  <2> QED BY <2>2, <2>3, <2>4
<1>4. CASE pass'.pc = "end" /\ Save(st, cond.standing, pass.blocked)
  <2>1. DiskKnown' /\ StandingBacked' /\ StreaksRead' /\ OutageCounted' /\ StandingPersisted'
    <3>1. Save(st, cond'.standing, pass.blocked) /\ cond' \in Conds
      BY <1>0, <1>1, <1>4
    <3> QED BY <1>1, <1>2, <1>3, <1>4, <3>1, ExitSaved DEF Settled
  <2>2. WindowBacked' /\ SeenOff
    BY <1>1, <1>4 DEF WindowBacked, SeenOff
  <2> QED BY <2>1, <2>2
<1>5. CASE pass'.pc = "end" /\ disk' = disk /\ persistedStanding' = persistedStanding
  <2>1. ASSUME ~pass.blocked PROVE Streaks(Held) = Streaks(disk)
    <3>1. pass.st.shrunk = disk.shrunk
      BY <1>1, <2>1 DEF GuardInv, LibraryRead, Working, Merged
    <3>2. Streaks(pass.st) = Streaks(disk)
      BY <1>1, <2>1, <3>1 DEF StreaksRead, Working, Streaks
    <3> QED BY <1>2, <3>2
  <2>2. Watching' => Watching /\ Streaks(Held') = Streaks(Held)
    BY <1>1, <1>3, <1>5, <2>1 DEF Watching, Held, Settled
  <2>3. StandingBacked'
    BY <1>1, <1>5, <2>2, BackedSame DEF StandingBacked
  <2>4. /\ DiskKnown' /\ StreaksRead' /\ OutageCounted' /\ StandingPersisted' /\ WindowBacked' /\ SeenOff
    BY <1>1, <1>3, <1>5 DEF DiskKnown, StreaksRead, OutageCounted, StandingPersisted, WindowBacked, SeenOff, Working
  <2> QED BY <2>3, <2>4
<1>6. CASE /\ pass'.pc = "mapping" /\ pass'.st = st /\ disk' = disk /\ persistedStanding' = persistedStanding
  <2>1. Watching' => Watching /\ Streaks(Held') = Streaks(Held)
    BY <1>1, <1>2, <1>3, <1>6 DEF Watching, Held, Settled
  <2>2. StreaksRead'
    BY <1>1, <1>3, <1>6 DEF StreaksRead, Working, Streaks
  <2> QED BY <1>1, <1>3, <1>6, <2>1, <2>2, QuietKeeps
<1> QED BY <1>3, <1>4, <1>5, <1>6

\* What clearing, observing and escalating do to the standing set.
LEMMA StandingAfter ==
  ASSUME NEW c \in Conds, NEW k
  PROVE  /\ Clear(c, k).standing = c.standing \ {k} /\ Observe(c, k).standing = c.standing \cup {k}
         /\ \A n, t : /\ n >= t => Escalate(c, k, n, t).standing = c.standing \cup {k}
                      /\ ~(n >= t) => Escalate(c, k, n, t).standing = c.standing \ {k}
BY DEF Conds, Clear, Observe, Escalate

\* The mapping's load counts a refused refresh before its condition is judged.
LEMMA StandsMapping ==
  ASSUME StoreReliable, CoreInv, GuardInv, StoreInv, MappingOk \/ MappingFails
  PROVE  StandsInv' /\ SeenOff
<1> USE DEF process
<1>0. pass \in Passes /\ TypeOK /\ cond \in Conds /\ pass.st \in States
  BY TypeIs, PassFields DEF CoreInv, Stands
<1>1. /\ UNCHANGED <<disk, persistedStanding, outage, oversizeRun, unreachableRun, ready, restored, live>>
      /\ pass.pc = "mapping"
  BY DEF MappingOk, MappingFails
<1>2. PICK rejected \in 0..TickEscalation :
        /\ pass'.pc = "fetch" /\ pass'.st = pass.st /\ pass'.rejected = rejected
        /\ pass'.kind = pass.kind /\ pass'.blocked = pass.blocked
        /\ \/ /\ rejected = 0 /\ MappingRej \in pass'.ended
              /\ cond'.standing = cond.standing \ {MappingRej}
           \/ /\ rejected \in {pass.st.rejected, Count(pass.st.rejected, TickEscalation)}
              /\ \/ /\ rejected >= TickEscalation
                    /\ cond'.standing = cond.standing \cup {MappingRej}
                 \/ /\ rejected < TickEscalation
                    /\ cond'.standing = cond.standing \ {MappingRej} /\ live
                 \/ cond'.standing = cond.standing
  <2>1. CASE MappingOk
    <3>1. /\ pass'.pc = "fetch" /\ pass'.st = pass.st /\ pass'.rejected = 0
          /\ pass'.kind = pass.kind /\ pass'.blocked = pass.blocked /\ MappingRej \in pass'.ended
      <4>1. PICK fresh \in BOOLEAN :
              pass' = Ended([pass EXCEPT !.pc = "fetch", !.rejected = 0, !.usable = TRUE, !.fresh = fresh],
                            {MappingRej})
        BY <2>1 DEF MappingOk
      <4> QED BY <1>0, <4>1 DEF Ended, Passes
    <3>2. cond'.standing = cond.standing \ {MappingRej}
      BY <1>0, <2>1, StandingAfter DEF MappingOk
    <3>3. 0 \in 0..TickEscalation
      OBVIOUS
    <3> QED BY <3>1, <3>2, <3>3
  <2>2. CASE MappingFails
    <3>1. PICK rejected \in {pass.st.rejected, Count(pass.st.rejected, TickEscalation)} :
            /\ pass' = [pass EXCEPT !.pc = "fetch", !.rejected = rejected, !.usable = pass.st.usable,
                          !.mapErr = IF pass.st.usable THEN "stale" ELSE "unusable"]
            /\ cond' = IF live THEN Escalate(cond, MappingRej, rejected, TickEscalation) ELSE cond
      BY <2>2 DEF MappingFails
    <3>2. pass.st.rejected \in 0..TickEscalation
      BY <1>0 DEF States
    <3>3. rejected \in 0..TickEscalation
      BY <3>2, CountIs
    <3>4. /\ pass'.pc = "fetch" /\ pass'.st = pass.st /\ pass'.rejected = rejected
          /\ pass'.kind = pass.kind /\ pass'.blocked = pass.blocked
      BY <1>0, <3>1 DEF Passes
    <3>5. \/ /\ rejected >= TickEscalation
             /\ cond'.standing = cond.standing \cup {MappingRej}
          \/ /\ ~(rejected >= TickEscalation)
             /\ cond'.standing = cond.standing \ {MappingRej} /\ live
          \/ cond'.standing = cond.standing
      <4>1. CASE live
        <5>1. cond' = Escalate(cond, MappingRej, rejected, TickEscalation)
          BY <3>1, <4>1
        <5>2. /\ rejected >= TickEscalation => cond'.standing = cond.standing \cup {MappingRej}
              /\ ~(rejected >= TickEscalation) => cond'.standing = cond.standing \ {MappingRej}
          BY <1>0, <5>1 DEF Escalate, Observe, Clear, Conds
        <5> QED BY <4>1, <5>2
      <4>2. CASE ~live
        BY <3>1, <4>2
      <4> QED BY <4>1, <4>2
    <3>6. ~(rejected >= TickEscalation) => rejected < TickEscalation
      BY <3>3
    <3> QED BY <3>1, <3>3, <3>4, <3>5, <3>6
  <2> QED BY <2>1, <2>2
<1>3. /\ pass.st.rejected \in 0..TickEscalation /\ Count(pass.st.rejected, TickEscalation) >= pass.st.rejected
  <2>1. pass.st.rejected \in 0..TickEscalation
    BY <1>0 DEF States
  <2> QED BY <2>1, CountGrows
<1>4. Watching /\ MappingRej \in cond.standing => pass.st.rejected >= TickEscalation
  BY <1>1 DEF StoreInv, StandsInv, StandingBacked, Held, Settled, Backed
<1>5. live => Watching
  BY <1>1 DEF Watching, StoreInv, RestoredFirst, BlockedStops
<1>6. /\ rejected < TickEscalation /\ MappingRej \in cond.standing /\ Watching => rejected = 0
  BY <1>2, <1>3, <1>4
<1>7. SeenOff
  <2>1. \A k \in cond.standing \ cond'.standing : k = MappingRej
    BY <1>2
  <2>2. MappingRej \in cond.standing \ cond'.standing => MappingRej \in pass'.ended
    BY <1>2, <1>3, <1>4, <1>5
  <2> QED BY <2>1, <2>2 DEF SeenOff
<1>8. StandingBacked'
  <2>1. ASSUME Watching' PROVE Backed(cond'.standing, Held')
    <3>1. Watching /\ Backed(cond.standing, pass.st)
      BY <1>1, <1>2, <2>1 DEF Watching, StoreInv, StandsInv, StandingBacked, Held, Settled
    <3>2. Held' = [pass.st EXCEPT !.rejected = rejected, !.usable = pass'.usable]
      BY <1>2 DEF Held, Settled, WithMapping
    <3>3. /\ Held'.seadexFailures = pass.st.seadexFailures /\ Held'.aniListDegraded = pass.st.aniListDegraded
          /\ Held'.partialWalks = pass.st.partialWalks /\ Held'.shrunk = pass.st.shrunk
          /\ Held'.rejected = rejected
      BY <1>0, <3>2 DEF States
    <3>4. MappingRej \in cond'.standing => rejected >= TickEscalation
      BY <1>2, <1>3, <1>4, <3>1
    <3>5. \A k \in {Catalogue, AniList, Partial} \cup {ShrunkOf(a) : a \in Arrs} :
            k \in cond'.standing <=> k \in cond.standing
      BY <1>2, KeysApart
    <3> QED BY <3>1, <3>3, <3>4, <3>5 DEF Backed
  <2> QED BY <1>1, <2>1 DEF StoreInv, StandsInv, StandingBacked
<1>9. StreaksRead'
  BY <1>1, <1>2 DEF StreaksRead, Working, StoreInv, StandsInv
<1>10. DiskKnown' /\ OutageCounted' /\ StandingPersisted'
  BY <1>1, <1>2 DEF DiskKnown, OutageCounted, StandingPersisted, StoreInv, StandsInv
<1>11. WindowBacked'
  <2>1. {Unreachable, Oversize} \cap cond'.standing \subseteq cond.standing
    BY <1>2, KeysApart DEF TickKeys
  <2> QED BY <1>1, <1>2, <2>1 DEF WindowBacked, StoreInv, StandsInv
<1> QED BY <1>7, <1>8, <1>9, <1>10, <1>11 DEF StandsInv

\* The fetch is recorded: what failed is counted and judged, what came ends the outage.
LEMMA StandsRecord ==
  ASSUME StoreReliable, CoreInv, GuardInv, StoreInv, RecordSeaDexFetch
  PROVE  StandsInv' /\ SeenOff
<1> USE DEF process
<1>0. pass \in Passes /\ TypeOK /\ cond \in Conds /\ pass.st \in States /\ StagesKinds /\ outage \in 0..ReconcileEscalation
  BY TypeIs, PassFields DEF CoreInv, Stands, Runs
<1>1. /\ UNCHANGED <<disk, persistedStanding, oversizeRun, ready, restored, live>>
      /\ pass.pc = "record" /\ pass.kind = "reconcile" /\ ~pass.blocked
  BY <1>0 DEF RecordSeaDexFetch, StagesKinds, StoreInv, BlockedStops
<1>2. /\ pass.st.seadexFailures \in 0..ReconcileEscalation /\ pass.st.seadexFailures = disk.seadexFailures
      /\ outage <= pass.st.seadexFailures
  BY <1>0, <1>1 DEF States, StoreInv, StandsInv, StreaksRead, OutageCounted, Working
<1>3. Watching /\ Backed(cond.standing, WithMapping(pass.st))
  BY <1>1 DEF Watching, StoreInv, StandsInv, StandingBacked, Held, Settled, RestoredFirst
<1> DEFINE n == FailuresWithThis(pass)
<1>4. /\ n = Count(pass.st.seadexFailures, ReconcileEscalation) /\ n \in 0..ReconcileEscalation
      /\ n >= pass.st.seadexFailures /\ Count(outage, ReconcileEscalation) <= n
  BY <1>0, <1>2, CountIs, CountGrows DEF FailuresWithThis
<1> HIDE DEF n
\* What a pass recording m failures leaves, its standing set holding the condition only at the threshold.
<1>5. ASSUME NEW m \in 0..ReconcileEscalation, pass'.st = [pass.st EXCEPT !.seadexFailures = m],
             pass'.pc = "gate", pass'.kind = "reconcile", pass'.blocked = pass.blocked,
             pass'.rejected = pass.rejected,
             cond'.standing \ {Catalogue, Unreachable} = cond.standing \ {Catalogue, Unreachable},
             Catalogue \in cond'.standing <=> m >= ReconcileEscalation
      PROVE  StandingBacked' /\ StreaksRead' /\ StandingPersisted' /\ DiskKnown'
  <2>1. /\ Held'.seadexFailures = m /\ Held'.rejected = WithMapping(pass.st).rejected
        /\ Held'.aniListDegraded = WithMapping(pass.st).aniListDegraded
        /\ Held'.partialWalks = WithMapping(pass.st).partialWalks
        /\ Held'.shrunk = WithMapping(pass.st).shrunk
    BY <1>0, <1>5 DEF Held, Settled, WithMapping, States
  <2>2. \A k \in {AniList, Partial, MappingRej} \cup {ShrunkOf(a) : a \in Arrs} :
          k \in cond'.standing <=> k \in cond.standing
    <3>1. \A k \in {AniList, Partial, MappingRej} \cup {ShrunkOf(a) : a \in Arrs} : k \notin {Catalogue, Unreachable}
      BY KeysApart DEF TickKeys
    <3>2. \A k : k \notin {Catalogue, Unreachable} => (k \in cond'.standing <=> k \in cond.standing)
      BY <1>5
    <3> QED BY <3>1, <3>2
  <2>3. Backed(cond'.standing, Held')
    BY <1>3, <1>5, <2>1, <2>2 DEF Backed
  <2>4. StandingBacked'
    BY <1>1, <2>3 DEF StandingBacked, StoreInv, StandsInv
  <2> QED BY <1>1, <1>5, <2>4 DEF StreaksRead, StandingPersisted, DiskKnown, StoreInv, StandsInv
<1>6. CASE RecordFetchOk(pass)
  <2>1. /\ pass' = Ended([pass EXCEPT !.pc = "gate", !.st.seadexFailures = 0], {Catalogue, Unreachable})
        /\ cond' = Clear(Clear(cond, Catalogue), Unreachable) /\ unreachableRun' = 0 /\ outage' = 0
        /\ pass.sea # "failed"
    BY <1>6 DEF RecordFetchOk
  <2>2. PICK st : st = [pass.st EXCEPT !.seadexFailures = 0]
    OBVIOUS
  <2>3. pass' = Ended([pass EXCEPT !.pc = "gate", !.st = st], {Catalogue, Unreachable})
    BY <2>1, <2>2
  <2>4. /\ pass'.st = [pass.st EXCEPT !.seadexFailures = 0] /\ pass'.pc = "gate" /\ pass'.kind = "reconcile"
        /\ pass'.blocked = pass.blocked /\ pass'.rejected = pass.rejected /\ pass'.sea = pass.sea
        /\ {Catalogue, Unreachable} \subseteq pass'.ended
    BY <1>0, <1>1, <2>2, <2>3 DEF Ended, Passes
  <2>5. cond'.standing = cond.standing \ {Catalogue, Unreachable}
    BY <1>0, <2>1 DEF Clear, Conds
  <2>6. 0 \in 0..ReconcileEscalation /\ ~(0 >= ReconcileEscalation)
    OBVIOUS
  <2>7. StandingBacked' /\ StreaksRead' /\ StandingPersisted' /\ DiskKnown'
    BY <1>5, <2>4, <2>5, <2>6
  <2>8. OutageCounted'
    <3>1. disk.seadexFailures \in 0..ReconcileEscalation /\ pass'.st.seadexFailures = 0
      BY <1>0, <1>2, <2>4 DEF States
    <3> QED BY <1>1, <2>1, <2>4, <3>1 DEF OutageCounted
  <2>9. WindowBacked'
    BY <1>1, <2>5 DEF WindowBacked, StoreInv, StandsInv
  <2>10. SeenOff
    BY <2>4, <2>5 DEF SeenOff
  <2> QED BY <2>7, <2>8, <2>9, <2>10 DEF StandsInv
<1>7. CASE RecordFetchFailed(pass) /\ live
  <2>1. /\ pass' = [pass EXCEPT !.pc = "gate", !.st.seadexFailures = n]
        /\ cond' = Escalate(cond, Catalogue, n, ReconcileEscalation)
        /\ unreachableRun' = unreachableRun /\ outage' = outage /\ pass.sea = "failed"
    BY <1>7 DEF RecordFetchFailed, n
  <2>2. PICK st : st = [pass.st EXCEPT !.seadexFailures = n]
    OBVIOUS
  <2>3. pass' = [pass EXCEPT !.pc = "gate", !.st = st]
    BY <2>1, <2>2
  <2>4. /\ pass'.st = [pass.st EXCEPT !.seadexFailures = n] /\ pass'.pc = "gate" /\ pass'.kind = "reconcile"
        /\ pass'.blocked = pass.blocked /\ pass'.rejected = pass.rejected /\ pass'.sea = "failed"
    BY <1>0, <1>1, <2>1, <2>2, <2>3 DEF Passes
  <2>5. /\ n >= ReconcileEscalation => cond'.standing = cond.standing \cup {Catalogue}
        /\ ~(n >= ReconcileEscalation) => cond'.standing = cond.standing \ {Catalogue}
    BY <1>0, <2>1 DEF Escalate, Observe, Clear, Conds
  <2>6. StandingBacked' /\ StreaksRead' /\ StandingPersisted' /\ DiskKnown'
    BY <1>4, <1>5, <2>4, <2>5
  <2>7. pass'.st.seadexFailures = n
    BY <1>0, <2>4 DEF States
  <2>8. OutageCounted'
    BY <1>0, <1>1, <1>2, <1>4, <2>1, <2>4, <2>7 DEF OutageCounted
  <2>9. WindowBacked'
    <3>1. Catalogue # Unreachable /\ Catalogue # Oversize
      BY KeysApart DEF TickKeys
    <3> QED BY <1>1, <2>1, <2>4, <2>5, <3>1 DEF WindowBacked, StoreInv, StandsInv
  <2>10. SeenOff
    <3>1. Catalogue \in cond.standing => n >= ReconcileEscalation
      <4>1. WithMapping(pass.st).seadexFailures = pass.st.seadexFailures
        BY <1>0 DEF WithMapping, States
      <4> QED BY <1>2, <1>3, <1>4, <4>1 DEF Backed
    <3> QED BY <2>5, <3>1 DEF SeenOff
  <2> QED BY <2>6, <2>8, <2>9, <2>10 DEF StandsInv
<1>8. CASE RecordFetchFailed(pass) /\ ~live
  <2>1. /\ pass' = [pass EXCEPT !.pc = "gate", !.sea = "cancelled"] /\ cond' = cond
        /\ unreachableRun' = unreachableRun /\ outage' = outage
    BY <1>8 DEF RecordFetchFailed
  <2>2. /\ pass'.st = pass.st /\ pass'.pc = "gate" /\ pass'.kind = "reconcile"
        /\ pass'.blocked = pass.blocked /\ pass'.rejected = pass.rejected /\ pass'.sea = "cancelled"
    BY <1>0, <1>1, <2>1 DEF Passes
  <2>3. pass'.st = [pass.st EXCEPT !.seadexFailures = pass.st.seadexFailures]
    BY <1>0, <2>2 DEF States
  <2>4. Catalogue \in cond.standing <=> pass.st.seadexFailures >= ReconcileEscalation
    <3>1. WithMapping(pass.st).seadexFailures = pass.st.seadexFailures
      BY <1>0 DEF WithMapping, States
    <3> QED BY <1>3, <3>1 DEF Backed
  <2>5. StandingBacked' /\ StreaksRead' /\ StandingPersisted' /\ DiskKnown'
    BY <1>2, <1>5, <2>1, <2>2, <2>3, <2>4
  <2>6. OutageCounted' /\ WindowBacked' /\ SeenOff
    BY <1>1, <1>2, <2>1, <2>2 DEF OutageCounted, WindowBacked, SeenOff, StoreInv, StandsInv
  <2> QED BY <2>5, <2>6 DEF StandsInv
<1> QED BY <1>6, <1>7, <1>8 DEF RecordSeaDexFetch, RecordFetchFailed

\* The walk is merged: an arr's condition stands with its streak at the threshold.
LEMMA StandsMerge ==
  ASSUME StoreReliable, CoreInv, GuardInv, StoreInv, MergeShrunkSides
  PROVE  StandsInv' /\ SeenOff
<1> USE DEF process
<1>0. pass \in Passes /\ TypeOK /\ cond \in Conds /\ pass.st \in States /\ StagesKinds
  BY TypeIs, PassFields DEF CoreInv, Stands
<1>1. /\ UNCHANGED <<disk, persistedStanding, outage, oversizeRun, unreachableRun, ready, restored, live>>
      /\ pass.pc = "gate" /\ pass.kind = "reconcile" /\ ~pass.blocked
  BY <1>0 DEF MergeShrunkSides, StagesKinds, StoreInv, BlockedStops
<1> DEFINE suspects == Suspects(pass.st, pass.snap)
           streak(a) == ShrinkStreak(pass.st, pass.snap, a)
           shrunk   == [a \in Arrs |-> IF a \in suspects THEN streak(a) ELSE 0]
           snap     == CarryPriorItems(pass.snap, pass.st.lib, suspects)
           ended    == {ShrunkOf(a) : a \in Arrs \ suspects}
           stands   == {ShrunkOf(a) : a \in {b \in suspects : streak(b) >= ReconcileEscalation}}
           ends     == {ShrunkOf(a) : a \in Arrs} \ stands
<1>2. /\ pass' = Ended([pass EXCEPT !.pc = "upstream", !.suspects = suspects,
                          !.snap = snap, !.st.shrunk = shrunk], ended)
      /\ cond'.standing = (cond.standing \ ends) \cup stands
  BY DEF MergeShrunkSides
<1>3. \A a \in suspects : a \in Arrs /\ streak(a) = pass.st.shrunk[a] + 1
  BY DEF Suspects, ShrinkStreak
<1>4. \A a \in Arrs : pass.st.shrunk[a] \in Nat
  <2>1. pass.st.shrunk \in [Arrs -> 0..(ShrunkAccept - 1)]
    BY <1>0 DEF States
  <2> QED BY <2>1
<1>5. Watching /\ Backed(cond.standing, WithMapping(pass.st))
  BY <1>1 DEF Watching, StoreInv, StandsInv, StandingBacked, Held, Settled, RestoredFirst
<1>6. \A a \in Arrs : ShrunkOf(a) \in cond.standing => pass.st.shrunk[a] >= ReconcileEscalation
  <2>1. WithMapping(pass.st).shrunk = pass.st.shrunk
    BY <1>0 DEF WithMapping, States
  <2> QED BY <1>5, <2>1 DEF Backed
\* An arr's condition stands afterwards exactly when the arr is suspect at the threshold.
<1>7. \A a \in Arrs : ShrunkOf(a) \in cond'.standing => a \in suspects /\ streak(a) >= ReconcileEscalation
  <2> SUFFICES ASSUME NEW a \in Arrs, ShrunkOf(a) \in cond'.standing
               PROVE  a \in suspects /\ streak(a) >= ReconcileEscalation
    OBVIOUS
  <2>1. ShrunkOf(a) \in stands
    BY <1>2
  <2>2. PICK b \in suspects : streak(b) >= ReconcileEscalation /\ ShrunkOf(b) = ShrunkOf(a)
    BY <2>1
  <2>3. a = b
    BY <1>3, <2>2, KeysApart
  <2> QED BY <2>2, <2>3
<1>8. /\ pass'.pc = "upstream" /\ pass'.kind = "reconcile" /\ pass'.blocked = pass.blocked
      /\ pass'.rejected = pass.rejected /\ pass'.usable = pass.usable /\ pass'.sea = pass.sea
      /\ ended \subseteq pass'.ended /\ pass'.st = [pass.st EXCEPT !.shrunk = shrunk]
  <2> HIDE DEF suspects, shrunk, snap, ended
  <2>1. PICK st : st = [pass.st EXCEPT !.shrunk = shrunk]
    OBVIOUS
  <2>2. pass' = Ended([pass EXCEPT !.pc = "upstream", !.suspects = suspects, !.snap = snap, !.st = st], ended)
    BY <1>2, <2>1
  <2> QED BY <1>0, <1>1, <2>1, <2>2 DEF Passes, Ended
<1>9. SeenOff
  <2> SUFFICES ASSUME NEW k \in cond.standing \ cond'.standing
               PROVE  k \in pass'.ended
    BY DEF SeenOff
  <2>1. k \in ends
    BY <1>2
  <2>2. PICK a \in Arrs : k = ShrunkOf(a)
    BY <2>1
  <2>3. pass.st.shrunk[a] >= ReconcileEscalation
    BY <1>6, <2>2
  <2>4. a \notin suspects
    <3>1. SUFFICES ASSUME a \in suspects PROVE FALSE
      OBVIOUS
    <3>2. streak(a) >= ReconcileEscalation
      BY <1>3, <1>4, <2>3, <3>1
    <3>3. k \in stands
      BY <2>2, <3>1, <3>2
    <3> QED BY <2>1, <3>3
  <2>5. k \in ended
    BY <2>2, <2>4
  <2> QED BY <1>8, <2>5
<1>10. /\ \A k \in {Unreachable, Oversize, Catalogue, AniList, Partial, MappingRej} :
            k \in cond'.standing <=> k \in cond.standing
  <2>1. \A k \in {Unreachable, Oversize, Catalogue, AniList, Partial, MappingRej} :
          k \notin {ShrunkOf(a) : a \in Arrs}
    BY KeysApart DEF TickKeys
  <2>2. stands \subseteq {ShrunkOf(a) : a \in Arrs} /\ ends \subseteq {ShrunkOf(a) : a \in Arrs}
    BY <1>3
  <2> HIDE DEF stands, ends
  <2> QED BY <1>2, <2>1, <2>2
<1>11. pass'.st.seadexFailures = pass.st.seadexFailures
  <2> HIDE DEF shrunk
  <2> QED BY <1>0, <1>8 DEF States
<1>12. StandingBacked'
  <2>1. /\ Held'.shrunk = shrunk /\ Held'.seadexFailures = WithMapping(pass.st).seadexFailures
        /\ Held'.aniListDegraded = WithMapping(pass.st).aniListDegraded
        /\ Held'.partialWalks = WithMapping(pass.st).partialWalks
        /\ Held'.rejected = WithMapping(pass.st).rejected
    <3> HIDE DEF shrunk, suspects, streak
    <3> QED BY <1>0, <1>8 DEF Held, Settled, WithMapping, States
  <2>2. \A a \in Arrs : ShrunkOf(a) \in cond'.standing => shrunk[a] >= ReconcileEscalation
    BY <1>7
  <2> HIDE DEF shrunk, suspects, streak, stands, ends
  <2>3. Backed(cond'.standing, Held')
    BY <1>5, <1>10, <2>1, <2>2 DEF Backed
  <2> QED BY <1>1, <2>3 DEF StandingBacked, StoreInv, StandsInv
<1> HIDE DEF shrunk, suspects, streak, stands, ends, ended, snap
<1>13. StreaksRead' /\ StandingPersisted' /\ DiskKnown' /\ OutageCounted' /\ WindowBacked'
  BY <1>1, <1>8, <1>10, <1>11 DEF StreaksRead, StandingPersisted, DiskKnown, OutageCounted, WindowBacked, StoreInv, StandsInv
<1> QED BY <1>9, <1>12, <1>13 DEF StandsInv

\* A gate that closes the pass, and a match cut short, save the streaks it holds.
LEMMA StandsExit ==
  ASSUME StoreReliable, CoreInv, GuardInv, StoreInv,
         LibraryGate \/ UpstreamGate \/ FinishInterruptedMatch
  PROVE  StandsInv' /\ SeenOff
<1> USE DEF process
<1>0. pass \in Passes /\ TypeOK /\ cond \in Conds /\ pass.st \in States /\ StagesKinds
  BY TypeIs, PassFields DEF CoreInv, Stands
<1>1. /\ UNCHANGED <<outage, oversizeRun, unreachableRun, ready, restored, cond, live>>
      /\ pass.pc \in {"gate", "upstream", "match"} /\ pass.kind = "reconcile"
  BY <1>0 DEF LibraryGate, UpstreamGate, FinishInterruptedMatch, StagesKinds
<1>2. Held = WithMapping(pass.st)
  BY <1>1 DEF Held, Settled
<1>3. \A q \in {Close(pass, ready), Interrupt(pass)} :
        q.pc = "end" /\ q.blocked = pass.blocked /\ q.kind = pass.kind /\ q.sea = pass.sea
  BY <1>0 DEF Close, Interrupt, Passes
<1>4. \/ /\ pass' \in {Close(pass, ready), Interrupt(pass)}
         /\ Save(WithMapping(pass.st), cond.standing, pass.blocked)
            \/ Save(WithWalk(pass.st), cond.standing, pass.blocked)
      \/ pass' = [pass EXCEPT !.pc = "match"] /\ UNCHANGED <<disk, persistedStanding>>
  BY DEF LibraryGate, UpstreamGate, FinishInterruptedMatch
<1>5. CASE /\ pass' \in {Close(pass, ready), Interrupt(pass)}
           /\ Save(WithMapping(pass.st), cond.standing, pass.blocked)
              \/ Save(WithWalk(pass.st), cond.standing, pass.blocked)
  <2>1. PICK st \in States : Streaks(st) = Streaks(Held) /\ Save(st, cond.standing, pass.blocked)
    BY <1>0, <1>2, <1>5, WithTypes, StreaksOf
  <2>2. Save(st, cond'.standing, pass.blocked) /\ cond' \in Conds
    BY <1>0, <1>1, <2>1
  <2>3. DiskKnown' /\ StandingBacked' /\ StreaksRead' /\ OutageCounted' /\ StandingPersisted'
    BY <1>1, <1>3, <1>5, <2>1, <2>2, ExitSaved DEF Settled
  <2>4. WindowBacked' /\ SeenOff
    BY <1>1, <1>3, <1>5 DEF WindowBacked, SeenOff, StoreInv, StandsInv
  <2> QED BY <2>3, <2>4 DEF StandsInv
<1>6. CASE pass' = [pass EXCEPT !.pc = "match"] /\ UNCHANGED <<disk, persistedStanding>>
  <2>1. /\ pass'.pc = "match" /\ pass'.st = pass.st /\ pass'.kind = pass.kind /\ pass'.blocked = pass.blocked
        /\ pass'.rejected = pass.rejected /\ pass'.usable = pass.usable /\ pass'.sea = pass.sea
    BY <1>0, <1>6 DEF Passes
  <2>2. Watching' => Watching /\ Held' = Held
    BY <1>1, <1>2, <2>1 DEF Watching, Held, Settled, WithMapping
  <2>3. StreaksRead'
    BY <1>1, <2>1 DEF StreaksRead
  <2> QED BY <1>1, <1>6, <2>1, <2>2, <2>3, QuietKeeps
<1> QED BY <1>4, <1>5, <1>6

\* A degraded pass never shortens the streak it adds to.
LEMMA AdvanceIs ==
  ASSUME NEW n \in 0..ReconcileEscalation, NEW degraded \in BOOLEAN
  PROVE  /\ Advance(n, degraded) \in 0..ReconcileEscalation
         /\ degraded => Advance(n, degraded) >= n
<1>1. CASE degraded
  BY <1>1, CountIs, CountGrows DEF Advance
<1>2. CASE ~degraded
  BY <1>2 DEF Advance
<1> QED BY <1>1, <1>2

\* A finished pass judges its lookups and its walk, and saves what it learned.
LEMMA StandsFinish ==
  ASSUME StoreReliable, CoreInv, GuardInv, StoreInv, FinishCompletedCycle
  PROVE  StandsInv' /\ SeenOff
<1> USE DEF process
<1>0. pass \in Passes /\ TypeOK /\ cond \in Conds /\ pass.st \in States /\ StagesKinds /\ pass.partial \in BOOLEAN
  BY TypeIs, PassFields DEF CoreInv, Stands
<1>1. /\ UNCHANGED <<outage, oversizeRun, unreachableRun, restored, live>> /\ ready' = TRUE
      /\ live /\ pass.pc = "match" /\ pass.kind = "reconcile" /\ ~pass.blocked /\ pass.sea = "ok"
  BY <1>0 DEF FinishCompletedCycle, StoreInv, BlockedStops, SeaKnown
<1>2. Backed(cond.standing, WithMapping(pass.st))
  BY <1>1 DEF Watching, StoreInv, StandsInv, StandingBacked, Held, Settled, RestoredFirst
<1>3. PICK degraded \in BOOLEAN :
        LET ani  == Advance(pass.st.aniListDegraded, degraded)
            part == Advance(pass.st.partialWalks, pass.partial)
            c    == Escalate(Escalate(cond, AniList, ani, ReconcileEscalation),
                             Partial, part, ReconcileEscalation)
            st   == [WithWalk(pass.st) EXCEPT !.aniListDegraded = ani, !.partialWalks = part] IN
        /\ cond' = c
        /\ pass' = Ended(Close(pass, TRUE), (IF degraded THEN {} ELSE {AniList}) \cup
                                            (IF pass.partial THEN {} ELSE {Partial}))
        /\ Save(st, c.standing, pass.blocked)
  BY DEF FinishCompletedCycle
<1> DEFINE ani  == Advance(pass.st.aniListDegraded, degraded)
           part == Advance(pass.st.partialWalks, pass.partial)
           st   == [WithWalk(pass.st) EXCEPT !.aniListDegraded = ani, !.partialWalks = part]
           ks   == (IF degraded THEN {} ELSE {AniList}) \cup (IF pass.partial THEN {} ELSE {Partial})
<1>4. /\ cond' = Escalate(Escalate(cond, AniList, ani, ReconcileEscalation), Partial, part, ReconcileEscalation)
      /\ pass' = Ended(Close(pass, TRUE), ks)
      /\ Save(st, cond'.standing, pass.blocked)
  BY <1>3
<1>5. /\ ani \in 0..ReconcileEscalation /\ part \in 0..ReconcileEscalation
      /\ degraded => ani >= pass.st.aniListDegraded
      /\ pass.partial => part >= pass.st.partialWalks
  <2>1. pass.st.aniListDegraded \in 0..ReconcileEscalation /\ pass.st.partialWalks \in 0..ReconcileEscalation
    BY <1>0 DEF States
  <2> QED BY <1>0, <2>1, AdvanceIs
<1> HIDE DEF ani, part, ks
<1>6. /\ st \in States
      /\ Streaks(st) = <<pass.st.seadexFailures, ani, part, pass.rejected, pass.st.shrunk>>
  <2>1. WithWalk(pass.st) \in States
    BY <1>0, WithTypes
  <2>2. /\ WithWalk(pass.st).seadexFailures = pass.st.seadexFailures /\ WithWalk(pass.st).rejected = pass.rejected
        /\ WithWalk(pass.st).shrunk = pass.st.shrunk
    BY <1>0, StreaksOf DEF Streaks
  <2> QED BY <1>5, <2>1, <2>2 DEF States, Streaks
<1> HIDE DEF st
<1>7. /\ pass'.pc = "end" /\ pass'.kind = "reconcile" /\ pass'.blocked = pass.blocked /\ pass'.sea = pass.sea
      /\ ks \subseteq pass'.ended
  BY <1>0, <1>1, <1>4 DEF Ended, Close, Passes
<1>8. cond' \in Conds /\ cond'.standing \in SUBSET Keys
  BY <1>0, <1>4, CondTypes, KeysIs DEF Escalate, Conds
<1>9. /\ Streaks(disk') = Streaks(st) /\ disk'.standing = cond'.standing /\ persistedStanding' = cond'.standing
  BY <1>0, <1>1, <1>4, <1>6, <1>8, SaveGives
<1>10. /\ AniList \in cond'.standing <=> ani >= ReconcileEscalation
       /\ Partial \in cond'.standing <=> part >= ReconcileEscalation
       /\ \A k : k \notin {AniList, Partial} => (k \in cond'.standing <=> k \in cond.standing)
  <2> DEFINE c == Escalate(cond, AniList, ani, ReconcileEscalation)
  <2>1. c \in Conds
    BY <1>0, CondTypes, KeysIs DEF Escalate
  <2>2. /\ ani >= ReconcileEscalation => c.standing = cond.standing \cup {AniList}
        /\ ~(ani >= ReconcileEscalation) => c.standing = cond.standing \ {AniList}
    BY <1>0 DEF Escalate, Observe, Clear, Conds
  <2>3. cond' = Escalate(c, Partial, part, ReconcileEscalation)
    BY <1>4
  <2> HIDE DEF c
  <2>4. /\ part >= ReconcileEscalation => cond'.standing = c.standing \cup {Partial}
        /\ ~(part >= ReconcileEscalation) => cond'.standing = c.standing \ {Partial}
    BY <2>1, <2>3 DEF Escalate, Observe, Clear, Conds
  <2>5. AniList # Partial
    BY KeysApart
  <2> QED BY <2>2, <2>4, <2>5
<1>11. /\ disk'.seadexFailures = pass.st.seadexFailures /\ disk'.aniListDegraded = ani
       /\ disk'.partialWalks = part /\ disk'.rejected = pass.rejected /\ disk'.shrunk = pass.st.shrunk
  BY <1>6, <1>9 DEF Streaks
<1>12. /\ WithMapping(pass.st).seadexFailures = pass.st.seadexFailures
       /\ WithMapping(pass.st).aniListDegraded = pass.st.aniListDegraded
       /\ WithMapping(pass.st).partialWalks = pass.st.partialWalks
       /\ WithMapping(pass.st).rejected = pass.rejected /\ WithMapping(pass.st).shrunk = pass.st.shrunk
  BY <1>0, StreaksOf DEF Streaks
<1>13. StandingBacked'
  <2>1. \A k \in {Catalogue, MappingRej} \cup {ShrunkOf(a) : a \in Arrs} :
          k \in cond'.standing <=> k \in cond.standing
    <3>1. \A k \in {Catalogue, MappingRej} \cup {ShrunkOf(a) : a \in Arrs} : k \notin {AniList, Partial}
      BY KeysApart
    <3> QED BY <1>10, <3>1
  <2>2. Backed(cond'.standing, disk')
    BY <1>2, <1>10, <1>11, <1>12, <2>1 DEF Backed
  <2>3. Held' = disk'
    BY <1>7 DEF Held, Settled
  <2> QED BY <1>9, <2>2, <2>3 DEF StandingBacked
<1>14. DiskKnown' /\ StreaksRead' /\ StandingPersisted'
  BY <1>7, <1>9 DEF DiskKnown, StreaksRead, StandingPersisted, Working
<1>15. OutageCounted'
  BY <1>1, <1>7, <1>11 DEF OutageCounted, StoreInv, StandsInv
<1>16. WindowBacked'
  <2>1. Oversize \in cond'.standing => Oversize \in cond.standing
    BY <1>10, KeysApart DEF TickKeys
  <2>2. Unreachable \notin cond'.standing
    <3>1. Unreachable \notin cond.standing
      BY <1>1 DEF WindowBacked, StoreInv, StandsInv
    <3> QED BY <3>1, <1>10, KeysApart DEF TickKeys
  <2> QED BY <1>1, <2>1, <2>2 DEF WindowBacked, StoreInv, StandsInv
<1>17. SeenOff
  <2>1. \A k \in cond.standing \ cond'.standing : k \in {AniList, Partial}
    BY <1>10
  <2>2. AniList \in cond.standing \ cond'.standing => ~degraded
    <3>1. pass.st.aniListDegraded \in Nat
      BY <1>0 DEF States
    <3> QED BY <1>2, <1>5, <1>10, <1>12, <3>1 DEF Backed
  <2>3. Partial \in cond.standing \ cond'.standing => ~pass.partial
    <3>1. pass.st.partialWalks \in Nat
      BY <1>0 DEF States
    <3> QED BY <1>2, <1>5, <1>10, <1>12, <3>1 DEF Backed
  <2> QED BY <1>7, <2>1, <2>2, <2>3 DEF SeenOff, ks
<1> QED BY <1>13, <1>14, <1>15, <1>16, <1>17 DEF StandsInv

\* A run's condition stands exactly with the run at the latch, and a latched run stays there.
LEMMA LatchIs ==
  ASSUME NEW n \in 0..LatchTicks, NEW c \in Conds, NEW k,
         k \in c.standing => n = LatchTicks
  PROVE  LET d == Escalate(c, k, Count(n, LatchTicks), LatchTicks) IN
         /\ k \in d.standing => Count(n, LatchTicks) = LatchTicks
         /\ c.standing \subseteq d.standing /\ d.standing \subseteq c.standing \cup {k}
<1>1. Count(n, LatchTicks) \in 0..LatchTicks /\ (n = LatchTicks => Count(n, LatchTicks) = LatchTicks)
  BY CountIs
<1> DEFINE m == Count(n, LatchTicks)
<1>2. /\ m >= LatchTicks => Escalate(c, k, m, LatchTicks).standing = c.standing \cup {k}
      /\ ~(m >= LatchTicks) => Escalate(c, k, m, LatchTicks).standing = c.standing \ {k}
  BY DEF Escalate, Observe, Clear, Conds
<1> HIDE DEF m
<1>3. m \in 0..LatchTicks /\ (n = LatchTicks => m = LatchTicks)
  BY <1>1 DEF m
<1>4. m >= LatchTicks => m = LatchTicks
  BY <1>3
<1>5. k \in c.standing => m >= LatchTicks
  BY <1>3
<1>6. /\ k \in Escalate(c, k, m, LatchTicks).standing => m = LatchTicks
      /\ c.standing \subseteq Escalate(c, k, m, LatchTicks).standing
      /\ Escalate(c, k, m, LatchTicks).standing \subseteq c.standing \cup {k}
  BY <1>2, <1>4, <1>5
<1> QED BY <1>6 DEF m

\* A tick's probe moves the window's conditions alone.
LEMMA StandsProbe ==
  ASSUME StoreInv, pass.kind = "tick", pass.pc \in {"settle", "probe"},
         UNCHANGED <<disk, persistedStanding, outage, ready, restored, live>>,
         pass'.pc \in {"end", "tickload"}, pass'.kind = "tick", pass'.sea = pass.sea,
         pass'.blocked = pass.blocked, cond'.standing \ TickKeys = cond.standing \ TickKeys,
         Oversize \in cond'.standing => oversizeRun' = LatchTicks,
         ready /\ Unreachable \in cond'.standing => unreachableRun' = LatchTicks
  PROVE  StandsInv'
<1>1. pass.sea = "none"
  BY DEF StoreInv, SeaKnown
<1>2. DiskKnown' /\ StreaksRead' /\ StandingPersisted' /\ WindowBacked' /\ OutageCounted'
  BY <1>1 DEF DiskKnown, StreaksRead, StandingPersisted, WindowBacked, OutageCounted, StoreInv, StandsInv, Working
<1>3. Watching' => Watching /\ Held = disk /\ Held' = disk'
  BY DEF Watching, Held, Settled
<1>4. StandingBacked'
  BY <1>3, BackedSame DEF StandingBacked, StoreInv, StandsInv
<1> QED BY <1>2, <1>4 DEF StandsInv

\* What a probe says is noted, and no more than it says.
LEMMA StandsTick ==
  ASSUME StoreReliable, CoreInv, GuardInv, StoreInv,
         SettleRestored \/ ProbeFails \/ ProbeEmpty \/ ProbeOversize \/ ProbeChanged
  PROVE  StandsInv' /\ SeenOff
<1> USE DEF process
<1>0. pass \in Passes /\ TypeOK /\ cond \in Conds /\ StagesKinds
      /\ unreachableRun \in 0..LatchTicks /\ oversizeRun \in 0..LatchTicks
  BY TypeIs DEF CoreInv, Stands, Runs
<1>1. /\ UNCHANGED <<disk, persistedStanding, outage, ready, restored, live>>
      /\ pass.pc \in {"settle", "probe"} /\ pass.kind = "tick"
      /\ pass.pc = "settle" <=> SettleRestored
      /\ ready <=> ~SettleRestored
  <2>1. SettleRestored =>
          UNCHANGED <<disk, persistedStanding, outage, ready, restored, live>> /\ pass.pc = "settle"
    BY DEF SettleRestored
  <2>2. ProbeFails \/ ProbeEmpty \/ ProbeOversize \/ ProbeChanged =>
          UNCHANGED <<disk, persistedStanding, outage, ready, restored, live>> /\ pass.pc = "probe"
    BY DEF ProbeFails, ProbeEmpty, ProbeOversize, ProbeChanged
  <2> QED BY <1>0, <2>1, <2>2 DEF StagesKinds
<1>2. /\ Oversize \in cond.standing => oversizeRun = LatchTicks
      /\ ready /\ Unreachable \in cond.standing => unreachableRun = LatchTicks
  BY DEF StoreInv, StandsInv, WindowBacked
<1>5. Unreachable # Oversize /\ TickKeys = {Unreachable, Oversize}
  BY KeysApart DEF TickKeys
<1>6. \A c \in Conds : /\ ResetUnreachable(c) \in Conds /\ ResetBoth(c) \in Conds /\ Clear(c, Oversize) \in Conds
                       /\ ResetUnreachable(c).standing = c.standing \ {Unreachable}
                       /\ Clear(c, Oversize).standing = c.standing \ {Oversize}
                       /\ ResetBoth(c).standing = c.standing \ TickKeys
  BY <1>5, CondTypes, KeysIs DEF ResetUnreachable, ResetBoth, Clear, Conds
<1>7. CASE SettleRestored
  <2>1. PICK probe \in {"failed", "small", "big"} :
          IF probe = "failed" THEN /\ UNCHANGED <<cond, unreachableRun, oversizeRun>>
                                   /\ pass' = Close(pass, FALSE)
          ELSE /\ unreachableRun' = 0
               /\ oversizeRun' = IF probe = "small" THEN 0 ELSE oversizeRun
               /\ cond' = IF probe = "small" THEN ResetBoth(cond)
                          ELSE ResetUnreachable(cond)
               /\ pass' = Ended(Close(pass, FALSE),
                                IF probe = "small" THEN TickKeys ELSE {Unreachable})
    BY <1>7 DEF SettleRestored
  <2>2. pass'.pc = "end" /\ pass'.blocked = pass.blocked /\ pass'.kind = pass.kind /\ pass'.sea = pass.sea
    BY <1>0, <2>1 DEF Ended, Close, Interrupt, Passes
  <2>3. CASE probe = "failed"
    <3>1. cond' = cond /\ oversizeRun' = oversizeRun
      BY <2>1, <2>3
    <3>2. StandsInv'
      BY <1>1, <1>2, <1>7, <2>2, <3>1, StandsProbe
    <3> QED BY <3>1, <3>2 DEF SeenOff
  <2>4. CASE probe = "small"
    <3>1. cond' = ResetBoth(cond) /\ pass' = Ended(Close(pass, FALSE), TickKeys)
      BY <2>1, <2>4
    <3>2. cond'.standing = cond.standing \ TickKeys /\ TickKeys \subseteq pass'.ended
      BY <1>0, <1>6, <3>1 DEF Ended, Close, Passes
    <3>3. StandsInv'
      BY <1>1, <1>5, <1>7, <2>2, <3>2, StandsProbe
    <3> QED BY <3>3, <3>2 DEF SeenOff
  <2>5. CASE probe = "big"
    <3>1. /\ cond' = ResetUnreachable(cond) /\ oversizeRun' = oversizeRun
          /\ pass' = Ended(Close(pass, FALSE), {Unreachable})
      BY <2>1, <2>5
    <3>2. /\ cond'.standing = cond.standing \ {Unreachable} /\ {Unreachable} \subseteq pass'.ended
          /\ oversizeRun' = oversizeRun
      BY <1>0, <1>6, <3>1 DEF Ended, Close, Passes
    <3>3. cond'.standing \ TickKeys = cond.standing \ TickKeys
      BY <1>5, <3>2
    <3>4. StandsInv'
      BY <1>1, <1>2, <1>7, <2>2, <3>2, <3>3, StandsProbe
    <3> QED BY <3>2, <3>4 DEF SeenOff
  <2> QED BY <2>1, <2>3, <2>4, <2>5
<1>8. CASE ProbeFails
  <2>1. CASE live
    <3>1. /\ unreachableRun' = Count(unreachableRun, LatchTicks) /\ oversizeRun' = oversizeRun
          /\ cond' = Escalate(cond, Unreachable, Count(unreachableRun, LatchTicks), LatchTicks)
          /\ pass' = Close(pass, TRUE)
      BY <1>8, <2>1 DEF ProbeFails, TickUnreadable
    <3>2. /\ Unreachable \in cond'.standing => unreachableRun' = LatchTicks
          /\ cond.standing \subseteq cond'.standing /\ cond'.standing \subseteq cond.standing \cup {Unreachable}
      <4>1. Unreachable \in cond.standing => unreachableRun = LatchTicks
        BY <1>1, <1>2, <1>8 DEF ProbeFails, SettleRestored
      <4> QED BY <1>0, <3>1, <4>1, LatchIs
    <3>3. pass'.pc = "end" /\ pass'.blocked = pass.blocked /\ pass'.kind = pass.kind /\ pass'.sea = pass.sea
      BY <1>0, <3>1 DEF Close, Interrupt, Passes
    <3>4. cond'.standing \ TickKeys = cond.standing \ TickKeys /\ (Oversize \in cond'.standing => Oversize \in cond.standing)
      BY <1>5, <3>2
    <3>5. StandsInv'
      BY <1>1, <1>2, <3>1, <3>2, <3>3, <3>4, StandsProbe
    <3> QED BY <3>2, <3>5 DEF SeenOff
  <2>2. CASE ~live
    <3>1. /\ unreachableRun' = unreachableRun /\ oversizeRun' = oversizeRun /\ cond' = cond
          /\ pass' = Interrupt(pass)
      BY <1>8, <2>2 DEF ProbeFails
    <3>2. pass'.pc = "end" /\ pass'.blocked = pass.blocked /\ pass'.kind = pass.kind /\ pass'.sea = pass.sea
      BY <1>0, <3>1 DEF Close, Interrupt, Passes
    <3>3. StandsInv'
      BY <1>1, <1>2, <3>1, <3>2, StandsProbe
    <3> QED BY <3>1, <3>3 DEF SeenOff
  <2> QED BY <2>1, <2>2
<1>9. CASE ProbeEmpty
  <2>1. cond' = ResetBoth(cond) /\ pass' = Ended(Close(pass, TRUE), TickKeys)
    BY <1>9 DEF ProbeEmpty
  <2>2. cond'.standing = cond.standing \ TickKeys /\ TickKeys \subseteq pass'.ended
    BY <1>0, <1>6, <2>1 DEF Ended, Close, Passes
  <2>3. pass'.pc = "end" /\ pass'.blocked = pass.blocked /\ pass'.kind = pass.kind /\ pass'.sea = pass.sea
    BY <1>0, <2>1 DEF Ended, Close, Interrupt, Passes
  <2>4. StandsInv'
    BY <1>1, <1>5, <2>2, <2>3, StandsProbe
  <2> QED BY <2>2, <2>4 DEF SeenOff
<1>10. CASE ProbeOversize
  <2>1. /\ oversizeRun' = Count(oversizeRun, LatchTicks)
        /\ cond' = Escalate(ResetUnreachable(cond), Oversize, Count(oversizeRun, LatchTicks), LatchTicks)
        /\ pass' = Ended(Close(pass, TRUE), {Unreachable})
    BY <1>10 DEF ProbeOversize
  <2> DEFINE c == ResetUnreachable(cond)
  <2>2. /\ c \in Conds /\ c.standing = cond.standing \ {Unreachable}
    BY <1>0, <1>6
  <2>3. cond' = Escalate(c, Oversize, Count(oversizeRun, LatchTicks), LatchTicks)
    BY <2>1
  <2> HIDE DEF c
  <2>4. Oversize \in c.standing => oversizeRun = LatchTicks
    BY <1>2, <2>2
  <2>5. /\ Oversize \in cond'.standing => oversizeRun' = LatchTicks
        /\ c.standing \subseteq cond'.standing /\ cond'.standing \subseteq c.standing \cup {Oversize}
    BY <1>0, <2>1, <2>2, <2>3, <2>4, LatchIs
  <2>6. pass'.pc = "end" /\ pass'.blocked = pass.blocked /\ pass'.kind = pass.kind /\ pass'.sea = pass.sea
    BY <1>0, <2>1 DEF Ended, Close, Interrupt, Passes
  <2>7. cond'.standing \ TickKeys = cond.standing \ TickKeys /\ Unreachable \notin cond'.standing
    BY <1>5, <2>2, <2>5
  <2>8. StandsInv'
    BY <1>1, <2>5, <2>6, <2>7, StandsProbe
  <2>9. Unreachable \in pass'.ended
    BY <1>0, <2>1 DEF Ended, Close, Passes
  <2> QED BY <2>2, <2>5, <2>8, <2>9 DEF SeenOff
<1>11. CASE ProbeChanged
  <2>1. /\ cond' = Clear(cond, Oversize) /\ unreachableRun' = unreachableRun
        /\ pass' = Ended([pass EXCEPT !.pc = "tickload"], {Oversize})
    BY <1>11 DEF ProbeChanged
  <2>2. cond'.standing = cond.standing \ {Oversize}
    BY <1>0, <1>6, <2>1
  <2>3. /\ pass'.pc = "tickload" /\ pass'.blocked = pass.blocked /\ pass'.kind = pass.kind /\ pass'.sea = pass.sea
        /\ Oversize \in pass'.ended
    BY <1>0, <2>1 DEF Ended, Passes
  <2>4. cond'.standing \ TickKeys = cond.standing \ TickKeys
    BY <1>5, <2>2
  <2>5. StandsInv'
    BY <1>1, <1>2, <2>1, <2>2, <2>3, <2>4, StandsProbe
  <2> QED BY <2>2, <2>3, <2>5 DEF SeenOff
<1> QED BY <1>7, <1>8, <1>9, <1>10, <1>11

\* A tick that ends past its fetch saves what it learned, or learned nothing.
LEMMA StandsTickEnd ==
  ASSUME StoreReliable, CoreInv, GuardInv, StoreInv, pass.kind = "tick", pass.pc \in {"fetch", "match"},
         UNCHANGED <<outage, ready, restored, live>>, NEW memo \in BOOLEAN, SaveTick(memo, cond'.standing),
         pass'.pc = "end", pass'.blocked = pass.blocked, pass'.kind = pass.kind, pass'.sea = pass.sea,
         cond' \in Conds, cond'.standing \ TickKeys = cond.standing \ TickKeys,
         Oversize \in cond'.standing => oversizeRun' = LatchTicks,
         ready /\ Unreachable \in cond'.standing => unreachableRun' = LatchTicks
  PROVE  StandsInv'
<1>0. TypeOK /\ pass.st \in States
  BY TypeIs, PassFields DEF CoreInv
<1>1. Held = WithMapping(pass.st)
  BY DEF Held, Settled
<1>2. WindowBacked'
  BY DEF WindowBacked
<1>3. CASE Save(WithMapping(pass.st), cond'.standing, pass.blocked)
  <2>1. WithMapping(pass.st) \in States
    BY <1>0, WithTypes
  <2>2. DiskKnown' /\ StandingBacked' /\ StreaksRead' /\ OutageCounted' /\ StandingPersisted'
    BY <1>1, <1>3, <2>1, ExitSaved DEF Settled
  <2> QED BY <1>2, <2>2 DEF StandsInv
<1>4. CASE pass.rejected = pass.st.rejected /\ UNCHANGED <<disk, persistedStanding>>
  <2>1. ~pass.blocked => Streaks(Held) = Streaks(disk)
    <3>1. Streaks(WithMapping(pass.st)) = Streaks(pass.st)
      BY <1>0, <1>4, StreaksOf DEF Streaks
    <3> QED BY <1>1, <3>1, StreaksStill
  <2>2. Watching' => Watching /\ ~pass.blocked /\ Held' = disk'
    BY DEF Watching, Held, Settled
  <2>3. StandingBacked'
    BY <1>4, <2>1, <2>2, BackedSame DEF StandingBacked, StoreInv, StandsInv
  <2>4. pass.sea = "none"
    BY DEF StoreInv, SeaKnown
  <2>5. DiskKnown' /\ StreaksRead' /\ OutageCounted' /\ StandingPersisted'
    BY <1>4, <2>4 DEF DiskKnown, StreaksRead, OutageCounted, StandingPersisted, StoreInv, StandsInv, Working
  <2> QED BY <1>2, <2>3, <2>5 DEF StandsInv
<1> QED BY <1>3, <1>4 DEF SaveTick, MappingWorthPersisting

\* The window's fetch and its match end what they read and keep what failed.
LEMMA StandsWindow ==
  ASSUME StoreReliable, CoreInv, GuardInv, StoreInv, WindowFetchFails \/ WindowFetch \/ TickMatch,
         cond' \in Conds
  PROVE  StandsInv' /\ SeenOff
<1> USE DEF process
<1>0. pass \in Passes /\ TypeOK /\ cond \in Conds /\ StagesKinds
      /\ unreachableRun \in 0..LatchTicks /\ oversizeRun \in 0..LatchTicks
  BY TypeIs DEF CoreInv, Stands, Runs
<1>1. /\ UNCHANGED <<outage, ready, restored, live, oversizeRun>>
      /\ pass.pc \in {"fetch", "match"} /\ pass.kind = "tick" /\ ready
  <2>1. /\ UNCHANGED <<outage, ready, restored, live, oversizeRun>>
        /\ pass.pc \in {"fetch", "match"} /\ pass.kind = "tick"
    BY DEF WindowFetchFails, WindowFetch, TickMatch
  <2> QED BY <1>0, <2>1 DEF StagesKinds
<1>2. /\ Oversize \in cond.standing => oversizeRun = LatchTicks
      /\ Unreachable \in cond.standing => unreachableRun = LatchTicks
  BY <1>1 DEF StoreInv, StandsInv, WindowBacked
<1>3. Unreachable # Oversize /\ TickKeys = {Unreachable, Oversize}
  BY KeysApart DEF TickKeys
<1>4. CASE WindowFetchFails
  <2>1. CASE live
    <3>1. /\ unreachableRun' = Count(unreachableRun, LatchTicks)
          /\ cond' = Escalate(cond, Unreachable, Count(unreachableRun, LatchTicks), LatchTicks)
          /\ pass' = Close(pass, TRUE) /\ SaveTick(FALSE, cond'.standing)
      BY <1>4, <2>1 DEF WindowFetchFails, TickUnreadable
    <3>2. /\ Unreachable \in cond'.standing => unreachableRun' = LatchTicks
          /\ cond.standing \subseteq cond'.standing /\ cond'.standing \subseteq cond.standing \cup {Unreachable}
      BY <1>0, <1>2, <3>1, LatchIs
    <3>3. pass'.pc = "end" /\ pass'.blocked = pass.blocked /\ pass'.kind = pass.kind /\ pass'.sea = pass.sea
      BY <1>0, <3>1 DEF Close, Passes
    <3>4. cond'.standing \ TickKeys = cond.standing \ TickKeys /\ (Oversize \in cond'.standing => oversizeRun' = LatchTicks)
      BY <1>1, <1>2, <1>3, <3>2
    <3>5. StandsInv'
      BY <1>1, <3>1, <3>2, <3>3, <3>4, StandsTickEnd
    <3> QED BY <3>2, <3>5 DEF SeenOff
  <2>2. CASE ~live
    <3>1. /\ unreachableRun' = unreachableRun /\ cond' = cond
          /\ pass' = Interrupt(pass) /\ SaveTick(FALSE, cond'.standing)
      BY <1>4, <2>2 DEF WindowFetchFails
    <3>2. pass'.pc = "end" /\ pass'.blocked = pass.blocked /\ pass'.kind = pass.kind /\ pass'.sea = pass.sea
      BY <1>0, <3>1 DEF Interrupt, Passes
    <3>3. StandsInv'
      BY <1>1, <1>2, <3>1, <3>2, StandsTickEnd
    <3> QED BY <3>1, <3>3 DEF SeenOff
  <2> QED BY <2>1, <2>2
<1>5. CASE TickMatch
  <2>1. PICK memo \in BOOLEAN : SaveTick(memo, cond.standing)
    BY <1>5 DEF TickMatch
  <2>2. UNCHANGED <<cond, unreachableRun>> /\ (pass' = Close(pass, TRUE) \/ pass' = Interrupt(pass))
    BY <1>5 DEF TickMatch
  <2>3. pass'.pc = "end" /\ pass'.blocked = pass.blocked /\ pass'.kind = pass.kind /\ pass'.sea = pass.sea
    BY <1>0, <2>2 DEF Close, Interrupt, Passes
  <2>4. SaveTick(memo, cond'.standing)
    BY <2>1, <2>2
  <2>5. StandsInv'
    BY <1>1, <1>2, <2>2, <2>3, <2>4, StandsTickEnd
  <2> QED BY <2>2, <2>5 DEF SeenOff
<1>6. CASE WindowFetch
  <2>1. /\ unreachableRun' = 0 /\ cond' = Clear(cond, Unreachable) /\ pass.pc = "fetch"
        /\ \/ pass' = [Ended(pass, {Unreachable}) EXCEPT !.pc = "match"] /\ UNCHANGED <<disk, persistedStanding>>
           \/ pass' = Close(Ended(pass, {Unreachable}), TRUE) /\ SaveTick(FALSE, cond'.standing)
    BY <1>6 DEF WindowFetch, ResetUnreachable
  <2>2. cond'.standing = cond.standing \ {Unreachable}
    BY <1>0, <2>1 DEF Clear, Conds
  <2>3. /\ pass'.pc \in {"match", "end"} /\ pass'.blocked = pass.blocked /\ pass'.kind = pass.kind
        /\ pass'.sea = pass.sea /\ pass'.st = pass.st /\ pass'.rejected = pass.rejected
        /\ pass'.usable = pass.usable /\ Unreachable \in pass'.ended
    <3>1. PICK p : p = Ended(pass, {Unreachable})
      OBVIOUS
    <3>2. /\ p \in Passes /\ p.blocked = pass.blocked /\ p.kind = pass.kind /\ p.sea = pass.sea /\ p.st = pass.st
          /\ p.rejected = pass.rejected /\ p.usable = pass.usable /\ Unreachable \in p.ended
      <4>1. {Unreachable} \in SUBSET Keys
        BY KeysIs
      <4> QED BY <1>0, <3>1, <4>1, ExitTypes DEF Ended, Passes
    <3>3. pass' = [p EXCEPT !.pc = "match"] \/ pass' = Close(p, TRUE)
      BY <2>1, <3>1
    <3> QED BY <3>2, <3>3 DEF Close, Passes
  <2>4. SeenOff
    BY <2>2, <2>3 DEF SeenOff
  <2>5. /\ cond'.standing \ TickKeys = cond.standing \ TickKeys
        /\ Oversize \in cond'.standing => oversizeRun' = LatchTicks
        /\ Unreachable \notin cond'.standing
    BY <1>1, <1>2, <1>3, <2>2
  <2>6. CASE pass'.pc = "end"
    <3>1. SaveTick(FALSE, cond'.standing)
      BY <1>0, <2>1, <2>6 DEF Ended, Passes
    <3>2. StandsInv'
      BY <1>1, <2>3, <2>5, <2>6, <3>1, StandsTickEnd
    <3> QED BY <2>4, <3>2
  <2>7. CASE pass'.pc = "match"
    <3>1. disk' = disk /\ persistedStanding' = persistedStanding
      BY <1>0, <2>1, <2>7 DEF Ended, Close, Passes
    <3>2. Watching' => Watching /\ Held' = Held
      BY <1>1, <2>1, <2>3, <2>7 DEF Watching, Held, Settled, WithMapping
    <3>3. StandingBacked'
      BY <2>5, <3>1, <3>2, BackedSame DEF StandingBacked, StoreInv, StandsInv
    <3>4. StreaksRead'
      BY <1>1, <2>1, <2>3, <3>1 DEF StreaksRead, Working, StoreInv, StandsInv
    <3>5. DiskKnown' /\ OutageCounted' /\ StandingPersisted' /\ WindowBacked'
      BY <1>1, <2>3, <2>5, <2>7, <3>1 DEF DiskKnown, OutageCounted, StandingPersisted, WindowBacked, StoreInv, StandsInv
    <3> QED BY <2>4, <3>3, <3>4, <3>5 DEF StandsInv
  <2> QED BY <2>3, <2>6, <2>7
<1> QED BY <1>4, <1>5, <1>6

\* A pass that ended persists what stands, and the fetch that failed is in the saved streak.
LEMMA StandsEnd ==
  ASSUME StoreReliable, CoreInv, GuardInv, StoreInv, End
  PROVE  StandsInv' /\ SeenOff
<1> USE DEF process
<1>0. pass \in Passes /\ TypeOK /\ cond \in Conds /\ disk \in States
  BY TypeIs DEF CoreInv, Stands
<1>1. /\ UNCHANGED <<ready, restored, live, unreachableRun, oversizeRun>> /\ cond'.standing = cond.standing
      /\ pass.pc = "end" /\ pass'.pc = "done" /\ pass'.kind = pass.kind /\ pass'.blocked = pass.blocked
      /\ outage' = IF pass.sea = "failed" THEN Count(outage, ReconcileEscalation) ELSE outage
  <2>1. cond' = cond \/ cond' = Restate(cond)
    BY DEF End
  <2>2. cond'.standing = cond.standing
    BY <1>0, <2>1 DEF Restate, Conds
  <2> QED BY <1>0, <2>2 DEF End, Passes
<1>2. \/ live /\ PersistStanding
      \/ ~live /\ UNCHANGED <<disk, persistedStanding>>
  BY DEF End
<1>3. /\ Streaks(disk') = Streaks(disk)
      /\ live => disk'.standing = cond'.standing /\ persistedStanding' = disk'.standing
      /\ ~live => disk' = disk
  <2>1. CASE live /\ cond.standing = persistedStanding
    <3>1. disk' = disk /\ persistedStanding' = persistedStanding
      BY <1>2, <2>1 DEF PersistStanding
    <3>2. persistedStanding = disk.standing
      BY <1>1, <2>1 DEF StoreInv, StandsInv, DiskKnown, RestoredFirst
    <3> QED BY <1>1, <2>1, <3>1, <3>2
  <2>2. CASE live /\ cond.standing # persistedStanding
    <3>1. SaveDone(disk, cond.standing)
      BY <1>0, <1>2, <2>2, NoStoreFault DEF PersistStanding
    <3>2. Streaks([disk EXCEPT !.standing = cond.standing]) = Streaks(disk)
          /\ [disk EXCEPT !.standing = cond.standing].standing = cond.standing
      BY <1>0 DEF Streaks, States
    <3> QED BY <1>1, <2>2, <3>1, <3>2 DEF SaveDone
  <2>3. CASE ~live
    BY <1>2, <2>3
  <2> QED BY <2>1, <2>2, <2>3
<1>4. DiskKnown' /\ StreaksRead' /\ StandingPersisted'
  BY <1>1, <1>3 DEF DiskKnown, StreaksRead, StandingPersisted, Working
<1>5. StandingBacked'
  <2>1. Backed(disk'.standing, disk') /\ (Watching' => Backed(cond'.standing, disk'))
    <3>1. Watching' => Watching /\ Held = disk
      BY <1>1 DEF Watching, Held, Settled
    <3>2. Watching' => Backed(cond'.standing, disk')
      BY <1>1, <1>3, <3>1, BackedSame DEF StandingBacked, StoreInv, StandsInv
    <3>3. CASE live
      BY <1>1, <1>3, <3>2, <3>3 DEF Watching, StoreInv, RestoredFirst, BlockedStops
    <3>4. CASE ~live
      BY <1>3, <3>2, <3>4 DEF StandingBacked, StoreInv, StandsInv
    <3> QED BY <3>2, <3>3, <3>4
  <2>2. Held' = disk'
    BY <1>1 DEF Held, Settled
  <2> QED BY <2>1, <2>2 DEF StandingBacked
<1>6. OutageCounted'
  <2>1. disk'.seadexFailures = disk.seadexFailures
    BY <1>3 DEF Streaks
  <2> QED BY <1>1, <2>1 DEF OutageCounted, StoreInv, StandsInv
<1>7. WindowBacked' /\ SeenOff
  BY <1>1 DEF WindowBacked, SeenOff, StoreInv, StandsInv
<1> QED BY <1>4, <1>5, <1>6, <1>7 DEF StandsInv

\* A new process has restored nothing yet.
LEMMA StandsRestart ==
  ASSUME StoreInv, Restart
  PROVE  StandsInv' /\ SeenOff
<1> USE DEF process
<1>1. /\ ~restored' /\ ~ready' /\ cond'.standing = {} /\ pass'.pc = "idle" /\ pass'.kind = "none"
      /\ disk' = disk /\ outage' = outage
  BY DEF Restart, NoPass, NoConds
<1>2. DiskKnown' /\ StreaksRead' /\ StandingPersisted' /\ WindowBacked' /\ SeenOff
  BY <1>1 DEF DiskKnown, StreaksRead, StandingPersisted, WindowBacked, SeenOff, Working
<1>3. StandingBacked'
  BY <1>1 DEF StandingBacked, Watching, StoreInv, StandsInv
<1>4. OutageCounted'
  BY <1>1 DEF OutageCounted, StoreInv, StandsInv
<1> QED BY <1>2, <1>3, <1>4 DEF StandsInv

\* The first process finds an empty state and no condition.
LEMMA StoreStart == Init => StoreInv
<1> SUFFICES ASSUME Init PROVE StoreInv
  OBVIOUS
<1>1. /\ pass.pc = "idle" /\ pass.kind = "none" /\ pass.sea = "none" /\ pass.blocked = FALSE
      /\ cond.standing = {} /\ ~restored /\ ~ready /\ iterations = 0 /\ outage = 0
  BY DEF Init, NewProcess, NoPass, NoConds
<1>2. disk = EmptyState /\ disk.standing = {} /\ disk.seadexFailures = 0
  BY DEF Init, EmptyState
<1>3. RestoredFirst /\ BlockedStops /\ SeaKnown
  BY <1>1 DEF RestoredFirst, BlockedStops, SeaKnown
<1>4. DiskKnown /\ StreaksRead /\ StandingPersisted /\ WindowBacked
  BY <1>1 DEF DiskKnown, StreaksRead, StandingPersisted, WindowBacked, Working
<1>5. OutageCounted
  BY <1>1, <1>2 DEF OutageCounted
<1>6. StandingBacked
  <2>1. Backed(disk.standing, disk)
    BY <1>2 DEF Backed
  <2> QED BY <1>1, <2>1 DEF StandingBacked, Watching
<1> QED BY <1>3, <1>4, <1>5, <1>6 DEF StoreInv, StandsInv

\* Each step keeps the conditions backed by their streaks, and sees off what it drops.
LEMMA StoreNext ==
  ASSUME StoreReliable, CoreInv, GuardInv, StoreInv, [Next]_vars
  PROVE  StoreInv' /\ SeenOff
<1>0. StagesKinds' /\ cond' \in Conds
  <2>1. CoreInv'
    BY CoreStep
  <2> QED BY <2>1 DEF CoreInv, TypeOK, Conds
<1>1. RestoredFirst' /\ BlockedStops' /\ SeaKnown'
  <2>1. CASE Next
    BY <2>1, StagesStep DEF StoreInv
  <2>2. CASE UNCHANGED vars
    BY <2>2 DEF vars, process, StoreInv, RestoredFirst, BlockedStops, SeaKnown
  <2> QED BY <2>1, <2>2
<1>2. CASE Begin \/ Rest \/ Cancel \/ CalmDown \/ UNCHANGED vars
  BY <1>0, <1>1, <1>2, StandsQuiet DEF StoreInv
<1>3. CASE ReconcileLoad \/ TickLoad
  BY <1>1, <1>3, StandsLoad DEF StoreInv
<1>4. CASE Walk \/ Fetch
  BY <1>1, <1>4, StandsWalk DEF StoreInv
<1>5. CASE WalkFailed \/ WalkInterrupted
  BY <1>1, <1>5, StandsWalkFailed DEF StoreInv
<1>6. CASE MappingOk \/ MappingFails
  BY <1>1, <1>6, StandsMapping DEF StoreInv
<1>7. CASE RecordSeaDexFetch
  BY <1>1, <1>7, StandsRecord DEF StoreInv
<1>8. CASE MergeShrunkSides
  BY <1>1, <1>8, StandsMerge DEF StoreInv
<1>9. CASE LibraryGate \/ UpstreamGate \/ FinishInterruptedMatch
  BY <1>1, <1>9, StandsExit DEF StoreInv
<1>10. CASE FinishCompletedCycle
  BY <1>1, <1>10, StandsFinish DEF StoreInv
<1>11. CASE SettleRestored \/ ProbeFails \/ ProbeEmpty \/ ProbeOversize \/ ProbeChanged
  BY <1>1, <1>11, StandsTick DEF StoreInv
<1>12. CASE WindowFetchFails \/ WindowFetch \/ TickMatch
  BY <1>0, <1>1, <1>12, StandsWindow DEF StoreInv
<1>13. CASE End
  BY <1>1, <1>13, StandsEnd DEF StoreInv
<1>14. CASE Restart
  BY <1>1, <1>14, StandsRestart DEF StoreInv
<1> QED BY <1>2, <1>3, <1>4, <1>5, <1>6, <1>7, <1>8, <1>9, <1>10, <1>11, <1>12, <1>13, <1>14
        DEF Next, Step, Reconcile, Tick

\* In every behaviour of a reliable store the conditions are backed.
LEMMA StoreHolds ==
  ASSUME StoreReliable
  PROVE  Spec => [](CoreInv /\ GuardInv /\ StoreInv)
<1>1. CoreInv /\ GuardInv /\ StoreInv /\ [Next]_vars => StoreInv'
  BY StoreNext
<1> QED BY <1>1, StoreStart, CoreStart, CoreStep, GuardStart, GuardNext, PTL DEF Spec

(* While state.json can be read and written, a pass no shutdown cut short      *)
(* leaves in it exactly the conditions that stand, so a restart between passes *)
(* loses and revives nothing.                                                  *)
THEOREM StandingKept ==
  ASSUME StoreReliable
  PROVE  Spec => []StandingPersisted
<1>1. StoreInv => StandingPersisted
  BY DEF StoreInv, StandsInv
<1> QED BY <1>1, StoreHolds, PTL

(* While state.json can be read and written, as many finished reconciles in a  *)
(* row as the threshold that could not read the catalogue leave the condition  *)
(* standing, whichever gate closed them and however many shutdowns or restarts *)
(* came between.                                                               *)
THEOREM OutageEscalates ==
  ASSUME StoreReliable
  PROVE  Spec => []EscalatesInTime
<1>1. CoreInv /\ StoreInv => EscalatesInTime
  <2> SUFFICES ASSUME CoreInv, StoreInv, pass.pc \in {"idle", "done"}, live, restored,
                      outage >= ReconcileEscalation
               PROVE  Catalogue \in cond.standing
    BY DEF EscalatesInTime
  <2>1. Watching /\ Held = disk
    BY DEF Watching, Held, Settled, StoreInv, BlockedStops
  <2>2. disk.seadexFailures >= ReconcileEscalation
    <3>1. outage <= disk.seadexFailures
      BY DEF StoreInv, StandsInv, OutageCounted
    <3>2. outage \in Nat /\ disk.seadexFailures \in Nat
      BY TypeIs DEF CoreInv, Runs, States
    <3> QED BY <3>1, <3>2
  <2> QED BY <2>1, <2>2 DEF StoreInv, StandsInv, StandingBacked, Backed
<1> QED BY <1>1, StoreHolds, PTL

(* While state.json can be read and written, a condition leaves the standing   *)
(* set of a running process only in a pass that saw it end: no failed read and *)
(* no restored streak ends one.                                                *)
THEOREM EndsSeen ==
  ASSUME StoreReliable
  PROVE  Spec => EndsOnEvidence
<1>1. CoreInv /\ GuardInv /\ StoreInv /\ [Next]_vars =>
        [\A k \in cond.standing \ cond'.standing : k \in pass'.ended \/ ~restored']_vars
  BY StoreNext DEF SeenOff
<1> QED BY <1>1, StoreHolds, PTL DEF Spec, EndsOnEvidence
=============================================================================
