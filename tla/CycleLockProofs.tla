--------------------------- MODULE CycleLockProofs ---------------------------
(* One run at a time, verdicts, exit codes and the watchdog, for any number *)
(* of polls and any lease.                                                  *)
EXTENDS CycleLock, TLAPS

USE ProcsAssumption, LeaseAssumption

\* The step of a poll, a process, the daemon or the watchdog, by name.
LEMMA Steps ==
    ASSUME [Next]_vars
    PROVE  \/ \E p \in Polls :
                 \/ PollStarts(p) \/ PollRefused(p) \/ PollAsks(p) \/ EnterRuns(p)
                 \/ EnterGated(p) \/ EnterBusy(p) \/ EnterFails(p) \/ RecordPoll(p)
                 \/ PollReturns(p) \/ PollKilled(p)
           \/ \E p \in Procs :
                 \/ CycleEnds(p) \/ Release(p) \/ Rerun(p) \/ RerunRefused(p)
                 \/ NothingQueued(p) \/ Signal(p)
           \/ Boot \/ BootDone \/ TickRuns \/ RecordTick \/ DaemonExit
           \/ ContainerKilled
           \/ Elapse \/ CheckFresh \/ CheckStale \/ MarkWedged \/ WatchStops
           \/ UNCHANGED vars
BY DEF Next, PollStep, RunStep, DaemonStep, WatchStep

\* The daemon and the polls are the processes.
LEMMA ProcsFacts == Daemon \in Procs /\ \A p \in Polls : p \in Procs
BY DEF Procs

\* What SetMarker writes has the marker's type.
LEMMA MarkerTyped ==
    ASSUME NEW h \in BOOLEAN, SetMarker(h)
    PROVE  marker' \in BOOLEAN /\ age' \in 0 .. Lease + 2 /\ named' \in BOOLEAN
<1>1. marker' \in BOOLEAN /\ named' \in BOOLEAN /\ age' = 0
  BY Zenon DEF SetMarker
<1>2. 0 \in 0 .. Lease + 2
  OBVIOUS
<1> QED BY <1>1, <1>2

\* Every step keeps the variables in their types.
LEMMA TypeStep == TypeOK /\ [Next]_vars => TypeOK'
<1> SUFFICES ASSUME TypeOK, [Next]_vars PROVE TypeOK'
    OBVIOUS
<1> USE ProcsFacts
<1> USE DEF TypeOK, Stages, Serving, Running, Results, Outcomes,
            lockVars, runVars, health, watchdog, calm, demand, history
<1>1. ASSUME NEW p \in Polls PROVE PollStarts(p) => TypeOK'
  BY DEF PollStarts, Goto
<1>2. ASSUME NEW p \in Polls PROVE PollAsks(p) => TypeOK'
  BY DEF PollAsks, Goto
<1>3. ASSUME NEW p \in Polls, EnterRuns(p) PROVE TypeOK'
  <2>1. /\ pc' \in [Procs -> Stages]
        /\ outcome' \in [Procs -> Outcomes]
        /\ lock' \in Procs /\ latest' \in Procs
        /\ owed' = {} /\ orphaned' \in BOOLEAN
    BY <1>3 DEF EnterRuns, BeginRun, Goto
  <2> QED BY <1>3, <2>1 DEF EnterRuns
<1>4. ASSUME NEW p \in Polls PROVE EnterGated(p) => TypeOK'
  BY DEF EnterGated, Goto
<1>5. ASSUME NEW p \in Polls, EnterBusy(p) PROVE TypeOK'
  <2>1. /\ pc' \in [Procs -> Stages] /\ outcome' \in [Procs -> Outcomes]
        /\ queued' \in BOOLEAN /\ owed' \subseteq Polls
    BY <1>5 DEF EnterBusy, Goto
  <2> QED BY <1>5, <2>1 DEF EnterBusy
<1>6. ASSUME NEW p \in Polls PROVE EnterFails(p) => TypeOK'
  BY DEF EnterFails, Goto
<1>7. ASSUME NEW p \in Polls PROVE PollRefused(p) => TypeOK'
  BY DEF PollRefused, End
<1>8. ASSUME NEW p \in Polls PROVE PollReturns(p) => TypeOK'
  BY DEF PollReturns, End
<1>9. ASSUME NEW p \in Polls PROVE PollKilled(p) => TypeOK'
  BY DEF PollKilled, End
<1>10. ASSUME NEW p \in Polls, RecordPoll(p) PROVE TypeOK'
  <2>1. /\ pc' \in [Procs -> Stages]
        /\ UNCHANGED <<lockVars, cancelled, result, exit, watchdog, demand, latest>>
    BY <1>10 DEF RecordPoll, Goto
  <2>2. CASE Publish(p)
    <3>1. PICK h \in BOOLEAN : h = (result[p] = "healthy") /\ SetMarker(h)
      BY <2>2, Zenon DEF Publish
    <3>2. own' \in [Procs -> {"none", "nil", "failed", "interrupted", "unwritten"}]
      BY <2>2 DEF Publish, OwnRun
    <3>3. earned' \in [Polls -> BOOLEAN]
      BY <2>2 DEF Publish
    <3> QED BY <2>1, <3>1, <3>2, <3>3, MarkerTyped
  <2>3. CASE Withhold(p) \/ WriteFails(p)
    BY <2>1, <2>3 DEF Withhold, WriteFails, OwnRun
  <2> QED BY <1>10, <2>2, <2>3 DEF RecordPoll
<1>11. ASSUME NEW p \in Procs PROVE CycleEnds(p) => TypeOK'
  BY DEF CycleEnds, Goto
<1>12. ASSUME NEW p \in Procs PROVE Release(p) => TypeOK'
  BY DEF Release, Goto
<1>13. ASSUME NEW p \in Procs PROVE Signal(p) => TypeOK'
  BY DEF Signal
<1>14. ASSUME NEW p \in Procs PROVE Rerun(p) => TypeOK'
  BY DEF Rerun, BeginRun, Goto
<1>15. ASSUME NEW p \in Procs PROVE RerunRefused(p) => TypeOK'
  BY DEF RerunRefused, Leave, Goto
<1>16. ASSUME NEW p \in Procs PROVE NothingQueued(p) => TypeOK'
  BY DEF NothingQueued, Leave, Goto
<1>17. CASE Boot
  BY <1>17, MarkerTyped DEF Boot, Goto
<1>18. CASE BootDone
  BY <1>18, MarkerTyped DEF BootDone, Goto
<1>19. CASE TickRuns
  BY <1>19 DEF TickRuns, BeginRun, Goto
<1>20. CASE RecordTick
  <2>1. /\ pc' \in [Procs -> Stages]
        /\ UNCHANGED <<lockVars, cancelled, runVars, watchdog, history>>
    BY <1>20 DEF RecordTick, Goto
  <2>2. \/ \E h \in BOOLEAN : SetMarker(h)
        \/ UNCHANGED health
    BY <1>20, Zenon DEF RecordTick
  <2> QED BY <2>1, <2>2, MarkerTyped
<1>21. CASE DaemonExit
  BY <1>21, MarkerTyped DEF DaemonExit, End
<1>22. CASE ContainerKilled
  BY <1>22 DEF ContainerKilled, End
<1>23. CASE Elapse
  BY <1>23 DEF Elapse
<1>24. CASE CheckFresh \/ CheckStale
  <2>1. warned' \in BOOLEAN /\ named' \in BOOLEAN
    BY <1>24, Zenon DEF CheckFresh, CheckStale
  <2> QED BY <1>24, <2>1 DEF CheckFresh, CheckStale
<1>26. CASE MarkWedged \/ WatchStops
  BY <1>26, MarkerTyped DEF MarkWedged, WatchStops
<1>25. CASE UNCHANGED vars
  BY <1>25 DEF vars
<1> HIDE DEF TypeOK
<1> QED BY <1>1, <1>2, <1>3, <1>4, <1>5, <1>6, <1>7, <1>8, <1>9, <1>10, <1>11,
           <1>12, <1>13, <1>14, <1>15, <1>16, <1>17, <1>18, <1>19, <1>20, <1>21,
           <1>22, <1>23, <1>24, <1>25, <1>26, Steps

\* The lock is taken where a run begins and given back where its verdict has
\* been committed, or where its process ends.
LEMMA LockStep == TypeOK /\ LockCoversRun /\ [Next]_vars => LockCoversRun'
<1> SUFFICES ASSUME TypeOK, LockCoversRun, [Next]_vars PROVE LockCoversRun'
    OBVIOUS
<1> USE DEF TypeOK, LockCoversRun, Procs, Running,
            lockVars, runVars, health, watchdog, calm, demand, history
<1>1. ASSUME NEW p \in Polls,
             \/ PollStarts(p) \/ PollAsks(p) \/ EnterRuns(p) \/ EnterGated(p)
             \/ EnterBusy(p) \/ EnterFails(p)
      PROVE LockCoversRun'
  BY <1>1 DEF PollStarts, PollAsks, EnterRuns, EnterGated, EnterBusy, EnterFails,
              Goto, BeginRun
<1>2. ASSUME NEW p \in Polls, PollRefused(p) \/ PollReturns(p) \/ PollKilled(p)
      PROVE LockCoversRun'
  BY <1>2 DEF PollRefused, PollReturns, PollKilled, End
<1>3. ASSUME NEW p \in Polls, RecordPoll(p) PROVE LockCoversRun'
  BY <1>3 DEF RecordPoll, Goto
<1>4. ASSUME NEW p \in Procs, CycleEnds(p) \/ Release(p) \/ Signal(p)
      PROVE LockCoversRun'
  BY <1>4 DEF CycleEnds, Release, Signal, Goto
<1>5. ASSUME NEW p \in Procs, Rerun(p) \/ RerunRefused(p) \/ NothingQueued(p)
      PROVE LockCoversRun'
  BY <1>5 DEF Rerun, RerunRefused, NothingQueued, BeginRun, Leave, Goto
<1>6. CASE Boot \/ BootDone
  BY <1>6 DEF Boot, BootDone, Goto
<1>10. CASE TickRuns
  BY <1>10 DEF TickRuns, BeginRun, Goto
<1>11. CASE RecordTick
  BY <1>11 DEF RecordTick, Goto
<1>7. CASE DaemonExit \/ ContainerKilled
  BY <1>7 DEF DaemonExit, ContainerKilled, End
<1>8. CASE Elapse \/ CheckFresh \/ CheckStale \/ MarkWedged \/ WatchStops
  BY <1>8 DEF Elapse, CheckFresh, CheckStale, MarkWedged, WatchStops
<1>9. CASE UNCHANGED vars
  BY <1>9 DEF vars
<1> QED BY <1>1, <1>2, <1>3, <1>4, <1>5, <1>6, <1>7, <1>8, <1>9, <1>10,
           <1>11, Steps

\* A context once cancelled stays so while its process lives, so a cycle that
\* shutdown cut short is still known as one when its verdict is due; and a
\* first run's nil is set only where its verdict is written.
LEMMA RunStepKeeps ==
    TypeOK /\ ResultsKnown /\ NilIsEarned /\ [Next]_vars => ResultsKnown' /\ NilIsEarned'
<1> SUFFICES ASSUME TypeOK, ResultsKnown, NilIsEarned, [Next]_vars
             PROVE  ResultsKnown' /\ NilIsEarned'
    OBVIOUS
<1> USE DEF TypeOK, ResultsKnown, NilIsEarned, Procs, Results,
            lockVars, runVars, health, watchdog, calm, demand, history
<1>1. ASSUME NEW p \in Polls,
             \/ PollStarts(p) \/ PollAsks(p) \/ EnterRuns(p) \/ EnterGated(p)
             \/ EnterBusy(p) \/ EnterFails(p)
      PROVE ResultsKnown' /\ NilIsEarned'
  BY <1>1 DEF PollStarts, PollAsks, EnterRuns, EnterGated, EnterBusy, EnterFails,
              Goto, BeginRun
<1>2. ASSUME NEW p \in Polls, PollRefused(p) \/ PollReturns(p) \/ PollKilled(p)
      PROVE ResultsKnown' /\ NilIsEarned'
  BY <1>2 DEF PollRefused, PollReturns, PollKilled, End
<1>3. ASSUME NEW p \in Polls, RecordPoll(p) PROVE ResultsKnown' /\ NilIsEarned'
  BY <1>3 DEF RecordPoll, Publish, Withhold, WriteFails, OwnRun, Goto
<1>4. ASSUME NEW p \in Procs, CycleEnds(p) \/ Release(p) \/ Signal(p)
      PROVE ResultsKnown' /\ NilIsEarned'
  BY <1>4 DEF CycleEnds, Release, Signal, Goto
<1>5. ASSUME NEW p \in Procs, Rerun(p) \/ RerunRefused(p) \/ NothingQueued(p)
      PROVE ResultsKnown' /\ NilIsEarned'
  BY <1>5 DEF Rerun, RerunRefused, NothingQueued, BeginRun, Leave, Goto
<1>6. CASE Boot \/ BootDone \/ TickRuns \/ RecordTick
  BY <1>6 DEF Boot, BootDone, TickRuns, RecordTick, BeginRun, Goto
<1>7. CASE DaemonExit \/ ContainerKilled
  BY <1>7 DEF DaemonExit, ContainerKilled, End
<1>8. CASE Elapse \/ CheckFresh \/ CheckStale \/ MarkWedged \/ WatchStops
  BY <1>8 DEF Elapse, CheckFresh, CheckStale, MarkWedged, WatchStops
<1>9. CASE UNCHANGED vars
  BY <1>9 DEF vars
<1> QED BY <1>1, <1>2, <1>3, <1>4, <1>5, <1>6, <1>7, <1>8, <1>9, Steps

\* The watchdog looks at the marker once a period, so no marker outlives the
\* lease by more than one, and a latch that meets a refreshed marker is cleared
\* before that marker can be stale; a stale one is therefore always named.
LEMMA WatchKeeps ==
    TypeOK /\ LatchIsBrief /\ AgeBounded /\ EachWedgeNamed /\ [Next]_vars
    => LatchIsBrief' /\ AgeBounded' /\ EachWedgeNamed'
<1> SUFFICES ASSUME TypeOK, LatchIsBrief, AgeBounded, EachWedgeNamed, [Next]_vars
             PROVE  LatchIsBrief' /\ AgeBounded' /\ EachWedgeNamed'
    OBVIOUS
<1> DEFINE Kept == LatchIsBrief' /\ AgeBounded' /\ EachWedgeNamed'
<1>a. /\ Lease \in Nat \ {0} /\ age \in 0 .. Lease + 2
      /\ watch \in {"off", "idle", "due", "stale"}
      /\ marker \in BOOLEAN /\ warned \in BOOLEAN /\ named \in BOOLEAN
  BY DEF TypeOK
<1> USE <1>a DEF LatchIsBrief, AgeBounded, EachWedgeNamed, Stale
<1>1. CASE UNCHANGED calm
  BY <1>1 DEF calm, health, watchdog
<1>2. CASE UNCHANGED watchdog /\ \E h \in BOOLEAN : SetMarker(h)
  BY <1>2 DEF SetMarker, watchdog
<1>3. CASE BootDone
  BY <1>3 DEF BootDone, SetMarker, watchdog
<1>4. CASE ContainerKilled \/ WatchStops
  BY <1>4 DEF ContainerKilled, WatchStops, health
<1>5. CASE Elapse
  BY <1>5 DEF Elapse
<1>6. CASE CheckFresh
  <2>1. /\ UNCHANGED <<marker, age, named>> /\ watch' = "idle"
        /\ warned' => warned /\ ~marker
        /\ ~(marker /\ age > Lease)
    BY <1>6, Zenon DEF CheckFresh, health
  <2> QED BY <2>1
<1>7. CASE CheckStale
  <2>1. /\ UNCHANGED <<marker, age, warned>> /\ watch = "due" /\ watch' = "stale"
        /\ named' = (named \/ ~warned)
        /\ marker /\ age > Lease
    BY <1>7, Zenon DEF CheckStale
  <2>2. ~warned
    BY <2>1
  <2>3. named'
    BY <2>1, <2>2, Zenon
  <2> QED BY <2>1, <2>2, <2>3
<1>8. CASE MarkWedged
  BY <1>8 DEF MarkWedged, SetMarker
<1>9. ASSUME NEW p \in Polls,
             \/ PollStarts(p) \/ PollRefused(p) \/ PollAsks(p) \/ EnterRuns(p)
             \/ EnterGated(p) \/ EnterBusy(p) \/ EnterFails(p)
             \/ PollReturns(p) \/ PollKilled(p)
      PROVE UNCHANGED calm
  BY <1>9 DEF PollStarts, PollRefused, PollAsks, EnterRuns, EnterGated, EnterBusy,
              EnterFails, PollReturns, PollKilled, calm
<1>10. ASSUME NEW p \in Procs,
              \/ CycleEnds(p) \/ Release(p) \/ Rerun(p) \/ RerunRefused(p)
              \/ NothingQueued(p) \/ Signal(p)
       PROVE UNCHANGED calm
  BY <1>10 DEF CycleEnds, Release, Rerun, RerunRefused, NothingQueued, Signal, calm
<1>11. ASSUME NEW p \in Polls, RecordPoll(p)
       PROVE UNCHANGED watchdog /\ (UNCHANGED health \/ \E h \in BOOLEAN : SetMarker(h))
  BY <1>11, Zenon DEF RecordPoll, Publish, Withhold, WriteFails
<1>12. CASE Boot \/ RecordTick \/ DaemonExit
  <2>1. UNCHANGED watchdog /\ (UNCHANGED health \/ \E h \in BOOLEAN : SetMarker(h))
    BY <1>12, Zenon DEF Boot, RecordTick, DaemonExit
  <2> QED BY <2>1, <1>1, <1>2 DEF calm
<1>13. CASE TickRuns \/ UNCHANGED vars
  BY <1>13, <1>1 DEF TickRuns, calm, vars, health, watchdog
<1>14. ASSUME NEW p \in Polls, RecordPoll(p) PROVE Kept
  BY <1>14, <1>11, <1>1, <1>2 DEF calm
<1> QED BY <1>1, <1>3, <1>4, <1>5, <1>6, <1>7, <1>8, <1>9, <1>10, <1>12, <1>13,
           <1>14, Steps

\* A process leaves a queued request only to one that holds the lock.
LEMMA DemandStep ==
    TypeOK /\ LockCoversRun /\ DemandStands /\ [Next]_vars => DemandStands'
<1> SUFFICES ASSUME TypeOK, LockCoversRun, DemandStands, [Next]_vars
             PROVE  DemandStands'
    OBVIOUS
<1> USE ProcsFacts
<1> USE DEF TypeOK, LockCoversRun, DemandStands, Serving, Running,
            lockVars, runVars, demand, history
<1>1. ASSUME NEW p \in Polls,
             \/ PollStarts(p) \/ PollAsks(p) \/ EnterGated(p) \/ EnterFails(p)
      PROVE DemandStands'
  BY <1>1 DEF PollStarts, PollAsks, EnterGated, EnterFails, Goto
<1>2. ASSUME NEW p \in Polls, EnterBusy(p) PROVE DemandStands'
  <2>1. lock \in Procs /\ pc[lock] \in Running /\ lock # p
    BY <1>2 DEF EnterBusy
  <2>2. pc'[lock] = pc[lock] /\ queued'
    BY <1>2, <2>1 DEF EnterBusy, Goto
  <2> QED BY <2>1, <2>2
<1>3. ASSUME NEW p \in Procs, BeginRun(p) PROVE DemandStands'
  BY <1>3 DEF BeginRun
<1>4. ASSUME NEW p \in Polls, PollRefused(p) \/ PollReturns(p) \/ PollKilled(p)
      PROVE DemandStands'
  BY <1>4 DEF PollRefused, PollReturns, PollKilled, End
<1>5. ASSUME NEW p \in Polls, RecordPoll(p) PROVE DemandStands'
  BY <1>5 DEF RecordPoll, Goto
<1>6. ASSUME NEW p \in Procs, CycleEnds(p) \/ Release(p) \/ Signal(p)
      PROVE DemandStands'
  BY <1>6 DEF CycleEnds, Release, Signal, Goto
<1>7. ASSUME NEW p \in Procs, RerunRefused(p) PROVE DemandStands'
  BY <1>7 DEF RerunRefused
<1>8. ASSUME NEW p \in Procs, NothingQueued(p) PROVE DemandStands'
  <2>1. CASE lock = NoProc
    BY <1>8, <2>1 DEF NothingQueued
  <2>2. CASE lock # NoProc
    <3>1. lock \in Procs /\ pc[lock] \in Running /\ lock # p
      BY <1>8, <2>2 DEF NothingQueued
    <3>2. pc'[lock] = pc[lock] /\ UNCHANGED <<queued, owed, orphaned>>
      BY <1>8, <3>1 DEF NothingQueued, Leave, Goto
    <3> QED BY <3>1, <3>2
  <2> QED BY <2>1, <2>2
<1>9. CASE Boot \/ BootDone \/ RecordTick
  BY <1>9 DEF Boot, BootDone, RecordTick, Goto
<1>10. CASE DaemonExit \/ ContainerKilled
  BY <1>10 DEF DaemonExit, ContainerKilled
<1>11. CASE Elapse \/ CheckFresh \/ CheckStale \/ MarkWedged \/ WatchStops
  BY <1>11 DEF Elapse, CheckFresh, CheckStale, MarkWedged, WatchStops
<1>12. CASE UNCHANGED vars
  BY <1>12 DEF vars
<1> HIDE DEF DemandStands
<1> QED BY <1>1, <1>2, <1>3, <1>4, <1>5, <1>6, <1>7, <1>8, <1>9, <1>10, <1>11,
           <1>12, Steps DEF EnterRuns, TickRuns, Rerun

\* The inductive invariant holds of every reachable state: one run at a time,
\* under the lock from its start to its verdict (NewExclusive, recordRunHealth).
THEOREM Invariance == Spec => []IInv
<1>1. Init => IInv
  <2> SUFFICES ASSUME Init PROVE IInv
    OBVIOUS
  <2>1. age \in 0 .. Lease + 2
    BY DEF Init
  <2>2. TypeOK
    BY <2>1 DEF Init, TypeOK, Stages, Results, Outcomes
  <2>3. LockCoversRun /\ ResultsKnown /\ NilIsEarned
    BY DEF Init, LockCoversRun, ResultsKnown, NilIsEarned, Procs, Running
  <2>4. LatchIsBrief /\ AgeBounded
    BY DEF Init, LatchIsBrief, AgeBounded
  <2> QED BY <2>2, <2>3, <2>4 DEF IInv
<1>2. Init => EachWedgeNamed
  BY DEF Init, EachWedgeNamed
<1>3. IInv /\ EachWedgeNamed /\ [Next]_vars => IInv' /\ EachWedgeNamed'
  BY TypeStep, LockStep, RunStepKeeps, WatchKeeps DEF IInv
<1> QED BY <1>1, <1>2, <1>3, PTL DEF Spec

\* A poll that exited 0 saying its demand stands is right (RunOnce's Queued and
\* Discarded outcomes), however many polls there are.
THEOREM AcceptedDemandStands == Spec => []DemandStands
<1>1. Init => DemandStands
  BY DEF Init, DemandStands
<1>2. IInv /\ DemandStands /\ [Next]_vars => DemandStands'
  BY DemandStep DEF IInv
<1> QED BY <1>1, <1>2, Invariance, PTL DEF Spec

\* The watchdog names every wedge it reports (checkMarkerAge's latch), and
\* reports it within a period of the lease.
THEOREM WedgesAreReported == Spec => []WedgesReported
<1>1. Init => EachWedgeNamed
  BY DEF Init, EachWedgeNamed
<1>2. IInv /\ EachWedgeNamed /\ [Next]_vars => EachWedgeNamed'
  BY WatchKeeps DEF IInv
<1>3. IInv /\ EachWedgeNamed => WedgesReported
  BY DEF IInv, AgeBounded, WedgeReportedInTime, WedgesReported
<1> QED BY <1>1, <1>2, <1>3, Invariance, PTL DEF Spec

\* A poll's exit 0 is earned (RunOnce's exit contract).
THEOREM ExitIsEarned == Spec => ExitZeroIsEarned
<1>1. ASSUME IInv, [Next]_vars
      PROVE  [\A p \in Polls : exit[p] = "none" /\ exit'[p] = "zero" =>
                 earned[p] \/ outcome[p] \in {"queued", "discarded"}]_vars
  <2> SUFFICES ASSUME NEW p \in Polls, exit[p] = "none", exit'[p] = "zero"
               PROVE  earned[p] \/ outcome[p] \in {"queued", "discarded"}
    OBVIOUS
  <2>1. TypeOK /\ NilIsEarned
    BY <1>1 DEF IInv
  <2>2. CASE \E q \in Polls : PollReturns(q)
    <3>1. PICK q \in Polls : PollReturns(q)
      BY <2>2
    <3>2. p = q
      BY <1>1, <2>1, <3>1 DEF PollReturns, TypeOK
    <3>3. NonRunResult(p) \/ OwnResult(p)
      BY <1>1, <2>1, <3>1, <3>2 DEF PollReturns, TypeOK
    <3> QED BY <2>1, <3>3 DEF NonRunResult, OwnResult, NilIsEarned
  <2>3. CASE \E q \in Polls : PollStarts(q) \/ PollRefused(q)
    BY <1>1, <2>1, <2>3 DEF PollStarts, PollRefused, TypeOK
  <2>4. ASSUME NEW q \in Polls,
               \/ PollAsks(q) \/ EnterRuns(q) \/ EnterGated(q) \/ EnterBusy(q)
               \/ EnterFails(q) \/ RecordPoll(q) \/ PollKilled(q)
        PROVE  exit' = exit
    BY <2>4 DEF PollAsks, EnterRuns, EnterGated, EnterBusy, EnterFails, RecordPoll,
                PollKilled, runVars
  <2>5. ASSUME NEW q \in Procs,
               \/ CycleEnds(q) \/ Release(q) \/ Rerun(q) \/ RerunRefused(q)
               \/ NothingQueued(q) \/ Signal(q)
        PROVE  exit' = exit
    BY <2>5 DEF CycleEnds, Release, Rerun, RerunRefused, NothingQueued, Signal, runVars
  <2>6. CASE \/ Boot \/ BootDone \/ TickRuns \/ RecordTick \/ DaemonExit
             \/ ContainerKilled \/ WatchStep \/ UNCHANGED vars
    BY <1>1, <2>6 DEF Boot, BootDone, TickRuns, RecordTick, DaemonExit, ContainerKilled,
       WatchStep, Elapse, CheckFresh, CheckStale, MarkWedged, WatchStops, runVars, vars
  <2> QED BY <1>1, <2>2, <2>3, <2>4, <2>5, <2>6, Steps DEF WatchStep
<1> QED BY <1>1, Invariance, PTL DEF Spec, ExitZeroIsEarned

\* Only the two recording actions commit a verdict.
LEMMA Recorders ==
    ASSUME TypeOK, [Next]_vars, NEW p \in Procs, pc[p] = "record", pc'[p] = "release"
    PROVE  (p \in Polls /\ RecordPoll(p)) \/ (p = Daemon /\ RecordTick)
<1> USE ProcsFacts
<1> USE DEF TypeOK
<1>1. ASSUME NEW q \in Polls,
             \/ PollStarts(q) \/ PollAsks(q) \/ EnterRuns(q) \/ EnterGated(q)
             \/ EnterBusy(q) \/ EnterFails(q)
      PROVE FALSE
  BY <1>1 DEF PollStarts, PollAsks, EnterRuns, EnterGated, EnterBusy, EnterFails,
              BeginRun, Goto
<1>2. ASSUME NEW q \in Polls, PollRefused(q) \/ PollReturns(q) \/ PollKilled(q)
      PROVE FALSE
  BY <1>2 DEF PollRefused, PollReturns, PollKilled, End
<1>3. ASSUME NEW q \in Procs, CycleEnds(q) \/ Release(q) \/ Signal(q) PROVE FALSE
  BY <1>3 DEF CycleEnds, Release, Signal, Goto
<1>4. ASSUME NEW q \in Procs, Rerun(q) \/ RerunRefused(q) \/ NothingQueued(q)
      PROVE FALSE
  BY <1>4 DEF Rerun, RerunRefused, NothingQueued, BeginRun, Leave, Goto
<1>5. CASE Boot \/ BootDone \/ TickRuns
  BY <1>5 DEF Boot, BootDone, TickRuns, BeginRun, Goto
<1>6. CASE DaemonExit \/ ContainerKilled
  BY <1>6 DEF DaemonExit, ContainerKilled, End
<1>7. CASE Elapse \/ CheckFresh \/ CheckStale \/ MarkWedged \/ WatchStops
           \/ UNCHANGED vars
  BY <1>7 DEF Elapse, CheckFresh, CheckStale, MarkWedged, WatchStops, vars
<1>8. ASSUME NEW q \in Polls, RecordPoll(q) PROVE q = p
  BY <1>8 DEF RecordPoll, Goto
<1>9. CASE RecordTick
  BY <1>9 DEF RecordTick, Goto
<1> QED BY <1>1, <1>2, <1>3, <1>4, <1>5, <1>6, <1>7, <1>8, <1>9, Steps

\* What the runs say through the marker is in their order, because each says it
\* inside the lock, and true, because recordRunHealth withholds, and the tick's
\* guard keeps back, what a cancelled context may have caused.
THEOREM VerdictsAreTrue == Spec => VerdictsTrue
<1>1. ASSUME IInv, [Next]_vars,
             NEW p \in Procs, pc[p] = "record", pc'[p] = "release"
      PROVE  health' # health => latest = p
  BY <1>1 DEF IInv, LockCoversRun, Running
<1>2. ASSUME IInv, [Next]_vars,
             NEW p \in Procs, pc[p] = "record", pc'[p] = "release", marker, ~marker'
      PROVE  result[p] = "failed"
  <2>1. /\ result[p] \in Results /\ result[p] # "none"
        /\ result[p] = "aborted" => cancelled[p]
    <3>1. TypeOK /\ ResultsKnown
      BY <1>2 DEF IInv
    <3>2. result[p] \in Results
      BY <3>1 DEF TypeOK
    <3> QED BY <1>2, <3>1, <3>2 DEF ResultsKnown
  <2>2. result[p] # "healthy" /\ ~cancelled[p]
    <3>1. CASE p \in Polls /\ RecordPoll(p)
      BY <1>2, <3>1, Zenon DEF RecordPoll, Publish, Withhold, WriteFails, SetMarker, health
    <3>2. CASE p = Daemon /\ RecordTick
      BY <1>2, <3>2, Zenon DEF RecordTick, SetMarker, health
    <3> QED BY <1>2, <3>1, <3>2, Recorders DEF IInv
  <2> QED BY <2>1, <2>2 DEF Results
<1>3. ASSUME IInv, [Next]_vars
      PROVE  [\A p \in Procs : pc[p] = "record" /\ pc'[p] = "release" =>
                 /\ health' # health => latest = p
                 /\ marker /\ ~marker' => result[p] = "failed"]_vars
  BY <1>1, <1>2, <1>3
<1> QED BY <1>3, Invariance, PTL DEF Spec, VerdictsTrue
=============================================================================
