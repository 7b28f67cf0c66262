------------------------------ MODULE CycleLock ------------------------------
(***************************************************************************)
(* Who runs a compare cycle, and what the container's health marker says    *)
(* of it (internal/cycle, and run and runPoll of main.go).  The daemon's    *)
(* ticks and the `poll` processes started beside it share one lock and a    *)
(* queue of one: a tick that finds the lock taken is skipped, a poll that   *)
(* does leaves its demand to the process that holds it and exits 0.  Each   *)
(* run commits its verdict to the marker inside the lock; the daemon's      *)
(* watchdog, which takes no lock, withdraws a marker nobody has refreshed   *)
(* within the lease.                                                        *)
(*                                                                         *)
(* scheduler.Exclusive and health.Marker are libraries: they appear as      *)
(* internal/cycle and its tests use them.  A cycle is its result.  Time     *)
(* passes in periods of the watchdog's ticker, Lease of them to a lease.    *)
(***************************************************************************)
EXTENDS Integers

CONSTANTS Daemon,  \* the container's own process
          Polls,   \* the `poll` processes run beside it
          NoProc,  \* the holder of a free lock
          Lease    \* ticks of the watchdog in a health lease (the code has 6)

ASSUME ProcsAssumption == Daemon \notin Polls /\ NoProc \notin Polls \cup {Daemon}
ASSUME LeaseAssumption == Lease \in Nat \ {0}

Procs == Polls \cup {Daemon}

VARIABLES
    lock,       \* the process that holds cycle.lock
    queued,     \* a rerun request is on file
    pc,         \* where each process is
    cancelled,  \* SIGINT or SIGTERM has cancelled its context
    result,     \* what the run in progress returned
    outcome,    \* what Exclusive made of the invocation
    own,        \* the error of the invocation's own (first) run
    exit,       \* the poll's exit code
    marker,     \* the health marker is present: the container is healthy
    age,        \* ticks since the marker was last written
    watch,      \* the watchdog's goroutine
    warned,     \* its latch: this wedge has been reported
    owed,       \* history: polls told their demand stands, no run begun since
    orphaned,   \* history: the process to serve that demand left or lost it
    earned,     \* history: the poll's own run published a healthy verdict
    latest,     \* history: the process whose run began last, until it ends
    named       \* history: an ERROR was logged since the marker was written

lockVars  == <<lock, queued, outcome>>
runVars   == <<result, own, exit>>
health    == <<marker, age, named>>
watchdog  == <<watch, warned>>
calm      == <<health, watchdog>>
demand    == <<owed, orphaned>>
history   == <<demand, earned, latest>>
vars == <<lock, queued, pc, cancelled, result, outcome, own, exit, marker,
          age, watch, warned, owed, orphaned, earned, latest, named>>

Running  == {"run", "record", "release"}
Serving  == Running \cup {"between"}
Stages   == Serving \cup {"down", "boot", "wait", "resident", "ask", "enter", "return"}
Results  == {"none", "healthy", "failed", "aborted"}
Outcomes == {"none", "ran", "queued", "discarded", "gated"}

TypeOK ==
    /\ lock \in Procs \cup {NoProc}
    /\ queued \in BOOLEAN
    /\ pc \in [Procs -> Stages]
    /\ cancelled \in [Procs -> BOOLEAN]
    /\ result \in [Procs -> Results]
    /\ outcome \in [Procs -> Outcomes]
    /\ own \in [Procs -> {"none", "nil", "failed", "interrupted", "unwritten"}]
    /\ exit \in [Polls -> {"none", "zero", "one"}]
    /\ marker \in BOOLEAN
    /\ age \in 0 .. Lease + 2
    /\ watch \in {"off", "idle", "due", "stale"}
    /\ warned \in BOOLEAN
    /\ owed \subseteq Polls
    /\ orphaned \in BOOLEAN
    /\ earned \in [Polls -> BOOLEAN]
    /\ latest \in Procs \cup {NoProc}
    /\ named \in BOOLEAN

Init ==
    /\ lock = NoProc
    /\ queued \in BOOLEAN
    /\ pc = [p \in Procs |-> "down"]
    /\ cancelled = [p \in Procs |-> FALSE]
    /\ result = [p \in Procs |-> "none"]
    /\ outcome = [p \in Procs |-> "none"]
    /\ own = [p \in Procs |-> "none"]
    /\ exit = [p \in Polls |-> "none"]
    /\ marker \in BOOLEAN
    /\ age = 0
    /\ watch = "off"
    /\ warned = FALSE
    /\ owed = {}
    /\ orphaned = FALSE
    /\ earned = [p \in Polls |-> FALSE]
    /\ latest = NoProc
    /\ named = FALSE

Goto(p, stage) == pc' = [pc EXCEPT ![p] = stage]

\* The processes in P end, and their variables with them.
End(P) ==
    /\ pc' = [p \in Procs |-> IF p \in P THEN "down" ELSE pc[p]]
    /\ cancelled' = [p \in Procs |-> p \notin P /\ cancelled[p]]
    /\ result' = [p \in Procs |-> IF p \in P THEN "none" ELSE result[p]]
    /\ outcome' = [p \in Procs |-> IF p \in P THEN "none" ELSE outcome[p]]
    /\ own' = [p \in Procs |-> IF p \in P THEN "none" ELSE own[p]]
    /\ earned' = [p \in Polls |-> p \notin P /\ earned[p]]
    /\ lock' = IF lock \in P THEN NoProc ELSE lock
    /\ latest' = IF latest \in P THEN NoProc ELSE latest

\* SetChecked and Set: TRUE writes the file, FALSE removes it.
SetMarker(healthy) == marker' = healthy /\ age' = 0 /\ named' = FALSE

\* Mutant: Exclusive is built without its gate.
GateOpen(p) == TRUE

\* NewExclusive's gate: a cancelled context refuses the run.
Gate(p) == ~cancelled[p]

\* Exclusive calls the job: every demand recorded so far is now covered.
BeginRun(p) ==
    /\ Goto(p, "run")
    /\ lock' = p
    /\ outcome' = [outcome EXCEPT ![p] = "ran"]
    /\ latest' = p
    /\ owed' = {}
    /\ orphaned' = FALSE

-----------------------------------------------------------------------------
(* The daemon: run and RunLoop.                                            *)

\* run starts: unhealthy until it is wired up.
Boot ==
    /\ pc[Daemon] = "down"
    /\ Goto(Daemon, "boot")
    /\ SetMarker(FALSE)
    /\ UNCHANGED <<lockVars, cancelled, runVars, watchdog, history>>

\* Healthy on boot.  The built-in scheduler arms the watchdog; with
\* poll_interval off the daemon only waits.
BootDone ==
    /\ pc[Daemon] = "boot"
    /\ SetMarker(TRUE)
    /\ \/ Goto(Daemon, "wait") /\ watch' = "idle" /\ warned' = FALSE
       \/ Goto(Daemon, "resident") /\ UNCHANGED watchdog
    /\ UNCHANGED <<lockVars, cancelled, runVars, history>>

\* A tick that finds the lock free and its context alive runs the cycle.
TickRuns ==
    /\ pc[Daemon] = "wait"
    /\ lock = NoProc
    /\ Gate(Daemon)
    /\ BeginRun(Daemon)
    /\ UNCHANGED <<queued, cancelled, runVars, calm, earned>>

\* The closure RunLoop gives RunOrSkip: an unhealthy cycle under shutdown says
\* nothing; a verdict that cannot be written is logged and the old one stays.
RecordTick ==
    /\ pc[Daemon] = "record"
    /\ \/ /\ result[Daemon] = "healthy" \/ ~cancelled[Daemon]
          /\ SetMarker(result[Daemon] = "healthy")
       \/ UNCHANGED health
    /\ Goto(Daemon, "release")
    /\ UNCHANGED <<lockVars, cancelled, runVars, watchdog, history>>

\* RunLoop returns, the watchdog is stopped, the marker removed; the container
\* ends with its first process, and every poll in it.
DaemonExit ==
    /\ \/ pc[Daemon] = "boot"
       \/ pc[Daemon] \in {"wait", "resident"} /\ cancelled[Daemon]
    /\ watch = "off"
    /\ End(Procs)
    /\ orphaned' = (owed # {})
    /\ SetMarker(FALSE)
    /\ UNCHANGED <<queued, exit, watchdog, owed>>

-----------------------------------------------------------------------------
(* A poll: runPoll and RunOnce.                                            *)

PollStarts(p) ==
    /\ pc[p] = "down"
    /\ pc[Daemon] # "down"
    /\ Goto(p, "ask")
    /\ exit' = [exit EXCEPT ![p] = "none"]
    /\ UNCHANGED <<lockVars, cancelled, result, own, calm, history>>

\* Construction failed, or the context was cancelled before anything was asked.
PollRefused(p) ==
    /\ pc[p] = "ask"
    /\ End({p})
    /\ exit' = [exit EXCEPT ![p] = "one"]
    /\ UNCHANGED <<queued, calm, demand>>

\* The context is alive: RunOnce calls Exclusive.Run.
PollAsks(p) ==
    /\ pc[p] = "ask"
    /\ ~cancelled[p]
    /\ Goto(p, "enter")
    /\ UNCHANGED <<lockVars, cancelled, runVars, calm, history>>

EnterRuns(p) ==
    /\ pc[p] = "enter"
    /\ lock = NoProc
    /\ Gate(p)
    /\ BeginRun(p)
    /\ UNCHANGED <<queued, cancelled, runVars, calm, earned>>

EnterGated(p) ==
    /\ pc[p] = "enter"
    /\ lock = NoProc
    /\ ~Gate(p)
    /\ Goto(p, "return")
    /\ outcome' = [outcome EXCEPT ![p] = "gated"]
    /\ UNCHANGED <<lock, queued, cancelled, runVars, calm, history>>

\* The lock is taken: the request is queued, or is covered by the queued one.
EnterBusy(p) ==
    /\ pc[p] = "enter"
    /\ lock # NoProc
    /\ Goto(p, "return")
    /\ outcome' = [outcome EXCEPT ![p] = IF queued THEN "discarded" ELSE "queued"]
    /\ queued' = TRUE
    /\ owed' = owed \cup {p}
    /\ UNCHANGED <<lock, cancelled, runVars, calm, orphaned, earned, latest>>

\* The lock or queue file cannot be used: nothing ran, nothing was recorded.
EnterFails(p) ==
    /\ pc[p] = "enter"
    /\ Goto(p, "return")
    /\ UNCHANGED <<lockVars, cancelled, runVars, calm, history>>

\* Mutant: RunOnce does not ask whether anything ran.
OwnResultUnchecked(p) == own[p] \in {"none", "nil"}

\* A run of its own that returned nil; no run at all is a coordination failure.
OwnResult(p) == own[p] = "nil"

\* nonRunResult: recorded demand is success, a gated run is not.
NonRunResult(p) == outcome[p] \in {"queued", "discarded"}

\* RunOnce's exit contract: an interruption wins over every outcome.
PollReturns(p) ==
    /\ pc[p] = "return"
    /\ End({p})
    /\ exit' = [exit EXCEPT ![p] =
                   IF ~cancelled[p] /\ (NonRunResult(p) \/ OwnResult(p)) THEN "zero" ELSE "one"]
    /\ UNCHANGED <<queued, calm, demand>>

-----------------------------------------------------------------------------
(* The job Exclusive runs under the lock, and the reruns after it.         *)

\* Mutant: the lock is given back before the verdict is committed.
CycleEndsUnlocked(p) ==
    /\ pc[p] = "run"
    /\ \E r \in Results \ {"none"} :
          /\ r = "aborted" => cancelled[p]
          /\ result' = [result EXCEPT ![p] = r]
    /\ lock' = NoProc
    /\ Goto(p, "record")
    /\ UNCHANGED <<queued, outcome, cancelled, own, exit, calm, history>>

\* runCycle returns: a healthy cycle, a failed ingest or a recovered panic, or
\* one that shutdown cut short.
CycleEnds(p) ==
    /\ pc[p] = "run"
    /\ \E r \in Results \ {"none"} :
          /\ r = "aborted" => cancelled[p]
          /\ result' = [result EXCEPT ![p] = r]
    /\ Goto(p, "record")
    /\ UNCHANGED <<lockVars, cancelled, own, exit, calm, history>>

\* executeRuns keeps the outcome of the first execution.
OwnRun(p, err) == own' = [own EXCEPT ![p] = IF @ = "none" THEN err ELSE @]

\* recordRunHealth: the verdict is written.
Publish(p) ==
    LET healthy == result[p] = "healthy" IN
    /\ ~cancelled[p]
    /\ SetMarker(healthy)
    /\ OwnRun(p, IF healthy THEN "nil" ELSE "failed")
    /\ earned' = [earned EXCEPT ![p] = @ \/ (own[p] = "none" /\ healthy)]

\* Shutdown was seen: the run's result is no verdict.
Withhold(p) ==
    /\ cancelled[p]
    /\ OwnRun(p, "interrupted")
    /\ UNCHANGED <<health, earned>>

\* The marker cannot be written: the first run's error, a rerun's log line.
WriteFails(p) ==
    /\ ~cancelled[p]
    /\ OwnRun(p, "unwritten")
    /\ UNCHANGED <<health, earned>>

RecordPoll(p) ==
    /\ pc[p] = "record"
    /\ Publish(p) \/ Withhold(p) \/ WriteFails(p)
    /\ Goto(p, "release")
    /\ UNCHANGED <<lockVars, cancelled, result, exit, watchdog, demand, latest>>

\* The job returns and Exclusive unlocks.
Release(p) ==
    /\ pc[p] = "release"
    /\ lock' = NoProc
    /\ Goto(p, "between")
    /\ latest' = IF latest = p THEN NoProc ELSE latest
    /\ result' = [result EXCEPT ![p] = "none"]
    /\ UNCHANGED <<queued, outcome, cancelled, own, exit, calm, demand, earned>>

\* Where a process goes once it has nothing more to serve.
Leave(p) == Goto(p, IF p = Daemon THEN "wait" ELSE "return")

\* A request is on file: it is taken and served under a fresh acquisition.
Rerun(p) ==
    /\ pc[p] = "between"
    /\ queued
    /\ lock = NoProc
    /\ Gate(p)
    /\ queued' = FALSE
    /\ BeginRun(p)
    /\ UNCHANGED <<cancelled, runVars, calm, earned>>

\* Shutdown refuses the rerun, or the queue file cannot be read: the request
\* may be left on file or be gone with this process.
RerunRefused(p) ==
    /\ pc[p] = "between"
    /\ queued
    /\ queued' \in BOOLEAN
    /\ ~queued' => ~Gate(p)
    /\ orphaned' = (owed # {})
    /\ Leave(p)
    /\ UNCHANGED <<lock, outcome, cancelled, runVars, calm, owed, earned, latest>>

\* Mutant: the process leaves without looking at the queue.
NothingQueuedUnchecked(p) ==
    /\ pc[p] = "between"
    /\ Leave(p)
    /\ UNCHANGED <<lockVars, cancelled, runVars, calm, history>>

\* Nothing to serve, or another process holds the lock and will serve it.
NothingQueued(p) ==
    /\ pc[p] = "between"
    /\ ~queued \/ lock # NoProc
    /\ Leave(p)
    /\ UNCHANGED <<lockVars, cancelled, runVars, calm, history>>

-----------------------------------------------------------------------------
(* The watchdog: watchMarker and checkMarkerAge.                           *)

\* One period of the ticker.  Periods are half an hour or more: the check of
\* the last one is over, and a stopped goroutine has left.
Elapse ==
    /\ watch = "idle"
    /\ ~cancelled[Daemon]
    /\ age' = IF marker /\ age < Lease + 2 THEN age + 1 ELSE age
    /\ watch' = "due"
    /\ UNCHANGED <<lockVars, pc, cancelled, runVars, marker, warned, named, history>>

\* health.Inspect's reading of a marker older than the lease.
Stale == marker /\ age > Lease

\* Mutant: a fresh marker does not clear the latch.
CheckFreshLatched ==
    /\ watch = "due"
    /\ ~Stale
    /\ watch' = "idle"
    /\ UNCHANGED <<lockVars, pc, cancelled, runVars, health, warned, history>>

\* A fresh marker clears the latch; one that cannot be aged leaves it.
CheckFresh ==
    /\ watch = "due"
    /\ ~Stale
    /\ watch' = "idle"
    /\ warned' = (warned /\ ~marker)
    /\ UNCHANGED <<lockVars, pc, cancelled, runVars, health, history>>

\* health.Inspect reads a stale marker; the wedge is logged once.
CheckStale ==
    /\ watch = "due"
    /\ Stale
    /\ watch' = "stale"
    /\ named' = (named \/ ~warned)
    /\ UNCHANGED <<lockVars, pc, cancelled, runVars, marker, age, warned, history>>

\* marker.Set(false), on what Inspect read.
MarkWedged ==
    /\ watch = "stale"
    /\ SetMarker(FALSE)
    /\ warned' = TRUE
    /\ watch' = "idle"
    /\ UNCHANGED <<lockVars, pc, cancelled, runVars, history>>

\* ctx.Done, or the func StartWedgeWatchdog returned.
WatchStops ==
    /\ watch \in {"idle", "due"}
    /\ cancelled[Daemon]
    /\ watch' = "off"
    /\ warned' = FALSE
    /\ UNCHANGED <<lockVars, pc, cancelled, runVars, health, history>>

-----------------------------------------------------------------------------
(* Signals and deaths.                                                     *)

Signal(p) ==
    /\ pc[p] # "down"
    /\ ~cancelled[p]
    /\ cancelled' = [cancelled EXCEPT ![p] = TRUE]
    /\ UNCHANGED <<lockVars, pc, runVars, calm, history>>

\* A poll is killed: the kernel frees its lock, the queue file stays.
PollKilled(p) ==
    /\ pc[p] # "down"
    /\ End({p})
    /\ orphaned' = (orphaned \/ (owed # {} /\ pc[p] \in Serving))
    /\ UNCHANGED <<queued, exit, calm, owed>>

\* The container is killed: every process ends, no deferred call runs.
ContainerKilled ==
    /\ pc[Daemon] # "down"
    /\ End(Procs)
    /\ watch' = "off"
    /\ warned' = FALSE
    /\ orphaned' = (owed # {})
    /\ UNCHANGED <<queued, exit, health, owed>>

-----------------------------------------------------------------------------
PollStep(p) ==
    \/ PollStarts(p) \/ PollRefused(p) \/ PollAsks(p)
    \/ EnterRuns(p) \/ EnterGated(p) \/ EnterBusy(p) \/ EnterFails(p)
    \/ RecordPoll(p) \/ PollReturns(p) \/ PollKilled(p)

DaemonStep ==
    Boot \/ BootDone \/ TickRuns \/ RecordTick \/ DaemonExit \/ ContainerKilled

RunStep(p) ==
    \/ CycleEnds(p) \/ Release(p)
    \/ Rerun(p) \/ RerunRefused(p) \/ NothingQueued(p)
    \/ Signal(p)

WatchStep == Elapse \/ CheckFresh \/ CheckStale \/ MarkWedged \/ WatchStops

Next ==
    \/ \E p \in Polls : PollStep(p)
    \/ \E p \in Procs : RunStep(p)
    \/ DaemonStep
    \/ WatchStep

\* Every process runs on, and a cycle returns once its context is cancelled:
\* what it waits for (requests, pauses, saves) is bound to the context or to
\* a deadline.  A cycle nobody cancels may hang; no tick and no poll is
\* promised, and nobody is killed or signalled of necessity.
Fairness ==
    /\ \A p \in Polls : WF_vars(PollRefused(p) \/ PollAsks(p))
                      /\ WF_vars(EnterRuns(p) \/ EnterGated(p) \/ EnterBusy(p))
                      /\ WF_vars(RecordPoll(p))
                      /\ WF_vars(PollReturns(p))
    /\ \A p \in Procs : WF_vars(cancelled[p] /\ CycleEnds(p))
                      /\ WF_vars(Release(p))
                      /\ WF_vars(Rerun(p) \/ RerunRefused(p) \/ NothingQueued(p))
    /\ WF_vars(RecordTick)
    /\ WF_vars(BootDone)
    /\ WF_vars(DaemonExit)
    /\ WF_vars(CheckFresh \/ CheckStale)
    /\ WF_vars(MarkWedged)
    /\ WF_vars(WatchStops)

Spec == Init /\ [][Next]_vars
FairSpec == Spec /\ Fairness

-----------------------------------------------------------------------------
(* Properties.                                                             *)

\* The cycle lock covers a run from its start to the commit of its verdict,
\* and the run begun last is the one that holds it.
LockCoversRun ==
    /\ \A p \in Procs : pc[p] \in Running => lock = p /\ latest = p
    /\ lock # NoProc => pc[lock] \in Running

\* What a run being recorded returned; only shutdown cuts a cycle short.
ResultsKnown ==
    \A p \in Procs :
        /\ pc[p] = "record" => result[p] # "none"
        /\ result[p] = "aborted" => cancelled[p]

\* A poll's own run returned nil only with its verdict on the marker.
NilIsEarned == \A p \in Polls : own[p] = "nil" => earned[p]

\* A latch left by an earlier wedge meets a refreshed marker once, and clears.
LatchIsBrief == warned /\ marker => age = 0 \/ (age = 1 /\ watch = "due")

\* The marker's age, against the watchdog that looks at it every period.
AgeBounded ==
    /\ age <= Lease + 1
    /\ watch = "idle" => age <= Lease
    /\ ~marker => age = 0

\* The inductive invariant: one run at a time, under the lock, and what the
\* exit code, the verdict and the watchdog's latch rest on.
IInv == /\ TypeOK
        /\ LockCoversRun
        /\ ResultsKnown
        /\ NilIsEarned
        /\ LatchIsBrief
        /\ AgeBounded

\* A poll told that its demand stands is right: the request is on file, and a
\* live process will look at the file before it leaves, unless the one that
\* should have was shut down or killed, or could not use the queue file.
DemandStands ==
    owed # {} => orphaned \/ (queued /\ \E p \in Procs : pc[p] \in Serving)

\* What a poll's exit 0 rests on: its own first run was healthy and its verdict
\* is on the marker, or its demand was accepted (RunOnce's exit contract).
ExitZeroIsEarned ==
    [][\A p \in Polls : exit[p] = "none" /\ exit'[p] = "zero" =>
          earned[p] \/ outcome[p] \in {"queued", "discarded"}]_vars

\* The marker says what the latest cycle found: no verdict replaces that of a
\* cycle that began later (TestHealthPublishedInsideCycleLock), and none
\* withdraws it for a shutdown (TestRunLoopShutdownMidCycle).
VerdictsTrue ==
    [][\A p \in Procs : pc[p] = "record" /\ pc'[p] = "release" =>
          /\ health' # health => latest = p
          /\ marker /\ ~marker' => result[p] = "failed"]_vars

\* Every wedge is named: when the watchdog withdraws the marker, an ERROR has
\* been logged since the verdict it withdraws was written.
EachWedgeNamed == watch = "stale" /\ Stale => named

\* A wedge is reported within lease + lease/watchdogPollDivisor: a running
\* daemon's watchdog never leaves a marker older than that.
WedgeReportedInTime ==
    watch # "off" /\ ~cancelled[Daemon] => age <= Lease + 1

\* The watchdog's report of a wedge is neither missing its cause nor late.
WedgesReported == EachWedgeNamed /\ WedgeReportedInTime

\* A process told to stop stops, whatever the others keep asking of it: no
\* chain of queued reruns outlives its shutdown.
ShutdownEnds == \A p \in Procs : cancelled[p] ~> pc[p] = "down"
=============================================================================
