------------------------ MODULE SnapshotCacheProofs ------------------------
(* The cache implements the feed server's promise for any number of        *)
(* requests and writes, when the file has no writer but passes while one   *)
(* is handing over its snapshot.                                           *)
EXTENDS SnapshotCache, TLAPS

USE MaxGenAssumption, OperatorAssumption

\* Installing a written generation keeps the cache's types and can only raise
\* the install order.
LEMMA InstallTypes ==
    ASSUME TypeOK, NEW g \in 0..MaxGen, NEW id \in 0..MaxGen,
           InstallSnapshot(g, id)
    PROVE  /\ served' \in 0..MaxGen /\ snapID' \in 0..MaxGen
           /\ installSeq' \in Nat /\ snapFailed' \in BOOLEAN
           /\ warned' \in BOOLEAN
<1>1. CASE Matches(snapID, id)
  BY <1>1 DEF InstallSnapshot, TypeOK, cacheVars
<1>2. CASE ~Matches(snapID, id)
  <2>1. /\ served' = g /\ snapID' = id /\ installSeq' = installSeq + 1
        /\ snapFailed' = FALSE /\ warned' = FALSE
    BY <1>2 DEF InstallSnapshot
  <2>2. installSeq + 1 \in Nat
    BY DEF TypeOK
  <2> QED BY <2>1, <2>2
<1> QED BY <1>1, <1>2

\* The zero FileIdentity is in range.
LEMMA ZeroIsGen == 0 \in 0..MaxGen
OBVIOUS

\* Every step of the loader keeps the variables in their types.
LEMMA LoaderTypes == TypeOK /\ (RefreshTick \/ LoaderStep) => TypeOK'
<1> SUFFICES ASSUME TypeOK, RefreshTick \/ LoaderStep PROVE TypeOK'
    OBVIOUS
<1> USE DEF fileVars, cacheVars, passVars, reqVars
<1>1. CASE RefreshTick
  BY <1>1 DEF RefreshTick, TypeOK
<1>2. CASE OpenFault
  BY <1>2 DEF OpenFault, MarkSnapshotFailedIfUnloaded, LoadDone, TypeOK
<1>3. CASE OpenAbsent
  BY <1>3 DEF OpenAbsent, LoadDone, TypeOK
<1>4. CASE AbsentClears
  BY <1>4 DEF AbsentClears, ClearSnapshotFailed, LoadDone, TypeOK
<1>5. CASE OpenOk
  BY <1>5 DEF OpenOk, TypeOK
<1>6. CASE SkipMemoizedMalformed
  BY <1>6 DEF SkipMemoizedMalformed, MarkSnapshotFailedIfUnloaded, LoadDone, TypeOK
<1>7. CASE SkipUnchanged
  BY <1>7 DEF SkipUnchanged, LoadDone, TypeOK
<1>8. CASE CheckPasses
  BY <1>8 DEF CheckPasses, TypeOK
<1>9. CASE ReadFails
  <2>1. /\ failedID' \in {0, fd.gen}
        /\ degraded' = TRUE \/ degraded' = degraded
        /\ lastLoad' \in {"fault", "bad"}
    BY <1>9 DEF ReadFails, LoadDone
  <2>4. fd.gen \in 0..MaxGen /\ 0 \in 0..MaxGen
    BY DEF TypeOK
  <2>2. lpc' = "idle" /\ firstLoad' = TRUE
    BY <1>9 DEF ReadFails, LoadDone
  <2>3. snapFailed' \in BOOLEAN /\ UNCHANGED <<served, snapID, installSeq, warned>>
    BY <1>9 DEF ReadFails, MarkSnapshotFailedIfUnloaded, TypeOK
  <2> QED BY <1>9, <2>1, <2>2, <2>3, <2>4 DEF ReadFails, TypeOK
<1>10. CASE ReadOk
  <2>1. failedID' \in 0..MaxGen /\ degraded' \in BOOLEAN /\ lpc' = "install"
    BY <1>10, ZeroIsGen DEF ReadOk
  <2> QED BY <1>10, <2>1 DEF ReadOk, TypeOK
<1>11. CASE InstallLoaded
  <2>1. fd.gen \in 0..MaxGen
    BY DEF TypeOK
  <2>2. /\ served' \in 0..MaxGen /\ snapID' \in 0..MaxGen
        /\ installSeq' \in Nat /\ snapFailed' \in BOOLEAN
        /\ warned' \in BOOLEAN
    BY <1>11, <2>1, InstallTypes DEF InstallLoaded, TypeOK
  <2> QED BY <1>11, <2>2 DEF InstallLoaded, LoadDone, TypeOK
<1> QED BY <1>1, <1>2, <1>3, <1>4, <1>5, <1>6, <1>7, <1>8, <1>9, <1>10, <1>11
        DEF LoaderStep

\* Every step of the writers, the requests and the environment keeps the
\* variables in their types.
LEMMA OtherTypes ==
    ASSUME TypeOK,
           PassStep \/ PollWrites \/ OperatorWrites \/ PathToggles \/ FaultToggles
             \/ (\E r \in Requests : RequestStep(r)) \/ Restart
    PROVE  TypeOK'
<1> USE DEF fileVars, cacheVars, loadVars, passVars, reqVars
<1>1. CASE PassWrites
  BY <1>1 DEF PassWrites, WriteFile, TypeOK, Kinds
<1>2. CASE PassStats
  BY <1>2 DEF PassStats, TypeOK
<1>3. CASE Publish
  <2>1. pub.gen \in 0..MaxGen /\ pub.id \in 0..MaxGen
    BY DEF TypeOK
  <2>2. /\ served' \in 0..MaxGen /\ snapID' \in 0..MaxGen
        /\ installSeq' \in Nat /\ snapFailed' \in BOOLEAN
        /\ warned' \in BOOLEAN
    BY <1>3, <2>1, InstallTypes DEF Publish
  <2> QED BY <1>3, <2>2 DEF Publish, TypeOK
<1>4. CASE PollWrites
  BY <1>4 DEF PollWrites, WriteFile, TypeOK, Kinds
<1>5. CASE OperatorWrites
  BY <1>5 DEF OperatorWrites, WriteFile, TypeOK
<1>6. CASE PathToggles \/ FaultToggles
  <2>1. present' \in BOOLEAN /\ ioFault' \in BOOLEAN
    BY <1>6 DEF PathToggles, FaultToggles, TypeOK
  <2> QED BY <1>6, <2>1 DEF PathToggles, FaultToggles, TypeOK
<1>7. ASSUME NEW r \in Requests, RequestStep(r) PROVE TypeOK'
  <2>1. CASE RequestBegins(r)
    BY <2>1 DEF RequestBegins, installed, TypeOK
  <2>2. CASE RequestReads(r)
    <3>1. /\ saw' \in [Requests -> [failed : BOOLEAN, warned : BOOLEAN]]
          /\ UNCHANGED <<early, fileVars, cacheVars, loadVars, passVars>>
      BY <2>2 DEF RequestReads, TypeOK
    <3>2. \/ UNCHANGED reply /\ \E s \in {"pending", "escalate"} :
                 rpc' = [rpc EXCEPT ![r] = s]
          \/ \E a \in {"feed", "error"} : Answer(r, a)
      BY <2>2 DEF RequestReads
    <3>3. /\ reply' \in [Requests -> {"none", "feed", "error"}]
          /\ rpc' \in [Requests -> {"idle", "begun", "pending", "escalate"}]
      BY <3>2 DEF Answer, TypeOK
    <3> QED BY <3>1, <3>3 DEF TypeOK
  <2>3. CASE RequestChecksPending(r)
    BY <2>3 DEF RequestChecksPending, Answer, TypeOK
  <2>4. CASE RequestEscalates(r)
    <3>1. warned' \in BOOLEAN
          /\ UNCHANGED <<served, snapID, installSeq, snapFailed>>
      BY <2>4 DEF RequestEscalates, TypeOK
    <3>2. /\ reply' \in [Requests -> {"none", "feed", "error"}]
          /\ rpc' \in [Requests -> {"idle", "begun", "pending", "escalate"}]
      BY <2>4 DEF RequestEscalates, Answer, TypeOK
    <3> QED BY <2>4, <3>1, <3>2 DEF RequestEscalates, TypeOK
  <2> QED BY <1>7, <2>1, <2>2, <2>3, <2>4 DEF RequestStep
<1>8. CASE Restart
  <2>1. /\ served' \in 0..MaxGen /\ snapID' \in 0..MaxGen
        /\ failedID' \in 0..MaxGen
        /\ installSeq' \in Nat /\ readFrom' \in Nat
    BY <1>8, ZeroIsGen DEF Restart
  <2>2. /\ fd' \in [gen : 0..MaxGen, kind : Kinds]
        /\ pub' \in [gen : 0..MaxGen, id : 0..MaxGen]
    BY <1>8, ZeroIsGen DEF Restart, Kinds
  <2>3. /\ snapFailed' \in BOOLEAN /\ warned' \in BOOLEAN
        /\ snapMissing' \in BOOLEAN /\ degraded' \in BOOLEAN
        /\ firstLoad' \in BOOLEAN
    BY <1>8 DEF Restart
  <2>4. /\ rpc' \in [Requests -> {"idle", "begun", "pending", "escalate"}]
        /\ saw' \in [Requests -> [failed : BOOLEAN, warned : BOOLEAN]]
        /\ reply' \in [Requests -> {"none", "feed", "error"}]
        /\ early' \in [Requests -> BOOLEAN]
    BY <1>8 DEF Restart
  <2> QED BY <1>8, <2>1, <2>2, <2>3, <2>4 DEF Restart, TypeOK
<1> QED BY <1>1, <1>2, <1>3, <1>4, <1>5, <1>6, <1>7, <1>8 DEF PassStep

\* The loader's steps keep what is served within what was written and never
\* behind a load still in flight.
LEMMA LoaderSafe ==
    ASSUME IInv, RefreshTick \/ LoaderStep
    PROVE  ServedWasWritten' /\ PublishIsNewest' /\ LoadIsCurrent'
<1> USE DEF IInv, TypeOK, ServedWasWritten, PublishIsNewest, LoadIsCurrent,
            fileVars, cacheVars, passVars
<1>1. CASE RefreshTick
  BY <1>1 DEF RefreshTick
<1>2. CASE OpenFault \/ AbsentClears \/ SkipMemoizedMalformed \/ ReadFails
  BY <1>2 DEF OpenFault, AbsentClears, SkipMemoizedMalformed, ReadFails,
              MarkSnapshotFailedIfUnloaded, ClearSnapshotFailed, LoadDone
<1>3. CASE OpenAbsent \/ SkipUnchanged
  BY <1>3 DEF OpenAbsent, SkipUnchanged, LoadDone
<1>4. CASE OpenOk
  BY <1>4 DEF OpenOk
<1>5. CASE CheckPasses \/ ReadOk
  BY <1>5 DEF CheckPasses, ReadOk
<1>6. CASE InstallLoaded
  BY <1>6 DEF InstallLoaded, InstallSnapshot, LoadDone
<1> QED BY <1>1, <1>2, <1>3, <1>4, <1>5, <1>6 DEF LoaderStep

\* So do the writers, while no operator writes inside a hand-over.
LEMMA OtherSafe ==
    ASSUME OperatorMidPass = FALSE, IInv,
           PassStep \/ PollWrites \/ OperatorWrites \/ PathToggles \/ FaultToggles
             \/ (\E r \in Requests : RequestStep(r)) \/ Restart
    PROVE  ServedWasWritten' /\ PublishIsNewest' /\ LoadIsCurrent'
<1> USE DEF IInv, TypeOK, ServedWasWritten, PublishIsNewest, LoadIsCurrent,
            fileVars, cacheVars, loadVars, passVars
<1>1. CASE PassWrites
  BY <1>1 DEF PassWrites, WriteFile
<1>2. CASE PassStats
  BY <1>2 DEF PassStats
<1>3. CASE Publish
  BY <1>3 DEF Publish, InstallSnapshot, Matches
<1>4. CASE PollWrites
  BY <1>4 DEF PollWrites, WriteFile
<1>5. CASE OperatorWrites
  BY <1>5 DEF OperatorWrites, WriteFile
<1>6. CASE PathToggles \/ FaultToggles
  BY <1>6 DEF PathToggles, FaultToggles
<1>7. CASE \E r \in Requests : RequestStep(r)
  BY <1>7 DEF RequestStep, RequestBegins, RequestReads, RequestChecksPending,
              RequestEscalates
<1>8. CASE Restart
  BY <1>8 DEF Restart
<1> QED BY <1>1, <1>2, <1>3, <1>4, <1>5, <1>6, <1>7, <1>8 DEF PassStep

\* The cache starts within its types.
LEMMA InitTypes == Init => TypeOK
<1> SUFFICES ASSUME Init PROVE TypeOK
    OBVIOUS
<1>1. /\ gen \in 0..MaxGen /\ served \in 0..MaxGen /\ snapID \in 0..MaxGen
      /\ failedID \in 0..MaxGen
      /\ installSeq \in Nat /\ readFrom \in Nat
  BY ZeroIsGen DEF Init
<1>2. /\ fd \in [gen : 0..MaxGen, kind : Kinds]
      /\ pub \in [gen : 0..MaxGen, id : 0..MaxGen]
  BY ZeroIsGen DEF Init, Kinds
<1>3. /\ snapFailed \in BOOLEAN /\ warned \in BOOLEAN
      /\ snapMissing \in BOOLEAN /\ degraded \in BOOLEAN
      /\ firstLoad \in BOOLEAN /\ present \in BOOLEAN
  BY DEF Init
<1>4. /\ rpc \in [Requests -> {"idle", "begun", "pending", "escalate"}]
      /\ saw \in [Requests -> [failed : BOOLEAN, warned : BOOLEAN]]
      /\ reply \in [Requests -> {"none", "feed", "error"}]
      /\ early \in [Requests -> BOOLEAN]
  BY DEF Init
<1> QED BY <1>1, <1>2, <1>3, <1>4 DEF Init, TypeOK

\* The inductive invariant holds of every behaviour.
THEOREM Invariance ==
    ASSUME OperatorMidPass = FALSE PROVE Spec => []IInv
<1>1. Init => IInv
  <2> SUFFICES ASSUME Init PROVE IInv
      OBVIOUS
  <2>1. TypeOK
    BY InitTypes
  <2>2. ServedWasWritten /\ PublishIsNewest /\ LoadIsCurrent
    BY <2>1 DEF TypeOK, Init, ServedWasWritten, PublishIsNewest, LoadIsCurrent
  <2> QED BY <2>1, <2>2 DEF IInv
<1>2. IInv /\ [Next]_vars => IInv'
  <2> SUFFICES ASSUME IInv, [Next]_vars PROVE IInv'
    OBVIOUS
  <2>1. CASE UNCHANGED vars
    BY <2>1 DEF vars, fileVars, cacheVars, loadVars, passVars, reqVars, IInv,
                TypeOK, ServedWasWritten, PublishIsNewest, LoadIsCurrent
  <2>2. CASE RefreshTick \/ LoaderStep
    BY <2>2, LoaderTypes, LoaderSafe DEF IInv
  <2>3. CASE PassStep \/ PollWrites \/ OperatorWrites \/ PathToggles
             \/ FaultToggles \/ (\E r \in Requests : RequestStep(r)) \/ Restart
    BY <2>3, OtherTypes, OtherSafe DEF IInv
  <2> QED BY <2>1, <2>2, <2>3 DEF Next
<1> QED BY <1>1, <1>2, PTL DEF Spec

\* A file taken for the one already loaded is the one being served.
THEOREM UnchangedIsLoaded ==
    ASSUME OperatorMidPass = FALSE PROVE Spec => []UnchangedMeansLoaded
<1>1. IInv => UnchangedMeansLoaded
  BY DEF IInv, ServedWasWritten, UnchangedMeansLoaded, Unchanged, Matches
<1> QED BY <1>1, Invariance, PTL

\* An install serves the same snapshot again, or a newer one.
LEMMA InstallAdvances ==
    ASSUME IInv, NEW g \in served..gen, NEW id, InstallSnapshot(g, id),
           UNCHANGED gen
    PROVE  Feed!Advance \/ UNCHANGED <<gen, served>>
BY DEF InstallSnapshot, Feed!Advance, cacheVars, IInv, TypeOK, ServedWasWritten

\* The cache implements the feed server's promise: newer snapshots only, and
\* only written ones, until a restart.
THEOREM Refinement ==
    ASSUME OperatorMidPass = FALSE PROVE Spec => ImplementsServedFeed
<1>1. Init => Feed!FeedInit
  BY DEF Init, Feed!FeedInit
<1>2. IInv /\ [Next]_vars => [Feed!FeedNext]_<<gen, served>>
  <2> SUFFICES ASSUME IInv, [Next]_vars
               PROVE  Feed!FeedNext \/ UNCHANGED <<gen, served>>
    OBVIOUS
  <2> USE DEF fileVars, cacheVars
  <2>1. CASE PassWrites \/ PollWrites \/ OperatorWrites
    BY <2>1 DEF PassWrites, PollWrites, OperatorWrites, WriteFile,
                Feed!FeedNext, Feed!Write
  <2>2. CASE Publish
    <3>1. pub.gen \in served..gen
      BY <2>2 DEF Publish, IInv, TypeOK, PublishIsNewest, ServedWasWritten
    <3>2. InstallSnapshot(pub.gen, pub.id) /\ UNCHANGED gen
      BY <2>2 DEF Publish
    <3> QED BY <3>1, <3>2, InstallAdvances DEF Feed!FeedNext
  <2>3. CASE InstallLoaded
    <3>1. CASE readFrom = installSeq
      <4>1. fd.gen \in served..gen
        BY <2>3, <3>1 DEF InstallLoaded, IInv, TypeOK, LoadIsCurrent
      <4>2. InstallSnapshot(fd.gen, fd.gen) /\ UNCHANGED gen
        BY <2>3, <3>1 DEF InstallLoaded
      <4> QED BY <4>1, <4>2, InstallAdvances DEF Feed!FeedNext
    <3>2. CASE readFrom # installSeq
      BY <2>3, <3>2 DEF InstallLoaded
    <3> QED BY <3>1, <3>2
  <2>4. CASE Restart
    BY <2>4 DEF Restart, Feed!FeedNext, Feed!Forget
  <2>5. CASE RefreshTick \/ (LoaderStep /\ ~InstallLoaded)
    BY <2>5 DEF RefreshTick, LoaderStep, OpenFault, OpenAbsent, AbsentClears,
                OpenOk, SkipMemoizedMalformed, SkipUnchanged, CheckPasses,
                ReadFails, ReadOk, MarkSnapshotFailedIfUnloaded,
                ClearSnapshotFailed
  <2>6. CASE PassStats \/ PathToggles \/ FaultToggles
    BY <2>6 DEF PassStats, PathToggles, FaultToggles
  <2>7. CASE \E r \in Requests : RequestStep(r)
    BY <2>7 DEF RequestStep, RequestBegins, RequestReads,
                RequestChecksPending, RequestEscalates
  <2>8. CASE UNCHANGED vars
    BY <2>8 DEF vars
  <2> QED BY <2>1, <2>2, <2>3, <2>4, <2>5, <2>6, <2>7, <2>8 DEF Next, PassStep
<1> QED BY <1>1, <1>2, Invariance, PTL
        DEF Spec, ImplementsServedFeed, Feed!FeedSpec, Feed!svars

-----------------------------------------------------------------------------
(* What a request is told, for any number of requests and wherever the     *)
(* operator writes.                                                        *)

\* Whatever may be installed next holds a written generation, so that an
\* install, once there was one, is never undone within a process.
InstallsWritten ==
    /\ present => gen # 0
    /\ ppc # "idle" => pub.gen # 0
    /\ lpc \in {"check", "read", "install"} => fd.gen # 0
    /\ readFrom <= installSeq
    /\ installSeq # 0 \/ snapID # 0 => installed

\* A fault is held against the feed only while nothing is installed.
FaultMeansNothing == snapFailed => ~installed

\* A request that saw a snapshot when it began still sees it at its first look,
\* and never goes past that look.
EarlySawServed ==
    \A r \in Requests :
        /\ early[r] /\ rpc[r] = "begun" => installed
        /\ early[r] => rpc[r] \notin {"pending", "escalate"}

\* What every step preserves of the answers.
AnswersInv ==
    /\ TypeOK /\ InstallsWritten /\ FaultMeansNothing /\ EarlySawServed
    /\ HonestAnswers

\* An install leaves a snapshot served and no fault held against it.
LEMMA InstallServes ==
    ASSUME TypeOK, InstallsWritten, FaultMeansNothing,
           NEW g \in Nat \ {0}, NEW id, InstallSnapshot(g, id)
    PROVE  installed' /\ ~snapFailed' /\ installSeq' >= installSeq
<1> USE DEF TypeOK, InstallsWritten, FaultMeansNothing
<1>1. CASE Matches(snapID, id)
  BY <1>1 DEF InstallSnapshot, Matches, cacheVars, installed
<1>2. CASE ~Matches(snapID, id)
  BY <1>2 DEF InstallSnapshot, installed
<1> QED BY <1>1, <1>2

\* The loader's steps.
LEMMA LoaderHonest ==
    ASSUME AnswersInv, RefreshTick \/ LoaderStep
    PROVE  AnswersInv'
<1> USE DEF AnswersInv, TypeOK, InstallsWritten, FaultMeansNothing, EarlySawServed,
            HonestAnswers, NoSilentEmpty, NoStaleError, installed,
            fileVars, cacheVars, passVars, reqVars
<1>1. TypeOK'
  BY LoaderTypes
<1>2. CASE RefreshTick
  BY <1>1, <1>2 DEF RefreshTick
<1>3. CASE OpenFault \/ SkipMemoizedMalformed \/ ReadFails
  BY <1>1, <1>3 DEF OpenFault, SkipMemoizedMalformed, ReadFails,
                    MarkSnapshotFailedIfUnloaded, LoadDone
<1>4. CASE OpenAbsent \/ AbsentClears
  BY <1>1, <1>4 DEF OpenAbsent, AbsentClears, ClearSnapshotFailed, LoadDone
<1>5. CASE OpenOk \/ CheckPasses \/ ReadOk
  BY <1>1, <1>5 DEF OpenOk, CheckPasses, ReadOk
<1>6. CASE SkipUnchanged
  BY <1>1, <1>6 DEF SkipUnchanged, Unchanged, Matches, LoadDone
<1>7. CASE InstallLoaded
  <2>1. installed' /\ ~snapFailed' /\ installSeq' >= installSeq
    <3>1. CASE readFrom = installSeq
      BY <1>7, <3>1, InstallServes DEF InstallLoaded
    <3>2. CASE readFrom # installSeq
      BY <1>7, <3>2 DEF InstallLoaded
    <3> QED BY <3>1, <3>2
  <2> QED BY <1>1, <1>7, <2>1 DEF InstallLoaded, LoadDone
<1> QED BY <1>2, <1>3, <1>4, <1>5, <1>6, <1>7 DEF LoaderStep

\* The writers' steps, the requests' and a restart.
LEMMA OtherHonest ==
    ASSUME AnswersInv,
           PassStep \/ PollWrites \/ OperatorWrites \/ PathToggles \/ FaultToggles
             \/ (\E r \in Requests : RequestStep(r)) \/ Restart
    PROVE  AnswersInv'
<1> USE DEF AnswersInv, TypeOK, InstallsWritten, FaultMeansNothing, EarlySawServed,
            HonestAnswers, NoSilentEmpty, NoStaleError, installed,
            fileVars, cacheVars, loadVars, passVars, reqVars
<1>1. TypeOK'
  BY OtherTypes
<1>2. CASE PassWrites
  BY <1>1, <1>2 DEF PassWrites, WriteFile
<1>3. CASE PassStats
  BY <1>1, <1>3 DEF PassStats
<1>4. CASE Publish
  <2>1. installed' /\ ~snapFailed' /\ installSeq' >= installSeq
    BY <1>4, InstallServes DEF Publish
  <2> QED BY <1>1, <1>4, <2>1 DEF Publish
<1>5. CASE PollWrites \/ OperatorWrites
  BY <1>1, <1>5 DEF PollWrites, OperatorWrites, WriteFile
<1>6. CASE PathToggles \/ FaultToggles
  BY <1>1, <1>6 DEF PathToggles, FaultToggles
<1>7. ASSUME NEW r \in Requests, RequestStep(r) PROVE AnswersInv'
  <2>1. CASE RequestBegins(r)
    BY <1>1, <2>1 DEF RequestBegins
  <2>2. CASE RequestReads(r)
    BY <1>1, <2>2 DEF RequestReads, Answer
  <2>3. CASE RequestChecksPending(r)
    BY <1>1, <2>3 DEF RequestChecksPending, Answer
  <2>4. CASE RequestEscalates(r)
    BY <1>1, <2>4 DEF RequestEscalates, Answer
  <2> QED BY <1>7, <2>1, <2>2, <2>3, <2>4 DEF RequestStep
<1>8. CASE Restart
  BY <1>1, <1>8 DEF Restart
<1> QED BY <1>2, <1>3, <1>4, <1>5, <1>6, <1>7, <1>8 DEF PassStep

\* What a request is told is true of the feed, however many requests race the
\* two producers and even when the operator writes inside a hand-over.
THEOREM AnswersHonest == Spec => []HonestAnswers
<1>1. Init => AnswersInv
  <2> SUFFICES ASSUME Init PROVE AnswersInv
      OBVIOUS
  <2>1. TypeOK
    BY InitTypes
  <2>2. InstallsWritten /\ FaultMeansNothing /\ NoSilentEmpty
    BY <2>1 DEF Init, TypeOK, InstallsWritten, FaultMeansNothing, NoSilentEmpty, installed
  <2>3. EarlySawServed /\ NoStaleError
    BY DEF Init, EarlySawServed, NoStaleError
  <2> QED BY <2>1, <2>2, <2>3 DEF AnswersInv, HonestAnswers
<1>2. AnswersInv /\ [Next]_vars => AnswersInv'
  <2> SUFFICES ASSUME AnswersInv, [Next]_vars PROVE AnswersInv'
    OBVIOUS
  <2>1. CASE UNCHANGED vars
    BY <2>1 DEF vars, fileVars, cacheVars, loadVars, passVars, reqVars, AnswersInv, TypeOK,
                InstallsWritten, FaultMeansNothing, EarlySawServed, HonestAnswers,
                NoSilentEmpty, NoStaleError, installed
  <2>2. CASE RefreshTick \/ LoaderStep
    BY <2>2, LoaderHonest
  <2>3. CASE PassStep \/ PollWrites \/ OperatorWrites \/ PathToggles
             \/ FaultToggles \/ (\E r \in Requests : RequestStep(r)) \/ Restart
    BY <2>3, OtherHonest
  <2> QED BY <2>1, <2>2, <2>3 DEF Next
<1>3. AnswersInv => HonestAnswers
  BY DEF AnswersInv
<1> QED BY <1>1, <1>2, <1>3, PTL DEF Spec
=============================================================================
